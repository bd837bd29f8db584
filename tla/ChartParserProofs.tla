-------------------------- MODULE ChartParserProofs --------------------------
(* Theorems about the rule lookup of ChartParser, for any sentence, tables,    *)
(* spans, clauses and limits: what a dotted rule collection holds while it     *)
(* grows under the loop that reads it, that the lookup finds every application *)
(* of a rule once, and what the bounded list keeps of them.                    *)
EXTENDS ChartParser, FiniteSetTheorems, WellFoundedInduction, TLAPS

-----------------------------------------------------------------------------
(* Sequences and counting                                                    *)

\* From 0, step by step, to n.
LEMMA Stepwise ==
    ASSUME NEW n \in Nat, NEW P, 0 \in P, \A k \in 1 .. n : k - 1 \in P => k \in P
    PROVE  0 .. n \subseteq P
<1> DEFINE missing == {k \in 0 .. n : k \notin P}
<1> SUFFICES ASSUME missing # {} PROVE FALSE
  OBVIOUS
<1>1. missing \subseteq Nat
  OBVIOUS
<1>2. PICK k \in missing : \A j \in missing : ~(<<j, k>> \in OpToRel(<, Nat))
  <2> HIDE DEF missing
  <2> QED BY <1>1, NatLessThanWellFounded, WFMin, Zenon
<1>3. k \in 1 .. n /\ k - 1 \in 0 .. n /\ k - 1 \in Nat /\ k \in Nat /\ k - 1 < k
  OBVIOUS
<1>4. k - 1 \notin missing
  BY <1>2, <1>3 DEF OpToRel
<1> QED BY <1>3, <1>4

\* A part of a finite set is finite and no larger.
LEMMA PartOfFinite ==
    ASSUME NEW S, NEW T, IsFiniteSet(S), T \subseteq S
    PROVE  /\ IsFiniteSet(T) /\ Cardinality(T) \in Nat /\ Cardinality(S) \in Nat
           /\ Cardinality(T) <= Cardinality(S)
<1>1. T \in SUBSET S
  OBVIOUS
<1>2. IsFiniteSet(T) /\ Cardinality(T) <= Cardinality(S)
  BY <1>1, FS_Subset
<1> QED BY <1>2, FS_CardinalityType

\* As many numbers as are counted.
LEMMA UpTo ==
    ASSUME NEW n \in Nat PROVE IsFiniteSet(1 .. n) /\ Cardinality(1 .. n) = n
<1>1. IsFiniteSet(1 .. n) /\ Cardinality(1 .. n) = IF 1 > n THEN 0 ELSE n - 1 + 1
  BY FS_Interval
<1> QED BY <1>1

\* No two places of a list hold the same.
Distinct(seq) == \A i, j \in DOMAIN seq : seq[i] = seq[j] => i = j

\* A finite set can be listed, each element once.
LEMMA ListsSet ==
    ASSUME NEW S, IsFiniteSet(S)
    PROVE  /\ SetToSeq(S) \in Seq(S) /\ Distinct(SetToSeq(S))
           /\ ToSet(SetToSeq(S)) = S
<1> DEFINE n == Cardinality(S)
           Ok(f) == f \in [1 .. n -> S] /\ \A i, j \in 1 .. n : f[i] = f[j] => i = j
           s == SetToSeq(S)
<1>1. n \in Nat /\ IsFiniteSet(1 .. n) /\ Cardinality(1 .. n) = n
  <2>1. n \in Nat
    BY FS_CardinalityType
  <2> QED BY <2>1, FS_Interval
<1>2. \E f : Ok(f)
  <2>1. ExistsBijection(1 .. n, S)
    BY FS_CardinalityType
  <2> QED BY <2>1 DEF ExistsBijection, Bijection, Injection, IsInjective
<1>3. Ok(s)
  <2>1. \E f \in [1 .. n -> S] : IsInjective(f)
    BY <1>2 DEF IsInjective
  <2>2. s \in [1 .. n -> S] /\ IsInjective(s)
    BY <2>1, Zenon DEF SetToSeq
  <2> HIDE DEF s, n
  <2> QED BY <2>2 DEF IsInjective
<1> HIDE DEF s, n
<1>4. s \in Seq(S) /\ DOMAIN s = 1 .. n
  BY <1>1, <1>3
<1>5. Distinct(s)
  BY <1>3, <1>4 DEF Distinct
<1>6. s \in Surjection(1 .. n, S)
  <2>1. s \in Injection(1 .. n, S)
    BY <1>3 DEF Injection, IsInjective
  <2> QED BY <1>1, <2>1, FS_Injection DEF n
<1>7. ToSet(s) = S
  BY <1>3, <1>4, <1>6 DEF ToSet, Surjection
<1> QED BY <1>4, <1>5, <1>7 DEF s

\* A list with other elements appended.
LEMMA AppendedList ==
    ASSUME NEW S, NEW a \in Seq(S), NEW b \in Seq(S), Distinct(a), Distinct(b),
           ToSet(a) \cap ToSet(b) = {}
    PROVE  /\ a \o b \in Seq(S) /\ Distinct(a \o b) /\ ToSet(a \o b) = ToSet(a) \cup ToSet(b)
           /\ Len(a \o b) >= Len(a) /\ \A i \in 1 .. Len(a) : (a \o b)[i] = a[i]
<1> DEFINE c == a \o b
<1>1. /\ c \in Seq(S) /\ Len(a) \in Nat /\ Len(b) \in Nat
      /\ DOMAIN a = 1 .. Len(a) /\ DOMAIN b = 1 .. Len(b)
      /\ DOMAIN c = 1 .. (Len(a) + Len(b)) /\ Len(c) = Len(a) + Len(b)
      /\ \A i \in 1 .. Len(a) : c[i] = a[i]
      /\ \A i \in 1 .. Len(b) : c[Len(a) + i] = b[i]
  OBVIOUS
<1> HIDE DEF c
<1>2. ASSUME NEW i \in DOMAIN c
      PROVE  i \in DOMAIN a \/ (i > Len(a) /\ i - Len(a) \in DOMAIN b /\ c[i] = b[i - Len(a)])
  <2>1. CASE i <= Len(a)
    BY <1>1, <2>1
  <2>2. CASE i > Len(a)
    <3>1. i - Len(a) \in 1 .. Len(b) /\ Len(a) + (i - Len(a)) = i
      BY <1>1, <2>2
    <3> QED BY <1>1, <2>2, <3>1
  <2> QED BY <1>1, <2>1, <2>2
<1>3. ToSet(c) = ToSet(a) \cup ToSet(b)
  <2>1. ASSUME NEW x \in ToSet(c) PROVE x \in ToSet(a) \cup ToSet(b)
    <3>1. PICK i \in DOMAIN c : x = c[i]
      BY DEF ToSet
    <3>2. CASE i \in DOMAIN a
      BY <1>1, <3>1, <3>2 DEF ToSet
    <3>3. CASE i - Len(a) \in DOMAIN b /\ c[i] = b[i - Len(a)]
      BY <3>1, <3>3 DEF ToSet
    <3> QED BY <1>2, <3>2, <3>3
  <2>2. ASSUME NEW x \in ToSet(a) PROVE x \in ToSet(c)
    <3>1. PICK i \in DOMAIN a : x = a[i]
      BY DEF ToSet
    <3>2. i \in DOMAIN c /\ c[i] = x
      BY <1>1, <3>1
    <3> QED BY <3>2 DEF ToSet
  <2>3. ASSUME NEW x \in ToSet(b) PROVE x \in ToSet(c)
    <3>1. PICK i \in DOMAIN b : x = b[i]
      BY DEF ToSet
    <3>2. Len(a) + i \in DOMAIN c /\ c[Len(a) + i] = x
      BY <1>1, <3>1
    <3> QED BY <3>2 DEF ToSet
  <2> QED BY <2>1, <2>2, <2>3
<1>4. Distinct(c)
  <2> SUFFICES ASSUME NEW i \in DOMAIN c, NEW j \in DOMAIN c, c[i] = c[j] PROVE i = j
    BY DEF Distinct
  <2>1. CASE i \in DOMAIN a /\ j \in DOMAIN a
    BY <1>1, <2>1 DEF Distinct
  <2>2. CASE i \notin DOMAIN a /\ j \notin DOMAIN a
    <3>1. i - Len(a) = j - Len(a)
      BY <1>2, <2>2 DEF Distinct
    <3> QED BY <1>1, <3>1
  <2>3. ASSUME NEW k \in DOMAIN a, NEW l \in DOMAIN c, l \notin DOMAIN a, c[k] = c[l] PROVE FALSE
    <3>1. c[k] \in ToSet(a) /\ c[l] \in ToSet(b)
      BY <1>1, <1>2, <2>3 DEF ToSet
    <3> QED BY <2>3, <3>1
  <2> QED BY <2>1, <2>2, <2>3
<1> QED BY <1>1, <1>3, <1>4 DEF c

-----------------------------------------------------------------------------
(* Dotted rules                                                              *)

Starts == 0 .. Size - 1
Elements == [sym : STRING, start : Starts, end : Starts]
Paths == Seq(Elements)
LabelsOf == TargetLabels(Config)
Cells == {p \in Starts \X Starts : p[1] <= p[2]}

\* What is assumed of a configuration.
LEMMA ConfigFacts ==
    ASSUME setup \in DOMAIN Setups
    PROVE  /\ Config.words \in Seq(STRING) /\ Size \in Nat \ {0}
           /\ Config.tables \in Seq(Tables) /\ Len(Config.tables) \in Nat \ {0}
           /\ \A g \in Graphs : /\ Config.tables[g] \in Tables
                                /\ IsFiniteSet(Config.tables[g].rules)
           /\ \A i \in Starts : WordAt(i) \in STRING /\ WordAt(i) \notin LabelsOf
           /\ Config.unknownLHS # {} /\ Config.unknownLHS \subseteq STRING
           /\ Config.ruleLimit \in Nat \ {0} /\ Config.width \in Nat
           /\ Config.clauseOption \in BOOLEAN /\ Clauses \in Seq(Nat \X Nat)
<1> DEFINE config == Setups[setup]
<1>1. /\ config.words \in Seq(STRING) \ {<<>>}
      /\ config.tables \in Seq(Tables) \ {<<>>}
      /\ \A t \in DOMAIN config.tables : IsFiniteSet(config.tables[t].rules)
      /\ \A i \in DOMAIN config.words : config.words[i] \notin TargetLabels(config)
      /\ config.unknownLHS \in (SUBSET STRING) \ {{}}
      /\ config.ruleLimit \in Nat \ {0} /\ config.width \in Nat
      /\ config.clauseOption \in BOOLEAN
      /\ FlattenSeq(config.clauses) \in Seq(Nat \X Nat)
  BY ParserAssumption
<1>2. Config = config
  BY DEF Config
<1> HIDE DEF config
<1>3. /\ Len(config.words) \in Nat \ {0} /\ DOMAIN config.words = 1 .. Len(config.words)
      /\ \A i \in DOMAIN config.words : config.words[i] \in STRING
  BY <1>1
<1>4. /\ Len(config.tables) \in Nat \ {0} /\ DOMAIN config.tables = 1 .. Len(config.tables)
      /\ \A g \in DOMAIN config.tables : config.tables[g] \in Tables
  <2> HIDE DEF Tables
  <2> QED BY <1>1
<1>5. \A i \in Starts : i + 1 \in DOMAIN config.words
  BY <1>2, <1>3 DEF Starts, Size
<1> QED BY <1>1, <1>2, <1>3, <1>4, <1>5 DEF Size, Graphs, WordAt, LabelsOf, Clauses

\* A rule of a table has a nonempty source side, a label and a score.
LEMMA RuleFacts ==
    ASSUME setup \in DOMAIN Setups, NEW g \in Graphs, NEW r \in Config.tables[g].rules
    PROVE  /\ r.src \in Seq(STRING) /\ r.src # <<>> /\ r.lhs \in STRING /\ r.score \in Int
           /\ r.lhs \in LabelsOf
<1>1. Config.tables[g] \in Tables
  BY ConfigFacts
<1>2. Config.tables[g].rules \subseteq Rules
  BY <1>1 DEF Tables
<1>3. r \in Rules
  BY <1>2
<1>4. g \in DOMAIN Config.tables
  <2>1. Config.tables \in Seq(Tables)
    BY ConfigFacts
  <2>2. DOMAIN Config.tables = 1 .. Len(Config.tables)
    <3> HIDE DEF Tables
    <3> QED BY <2>1
  <2> QED BY <2>2 DEF Graphs
<1>5. r.lhs \in LabelsOf
  BY <1>4 DEF LabelsOf, TargetLabels
<1> QED BY <1>3, <1>5 DEF Rules

\* What a prefix is, place by place.
LEMMA PrefixDef ==
    ASSUME NEW S, NEW a \in Seq(S), NEW b \in Seq(S)
    PROVE  IsPrefix(a, b) <=> Len(a) <= Len(b) /\ \A i \in 1 .. Len(a) : a[i] = b[i]
<1>1. Len(a) \in Nat /\ Len(b) \in Nat
  OBVIOUS
<1>2. ASSUME Len(a) <= Len(b)
      PROVE  SubSeq(a, 1, Len(a)) = SubSeq(b, 1, Len(a)) <=> \A i \in 1 .. Len(a) : a[i] = b[i]
  <2> DEFINE x == SubSeq(a, 1, Len(a))
             y == SubSeq(b, 1, Len(a))
  <2>1. /\ x = [i \in 1 .. Len(a) |-> a[i]] /\ y = [i \in 1 .. Len(a) |-> b[i]]
    BY <1>1, <1>2
  <2> HIDE DEF x, y
  <2>2. x = y <=> \A i \in 1 .. Len(a) : a[i] = b[i]
    BY <2>1
  <2> QED BY <2>2 DEF x, y
<1> QED BY <1>1, <1>2 DEF IsPrefix

\* The dotted rule that one is an extension of.
Parent(p) == SubSeq(p, 1, Len(p) - 1)

LEMMA ParentFacts ==
    ASSUME NEW S, NEW p \in Seq(S), p # Root
    PROVE  /\ Parent(p) \in Seq(S) /\ Len(Parent(p)) = Len(p) - 1 /\ Len(p) \in Nat \ {0}
           /\ \A i \in 1 .. Len(p) - 1 : Parent(p)[i] = p[i]
           /\ p = Append(Parent(p), p[Len(p)]) /\ p[Len(p)] \in S
           /\ Parent(p) = Root <=> Len(p) = 1
<1>1. Len(p) \in Nat \ {0} /\ \A i \in 1 .. Len(p) : p[i] \in S
  BY DEF Root
<1> DEFINE q == Parent(p)
<1>2. q = [i \in 1 .. Len(p) - 1 |-> p[i]]
  BY <1>1 DEF Parent
<1> HIDE DEF q
<1>3. /\ q \in Seq(S) /\ Len(q) = Len(p) - 1 /\ \A i \in 1 .. Len(p) - 1 : q[i] = p[i]
  BY <1>1, <1>2
<1>4. p = Append(q, p[Len(p)])
  <2> DEFINE a == Append(q, p[Len(p)])
  <2>1. a \in Seq(S) /\ Len(a) = Len(p) /\ \A i \in 1 .. Len(p) : a[i] = p[i]
    BY <1>1, <1>3
  <2> HIDE DEF a
  <2>2. a = p
    BY <2>1
  <2> QED BY <2>2 DEF a
<1>5. q = Root <=> Len(p) = 1
  BY <1>1, <1>3 DEF Root
<1> QED BY <1>1, <1>3, <1>4, <1>5 DEF q

\* An extension and what it extends.
LEMMA ExtensionFacts ==
    ASSUME NEW S, NEW q \in Seq(S), NEW e \in S
    PROVE  /\ Append(q, e) \in Seq(S) /\ Append(q, e) # Root /\ Parent(Append(q, e)) = q
           /\ Len(Append(q, e)) = Len(q) + 1 /\ Append(q, e)[Len(q) + 1] = e
           /\ \A i \in 1 .. Len(q) : Append(q, e)[i] = q[i]
<1> DEFINE p == Append(q, e)
<1>1. /\ p \in Seq(S) /\ p # Root /\ Len(p) = Len(q) + 1 /\ p[Len(q) + 1] = e
      /\ \A i \in 1 .. Len(q) : p[i] = q[i] /\ Len(q) \in Nat
  BY DEF Root
<1>2. Parent(p) = q
  <2> HIDE DEF p
  <2>1. /\ Parent(p) \in Seq(S) /\ Len(Parent(p)) = Len(p) - 1
        /\ \A i \in 1 .. Len(p) - 1 : Parent(p)[i] = p[i]
    BY <1>1, ParentFacts
  <2>2. Len(Parent(p)) = Len(q) /\ \A i \in 1 .. Len(q) : Parent(p)[i] = q[i]
    BY <1>1, <2>1
  <2> QED BY <2>1, <2>2
<1> QED BY <1>1, <1>2

\* The symbols of a dotted rule.
LEMMA NodeFacts ==
    ASSUME NEW x \in Paths
    PROVE  /\ Node(x) \in Seq(STRING) /\ Len(Node(x)) = Len(x) /\ Len(x) \in Nat
           /\ \A i \in 1 .. Len(x) : Node(x)[i] = x[i].sym
<1>1. Len(x) \in Nat /\ DOMAIN x = 1 .. Len(x) /\ \A i \in 1 .. Len(x) : x[i] \in Elements
  <2> HIDE DEF Elements
  <2> QED BY DEF Paths
<1>2. \A i \in 1 .. Len(x) : x[i].sym \in STRING
  BY <1>1 DEF Elements
<1>3. Node(x) = [i \in 1 .. Len(x) |-> x[i].sym]
  BY <1>1 DEF Node
<1> QED BY <1>1, <1>2, <1>3

\* A node's parent is a node, and not a leaf.
LEMMA NodeAbove ==
    ASSUME setup \in DOMAIN Setups, NEW g \in Graphs, NEW p \in Paths, p # Root,
           IsNode(Config.tables[g], Node(p))
    PROVE  /\ IsNode(Config.tables[g], Node(Parent(p)))
           /\ ~IsLeaf(Config.tables[g], Node(Parent(p)))
<1> DEFINE q == Parent(p)
<1>1. /\ q \in Paths /\ Len(q) = Len(p) - 1 /\ Len(p) \in Nat \ {0}
      /\ \A i \in 1 .. Len(p) - 1 : q[i] = p[i]
  BY ParentFacts DEF Paths
<1> HIDE DEF q
<1>2. \A x \in Paths : /\ Node(x) \in Seq(STRING) /\ Len(Node(x)) = Len(x)
                       /\ \A i \in 1 .. Len(x) : Node(x)[i] = x[i].sym
  BY NodeFacts
<1>3. PICK r \in Config.tables[g].rules : IsPrefix(Node(p), r.src)
  BY DEF IsNode
<1>4. r.src \in Seq(STRING)
  BY RuleFacts
<1>5. Len(p) <= Len(r.src) /\ \A i \in 1 .. Len(p) : p[i].sym = r.src[i]
  BY <1>2, <1>3, <1>4, PrefixDef
<1>6. Len(q) < Len(r.src) /\ \A i \in 1 .. Len(q) : q[i].sym = r.src[i] /\ Len(q) \in Nat
  BY <1>1, <1>4, <1>5
<1>7. IsPrefix(Node(q), r.src)
  <2>1. Len(Node(q)) <= Len(r.src) /\ \A i \in 1 .. Len(Node(q)) : Node(q)[i] = r.src[i]
    BY <1>1, <1>2, <1>4, <1>6
  <2>2. Node(q) \in Seq(STRING)
    BY <1>1, <1>2
  <2> QED BY <1>4, <2>1, <2>2, PrefixDef
<1>8. Node(q) # r.src
  BY <1>1, <1>2, <1>4, <1>6
<1> QED BY <1>7, <1>8 DEF IsNode, IsLeaf, IsStrictPrefix, q

-----------------------------------------------------------------------------
(* Partial applications of rules                                             *)

Chained(p) == \A i \in 1 .. Len(p) - 1 : p[i + 1].start = p[i].end + 1
Matched(p) ==
    \A i \in 1 .. Len(p) :
        p[i].start <= p[i].end /\ Matches(p[i].sym, p[i].start, p[i].end)

\* p matches the beginning of a rule of table g to words from s on.
Partial(g, s, p) ==
    /\ p # Root /\ p[1].start = s
    /\ Chained(p) /\ Matched(p)
    /\ IsNode(Config.tables[g], Node(p))

\* A label by itself: what the loop finds one span later than the rest.
Alone(p) == Len(p) = 1 /\ IsLabel(p[1].sym)

\* The width of the span, from s on, whose lookup finds p.
Due(s, p) == RuleEnd(p) - s + (IF Alone(p) THEN 2 ELSE 1)

\* The elements of a dotted rule and their positions.
LEMMA ElementFacts ==
    ASSUME setup \in DOMAIN Setups, NEW p \in Paths
    PROVE  /\ Len(p) \in Nat /\ DOMAIN p = 1 .. Len(p)
           /\ \A i \in 1 .. Len(p) :
                 /\ p[i] \in Elements /\ p[i].sym \in STRING
                 /\ p[i].start \in Starts /\ p[i].end \in Starts
                 /\ p[i].start \in Nat /\ p[i].end \in Nat
                 /\ p[i].start < Size /\ p[i].end < Size
           /\ p # Root => Len(p) \in 1 .. Len(p) /\ 1 \in 1 .. Len(p)
<1>1. Size \in Nat
  BY ConfigFacts
<1>2. /\ Len(p) \in Nat /\ DOMAIN p = 1 .. Len(p) /\ \A i \in 1 .. Len(p) : p[i] \in Elements
      /\ p # Root => Len(p) # 0
  <2> HIDE DEF Elements
  <2> QED BY DEF Paths, Root
<1>3. \A e \in Elements : /\ e.sym \in STRING /\ e.start \in Starts /\ e.end \in Starts
                          /\ e.start \in Nat /\ e.end \in Nat /\ e.start < Size /\ e.end < Size
  BY <1>1 DEF Elements, Starts
<1> QED BY <1>2, <1>3

\* The elements of p lie one after the other from s on.
Laid(s, p) ==
    /\ p # Root /\ p[1].start = s /\ Chained(p)
    /\ \A i \in 1 .. Len(p) : p[i].start <= p[i].end

\* A later element lies behind an earlier one.
LEMMA LaterBehind ==
    ASSUME setup \in DOMAIN Setups, NEW s, NEW p \in Paths, Laid(s, p),
           NEW i \in 1 .. Len(p), NEW j \in 1 .. Len(p), i < j
    PROVE  p[i].end < p[j].start
<1>1. /\ Len(p) \in Nat
      /\ \A k \in 1 .. Len(p) : p[k].start \in Nat /\ p[k].end \in Nat
  BY ElementFacts
<1> DEFINE n == Len(p) - i
           P == {k \in 0 .. n : k = 0 \/ p[i].end < p[i + k].start}
<1>2. n \in Nat /\ 0 \in P /\ j - i \in 0 .. n /\ j - i # 0 /\ i + (j - i) = j
  BY <1>1
<1>3. ASSUME NEW k \in 1 .. n, k - 1 \in P PROVE k \in P
  <2>1. /\ i + k - 1 \in 1 .. Len(p) - 1 /\ i + k \in 1 .. Len(p)
        /\ i + (k - 1) = i + k - 1 /\ (i + k - 1) + 1 = i + k /\ i + k - 1 \in 1 .. Len(p)
    BY <1>1
  <2>2. p[i + k].start = p[i + k - 1].end + 1
    BY <2>1 DEF Laid, Chained
  <2>3. p[i + k - 1].start <= p[i + k - 1].end
    BY <2>1 DEF Laid
  <2>4. CASE k - 1 = 0
    <3>1. i + k - 1 = i
      BY <2>4
    <3> QED BY <1>1, <2>1, <2>2, <3>1
  <2>5. CASE k - 1 # 0
    <3>1. p[i].end < p[i + k - 1].start
      BY <1>3, <2>1, <2>5
    <3> QED BY <1>1, <2>1, <2>2, <2>3, <3>1
  <2> QED BY <2>4, <2>5
<1>4. 0 .. n \subseteq P
  <2> HIDE DEF n, P
  <2> QED BY <1>2, <1>3, Stepwise
<1>5. j - i \in P
  BY <1>2, <1>4
<1> QED BY <1>2, <1>5

\* Where they lie, and when the lookup finds them.
LEMMA LaidFacts ==
    ASSUME setup \in DOMAIN Setups, NEW s \in Starts, NEW p \in Paths, Laid(s, p)
    PROVE  /\ Len(p) \in Nat \ {0} /\ RuleEnd(p) \in Nat /\ s <= RuleEnd(p) /\ RuleEnd(p) < Size
           /\ Due(s, p) \in Nat \ {0}
           /\ Due(s, p) = RuleEnd(p) - s + 1 \/ (Alone(p) /\ Due(s, p) = RuleEnd(p) - s + 2)
           /\ ~Alone(p) => Due(s, p) = RuleEnd(p) - s + 1
           /\ \A i \in 1 .. Len(p) :
                 /\ s <= p[i].start /\ p[i].end <= RuleEnd(p)
                 /\ i # Len(p) => p[i].end < RuleEnd(p)
                 /\ i # 1 => s < p[i].start
<1>1. /\ Len(p) \in Nat \ {0} /\ 1 \in 1 .. Len(p) /\ Len(p) \in 1 .. Len(p)
      /\ \A i \in 1 .. Len(p) : /\ p[i].start \in Nat /\ p[i].end \in Nat /\ p[i].end < Size
                                /\ p[i].start <= p[i].end
      /\ p[1].start = s /\ Size \in Nat
  BY ElementFacts, ConfigFacts DEF Laid
<1>2. ASSUME NEW i \in 1 .. Len(p)
      PROVE  /\ s <= p[i].start /\ p[i].end <= RuleEnd(p)
             /\ i # Len(p) => p[i].end < RuleEnd(p)
             /\ i # 1 => s < p[i].start
  <2>1. i # 1 => p[1].end < p[i].start
    <3>1. i # 1 => 1 < i
      OBVIOUS
    <3> QED BY <1>1, <3>1, LaterBehind
  <2>2. i # Len(p) => p[i].end < p[Len(p)].start
    <3>1. i # Len(p) => i < Len(p)
      BY <1>1
    <3> QED BY <1>1, <3>1, LaterBehind
  <2> QED BY <1>1, <2>1, <2>2 DEF RuleEnd
<1>3. RuleEnd(p) \in Nat /\ RuleEnd(p) < Size /\ s <= RuleEnd(p)
  BY <1>1, <1>2 DEF RuleEnd
<1> QED BY <1>1, <1>2, <1>3 DEF Due

LEMMA PartialFacts ==
    ASSUME setup \in DOMAIN Setups, NEW g, NEW s \in Starts, NEW p \in Paths, Partial(g, s, p)
    PROVE  /\ Len(p) \in Nat \ {0} /\ RuleEnd(p) \in Nat /\ s <= RuleEnd(p) /\ RuleEnd(p) < Size
           /\ Due(s, p) \in Nat \ {0}
           /\ Due(s, p) = RuleEnd(p) - s + 1 \/ (Alone(p) /\ Due(s, p) = RuleEnd(p) - s + 2)
           /\ ~Alone(p) => Due(s, p) = RuleEnd(p) - s + 1
           /\ \A i \in 1 .. Len(p) :
                 /\ s <= p[i].start /\ p[i].end <= RuleEnd(p)
                 /\ i # Len(p) => p[i].end < RuleEnd(p)
                 /\ i # 1 => s < p[i].start
<1>1. Laid(s, p)
  BY DEF Partial, Matched, Laid
<1> QED BY <1>1, LaidFacts

\* What a partial application extends is one too.
LEMMA PartialAbove ==
    ASSUME setup \in DOMAIN Setups, NEW g \in Graphs, NEW s \in Starts, NEW p \in Paths,
           Partial(g, s, p), Len(p) # 1
    PROVE  /\ Parent(p) # Root /\ Parent(p) \in Paths /\ Partial(g, s, Parent(p))
           /\ ~IsLeaf(Config.tables[g], Node(Parent(p)))
           /\ p[Len(p)].start = RuleEnd(Parent(p)) + 1
           /\ RuleEnd(Parent(p)) < RuleEnd(p)
<1> DEFINE q == Parent(p)
<1>1. /\ q \in Paths /\ Len(q) = Len(p) - 1 /\ Len(p) \in Nat \ {0} /\ q # Root
      /\ \A i \in 1 .. Len(p) - 1 : q[i] = p[i]
  BY ParentFacts DEF Paths, Partial
<1>2. /\ IsNode(Config.tables[g], Node(q)) /\ ~IsLeaf(Config.tables[g], Node(q))
  BY NodeAbove DEF Partial
<1> HIDE DEF q
<1>3. /\ Len(p) - 1 \in 1 .. Len(p) /\ Len(p) - 1 \in 1 .. Len(p) - 1 /\ 1 \in 1 .. Len(p) - 1
      /\ (Len(p) - 1) + 1 = Len(p) /\ Len(p) - 1 # Len(p)
  BY <1>1
<1>4. q[1].start = s
  BY <1>1, <1>3 DEF Partial
<1>5. Chained(q)
  <2> SUFFICES ASSUME NEW i \in 1 .. Len(q) - 1 PROVE q[i + 1].start = q[i].end + 1
    BY DEF Chained
  <2>1. i \in 1 .. Len(p) - 1 /\ i + 1 \in 1 .. Len(p) - 1
    BY <1>1
  <2> QED BY <1>1, <2>1 DEF Partial, Chained
<1>6. Matched(q)
  <2> SUFFICES ASSUME NEW i \in 1 .. Len(q)
               PROVE  q[i].start <= q[i].end /\ Matches(q[i].sym, q[i].start, q[i].end)
    BY DEF Matched
  <2>1. i \in 1 .. Len(p) - 1 /\ i \in 1 .. Len(p)
    BY <1>1
  <2> QED BY <1>1, <2>1 DEF Partial, Matched
<1>7. RuleEnd(q) = p[Len(p) - 1].end
  BY <1>1, <1>3 DEF RuleEnd
<1>8. p[Len(p)].start = p[Len(p) - 1].end + 1
  BY <1>3 DEF Partial, Chained
<1>9. p[Len(p) - 1].end < RuleEnd(p)
  BY <1>3, PartialFacts
<1> QED BY <1>1, <1>2, <1>4, <1>5, <1>6, <1>7, <1>8, <1>9 DEF Partial, q

\* Where the next element of a dotted rule begins.
NextPos(s, p) == IF p = Root THEN s ELSE RuleEnd(p) + 1

\* One more element makes a partial application.
LEMMA PartialExtended ==
    ASSUME setup \in DOMAIN Setups, NEW g \in Graphs, NEW s \in Starts, NEW q \in Paths,
           q = Root \/ Partial(g, s, q),
           NEW e \in Elements, e.start = NextPos(s, q), e.start <= e.end,
           Matches(e.sym, e.start, e.end), IsNode(Config.tables[g], Node(Append(q, e)))
    PROVE  /\ Append(q, e) \in Paths /\ Partial(g, s, Append(q, e))
           /\ Parent(Append(q, e)) = q /\ RuleEnd(Append(q, e)) = e.end
           /\ Append(q, e)[Len(Append(q, e))] = e
<1> DEFINE p == Append(q, e)
<1>1. /\ p \in Paths /\ p # Root /\ Parent(p) = q /\ Len(p) = Len(q) + 1 /\ p[Len(q) + 1] = e
      /\ \A i \in 1 .. Len(q) : p[i] = q[i]
  BY ExtensionFacts DEF Paths
<1>2. Len(q) \in Nat
  BY ElementFacts
<1> HIDE DEF p
<1>3. p[1].start = s
  <2>1. CASE q = Root
    BY <1>1, <2>1 DEF NextPos, Root
  <2>2. CASE q # Root
    <3>1. 1 \in 1 .. Len(q)
      BY <2>2, ElementFacts
    <3> QED BY <1>1, <2>2, <3>1 DEF Partial
  <2> QED BY <2>1, <2>2
<1>4. Chained(p)
  <2> SUFFICES ASSUME NEW i \in 1 .. Len(p) - 1 PROVE p[i + 1].start = p[i].end + 1
    BY DEF Chained
  <2>1. i \in 1 .. Len(q) /\ q # Root
    BY <1>1, <1>2 DEF Root
  <2>2. CASE i = Len(q)
    BY <1>1, <2>1, <2>2 DEF NextPos, RuleEnd
  <2>3. CASE i # Len(q)
    <3>1. i \in 1 .. Len(q) - 1 /\ i + 1 \in 1 .. Len(q)
      BY <1>2, <2>1, <2>3
    <3>2. q[i + 1].start = q[i].end + 1
      BY <2>1, <3>1 DEF Partial, Chained
    <3> QED BY <1>1, <2>1, <3>1, <3>2
  <2> QED BY <2>2, <2>3
<1>5. Matched(p)
  <2> SUFFICES ASSUME NEW i \in 1 .. Len(p)
               PROVE  p[i].start <= p[i].end /\ Matches(p[i].sym, p[i].start, p[i].end)
    BY DEF Matched
  <2>1. CASE i = Len(q) + 1
    BY <1>1, <2>1
  <2>2. CASE i # Len(q) + 1
    <3>1. i \in 1 .. Len(q) /\ q # Root
      BY <1>1, <1>2, <2>2 DEF Root
    <3> QED BY <1>1, <3>1 DEF Partial, Matched
  <2> QED BY <2>1, <2>2
<1> QED BY <1>1, <1>3, <1>4, <1>5 DEF Partial, RuleEnd, p

\* A partial application and its last element.
LEMMA LastElement ==
    ASSUME setup \in DOMAIN Setups, NEW g \in Graphs, NEW s \in Starts, NEW p \in Paths,
           Partial(g, s, p)
    PROVE  LET e == p[Len(p)] IN
           /\ e \in Elements /\ p = Append(Parent(p), e) /\ Parent(p) \in Paths
           /\ e.start = NextPos(s, Parent(p)) /\ e.end = RuleEnd(p) /\ e.start <= e.end
           /\ Matches(e.sym, e.start, e.end)
           /\ Parent(p) = Root \/ Partial(g, s, Parent(p))
<1>1. /\ p[Len(p)] \in Elements /\ p = Append(Parent(p), p[Len(p)]) /\ Parent(p) \in Paths
      /\ Len(p) \in Nat \ {0} /\ (Parent(p) = Root <=> Len(p) = 1)
  BY ParentFacts DEF Paths, Partial
<1>2. /\ p[Len(p)].start <= p[Len(p)].end
      /\ Matches(p[Len(p)].sym, p[Len(p)].start, p[Len(p)].end)
  <2>1. Len(p) \in 1 .. Len(p)
    BY <1>1
  <2> QED BY <2>1 DEF Partial, Matched
<1>3. CASE Len(p) = 1
  BY <1>1, <1>2, <1>3 DEF Partial, NextPos, RuleEnd
<1>4. CASE Len(p) # 1
  <2>1. p[Len(p)].start = RuleEnd(Parent(p)) + 1 /\ Partial(g, s, Parent(p)) /\ Parent(p) # Root
    BY <1>4, PartialAbove
  <2> QED BY <1>1, <1>2, <2>1 DEF NextPos, RuleEnd
<1> QED BY <1>3, <1>4

-----------------------------------------------------------------------------
(* One iteration of the loop                                                 *)

SpanOk ==
    /\ span = [start |-> span.start, width |-> span.width]
    /\ span.start \in Starts /\ span.width \in Nat \ {0} /\ span.start + span.width <= Size

LEMMA SpanFacts ==
    ASSUME setup \in DOMAIN Setups, SpanOk
    PROVE  /\ EndPos \in Starts /\ EndPos \in Nat /\ span.start \in Nat /\ span.start <= EndPos
           /\ EndPos - span.start + 1 = span.width /\ Size \in Nat \ {0}
           /\ span.width \in 1 .. (Size - span.start) /\ span.width \in Nat \ {0}
           /\ EndPos = span.start + span.width - 1 /\ span.start + span.width <= Size
           /\ span.width # 1 => EndPos - 1 \in Starts /\ span.start <= EndPos - 1
           /\ span.width = 1 => EndPos = span.start
BY ConfigFacts DEF SpanOk, EndPos, Starts

\* What the last word adds.
LEMMA WordsFound ==
    ASSUME setup \in DOMAIN Setups, SpanOk, graph \in Graphs,
           NEW q \in Paths, q = Root \/ Partial(graph, span.start, q),
           NEW p
    PROVE  p \in ByTerminal(q, NextPos(span.start, q)) <=>
              /\ p \in Paths /\ Partial(graph, span.start, p) /\ Parent(p) = q
              /\ RuleEnd(p) = EndPos /\ ~IsLabel(p[Len(p)].sym)
<1> DEFINE e == [sym |-> WordAt(EndPos), start |-> EndPos, end |-> EndPos]
<1>1. /\ EndPos \in Starts /\ EndPos \in Nat /\ span.start \in Starts
      /\ e \in Elements /\ ~IsLabel(e.sym)
  BY SpanFacts, ConfigFacts DEF Elements, IsLabel, LabelsOf, SpanOk
<1>2. ByTerminal(q, NextPos(span.start, q)) =
        {x \in {Append(q, e)} : NextPos(span.start, q) = EndPos /\ IsNode(Table, Node(x))}
  BY DEF ByTerminal, Extend
<1>3. Table = Config.tables[graph]
  BY DEF Table
<1>4. ASSUME p \in ByTerminal(q, NextPos(span.start, q))
      PROVE  /\ p \in Paths /\ Partial(graph, span.start, p) /\ Parent(p) = q
             /\ RuleEnd(p) = EndPos /\ ~IsLabel(p[Len(p)].sym)
  <2>1. p = Append(q, e) /\ NextPos(span.start, q) = EndPos /\ IsNode(Config.tables[graph], Node(p))
    BY <1>2, <1>3, <1>4
  <2>2. Matches(e.sym, e.start, e.end) /\ e.start <= e.end
    BY <1>1 DEF Matches
  <2>3. e.start = EndPos /\ e.end = EndPos
    OBVIOUS
  <2> HIDE DEF e
  <2> QED BY <1>1, <2>1, <2>2, <2>3, PartialExtended
<1>5. ASSUME p \in Paths, Partial(graph, span.start, p), Parent(p) = q,
             RuleEnd(p) = EndPos, ~IsLabel(p[Len(p)].sym)
      PROVE  p \in ByTerminal(q, NextPos(span.start, q))
  <2> DEFINE f == p[Len(p)]
  <2>1. /\ f \in Elements /\ p = Append(q, f) /\ f.start = NextPos(span.start, q)
        /\ f.end = EndPos /\ Matches(f.sym, f.start, f.end)
    BY <1>1, <1>5, LastElement
  <2>2. f.start = f.end /\ f.sym = WordAt(f.start)
    BY <1>5, <2>1 DEF Matches
  <2>3. f = e
    <3> HIDE DEF f
    <3> QED BY <2>1, <2>2 DEF Elements
  <2>4. NextPos(span.start, q) = EndPos
    BY <2>1, <2>2
  <2>5. IsNode(Config.tables[graph], Node(p))
    BY <1>5 DEF Partial
  <2> QED BY <1>2, <1>3, <2>1, <2>3, <2>4, <2>5
<1> QED BY <1>4, <1>5

\* What the labels of a cell add.
LEMMA LabelsFound ==
    ASSUME setup \in DOMAIN Setups, SpanOk, graph \in Graphs,
           labels \in [Cells -> SUBSET LabelsOf],
           NEW q \in Paths, q = Root \/ Partial(graph, span.start, q),
           NEW last \in Starts, NextPos(span.start, q) <= last,
           NEW p
    PROVE  p \in ByNonTerminal(q, NextPos(span.start, q), last) <=>
              /\ p \in Paths /\ Partial(graph, span.start, p) /\ Parent(p) = q
              /\ RuleEnd(p) = last /\ IsLabel(p[Len(p)].sym)
<1> DEFINE first == NextPos(span.start, q)
           e(l) == [sym |-> l, start |-> first, end |-> last]
<1>1. /\ first \in Starts /\ <<first, last>> \in Cells
      /\ labels[first, last] \subseteq LabelsOf /\ LabelsOf \subseteq STRING
  <2>1. first \in Nat
    <3>1. CASE q = Root
      BY <3>1, SpanFacts DEF NextPos
    <3>2. CASE q # Root
      <4>1. RuleEnd(q) \in Nat
        BY <3>2, PartialFacts DEF SpanOk
      <4> QED BY <3>2, <4>1 DEF NextPos
    <3> QED BY <3>1, <3>2
  <2>2. first \in Starts
    BY <2>1, ConfigFacts DEF Starts
  <2>3. <<first, last>> \in Cells
    BY <2>2 DEF Cells
  <2>4. LabelsOf \subseteq STRING
    <3>1. DOMAIN Config.tables = Graphs
      <4> HIDE DEF Tables
      <4> QED BY ConfigFacts DEF Graphs
    <3>2. \A t \in Graphs : \A r \in Config.tables[t].rules : r.lhs \in STRING
      BY RuleFacts
    <3> QED BY <3>1, <3>2, ConfigFacts DEF LabelsOf, TargetLabels
  <2> HIDE DEF first
  <2> QED BY <2>2, <2>3, <2>4
<1>2. ByNonTerminal(q, first, last) =
        {x \in {Append(q, e(l)) : l \in labels[first, last]} : IsNode(Table, Node(x))}
  BY DEF ByNonTerminal, Extend
<1>3. Table = Config.tables[graph] /\ span.start \in Starts
  BY DEF Table, SpanOk
<1>4. ASSUME p \in ByNonTerminal(q, first, last)
      PROVE  /\ p \in Paths /\ Partial(graph, span.start, p) /\ Parent(p) = q
             /\ RuleEnd(p) = last /\ IsLabel(p[Len(p)].sym)
  <2>1. PICK l \in labels[first, last] :
            p = Append(q, e(l)) /\ IsNode(Config.tables[graph], Node(p))
    BY <1>2, <1>3, <1>4
  <2>2. IsLabel(l) /\ l \in STRING
    BY <1>1 DEF IsLabel, LabelsOf
  <2>3. Matches(l, first, last)
    BY <2>2 DEF Matches
  <2>4. /\ e(l) \in Elements /\ e(l).start = first /\ e(l).end = last /\ e(l).sym = l
    <3> HIDE DEF first
    <3> QED BY <1>1, <2>2 DEF Elements
  <2> DEFINE d == e(l)
  <2>5. d \in Elements /\ d.start = NextPos(span.start, q) /\ d.end = last /\ d.sym = l
    BY <2>4
  <2>6. p = Append(q, d)
    BY <2>1
  <2> HIDE DEF d
  <2>7. d.start <= d.end /\ Matches(d.sym, d.start, d.end)
    BY <2>3, <2>5
  <2>8. IsNode(Config.tables[graph], Node(Append(q, d)))
    BY <2>1, <2>6
  <2>9. /\ Append(q, d) \in Paths /\ Partial(graph, span.start, Append(q, d))
        /\ Parent(Append(q, d)) = q /\ RuleEnd(Append(q, d)) = d.end
        /\ Append(q, d)[Len(Append(q, d))] = d
    BY <1>3, <2>5, <2>7, <2>8, PartialExtended
  <2> QED BY <2>2, <2>5, <2>6, <2>9
<1>5. ASSUME p \in Paths, Partial(graph, span.start, p), Parent(p) = q,
             RuleEnd(p) = last, IsLabel(p[Len(p)].sym)
      PROVE  p \in ByNonTerminal(q, first, last)
  <2> DEFINE f == p[Len(p)]
  <2>1. /\ f \in Elements /\ p = Append(q, f) /\ f.start = first
        /\ f.end = last /\ Matches(f.sym, f.start, f.end)
    BY <1>3, <1>5, LastElement
  <2>2. f.sym \in labels[first, last]
    BY <1>5, <2>1 DEF Matches
  <2>3. f = e(f.sym)
    <3> HIDE DEF f, first
    <3> QED BY <2>1, <2>2 DEF Elements
  <2>5. IsNode(Config.tables[graph], Node(p))
    BY <1>5 DEF Partial
  <2> HIDE DEF first
  <2> QED BY <1>2, <1>3, <2>1, <2>2, <2>3, <2>5
<1> QED BY <1>4, <1>5

\* A collection whose lists hold the dotted rules F of table g, each once, those
\* at a leaf in no list of what can be extended.
Holds(g, s, dc, F) ==
    /\ dc = [coll |-> dc.coll, expandable |-> dc.expandable]
    /\ dc.coll \in [0 .. (Size - s) -> Seq(Paths)] /\ dc.expandable \in Seq(Paths)
    /\ dc.expandable # <<>> /\ dc.expandable[1] = Root /\ Distinct(dc.expandable)
    /\ ToSet(dc.expandable) = {Root} \cup {p \in F : ~IsLeaf(Config.tables[g], Node(p))}
    /\ \A v \in 1 .. (Size - s) : /\ Distinct(dc.coll[v])
                                  /\ ToSet(dc.coll[v]) = {p \in F : RuleEnd(p) = s + v - 1}

\* What is there already stays where it is.
Grown(old, new) ==
    /\ Len(old) <= Len(new)
    /\ \A i \in 1 .. Len(old) : new[i] = old[i]

\* DottedRuleColl::Add.
LEMMA AddDottedHolds ==
    ASSUME setup \in DOMAIN Setups, NEW g \in Graphs, NEW s \in Starts,
           NEW F \in SUBSET (Paths \ {Root}), NEW dc, Holds(g, s, dc, F),
           NEW pos \in 1 .. (Size - s), NEW N \in SUBSET (Paths \ {Root}), IsFiniteSet(N),
           N \cap F = {}, \A p \in N : RuleEnd(p) = s + pos - 1
    PROVE  LET new == AddDotted(Config.tables[g], dc, pos, N) IN
           /\ Holds(g, s, new, F \cup N) /\ Grown(dc.expandable, new.expandable)
<1> DEFINE new == AddDotted(Config.tables[g], dc, pos, N)
           Open(S) == {p \in S : ~IsLeaf(Config.tables[g], Node(p))}
           added == SetToSeq(N)
           opened == SetToSeq(Open(N))
<1>0. Root \in Paths /\ s \in Nat /\ Size \in Nat
  BY ConfigFacts DEF Root, Paths, Starts
<1>1. /\ added \in Seq(Paths) /\ Distinct(added) /\ ToSet(added) = N
  <2>1. /\ added \in Seq(N) /\ Distinct(added) /\ ToSet(added) = N
    BY ListsSet
  <2> HIDE DEF added
  <2> QED BY <2>1
<1>2. /\ opened \in Seq(Paths) /\ Distinct(opened) /\ ToSet(opened) = Open(N)
  <2>1. IsFiniteSet(Open(N))
    BY PartOfFinite
  <2> DEFINE O == Open(N)
  <2>2. O \subseteq Paths /\ IsFiniteSet(O)
    BY <2>1
  <2> HIDE DEF O
  <2>3. /\ SetToSeq(O) \in Seq(O) /\ Distinct(SetToSeq(O)) /\ ToSet(SetToSeq(O)) = O
    BY <2>2, ListsSet
  <2>4. SetToSeq(O) \in Seq(Paths)
    BY <2>2, <2>3
  <2> QED BY <2>3, <2>4 DEF O
<1>3. /\ new.coll = [dc.coll EXCEPT ![pos] = @ \o added]
      /\ new.expandable = dc.expandable \o opened
      /\ new = [coll |-> new.coll, expandable |-> new.expandable]
  BY DEF AddDotted
<1> HIDE DEF new, added, opened
<1>4. /\ dc.coll \in [0 .. (Size - s) -> Seq(Paths)] /\ dc.expandable \in Seq(Paths)
      /\ dc.expandable # <<>> /\ dc.expandable[1] = Root /\ Distinct(dc.expandable)
      /\ ToSet(dc.expandable) = {Root} \cup Open(F)
      /\ \A v \in 1 .. (Size - s) : /\ Distinct(dc.coll[v])
                                    /\ ToSet(dc.coll[v]) = {p \in F : RuleEnd(p) = s + v - 1}
  BY DEF Holds
<1>5. /\ new.expandable \in Seq(Paths) /\ Distinct(new.expandable)
      /\ ToSet(new.expandable) = {Root} \cup Open(F \cup N)
      /\ Grown(dc.expandable, new.expandable)
  <2>1. ToSet(dc.expandable) \cap ToSet(opened) = {}
    BY <1>2, <1>4
  <2>2. /\ new.expandable \in Seq(Paths) /\ Distinct(new.expandable)
        /\ ToSet(new.expandable) = ToSet(dc.expandable) \cup ToSet(opened)
        /\ Len(dc.expandable) <= Len(new.expandable)
        /\ \A i \in 1 .. Len(dc.expandable) : new.expandable[i] = dc.expandable[i]
    <3>1. /\ dc.expandable \o opened \in Seq(Paths) /\ Distinct(dc.expandable \o opened)
          /\ ToSet(dc.expandable \o opened) = ToSet(dc.expandable) \cup ToSet(opened)
          /\ Len(dc.expandable \o opened) >= Len(dc.expandable)
          /\ \A i \in 1 .. Len(dc.expandable) : (dc.expandable \o opened)[i] = dc.expandable[i]
      BY <1>2, <1>4, <2>1, AppendedList
    <3>2. Len(dc.expandable \o opened) \in Nat /\ Len(dc.expandable) \in Nat
      BY <1>4, <3>1
    <3> QED BY <1>3, <3>1, <3>2
  <2> QED BY <1>2, <1>4, <2>2 DEF Grown
<1>6. new.expandable # <<>> /\ new.expandable[1] = Root
  <2>1. Len(dc.expandable) \in Nat \ {0} /\ Len(new.expandable) \in Nat
    BY <1>4, <1>5
  <2>2. 1 \in 1 .. Len(dc.expandable)
    BY <2>1
  <2>3. new.expandable[1] = dc.expandable[1] /\ Len(new.expandable) # 0
    BY <1>5, <2>1, <2>2 DEF Grown
  <2> QED BY <1>4, <2>3
<1>7. /\ dc.coll[pos] \o added \in Seq(Paths) /\ Distinct(dc.coll[pos] \o added)
      /\ ToSet(dc.coll[pos] \o added) = {p \in F \cup N : RuleEnd(p) = s + pos - 1}
  <2>1. /\ dc.coll[pos] \in Seq(Paths) /\ Distinct(dc.coll[pos])
        /\ ToSet(dc.coll[pos]) = {p \in F : RuleEnd(p) = s + pos - 1}
    BY <1>0, <1>4
  <2>2. ToSet(dc.coll[pos]) \cap ToSet(added) = {}
    BY <1>1, <2>1
  <2>3. /\ dc.coll[pos] \o added \in Seq(Paths) /\ Distinct(dc.coll[pos] \o added)
        /\ ToSet(dc.coll[pos] \o added) = ToSet(dc.coll[pos]) \cup ToSet(added)
    BY <1>1, <2>1, <2>2, AppendedList
  <2> QED BY <1>1, <2>1, <2>3
<1>8. pos \in 0 .. (Size - s)
  BY <1>0
<1>9. new.coll \in [0 .. (Size - s) -> Seq(Paths)]
  <2> DEFINE x == dc.coll[pos] \o added
  <2>1. x \in Seq(Paths) /\ new.coll = [dc.coll EXCEPT ![pos] = x]
    BY <1>3, <1>7
  <2> HIDE DEF x, Paths
  <2> QED BY <1>4, <2>1
<1>10. ASSUME NEW v \in 1 .. (Size - s)
       PROVE  /\ Distinct(new.coll[v])
              /\ ToSet(new.coll[v]) = {p \in F \cup N : RuleEnd(p) = s + v - 1}
  <2>1. v \in 0 .. (Size - s) /\ s + v - 1 \in Int /\ s + pos - 1 \in Int
    BY <1>0
  <2>2. new.coll[v] = IF v = pos THEN dc.coll[pos] \o added ELSE dc.coll[v]
    BY <1>3, <1>4, <1>8, <2>1
  <2>3. CASE v = pos
    BY <1>7, <2>2, <2>3
  <2>4. CASE v # pos
    <3>1. \A p \in N : RuleEnd(p) # s + v - 1
      BY <1>0, <2>4
    <3> QED BY <1>4, <2>2, <2>4, <3>1
  <2> QED BY <2>3, <2>4
<1>11. Holds(g, s, new, F \cup N)
  BY <1>3, <1>5, <1>6, <1>9, <1>10 DEF Holds
<1> QED BY <1>5, <1>11 DEF new

\* There are finitely many labels.
LEMMA LabelsFinite ==
    ASSUME setup \in DOMAIN Setups PROVE IsFiniteSet(LabelsOf)
<1> DEFINE lhs == [g \in Graphs |-> {r.lhs : r \in Config.tables[g].rules}]
           sets == {lhs[g] : g \in Graphs}
<1>1. IsFiniteSet(Graphs) /\ DOMAIN Config.tables = Graphs
  <2>1. Len(Config.tables) \in Nat /\ DOMAIN Config.tables = 1 .. Len(Config.tables)
    <3> HIDE DEF Tables
    <3> QED BY ConfigFacts
  <2> QED BY <2>1, FS_Interval DEF Graphs
<1>2. ASSUME NEW g \in Graphs PROVE IsFiniteSet(lhs[g])
  <2> DEFINE f == [r \in Config.tables[g].rules |-> r.lhs]
  <2>1. f \in Surjection(Config.tables[g].rules, lhs[g])
    BY DEF Surjection
  <2>2. IsFiniteSet(Config.tables[g].rules)
    BY ConfigFacts
  <2> HIDE DEF f, lhs
  <2> QED BY <2>1, <2>2, FS_Surjection, Zenon
<1>3. IsFiniteSet(sets)
  <2>1. lhs \in Surjection(Graphs, sets)
    BY DEF Surjection
  <2> HIDE DEF lhs, sets
  <2> QED BY <1>1, <2>1, FS_Surjection, Zenon
<1>4. IsFiniteSet(UNION sets)
  <2>1. \A T \in sets : IsFiniteSet(T)
    BY <1>2
  <2> HIDE DEF sets
  <2> QED BY <1>3, <2>1, FS_UNION
<1>5. IsFiniteSet(Config.unknownLHS)
  BY ParserAssumption DEF Config
<1>6. LabelsOf = Config.unknownLHS \cup UNION sets
  BY <1>1 DEF LabelsOf, TargetLabels
<1> QED BY <1>4, <1>5, <1>6, FS_Union

\* What is to be found in this span by extending q.
NewFrom(q) ==
    {p \in Paths : /\ Partial(graph, span.start, p) /\ Parent(p) = q
                   /\ Due(span.start, p) = span.width}

\* Where a new dotted rule ends, whether its last element is a label or not.
LEMMA NewEnds ==
    ASSUME setup \in DOMAIN Setups, SpanOk, graph \in Graphs, NEW q \in Paths,
           NEW p \in Paths, Partial(graph, span.start, p), Parent(p) = q
    PROVE  /\ Alone(p) <=> q = Root /\ IsLabel(p[Len(p)].sym)
           /\ Alone(p) => (Due(span.start, p) = span.width <=> RuleEnd(p) = EndPos - 1)
           /\ ~Alone(p) => (Due(span.start, p) = span.width <=> RuleEnd(p) = EndPos)
           /\ NextPos(span.start, q) <= RuleEnd(p)
<1>1. Parent(p) = Root <=> Len(p) = 1
  BY ParentFacts DEF Partial, Paths
<1>2. Alone(p) <=> q = Root /\ IsLabel(p[Len(p)].sym)
  BY <1>1 DEF Alone
<1>3. RuleEnd(p) \in Nat /\ span.start \in Starts
  BY PartialFacts DEF SpanOk
<1>4. p[Len(p)].start = NextPos(span.start, q) /\ p[Len(p)].start <= RuleEnd(p)
  BY <1>3, LastElement
<1>5. EndPos \in Nat /\ EndPos - span.start + 1 = span.width /\ span.start \in Nat /\ EndPos = span.start + span.width - 1 /\ span.width \in Nat
  BY SpanFacts
<1> DEFINE w == span.width
           s == span.start
           x == RuleEnd(p)
           d == Due(s, p)
<1>6. (Alone(p) => d = x - s + 2) /\ (~Alone(p) => d = x - s + 1)
  BY DEF Due
<1>7. x \in Nat /\ s \in Nat /\ w \in Nat /\ EndPos = s + w - 1
  BY <1>3, <1>5
<1>8. /\ Alone(p) => (d = w <=> x = EndPos - 1)
      /\ ~Alone(p) => (d = w <=> x = EndPos)
  <2> HIDE DEF w, s, x, d
  <2> QED BY <1>6, <1>7
<1> QED BY <1>2, <1>4, <1>8

\* The cell of the span has no labels yet.
Unfilled == labels[span.start, EndPos] = {}

\* One iteration of the loop over the dotted rules finds what extends the rule
\* of its turn, and only that.
LEMMA ExtendWithHolds ==
    ASSUME setup \in DOMAIN Setups, SpanOk, graph \in Graphs,
           labels \in [Cells -> SUBSET LabelsOf], Unfilled,
           NEW F \in SUBSET (Paths \ {Root}), NEW dc, Holds(graph, span.start, dc, F),
           NEW q \in Paths, q = Root \/ Partial(graph, span.start, q),
           NewFrom(q) \cap F = {}
    PROVE  LET new == ExtendWith(dc, q) IN
           /\ Holds(graph, span.start, new, F \cup NewFrom(q))
           /\ Grown(dc.expandable, new.expandable)
<1> DEFINE first == NextPos(span.start, q)
           atRoot == first = span.start /\ EndPos > span.start
           last == IF atRoot THEN EndPos - 1 ELSE EndPos
           stackInd == IF atRoot THEN span.width - 1 ELSE span.width
           W == ByTerminal(q, first)
           L == ByNonTerminal(q, first, last)
           mid == AddDotted(Config.tables[graph], dc, span.width, W)
           new == ExtendWith(dc, q)
<1>1. new = IF first > EndPos THEN mid
            ELSE AddDotted(Config.tables[graph], mid, stackInd, L)
  BY DEF ExtendWith, NextPos, Table
<1>2. /\ EndPos \in Starts /\ EndPos \in Nat /\ span.start \in Starts /\ span.start \in Nat /\ span.start <= EndPos
      /\ EndPos - span.start + 1 = span.width /\ span.width \in 1 .. (Size - span.start)
      /\ span.width \in Nat \ {0} /\ Size \in Nat \ {0}
      /\ EndPos = span.start + span.width - 1 /\ span.start + span.width <= Size
      /\ span.width # 1 => EndPos - 1 \in Starts /\ span.start <= EndPos - 1
      /\ span.width = 1 => EndPos = span.start
  BY SpanFacts DEF SpanOk
<1>3. \A p : p \in W <=> /\ p \in Paths /\ Partial(graph, span.start, p) /\ Parent(p) = q
                         /\ RuleEnd(p) = EndPos /\ ~IsLabel(p[Len(p)].sym)
  BY WordsFound
<1>4. first \in Nat /\ span.start <= first /\ (first = span.start => q = Root)
  <2>1. CASE q = Root
    BY <1>2, <2>1 DEF NextPos
  <2>2. CASE q # Root
    <3>1. RuleEnd(q) \in Nat /\ span.start <= RuleEnd(q)
      BY <1>2, <2>2, PartialFacts
    <3> QED BY <1>2, <2>2, <3>1 DEF NextPos
  <2> QED BY <2>1, <2>2
<1>5. q = Root => first = span.start
  BY DEF NextPos
<1>6. W \in SUBSET (Paths \ {Root}) /\ IsFiniteSet(W)
  <2>1. W \in SUBSET (Paths \ {Root})
    BY <1>3 DEF Partial
  <2>2. \E x : W \subseteq {x}
    BY DEF ByTerminal
  <2>3. PICK x : W \subseteq {x}
    BY <2>2
  <2>4. IsFiniteSet({x})
    BY FS_Singleton
  <2> HIDE DEF W
  <2> QED BY <2>1, <2>3, <2>4, PartOfFinite
<1>7. W \subseteq NewFrom(q)
  <2> SUFFICES ASSUME NEW p \in W PROVE p \in NewFrom(q)
    OBVIOUS
  <2>1. /\ p \in Paths /\ Partial(graph, span.start, p) /\ Parent(p) = q
        /\ RuleEnd(p) = EndPos /\ ~IsLabel(p[Len(p)].sym)
    BY <1>3
  <2>2. Due(span.start, p) = span.width
    BY <2>1, NewEnds
  <2> QED BY <2>1, <2>2 DEF NewFrom
<1>8. /\ Holds(graph, span.start, mid, F \cup W) /\ Grown(dc.expandable, mid.expandable)
  <2>1. W \cap F = {}
    BY <1>7
  <2>2. \A p \in W : RuleEnd(p) = span.start + span.width - 1
    BY <1>2, <1>3
  <2> HIDE DEF W
  <2>3. span.start \in Starts /\ span.width \in 1 .. (Size - span.start) /\ Holds(graph, span.start, dc, F)
    BY <1>2 
  <2> QED BY <1>6, <2>1, <2>2, <2>3, AddDottedHolds
<1>9. CASE first > EndPos
  <2>1. NewFrom(q) = {}
    <3> SUFFICES ASSUME NEW p \in NewFrom(q) PROVE FALSE
      OBVIOUS
    <3>1. /\ p \in Paths /\ Partial(graph, span.start, p) /\ Parent(p) = q /\ Due(span.start, p) = span.width
      BY DEF NewFrom
    <3>2. RuleEnd(p) = EndPos - 1 \/ RuleEnd(p) = EndPos
      BY <3>1, NewEnds
    <3>3. first <= RuleEnd(p)
      BY <3>1, NewEnds
    <3> HIDE DEF first
    <3> QED BY <1>2, <1>4, <1>9, <3>2, <3>3
  <2>2. W = {}
    BY <1>7, <2>1
  <2>3. new = mid
    BY <1>1, <1>9
  <2> HIDE DEF new, mid, W
  <2>4. F \cup W = F \cup NewFrom(q)
    BY <2>1, <2>2
  <2> QED BY <1>8, <2>3, <2>4 DEF new
<1>10. CASE ~(first > EndPos)
  <2>1. /\ last \in Starts /\ first <= last /\ stackInd \in 0 .. (Size - span.start)
        /\ last = span.start + stackInd - 1
    <3>1. CASE atRoot
      <4>1. span.width # 1 /\ last = EndPos - 1 /\ stackInd = span.width - 1 /\ first = span.start
        BY <1>2, <3>1
      <4> HIDE DEF first, last, stackInd
      <4>2. Size \in Nat
        BY ConfigFacts
      <4> QED BY <1>2, <4>1, <4>2
    <3>2. CASE ~atRoot
      <4>1. last = EndPos /\ stackInd = span.width
        BY <3>2
      <4> HIDE DEF first, last, stackInd
      <4>2. Size \in Nat
        BY ConfigFacts
      <4> QED BY <1>2, <1>4, <1>10, <4>1, <4>2
    <3> QED BY <3>1, <3>2
  <2>2. \A p : p \in L <=> /\ p \in Paths /\ Partial(graph, span.start, p) /\ Parent(p) = q
                           /\ RuleEnd(p) = last /\ IsLabel(p[Len(p)].sym)
    <3> HIDE DEF last
    <3>1. last \in Starts /\ NextPos(span.start, q) <= last
      BY <2>1
    <3> QED BY <3>1, LabelsFound
  <2>3. stackInd \in 1 .. (Size - span.start)
    <3>1. atRoot => span.width # 1
      BY <1>2
    <3>2. Size \in Nat
      BY ConfigFacts
    <3> QED BY <1>2, <2>1, <3>1, <3>2
  <2>4. L \in SUBSET (Paths \ {Root}) /\ IsFiniteSet(L)
    <3>1. L \in SUBSET (Paths \ {Root})
      BY <2>2 DEF Partial
    <3> DEFINE set == labels[first, last]
               f == [l \in set |-> Extend(q, l, first, last)]
               image == {f[l] : l \in set}
    <3>2. set \subseteq LabelsOf
      <4>1. first \in Starts
        <5> HIDE DEF first, last
        <5> QED BY <1>4, <2>1, ConfigFacts DEF Starts
      <4>2. <<first, last>> \in Cells
        <5> HIDE DEF first, last
        <5> QED BY <2>1, <4>1 DEF Cells
      <4> HIDE DEF first, last
      <4> QED BY <4>2
    <3>3. IsFiniteSet(set)
      BY <3>2, LabelsFinite, PartOfFinite
    <3>4. IsFiniteSet(image)
      <4>1. f \in Surjection(set, image)
        BY DEF Surjection
      <4> HIDE DEF set, f, image
      <4> QED BY <3>3, <4>1, FS_Surjection, Zenon
    <3>5. L \subseteq image
      BY DEF ByNonTerminal
    <3> HIDE DEF L, image
    <3> QED BY <3>1, <3>4, <3>5, PartOfFinite
  <2>5. W \cap L = {}
    BY <1>3, <2>2
  <2>6. W \cup L = NewFrom(q)
    <3>1. ASSUME NEW p \in Paths, Partial(graph, span.start, p), Parent(p) = q
          PROVE  p \in W \cup L <=> Due(span.start, p) = span.width
      <4>1. /\ Alone(p) <=> q = Root /\ IsLabel(p[Len(p)].sym)
            /\ Alone(p) => (Due(span.start, p) = span.width <=> RuleEnd(p) = EndPos - 1)
            /\ ~Alone(p) => (Due(span.start, p) = span.width <=> RuleEnd(p) = EndPos)
        BY <3>1, NewEnds
      <4>2. /\ p \in W <=> RuleEnd(p) = EndPos /\ ~IsLabel(p[Len(p)].sym)
            /\ p \in L <=> RuleEnd(p) = last /\ IsLabel(p[Len(p)].sym)
        BY <1>3, <2>2, <3>1
      <4>3. CASE q # Root
        <5>1. last = EndPos
          BY <1>4, <4>3
        <5> HIDE DEF W, L, last
        <5> QED BY <4>1, <4>2, <4>3, <5>1
      <4>4. CASE q = Root /\ span.width # 1
        <5>1. last = EndPos - 1
          <6>1. atRoot
            BY <1>2, <1>5, <4>4
          <6> QED BY <6>1
        <5> HIDE DEF W, L, last
        <5> QED BY <4>1, <4>2, <4>4, <5>1
      <4>5. CASE q = Root /\ span.width = 1
        <5>1. last = span.start /\ first = span.start /\ EndPos = span.start
          BY <1>2, <1>5, <4>5
        <5>2. L = {}
          <6>1. labels[first, last] = {}
            <7>1. <<first, last>> = <<span.start, EndPos>>
              BY <5>1
            <7> HIDE DEF first, last
            <7> QED BY <7>1 DEF Unfilled
          <6> HIDE DEF first, last
          <6> QED BY <6>1 DEF ByNonTerminal
        <5>3. Alone(p) => RuleEnd(p) # EndPos - 1
          <6>1. RuleEnd(p) \in Nat /\ span.start <= RuleEnd(p)
            BY <1>2, <3>1, PartialFacts
          <6> QED BY <1>2, <5>1, <6>1
        <5> HIDE DEF W, L, last
        <5> QED BY <4>1, <4>2, <4>5, <5>1, <5>2, <5>3
      <4> QED BY <4>3, <4>4, <4>5
    <3>2. \A p \in W \cup L : p \in Paths /\ Partial(graph, span.start, p) /\ Parent(p) = q
      BY <1>3, <2>2
    <3>3. \A p : p \in NewFrom(q) <=> /\ p \in Paths /\ Partial(graph, span.start, p) /\ Parent(p) = q
                                      /\ Due(span.start, p) = span.width
      BY DEF NewFrom
    <3> HIDE DEF W, L
    <3> QED BY <3>1, <3>2, <3>3
  <2>7. new = AddDotted(Config.tables[graph], mid, stackInd, L)
    BY <1>1, <1>10
  <2>8. \A p \in L : RuleEnd(p) = span.start + stackInd - 1
    BY <2>1, <2>2
  <2>9. L \cap (F \cup W) = {} /\ F \cup W \in SUBSET (Paths \ {Root})
    BY <1>6, <2>5, <2>6
  <2> HIDE DEF L, W, mid, stackInd, new
  <2>10. /\ Holds(graph, span.start, new, (F \cup W) \cup L) /\ Grown(mid.expandable, new.expandable)
    BY <1>2, <1>8, <2>3, <2>4, <2>7, <2>8, <2>9, AddDottedHolds
  <2>11. (F \cup W) \cup L = F \cup NewFrom(q)
    BY <2>6
  <2>12. Grown(dc.expandable, new.expandable)
    <3>1. /\ dc.expandable \in Seq(Paths) /\ mid.expandable \in Seq(Paths)
          /\ new.expandable \in Seq(Paths)
      BY <1>8, <2>10 DEF Holds
    <3>2. \A x \in Seq(Paths) : Len(x) \in Nat
      <4> HIDE DEF Paths
      <4> QED OBVIOUS
    <3>3. /\ Len(dc.expandable) \in Nat /\ Len(mid.expandable) \in Nat
          /\ Len(new.expandable) \in Nat
      BY <3>1, <3>2
    <3> QED BY <1>8, <2>10, <3>3 DEF Grown
  <2> QED BY <2>10, <2>11, <2>12 DEF new
<1> QED BY <1>9, <1>10

-----------------------------------------------------------------------------
(* The bounded list                                                          *)

\* One element less makes a finite set smaller by one.
LEMMA OneLess ==
    ASSUME NEW S, IsFiniteSet(S), NEW x \in S
    PROVE  /\ IsFiniteSet(S \ {x}) /\ Cardinality(S) \in Nat
           /\ Cardinality(S \ {x}) = Cardinality(S) - 1
<1>1. IsFiniteSet(S \ {x}) /\ Cardinality(S \ {x}) = Cardinality(S) - 1
  BY FS_RemoveElement
<1> QED BY <1>1, FS_CardinalityType

\* before[x] is what comes before x in a strict order of S in which any two
\* elements come one before the other.
Ordering(S, before) ==
    /\ before \in [S -> SUBSET S]
    /\ \A x \in S : x \notin before[x]
    /\ \A x, y \in S : x # y => x \in before[y] \/ y \in before[x]
    /\ \A x, y \in S : x \in before[y] => before[x] \subseteq before[y]

\* The ranks of a finite ordered set: each is taken, by one element.
LEMMA RankFacts ==
    ASSUME NEW S, IsFiniteSet(S), NEW before, Ordering(S, before)
    PROVE  /\ Cardinality(S) \in Nat
           /\ \A x \in S : Cardinality(before[x]) \in 0 .. Cardinality(S) - 1
           /\ \A x, y \in S : x \in before[y] => Cardinality(before[x]) < Cardinality(before[y])
           /\ \A x, y \in S : Cardinality(before[x]) = Cardinality(before[y]) => x = y
           /\ \A k \in 1 .. Cardinality(S) : \E x \in S : Cardinality(before[x]) = k - 1
<1> DEFINE n == Cardinality(S)
           rank == [x \in S |-> Cardinality(before[x])]
<1>1. n \in Nat
  BY FS_CardinalityType
<1>2. ASSUME NEW x \in S
      PROVE  IsFiniteSet(before[x]) /\ Cardinality(before[x]) \in 0 .. n - 1
  <2>1. before[x] \subseteq S \ {x}
    BY DEF Ordering
  <2>2. IsFiniteSet(S \ {x}) /\ Cardinality(S \ {x}) = n - 1
    BY OneLess
  <2>3. /\ IsFiniteSet(before[x]) /\ Cardinality(before[x]) \in Nat
        /\ Cardinality(before[x]) <= Cardinality(S \ {x})
    BY <2>1, <2>2, PartOfFinite
  <2> HIDE DEF n
  <2> QED BY <1>1, <2>2, <2>3
<1>3. ASSUME NEW x \in S, NEW y \in S, x \in before[y]
      PROVE  Cardinality(before[x]) < Cardinality(before[y])
  <2>1. before[x] \subseteq before[y] \ {x}
    BY <1>3 DEF Ordering
  <2>2. /\ IsFiniteSet(before[y] \ {x}) /\ Cardinality(before[y]) \in Nat
        /\ Cardinality(before[y] \ {x}) = Cardinality(before[y]) - 1
    BY <1>2, <1>3, OneLess
  <2>3. Cardinality(before[x]) \in Nat /\ Cardinality(before[x]) <= Cardinality(before[y] \ {x})
    BY <2>1, <2>2, PartOfFinite
  <2> QED BY <2>2, <2>3
<1>4. ASSUME NEW x \in S, NEW y \in S, Cardinality(before[x]) = Cardinality(before[y])
      PROVE  x = y
  <2>1. Cardinality(before[x]) \in Int
    BY <1>2
  <2>2. ~(Cardinality(before[x]) < Cardinality(before[y]))
        /\ ~(Cardinality(before[y]) < Cardinality(before[x]))
    BY <1>4, <2>1
  <2>3. x \notin before[y] /\ y \notin before[x]
    BY <1>3, <2>2
  <2> QED BY <2>3 DEF Ordering
<1>5. rank \in Injection(S, 0 .. n - 1)
  <2>1. rank \in [S -> 0 .. n - 1]
    BY <1>2
  <2>2. \A x, y \in S : rank[x] = rank[y] => x = y
    BY <1>4
  <2> HIDE DEF rank, n
  <2> QED BY <2>1, <2>2 DEF Injection, IsInjective
<1>6. IsFiniteSet(0 .. n - 1) /\ Cardinality(0 .. n - 1) = n
  <2> HIDE DEF n
  <2> QED BY <1>1, FS_Interval
<1>7. rank \in Surjection(S, 0 .. n - 1)
  BY <1>5, <1>6, FS_Injection
<1>8. ASSUME NEW k \in 1 .. n PROVE \E x \in S : Cardinality(before[x]) = k - 1
  <2>1. \E x \in S : rank[x] = k - 1
    <3> HIDE DEF rank, n
    <3>1. k - 1 \in 0 .. n - 1
      BY <1>1
    <3> QED BY <1>7, <3>1 DEF Surjection
  <2> QED BY <2>1
<1> QED BY <1>1, <1>2, <1>3, <1>4, <1>8

\* Which places of a list BestOf takes: as many as fit, each once, the better
\* ones first.
Takes(options, n, f) ==
    /\ f \in [1 .. Lower(n, Len(options)) -> 1 .. Len(options)]
    /\ BestOf(options, n) = [k \in 1 .. Lower(n, Len(options)) |-> options[f[k]]]
    /\ \A k, l \in 1 .. Lower(n, Len(options)) : f[k] = f[l] => k = l
    /\ \A k \in 1 .. Lower(n, Len(options)) : \A i \in 1 .. Len(options) :
          (\A l \in 1 .. k : f[l] # i) => options[i].score <= options[f[k]].score

LEMMA BestOfFacts ==
    ASSUME NEW O, \A o \in O : o.score \in Int, NEW options \in Seq(O), NEW n \in Nat
    PROVE  \E f : Takes(options, n, f)
<1> DEFINE len == Len(options)
           D == 1 .. len
           before == [i \in D |-> Better(options, i)]
           room == Lower(n, len)
           f == [k \in 1 .. room |-> CHOOSE i \in D : Cardinality(Better(options, i)) = k - 1]
<1>1. /\ len \in Nat /\ DOMAIN options = D
      /\ \A i \in D : i \in Nat /\ options[i] \in O /\ options[i].score \in Int
  OBVIOUS
<1>2. IsFiniteSet(D) /\ Cardinality(D) = len
  <2>1. len \in Nat
    BY <1>1
  <2> HIDE DEF len
  <2> QED BY <2>1, FS_Interval
<1>3. \A i \in D :
         before[i] = {j \in D : \/ options[j].score > options[i].score
                                \/ options[j].score = options[i].score /\ j < i}
  BY <1>1 DEF Better
<1>4. Ordering(D, before)
  <2>0. DOMAIN before = D
    OBVIOUS
  <2> HIDE DEF before, D
  <2>1. before \in [D -> SUBSET D] /\ \A x \in D : x \notin before[x]
    <3>1. before = [i \in D |-> before[i]] 
      BY DEF before
    <3> QED BY <1>1, <1>3, <3>1
  <2>2. \A x, y \in D : x # y => x \in before[y] \/ y \in before[x]
    BY <1>1, <1>3
  <2>3. \A x, y \in D : x \in before[y] => before[x] \subseteq before[y]
    BY <1>1, <1>3
  <2> QED BY <2>1, <2>2, <2>3 DEF Ordering
<1>5. /\ \A x \in D : Cardinality(before[x]) \in 0 .. len - 1
      /\ \A x, y \in D : x \in before[y] => Cardinality(before[x]) < Cardinality(before[y])
      /\ \A x, y \in D : Cardinality(before[x]) = Cardinality(before[y]) => x = y
      /\ \A k \in 1 .. len : \E x \in D : Cardinality(before[x]) = k - 1
  <2> HIDE DEF before, D, len
  <2> QED BY <1>2, <1>4, RankFacts
<1>6. room \in Nat /\ room <= len /\ room <= n
  BY <1>1 DEF Lower
<1>7. ASSUME NEW k \in 1 .. room
      PROVE  f[k] \in D /\ Cardinality(before[f[k]]) = k - 1
  <2>1. k \in 1 .. len
    <3> HIDE DEF room, len
    <3> QED BY <1>1, <1>6
  <2>2. \E i \in D : Cardinality(Better(options, i)) = k - 1
    BY <1>5, <2>1
  <2> DEFINE x == CHOOSE i \in D : Cardinality(Better(options, i)) = k - 1
  <2>3. x \in D /\ Cardinality(Better(options, x)) = k - 1
    BY <2>2
  <2>4. f[k] = x
    OBVIOUS
  <2> HIDE DEF x, f
  <2> QED BY <2>3, <2>4
<1>8. BestOf(options, n) = [k \in 1 .. room |-> options[f[k]]]
  BY <1>1 DEF BestOf
<1> DEFINE rank(i) == Cardinality(before[i])
<1>9. f \in [1 .. room -> D]
  <2> HIDE DEF before, room, D
  <2>1. f = [k \in 1 .. room |-> f[k]]
    OBVIOUS
  <2> HIDE DEF f
  <2> QED BY <1>7, <2>1
<1> HIDE DEF f, before
<1>10. ASSUME NEW k \in 1 .. room, NEW l \in 1 .. room, f[k] = f[l] PROVE k = l
  <2>1. k - 1 = l - 1
    BY <1>7, <1>10
  <2> HIDE DEF room
  <2> QED BY <1>6, <2>1
<1>11. ASSUME NEW k \in 1 .. room, NEW i \in D, \A l \in 1 .. k : f[l] # i
       PROVE  options[i].score <= options[f[k]].score
  <2> DEFINE r == Cardinality(before[i]) + 1
  <2>1. r \in 1 .. len /\ Cardinality(before[i]) = r - 1 /\ r \in Nat
    <3> HIDE DEF len, D
    <3> QED BY <1>1, <1>5
  <2> HIDE DEF r, room
  <2>2. r \notin 1 .. k
    <3> SUFFICES ASSUME r \in 1 .. k PROVE FALSE
      OBVIOUS
    <3>1. r \in 1 .. room
      BY <1>6
    <3>2. f[r] = i
      BY <1>5, <1>7, <2>1, <3>1
    <3> QED BY <1>11, <3>2
  <2>3. k < r
    BY <1>6, <2>1, <2>2
  <2>4. f[k] \in D /\ Cardinality(before[f[k]]) = k - 1
    BY <1>7
  <2>5. i \notin before[f[k]]
    <3>1. ~(r - 1 < k - 1)
      BY <1>6, <2>1, <2>3
    <3> HIDE DEF D
    <3> QED BY <1>5, <2>1, <2>4, <3>1
  <2>6. ~(options[i].score > options[f[k]].score)
    BY <1>3, <2>4, <2>5
  <2> HIDE DEF D
  <2> QED BY <1>1, <2>4, <2>6
<1> QED BY <1>8, <1>9, <1>10, <1>11 DEF Takes

\* How many options of a list score at least s.
Count(options, s) == Cardinality({i \in DOMAIN options : options[i].score >= s})

LEMMA CountFacts ==
    ASSUME NEW O, NEW options \in Seq(O), NEW s
    PROVE  /\ Len(options) \in Nat /\ DOMAIN options = 1 .. Len(options)
           /\ IsFiniteSet(DOMAIN options) /\ Cardinality(DOMAIN options) = Len(options)
           /\ IsFiniteSet({i \in DOMAIN options : options[i].score >= s})
           /\ Count(options, s) \in Nat /\ Count(options, s) <= Len(options)
           /\ Count(options, s) >= Len(options) => \A i \in DOMAIN options : options[i].score >= s
<1> DEFINE n == Len(options)
           D == DOMAIN options
           C == {i \in D : options[i].score >= s}
<1>1. n \in Nat /\ D = 1 .. n
  OBVIOUS
<1> HIDE DEF n, D
<1>2. IsFiniteSet(D) /\ Cardinality(D) = n
  BY <1>1, FS_Interval
<1>3. IsFiniteSet(C) /\ Cardinality(C) \in Nat /\ Cardinality(C) <= n
  BY <1>2, PartOfFinite
<1>4. Cardinality(C) >= n => C = D
  <2>1. C \in SUBSET D
    OBVIOUS
  <2>2. Cardinality(D) = Cardinality(C) => D = C
    <3> HIDE DEF C
    <3> QED BY <1>2, <2>1, FS_Subset
  <2> HIDE DEF C
  <2> QED BY <1>1, <1>2, <1>3, <2>2
<1> QED BY <1>1, <1>2, <1>3, <1>4 DEF Count, n, D

\* The count in a longer list.
LEMMA CountAppend ==
    ASSUME NEW O, NEW options \in Seq(O), NEW o \in O, NEW s
    PROVE  /\ Count(Append(options, o), s) >= Count(options, s)
           /\ o.score >= s => Count(Append(options, o), s) = Count(options, s) + 1
<1> DEFINE long == Append(options, o)
           n == Len(options)
           A == {i \in DOMAIN options : options[i].score >= s}
           B == {i \in DOMAIN long : long[i].score >= s}
<1>1. /\ n \in Nat /\ DOMAIN options = 1 .. n /\ DOMAIN long = 1 .. (n + 1)
      /\ \A i \in 1 .. n : long[i] = options[i]
      /\ long[n + 1] = o /\ long \in Seq(O)
  OBVIOUS
<1>2. /\ IsFiniteSet(A) /\ Count(options, s) = Cardinality(A) /\ Count(options, s) \in Nat
      /\ IsFiniteSet(B) /\ Count(long, s) = Cardinality(B) /\ Count(long, s) \in Nat
  <2>1. /\ IsFiniteSet(A) /\ Count(options, s) \in Nat
    BY CountFacts
  <2> HIDE DEF long
  <2>2. IsFiniteSet(B) /\ Count(long, s) \in Nat
    BY <1>1, CountFacts
  <2> QED BY <2>1, <2>2 DEF Count
<1>3. /\ A \subseteq B /\ n + 1 \notin A
      /\ o.score >= s => B = A \cup {n + 1}
  <2>1. \A i : i \in 1 .. (n + 1) <=> i \in 1 .. n \/ i = n + 1
    BY <1>1
  <2>2. n + 1 \notin 1 .. n
    BY <1>1
  <2> HIDE DEF n, long
  <2> QED BY <1>1, <2>1, <2>2
<1>4. Cardinality(A) <= Cardinality(B)
  BY <1>2, <1>3, PartOfFinite
<1>5. Cardinality(A \cup {n + 1}) = Cardinality(A) + 1
  <2> HIDE DEF A, n
  <2> QED BY <1>2, <1>3, FS_AddElement
<1> HIDE DEF A, B, long, n
<1> QED BY <1>2, <1>3, <1>4, <1>5 DEF long

\* Whatever the limit's worth of options reach, all the best reach; and the best
\* are better than what is dropped.
LEMMA BestKeep ==
    ASSUME NEW O, \A o \in O : o.score \in Int, NEW options \in Seq(O), Distinct(options),
           NEW limit \in Nat \ {0}, limit <= Len(options)
    PROVE  LET best == BestOf(options, limit) IN
           /\ best \in Seq(O) /\ Len(best) = limit /\ Distinct(best)
           /\ ToSet(best) \subseteq ToSet(options)
           /\ \A k \in 1 .. limit : best[k].score >= best[limit].score
           /\ \A s \in Int : Count(options, s) >= limit => \A k \in 1 .. limit : best[k].score >= s
           /\ \A o \in ToSet(options) \ ToSet(best) : \A k \in 1 .. limit : best[k].score >= o.score
<1> DEFINE best == BestOf(options, limit)
           len == Len(options)
<1>1. PICK f : Takes(options, limit, f)
  BY BestOfFacts
<1>2. /\ len \in Nat /\ DOMAIN options = 1 .. len /\ Lower(limit, len) = limit
      /\ \A i \in 1 .. len : options[i] \in O /\ options[i].score \in Int
  BY DEF Lower
<1>3. /\ f \in [1 .. limit -> 1 .. len]
      /\ best = [k \in 1 .. limit |-> options[f[k]]]
      /\ \A k, l \in 1 .. limit : f[k] = f[l] => k = l
      /\ \A k \in 1 .. limit : \A i \in 1 .. len :
            (\A l \in 1 .. k : f[l] # i) => options[i].score <= options[f[k]].score
  BY <1>1, <1>2 DEF Takes
<1> HIDE DEF best, len
<1>4. /\ best \in Seq(O) /\ Len(best) = limit /\ DOMAIN best = 1 .. limit
      /\ \A k \in 1 .. limit : best[k] = options[f[k]] /\ f[k] \in 1 .. len
  BY <1>2, <1>3
<1>5. Distinct(best)
  <2> SUFFICES ASSUME NEW i \in 1 .. limit, NEW j \in 1 .. limit, best[i] = best[j] PROVE i = j
    BY <1>4 DEF Distinct
  <2>1. f[i] = f[j]
    BY <1>2, <1>4 DEF Distinct
  <2> QED BY <1>3, <2>1
<1>6. ToSet(best) \subseteq ToSet(options)
  BY <1>2, <1>4 DEF ToSet
<1>7. ASSUME NEW k \in 1 .. limit PROVE best[k].score >= best[limit].score
  <2>1. limit \in 1 .. limit /\ k \in Nat
    OBVIOUS
  <2>2. CASE k = limit
    BY <1>2, <1>4, <2>1, <2>2
  <2>3. CASE k # limit
    <3>1. \A l \in 1 .. k : l \in 1 .. limit /\ l # limit
      BY <2>3
    <3>2. \A l \in 1 .. k : f[l] # f[limit]
      BY <1>3, <2>1, <3>1
    <3>3. options[f[limit]].score <= options[f[k]].score
      BY <1>3, <1>4, <2>1, <3>2
    <3> QED BY <1>2, <1>4, <2>1, <3>3
  <2> QED BY <2>2, <2>3
<1>8. ASSUME NEW s \in Int, Count(options, s) >= limit, NEW k \in 1 .. limit
      PROVE  best[k].score >= s
  <2> DEFINE C == {i \in 1 .. len : options[i].score >= s}
             T == {f[l] : l \in 1 .. (k - 1)}
             h == [l \in 1 .. (k - 1) |-> f[l]]
  <2> SUFFICES ASSUME ~(best[k].score >= s) PROVE FALSE
    OBVIOUS
  <2>1. options[f[k]].score < s /\ f[k] \in 1 .. len /\ k \in Nat \ {0} /\ k - 1 \in Nat
    BY <1>2, <1>4
  <2>2. C \subseteq T
    <3> SUFFICES ASSUME NEW i \in C, i \notin T PROVE FALSE
      OBVIOUS
    <3>1. i # f[k]
      BY <1>2, <2>1
    <3>2. \A l \in 1 .. k : f[l] # i
      <4>1. \A l \in 1 .. k : l = k \/ l \in 1 .. (k - 1)
        BY <2>1
      <4> QED BY <3>1, <4>1
    <3>3. options[i].score <= options[f[k]].score
      BY <1>3, <3>2
    <3> QED BY <1>2, <2>1, <3>3
  <2>3. IsFiniteSet(T) /\ Cardinality(T) <= k - 1
    <3>1. h \in Surjection(1 .. (k - 1), T)
      BY DEF Surjection
    <3>2. IsFiniteSet(1 .. (k - 1)) /\ Cardinality(1 .. (k - 1)) = k - 1
      BY <2>1, UpTo
    <3> DEFINE K == 1 .. (k - 1)
    <3>3. h \in Surjection(K, T) /\ IsFiniteSet(K)
      BY <3>1, <3>2
    <3> HIDE DEF h, T, K
    <3>4. IsFiniteSet(T) /\ Cardinality(T) <= Cardinality(K)
      BY <3>3, FS_Surjection, Zenon
    <3> QED BY <3>2, <3>4 DEF K
  <2>4. Cardinality(C) <= Cardinality(T) /\ Cardinality(C) \in Nat /\ Cardinality(T) \in Nat
    BY <2>2, <2>3, PartOfFinite
  <2>5. Cardinality(C) >= limit
    BY <1>2, <1>8 DEF Count
  <2>6. k <= limit
    OBVIOUS
  <2> HIDE DEF C, T
  <2> QED BY <2>1, <2>3, <2>4, <2>5, <2>6
<1>9. ASSUME NEW o \in ToSet(options) \ ToSet(best), NEW k \in 1 .. limit
      PROVE  best[k].score >= o.score
  <2>1. PICK i \in 1 .. len : o = options[i]
    BY <1>2 DEF ToSet
  <2>2. \A l \in 1 .. limit : f[l] # i
    <3> SUFFICES ASSUME NEW l \in 1 .. limit, f[l] = i PROVE FALSE
      OBVIOUS
    <3>1. best[l] = o
      BY <1>4, <2>1
    <3> QED BY <1>4, <3>1 DEF ToSet
  <2>3. \A l \in 1 .. k : f[l] # i
    BY <2>2
  <2>4. options[i].score <= options[f[k]].score
    BY <1>3, <2>3
  <2> QED BY <1>2, <1>4, <2>1, <2>4
<1> QED BY <1>4, <1>5, <1>6, <1>7, <1>8, <1>9 DEF best

\* A list in the making: options of O, fewer than twice the limit, and the
\* threshold a score.
ListOk(O, l, limit) ==
    /\ l = [options |-> l.options, threshold |-> l.threshold]
    /\ l.options \in Seq(O) /\ Len(l.options) < 2 * limit
    /\ l.threshold \in Int

\* A list that was offered these options, each once: as many options reach the
\* threshold as there can be after a cut, and as many reach what is not there.
Kept(offered, l, limit) ==
    /\ ListOk(offered, l, limit) /\ Distinct(l.options)
    /\ Count(l.options, l.threshold) >= Lower(limit, Len(l.options))
    /\ \A o \in offered \ ToSet(l.options) : Count(l.options, o.score) >= limit

\* Add keeps the list in shape, and does not leave it empty.
LEMMA AddOk ==
    ASSUME NEW O, \A o \in O : o.score \in Int, NEW limit \in Nat \ {0},
           NEW l, ListOk(O, l, limit), NEW option \in O
    PROVE  ListOk(O, Add(l, option, limit), limit) /\ Add(l, option, limit).options # <<>>
<1> DEFINE grown == Append(l.options, option)
           best == BestOf(grown, limit)
<1>1. /\ l = [options |-> l.options, threshold |-> l.threshold]
      /\ l.options \in Seq(O) /\ Len(l.options) < 2 * limit /\ l.threshold \in Int
      /\ Len(l.options) \in Nat
  BY DEF ListOk
<1>2. /\ grown \in Seq(O) /\ Len(grown) = Len(l.options) + 1 /\ Len(grown) \in Nat
  BY <1>1
<1>3. Len(grown) = 2 * limit =>
        best \in Seq(O) /\ Len(best) = limit /\ best[limit].score \in Int
  <2> SUFFICES ASSUME Len(grown) = 2 * limit
               PROVE  best \in Seq(O) /\ Len(best) = limit /\ best[limit].score \in Int
    OBVIOUS
  <2>1. PICK f : Takes(grown, limit, f)
    BY <1>2, BestOfFacts
  <2>2. Lower(limit, Len(grown)) = limit
    BY <1>2 DEF Lower
  <2>3. best = [k \in 1 .. limit |-> grown[f[k]]] /\ f \in [1 .. limit -> 1 .. Len(grown)]
    BY <2>1, <2>2 DEF Takes
  <2>4. \A k \in 1 .. limit : grown[f[k]] \in O
    <3> HIDE DEF grown
    <3> QED BY <1>2, <2>3
  <2> HIDE DEF best, grown
  <2>5. best \in Seq(O) /\ Len(best) = limit
    BY <2>3, <2>4
  <2> QED BY <2>5
<1>4. option.score \in Int /\ Lower(option.score, l.threshold) \in Int
  BY <1>1 DEF Lower
<1> DEFINE new == Add(l, option, limit)
<1>5. \/ new = l /\ Len(l.options) > limit
      \/ Len(grown) = 2 * limit /\ new = [options |-> best, threshold |-> best[limit].score]
      \/ /\ Len(grown) # 2 * limit
         /\ \/ new = [options |-> grown, threshold |-> Lower(option.score, l.threshold)]
            \/ new = [options |-> grown, threshold |-> l.threshold]
  BY DEF Add
<1> HIDE DEF new, best, grown
<1>6. CASE new = l /\ Len(l.options) > limit
  BY <1>1, <1>6 DEF ListOk, new
<1>7. CASE Len(grown) = 2 * limit /\ new = [options |-> best, threshold |-> best[limit].score]
  <2>1. /\ new.options = best /\ new.threshold = best[limit].score /\ Len(best) = limit
        /\ best # <<>> /\ limit < 2 * limit
    BY <1>3, <1>7
  <2> QED BY <1>3, <1>7, <2>1 DEF ListOk, new
<1>8. ASSUME NEW t \in Int, Len(grown) # 2 * limit, new = [options |-> grown, threshold |-> t]
      PROVE  ListOk(O, new, limit) /\ new.options # <<>>
  <2>1. new.options = grown /\ new.threshold = t /\ grown # <<>> /\ Len(grown) < 2 * limit
    BY <1>1, <1>2, <1>8
  <2> QED BY <1>2, <1>8, <2>1 DEF ListOk
<1> QED BY <1>1, <1>4, <1>5, <1>6, <1>7, <1>8 DEF new

\* ShrinkToLimit keeps it in shape and within the limit.
LEMMA ShrinkOk ==
    ASSUME NEW O, \A o \in O : o.score \in Int, NEW limit \in Nat \ {0},
           NEW l, ListOk(O, l, limit)
    PROVE  /\ ListOk(O, ShrinkToLimit(l, limit), limit)
           /\ Len(ShrinkToLimit(l, limit).options) <= limit
<1> DEFINE best == BestOf(l.options, limit)
           new == ShrinkToLimit(l, limit)
<1>1. /\ l = [options |-> l.options, threshold |-> l.threshold]
      /\ l.options \in Seq(O) /\ l.threshold \in Int /\ Len(l.options) \in Nat
  BY DEF ListOk
<1>2. CASE ~(Len(l.options) > limit)
  <2>1. new = l
    BY <1>2 DEF ShrinkToLimit
  <2> HIDE DEF new
  <2> QED BY <1>1, <1>2, <2>1 DEF new
<1>3. CASE Len(l.options) > limit
  <2>1. new = [options |-> best, threshold |-> l.threshold]
    BY <1>1, <1>3 DEF ShrinkToLimit
  <2>2. PICK f : Takes(l.options, limit, f)
    BY <1>1, BestOfFacts
  <2>3. Lower(limit, Len(l.options)) = limit
    BY <1>1, <1>3 DEF Lower
  <2>4. best = [k \in 1 .. limit |-> l.options[f[k]]] /\ f \in [1 .. limit -> 1 .. Len(l.options)]
    BY <2>2, <2>3 DEF Takes
  <2>5. \A k \in 1 .. limit : l.options[f[k]] \in O
    BY <1>1, <2>4
  <2> HIDE DEF best
  <2>6. best \in Seq(O) /\ Len(best) = limit
    BY <2>4, <2>5
  <2>7. new.options = best /\ new.threshold = l.threshold /\ limit < 2 * limit /\ limit <= limit
    BY <2>1
  <2> HIDE DEF new
  <2> QED BY <1>1, <2>1, <2>6, <2>7 DEF ListOk, new
<1> QED BY <1>2, <1>3

\* Counts of all options, and of a lower score.
LEMMA CountMore ==
    ASSUME NEW O, \A o \in O : o.score \in Int, NEW options \in Seq(O), NEW s \in Int
    PROVE  /\ (\A i \in DOMAIN options : options[i].score >= s) => Count(options, s) = Len(options)
           /\ \A t \in Int : t <= s => Count(options, t) >= Count(options, s)
<1>1. DOMAIN options = 1 .. Len(options) /\ \A i \in DOMAIN options : options[i].score \in Int
  OBVIOUS
<1>2. Cardinality(DOMAIN options) = Len(options)
  BY CountFacts
<1>3. ASSUME \A i \in DOMAIN options : options[i].score >= s
      PROVE  Count(options, s) = Len(options)
  <2>1. {i \in DOMAIN options : options[i].score >= s} = DOMAIN options
    BY <1>3
  <2> QED BY <1>2, <2>1 DEF Count
<1>4. ASSUME NEW t \in Int, t <= s
      PROVE  Count(options, t) >= Count(options, s)
  <2> DEFINE A == {i \in DOMAIN options : options[i].score >= s}
             B == {i \in DOMAIN options : options[i].score >= t}
  <2>1. A \subseteq B
    BY <1>1, <1>4
  <2>2. IsFiniteSet(B)
    BY CountFacts
  <2>3. Count(options, s) = Cardinality(A) /\ Count(options, t) = Cardinality(B)
    BY DEF Count
  <2> HIDE DEF A, B
  <2>4. Cardinality(A) <= Cardinality(B) /\ Cardinality(A) \in Nat /\ Cardinality(B) \in Nat
    BY <2>1, <2>2, PartOfFinite
  <2> QED BY <2>3, <2>4
<1> QED BY <1>3, <1>4

\* Add, for an option not offered before.
LEMMA AddKept ==
    ASSUME NEW offered, NEW l, NEW limit \in Nat \ {0}, Kept(offered, l, limit),
           NEW option, option \notin offered,
           \A o \in offered \cup {option} : o.score \in Int
    PROVE  Kept(offered \cup {option}, Add(l, option, limit), limit)
<1> DEFINE O == offered \cup {option}
           grown == Append(l.options, option)
           best == BestOf(grown, limit)
           new == Add(l, option, limit)
           len == Len(l.options)
           count(s) == Count(l.options, s)
<1>1. /\ l = [options |-> l.options, threshold |-> l.threshold]
      /\ l.options \in Seq(offered) /\ len < 2 * limit /\ l.threshold \in Int
      /\ len \in Nat /\ Distinct(l.options)
      /\ count(l.threshold) >= Lower(limit, len)
      /\ \A o \in offered \ ToSet(l.options) : count(o.score) >= limit
  BY DEF Kept, ListOk
<1>2. /\ l.options \in Seq(O) /\ option \in O /\ \A o \in O : o.score \in Int
      /\ grown \in Seq(O) /\ Len(grown) = len + 1 /\ DOMAIN grown = 1 .. (len + 1)
      /\ DOMAIN l.options = 1 .. len /\ grown[len + 1] = option
      /\ \A i \in 1 .. len : grown[i] = l.options[i] /\ l.options[i] \in offered
  BY <1>1
<1>3. ListOk(O, new, limit)
  <2>1. ListOk(O, l, limit)
    BY <1>1, <1>2 DEF ListOk
  <2> HIDE DEF O, new
  <2> QED BY <1>2, <2>1, AddOk DEF new
<1>4. \A s : /\ count(s) \in Nat /\ Count(grown, s) \in Nat /\ Count(grown, s) >= count(s)
             /\ count(s) <= len
  <2> HIDE DEF O, grown, len
  <2>1. \A s : Count(grown, s) >= count(s)
    BY <1>2, CountAppend DEF grown
  <2> QED BY <1>2, <2>1, CountFacts DEF len
<1>5. \/ new = l /\ len > limit /\ option.score < l.threshold
      \/ len + 1 = 2 * limit /\ new = [options |-> best, threshold |-> best[limit].score]
      \/ /\ len + 1 # 2 * limit /\ len + 1 <= limit
         /\ new = [options |-> grown, threshold |-> Lower(option.score, l.threshold)]
      \/ /\ len + 1 # 2 * limit /\ ~(len + 1 <= limit)
         /\ new = [options |-> grown, threshold |-> l.threshold]
  <2> HIDE DEF best, grown, len
  <2> QED BY <1>2 DEF Add, grown, best, len
<1>6. Distinct(grown) /\ ToSet(grown) = ToSet(l.options) \cup {option}
  <2>1. \A i \in 1 .. (len + 1) : i \in 1 .. len \/ i = len + 1
    BY <1>1
  <2>2. len + 1 \in 1 .. (len + 1) /\ \A i \in 1 .. len : i \in 1 .. (len + 1)
    BY <1>1
  <2> HIDE DEF grown, len
  <2>3. Distinct(grown)
    BY <1>1, <1>2, <2>1 DEF Distinct
  <2> QED BY <1>2, <2>1, <2>2, <2>3 DEF ToSet
<1>7. option.score \in Int /\ l.threshold \in Int
  BY <1>1, <1>2
<1> HIDE DEF new, best, grown, O, len, count
<1>8. CASE new = l /\ len > limit /\ option.score < l.threshold
  <2>1. Lower(limit, len) = limit
    BY <1>1, <1>8 DEF Lower
  <2>2. count(option.score) >= count(l.threshold)
    BY <1>2, <1>7, <1>8, CountMore DEF count
  <2>3. count(option.score) >= limit
    BY <1>1, <1>4, <2>1, <2>2
  <2>4. \A o \in O \ ToSet(l.options) : count(o.score) >= limit
    BY <1>1, <2>3 DEF O
  <2> QED BY <1>1, <1>3, <1>8, <2>4 DEF Kept, O, len, count, new
<1>9. CASE len + 1 = 2 * limit /\ new = [options |-> best, threshold |-> best[limit].score]
  <2>1. limit <= Len(grown)
    BY <1>2, <1>9
  <2>2. /\ best \in Seq(O) /\ Len(best) = limit /\ Distinct(best)
        /\ ToSet(best) \subseteq ToSet(grown)
        /\ \A k \in 1 .. limit : best[k].score >= best[limit].score
        /\ \A s \in Int : Count(grown, s) >= limit => \A k \in 1 .. limit : best[k].score >= s
        /\ \A o \in ToSet(grown) \ ToSet(best) : \A k \in 1 .. limit : best[k].score >= o.score
    BY <1>2, <1>6, <2>1, BestKeep DEF best
  <2>3. DOMAIN best = 1 .. limit /\ best[limit].score \in Int
    BY <1>2, <2>2
  <2>4. ASSUME NEW s \in Int, \A k \in 1 .. limit : best[k].score >= s
        PROVE  Count(best, s) = limit
    BY <1>2, <2>2, <2>3, <2>4, CountMore
  <2>5. Count(best, best[limit].score) = limit /\ Lower(limit, limit) = limit
    BY <2>2, <2>3, <2>4 DEF Lower
  <2>6. ASSUME NEW o \in O \ ToSet(best) PROVE Count(best, o.score) >= limit
    <3>1. CASE o \in ToSet(grown)
      BY <1>2, <2>2, <2>4, <3>1
    <3>2. CASE o \notin ToSet(grown)
      <4>1. count(o.score) >= limit
        BY <1>1, <1>6, <3>2 DEF O
      <4>2. Count(grown, o.score) >= limit
        BY <1>4, <4>1
      <4>3. o.score \in Int
        BY <1>2
      <4>4. \A k \in 1 .. limit : best[k].score >= o.score
        BY <2>2, <4>2, <4>3
      <4>5. Count(best, o.score) = limit
        BY <2>4, <4>3, <4>4
      <4> QED BY <4>5
    <3> QED BY <3>1, <3>2
  <2>7. new.options = best /\ new.threshold = best[limit].score
    BY <1>9
  <2>8. Count(new.options, new.threshold) >= Lower(limit, Len(new.options))
    BY <2>2, <2>5, <2>7
  <2> QED BY <1>3, <2>2, <2>6, <2>7, <2>8 DEF Kept, O, new
<1>10. \A o \in O \ ToSet(grown) : Count(grown, o.score) >= limit
  <2> SUFFICES ASSUME NEW o \in O \ ToSet(grown) PROVE Count(grown, o.score) >= limit
    OBVIOUS
  <2>1. count(o.score) >= limit
    BY <1>1, <1>6 DEF O
  <2> QED BY <1>4, <2>1
<1>11. CASE /\ len + 1 <= limit
            /\ new = [options |-> grown, threshold |-> Lower(option.score, l.threshold)]
  <2> DEFINE t == Lower(option.score, l.threshold)
  <2>1. t \in Int /\ t <= option.score /\ t <= l.threshold
    BY <1>7 DEF Lower
  <2>2. Lower(limit, len) = len /\ Lower(limit, len + 1) = len + 1
    BY <1>1, <1>11 DEF Lower
  <2> HIDE DEF t
  <2>3. \A i \in 1 .. len : l.options[i].score >= l.threshold
    <3>1. count(l.threshold) >= len
      BY <1>1, <2>2
    <3> QED BY <1>2, <3>1, CountFacts DEF count, len
  <2>4. \A i \in DOMAIN grown : grown[i].score >= t
    <3> SUFFICES ASSUME NEW i \in 1 .. (len + 1) PROVE grown[i].score >= t
      BY <1>2
    <3>1. CASE i = len + 1
      BY <1>2, <2>1, <3>1, <1>7
    <3>2. CASE i # len + 1
      <4>1. i \in 1 .. len
        BY <1>1, <3>2
      <4>2. grown[i] = l.options[i] /\ l.options[i].score \in Int
        BY <1>2, <4>1 DEF O
      <4> QED BY <1>7, <2>1, <2>3, <4>1, <4>2
    <3> QED BY <3>1, <3>2
  <2>5. Count(grown, t) = len + 1
    BY <1>2, <2>1, <2>4, CountMore
  <2>6. new.options = grown /\ new.threshold = t
    BY <1>11 DEF t
  <2>7. Count(new.options, new.threshold) >= Lower(limit, Len(new.options))
    BY <1>1, <1>2, <2>2, <2>5, <2>6
  <2> QED BY <1>3, <1>6, <1>10, <2>6, <2>7 DEF Kept, O, new
<1>12. CASE ~(len + 1 <= limit) /\ new = [options |-> grown, threshold |-> l.threshold]
  <2>1. Lower(limit, len) = limit /\ Lower(limit, len + 1) = limit
    BY <1>1, <1>12 DEF Lower
  <2>2. Count(grown, l.threshold) >= limit
    BY <1>1, <1>4, <2>1
  <2>3. new.options = grown /\ new.threshold = l.threshold
    BY <1>12
  <2>4. Count(new.options, new.threshold) >= Lower(limit, Len(new.options))
    BY <1>2, <2>1, <2>2, <2>3
  <2> QED BY <1>3, <1>6, <1>10, <2>3, <2>4 DEF Kept, O, new
<1> QED BY <1>5, <1>8, <1>9, <1>11, <1>12

\* ShrinkToLimit.
LEMMA ShrinkKept ==
    ASSUME NEW offered, NEW l, NEW limit \in Nat \ {0}, Kept(offered, l, limit),
           \A o \in offered : o.score \in Int
    PROVE  Kept(offered, ShrinkToLimit(l, limit), limit)
<1> DEFINE new == ShrinkToLimit(l, limit)
           best == BestOf(l.options, limit)
<1>1. /\ l = [options |-> l.options, threshold |-> l.threshold]
      /\ l.options \in Seq(offered) /\ l.threshold \in Int
      /\ Len(l.options) \in Nat /\ Distinct(l.options)
      /\ Count(l.options, l.threshold) >= Lower(limit, Len(l.options))
      /\ \A o \in offered \ ToSet(l.options) : Count(l.options, o.score) >= limit
  BY DEF Kept, ListOk
<1>2. ListOk(offered, new, limit)
  BY ShrinkOk DEF Kept
<1>3. CASE ~(Len(l.options) > limit)
  <2>1. new = l
    BY <1>3 DEF ShrinkToLimit
  <2> QED BY <2>1
<1>4. CASE Len(l.options) > limit
  <2>1. new = [options |-> best, threshold |-> l.threshold]
    BY <1>1, <1>4 DEF ShrinkToLimit
  <2> HIDE DEF new, best
  <2>2. limit <= Len(l.options) /\ Lower(limit, Len(l.options)) = limit /\ Lower(limit, limit) = limit
    BY <1>1, <1>4 DEF Lower
  <2>3. /\ best \in Seq(offered) /\ Len(best) = limit /\ Distinct(best)
        /\ ToSet(best) \subseteq ToSet(l.options)
        /\ \A s \in Int : Count(l.options, s) >= limit => \A k \in 1 .. limit : best[k].score >= s
        /\ \A o \in ToSet(l.options) \ ToSet(best) : \A k \in 1 .. limit : best[k].score >= o.score
    BY <1>1, <2>2, BestKeep DEF best
  <2>4. DOMAIN best = 1 .. limit
    BY <2>3
  <2>5. ASSUME NEW s \in Int, \A k \in 1 .. limit : best[k].score >= s
        PROVE  Count(best, s) >= limit
    BY <2>3, <2>4, <2>5, CountMore
  <2>6. Count(best, l.threshold) >= limit
    BY <1>1, <2>2, <2>3, <2>5
  <2>7. ASSUME NEW o \in offered \ ToSet(best) PROVE Count(best, o.score) >= limit
    <3>1. o.score \in Int
      OBVIOUS
    <3>2. \A k \in 1 .. limit : best[k].score >= o.score
      BY <1>1, <2>3, <3>1
    <3> QED BY <2>5, <3>1, <3>2
  <2>8. new.options = best /\ new.threshold = l.threshold
    BY <2>1
  <2>9. Count(new.options, new.threshold) >= Lower(limit, Len(new.options))
    BY <2>2, <2>3, <2>6, <2>8
  <2> QED BY <1>2, <2>3, <2>7, <2>8, <2>9 DEF Kept, new
<1> QED BY <1>3, <1>4

-----------------------------------------------------------------------------
(* The options offered                                                       *)

\* Finitely many integers have a greatest.
LEMMA GreatestExists ==
    ASSUME NEW S \in SUBSET Int, IsFiniteSet(S), S # {}
    PROVE  Max(S) \in S /\ \A y \in S : Max(S) >= y
<1> DEFINE HasGreatest(T) == \E x \in T : \A y \in T : x >= y
           n == Cardinality(S)
           P == {k \in 0 .. n : \A T \in SUBSET S : T # {} /\ Cardinality(T) = k => HasGreatest(T)}
<1>1. n \in Nat /\ n # 0
  BY FS_CardinalityType, FS_EmptySet
<1>2. \A T \in SUBSET S : IsFiniteSet(T)
  BY FS_Subset
<1>3. 0 \in P
  <2>1. \A T \in SUBSET S : Cardinality(T) = 0 => T = {}
    BY <1>2, FS_EmptySet
  <2>2. \A T \in SUBSET S : T # {} /\ Cardinality(T) = 0 => HasGreatest(T)
    BY <2>1
  <2>3. 0 \in 0 .. n
    BY <1>1
  <2> HIDE DEF n, HasGreatest
  <2> QED BY <2>2, <2>3
<1>4. ASSUME NEW k \in 1 .. n, k - 1 \in P PROVE k \in P
  <2> SUFFICES ASSUME NEW T \in SUBSET S, T # {}, Cardinality(T) = k PROVE HasGreatest(T)
    BY <1>1
  <2>1. PICK x \in T : TRUE
    OBVIOUS
  <2> DEFINE U == T \ {x}
  <2>2. Cardinality(U) = k - 1
    BY <1>2, OneLess
  <2>3. CASE U = {}
    BY <2>3
  <2>4. CASE U # {}
    <3>1. HasGreatest(U)
      <4> HIDE DEF HasGreatest, n
      <4>1. U \in SUBSET S
        OBVIOUS
      <4> HIDE DEF U
      <4> QED BY <1>4, <2>2, <2>4, <4>1
    <3>2. PICK z \in U : \A y \in U : z >= y
      BY <3>1
    <3>3. z \in Int /\ x \in Int
      OBVIOUS
    <3> QED BY <3>2, <3>3
  <2> QED BY <2>3, <2>4
<1>5. 0 .. n \subseteq P
  <2> HIDE DEF n, P
  <2> QED BY <1>1, <1>3, <1>4, Stepwise
<1>6. HasGreatest(S)
  <2>1. n \in P
    <3> HIDE DEF n, P
    <3> QED BY <1>1, <1>5
  <2> QED BY <2>1
<1> QED BY <1>6 DEF Max

\* An option as AddCompletedRule makes it, and any option.
OptionAt(g, p) ==
    [path |-> p, graph |-> g,
     lhs |-> {r.lhs : r \in TargetPhrases(Config.tables[g], Node(p))}, score |-> ScoreOf(g, p)]

Offers ==
    [path : Paths, graph : 0 .. Len(Config.tables), lhs : (SUBSET LabelsOf) \ {{}}, score : Int]

LEMMA OptionFacts ==
    ASSUME setup \in DOMAIN Setups, NEW g \in Graphs, NEW p \in Paths,
           TargetPhrases(Config.tables[g], Node(p)) # {}
    PROVE  OptionAt(g, p) \in Offers
<1> DEFINE tpc == TargetPhrases(Config.tables[g], Node(p))
           scores == {r.score : r \in tpc}
           lhs == {r.lhs : r \in tpc}
           f == [r \in tpc |-> r.score]
<1>1. \A r \in tpc : r.score \in Int /\ r.lhs \in LabelsOf
  BY RuleFacts DEF TargetPhrases
<1>2. IsFiniteSet(tpc)
  <2>1. tpc \subseteq Config.tables[g].rules
    BY DEF TargetPhrases
  <2>2. IsFiniteSet(Config.tables[g].rules)
    BY ConfigFacts
  <2> HIDE DEF tpc
  <2> QED BY <2>1, <2>2, PartOfFinite
<1>3. IsFiniteSet(scores)
  <2>1. f \in Surjection(tpc, scores)
    BY DEF Surjection
  <2> HIDE DEF f, scores, tpc
  <2> QED BY <1>2, <2>1, FS_Surjection, Zenon
<1>4. scores # {} /\ scores \in SUBSET Int
  BY <1>1
<1>5. Max(scores) \in Int
  <2> HIDE DEF scores
  <2> QED BY <1>3, <1>4, GreatestExists
<1>6. ScoreOf(g, p) \in Int
  BY <1>5 DEF ScoreOf
<1>7. lhs \in (SUBSET LabelsOf) \ {{}}
  BY <1>1
<1>8. g \in 0 .. Len(Config.tables)
  BY ConfigFacts DEF Graphs
<1>9. OptionAt(g, p) = [path |-> p, graph |-> g, lhs |-> lhs, score |-> ScoreOf(g, p)]
  BY DEF OptionAt
<1> HIDE DEF lhs
<1> QED BY <1>6, <1>7, <1>8, <1>9 DEF Offers
\* The lists after each of n additions of an option.
Repeats(option, n, f) ==
    f = [k \in 0 .. n |-> IF k = 0 THEN list ELSE Add(f[k - 1], option, Config.ruleLimit)]

LEMMA RepeatsDefined ==
    ASSUME NEW option, NEW n \in Nat
    PROVE  \E f : Repeats(option, n, f)
<1> DEFINE P == {k \in 0 .. n : \E f : Repeats(option, k, f)}
<1>1. 0 \in P
  <2> DEFINE f == [k \in 0 .. 0 |-> list]
  <2>1. f = [k \in 0 .. 0 |-> IF k = 0 THEN list ELSE Add(f[k - 1], option, Config.ruleLimit)]
    OBVIOUS
  <2>2. Repeats(option, 0, f)
    BY <2>1 DEF Repeats
  <2>3. 0 \in 0 .. n
    OBVIOUS
  <2> QED BY <2>2, <2>3
<1>2. ASSUME NEW k \in 1 .. n, k - 1 \in P PROVE k \in P
  <2>1. PICK f : Repeats(option, k - 1, f)
    BY <1>2
  <2> DEFINE next == Add(f[k - 1], option, Config.ruleLimit)
             g == [j \in 0 .. k |-> IF j = k THEN next ELSE f[j]]
  <2>2. ASSUME NEW j \in 0 .. k
        PROVE  g[j] = IF j = 0 THEN list ELSE Add(g[j - 1], option, Config.ruleLimit)
    <3>1. CASE j = k
      <4>1. g[k - 1] = f[k - 1] /\ k # 0
        OBVIOUS
      <4> QED BY <3>1, <4>1
    <3>2. CASE j # k
      <4>1. j \in 0 .. k - 1 /\ g[j] = f[j]
        BY <3>2
      <4>2. f[j] = IF j = 0 THEN list ELSE Add(f[j - 1], option, Config.ruleLimit)
        BY <2>1, <4>1 DEF Repeats
      <4>3. j # 0 => g[j - 1] = f[j - 1]
        BY <4>1
      <4> QED BY <4>1, <4>2, <4>3
    <3> QED BY <3>1, <3>2
  <2>3. g = [j \in 0 .. k |-> g[j]]
    OBVIOUS
  <2> HIDE DEF g
  <2>4. Repeats(option, k, g)
    BY <2>2, <2>3 DEF Repeats
  <2> QED BY <2>4
<1>3. 0 .. n \subseteq P
  <2> HIDE DEF P
  <2> QED BY <1>1, <1>2, Stepwise
<1>4. n \in P
  BY <1>3
<1> QED BY <1>4

\* Adding an option several times.
LEMMA AddTimesFacts ==
    ASSUME NEW O, \A o \in O : o.score \in Int, Config.ruleLimit \in Nat \ {0},
           ListOk(O, list, Config.ruleLimit), NEW option \in O, NEW n \in Nat
    PROVE  /\ ListOk(O, AddTimes(option, n), Config.ruleLimit)
           /\ n = 0 => AddTimes(option, n) = list
           /\ n = 1 => AddTimes(option, n) = Add(list, option, Config.ruleLimit)
<1> DEFINE after == CHOOSE f : Repeats(option, n, f)
           P == {k \in 0 .. n : ListOk(O, after[k], Config.ruleLimit)}
<1>1. AddTimes(option, n) = after[n]
  BY DEF AddTimes, Repeats
<1>2. Repeats(option, n, after)
  <2>1. \E f : Repeats(option, n, f)
    BY RepeatsDefined
  <2> QED BY <2>1, Zenon
<1> HIDE DEF after
<1>3. \A k \in 0 .. n : after[k] = IF k = 0 THEN list
                                   ELSE Add(after[k - 1], option, Config.ruleLimit)
  BY <1>2 DEF Repeats
<1>4. 0 \in P /\ after[0] = list
  <2>1. after[0] = list /\ 0 \in 0 .. n
    BY <1>3
  <2> QED BY <2>1
<1>5. ASSUME NEW k \in 1 .. n, k - 1 \in P PROVE k \in P
  <2>1. after[k] = Add(after[k - 1], option, Config.ruleLimit) /\ k \in 0 .. n
    BY <1>3
  <2>2. ListOk(O, after[k - 1], Config.ruleLimit)
    BY <1>5
  <2>3. ListOk(O, after[k], Config.ruleLimit)
    BY <2>1, <2>2, AddOk
  <2> QED BY <2>1, <2>3
<1>6. n \in P
  <2>1. 0 .. n \subseteq P
    <3> HIDE DEF P
    <3> QED BY <1>4, <1>5, Stepwise
  <2> QED BY <2>1
<1>7. n = 1 => AddTimes(option, n) = Add(list, option, Config.ruleLimit)
  <2> SUFFICES ASSUME n = 1 PROVE AddTimes(option, n) = Add(list, option, Config.ruleLimit)
    OBVIOUS
  <2>1. after[1] = Add(after[1 - 1], option, Config.ruleLimit) /\ 1 - 1 = 0
    BY <1>3
  <2> QED BY <1>1, <1>4, <2>1
<1> QED BY <1>1, <1>4, <1>6, <1>7

-----------------------------------------------------------------------------
(* What every reachable state satisfies                                      *)

\* A span of w words from s on that lies in the sentence and is not too long for
\* table g.
InReach(g, s, w) ==
    /\ s + w <= Size
    /\ Config.tables[g].maxSpan = 0 \/ w <= Config.tables[g].maxSpan

\* The lookup in table g for that span is over, or is going on.
Passed(g, s, w) ==
    \/ pc = "done"
    \/ w < span.width
    \/ w = span.width /\ s < span.start
    \/ w = span.width /\ s = span.start /\ (pc = "fill" \/ g < graph)
    \/ w = span.width /\ s = span.start /\ g = graph /\ pc = "complete"
Now(g, s, w) ==
    pc = "extend" /\ g = graph /\ s = span.start /\ w = span.width

\* The dotted rules that have had their turn in the loop.
Processed == {Coll.expandable[i] : i \in 1 .. ind - 1}

\* The partial applications that have been found so far.
Turn(g, s, p) ==
    Passed(g, s, Due(s, p)) \/ (Now(g, s, Due(s, p)) /\ Parent(p) \in Processed)
Found(g, s, p) == Partial(g, s, p) /\ InReach(g, s, Due(s, p)) /\ Turn(g, s, p)
FoundFrom(g, s) == {p \in Paths : Found(g, s, p)}

Control ==
    /\ setup \in DOMAIN Setups /\ SpanOk /\ graph \in Graphs
    /\ pc \in {"extend", "complete", "fill", "done"} /\ ind \in Nat \ {0}
    /\ pc \in {"fill", "done"} => graph = 1 /\ ind = 1
    /\ pc = "complete" => InRange

\* Only the cells of earlier spans have labels.
LabelsOk ==
    /\ labels \in [Cells -> SUBSET LabelsOf]
    /\ \A first, last \in Starts : first <= last /\ labels[first, last] # {} => Before(first, last)

\* The dotted rule collections hold what has been found, each once.
DottedOk ==
    /\ dotted = [g \in Graphs |-> [s \in Starts |-> dotted[g][s]]]
    /\ \A g \in Graphs : \A s \in Starts : Holds(g, s, dotted[g][s], FoundFrom(g, s))
    /\ pc = "extend" => ind <= Len(Coll.expandable) + 1

ListInv ==
    /\ ListOk(Offers, list, Config.ruleLimit)
    /\ pc \in {"extend", "fill"} => Len(list.options) <= Config.ruleLimit
    /\ pc = "done" => list = Clear

ParserInv == Control /\ LabelsOk /\ DottedOk /\ ListInv

\* What table g has been found to offer for the span, and what of it has been
\* offered.
Complete(g, p) == TargetPhrases(Config.tables[g], Node(p)) # {}
SeenFrom(g) ==
    LET paths == dotted[g][span.start].coll[span.width]
    IN  {paths[i] : i \in {j \in DOMAIN paths :
            /\ Complete(g, paths[j])
            /\ pc = "fill" \/ g < graph \/ (pc = "complete" /\ g = graph /\ j < ind)}}
MeantHere == {t \in Graphs : MeantFor(Config.tables[t], span.start, EndPos)}
Offered == UNION {{OptionAt(g, p) : p \in SeenFrom(g)} : g \in MeantHere}

\* While a span is looked up, the list is one that was offered just that.
KeptInv ==
    (Config.clauseOption => InnerFirst) /\ pc # "done" =>
        Kept(Offered, list, Config.ruleLimit)

\* What does not change from step to step.
LEMMA SameConfig ==
    ASSUME setup' = setup
    PROVE  /\ Config' = Config /\ Size' = Size /\ Graphs' = Graphs /\ Starts' = Starts
           /\ Paths' = Paths /\ LabelsOf' = LabelsOf /\ Cells' = Cells /\ Offers' = Offers
           /\ Clauses' = Clauses
           /\ \A x : WordAt(x)' = WordAt(x) /\ (IsLabel(x)' <=> IsLabel(x))
           /\ \A s, p : Due(s, p)' = Due(s, p) /\ (Alone(p)' <=> Alone(p))
           /\ \A g, s, w : InReach(g, s, w)' <=> InReach(g, s, w)
<1>1. Config' = Config
  BY DEF Config
<1>2. Size' = Size /\ Graphs' = Graphs /\ LabelsOf' = LabelsOf /\ Clauses' = Clauses
  BY <1>1 DEF Size, Graphs, LabelsOf, Clauses
<1>3. Starts' = Starts
  BY <1>2 DEF Starts
<1>4. Elements' = Elements /\ Cells' = Cells
  BY <1>3 DEF Elements, Cells
<1>5. Paths' = Paths
  BY <1>4 DEF Paths
<1>6. Offers' = Offers
  BY <1>1, <1>2, <1>5 DEF Offers
<1>7. ASSUME NEW x PROVE WordAt(x)' = WordAt(x) /\ (IsLabel(x)' <=> IsLabel(x))
  BY <1>1 DEF WordAt, IsLabel
<1>8. ASSUME NEW p PROVE Alone(p)' <=> Alone(p)
  BY <1>7 DEF Alone
<1>9. ASSUME NEW s, NEW p PROVE Due(s, p)' = Due(s, p)
  BY <1>8 DEF Due
<1>10. ASSUME NEW g, NEW s, NEW w PROVE InReach(g, s, w)' <=> InReach(g, s, w)
  BY <1>1, <1>2 DEF InReach
<1> QED BY <1>1, <1>2, <1>3, <1>4, <1>5, <1>6, <1>7, <1>8, <1>9, <1>10

LEMMA SamePartial ==
    ASSUME setup' = setup, labels' = labels, NEW g, NEW s, NEW p
    PROVE  Partial(g, s, p)' <=> Partial(g, s, p)
<1>1. ASSUME NEW sym, NEW first, NEW last
      PROVE  Matches(sym, first, last)' <=> Matches(sym, first, last)
  BY SameConfig DEF Matches
<1>2. Matched(p)' <=> Matched(p)
  BY <1>1 DEF Matched
<1> QED BY <1>2, SameConfig DEF Partial, Chained

\* A collection that holds what has been found after a step.
LEMMA StillHolds ==
    ASSUME setup' = setup, NEW g, NEW s, NEW F,
           Holds(g, s, dotted'[g][s], F), FoundFrom(g, s)' = F
    PROVE  Holds(g, s, dotted[g][s], FoundFrom(g, s))'
BY SameConfig DEF Holds

\* A step that finds nothing and leaves the collections as they are.
LEMMA NothingFound ==
    ASSUME setup' = setup, setup \in DOMAIN Setups, labels' = labels, dotted' = dotted, DottedOk,
           \A g \in Graphs : \A s \in Starts : \A p \in Paths :
              Partial(g, s, p) /\ InReach(g, s, Due(s, p)) => (Turn(g, s, p)' <=> Turn(g, s, p))
    PROVE  /\ (dotted = [g \in Graphs |-> [s \in Starts |-> dotted[g][s]]])'
           /\ (\A g \in Graphs : \A s \in Starts : Holds(g, s, dotted[g][s], FoundFrom(g, s)))'
<1>1. (dotted = [g \in Graphs |-> [s \in Starts |-> dotted[g][s]]])'
  BY SameConfig DEF DottedOk
<1>2. ASSUME NEW g \in Graphs, NEW s \in Starts
      PROVE  Holds(g, s, dotted[g][s], FoundFrom(g, s))'
  <2>1. ASSUME NEW p \in Paths PROVE Found(g, s, p)' <=> Found(g, s, p)
    BY SamePartial, SameConfig DEF Found
  <2>2. FoundFrom(g, s)' = FoundFrom(g, s)
    BY <2>1, SameConfig DEF FoundFrom
  <2>3. Holds(g, s, dotted'[g][s], FoundFrom(g, s))
    BY DEF DottedOk
  <2> QED BY <2>2, <2>3, StillHolds
<1> QED BY <1>1, <1>2, SameConfig

LEMMA InitParser ==
    Init => Control /\ LabelsOk /\ DottedOk
<1> SUFFICES ASSUME Init PROVE Control /\ LabelsOk /\ DottedOk
  OBVIOUS
<1>1. /\ setup \in DOMAIN Setups /\ span = [start |-> 0, width |-> 1]
      /\ graph = 1 /\ pc = "extend" /\ ind = 1
      /\ dotted = [g \in Graphs |-> [s \in Starts |-> EmptyColl(s)]]
      /\ labels = [r \in Cells |-> {}]
  BY DEF Init, Starts, Cells
<1>2. span.start = 0 /\ span.width = 1 /\ Size \in Nat \ {0} /\ Len(Config.tables) \in Nat \ {0}
  BY <1>1, ConfigFacts
<1>3. Control
  BY <1>1, <1>2 DEF Control, SpanOk, Starts, Graphs
<1>4. LabelsOk
  <2>1. labels \in [Cells -> SUBSET LabelsOf]
    BY <1>1
  <2>2. ASSUME NEW first \in Starts, NEW last \in Starts, first <= last
        PROVE  labels[first, last] = {}
    BY <1>1, <2>2 DEF Cells
  <2> QED BY <2>1, <2>2 DEF LabelsOk
<1>5. ASSUME NEW g \in Graphs, NEW s \in Starts
      PROVE  Holds(g, s, dotted[g][s], FoundFrom(g, s))
  <2>1. FoundFrom(g, s) = {}
    <3> SUFFICES ASSUME NEW p \in Paths, Partial(g, s, p), Turn(g, s, p) PROVE FALSE
      BY DEF FoundFrom, Found
    <3>1. Due(s, p) \in Nat \ {0}
      BY <1>1, PartialFacts
    <3>2. Processed = {}
      BY <1>1 DEF Processed
    <3>3. ~Passed(g, s, Due(s, p))
      <4>1. s \in Nat /\ g \in Nat /\ g >= 1
        BY <1>2 DEF Starts, Graphs
      <4> QED BY <1>1, <1>2, <3>1, <4>1 DEF Passed
    <3> QED BY <3>2, <3>3 DEF Turn
  <2>2. dotted[g][s] = EmptyColl(s)
    BY <1>1
  <2> DEFINE dc == EmptyColl(s)
             one == <<Root>>
  <2>3. /\ dc = [coll |-> dc.coll, expandable |-> dc.expandable]
        /\ dc.expandable = one
        /\ dc.coll = [i \in 0 .. (Size - s) |-> IF i = 0 THEN one ELSE <<>>]
    BY DEF EmptyColl
  <2>4. Root \in Paths
    BY DEF Root, Paths
  <2>5. /\ one \in Seq(Paths) /\ one # <<>> /\ one[1] = Root /\ Distinct(one)
        /\ ToSet(one) = {Root}
    <3>1. DOMAIN one = {1} /\ one[1] = Root
      OBVIOUS
    <3> HIDE DEF Paths
    <3>2. one \in Seq(Paths) /\ one # <<>>
      BY <2>4
    <3> HIDE DEF one
    <3> QED BY <3>1, <3>2 DEF Distinct, ToSet
  <2>6. <<>> \in Seq(Paths) /\ Distinct(<<>>) /\ ToSet(<<>>) = {}
    BY DEF Distinct, ToSet
  <2> HIDE DEF dc, one
  <2>7. dc.coll \in [0 .. (Size - s) -> Seq(Paths)]
    <3> HIDE DEF Paths
    <3> QED BY <2>3, <2>5, <2>6
  <2>8. \A v \in 1 .. (Size - s) : dc.coll[v] = <<>>
    BY <1>2, <2>3 DEF Starts
  <2>9. ToSet(dc.expandable) = {Root} \cup {p \in {} : ~IsLeaf(Config.tables[g], Node(p))}
    BY <2>3, <2>5
  <2>10. \A v \in 1 .. (Size - s) :
            Distinct(dc.coll[v]) /\ ToSet(dc.coll[v]) = {p \in {} : RuleEnd(p) = s + v - 1}
    BY <2>6, <2>8
  <2>11. Holds(g, s, dc, {})
    BY <2>3, <2>5, <2>7, <2>9, <2>10 DEF Holds
  <2> QED BY <2>1, <2>2, <2>11 DEF dc
<1>6. DottedOk
  <2>1. dotted = [g \in Graphs |-> [s \in Starts |-> dotted[g][s]]]
    BY <1>1
  <2>2. Coll.expandable # <<>> /\ Coll.expandable \in Seq(Paths)
    <3>1. graph \in Graphs /\ span.start \in Starts
      BY <1>3 DEF Control, SpanOk
    <3> QED BY <1>5, <3>1 DEF Coll, Holds
  <2>3. ind <= Len(Coll.expandable) + 1
    BY <1>1, <2>2
  <2> QED BY <1>5, <2>1, <2>3 DEF DottedOk
<1> QED BY <1>3, <1>4, <1>6

\* The collection of the rules that start at the span, and the loop's rule.
LEMMA CollFacts ==
    ASSUME Control, DottedOk
    PROVE  /\ setup \in DOMAIN Setups /\ SpanOk /\ span.start \in Starts /\ graph \in Graphs
           /\ Coll = dotted[graph][span.start]
           /\ Holds(graph, span.start, Coll, FoundFrom(graph, span.start))
           /\ Coll.expandable \in Seq(Paths) /\ Len(Coll.expandable) \in Nat \ {0}
           /\ Coll.coll[span.width] \in Seq(Paths)
           /\ \A i \in 1 .. Len(Coll.expandable) :
                 /\ Coll.expandable[i] \in Paths
                 /\ Coll.expandable[i] = Root
                    \/ Partial(graph, span.start, Coll.expandable[i])
<1>1. setup \in DOMAIN Setups /\ SpanOk /\ span.start \in Starts /\ graph \in Graphs
  BY DEF Control, SpanOk
<1>2. Coll = dotted[graph][span.start]
  BY DEF Coll
<1>3. Holds(graph, span.start, Coll, FoundFrom(graph, span.start))
  BY <1>1, <1>2 DEF DottedOk
<1> DEFINE exp == Coll.expandable
<1>4. /\ exp \in Seq(Paths) /\ exp # <<>>
      /\ \A p \in ToSet(exp) : p = Root \/ p \in FoundFrom(graph, span.start)
      /\ Coll.coll \in [0 .. (Size - span.start) -> Seq(Paths)]
  BY <1>3 DEF Holds
<1>5. Coll.coll[span.width] \in Seq(Paths)
  <2>1. span.width \in 0 .. (Size - span.start)
    BY <1>1, SpanFacts
  <2> HIDE DEF Paths
  <2> QED BY <1>4, <2>1
<1> HIDE DEF exp
<1>6. Len(exp) \in Nat \ {0} /\ DOMAIN exp = 1 .. Len(exp) /\ \A i \in 1 .. Len(exp) : exp[i] \in Paths
  <2> HIDE DEF Paths
  <2> QED BY <1>4
<1>7. ASSUME NEW i \in 1 .. Len(exp) PROVE exp[i] = Root \/ Partial(graph, span.start, exp[i])
  <2>1. exp[i] \in ToSet(exp)
    BY <1>6 DEF ToSet
  <2> QED BY <1>4, <2>1 DEF FoundFrom, Found
<1> QED BY <1>1, <1>2, <1>3, <1>4, <1>5, <1>6, <1>7 DEF exp

\* The loop takes a dotted rule and finds what extends it.
LEMMA ExtendDotted ==
    ASSUME Control, LabelsOk, DottedOk, ExtendDottedRule
    PROVE  DottedOk'
<1> DEFINE q == Coll.expandable[ind]
           new == ExtendWith(Coll, q)
           F == FoundFrom(graph, span.start)
<1>1. /\ pc = "extend" /\ InRange /\ ind <= Len(Coll.expandable)
      /\ dotted' = [dotted EXCEPT ![graph][span.start] = new]
      /\ ind' = ind + 1 /\ setup' = setup /\ span' = span /\ graph' = graph /\ pc' = pc
      /\ labels' = labels
  BY DEF ExtendDottedRule, Coll
<1>2. /\ setup \in DOMAIN Setups /\ SpanOk /\ span.start \in Starts /\ graph \in Graphs
      /\ Holds(graph, span.start, Coll, F)
      /\ Coll.expandable \in Seq(Paths) /\ Len(Coll.expandable) \in Nat \ {0}
      /\ ind \in Nat \ {0} /\ ind \in 1 .. Len(Coll.expandable)
      /\ q \in Paths /\ (q = Root \/ Partial(graph, span.start, q))
  BY <1>1, CollFacts DEF Control
<1> HIDE DEF q
<1>3. F \in SUBSET (Paths \ {Root})
  BY DEF FoundFrom, Found, Partial
<1>4. labels \in [Cells -> SUBSET LabelsOf] /\ Unfilled
  <2>1. labels \in [Cells -> SUBSET LabelsOf]
    BY DEF LabelsOk
  <2>2. /\ EndPos \in Starts /\ span.start <= EndPos /\ EndPos - span.start + 1 = span.width
        /\ span.start \in Nat /\ EndPos \in Nat /\ span.width \in Nat
    BY <1>2, SpanFacts
  <2>3. ~Before(span.start, EndPos)
    BY <1>1, <2>2 DEF Before
  <2> QED BY <1>2, <2>1, <2>2, <2>3 DEF LabelsOk, Unfilled
<1>5. \A p \in Paths : Found(graph, span.start, p) /\ Due(span.start, p) = span.width =>
         Parent(p) \in Processed
  <2>1. ~Passed(graph, span.start, span.width)
    <3>1. span.width \in Nat /\ span.start \in Nat /\ graph \in Nat
      BY <1>2, SpanFacts DEF Graphs
    <3> QED BY <1>1, <3>1 DEF Passed
  <2> QED BY <2>1 DEF Found, Turn
<1>6. q \notin Processed
  <2> SUFFICES ASSUME NEW i \in 1 .. ind - 1, Coll.expandable[i] = q PROVE FALSE
    BY DEF Processed
  <2>1. DOMAIN Coll.expandable = 1 .. Len(Coll.expandable)
    <3> HIDE DEF Paths
    <3> QED BY <1>2
  <2>2. i \in DOMAIN Coll.expandable /\ ind \in DOMAIN Coll.expandable /\ i # ind
    BY <1>2, <2>1
  <2>3. Distinct(Coll.expandable)
    BY <1>2 DEF Holds
  <2> QED BY <2>2, <2>3 DEF Distinct, q
<1>7. NewFrom(q) \cap F = {}
  BY <1>5, <1>6 DEF NewFrom, FoundFrom
<1>8. /\ Holds(graph, span.start, new, F \cup NewFrom(q))
      /\ Grown(Coll.expandable, new.expandable)
  <2> HIDE DEF F
  <2> QED BY <1>2, <1>3, <1>4, <1>7, ExtendWithHolds
<1>9. \A g \in Graphs : \A s \in Starts :
         dotted'[g][s] = IF g = graph /\ s = span.start THEN new ELSE dotted[g][s]
  <2> HIDE DEF new
  <2>1. dotted = [g \in Graphs |-> [s \in Starts |-> dotted[g][s]]]
    BY DEF DottedOk
  <2> QED BY <1>1, <1>2, <2>1
<1>10. (dotted = [g \in Graphs |-> [s \in Starts |-> dotted[g][s]]])'
  <2> HIDE DEF new
  <2>1. dotted = [g \in Graphs |-> [s \in Starts |-> dotted[g][s]]]
    BY DEF DottedOk
  <2>2. dotted' = [g \in Graphs |-> [s \in Starts |-> dotted'[g][s]]]
    BY <1>1, <1>2, <2>1
  <2> QED BY <1>1, <2>2, SameConfig
<1>11. Coll' = new
  BY <1>1, <1>2, <1>9 DEF Coll
<1>12. Processed' = Processed \cup {q}
  <2>1. \A i \in 1 .. Len(Coll.expandable) : new.expandable[i] = Coll.expandable[i]
    BY <1>8 DEF Grown
  <2>2. Processed' = {new.expandable[i] : i \in 1 .. (ind + 1) - 1}
    BY <1>1, <1>11 DEF Processed
  <2>3. \A i \in 1 .. (ind + 1) - 1 : i \in 1 .. Len(Coll.expandable) /\ (i = ind \/ i \in 1 .. ind - 1)
    BY <1>2
  <2>4. ind \in 1 .. (ind + 1) - 1 /\ \A i \in 1 .. ind - 1 : i \in 1 .. (ind + 1) - 1
    BY <1>2
  <2> HIDE DEF new
  <2>5. \A x : x \in Processed' <=> x \in Processed \/ x = q
    BY <2>1, <2>2, <2>3, <2>4 DEF Processed, q
  <2> QED BY <2>5
<1>13. \A g, s, w : /\ Passed(g, s, w)' <=> Passed(g, s, w)
                    /\ Now(g, s, w)' <=> Now(g, s, w)
  BY <1>1 DEF Passed, Now
<1>14. ASSUME NEW g \in Graphs, NEW s \in Starts
       PROVE  Holds(g, s, dotted[g][s], FoundFrom(g, s))'
  <2>1. CASE g = graph /\ s = span.start
    <3>1. ASSUME NEW p \in Paths
          PROVE  Found(g, s, p)' <=> p \in F \/ p \in NewFrom(q)
      <4>1. Found(g, s, p)' <=>
              /\ Partial(g, s, p) /\ InReach(g, s, Due(s, p))
              /\ \/ Passed(g, s, Due(s, p))
                 \/ Now(g, s, Due(s, p)) /\ (Parent(p) \in Processed \/ Parent(p) = q)
        BY <1>1, <1>12, <1>13, SamePartial, SameConfig DEF Found, Turn
      <4>2. p \in F <=>
              /\ Partial(g, s, p) /\ InReach(g, s, Due(s, p))
              /\ \/ Passed(g, s, Due(s, p))
                 \/ Now(g, s, Due(s, p)) /\ Parent(p) \in Processed
        BY <2>1 DEF F, FoundFrom, Found, Turn
      <4>3. p \in NewFrom(q) <=> Partial(g, s, p) /\ Parent(p) = q /\ Due(s, p) = span.width
        BY <2>1 DEF NewFrom
      <4>4. Now(g, s, Due(s, p)) <=> Due(s, p) = span.width
        BY <1>1, <2>1 DEF Now
      <4>5. InReach(g, s, span.width)
        BY <1>1, <1>2, <2>1 DEF InReach, InRange, SpanOk, Table
      <4> QED BY <4>1, <4>2, <4>3, <4>4, <4>5
    <3>2. FoundFrom(g, s)' = F \cup NewFrom(q)
      <4>1. \A p \in F \cup NewFrom(q) : p \in Paths
        BY <1>3 DEF NewFrom
      <4>2. FoundFrom(g, s)' = {p \in Paths : Found(g, s, p)'}
        BY <1>1, SameConfig DEF FoundFrom
      <4> HIDE DEF F
      <4> QED BY <3>1, <4>1, <4>2
    <3>3. Holds(g, s, dotted'[g][s], F \cup NewFrom(q))
      BY <1>8, <1>9, <2>1
    <3> QED BY <1>1, <3>2, <3>3, StillHolds
  <2>2. CASE ~(g = graph /\ s = span.start)
    <3>1. \A w : ~Now(g, s, w)
      BY <2>2 DEF Now
    <3>2. ASSUME NEW p \in Paths PROVE Found(g, s, p)' <=> Found(g, s, p)
      BY <1>1, <1>13, <3>1, SamePartial, SameConfig DEF Found, Turn
    <3>3. FoundFrom(g, s)' = FoundFrom(g, s)
      BY <1>1, <3>2, SameConfig DEF FoundFrom
    <3>4. Holds(g, s, dotted'[g][s], FoundFrom(g, s))
      BY <1>9, <2>2 DEF DottedOk
    <3> QED BY <1>1, <3>3, <3>4, StillHolds
  <2> QED BY <2>1, <2>2
<1>15. (ind <= Len(Coll.expandable) + 1)'
  <2>1. Len(Coll.expandable) <= Len(new.expandable)
    BY <1>8 DEF Grown
  <2>2. Len(new.expandable) \in Nat
    <3>1. new.expandable \in Seq(Paths)
      BY <1>8 DEF Holds
    <3> HIDE DEF Paths, new
    <3> QED BY <3>1
  <2> QED BY <1>1, <1>2, <1>11, <2>1, <2>2
<1> QED BY <1>1, <1>10, <1>14, <1>15, SameConfig DEF DottedOk

\* The end of the loop: every dotted rule there is has had its turn, so all that
\* is due has been found.
LEMMA ExtendedDotted ==
    ASSUME Control, DottedOk, AllExtended
    PROVE  DottedOk'
<1>1. /\ pc = "extend" /\ InRange /\ ind > Len(Coll.expandable)
      /\ pc' = "complete" /\ setup' = setup /\ span' = span /\ graph' = graph
      /\ labels' = labels /\ dotted' = dotted
  BY DEF AllExtended
<1>2. /\ setup \in DOMAIN Setups /\ SpanOk /\ span.start \in Starts /\ graph \in Graphs
      /\ span.width \in Nat \ {0} /\ graph \in Nat /\ ind \in Nat
      /\ Holds(graph, span.start, Coll, FoundFrom(graph, span.start))
      /\ Coll.expandable \in Seq(Paths) /\ Len(Coll.expandable) \in Nat \ {0}
  BY CollFacts, SpanFacts DEF Control, Graphs
<1>3. Processed = {Root} \cup {p \in FoundFrom(graph, span.start) :
                                  ~IsLeaf(Config.tables[graph], Node(p))}
  <2>1. DOMAIN Coll.expandable = 1 .. Len(Coll.expandable)
    <3> HIDE DEF Paths
    <3> QED BY <1>2
  <2>2. ind <= Len(Coll.expandable) + 1
    BY <1>1 DEF DottedOk
  <2>3. ind - 1 = Len(Coll.expandable)
    BY <1>1, <1>2, <2>2
  <2>4. Processed = ToSet(Coll.expandable)
    BY <2>1, <2>3 DEF Processed, ToSet
  <2> QED BY <1>2, <2>4 DEF Holds
<1>4. ASSUME NEW p \in Paths, Partial(graph, span.start, p), Due(span.start, p) <= span.width,
             p # Root, ~IsLeaf(Config.tables[graph], Node(p)),
             Due(span.start, p) = span.width => Parent(p) \in Processed
      PROVE  p \in Processed
  <2>1. Due(span.start, p) \in Nat
    BY <1>2, <1>4, PartialFacts
  <2>2. InReach(graph, span.start, Due(span.start, p))
    <3>1. /\ span.start + span.width <= Size /\ span.start \in Nat /\ Size \in Nat
          /\ Config.tables[graph].maxSpan = 0 \/ span.width <= Config.tables[graph].maxSpan
          /\ Config.tables[graph].maxSpan \in Nat
      <4>1. Config.tables[graph] \in Tables
        BY <1>2, ConfigFacts
      <4>2. Config.tables[graph].maxSpan \in Nat
        BY <4>1 DEF Tables
      <4> QED BY <1>1, <1>2, <4>2, SpanFacts DEF InRange, Table
    <3> QED BY <1>2, <1>4, <2>1, <3>1 DEF InReach
  <2>3. Turn(graph, span.start, p)
    <3>1. CASE Due(span.start, p) = span.width
      BY <1>1, <1>4, <3>1 DEF Turn, Now
    <3>2. CASE Due(span.start, p) # span.width
      <4>1. Due(span.start, p) < span.width
        BY <1>2, <1>4, <2>1, <3>2
      <4> QED BY <4>1 DEF Turn, Passed
    <3> QED BY <3>1, <3>2
  <2> QED BY <1>3, <1>4, <2>2, <2>3 DEF FoundFrom, Found
<1>5. ASSUME NEW p \in Paths, Partial(graph, span.start, p), Due(span.start, p) = span.width
      PROVE  Parent(p) \in Processed
  <2> DEFINE u == Parent(p)
             s == span.start
  <2>1. CASE Len(p) = 1
    <3>1. u = Root
      BY <1>5, <2>1, ParentFacts DEF Partial, Paths
    <3> QED BY <1>3, <3>1
  <2>2. CASE Len(p) # 1
    <3>1. /\ u # Root /\ u \in Paths /\ Partial(graph, s, u)
          /\ ~IsLeaf(Config.tables[graph], Node(u)) /\ RuleEnd(u) < RuleEnd(p)
      BY <1>2, <1>5, <2>2, PartialAbove
    <3>2. ~Alone(p)
      BY <2>2 DEF Alone
    <3>3. /\ RuleEnd(p) \in Nat /\ Due(s, p) = RuleEnd(p) - s + 1
      BY <1>2, <1>5, <3>2, PartialFacts
    <3>4. /\ RuleEnd(u) \in Nat /\ Due(s, u) \in Nat
          /\ ~Alone(u) => Due(s, u) = RuleEnd(u) - s + 1
          /\ Due(s, u) = RuleEnd(u) - s + 1 \/ Due(s, u) = RuleEnd(u) - s + 2
      BY <1>2, <3>1, PartialFacts
    <3>5. s \in Nat
      BY <1>2, SpanFacts
    <3>6. Due(s, u) <= span.width /\ (Due(s, u) = span.width => Alone(u))
      <4> HIDE DEF u, s
      <4>1. RuleEnd(p) - s + 1 = span.width
        BY <1>5, <3>3 DEF s
      <4> QED BY <3>1, <3>3, <3>4, <3>5, <4>1
    <3>7. Alone(u) => Parent(u) = Root
      BY <3>1, ParentFacts DEF Alone, Paths
    <3>8. Due(s, u) = span.width => Parent(u) \in Processed
      BY <1>3, <3>6, <3>7
    <3> HIDE DEF u
    <3> QED BY <1>4, <3>1, <3>6, <3>8 DEF u
  <2> QED BY <2>1, <2>2
<1>6. ASSUME NEW g \in Graphs, NEW s \in Starts, NEW p \in Paths, Partial(g, s, p)
      PROVE  Turn(g, s, p)' <=> Turn(g, s, p)
  <2>1. Due(s, p)' = Due(s, p)
    BY <1>1, SameConfig
  <2>2. ASSUME NEW w
        PROVE  /\ Passed(g, s, w)' <=>
                     Passed(g, s, w) \/ (w = span.width /\ s = span.start /\ g = graph)
               /\ ~Now(g, s, w)'
               /\ Now(g, s, w) <=> w = span.width /\ s = span.start /\ g = graph
    BY <1>1 DEF Passed, Now
  <2>3. Due(s, p) = span.width /\ s = span.start /\ g = graph => Parent(p) \in Processed
    BY <1>5, <1>6
  <2> QED BY <2>1, <2>2, <2>3 DEF Turn
<1> QED BY <1>1, <1>2, <1>6, NothingFound DEF DottedOk

\* The completed rules are collected, and the next table's turn comes.
LEMMA CollectedDotted ==
    ASSUME Control, DottedOk, CollectRule \/ ShrinkList \/ SkipGraph
    PROVE  DottedOk'
<1>1. /\ setup' = setup /\ span' = span /\ labels' = labels /\ dotted' = dotted
  BY DEF CollectRule, ShrinkList, SkipGraph
<1>2. /\ setup \in DOMAIN Setups /\ SpanOk /\ span.start \in Starts /\ graph \in Graphs
      /\ span.width \in Nat \ {0} /\ graph \in Nat /\ graph <= Len(Config.tables)
      /\ Len(Config.tables) \in Nat
  BY CollFacts, SpanFacts, ConfigFacts DEF Control, Graphs
<1>3. ASSUME NEW g \in Graphs, NEW s \in Starts, NEW w, InReach(g, s, w)
      PROVE  Passed(g, s, w)' <=> Passed(g, s, w)
  <2>1. g \in Nat /\ g <= Len(Config.tables)
    BY <1>2 DEF Graphs
  <2>2. CASE CollectRule
    BY <1>1, <2>2 DEF CollectRule, Passed
  <2>3. CASE pc = "complete" /\ NextGraph
    <3>1. g < graph' \/ pc' = "fill" <=> g < graph \/ g = graph
      BY <1>2, <2>1, <2>3 DEF NextGraph
    <3>2. pc' = "fill" \/ pc' = "extend"
      BY <2>3 DEF NextGraph
    <3> QED BY <1>1, <2>3, <3>1, <3>2 DEF Passed
  <2>4. CASE pc = "extend" /\ ~InRange /\ NextGraph
    <3>1. g < graph' \/ pc' = "fill" <=> g < graph \/ g = graph
      BY <1>2, <2>1, <2>4 DEF NextGraph
    <3>2. pc' = "fill" \/ pc' = "extend"
      BY <2>4 DEF NextGraph
    <3>3. ~(g = graph /\ w = span.width)
      BY <1>3, <2>4 DEF InReach, InRange, Table
    <3> QED BY <1>1, <2>4, <3>1, <3>2, <3>3 DEF Passed
  <2> QED BY <2>2, <2>3, <2>4 DEF ShrinkList, SkipGraph
<1>4. ASSUME NEW g \in Graphs, NEW s \in Starts, NEW w, InReach(g, s, w) PROVE ~Now(g, s, w)
  BY <1>4 DEF CollectRule, ShrinkList, SkipGraph, Now, InReach, InRange, Table
<1>5. (\A g, s, w : ~Now(g, s, w)') \/ Processed' = {}
  <2>1. CASE CollectRule
    BY <2>1 DEF CollectRule, Now
  <2>2. CASE NextGraph
    <3>1. ind' = 1
      BY <2>2 DEF NextGraph
    <3> QED BY <3>1 DEF Processed
  <2> QED BY <2>1, <2>2 DEF ShrinkList, SkipGraph
<1>6. ASSUME NEW g \in Graphs, NEW s \in Starts, NEW p \in Paths, InReach(g, s, Due(s, p))
      PROVE  Turn(g, s, p)' <=> Turn(g, s, p)
  <2>1. Due(s, p)' = Due(s, p)
    BY <1>1, SameConfig
  <2> QED BY <1>3, <1>4, <1>5, <1>6, <2>1 DEF Turn
<1>7. (pc = "extend" => ind <= Len(Coll.expandable) + 1)'
  <2> SUFFICES ASSUME pc' = "extend" PROVE ind' <= Len(Coll'.expandable) + 1
    OBVIOUS
  <2>1. ind' = 1 /\ graph' \in Graphs
    BY <1>2 DEF CollectRule, ShrinkList, SkipGraph, NextGraph, Graphs
  <2>2. Coll'.expandable \in Seq(Paths)
    BY <1>1, <1>2, <2>1 DEF DottedOk, Holds, Coll
  <2>3. Len(Coll'.expandable) \in Nat
    <3> HIDE DEF Paths
    <3> QED BY <2>2
  <2> QED BY <2>1, <2>3
<1> QED BY <1>1, <1>2, <1>6, <1>7, NothingFound DEF DottedOk

\* Where the search goes after the span is finished, and what was before.
LEMMA NextSpan ==
    ASSUME Control, FillCell
    PROVE  /\ Control' /\ pc' \in {"extend", "done"} /\ ind' = 1 /\ graph' = 1
           /\ \A first, last : first \in Nat /\ last \in Nat /\ Before(first, last) =>
                 Before(first, last)'
           /\ \A first, last : first = span.start /\ last = EndPos => Before(first, last)'
           /\ \A i \in Nat : i < Size - 1 /\ Before(i, i)' =>
                 Before(i, i) \/ (i = span.start /\ span.width = 1)
           /\ \A g \in Graphs : \A s \in Starts : \A w \in Nat \ {0} :
                 s + w <= Size => (Passed(g, s, w)' <=> Passed(g, s, w))
<1>1. /\ setup' = setup /\ pc = "fill" /\ graph' = graph /\ ind' = ind
      /\ \/ /\ span.start + span.width < Size
            /\ span' = [span EXCEPT !.start = @ + 1] /\ pc' = "extend"
         \/ /\ ~(span.start + span.width < Size) /\ span.width < Size
            /\ span' = [start |-> 0, width |-> span.width + 1] /\ pc' = "extend"
         \/ /\ ~(span.width < Size) /\ span' = span /\ pc' = "done"
  BY DEF FillCell
<1>2. /\ setup \in DOMAIN Setups /\ SpanOk /\ graph = 1 /\ ind = 1
      /\ span = [start |-> span.start, width |-> span.width]
      /\ span.start \in Nat /\ span.width \in Nat \ {0} /\ Size \in Nat \ {0}
      /\ EndPos = span.start + span.width - 1 /\ EndPos \in Nat
      /\ span.start + span.width <= Size
  BY <1>1, SpanFacts DEF Control, SpanOk
<1>3. Size' = Size /\ Graphs' = Graphs /\ Starts' = Starts
  BY <1>1, SameConfig
<1>4. \/ /\ span.start + span.width < Size /\ pc' = "extend"
         /\ span' = [start |-> span.start + 1, width |-> span.width]
         /\ span'.start = span.start + 1 /\ span'.width = span.width
      \/ /\ span.start + span.width = Size /\ span.width < Size /\ pc' = "extend"
         /\ span' = [start |-> 0, width |-> span.width + 1]
         /\ span'.start = 0 /\ span'.width = span.width + 1
      \/ /\ span.width = Size /\ span.start = 0 /\ pc' = "done"
         /\ span' = span /\ span'.start = span.start /\ span'.width = span.width
  <2>1. CASE /\ span.start + span.width < Size
             /\ span' = [span EXCEPT !.start = @ + 1] /\ pc' = "extend"
    <3> DEFINE a == span.start
               b == span.width
    <3>1. span = [start |-> a, width |-> b]
      BY <1>2
    <3> HIDE DEF a, b
    <3>2. span' = [start |-> a + 1, width |-> b]
      BY <2>1, <3>1
    <3> QED BY <2>1, <3>2 DEF a, b
  <2>2. CASE /\ ~(span.start + span.width < Size) /\ span.width < Size
             /\ span' = [start |-> 0, width |-> span.width + 1] /\ pc' = "extend"
    BY <1>2, <2>2
  <2>3. CASE ~(span.width < Size) /\ span' = span /\ pc' = "done"
    BY <1>2, <2>3
  <2> QED BY <1>1, <2>1, <2>2, <2>3
<1>5. SpanOk'
  <2>1. span' = [start |-> span'.start, width |-> span'.width]
    BY <1>2, <1>4
  <2>2. span'.start \in Nat /\ span'.width \in Nat \ {0} /\ span'.start + span'.width <= Size
    BY <1>2, <1>4
  <2> QED BY <1>2, <1>3, <2>1, <2>2 DEF SpanOk, Starts
<1>6. Control'
  BY <1>1, <1>2, <1>3, <1>5 DEF Control
<1>7. ASSUME NEW first \in Nat, NEW last \in Nat, Before(first, last)
      PROVE  Before(first, last)'
  BY <1>1, <1>2, <1>4, <1>7 DEF Before
<1>8. ASSUME NEW first, NEW last, first = span.start, last = EndPos
      PROVE  Before(first, last)'
  BY <1>2, <1>4, <1>8 DEF Before
<1>10. ASSUME NEW i \in Nat, i < Size - 1, Before(i, i)'
       PROVE  Before(i, i) \/ (i = span.start /\ span.width = 1)
  BY <1>1, <1>2, <1>4, <1>10 DEF Before
<1>9. ASSUME NEW g \in Graphs, NEW s \in Starts, NEW w \in Nat \ {0}, s + w <= Size
      PROVE  Passed(g, s, w)' <=> Passed(g, s, w)
  <2>1. g \in Nat /\ g >= 1 /\ s \in Nat
    BY <1>2 DEF Graphs, Starts
  <2> QED BY <1>1, <1>2, <1>4, <1>9, <2>1 DEF Passed
<1> QED BY <1>1, <1>2, <1>4, <1>6, <1>7, <1>8, <1>9, <1>10

\* New labels of the span's cell: what they make an application is found with
\* wider spans.
LEMMA FilledDotted ==
    ASSUME Control, LabelsOk, DottedOk, FillCell, LabelsOk'
    PROVE  DottedOk'
<1>1. /\ setup' = setup /\ dotted' = dotted /\ pc = "fill"
  BY DEF FillCell
<1>2. PICK found : labels' = [labels EXCEPT ![<<span.start, EndPos>>] = found]
  BY DEF FillCell
<1>3. /\ setup \in DOMAIN Setups /\ SpanOk /\ span.start \in Starts
      /\ EndPos \in Starts /\ EndPos \in Nat /\ span.start \in Nat /\ span.start <= EndPos
      /\ span.width \in Nat \ {0} /\ EndPos = span.start + span.width - 1
      /\ <<span.start, EndPos>> \in Cells
  BY SpanFacts DEF Control, SpanOk, Cells
<1>4. /\ Control' /\ ind' = 1 /\ graph' = 1
      /\ \A g \in Graphs : \A s \in Starts : \A w \in Nat \ {0} :
            s + w <= Size => (Passed(g, s, w)' <=> Passed(g, s, w))
  BY NextSpan
<1>5. labels[span.start, EndPos] = {}
  <2>1. ~Before(span.start, EndPos)
    BY <1>1, <1>3 DEF Before
  <2> QED BY <1>3, <2>1 DEF LabelsOk
<1>6. /\ Config' = Config /\ Size' = Size /\ Starts' = Starts /\ Paths' = Paths /\ Cells' = Cells
      /\ Graphs' = Graphs
      /\ \A x : WordAt(x)' = WordAt(x) /\ (IsLabel(x)' <=> IsLabel(x))
      /\ \A s, p : Due(s, p)' = Due(s, p) /\ (Alone(p)' <=> Alone(p))
      /\ \A g, s, w : InReach(g, s, w)' <=> InReach(g, s, w)
  BY <1>1, SameConfig
<1>7. \A first, last \in Starts : first <= last =>
         \/ labels'[first, last] = labels[first, last]
         \/ first = span.start /\ last = EndPos
  <2>1. labels \in [Cells -> SUBSET LabelsOf]
    BY DEF LabelsOk
  <2>2. \A c \in Cells : c # <<span.start, EndPos>> => labels'[c] = labels[c]
    BY <1>2, <2>1
  <2> SUFFICES ASSUME NEW first \in Starts, NEW last \in Starts, first <= last,
                      ~(first = span.start /\ last = EndPos)
               PROVE  labels'[first, last] = labels[first, last]
    OBVIOUS
  <2>3. <<first, last>> \in Cells /\ <<first, last>> # <<span.start, EndPos>>
    BY DEF Cells
  <2> QED BY <2>2, <2>3
<1>8. ASSUME NEW sym, NEW first \in Starts, NEW last \in Starts, first <= last
      PROVE  /\ Matches(sym, first, last) => Matches(sym, first, last)'
             /\ Matches(sym, first, last)' =>
                   Matches(sym, first, last) \/ (first = span.start /\ last = EndPos /\ IsLabel(sym))
  <2>1. Matches(sym, first, last)' <=>
          IF IsLabel(sym) THEN sym \in labels'[first, last]
          ELSE first = last /\ sym = WordAt(first)
    BY <1>6 DEF Matches
  <2>2. Matches(sym, first, last) <=>
          IF IsLabel(sym) THEN sym \in labels[first, last]
          ELSE first = last /\ sym = WordAt(first)
    BY DEF Matches
  <2>3. CASE labels'[first, last] = labels[first, last]
    BY <2>1, <2>2, <2>3
  <2>4. CASE first = span.start /\ last = EndPos
    BY <1>5, <2>1, <2>2, <2>4
  <2> QED BY <1>7, <1>8, <2>3, <2>4
<1>9. ASSUME NEW g \in Graphs, NEW s \in Starts, NEW p \in Paths, Partial(g, s, p)
      PROVE  Partial(g, s, p)'
  <2>1. ASSUME NEW i \in 1 .. Len(p)
        PROVE  p[i].start <= p[i].end /\ Matches(p[i].sym, p[i].start, p[i].end)'
    <3>1. p[i].start \in Starts /\ p[i].end \in Starts
      BY <1>3, ElementFacts
    <3>2. p[i].start <= p[i].end /\ Matches(p[i].sym, p[i].start, p[i].end)
      BY <1>9 DEF Partial, Matched
    <3> QED BY <1>8, <3>1, <3>2
  <2>2. Matched(p)'
    BY <2>1 DEF Matched
  <2> QED BY <1>6, <1>9, <2>2 DEF Partial, Chained
<1>10. ASSUME NEW g \in Graphs, NEW s \in Starts, NEW p \in Paths, Partial(g, s, p)',
              ~Partial(g, s, p)
       PROVE  \E i \in 1 .. Len(p) : p[i].start = span.start /\ p[i].end = EndPos /\ IsLabel(p[i].sym)
  <2>1. Matched(p)' /\ ~Matched(p)
    BY <1>6, <1>10 DEF Partial, Chained
  <2>2. PICK i \in 1 .. Len(p) :
            ~(p[i].start <= p[i].end /\ Matches(p[i].sym, p[i].start, p[i].end))
    BY <2>1 DEF Matched
  <2>3. p[i].start <= p[i].end /\ Matches(p[i].sym, p[i].start, p[i].end)'
    BY <2>1 DEF Matched
  <2>4. p[i].start \in Starts /\ p[i].end \in Starts
    BY <1>3, ElementFacts
  <2> QED BY <1>8, <2>2, <2>3, <2>4
<1>11. ASSUME NEW g \in Graphs, NEW s \in Starts, NEW p \in Paths, Partial(g, s, p)'
       PROVE  /\ Due(s, p) \in Nat \ {0}
              /\ ~Partial(g, s, p) => Due(s, p) > span.width
  <2>1. Laid(s, p)
    BY <1>6, <1>11 DEF Partial, Matched, Chained, Laid
  <2>2. /\ Len(p) \in Nat \ {0} /\ RuleEnd(p) \in Nat
        /\ Due(s, p) \in Nat \ {0}
        /\ Due(s, p) = RuleEnd(p) - s + 1 \/ (Alone(p) /\ Due(s, p) = RuleEnd(p) - s + 2)
        /\ ~Alone(p) => Due(s, p) = RuleEnd(p) - s + 1
        /\ \A i \in 1 .. Len(p) :
              /\ s <= p[i].start /\ p[i].end <= RuleEnd(p)
              /\ i # Len(p) => p[i].end < RuleEnd(p)
              /\ i # 1 => s < p[i].start
    BY <1>3, <2>1, LaidFacts
  <2>3. ASSUME ~Partial(g, s, p) PROVE Due(s, p) > span.width
    <3>1. PICK i \in 1 .. Len(p) :
              p[i].start = span.start /\ p[i].end = EndPos /\ IsLabel(p[i].sym)
      BY <1>10, <1>11, <2>3
    <3>2. /\ s <= span.start /\ EndPos <= RuleEnd(p)
          /\ i # Len(p) => EndPos < RuleEnd(p)
          /\ i # 1 => s < span.start /\ s \in Nat
      BY <1>3, <2>2, <3>1 DEF Starts
    <3>3. i = Len(p) /\ i = 1 => Alone(p)
      BY <3>1 DEF Alone
    <3>4. i = Len(p) /\ i = 1 => Due(s, p) = RuleEnd(p) - s + 2
      <4>1. Alone(p) => Due(s, p) = RuleEnd(p) - s + 2
        BY DEF Due
      <4> QED BY <3>3, <4>1
    <3> DEFINE a == span.start
               w == span.width
               d == Due(s, p)
               x == RuleEnd(p)
    <3>5. s \in Nat /\ a \in Nat /\ w \in Nat /\ d \in Nat /\ x \in Nat /\ EndPos = a + w - 1
      BY <1>3, <2>2 DEF Starts
    <3>6. /\ s <= a /\ EndPos <= x
          /\ EndPos < x \/ s < a \/ d = x - s + 2
          /\ d = x - s + 1 \/ d = x - s + 2
      BY <2>2, <3>2, <3>4
    <3>7. d > w
      <4> HIDE DEF a, w, d, x
      <4> QED BY <3>5, <3>6
    <3> QED BY <3>7
  <2> QED BY <2>2, <2>3
<1>12. ASSUME NEW g \in Graphs, NEW s \in Starts, NEW p \in Paths
       PROVE  Found(g, s, p)' <=> Found(g, s, p)
  <2>1. Processed' = {}
    BY <1>4 DEF Processed
  <2>2. Found(g, s, p) => Passed(g, s, Due(s, p))
    BY <1>1 DEF Found, Turn, Now
  <2>3. ASSUME Partial(g, s, p)', InReach(g, s, Due(s, p))
        PROVE  Found(g, s, p)' <=> Partial(g, s, p) /\ Passed(g, s, Due(s, p))
    <3> DEFINE w == Due(s, p)
    <3>1. w \in Nat \ {0} /\ (~Partial(g, s, p) => w > span.width)
      BY <1>11, <2>3
    <3>2. s + w <= Size
      BY <2>3 DEF InReach
    <3>3. \A v \in Nat \ {0} : s + v <= Size => (Passed(g, s, v)' <=> Passed(g, s, v))
      BY <1>4
    <3>4. Found(g, s, p)' <=> \E v \in {w} : Passed(g, s, v)'
      BY <1>6, <2>1, <2>3 DEF Found, Turn
    <3>5. ~Partial(g, s, p) => ~Passed(g, s, w)
      <4> HIDE DEF w
      <4> QED BY <1>1, <1>3, <3>1 DEF Passed
    <3> HIDE DEF w
    <3> QED BY <3>1, <3>2, <3>3, <3>4, <3>5 DEF w
  <2>4. Found(g, s, p)' => Partial(g, s, p)' /\ InReach(g, s, Due(s, p))
    BY <1>6 DEF Found
  <2>5. Found(g, s, p) => Partial(g, s, p)' /\ InReach(g, s, Due(s, p))
    BY <1>9 DEF Found
  <2>6. Partial(g, s, p) /\ InReach(g, s, Due(s, p)) /\ Passed(g, s, Due(s, p)) => Found(g, s, p)
    BY DEF Found, Turn
  <2>7. Found(g, s, p) => Partial(g, s, p)
    BY DEF Found
  <2> QED BY <2>2, <2>3, <2>4, <2>5, <2>6, <2>7
<1>13. ASSUME NEW g \in Graphs, NEW s \in Starts
       PROVE  Holds(g, s, dotted[g][s], FoundFrom(g, s))'
  <2>1. FoundFrom(g, s)' = FoundFrom(g, s)
    BY <1>6, <1>12 DEF FoundFrom
  <2>2. Holds(g, s, dotted'[g][s], FoundFrom(g, s))
    BY <1>1 DEF DottedOk
  <2> QED BY <1>1, <2>1, <2>2, StillHolds
<1>14. (dotted = [g \in Graphs |-> [s \in Starts |-> dotted[g][s]]])'
  BY <1>1, <1>6 DEF DottedOk
<1>15. (ind <= Len(Coll.expandable) + 1)'
  <2>1. graph' \in Graphs /\ span'.start \in Starts
    BY <1>4, <1>6 DEF Control, SpanOk
  <2>2. Coll'.expandable \in Seq(Paths)
    BY <1>1, <2>1 DEF DottedOk, Holds, Coll
  <2>3. Len(Coll'.expandable) \in Nat
    <3> HIDE DEF Paths
    <3> QED BY <2>2
  <2> QED BY <1>4, <2>3
<1> QED BY <1>6, <1>13, <1>14, <1>15 DEF DottedOk

-----------------------------------------------------------------------------
(* The list of the span and the labels of its cell                           *)

LEMMA OffersScored ==
    \A o \in Offers : /\ o.score \in Int /\ o.lhs # {} /\ o.lhs \subseteq LabelsOf
                      /\ o.path \in Paths /\ o.graph \in 0 .. Len(Config.tables)
BY DEF Offers

\* ApplyThreshold keeps the best option, and only options there were.
LEMMA ThresholdFacts ==
    ASSUME NEW O, \A o \in O : o.score \in Int, NEW l, l.options \in Seq(O), l.options # <<>>,
           l = [options |-> l.options, threshold |-> l.threshold], NEW width \in Nat
    PROVE  LET kept == ToSet(ApplyThreshold(l, width).options) IN
           kept # {} /\ kept \subseteq ToSet(l.options)
<1> DEFINE D == DOMAIN l.options
           scores == {o.score : o \in ToSet(l.options)}
           best == Max(scores)
           I == {i \in D : l.options[i].score >= best - width}
           stay == SetToSeq(I)
           new == [k \in DOMAIN stay |-> l.options[stay[k]]]
<1>1. /\ Len(l.options) \in Nat \ {0} /\ D = 1 .. Len(l.options)
      /\ \A i \in D : l.options[i] \in O /\ l.options[i].score \in Int
  OBVIOUS
<1>2. scores = {l.options[i].score : i \in D}
  BY DEF ToSet
<1>3. IsFiniteSet(D)
  BY <1>1, UpTo
<1>4. scores \in SUBSET Int /\ scores # {} /\ IsFiniteSet(scores)
  <2> DEFINE f == [i \in D |-> l.options[i].score]
  <2>1. f \in Surjection(D, scores)
    BY <1>2 DEF Surjection
  <2>2. IsFiniteSet(scores)
    <3> HIDE DEF f, D, scores
    <3> QED BY <1>3, <2>1, FS_Surjection, Zenon
  <2>3. 1 \in D
    BY <1>1
  <2> HIDE DEF D
  <2> QED BY <1>1, <1>2, <2>2, <2>3
<1>5. best \in scores
  <2> HIDE DEF scores
  <2> QED BY <1>4, GreatestExists
<1>6. PICK i \in D : l.options[i].score = best
  <2> HIDE DEF best
  <2> QED BY <1>2, <1>5
<1>7. i \in I
  <2>1. best \in Int
    BY <1>1, <1>6
  <2>2. best >= best - width
    <3> HIDE DEF best
    <3> QED BY <2>1
  <2> HIDE DEF best
  <2> QED BY <1>6, <2>2
<1>8. stay \in Seq(I) /\ ToSet(stay) = I
  <2>1. IsFiniteSet(I)
    <3> HIDE DEF D, best
    <3> QED BY <1>3, PartOfFinite
  <2> HIDE DEF I
  <2> QED BY <2>1, ListsSet
<1>9. ApplyThreshold(l, width).options = new
  <2> DEFINE o == l.options
             t == l.threshold
  <2>1. l = [options |-> o, threshold |-> t]
    OBVIOUS
  <2>2. ApplyThreshold(l, width) = [l EXCEPT !.options = [k \in DOMAIN stay |-> @[stay[k]]]]
    BY DEF ApplyThreshold
  <2> HIDE DEF stay
  <2> QED BY <2>1, <2>2
<1> HIDE DEF I, D, best, scores, stay
<1>10. \A k \in DOMAIN stay : stay[k] \in I
  BY <1>8 DEF ToSet
<1>11. \E k \in DOMAIN stay : stay[k] = i
  BY <1>7, <1>8 DEF ToSet
<1>12. DOMAIN new = DOMAIN stay /\ \A k \in DOMAIN stay : new[k] = l.options[stay[k]]
  OBVIOUS
<1> HIDE DEF new
<1>13. ToSet(new) # {}
  BY <1>11, <1>12 DEF ToSet
<1>14. ToSet(new) \subseteq ToSet(l.options)
  <2> SUFFICES ASSUME NEW k \in DOMAIN new PROVE new[k] \in ToSet(l.options)
    BY DEF ToSet
  <2>1. stay[k] \in DOMAIN l.options
    BY <1>10, <1>12 DEF I, D
  <2> QED BY <1>12, <2>1 DEF ToSet
<1> QED BY <1>9, <1>13, <1>14

\* The word between the first and the last whose cell is to be filled.
Inner == span.width = 1 /\ span.start # 0 /\ span.start # Size - 1

LEMMA FilledLabels ==
    ASSUME Control, ListInv, FillCell
    PROVE  \E found \in SUBSET LabelsOf :
              /\ labels' = [labels EXCEPT ![<<span.start, EndPos>>] = found]
              /\ Inner => found # {}
<1> DEFINE l == WithUnknown
           kept == IF l.options = <<>> THEN l ELSE ApplyThreshold(l, Config.width)
           lhs == UNION {o.lhs : o \in ToSet(kept.options)}
           limit == Config.ruleLimit
<1>1. PICK found \in SUBSET lhs :
         /\ found = {} => lhs = {}
         /\ labels' = [labels EXCEPT ![<<span.start, EndPos>>] = found]
  BY DEF FillCell
<1>2. /\ setup \in DOMAIN Setups /\ SpanOk /\ span.start \in Starts
      /\ limit \in Nat \ {0} /\ Config.width \in Nat
  BY ConfigFacts DEF Control, SpanOk
<1>3. Unknown \in Offers
  <2> DEFINE e == [sym |-> WordAt(span.start), start |-> span.start, end |-> span.start]
             p == Append(Root, e)
  <2>1. e \in Elements
    BY <1>2, ConfigFacts DEF Elements
  <2>2. p \in Paths
    <3> HIDE DEF e
    <3> QED BY <2>1 DEF Paths, Root
  <2>3. Unknown = [path |-> p, graph |-> 0, lhs |-> Config.unknownLHS, score |-> -10]
    BY DEF Unknown, Extend
  <2>4. Config.unknownLHS \in (SUBSET LabelsOf) \ {{}}
    BY <1>2, ConfigFacts DEF LabelsOf, TargetLabels
  <2>5. 0 \in 0 .. Len(Config.tables)
    BY <1>2, ConfigFacts
  <2> HIDE DEF p
  <2> QED BY <2>2, <2>3, <2>4, <2>5 DEF Offers
<1>4. ListOk(Offers, l, limit) /\ (Inner => l.options # <<>>)
  <2>1. ListOk(Offers, list, limit)
    BY DEF ListInv
  <2>2. ListOk(Offers, Add(list, Unknown, limit), limit) /\ Add(list, Unknown, limit).options # <<>>
    BY <1>2, <1>3, <2>1, OffersScored, AddOk
  <2>3. l = IF Inner /\ list.options = <<>> THEN Add(list, Unknown, limit) ELSE list
    BY DEF WithUnknown, Inner
  <2> HIDE DEF l
  <2> QED BY <2>1, <2>2, <2>3
<1>5. ToSet(kept.options) \subseteq Offers /\ (Inner => ToSet(kept.options) # {})
  <2> HIDE DEF l
  <2>1. /\ l = [options |-> l.options, threshold |-> l.threshold]
        /\ l.options \in Seq(Offers)
    BY <1>4 DEF ListOk
  <2>2. ToSet(l.options) \subseteq Offers
    <3> HIDE DEF Offers
    <3>1. DOMAIN l.options = 1 .. Len(l.options) /\ \A i \in 1 .. Len(l.options) : l.options[i] \in Offers
      BY <2>1
    <3> QED BY <3>1 DEF ToSet
  <2>3. CASE l.options = <<>>
    BY <1>4, <2>2, <2>3
  <2>4. CASE l.options # <<>>
    <3>1. /\ ToSet(ApplyThreshold(l, Config.width).options) # {}
          /\ ToSet(ApplyThreshold(l, Config.width).options) \subseteq ToSet(l.options)
      BY <1>2, <2>1, <2>4, OffersScored, ThresholdFacts
    <3> QED BY <2>2, <2>4, <3>1
  <2> QED BY <2>3, <2>4
<1>6. lhs \subseteq LabelsOf /\ (Inner => lhs # {})
  <2> HIDE DEF kept
  <2> QED BY <1>5, OffersScored
<1> HIDE DEF lhs
<1> QED BY <1>1, <1>6

\* A completed rule is offered finitely often.
LEMMA TimesFinite ==
    ASSUME setup \in DOMAIN Setups
    PROVE  TimesAdded \in Nat /\ IsFiniteSet(AdmittedAt) /\ Cardinality(AdmittedAt) \in Nat
<1>1. Clauses \in Seq(Nat \X Nat)
  BY ConfigFacts
<1>2. Len(Clauses) \in Nat /\ DOMAIN Clauses = 1 .. Len(Clauses)
  BY <1>1
<1>3. IsFiniteSet(DOMAIN Clauses)
  BY <1>2, UpTo
<1>4. AdmittedAt \subseteq DOMAIN Clauses
  BY DEF AdmittedAt
<1>5. IsFiniteSet(AdmittedAt) /\ Cardinality(AdmittedAt) \in Nat
  BY <1>3, <1>4, PartOfFinite
<1>6. TimesAdded \in {0, 1, Cardinality(AdmittedAt)}
  BY DEF TimesAdded
<1> QED BY <1>5, <1>6

\* The rule of CollectRule's turn, as an option.
LEMMA TurnOption ==
    ASSUME Control, DottedOk, ind <= Len(Coll.coll[span.width])
    PROVE  LET path == Coll.coll[span.width][ind] IN
           /\ path \in Paths /\ ind \in DOMAIN Coll.coll[span.width]
           /\ OptionOf(path) = OptionAt(graph, path)
           /\ TargetPhrases(Table, Node(path)) # {} => OptionOf(path) \in Offers
<1> DEFINE paths == Coll.coll[span.width]
           path == paths[ind]
<1>1. /\ paths \in Seq(Paths) /\ graph \in Graphs /\ setup \in DOMAIN Setups /\ ind \in Nat \ {0}
  BY CollFacts DEF Control
<1>2. ind \in DOMAIN paths /\ path \in Paths
  <2> HIDE DEF Paths, paths
  <2>1. DOMAIN paths = 1 .. Len(paths) /\ Len(paths) \in Nat
    BY <1>1
  <2>2. ind \in 1 .. Len(paths)
    BY <1>1, <2>1 DEF paths
  <2> QED BY <1>1, <2>1, <2>2
<1> HIDE DEF path
<1>3. OptionOf(path) = OptionAt(graph, path)
  BY DEF OptionOf, OptionAt, ScoreOf, Table
<1>4. TargetPhrases(Table, Node(path)) # {} => OptionOf(path) \in Offers
  BY <1>1, <1>2, <1>3, OptionFacts DEF Table
<1> QED BY <1>2, <1>3, <1>4 DEF path

LEMMA ClearOk ==
    ASSUME NEW O, NEW limit \in Nat \ {0}
    PROVE  ListOk(O, Clear, limit) /\ Clear.options = <<>> /\ Len(Clear.options) = 0
<1>1. /\ Clear.options = <<>> /\ Clear.threshold = 1000
      /\ Clear = [options |-> Clear.options, threshold |-> Clear.threshold]
  BY DEF Clear, Infinity
<1>2. <<>> \in Seq(O) /\ Len(<<>>) = 0 /\ 0 < 2 * limit
  OBVIOUS
<1> QED BY <1>1, <1>2 DEF ListOk

\* The invariant holds at first, and every step keeps it.
LEMMA ParserInvInit ==
    Init => ParserInv
<1> SUFFICES ASSUME Init PROVE ParserInv
  OBVIOUS
<1>1. Control /\ LabelsOk /\ DottedOk
  BY InitParser
<1>2. list = Clear /\ Config.ruleLimit \in Nat \ {0}
  BY <1>1, ConfigFacts DEF Init, Control
<1>3. ListInv
  BY <1>2, ClearOk DEF ListInv
<1> QED BY <1>1, <1>3 DEF ParserInv

LEMMA ParserInvStep ==
    ASSUME ParserInv, [Next]_vars
    PROVE  ParserInv'
<1> DEFINE limit == Config.ruleLimit
<1>0. /\ Control /\ LabelsOk /\ DottedOk /\ ListInv
      /\ setup \in DOMAIN Setups /\ graph \in Graphs
      /\ limit \in Nat \ {0} /\ Len(Config.tables) \in Nat \ {0}
  BY ConfigFacts DEF ParserInv, Control
<1>1. ListOk(Offers, list, limit)
  BY <1>0 DEF ListInv
<1>2. ASSUME setup' = setup, labels' = labels, span' = span, pc # "done", pc' # "done"
      PROVE  LabelsOk'
  <2>1. \A first, last : Before(first, last)' <=> Before(first, last)
    BY <1>2 DEF Before
  <2> QED BY <1>0, <1>2, <2>1, SameConfig DEF LabelsOk
<1>3. ASSUME setup' = setup, list' = list, pc' # "done", pc = "extend"
      PROVE  ListInv'
  <2>1. ListOk(Offers, list, limit)'
    BY <1>1, <1>3, SameConfig DEF ListOk
  <2> QED BY <1>0, <1>3, <2>1, SameConfig DEF ListInv
<1>4. ASSUME setup' = setup, NextGraph
      PROVE  graph' \in Graphs /\ (pc' = "fill" => graph' = 1) /\ ind' = 1 /\ pc' \in {"extend", "fill"}
  BY <1>0, <1>4 DEF NextGraph, Graphs
<1>5. CASE ExtendDottedRule
  <2>1. /\ setup' = setup /\ labels' = labels /\ span' = span /\ graph' = graph
        /\ pc = "extend" /\ pc' = "extend" /\ list' = list /\ ind' = ind + 1
    BY <1>5 DEF ExtendDottedRule
  <2>2. Control'
    BY <1>0, <2>1, SameConfig DEF Control, SpanOk
  <2>3. DottedOk'
    BY <1>0, <1>5, ExtendDotted
  <2> QED BY <1>2, <1>3, <2>1, <2>2, <2>3 DEF ParserInv
<1>6. CASE AllExtended
  <2>1. /\ setup' = setup /\ labels' = labels /\ span' = span /\ graph' = graph /\ InRange
        /\ pc = "extend" /\ pc' = "complete" /\ list' = list /\ ind' = 1
    BY <1>6 DEF AllExtended
  <2>2. InRange'
    BY <2>1, SameConfig DEF InRange, Table
  <2>3. Control'
    BY <1>0, <2>1, <2>2, SameConfig DEF Control, SpanOk
  <2>4. DottedOk'
    BY <1>0, <1>6, ExtendedDotted
  <2> QED BY <1>2, <1>3, <2>1, <2>3, <2>4 DEF ParserInv
<1>7. CASE CollectRule
  <2>1. /\ setup' = setup /\ labels' = labels /\ span' = span /\ graph' = graph
        /\ pc = "complete" /\ pc' = "complete" /\ ind' = ind + 1
        /\ ind <= Len(Coll.coll[span.width])
    BY <1>7 DEF CollectRule
  <2>2. InRange'
    BY <1>0, <2>1, SameConfig DEF InRange, Table, Control
  <2>3. Control'
    BY <1>0, <2>1, <2>2, SameConfig DEF Control, SpanOk
  <2>4. DottedOk'
    BY <1>0, <1>7, CollectedDotted
  <2> DEFINE path == Coll.coll[span.width][ind]
  <2>5. list' = IF TargetPhrases(Table, Node(path)) = {} THEN list
                ELSE AddTimes(OptionOf(path), TimesAdded)
    BY <1>7 DEF CollectRule
  <2>6. TargetPhrases(Table, Node(path)) # {} => OptionOf(path) \in Offers
    BY <1>0, <2>1, TurnOption
  <2> HIDE DEF path
  <2>7. ListOk(Offers, list', limit)
    <3>1. TargetPhrases(Table, Node(path)) # {} =>
            ListOk(Offers, AddTimes(OptionOf(path), TimesAdded), limit)
      BY <1>0, <1>1, <2>6, OffersScored, TimesFinite, AddTimesFacts
    <3> QED BY <1>1, <2>5, <3>1
  <2>8. ListOk(Offers, list, limit)'
    BY <2>1, <2>7, SameConfig DEF ListOk
  <2>9. ListInv'
    BY <2>1, <2>8 DEF ListInv
  <2> QED BY <1>2, <2>1, <2>3, <2>4, <2>9 DEF ParserInv
<1>8. CASE ShrinkList
  <2>1. /\ setup' = setup /\ labels' = labels /\ span' = span /\ pc = "complete" /\ NextGraph
        /\ list' = ShrinkToLimit(list, limit)
    BY <1>8 DEF ShrinkList
  <2>2. graph' \in Graphs /\ (pc' = "fill" => graph' = 1) /\ ind' = 1 /\ pc' \in {"extend", "fill"}
    BY <1>4, <2>1
  <2>3. Control'
    BY <1>0, <2>1, <2>2, SameConfig DEF Control, SpanOk
  <2>4. DottedOk'
    BY <1>0, <1>8, CollectedDotted
  <2>5. ListOk(Offers, list', limit) /\ Len(list'.options) <= limit
    BY <1>0, <1>1, <2>1, OffersScored, ShrinkOk
  <2>6. ListOk(Offers, list, limit)'
    BY <2>1, <2>5, SameConfig DEF ListOk
  <2>7. ListInv'
    BY <2>1, <2>2, <2>5, <2>6, SameConfig DEF ListInv
  <2> QED BY <1>2, <2>1, <2>2, <2>3, <2>4, <2>7 DEF ParserInv
<1>9. CASE SkipGraph
  <2>1. /\ setup' = setup /\ labels' = labels /\ span' = span /\ pc = "extend" /\ NextGraph
        /\ list' = list
    BY <1>9 DEF SkipGraph
  <2>2. graph' \in Graphs /\ (pc' = "fill" => graph' = 1) /\ ind' = 1 /\ pc' \in {"extend", "fill"}
    BY <1>4, <2>1
  <2>3. Control'
    BY <1>0, <2>1, <2>2, SameConfig DEF Control, SpanOk
  <2>4. DottedOk'
    BY <1>0, <1>9, CollectedDotted
  <2> QED BY <1>2, <1>3, <2>1, <2>2, <2>3, <2>4 DEF ParserInv
<1>10. CASE FillCell
  <2>1. setup' = setup /\ list' = Clear
    BY <1>10 DEF FillCell
  <2>2. /\ Control' /\ pc' \in {"extend", "done"}
        /\ \A first, last : first \in Nat /\ last \in Nat /\ Before(first, last) =>
              Before(first, last)'
        /\ \A first, last : first = span.start /\ last = EndPos => Before(first, last)'
    BY <1>0, <1>10, NextSpan
  <2>3. PICK found \in SUBSET LabelsOf : labels' = [labels EXCEPT ![<<span.start, EndPos>>] = found]
    BY <1>0, <1>10, FilledLabels
  <2>4. LabelsOk'
    <3>1. labels \in [Cells -> SUBSET LabelsOf]
      BY <1>0 DEF LabelsOk
    <3>2. labels' \in [Cells -> SUBSET LabelsOf]
      BY <2>3, <3>1
    <3>3. ASSUME NEW first \in Starts, NEW last \in Starts, first <= last, labels'[first, last] # {}
          PROVE  Before(first, last)'
      <4>0. first <= last
        BY <3>3
      <4>1. first \in Nat /\ last \in Nat /\ <<first, last>> \in Cells
        BY <4>0 DEF Starts, Cells
      <4>2. CASE <<first, last>> = <<span.start, EndPos>>
        <5>1. first = span.start /\ last = EndPos
          BY <4>2
        <5> QED BY <2>2, <5>1
      <4>3. CASE <<first, last>> # <<span.start, EndPos>>
        <5>1. labels'[<<first, last>>] = labels[<<first, last>>]
          BY <2>3, <3>1, <4>1, <4>3
        <5>2. labels[first, last] # {}
          BY <3>3, <5>1
        <5>3. Before(first, last)
          BY <1>0, <3>3, <5>2 DEF LabelsOk
        <5> QED BY <2>2, <4>1, <5>3
      <4> QED BY <4>2, <4>3
    <3> QED BY <2>1, <3>2, <3>3, SameConfig DEF LabelsOk
  <2>5. DottedOk'
    BY <1>0, <1>10, <2>4, FilledDotted
  <2>6. ListInv'
    <3>1. ListOk(Offers, Clear, limit) /\ Len(Clear.options) = 0
      BY <1>0, ClearOk
    <3>2. ListOk(Offers, list, limit)'
      BY <2>1, <3>1, SameConfig DEF ListOk
    <3> QED BY <1>0, <2>1, <3>1, <3>2, SameConfig DEF ListInv
  <2> QED BY <2>2, <2>4, <2>5, <2>6 DEF ParserInv
<1>11. CASE UNCHANGED vars
  <2>1. /\ setup' = setup /\ span' = span /\ graph' = graph /\ pc' = pc /\ ind' = ind
        /\ dotted' = dotted /\ labels' = labels /\ list' = list
    BY <1>11 DEF vars
  <2>2. Control'
    BY <1>0, <2>1, SameConfig DEF Control, SpanOk, InRange, Table
  <2>3. LabelsOk'
    <3>1. \A first, last : Before(first, last)' <=> Before(first, last)
      BY <2>1 DEF Before
    <3> QED BY <1>0, <2>1, <3>1, SameConfig DEF LabelsOk
  <2>4. DottedOk'
    <3>1. ASSUME NEW g, NEW s, NEW p PROVE Turn(g, s, p)' <=> Turn(g, s, p)
      BY <2>1, SameConfig DEF Turn, Passed, Now, Processed, Coll
    <3>2. (pc = "extend" => ind <= Len(Coll.expandable) + 1)'
      BY <1>0, <2>1 DEF DottedOk, Coll
    <3> QED BY <1>0, <2>1, <3>1, <3>2, NothingFound DEF DottedOk
  <2>5. ListInv'
    BY <1>0, <2>1, SameConfig DEF ListInv, ListOk
  <2> QED BY <2>2, <2>3, <2>4, <2>5 DEF ParserInv
<1> QED BY <1>5, <1>6, <1>7, <1>8, <1>9, <1>10, <1>11 DEF Next, Done

-----------------------------------------------------------------------------
(* The theorems                                                              *)

\* What the lookup works with, whatever the sentence and the tables: the loops
\* stay within the sentence, the cells hold labels of the grammar, the dotted rule
\* collections of m_dottedRuleColls hold exactly what has been found so far, and
\* the rule list stays below twice its limit (ChartRuleLookupManagerMemory,
\* ChartRuleLookupManagerMinSpan, ChartTranslationOptionList).
THEOREM ParserInvariant == Spec => []ParserInv
<1>1. Init => ParserInv
  BY ParserInvInit
<1>2. ParserInv /\ [Next]_vars => ParserInv'
  BY ParserInvStep
<1> QED BY <1>1, <1>2, PTL DEF Spec

\* Every word between the first and the last has labels once its cell is filled,
\* however the minimum span, the rule limit and the threshold are set
\* (ProcessOneUnknownWord, ApplyThreshold).
THEOREM WordsTranslated == Spec => []NoUntranslatableWord
<1> DEFINE Inv == ParserInv /\ NoUntranslatableWord
<1>1. Init => Inv
  <2> SUFFICES ASSUME Init PROVE Inv
    OBVIOUS
  <2>1. ParserInv
    BY ParserInvInit
  <2>2. ASSUME NEW i \in 1 .. (Size - 2) PROVE ~Before(i, i)
    <3>1. Size \in Nat
      BY <2>1, ConfigFacts DEF ParserInv, Control
    <3>2. span.start = 0 /\ span.width = 1 /\ pc = "extend"
      BY DEF Init
    <3> QED BY <3>1, <3>2 DEF Before
  <2> QED BY <2>1, <2>2 DEF NoUntranslatableWord
<1>2. Inv /\ [Next]_vars => Inv'
  <2> SUFFICES ASSUME Inv, [Next]_vars PROVE Inv'
    OBVIOUS
  <2>1. ParserInv' /\ Control /\ LabelsOk /\ ListInv /\ setup \in DOMAIN Setups
    BY ParserInvStep DEF ParserInv, Control
  <2>2. CASE ~FillCell
    <3>1. setup' = setup /\ span' = span /\ labels' = labels /\ (pc' = "done" <=> pc = "done")
      BY <2>2 DEF Next, ExtendDottedRule, AllExtended, CollectRule, ShrinkList, SkipGraph,
                  NextGraph, Done, vars
    <3>2. \A i : Before(i, i)' <=> Before(i, i)
      BY <3>1 DEF Before
    <3> QED BY <2>1, <3>1, <3>2, SameConfig DEF NoUntranslatableWord
  <2>3. CASE FillCell
    <3>1. setup' = setup /\ pc = "fill"
      BY <2>3 DEF FillCell
    <3>2. PICK found \in SUBSET LabelsOf :
             /\ labels' = [labels EXCEPT ![<<span.start, EndPos>>] = found]
             /\ Inner => found # {}
      BY <2>1, <2>3, FilledLabels
    <3>3. \A i \in Nat : i < Size - 1 /\ Before(i, i)' =>
             Before(i, i) \/ (i = span.start /\ span.width = 1)
      BY <2>1, <2>3, NextSpan
    <3>4. /\ Size \in Nat /\ EndPos = span.start + span.width - 1
          /\ span.start \in Nat /\ span.width \in Nat /\ EndPos \in Nat
          /\ labels \in [Cells -> SUBSET LabelsOf]
      BY <2>1, SpanFacts DEF Control, LabelsOk
    <3> SUFFICES ASSUME NEW i \in 1 .. (Size - 2), Before(i, i)'
                 PROVE  labels'[<<i, i>>] # {}
      BY <2>1, <3>1, SameConfig DEF NoUntranslatableWord
    <3>5. /\ i \in Nat /\ i < Size - 1 /\ i # 0 /\ <<i, i>> \in Cells
      BY <3>4 DEF Cells, Starts
    <3>6. CASE Before(i, i)
      <4>1. <<i, i>> # <<span.start, EndPos>>
        BY <3>1, <3>4, <3>5, <3>6 DEF Before
      <4>2. labels'[<<i, i>>] = labels[<<i, i>>]
        BY <3>2, <3>4, <3>5, <4>1
      <4> QED BY <3>6, <4>2 DEF NoUntranslatableWord
    <3>7. CASE i = span.start /\ span.width = 1
      <4>1. <<i, i>> = <<span.start, EndPos>> /\ Inner
        BY <3>4, <3>5, <3>7 DEF Inner
      <4>2. labels'[<<i, i>>] = found
        BY <3>2, <3>4, <3>5, <4>1
      <4> QED BY <3>2, <4>1, <4>2
    <3> QED BY <3>3, <3>5, <3>6, <3>7
  <2> QED BY <2>2, <2>3
<1> QED BY <1>1, <1>2, PTL DEF Spec

-----------------------------------------------------------------------------
(* The lookup finds every application                                        *)

\* The path along which a rule is cut.
Cut(r, c) ==
    [i \in 1 .. Len(r.src) |-> [sym |-> r.src[i], start |-> c[i], end |-> c[i + 1] - 1]]

LEMMA CutsAre ==
    ASSUME NEW table, NEW first, NEW last, NEW p
    PROVE  p \in Applications(table, first, last) <=>
              \E r \in table.rules : \E c \in Cuts(Len(r.src), first, last) :
                 /\ Len(r.src) > 1 \/ ~IsLabel(r.src[1])
                 /\ \A i \in 1 .. Len(r.src) : Matches(r.src[i], c[i], c[i + 1] - 1)
                 /\ p = Cut(r, c)
<1> DEFINE R == {q \in table.rules : Len(q.src) > 1 \/ ~IsLabel(q.src[1])}
           C(r) == {k \in Cuts(Len(r.src), first, last) :
                      \A i \in 1 .. Len(r.src) : Matches(r.src[i], k[i], k[i + 1] - 1)}
<1>1. Applications(table, first, last) = UNION {{Cut(r, c) : c \in C(r)} : r \in R}
  BY Zenon DEF Applications, Cut
<1> HIDE DEF Cut
<1>2. p \in UNION {{Cut(r, c) : c \in C(r)} : r \in R} <=>
         \E r \in R : \E c \in C(r) : p = Cut(r, c)
  <2> HIDE DEF R, C
  <2> QED OBVIOUS
<1> QED BY <1>1, <1>2, Zenon

\* The applications of a rule to a span are the partial applications that end
\* with it at a node with target phrases, without the single labels.
LEMMA ApplicationsAre ==
    ASSUME setup \in DOMAIN Setups, NEW g \in Graphs, NEW first \in Starts, NEW last \in Starts,
           first <= last, NEW p
    PROVE  p \in Applications(Config.tables[g], first, last) <=>
              /\ p \in Paths /\ Partial(g, first, p) /\ ~Alone(p)
              /\ RuleEnd(p) = last /\ Complete(g, p)
<1>1. first \in Nat /\ last \in Nat /\ Size \in Nat /\ last < Size
  BY ConfigFacts DEF Starts
<1>2. ASSUME p \in Applications(Config.tables[g], first, last)
      PROVE  /\ p \in Paths /\ Partial(g, first, p) /\ ~Alone(p)
             /\ RuleEnd(p) = last /\ Complete(g, p)
  <2>1. PICK r \in Config.tables[g].rules : \E c \in Cuts(Len(r.src), first, last) :
                 /\ Len(r.src) > 1 \/ ~IsLabel(r.src[1])
                 /\ \A i \in 1 .. Len(r.src) : Matches(r.src[i], c[i], c[i + 1] - 1)
                 /\ p = Cut(r, c)
    BY <1>2, CutsAre
  <2>2. PICK c \in Cuts(Len(r.src), first, last) :
                 /\ Len(r.src) > 1 \/ ~IsLabel(r.src[1])
                 /\ \A i \in 1 .. Len(r.src) : Matches(r.src[i], c[i], c[i + 1] - 1)
                 /\ p = Cut(r, c)
    BY <2>1
  <2> DEFINE n == Len(r.src)
  <2>3. r.src \in Seq(STRING) /\ r.src # <<>>
    BY RuleFacts
  <2>4. n \in Nat \ {0} /\ \A i \in 1 .. n : r.src[i] \in STRING
    BY <2>3
  <2>5. /\ c \in [1 .. (n + 1) -> first .. (last + 1)] /\ c[1] = first /\ c[n + 1] = last + 1
        /\ \A i \in 1 .. n : c[i] < c[i + 1]
    BY <2>2 DEF Cuts
  <2>6. p = [i \in 1 .. n |-> [sym |-> r.src[i], start |-> c[i], end |-> c[i + 1] - 1]]
    BY <2>2 DEF Cut
  <2>7. \A i \in 1 .. n : Matches(r.src[i], c[i], c[i + 1] - 1)
    BY <2>2
  <2>8. n > 1 \/ ~IsLabel(r.src[1])
    BY <2>2
  <2> HIDE DEF n
  <2>9. ASSUME NEW i \in 1 .. n
        PROVE  /\ c[i] \in Starts /\ c[i + 1] - 1 \in Starts /\ c[i] <= c[i + 1] - 1
               /\ c[i] \in Int /\ c[i + 1] \in Int
    <3>1. i \in 1 .. (n + 1) /\ i + 1 \in 1 .. (n + 1)
      BY <2>4
    <3>2. c[i] \in first .. (last + 1) /\ c[i + 1] \in first .. (last + 1) /\ c[i] < c[i + 1]
      BY <2>5, <3>1
    <3> QED BY <1>1, <3>2 DEF Starts
  <2>10. /\ Len(p) = n /\ DOMAIN p = 1 .. n
         /\ \A i \in 1 .. n : p[i] = [sym |-> r.src[i], start |-> c[i], end |-> c[i + 1] - 1]
    BY <2>4, <2>6
  <2>11. ASSUME NEW i \in 1 .. n PROVE p[i] \in Elements
    <3>1. c[i] \in Starts /\ c[i + 1] - 1 \in Starts /\ r.src[i] \in STRING
      BY <2>4, <2>9
    <3> DEFINE x == c[i]
               y == c[i + 1] - 1
    <3>2. p[i] = [sym |-> r.src[i], start |-> x, end |-> y]
      BY <2>10
    <3> HIDE DEF x, y
    <3> QED BY <3>1, <3>2 DEF Elements, x, y
  <2>12. p \in Paths
    <3> HIDE DEF Elements
    <3> QED BY <2>4, <2>6, <2>10, <2>11 DEF Paths
  <2>13. \A i \in 1 .. n : p[i].sym = r.src[i] /\ p[i].start = c[i] /\ p[i].end = c[i + 1] - 1
    BY <2>10
  <2>14. p # Root /\ 1 \in 1 .. n /\ n \in 1 .. n
    BY <2>4, <2>10 DEF Root
  <2>15. Chained(p)
    <3> SUFFICES ASSUME NEW i \in 1 .. n - 1 PROVE p[i + 1].start = p[i].end + 1
      BY <2>10 DEF Chained
    <3>1. i \in 1 .. n /\ i + 1 \in 1 .. n
      BY <2>4
    <3>2. p[i + 1].start = c[i + 1] /\ p[i].end = c[i + 1] - 1
      BY <2>13, <3>1
    <3>3. c[i + 1] \in Int
      BY <2>9, <3>1
    <3> QED BY <3>2, <3>3
  <2>16. Matched(p)
    BY <2>7, <2>9, <2>10, <2>13 DEF Matched
  <2>17. Node(p) = r.src
    <3>1. Node(p) \in Seq(STRING) /\ Len(Node(p)) = n /\ \A i \in 1 .. n : Node(p)[i] = r.src[i]
      BY <2>10, <2>12, <2>13, NodeFacts
    <3>2. Len(r.src) = n
      BY DEF n
    <3> QED BY <2>3, <3>1, <3>2
  <2>18. Complete(g, p)
    BY <2>17 DEF Complete, TargetPhrases
  <2>19. IsNode(Config.tables[g], Node(p))
    <3>1. IsPrefix(r.src, r.src)
      <4>1. Len(r.src) <= Len(r.src)
        BY <2>3
      <4> QED BY <2>3, <4>1, PrefixDef
    <3> QED BY <2>17, <3>1 DEF IsNode
  <2>20. RuleEnd(p) = last
    BY <1>1, <2>5, <2>10, <2>13, <2>14 DEF RuleEnd
  <2>21. ~Alone(p)
    BY <2>8, <2>10, <2>13, <2>14 DEF Alone
  <2> QED BY <2>5, <2>12, <2>13, <2>14, <2>15, <2>16, <2>18, <2>19, <2>20, <2>21 DEF Partial
<1>3. ASSUME p \in Paths, Partial(g, first, p), ~Alone(p), RuleEnd(p) = last, Complete(g, p)
      PROVE  p \in Applications(Config.tables[g], first, last)
  <2> DEFINE n == Len(p)
             c == [i \in 1 .. (n + 1) |-> IF i = n + 1 THEN last + 1 ELSE p[i].start]
  <2>1. PICK r \in Config.tables[g].rules : r.src = Node(p)
    BY <1>3 DEF Complete, TargetPhrases
  <2>2. /\ n \in Nat \ {0} /\ DOMAIN p = 1 .. n
        /\ \A i \in 1 .. n : /\ p[i] \in Elements /\ p[i].start \in Nat /\ p[i].end \in Nat
    BY <1>3, PartialFacts, ElementFacts
  <2>3. \A i \in 1 .. n : first <= p[i].start /\ p[i].end <= last
    BY <1>3, PartialFacts
  <2>4. \A i \in 1 .. n : p[i].start <= p[i].end /\ Matches(p[i].sym, p[i].start, p[i].end)
    BY <1>3 DEF Partial, Matched
  <2>5. \A i \in 1 .. n - 1 : p[i + 1].start = p[i].end + 1
    BY <1>3 DEF Partial, Chained
  <2>6. Len(r.src) = n /\ \A i \in 1 .. n : r.src[i] = p[i].sym
    BY <1>3, <2>1, NodeFacts
  <2>7. p[n].end = last /\ p[1].start = first
    BY <1>3 DEF RuleEnd, Partial
  <2> HIDE DEF n
  <2>8. ASSUME NEW i \in 1 .. n
        PROVE  c[i] = p[i].start /\ c[i + 1] = p[i].end + 1 /\ c[i + 1] - 1 = p[i].end
    <3>1. i \in 1 .. (n + 1) /\ i + 1 \in 1 .. (n + 1) /\ i # n + 1
      BY <2>2
    <3>2. CASE i = n
      BY <2>2, <2>7, <3>1, <3>2
    <3>3. CASE i # n
      <4>1. i \in 1 .. n - 1 /\ i + 1 # n + 1
        BY <2>2, <3>3
      <4> QED BY <2>2, <2>5, <3>1, <4>1
    <3> QED BY <3>2, <3>3
  <2>9. c \in [1 .. (n + 1) -> first .. (last + 1)]
    <3> SUFFICES ASSUME NEW i \in 1 .. (n + 1)
                 PROVE  (IF i = n + 1 THEN last + 1 ELSE p[i].start) \in first .. (last + 1)
      OBVIOUS
    <3>1. i # n + 1 => i \in 1 .. n
      BY <2>2
    <3>2. i # n + 1 => /\ p[i].start \in Nat /\ p[i].end \in Nat /\ first <= p[i].start
                       /\ p[i].start <= p[i].end /\ p[i].end <= last
      BY <2>2, <2>3, <2>4, <3>1
    <3> QED BY <1>1, <3>2
  <2>10. c[1] = first /\ c[n + 1] = last + 1
    BY <2>2, <2>7
  <2> HIDE DEF c
  <2>11. c \in Cuts(n, first, last)
    <3>1. \A i \in 1 .. n : c[i] < c[i + 1]
      BY <2>2, <2>4, <2>8
    <3> QED BY <2>9, <2>10, <3>1 DEF Cuts
  <2>12. \A i \in 1 .. Len(r.src) : Matches(r.src[i], c[i], c[i + 1] - 1)
    BY <2>4, <2>6, <2>8
  <2>13. Len(r.src) > 1 \/ ~IsLabel(r.src[1])
    <3>1. n = 1 => ~IsLabel(p[1].sym)
      BY <1>3 DEF Alone, n
    <3> QED BY <2>2, <2>6, <3>1
  <2>14. p = Cut(r, c)
    <3>1. \A i \in 1 .. n : p[i] = [sym |-> p[i].sym, start |-> p[i].start, end |-> p[i].end]
      BY <2>2 DEF Elements
    <3>2. Cut(r, c) = [i \in 1 .. n |-> [sym |-> r.src[i], start |-> c[i], end |-> c[i + 1] - 1]]
      BY <2>6 DEF Cut
    <3>3. \A i \in 1 .. n : p[i] = [sym |-> r.src[i], start |-> c[i], end |-> c[i + 1] - 1]
      BY <2>6, <2>8, <3>1
    <3>4. p = [i \in 1 .. n |-> p[i]]
      <4> HIDE DEF Elements
      <4> QED BY <1>3, <2>2 DEF Paths
    <3> QED BY <3>2, <3>3, <3>4
  <2> QED BY <2>6, <2>11, <2>12, <2>13, <2>14, CutsAre
<1> QED BY <1>2, <1>3

\* What a finished lookup leaves: among the dotted rules that end with the span,
\* those that are complete are the applications, each once.
LEMMA Lookup ==
    ASSUME Control, DottedOk, NEW g \in Graphs, pc # "done",
           InReach(g, span.start, span.width), Passed(g, span.start, span.width)
    PROVE  LET paths == dotted[g][span.start].coll[span.width] IN
           /\ paths \in Seq(Paths) /\ Distinct(paths)
           /\ \A p : p \in ToSet(paths) /\ Complete(g, p) <=>
                     p \in Applications(Config.tables[g], span.start, EndPos)
<1> DEFINE s == span.start
           w == span.width
           paths == dotted[g][s].coll[w]
           F == FoundFrom(g, s)
<1>1. /\ setup \in DOMAIN Setups /\ s \in Starts /\ s \in Nat /\ w \in Nat \ {0}
      /\ w \in 1 .. (Size - s) /\ EndPos \in Starts /\ s <= EndPos /\ EndPos = s + w - 1
  BY SpanFacts DEF Control, SpanOk
<1>2. Holds(g, s, dotted[g][s], F)
  BY <1>1 DEF DottedOk
<1>3. /\ dotted[g][s].coll \in [0 .. (Size - s) -> Seq(Paths)] /\ Distinct(paths)
      /\ ToSet(paths) = {p \in F : RuleEnd(p) = s + w - 1}
  BY <1>1, <1>2 DEF Holds
<1>4. paths \in Seq(Paths)
  <2>1. w \in 0 .. (Size - s)
    BY <1>1
  <2> HIDE DEF Paths
  <2> QED BY <1>3, <2>1
<1>5. ASSUME NEW p \in Paths, Partial(g, s, p), RuleEnd(p) = EndPos
      PROVE  Found(g, s, p) <=> ~Alone(p)
  <2>1. /\ ~Alone(p) => Due(s, p) = w
        /\ Alone(p) => Due(s, p) = w + 1
    <3>1. RuleEnd(p) - s + 1 = w /\ RuleEnd(p) - s + 2 = w + 1
      BY <1>1, <1>5
    <3> QED BY <3>1 DEF Due
  <2>2. Alone(p) => ~Turn(g, s, p)
    <3>1. ~Passed(g, s, w + 1) /\ ~Now(g, s, w + 1)
      BY <1>1 DEF Passed, Now
    <3> QED BY <2>1, <3>1 DEF Turn
  <2>3. ~Alone(p) => InReach(g, s, Due(s, p)) /\ Turn(g, s, p)
    BY <2>1 DEF Turn
  <2> QED BY <1>5, <2>2, <2>3 DEF Found
<1>6. ASSUME NEW p
      PROVE  p \in ToSet(paths) /\ Complete(g, p) <=> p \in Applications(Config.tables[g], s, EndPos)
  <2>1. p \in ToSet(paths) <=> p \in Paths /\ Partial(g, s, p) /\ RuleEnd(p) = EndPos /\ ~Alone(p)
    <3>1. p \in ToSet(paths) <=> p \in Paths /\ Found(g, s, p) /\ RuleEnd(p) = EndPos
      BY <1>1, <1>3 DEF FoundFrom
    <3>2. Found(g, s, p) => Partial(g, s, p)
      BY DEF Found
    <3> QED BY <1>5, <3>1, <3>2
  <2> QED BY <1>1, <2>1, ApplicationsAre
<1> QED BY <1>3, <1>4, <1>6

\* When a table has been searched, its complete dotted rules that end with the
\* span are exactly the applications of its rules to the span, each once
\* (GetChartRuleCollection's loop over m_expandableDottedRuleList, which grows
\* while it is traversed).
THEOREM ApplicationsFound == Spec => []AllApplicationsFound
<1>1. ParserInv => AllApplicationsFound
  <2> SUFFICES ASSUME ParserInv, pc = "complete" PROVE AllApplicationsFound
    BY DEF AllApplicationsFound
  <2> DEFINE paths == Coll.coll[span.width]
             A == Applications(Table, span.start, EndPos)
             found == {i \in DOMAIN paths : TargetPhrases(Table, Node(paths[i])) # {}}
  <2>1. Control /\ DottedOk /\ graph \in Graphs /\ SpanOk /\ InRange
    BY DEF ParserInv, Control
  <2>2. InReach(graph, span.start, span.width) /\ Passed(graph, span.start, span.width)
    BY <2>1 DEF InReach, Passed, InRange, Table, SpanOk
  <2>3. /\ paths \in Seq(Paths) /\ Distinct(paths)
        /\ \A p : p \in ToSet(paths) /\ Complete(graph, p) <=> p \in A
    BY <2>1, <2>2, Lookup DEF Coll, Table
  <2> HIDE DEF A, paths
  <2>4. \A i \in DOMAIN paths : i \in found <=> Complete(graph, paths[i])
    BY DEF Complete, Table
  <2>5. found \subseteq DOMAIN paths
    OBVIOUS
  <2> HIDE DEF found
  <2>6. {paths[i] : i \in found} = A
    BY <2>3, <2>4, <2>5 DEF ToSet
  <2>7. \A i, j \in found : paths[i] = paths[j] => i = j
    BY <2>3, <2>5 DEF Distinct
  <2> QED BY <2>6, <2>7 DEF AllApplicationsFound, A, paths, found
<1> QED BY <1>1, ParserInvariant, PTL

-----------------------------------------------------------------------------
(* The list keeps the best of what is offered                                *)

\* With the clauses in order, a rule is added once where its table is meant to be
\* used, and nowhere else.
LEMMA AddedWhereMeant ==
    ASSUME Control, InRange, Config.clauseOption => InnerFirst
    PROVE  TimesAdded = IF graph \in MeantHere THEN 1 ELSE 0
<1> DEFINE s == span.start
           e == EndPos
<1>1. /\ setup \in DOMAIN Setups /\ graph \in Graphs /\ s \in Nat /\ e \in Nat /\ s <= e
      /\ e - s + 1 = span.width /\ span.width \in Nat
  BY SpanFacts DEF Control
<1>2. Table \in Tables
  BY <1>1, ConfigFacts DEF Table
<1>3. Table.kind \in {"Memory", "MinSpan"} /\ Table.minSpan \in Nat
  BY <1>2 DEF Tables
<1>4. Table.maxSpan = 0 \/ e - s + 1 <= Table.maxSpan
  BY <1>1 DEF InRange
<1>5. graph \in MeantHere <=> MeantFor(Table, s, e)
  BY <1>1 DEF MeantHere, Table
<1>6. CASE ~(Table.kind = "MinSpan" /\ span.width > Table.minSpan /\ Config.clauseOption)
  <2>1. MeantFor(Table, s, e) <=>
           (Table.kind = "MinSpan" => span.width > Table.minSpan)
    <3> HIDE DEF s, e
    <3>1. CASE Table.kind # "MinSpan"
      BY <1>4, <3>1 DEF MeantFor
    <3>2. CASE Table.kind = "MinSpan" /\ ~(span.width > Table.minSpan)
      <4>1. ~(e - s + 1 > Table.minSpan)
        BY <1>1, <3>2
      <4> QED BY <3>2, <4>1 DEF MeantFor
    <3>3. CASE span.width > Table.minSpan /\ ~Config.clauseOption
      <4>1. e - s + 1 > Table.minSpan
        BY <1>1, <3>3
      <4> QED BY <1>4, <3>3, <4>1 DEF MeantFor
    <3> QED BY <1>6, <3>1, <3>2, <3>3
  <2>2. span.width > Table.minSpan <=> ~(span.width <= Table.minSpan)
    BY <1>1, <1>3
  <2> QED BY <1>3, <1>5, <1>6, <2>1, <2>2 DEF TimesAdded
<1>7. CASE Table.kind = "MinSpan" /\ span.width > Table.minSpan /\ Config.clauseOption
  <2> DEFINE D == DOMAIN Clauses
  <2>1. TimesAdded = Cardinality(AdmittedAt)
    <3>1. ~(span.width <= Table.minSpan)
      BY <1>1, <1>3, <1>7
    <3> QED BY <1>7, <3>1 DEF TimesAdded
  <2>2. MeantFor(Table, s, e) <=> /\ \E i \in D : Clauses[i][2] = e
                                  /\ \A i \in D : ~Crosses(s, e, Clauses[i])
    BY <1>1, <1>4, <1>7 DEF MeantFor
  <2>3. /\ D = 1 .. Len(Clauses) /\ Len(Clauses) \in Nat
        /\ \A i \in D : Clauses[i][1] \in Nat /\ Clauses[i][2] \in Nat
    <3>1. Clauses \in Seq(Nat \X Nat)
      BY <1>1, ConfigFacts
    <3> QED BY <3>1
  <2>4. /\ \A i \in D : Clauses[i][1] < Clauses[i][2]
        /\ \A i, j \in D : i < j =>
              /\ Clauses[i][2] # Clauses[j][2]
              /\ Nested(Clauses[i], Clauses[j]) \/ Disjoint(Clauses[i], Clauses[j])
    BY <1>7 DEF InnerFirst
  <2> HIDE DEF D
  <2>5. ASSUME NEW i \in D, NEW j \in D, Clauses[i][2] = e, Clauses[j][2] = e PROVE i = j
    BY <2>3, <2>4, <2>5
  <2>6. ASSUME NEW i \in D, NEW j \in D, i < j, Clauses[i][2] = e,
               ~Crosses(s, e, Clauses[i])
        PROVE  ~Crosses(s, e, Clauses[j])
    <3>1. /\ Clauses[i][1] \in Nat /\ Clauses[j][1] \in Nat /\ Clauses[j][2] \in Nat
          /\ Clauses[i][1] < e /\ Clauses[j][1] < Clauses[j][2]
      BY <2>3, <2>4, <2>6
    <3>2. s >= Clauses[i][1] + 1
      BY <1>1, <2>6, <3>1 DEF Crosses, IsInside
    <3>3. CASE Nested(Clauses[i], Clauses[j])
      BY <1>1, <2>6, <3>1, <3>2, <3>3 DEF Crosses, IsInside, Nested
    <3>4. CASE Disjoint(Clauses[i], Clauses[j])
      BY <1>1, <2>6, <3>1, <3>2, <3>4 DEF Crosses, IsInside, Disjoint
    <3> QED BY <2>4, <2>6, <3>3, <3>4
  <2>7. ASSUME NEW i \in AdmittedAt
        PROVE  i \in D /\ Clauses[i][2] = e /\ \A j \in D : ~Crosses(s, e, Clauses[j])
    <3>1. i \in D /\ Clauses[i][2] = e /\ \A j \in 1 .. i : ~Crosses(s, e, Clauses[j])
      BY <2>7 DEF AdmittedAt, D
    <3>2. ASSUME NEW j \in D PROVE ~Crosses(s, e, Clauses[j])
      <4>1. i \in 1 .. i /\ (j \in 1 .. i \/ i < j)
        BY <2>3, <3>1
      <4> QED BY <2>6, <3>1, <4>1
    <3> QED BY <3>1, <3>2
  <2>8. CASE MeantFor(Table, s, e)
    <3>1. PICK i \in D : Clauses[i][2] = e
      BY <2>2, <2>8
    <3>2. i \in AdmittedAt
      <4>1. \A j \in 1 .. i : j \in D
        BY <2>3, <3>1
      <4> QED BY <2>2, <2>8, <3>1, <4>1 DEF AdmittedAt, D
    <3>3. AdmittedAt = {i}
      BY <2>5, <2>7, <3>1, <3>2
    <3>4. Cardinality({i}) = 1
      BY FS_Singleton
    <3> QED BY <1>5, <2>1, <2>8, <3>3, <3>4
  <2>9. CASE ~MeantFor(Table, s, e)
    <3>1. AdmittedAt = {}
      BY <2>2, <2>7, <2>9
    <3> QED BY <1>5, <2>1, <2>9, <3>1, FS_EmptySet
  <2> QED BY <2>8, <2>9
<1> QED BY <1>6, <1>7

\* What is offered are options, each for one application.
LEMMA OfferedFacts ==
    ASSUME Control, DottedOk
    PROVE  /\ Offered \subseteq Offers /\ \A o \in Offered : o.score \in Int
           /\ \A g \in Graphs : \A p \in SeenFrom(g) : p \in Paths /\ Complete(g, p)
           /\ \A o : o \in Offered <=> \E g \in MeantHere : \E p \in SeenFrom(g) : o = OptionAt(g, p)
<1>1. setup \in DOMAIN Setups /\ SpanOk /\ span.start \in Starts
  BY DEF Control, SpanOk
<1>2. ASSUME NEW g \in Graphs, NEW p \in SeenFrom(g) PROVE p \in Paths /\ Complete(g, p)
  <2> DEFINE paths == dotted[g][span.start].coll[span.width]
  <2>1. dotted[g][span.start].coll \in [0 .. (Size - span.start) -> Seq(Paths)]
    BY <1>1 DEF DottedOk, Holds
  <2>2. paths \in Seq(Paths)
    <3>1. span.width \in 0 .. (Size - span.start)
      BY <1>1, SpanFacts
    <3> HIDE DEF Paths
    <3> QED BY <2>1, <3>1
  <2>3. PICK j \in DOMAIN paths : p = paths[j] /\ Complete(g, paths[j])
    BY <1>2 DEF SeenFrom
  <2> HIDE DEF paths, Paths
  <2> QED BY <2>2, <2>3
<1>3. ASSUME NEW o
      PROVE  o \in Offered <=> \E g \in MeantHere : \E p \in SeenFrom(g) : o = OptionAt(g, p)
  <2> HIDE DEF OptionAt, SeenFrom, MeantHere
  <2> QED BY DEF Offered
<1>4. Offered \subseteq Offers
  <2> SUFFICES ASSUME NEW g \in MeantHere, NEW p \in SeenFrom(g) PROVE OptionAt(g, p) \in Offers
    BY <1>3
  <2>1. g \in Graphs
    BY DEF MeantHere
  <2> QED BY <1>1, <1>2, <2>1, OptionFacts DEF Complete
<1> QED BY <1>2, <1>3, <1>4, OffersScored

\* A step that offers nothing.
LEMMA SameOffered ==
    ASSUME setup' = setup, span' = span
    PROVE  /\ MeantHere' = MeantHere
           /\ (\A g \in MeantHere : SeenFrom(g)' = SeenFrom(g)) => Offered' = Offered
           /\ \A g, p : OptionAt(g, p)' = OptionAt(g, p) /\ (Complete(g, p)' <=> Complete(g, p))
<1>1. EndPos' = EndPos /\ span.start' = span.start
  BY DEF EndPos
<1>2. MeantHere' = MeantHere
  BY <1>1, SameConfig DEF MeantHere, MeantFor
<1>3. ASSUME NEW g, NEW p
      PROVE  OptionAt(g, p)' = OptionAt(g, p) /\ (Complete(g, p)' <=> Complete(g, p))
  BY SameConfig DEF OptionAt, Complete, ScoreOf
<1>4. ASSUME \A g \in MeantHere : SeenFrom(g)' = SeenFrom(g)
      PROVE  Offered' = Offered
  BY <1>2, <1>3, <1>4 DEF Offered
<1> QED BY <1>2, <1>3, <1>4

\* The options offered before a span's first lookup: none.
LEMMA NothingOffered ==
    ASSUME NEW limit \in Nat \ {0} PROVE Kept({}, Clear, limit)
<1>1. ListOk({}, Clear, limit) /\ Clear.options = <<>> /\ Len(Clear.options) = 0
  BY ClearOk
<1>2. Distinct(<<>>)
  BY DEF Distinct
<1>3. Clear.options \in Seq({})
  BY <1>1
<1>4. Count(Clear.options, Clear.threshold) \in Nat
  BY <1>3, CountFacts
<1>5. Lower(limit, 0) = 0
  BY DEF Lower
<1> QED BY <1>1, <1>2, <1>4, <1>5 DEF Kept

\* The list under a new offer of the table in turn.
LEMMA CollectKept ==
    ASSUME Control, DottedOk, ListInv, KeptInv, Config.clauseOption => InnerFirst, CollectRule
    PROVE  Kept(Offered', list', Config.ruleLimit)
<1> DEFINE limit == Config.ruleLimit
           paths == Coll.coll[span.width]
           path == paths[ind]
           option == OptionAt(graph, path)
<1>1. /\ setup' = setup /\ labels' = labels /\ span' = span /\ graph' = graph /\ dotted' = dotted
      /\ pc = "complete" /\ pc' = "complete" /\ ind' = ind + 1 /\ ind <= Len(paths)
      /\ list' = IF TargetPhrases(Table, Node(path)) = {} THEN list
                 ELSE AddTimes(OptionOf(path), TimesAdded)
  BY DEF CollectRule
<1>2. /\ setup \in DOMAIN Setups /\ graph \in Graphs /\ InRange /\ ind \in Nat \ {0}
      /\ limit \in Nat \ {0}
  BY <1>1, ConfigFacts DEF Control
<1>0. PICK here \in Graphs : here = graph
  BY <1>2
<1>3. /\ path \in Paths /\ ind \in DOMAIN paths /\ OptionOf(path) = option
      /\ Complete(graph, path) => option \in Offers
  BY <1>1, TurnOption DEF Complete, Table
<1>4. paths \in Seq(Paths) /\ Distinct(paths) /\ paths = dotted[graph][span.start].coll[span.width]
  <2>1. InReach(graph, span.start, span.width) /\ Passed(graph, span.start, span.width)
    BY <1>1, <1>2 DEF InReach, Passed, InRange, Table, Control, SpanOk
  <2> QED BY <1>1, <1>2, <2>1, Lookup DEF Coll
<1>5. DOMAIN paths \subseteq Nat
  <2> HIDE DEF Paths, paths
  <2> QED BY <1>4
<1>6. ASSUME NEW g \in Graphs, g # here PROVE SeenFrom(g)' = SeenFrom(g)
  BY <1>0, <1>1, <1>6 DEF SeenFrom, Complete, SameOffered, Config
<1>7. /\ SeenFrom(here) = {paths[i] : i \in {j \in DOMAIN paths : Complete(here, paths[j]) /\ j < ind}}
      /\ SeenFrom(here)' = {paths[i] : i \in {j \in DOMAIN paths : Complete(here, paths[j]) /\ j < ind + 1}}
  <2>1. ~(graph < graph)
    BY <1>2 DEF Graphs
  <2>2. \A p : Complete(graph, p)' <=> Complete(graph, p)
    BY <1>1, SameOffered DEF Complete, Config
  <2> QED BY <1>0, <1>1, <1>4, <2>1, <2>2 DEF SeenFrom
<1> HIDE DEF paths, path
<1>8. SeenFrom(here)' = IF Complete(here, path) THEN SeenFrom(here) \cup {path} ELSE SeenFrom(here)
  <2>1. \A j \in DOMAIN paths : j < ind + 1 <=> j < ind \/ j = ind
    BY <1>2, <1>5
  <2> QED BY <1>3, <1>7, <2>1 DEF path
<1>9. path \notin SeenFrom(here)
  <2> SUFFICES ASSUME NEW j \in DOMAIN paths, j < ind, paths[j] = path PROVE FALSE
    BY <1>7
  <2>1. j = ind
    BY <1>3, <1>4 DEF Distinct, path
  <2> QED BY <1>2, <2>1
<1>10. Kept(Offered, list, limit)
  BY <1>1 DEF KeptInv
<1>11. ASSUME ~Complete(graph, path) \/ graph \notin MeantHere PROVE Offered' = Offered
  <2>1. \A g \in MeantHere : g \in Graphs
    BY DEF MeantHere
  <2>2. \A g \in MeantHere : SeenFrom(g)' = SeenFrom(g)
    BY <1>0, <1>6, <1>8, <1>11, <2>1
  <2> QED BY <1>1, <2>2, SameOffered
<1>12. ASSUME Complete(graph, path)
       PROVE  list' = IF graph \in MeantHere THEN Add(list, option, limit) ELSE list
  <2>1. list' = AddTimes(option, IF graph \in MeantHere THEN 1 ELSE 0)
    <3>1. TimesAdded = IF graph \in MeantHere THEN 1 ELSE 0
      BY <1>2, AddedWhereMeant
    <3> QED BY <1>1, <1>3, <1>12, <3>1 DEF Complete, Table, paths, path
  <2>2. option \in Offers /\ ListOk(Offers, list, limit)
    BY <1>3, <1>12 DEF ListInv
  <2> HIDE DEF option
  <2>3. AddTimes(option, 0) = list /\ AddTimes(option, 1) = Add(list, option, limit)
    BY <1>2, <2>2, OffersScored, AddTimesFacts
  <2> QED BY <2>1, <2>3
<1>13. CASE Complete(graph, path) /\ graph \in MeantHere
  <2>1. \A o : o \in Offered <=> \E g \in MeantHere : \E p \in SeenFrom(g) : o = OptionAt(g, p)
    BY OfferedFacts
  <2>2. MeantHere' = MeantHere /\ MeantHere \subseteq Graphs
    BY <1>1, SameOffered DEF MeantHere
  <2>3. Offered' = UNION {{OptionAt(g, p) : p \in SeenFrom(g)'} : g \in MeantHere}
    <3>1. \A g, p : OptionAt(g, p)' = OptionAt(g, p)
      BY <1>1, SameOffered
    <3> QED BY <2>2, <3>1 DEF Offered
  <2>4. \A o : o \in Offered' <=> \E g \in MeantHere : \E p \in SeenFrom(g)' : o = OptionAt(g, p)
    BY <2>3
  <2>5. Offered' = Offered \cup {option}
    <3>1. \A g \in MeantHere : g # here => SeenFrom(g)' = SeenFrom(g)
      BY <1>6, <2>2
    <3>2. SeenFrom(here)' = SeenFrom(here) \cup {path}
      BY <1>0, <1>8, <1>13
    <3> HIDE DEF option
    <3>3. \A o : o \in Offered' <=> o \in Offered \/ o = OptionAt(here, path)
      BY <1>0, <1>13, <2>1, <2>4, <3>1, <3>2
    <3> QED BY <1>0, <3>3 DEF option
  <2>6. option \notin Offered
    <3> SUFFICES ASSUME NEW g \in MeantHere, NEW p \in SeenFrom(g), option = OptionAt(g, p) PROVE FALSE
      BY <2>1
    <3>1. p = path /\ g = graph
      BY DEF OptionAt
    <3> QED BY <1>0, <1>9, <3>1
  <2>7. \A o \in Offered \cup {option} : o.score \in Int
    BY <1>3, <1>13, OfferedFacts, OffersScored
  <2> HIDE DEF option
  <2>8. Kept(Offered \cup {option}, Add(list, option, limit), limit)
    BY <1>2, <1>10, <2>6, <2>7, AddKept
  <2> QED BY <1>12, <1>13, <2>5, <2>8
<1>14. CASE ~Complete(graph, path)
  <2>1. list' = list
    BY <1>1, <1>14 DEF Complete, Table, path, paths
  <2> QED BY <1>10, <1>11, <1>14, <2>1
<1>15. CASE Complete(graph, path) /\ graph \notin MeantHere
  BY <1>10, <1>11, <1>12, <1>15
<1> QED BY <1>13, <1>14, <1>15

\* Every step but CollectRule and FillCell leaves what is offered as it is.
LEMMA StillOffered ==
    ASSUME Control, DottedOk, ExtendDottedRule \/ AllExtended \/ ShrinkList \/ SkipGraph
    PROVE  Offered' = Offered
<1>1. /\ setup' = setup /\ span' = span /\ labels' = labels
      /\ pc \in {"extend", "complete"} /\ pc' \in {"extend", "complete", "fill"}
  BY DEF ExtendDottedRule, AllExtended, ShrinkList, SkipGraph, NextGraph
<1>2. /\ graph \in Nat /\ graph \in Graphs /\ MeantHere \subseteq Graphs
      /\ setup \in DOMAIN Setups /\ Len(Config.tables) \in Nat /\ SpanOk
  BY ConfigFacts DEF Control, Graphs, MeantHere
<1>3. \A g, p : Complete(g, p)' <=> Complete(g, p)
  BY <1>1, SameOffered
<1> SUFFICES ASSUME NEW g \in MeantHere PROVE SeenFrom(g)' = SeenFrom(g)
  BY <1>1, SameOffered
<1>4. g \in Graphs /\ g \in Nat /\ g <= Len(Config.tables)
  BY <1>2 DEF Graphs
<1> DEFINE paths == dotted[g][span.start].coll[span.width]
<1>5. CASE ExtendDottedRule
  <2>1. pc = "extend" /\ pc' = "extend" /\ graph' = graph
    BY <1>5 DEF ExtendDottedRule
  <2>2. CASE g < graph
    <3>1. dotted'[g] = dotted[g]
      <4>1. dotted' = [dotted EXCEPT ![graph][span.start] =
                          ExtendWith(@, Coll.expandable[ind])]
        BY <1>5 DEF ExtendDottedRule
      <4>2. g \in DOMAIN dotted
        BY <1>4 DEF DottedOk
      <4>3. g # graph
        BY <1>2, <1>4, <2>2
      <4> QED BY <4>1, <4>2, <4>3
    <3>2. dotted'[g][span'.start].coll[span'.width] = paths
      BY <1>1, <3>1
    <3> HIDE DEF paths
    <3>3. SeenFrom(g) = {paths[k] : k \in {j \in DOMAIN paths : Complete(g, paths[j])}}
      BY <2>2 DEF SeenFrom, paths
    <3>4. SeenFrom(g)' = {paths[k] : k \in {j \in DOMAIN paths : Complete(g, paths[j])}}
      BY <1>3, <2>1, <2>2, <3>2 DEF SeenFrom
    <3> QED BY <3>3, <3>4
  <2>3. CASE ~(g < graph)
    <3>1. SeenFrom(g)' = {}
      BY <2>1, <2>3 DEF SeenFrom
    <3>2. SeenFrom(g) = {}
      BY <2>1, <2>3 DEF SeenFrom
    <3> QED BY <3>1, <3>2
  <2> QED BY <2>2, <2>3
<1>6. CASE AllExtended \/ ShrinkList \/ SkipGraph
  <2>1. dotted' = dotted
    BY <1>6 DEF AllExtended, ShrinkList, SkipGraph
  <2> DEFINE Pick(j) == pc = "fill" \/ g < graph \/ (pc = "complete" /\ g = graph /\ j < ind)
             PickNext(j) == pc' = "fill" \/ g < graph' \/ (pc' = "complete" /\ g = graph' /\ j < ind')
  <2>2. DOMAIN paths \subseteq Nat \ {0}
    <3>1. paths \in Seq(Paths)
      <4>1. span.start \in Starts /\ span.width \in 0 .. (Size - span.start)
        BY <1>2, SpanFacts DEF SpanOk
      <4>2. dotted[g][span.start].coll \in [0 .. (Size - span.start) -> Seq(Paths)]
        BY <1>4, <4>1 DEF DottedOk, Holds
      <4> HIDE DEF Paths
      <4> QED BY <4>1, <4>2
    <3> HIDE DEF Paths, paths
    <3> QED BY <3>1
  <2>3. SeenFrom(g) = {paths[k] : k \in {j \in DOMAIN paths : Complete(g, paths[j]) /\ Pick(j)}}
    BY DEF SeenFrom
  <2>4. SeenFrom(g)' = {paths[k] : k \in {j \in DOMAIN paths : Complete(g, paths[j]) /\ PickNext(j)}}
    BY <1>1, <1>3, <2>1 DEF SeenFrom
  <2>5. ASSUME NEW j \in DOMAIN paths PROVE Pick(j) <=> PickNext(j)
    <3>1. j \in Nat /\ j # 0
      BY <2>2
    <3>2. CASE AllExtended
      <4>1. pc = "extend" /\ pc' = "complete" /\ graph' = graph /\ ind' = 1
        BY <3>2 DEF AllExtended
      <4> QED BY <3>1, <4>1
    <3>3. CASE ShrinkList
      <4>1. pc = "complete" /\ ind > Len(Coll.coll[span.width]) /\ NextGraph
        BY <3>3 DEF ShrinkList
      <4>2. g = graph => j < ind
        <5>1. g = graph => Coll.coll[span.width] = paths
          BY DEF Coll
        <5>2. paths = Coll.coll[span.width] /\ Coll.coll[span.width] \in Seq(Paths) => j <= Len(paths)
          <6> HIDE DEF Paths, paths
          <6> QED OBVIOUS
        <5>3. Coll.coll[span.width] \in Seq(Paths)
          BY CollFacts
        <5>4. ind \in Nat /\ Len(Coll.coll[span.width]) \in Nat
          <6> HIDE DEF Paths
          <6> QED BY <5>3 DEF Control
        <5> QED BY <3>1, <4>1, <5>1, <5>2, <5>3, <5>4
      <4>3. PickNext(j) <=> g < graph \/ g = graph
        <5>1. g < graph' \/ pc' = "fill" <=> g < graph \/ g = graph
          BY <1>2, <1>4, <4>1 DEF NextGraph
        <5>2. pc' # "complete"
          BY <4>1 DEF NextGraph
        <5> QED BY <5>1, <5>2
      <4> QED BY <4>1, <4>2, <4>3
    <3>4. CASE SkipGraph
      <4>1. pc = "extend" /\ ~InRange /\ NextGraph
        BY <3>4 DEF SkipGraph
      <4>2. g # graph
        <5>1. MeantFor(Config.tables[g], span.start, EndPos)
          BY DEF MeantHere
        <5>2. EndPos - span.start + 1 = span.width
          BY <1>2, SpanFacts
        <5> QED BY <4>1, <5>1, <5>2 DEF MeantFor, InRange, Table
      <4>3. g < graph' \/ pc' = "fill" <=> g < graph
        BY <1>2, <1>4, <4>1, <4>2 DEF NextGraph
      <4>4. pc' # "complete"
        BY <4>1 DEF NextGraph
      <4> QED BY <4>1, <4>3, <4>4
    <3> QED BY <1>6, <3>2, <3>3, <3>4
  <2> HIDE DEF paths, Pick, PickNext
  <2> QED BY <2>3, <2>4, <2>5
<1> QED BY <1>5, <1>6

LEMMA KeptStep ==
    ASSUME ParserInv, KeptInv, [Next]_vars
    PROVE  KeptInv'
<1> DEFINE limit == Config.ruleLimit
<1>1. /\ Control /\ DottedOk /\ ListInv /\ setup \in DOMAIN Setups /\ limit \in Nat \ {0}
  BY ConfigFacts DEF ParserInv, Control
<1>2. setup' = setup
  BY DEF Next, ExtendDottedRule, AllExtended, CollectRule, ShrinkList, SkipGraph, FillCell, Done, vars
<1>3. limit' = limit /\ (Config.clauseOption' <=> Config.clauseOption) /\ (InnerFirst' <=> InnerFirst)
  BY <1>2, SameConfig DEF InnerFirst
<1> SUFFICES ASSUME Config.clauseOption => InnerFirst, pc' # "done"
             PROVE  Kept(Offered', list', limit)
  BY <1>3 DEF KeptInv
<1>4. pc # "done" => Kept(Offered, list, limit)
  BY DEF KeptInv
<1>5. CASE ExtendDottedRule \/ AllExtended \/ SkipGraph
  <2>1. list' = list /\ pc # "done"
    BY <1>5 DEF ExtendDottedRule, AllExtended, SkipGraph
  <2> QED BY <1>1, <1>4, <1>5, <2>1, StillOffered
<1>6. CASE ShrinkList
  <2>1. list' = ShrinkToLimit(list, limit) /\ pc # "done"
    BY <1>6 DEF ShrinkList
  <2>2. \A o \in Offered : o.score \in Int
    BY <1>1, OfferedFacts
  <2>3. Kept(Offered, ShrinkToLimit(list, limit), limit)
    BY <1>1, <1>4, <2>1, <2>2, ShrinkKept
  <2> QED BY <1>1, <1>6, <2>1, <2>3, StillOffered
<1>7. CASE CollectRule
  BY <1>1, <1>7, CollectKept
<1>8. CASE FillCell
  <2>1. list' = Clear /\ graph' = 1 /\ pc' = "extend"
    <3>1. pc' \in {"extend", "done"} /\ graph' = 1
      BY <1>1, <1>8, NextSpan
    <3> QED BY <1>8, <3>1 DEF FillCell
  <2>2. \A g \in Graphs : SeenFrom(g)' = {}
    <3> SUFFICES ASSUME NEW g \in Graphs PROVE SeenFrom(g)' = {}
      OBVIOUS
    <3>1. ~(g < graph')
      BY <2>1 DEF Graphs
    <3> QED BY <2>1, <3>1 DEF SeenFrom
  <2>3. MeantHere' \subseteq Graphs
    BY <1>2, SameConfig DEF MeantHere
  <2>4. Offered' = {}
    BY <2>2, <2>3 DEF Offered
  <2> QED BY <1>1, <2>1, <2>4, NothingOffered
<1>9. CASE UNCHANGED vars
  <2>1. /\ span' = span /\ list' = list /\ pc' = pc /\ graph' = graph /\ ind' = ind /\ dotted' = dotted
    BY <1>9 DEF vars
  <2>2. \A g \in MeantHere : SeenFrom(g)' = SeenFrom(g)
    BY <1>2, <2>1, SameOffered DEF SeenFrom
  <2> QED BY <1>2, <1>4, <2>1, <2>2, SameOffered
<1> QED BY <1>5, <1>6, <1>7, <1>8, <1>9 DEF Next, Done

LEMMA KeptInit ==
    Init => KeptInv
<1> SUFFICES ASSUME Init PROVE KeptInv
  OBVIOUS
<1>1. setup \in DOMAIN Setups /\ pc = "extend" /\ graph = 1 /\ list = Clear
  BY DEF Init
<1>2. Config.ruleLimit \in Nat \ {0}
  BY <1>1, ConfigFacts
<1>3. \A g \in Graphs : SeenFrom(g) = {}
  <2> SUFFICES ASSUME NEW g \in Graphs PROVE SeenFrom(g) = {}
    OBVIOUS
  <2>1. ~(g < graph)
    BY <1>1 DEF Graphs
  <2> QED BY <1>1, <2>1 DEF SeenFrom
<1>4. Offered = {}
  <2>1. MeantHere \subseteq Graphs
    BY DEF MeantHere
  <2> QED BY <1>3, <2>1 DEF Offered
<1> QED BY <1>1, <1>2, <1>4, NothingOffered DEF KeptInv

\* What is meant to be offered, when all tables have been searched.
LEMMA AllOffered ==
    ASSUME Control, DottedOk, pc = "fill"
    PROVE  /\ IsFiniteSet(Meant)
           /\ \A m \in Meant : m = <<m[1], m[2]>> /\ OptionAt(m[1], m[2]) \in Offered
           /\ \A o \in Offered : <<o.graph, o.path>> \in Meant /\ o = OptionAt(o.graph, o.path)
<1> DEFINE A(g) == Applications(Config.tables[g], span.start, EndPos)
           pairs(g) == {<<g, p>> : p \in A(g)}
<1>1. setup \in DOMAIN Setups /\ SpanOk /\ graph \in Graphs
  BY DEF Control
<1>2. ASSUME NEW g \in MeantHere PROVE SeenFrom(g) = A(g) /\ IsFiniteSet(A(g))
  <2> DEFINE paths == dotted[g][span.start].coll[span.width]
             C == {i \in DOMAIN paths : Complete(g, paths[i])}
             f == [i \in C |-> paths[i]]
  <2>1. InReach(g, span.start, span.width) /\ Passed(g, span.start, span.width) /\ g \in Graphs
    <3>1. MeantFor(Config.tables[g], span.start, EndPos) /\ g \in Graphs
      BY DEF MeantHere
    <3>2. EndPos - span.start + 1 = span.width /\ span.start + span.width <= Size
      BY <1>1, SpanFacts
    <3> QED BY <3>1, <3>2 DEF MeantFor, InReach, Passed
  <2>2. /\ paths \in Seq(Paths)
        /\ \A p : p \in ToSet(paths) /\ Complete(g, p) <=> p \in A(g)
    BY <2>1, Lookup
  <2>3. SeenFrom(g) = {paths[i] : i \in C}
    BY DEF SeenFrom
  <2>4. IsFiniteSet(C)
    <3>1. IsFiniteSet(DOMAIN paths)
      <4> HIDE DEF Paths, paths
      <4> QED BY <2>2, UpTo
    <3> HIDE DEF paths
    <3> QED BY <3>1, PartOfFinite
  <2> HIDE DEF A
  <2>5. SeenFrom(g) = A(g)
    <3> HIDE DEF paths
    <3> QED BY <2>2, <2>3 DEF ToSet
  <2>6. f \in Surjection(C, A(g))
    <3> HIDE DEF C, paths
    <3> QED BY <2>3, <2>5 DEF Surjection
  <2>7. IsFiniteSet(A(g))
    <3> HIDE DEF C, f
    <3> QED BY <2>4, <2>6, FS_Surjection, Zenon
  <2> QED BY <2>5, <2>7
<1>3. Meant = UNION {pairs(g) : g \in MeantHere}
  BY DEF Meant, MeantHere
<1> HIDE DEF A
<1>4. ASSUME NEW g \in MeantHere PROVE IsFiniteSet(pairs(g))
  <2> DEFINE f == [p \in A(g) |-> <<g, p>>]
  <2>1. f \in Surjection(A(g), pairs(g))
    BY DEF Surjection
  <2> HIDE DEF f, pairs
  <2> QED BY <1>2, <2>1, FS_Surjection, Zenon
<1>5. IsFiniteSet(Meant)
  <2> DEFINE all == {pairs(g) : g \in MeantHere}
             f == [g \in MeantHere |-> pairs(g)]
  <2>1. f \in Surjection(MeantHere, all)
    <3> HIDE DEF pairs
    <3> QED BY DEF Surjection
  <2>2. IsFiniteSet(MeantHere)
    <3>1. IsFiniteSet(Graphs)
      BY <1>1, ConfigFacts, UpTo DEF Graphs
    <3> QED BY <3>1, PartOfFinite DEF MeantHere
  <2>3. \A S \in all : IsFiniteSet(S)
    BY <1>4
  <2> HIDE DEF f, all
  <2>4. IsFiniteSet(all)
    BY <2>1, <2>2, FS_Surjection, Zenon
  <2>5. IsFiniteSet(UNION all)
    BY <2>3, <2>4, FS_UNION
  <2> QED BY <1>3, <2>5 DEF all
<1>6. \A m : m \in Meant <=> \E g \in MeantHere : \E p \in A(g) : m = <<g, p>>
  BY <1>3
<1>7. \A o : o \in Offered <=> \E g \in MeantHere : \E p \in A(g) : o = OptionAt(g, p)
  BY <1>2, OfferedFacts
<1>8. \A g, p : OptionAt(g, p).graph = g /\ OptionAt(g, p).path = p
  BY DEF OptionAt
<1>9. \A m \in Meant : m = <<m[1], m[2]>> /\ OptionAt(m[1], m[2]) \in Offered
  <2> HIDE DEF OptionAt
  <2> SUFFICES ASSUME NEW g \in MeantHere, NEW p \in A(g)
               PROVE  LET m == <<g, p>> IN m = <<m[1], m[2]>> /\ OptionAt(m[1], m[2]) \in Offered
    BY <1>6
  <2> QED BY <1>7
<1>10. \A o \in Offered : <<o.graph, o.path>> \in Meant /\ o = OptionAt(o.graph, o.path)
  <2> HIDE DEF OptionAt
  <2> QED BY <1>6, <1>7, <1>8
<1> QED BY <1>5, <1>9, <1>10

\* When every table has been searched, the list holds the best applications the
\* tables are meant to offer, each once and as many as the limit allows: neither
\* a burst of the list nor the order of the tables loses one, and with clauses the
\* loop of ChartRuleLookupManagerMinSpan adds none twice
\* (ChartTranslationOptionList::Add, ShrinkToLimit).
THEOREM BestKept == Spec => []BestRulesKept
<1> DEFINE Inv == ParserInv /\ KeptInv
<1>1. Init => Inv
  BY ParserInvInit, KeptInit
<1>2. Inv /\ [Next]_vars => Inv'
  BY ParserInvStep, KeptStep
<1>3. Inv => BestRulesKept
  <2> SUFFICES ASSUME Inv, pc = "fill", Config.clauseOption => InnerFirst PROVE BestRulesKept
    BY DEF BestRulesKept
  <2> DEFINE options == list.options
             limit == Config.ruleLimit
             kept == {<<o.graph, o.path>> : o \in ToSet(options)}
             n == Len(options)
             at == [i \in 1 .. n |-> <<options[i].graph, options[i].path>>]
  <2>1. /\ Control /\ DottedOk /\ ListInv /\ limit \in Nat \ {0}
    BY ConfigFacts DEF ParserInv, Control
  <2>2. /\ options \in Seq(Offered) /\ Distinct(options)
        /\ \A o \in Offered \ ToSet(options) : Count(options, o.score) >= limit
    BY DEF KeptInv, Kept, ListOk
  <2>3. n <= limit
    BY <2>1 DEF ListInv
  <2>4. /\ IsFiniteSet(Meant)
        /\ \A m \in Meant : m = <<m[1], m[2]>> /\ OptionAt(m[1], m[2]) \in Offered
        /\ \A o \in Offered : <<o.graph, o.path>> \in Meant /\ o = OptionAt(o.graph, o.path)
    BY <2>1, AllOffered
  <2>5. \A o \in Offered : o.score \in Int
    BY <2>1, OfferedFacts
  <2> HIDE DEF options
  <2>6. /\ n \in Nat /\ DOMAIN options = 1 .. n /\ \A i \in 1 .. n : options[i] \in Offered
    BY <2>2
  <2>7. ToSet(options) = {options[i] : i \in 1 .. n} /\ ToSet(options) \subseteq Offered
    BY <2>6 DEF ToSet
  <2>8. kept \subseteq Meant
    BY <2>4, <2>7
  <2>9. IsFiniteSet(kept) /\ Cardinality(kept) = n
    <3>1. at \in Bijection(1 .. n, kept)
      <4>1. \A i, j \in 1 .. n : at[i] = at[j] => i = j
        <5> SUFFICES ASSUME NEW i \in 1 .. n, NEW j \in 1 .. n, at[i] = at[j] PROVE i = j
          OBVIOUS
        <5>1. options[i].graph = options[j].graph /\ options[i].path = options[j].path
          OBVIOUS
        <5>2. options[i] = options[j]
          BY <2>4, <2>6, <5>1
        <5> QED BY <2>2, <2>6, <5>2 DEF Distinct
      <4>2. kept = {at[i] : i \in 1 .. n}
        BY <2>7
      <4>3. at \in [1 .. n -> kept]
        BY <4>2
      <4> HIDE DEF at, kept
      <4> QED BY <4>1, <4>2, <4>3 DEF Bijection, Injection, IsInjective, Surjection
    <3>2. IsFiniteSet(1 .. n) /\ Cardinality(1 .. n) = n
      BY <2>6, UpTo
    <3> HIDE DEF at, kept, n
    <3> QED BY <3>1, <3>2, FS_Bijection DEF ExistsBijection
  <2>10. ASSUME NEW m \in Meant \ kept
         PROVE  /\ Count(options, ScoreOf(m[1], m[2])) >= limit
                /\ ScoreOf(m[1], m[2]) \in Int
    <3> DEFINE o == OptionAt(m[1], m[2])
    <3>1. o \in Offered /\ m = <<m[1], m[2]>>
      BY <2>4
    <3>2. o.graph = m[1] /\ o.path = m[2] /\ o.score = ScoreOf(m[1], m[2])
      BY DEF OptionAt
    <3> HIDE DEF o
    <3>3. o \notin ToSet(options)
      BY <3>1, <3>2
    <3> QED BY <2>2, <2>5, <3>1, <3>2, <3>3
  <2>11. ASSUME NEW s \in Int, Count(options, s) >= limit
         PROVE  n = limit /\ \A o \in ToSet(options) : s <= o.score
    <3>1. /\ Count(options, s) <= n /\ Count(options, s) \in Nat
          /\ Count(options, s) >= n => \A i \in DOMAIN options : options[i].score >= s
      BY <2>2, CountFacts
    <3>2. n = limit /\ Count(options, s) >= n
      BY <2>1, <2>3, <2>6, <2>11, <3>1
    <3>3. \A i \in 1 .. n : options[i].score >= s /\ options[i].score \in Int
      BY <2>5, <2>6, <3>1, <3>2
    <3> HIDE DEF n
    <3> QED BY <2>7, <2>11, <3>2, <3>3
  <2> HIDE DEF kept, n
  <2>12. n = Lower(limit, Cardinality(Meant))
    <3>1. n <= Cardinality(Meant) /\ Cardinality(Meant) \in Nat
      BY <2>4, <2>8, <2>9, PartOfFinite
    <3>2. CASE kept = Meant
      BY <2>1, <2>3, <2>6, <2>9, <3>1, <3>2 DEF Lower
    <3>3. CASE kept # Meant
      <4>1. PICK m \in Meant : m \notin kept
        BY <2>8, <3>3
      <4>2. n = limit
        BY <2>10, <2>11, <4>1
      <4> QED BY <2>1, <3>1, <4>2 DEF Lower
    <3> QED BY <3>2, <3>3
  <2>13. \A m \in Meant \ kept : \A o \in ToSet(options) : ScoreOf(m[1], m[2]) <= o.score
    BY <2>10, <2>11
  <2> QED BY <2>8, <2>9, <2>12, <2>13 DEF BestRulesKept, kept, n, options
<1> QED BY <1>1, <1>2, <1>3, PTL DEF Spec
=============================================================================
