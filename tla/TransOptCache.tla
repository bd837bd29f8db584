--------------------------- MODULE TransOptCache ---------------------------
(* The persistent translation option cache of StaticData and its users: the  *)
(* decoding threads, each of which builds the options of its sentence span   *)
(* by span (TranslationOptionCollection).  The map is guarded by a mutex;    *)
(* FindTransOptListInCache hands out a pointer to a list that the thread     *)
(* copies after the mutex is released, while ReduceTransOptCache deletes the *)
(* lists of the least recently used entries.                                 *)
(*                                                                           *)
(* A phrase is a name.  What the decode steps produce for a phrase is a      *)
(* constant table of sequences; an option also carries its graph, so that    *)
(* options of different graphs can be told apart.                            *)
EXTENDS Integers, Sequences, FiniteSets, SequencesExt, FiniteSetsExt, Functions

CONSTANT
  Setups   \* configurations by name: [threads, sentences, graphs, table, wide,
           \* backoff, xmlInputType, maxSize, maxTime]; a sentence is a sequence
           \* of spans [phrase, width, marked]

VARIABLES
  setup,   \* which configuration this run uses
  queue,   \* the sentences no thread has taken yet
  work,    \* what each thread is doing
  cache,   \* m_transOptCache: (graph, phrase) -> [list, used]
  heap,    \* every list ever stored: [options, live]
  now      \* what clock() returned last

vars == <<setup, queue, work, cache, heap, now>>

Config == Setups[setup]
Threads == Config.threads
Graphs == 1..Config.graphs

Times == 0..Config.maxTime
\* clock() may or may not have advanced since the last call.
Tick == now' \in {t \in Times : t = now \/ t = now + 1}

-----------------------------------------------------------------------------
(* The loop over graphs and spans, once to create the options and once more  *)
(* for the words that have none; `at' counts the iterations of both.         *)

Rounds(s) == 2 * Config.graphs * Len(s)
SpanAt(s, at) == ((at - 1) % Len(s)) + 1
GraphAt(s, at) == (((at - 1) \div Len(s)) % Config.graphs) + 1
Again(s, at) == at > Config.graphs * Len(s)

\* CreateTranslationOptions skips a back-off graph where its limit is reached or
\* the span has options; ProcessUnknownWord wants single words without any.
Wanted(s, at, coll) ==
  LET span  == s[SpanAt(s, at)]
      limit == Config.backoff[GraphAt(s, at)]
      empty == coll[SpanAt(s, at)] = <<>>
  IN  IF Again(s, at) THEN span.width = 1 /\ empty
      ELSE GraphAt(s, at) = 1 \/ limit = 0 \/ (span.width < limit /\ empty)

\* The next iteration that is not skipped, or one past the last.
NextAt(s, at, coll) ==
  Min({j \in (at + 1)..Rounds(s) : Wanted(s, j, coll)} \cup {Rounds(s) + 1})

\* ProcessInitialTranslation, the further decode steps and CalcScore.
Create(s, at) ==
  LET g == GraphAt(s, at)
      p == s[SpanAt(s, at)].phrase
  IN  IF Again(s, at) THEN Config.wide[g][p] ELSE Config.table[g][p]

XmlOption == "xml"
XmlAt(span) == Config.xmlInputType # "PassThrough" /\ span.marked
SkipsLookup(span) == Config.xmlInputType = "Exclusive" /\ span.marked

Idle == [pc |-> "idle", sentence |-> <<>>, at |-> 0, coll |-> <<>>,
         found |-> 0, copied |-> 0]

Init ==
  /\ setup \in DOMAIN Setups
  /\ queue = Config.sentences
  /\ work = [t \in Threads |-> Idle]
  /\ cache = [k \in {} |-> 0]
  /\ heap = <<>>
  /\ now = 0

Sentence(t) == work[t].sentence
Here(t) == SpanAt(Sentence(t), work[t].at)
Span(t) == Sentence(t)[Here(t)]
\* A variant: the lists of all graphs share one entry.
KeyWithoutGraph(t) == <<1, Span(t).phrase>>

Key(t) == <<GraphAt(Sentence(t), work[t].at), Span(t).phrase>>

\* A thread at iteration `at' of its sentence, or finished with it.
Positioned(s, at, coll) ==
  [Idle EXCEPT !.pc = IF at > Rounds(s) THEN "done" ELSE "find",
               !.sentence = s, !.at = at, !.coll = coll]

\* The end of CreateTranslationOptionsForRange: the options given in the XML
\* markup of the span are added, and the loop goes on.
Finish(t, coll) ==
  LET full == IF XmlAt(Span(t)) THEN [coll EXCEPT ![Here(t)] = Append(@, XmlOption)]
              ELSE coll
  IN  work' = [work EXCEPT ![t] =
                 Positioned(Sentence(t), NextAt(Sentence(t), @.at, full), full)]

-----------------------------------------------------------------------------
TakeSentence(t) ==
  /\ work[t].pc \in {"idle", "done"}
  /\ queue # <<>>
  /\ LET s == Head(queue)
         none == [i \in DOMAIN s |-> <<>>]
     IN  work' = [work EXCEPT ![t] = Positioned(s, NextAt(s, 0, none), none)]
  /\ queue' = Tail(queue)
  /\ UNCHANGED <<setup, cache, heap, now>>

\* xml-input exclusive: a marked span is not looked up at all.
UseMarkup(t) ==
  /\ work[t].pc = "find"
  /\ SkipsLookup(Span(t))
  /\ Finish(t, work[t].coll)
  /\ UNCHANGED <<setup, queue, cache, heap, now>>

\* FindTransOptListInCache, under the mutex: a hit is dated.
Find(t) ==
  /\ work[t].pc = "find"
  /\ ~SkipsLookup(Span(t))
  /\ IF Key(t) \in DOMAIN cache
     THEN /\ Tick
          /\ cache' = [cache EXCEPT ![Key(t)].used = now']
          /\ work' = [work EXCEPT ![t].pc = "copy", ![t].copied = 0,
                                  ![t].found = cache[Key(t)].list]
     ELSE /\ work' = [work EXCEPT ![t].pc = "create"]
          /\ UNCHANGED <<cache, now>>
  /\ UNCHANGED <<setup, queue, heap>>

\* One turn of the copying loop, without the mutex.  What a deleted list holds
\* is undefined.
Garbage == "garbage"
CopyOption(t) ==
  LET list == heap[work[t].found]
      i    == work[t].copied + 1
  IN  /\ work[t].pc = "copy"
      /\ i <= Len(list.options)
      /\ \E o \in IF list.live THEN {list.options[i]} ELSE {list.options[i], Garbage} :
           work' = [work EXCEPT ![t].copied = i,
                                ![t].coll[Here(t)] = Append(@, o)]
      /\ UNCHANGED <<setup, queue, cache, heap, now>>

EndCopy(t) ==
  /\ work[t].pc = "copy"
  /\ work[t].copied = Len(heap[work[t].found].options)
  /\ Finish(t, work[t].coll)
  /\ UNCHANGED <<setup, queue, cache, heap, now>>

CreateOptions(t) ==
  LET made == Create(Sentence(t), work[t].at)
      coll == [work[t].coll EXCEPT ![Here(t)] = @ \o made]
  IN  /\ work[t].pc = "create"
      /\ IF made = <<>>
         THEN Finish(t, coll)
         ELSE work' = [work EXCEPT ![t].pc = "store", ![t].coll = coll]
      /\ UNCHANGED <<setup, queue, cache, heap, now>>

-----------------------------------------------------------------------------
(* ReduceTransOptCache, which AddTransOptListToCache calls under its lock.   *)

\* The last-used times, most recent first, one for each entry.
UsedTimes(c) ==
  SortSeq(SetToSeq({<<c[k].used, k>> : k \in DOMAIN c}), LAMBDA a, b : a[1] > b[1])

\* How many times the loop pops: its bound is the size of a heap that shrinks
\* by one at every turn.
Popped(n) == Min({i \in 0..n : i >= n - i - Config.maxSize \div 2})

Cutoff(c) == UsedTimes(c)[Popped(Cardinality(DOMAIN c)) + 1][1]

\* A variant: the oldest times are popped instead of the most recent.
OutdatedFromOldest(c) ==
  IF Cardinality(DOMAIN c) <= Config.maxSize THEN {}
  ELSE {k \in DOMAIN c :
          c[k].used > Reverse(UsedTimes(c))[Popped(Cardinality(DOMAIN c)) + 1][1]}

Outdated(c) ==
  IF Cardinality(DOMAIN c) <= Config.maxSize THEN {}
  ELSE {k \in DOMAIN c : c[k].used < Cutoff(c)}

\* AddTransOptListToCache copies the thread's own list for the span; an entry
\* that was there is overwritten and its list is not deleted.
Store(t) ==
  /\ work[t].pc = "store"
  /\ IF Config.maxSize = 0
     THEN UNCHANGED <<cache, heap, now>>
     ELSE /\ Tick
          /\ LET stored == Append(heap, [options |-> work[t].coll[Here(t)],
                                         live |-> TRUE])
                 filled == [k \in DOMAIN cache \cup {Key(t)} |->
                              IF k = Key(t)
                              THEN [list |-> Len(stored), used |-> now']
                              ELSE cache[k]]
                 freed  == {filled[k].list : k \in Outdated(filled)}
             IN  /\ cache' = Restrict(filled, DOMAIN filled \ Outdated(filled))
                 /\ heap' = [i \in DOMAIN stored |->
                               [stored[i] EXCEPT !.live = @ /\ i \notin freed]]
  /\ Finish(t, work[t].coll)
  /\ UNCHANGED <<setup, queue>>

Step(t) ==
  \/ TakeSentence(t) \/ UseMarkup(t) \/ Find(t) \/ CopyOption(t) \/ EndCopy(t)
  \/ CreateOptions(t) \/ Store(t)

AllDone ==
  /\ queue = <<>>
  /\ \A t \in Threads : work[t].pc \in {"idle", "done"}
  /\ UNCHANGED vars

Next == (\E t \in Threads : Step(t)) \/ AllDone

Spec == Init /\ [][Next]_vars

-----------------------------------------------------------------------------
(* What the options of a sentence are without a cache: the same loop with    *)
(* every lookup a miss.                                                      *)
RECURSIVE Translate(_, _, _)
Translate(s, at, coll) ==
  IF at > Rounds(s) THEN coll
  ELSE LET i    == SpanAt(s, at)
           made == IF SkipsLookup(s[i]) THEN <<>> ELSE Create(s, at)
           xml  == IF XmlAt(s[i]) THEN <<XmlOption>> ELSE <<>>
           full == [coll EXCEPT ![i] = @ \o made \o xml]
       IN  Translate(s, NextAt(s, at, full), full)

WithoutCache(s) ==
  LET none == [i \in DOMAIN s |-> <<>>] IN Translate(s, NextAt(s, 0, none), none)

\* Markup of one sentence reaches another through the cache when a second graph
\* stores a span after the first has added the markup to it.
MarkupCached == Config.graphs > 1 /\ Config.xmlInputType = "Inclusive"

(* The cache does not change what a sentence is translated with: whatever    *)
(* the other threads store and look up meanwhile, every span of a finished   *)
(* sentence has the options it would have without the cache.  With several   *)
(* decode graphs an option may be there more than once, because the list     *)
(* stored for a later graph includes the options of the earlier ones.        *)
(* (CreateTranslationOptionsForRange with FindTransOptListInCache and        *)
(* AddTransOptListToCache.)                                                  *)
SameAsWithoutCache ==
  \A t \in Threads : work[t].pc = "done" /\ ~MarkupCached =>
    LET plain == WithoutCache(Sentence(t))
    IN  \A i \in DOMAIN plain :
          IF Config.graphs = 1 THEN work[t].coll[i] = plain[i]
          ELSE ToSet(work[t].coll[i]) = ToSet(plain[i])

(* Least recently used first: an entry that a step removes was used before   *)
(* every entry that stays, and the entry just stored stays                   *)
(* (ReduceTransOptCache).                                                    *)
OldestGoFirst ==
  [][/\ \A k \in DOMAIN cache \ DOMAIN cache', l \in DOMAIN cache' :
          cache[k].used < cache'[l].used
     /\ \A t \in Threads :
          work[t].pc = "store" /\ work'[t] # work[t] /\ heap' # heap
            => Key(t) \in DOMAIN cache']_vars

(* Parameter.cpp promises to "cache translation options across sentences",   *)
(* so a list that a lookup returned must be there until it has been copied.  *)
NoFreedRead ==
  \A t \in Threads : work[t].pc = "copy" => heap[work[t].found].live
=============================================================================
