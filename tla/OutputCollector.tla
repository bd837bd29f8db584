--------------------------- MODULE OutputCollector ---------------------------
(***************************************************************************)
(* moses/src/OutputCollector.h: the class every multi-threaded program of  *)
(* the repository prints through.  Tasks finish in any order; Write prints  *)
(* the text with the id that is due and keeps the others in a map until     *)
(* theirs is due.                                                           *)
(*                                                                         *)
(* A text is identified with the task that produced it.  Several collectors *)
(* live side by side (translations, alignments, n-best lists, ...), each    *)
(* with a mutex of its own, so the state is a function of the collector.    *)
(* The mutex is held for the whole call.  The loop that drains the map is   *)
(* split into its iterations because each reads the node it has just freed. *)
(***************************************************************************)
EXTENDS Naturals, Sequences

CONSTANTS
    Collectors,   \* the OutputCollector objects
    Tasks,        \* the callers of Write, each with a text of its own
    Ids,          \* the values sourceId can have: the keys of the two maps
    NoTask,       \* no text under this key; no thread in Write
    FreedKeyIntact \* whether a map node keeps its key once it is freed

ASSUME CollectorAssumption ==
    /\ Ids \subseteq Nat
    /\ NoTask \notin Tasks
    /\ FreedKeyIntact \in BOOLEAN

VARIABLES
    m_outputs,     \* m_outputs[c][i]: the cached text of id i, or NoTask
    m_debugs,      \* m_debugs[c][i]: the cached debug text of id i, or NoTask
    m_nextOutput,  \* the id that is due
    m_outStream,   \* the texts printed so far
    m_debugStream, \* the debug texts printed so far
    m_mutex        \* the task whose Write is draining the map, or NoTask

collectorVars ==
    <<m_outputs, m_debugs, m_nextOutput, m_outStream, m_debugStream, m_mutex>>

CollectorTypeOK ==
    /\ m_outputs \in [Collectors -> [Ids -> Tasks \cup {NoTask}]]
    /\ m_debugs \in [Collectors -> [Ids -> Tasks \cup {NoTask}]]
    /\ m_nextOutput \in [Collectors -> Nat]
    /\ m_outStream \in [Collectors -> Seq(Tasks)]
    /\ m_debugStream \in [Collectors -> Seq(Tasks)]
    /\ m_mutex \in [Collectors -> Tasks \cup {NoTask}]

CollectorInit ==
    /\ m_outputs = [c \in Collectors |-> [i \in Ids |-> NoTask]]
    /\ m_debugs = [c \in Collectors |-> [i \in Ids |-> NoTask]]
    /\ m_nextOutput = [c \in Collectors |-> 0]
    /\ m_outStream = [c \in Collectors |-> <<>>]
    /\ m_debugStream = [c \in Collectors |-> <<>>]
    /\ m_mutex = [c \in Collectors |-> NoTask]

\* m_outputs.find(i) != m_outputs.end()
Cached(c, i) == i \in Ids /\ m_outputs[c][i] # NoTask

\* A variant of WriteExpected: the id is not compared with the one due.
WriteExpectedAnyId(c, t, sourceId) ==
    /\ m_mutex[c] = NoTask
    /\ m_outStream' = [m_outStream EXCEPT ![c] = Append(@, t)]
    /\ m_debugStream' = [m_debugStream EXCEPT ![c] = Append(@, t)]
    /\ m_nextOutput' = [m_nextOutput EXCEPT ![c] = @ + 1]
    /\ m_mutex' = [m_mutex EXCEPT ![c] = t]
    /\ UNCHANGED <<m_outputs, m_debugs>>

(***************************************************************************)
(* Write, the branch "This is the one we were expecting": both texts go to  *)
(* their streams and the mutex is kept for the drain that follows.          *)
(***************************************************************************)
WriteExpected(c, t, sourceId) ==
    /\ m_mutex[c] = NoTask
    /\ sourceId = m_nextOutput[c]
    /\ m_outStream' = [m_outStream EXCEPT ![c] = Append(@, t)]
    /\ m_debugStream' = [m_debugStream EXCEPT ![c] = Append(@, t)]
    /\ m_nextOutput' = [m_nextOutput EXCEPT ![c] = @ + 1]
    /\ m_mutex' = [m_mutex EXCEPT ![c] = t]
    /\ UNCHANGED <<m_outputs, m_debugs>>

\* A variant of WriteCached: the debug text is dropped.
WriteCachedNoDebug(c, t, sourceId) ==
    /\ m_mutex[c] = NoTask
    /\ sourceId # m_nextOutput[c]
    /\ m_outputs' = [m_outputs EXCEPT ![c][sourceId] = t]
    /\ UNCHANGED <<m_debugs, m_nextOutput, m_outStream, m_debugStream, m_mutex>>

(***************************************************************************)
(* Write, the branch "save for later": a text already cached under the same *)
(* id is overwritten, and an id below the one due is cached like any other. *)
(***************************************************************************)
WriteCached(c, t, sourceId) ==
    /\ m_mutex[c] = NoTask
    /\ sourceId # m_nextOutput[c]
    /\ m_outputs' = [m_outputs EXCEPT ![c][sourceId] = t]
    /\ m_debugs' = [m_debugs EXCEPT ![c][sourceId] = t]
    /\ UNCHANGED <<m_nextOutput, m_outStream, m_debugStream, m_mutex>>

(***************************************************************************)
(* The keys m_debugs.find(iter->first) may look up.  iter was erased two    *)
(* lines above: its node is freed, and another thread may have been given   *)
(* the memory since.  The key is then anything; all keys that are not in    *)
(* m_debugs have the same effect, so NoTask stands for them.                *)
(***************************************************************************)
FreedKeys(c) ==
    IF FreedKeyIntact
    THEN {m_nextOutput[c]}
    ELSE {i \in Ids : m_debugs[c][i] # NoTask} \cup {NoTask}

\* A variant of DrainNext: the text is not erased.
DrainNextKeeps(c, key) ==
    LET due == m_nextOutput[c]
    IN /\ m_mutex[c] # NoTask
       /\ Cached(c, due)
       /\ m_outStream' = [m_outStream EXCEPT ![c] = Append(@, m_outputs[c][due])]
       /\ m_debugStream' = [m_debugStream EXCEPT ![c] = Append(@, m_debugs[c][due])]
       /\ m_nextOutput' = [m_nextOutput EXCEPT ![c] = due + 1]
       /\ UNCHANGED <<m_outputs, m_debugs, m_mutex>>

(***************************************************************************)
(* One iteration of the drain: print the text that is due, erase it, step   *)
(* on, and print and erase the debug text found under the key read from the *)
(* freed node.                                                              *)
(***************************************************************************)
DrainNext(c, key) ==
    LET due == m_nextOutput[c]
    IN /\ m_mutex[c] # NoTask
       /\ Cached(c, due)
       /\ m_outStream' = [m_outStream EXCEPT ![c] = Append(@, m_outputs[c][due])]
       /\ m_outputs' = [m_outputs EXCEPT ![c][due] = NoTask]
       /\ m_nextOutput' = [m_nextOutput EXCEPT ![c] = due + 1]
       /\ \/ /\ key \in Ids /\ m_debugs[c][key] # NoTask
             /\ m_debugStream' =
                   [m_debugStream EXCEPT ![c] = Append(@, m_debugs[c][key])]
             /\ m_debugs' = [m_debugs EXCEPT ![c][key] = NoTask]
          \/ /\ ~(key \in Ids /\ m_debugs[c][key] # NoTask)
             /\ UNCHANGED <<m_debugStream, m_debugs>>
       /\ UNCHANGED m_mutex

\* Variants of DrainEnd: the loop may end early; the mutex is not released.
DrainEndEarly(c) ==
    /\ m_mutex[c] # NoTask
    /\ m_mutex' = [m_mutex EXCEPT ![c] = NoTask]
    /\ UNCHANGED <<m_outputs, m_debugs, m_nextOutput, m_outStream, m_debugStream>>

DrainEndLocked(c) ==
    /\ m_mutex[c] # NoTask
    /\ ~Cached(c, m_nextOutput[c])
    /\ UNCHANGED collectorVars

\* The loop ends when the id that is due is not cached: Write returns.
DrainEnd(c) ==
    /\ m_mutex[c] # NoTask
    /\ ~Cached(c, m_nextOutput[c])
    /\ m_mutex' = [m_mutex EXCEPT ![c] = NoTask]
    /\ UNCHANGED <<m_outputs, m_debugs, m_nextOutput, m_outStream, m_debugStream>>
=============================================================================
