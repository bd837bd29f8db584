-------------------------- MODULE CollectorClients --------------------------
(***************************************************************************)
(* Concurrent tasks that share OutputCollectors: each calls Write once on   *)
(* every collector, with the id of its input sentence, in any interleaving  *)
(* with the others.                                                         *)
(***************************************************************************)
EXTENDS OutputCollector, FiniteSets

CONSTANT SourceId   \* SourceId[t]: the id task t passes to Write

ASSUME SourceIdAssumption == SourceId \in [Tasks -> Ids]

VARIABLE written    \* written[c]: the tasks that have called Write on c

vars == <<collectorVars, written>>

TypeOK ==
    /\ CollectorTypeOK
    /\ written \in [Collectors -> SUBSET Tasks]

Init == CollectorInit /\ written = [c \in Collectors |-> {}]

Write(c, t) ==
    /\ t \notin written[c]
    /\ WriteExpected(c, t, SourceId[t]) \/ WriteCached(c, t, SourceId[t])
    /\ written' = [written EXCEPT ![c] = @ \cup {t}]

Drain(c) ==
    /\ (\E key \in FreedKeys(c) : DrainNext(c, key)) \/ DrainEnd(c)
    /\ UNCHANGED written

AllWritten == \A c \in Collectors : written[c] = Tasks /\ m_mutex[c] = NoTask

\* The program ends when every task has written.
Finished == AllWritten /\ UNCHANGED vars

Next ==
    \/ \E c \in Collectors : \E t \in Tasks : Write(c, t)
    \/ \E c \in Collectors : Drain(c)
    \/ Finished

\* A thread inside Write is scheduled until Write returns.
Spec == Init /\ [][Next]_vars /\ \A c \in Collectors : WF_vars(Drain(c))

-----------------------------------------------------------------------------
\* The k-th text of a stream is that of the task with id k - 1: no text is
\* printed out of order, skipped or printed twice, whatever the order of the
\* Writes ("Makes sure output goes in the correct order").
OutputInOrder ==
    \A c \in Collectors : \A k \in 1 .. Len(m_outStream[c]) :
        SourceId[m_outStream[c][k]] = k - 1

\* A text handed to Write is afterwards in exactly one place: printed, or
\* in the map under its own id.  Needs tasks with different ids.
NoTextLost ==
    \A c \in Collectors : \A t \in written[c] :
        (\E k \in 1 .. Len(m_outStream[c]) : m_outStream[c][k] = t)
            <=> m_outputs[c][SourceId[t]] # t

\* Whenever no thread is inside Write, the debug stream has received the
\* debug texts of exactly the sentences whose output has been printed, in the
\* same order.
DebugFollowsOutput ==
    \A c \in Collectors : m_mutex[c] = NoTask => m_debugStream[c] = m_outStream[c]

\* Each collector implements the ordered stream: the order of its texts, and
\* that none that is due waits for ever.  The collectors share nothing, so one
\* of them stands for all.
AnyCollector == CHOOSE c \in Collectors : TRUE
Ordered == INSTANCE OrderedOutput
               WITH delivered <- written[AnyCollector],
                    printed <- m_outStream[AnyCollector]
ImplementsOrderedOutput == Ordered!Spec
=============================================================================
