----------------------------- MODULE DecoderMain -----------------------------
(***************************************************************************)
(* The main programs that translate, or extract rules from, a stream of     *)
(* sentences with a ThreadPool and print through OutputCollectors:          *)
(*   "moses"          moses-cmd/src/Main.cpp                                *)
(*   "moses_chart"    moses-chart-cmd/src/Main.cpp                          *)
(*   "extract-rules"  scripts/training/phrase-extract/extract-rules.cpp     *)
(* The main thread reads a sentence, gives its task an id and submits it; a *)
(* worker runs the task, which writes to each enabled collector in turn.    *)
(* The search itself is left out: hasBest says whether it found a complete  *)
(* translation.                                                             *)
(***************************************************************************)
EXTENDS Naturals, Sequences, FiniteSets, SequencesExt

CONSTANTS
    Setups,        \* which programs run, each with which arguments and input
    Collectors,    \* the collectors any of them has
    Workers,       \* the threads of the pool
    NumTasks,      \* bound on the sentences read and the tasks submitted
    QueueLimit,    \* the limit extract-rules puts on the queue
    NoTask,
    FreedKeyIntact

Programs == {"moses", "moses_chart", "extract-rules"}

\* A program, the collectors its command line asks for, how many sentences its
\* input has at most, the ids <seg id=...> markup gives them (0 is no markup),
\* and -start-translation-id.
SetupType ==
    [program : Programs, collectors : SUBSET Collectors, lines : 0 .. NumTasks,
     segIds : SUBSET Nat, startId : Nat]

ASSUME MainAssumption ==
    /\ Setups \subseteq SetupType
    /\ IsFiniteSet(UNION {s.segIds \cup {s.startId} : s \in Setups})
    /\ Workers # {}
    /\ NumTasks \in Nat /\ QueueLimit \in Nat
    /\ NoTask \notin Nat

VARIABLES
    setup,           \* which program runs
    m_queueLimit, m_tasks, m_stopping, m_stopped, pc, task, sawStopped, clientPc,
    processRemainingJobs, submitted, started, completed,
    m_outputs, m_debugs, m_nextOutput, m_outStream, m_debugStream, m_mutex,
    lineCount,       \* the sentences read so far
    m_translationId, \* IOWrapper's next id
    id,              \* the id each task passes to Write
    hasBest,         \* whether the task's search has a best hypothesis
    writes           \* where in RunOrder the worker's task has last written

\* Ids with room for one per line after the largest markup id.
Ids == 0 .. (NumTasks + Max({0} \cup UNION {s.segIds \cup {s.startId} : s \in Setups}))

Pool == INSTANCE ThreadPool WITH QueueLimits <- {0, QueueLimit}
Col  == INSTANCE OutputCollector WITH Tasks <- 1 .. NumTasks

Tasks == Pool!Tasks

poolVars == <<m_queueLimit, m_tasks, m_stopping, m_stopped, pc, task, sawStopped, clientPc,
              processRemainingJobs, submitted, started, completed>>
collectorVars ==
    <<m_outputs, m_debugs, m_nextOutput, m_outStream, m_debugStream, m_mutex>>
mainVars == <<setup, lineCount, m_translationId, id, hasBest, writes>>
vars == <<poolVars, collectorVars, mainVars>>

TypeOK ==
    /\ Pool!TypeOK /\ Col!CollectorTypeOK
    /\ setup \in Setups
    /\ lineCount \in 0 .. NumTasks
    /\ m_translationId \in Ids
    /\ id \in [Tasks -> Ids]
    /\ hasBest \in [Tasks -> BOOLEAN]
    /\ writes \in [Workers -> Nat]

Init ==
    /\ Pool!Init /\ Col!CollectorInit
    /\ setup \in Setups
    /\ m_queueLimit = IF setup.program = "extract-rules" THEN QueueLimit ELSE 0
    /\ lineCount = 0
    /\ m_translationId = setup.startId
    /\ id = [t \in Tasks |-> 0]
    /\ hasBest = [t \in Tasks |-> FALSE]
    /\ writes = [w \in Workers |-> 0]

-----------------------------------------------------------------------------
(* The main thread *)

\* IOWrapper::GetInput: markup with an id other than 0 wins; the others are
\* numbered on from the largest id seen.
GetInput(segId) ==
    IF segId # 0
    THEN [id |-> segId,
          next |-> IF segId >= m_translationId THEN segId + 1 ELSE m_translationId]
    ELSE [id |-> m_translationId, next |-> m_translationId + 1]

\* The id of the task for the sentence just read: moses-cmd counts tasks,
\* extract-rules counts lines, moses-chart-cmd takes the sentence's own.
TaskId(input) ==
    CASE setup.program = "moses"         -> submitted
      [] setup.program = "extract-rules" -> lineCount
      [] setup.program = "moses_chart"   -> input.id

\* The search of a decoder may end without a complete translation.
SearchResults == IF setup.program = "extract-rules" THEN {TRUE} ELSE BOOLEAN

ReadSentence ==
    /\ lineCount < setup.lines
    /\ \E segId \in setup.segIds, best \in SearchResults :
          LET input == GetInput(segId)
              t     == submitted + 1
          IN /\ Pool!ReadInput
             /\ m_translationId' = input.next
             /\ id' = [id EXCEPT ![t] = TaskId(input)]
             /\ hasBest' = [hasBest EXCEPT ![t] = best]
    /\ lineCount' = lineCount + 1
    /\ UNCHANGED <<setup, writes, collectorVars>>

\* extract-rules: create() rejects the sentence (an empty side, a bad alignment
\* point, unreadable syntax) and no task is made for it.
SkipSentence ==
    /\ setup.program = "extract-rules"
    /\ clientPc = "reading" /\ lineCount < setup.lines
    /\ lineCount' = lineCount + 1
    /\ UNCHANGED <<poolVars, collectorVars, setup, m_translationId, id, hasBest, writes>>

\* Sentence::Read throws on malformed XML.
InputThrows ==
    /\ setup.program # "extract-rules"
    /\ Pool!InputThrows
    /\ UNCHANGED <<collectorVars, mainVars>>

ClientElsewhere ==
    /\ \/ Pool!EndOfInput \/ Pool!SubmitWaits \/ Pool!Submit
       \/ Pool!StopBegins \/ Pool!DrainQueue
       \/ Pool!SetStopped \/ Pool!NotifyStopped \/ Pool!Join \/ Pool!Destroy
       \/ Pool!ClientSpuriousWakeup
    /\ UNCHANGED <<collectorVars, mainVars>>

MainStep == ReadSentence \/ SkipSentence \/ InputThrows \/ ClientElsewhere

-----------------------------------------------------------------------------
(* The tasks *)

\* A variant of RunOrder: a task without a translation prints nothing.
RunOrderOfBest(t) ==
    IF hasBest[t] THEN <<"output", "nbest", "extract", "extractInv">> ELSE <<>>

\* The collectors in the order Run writes to them, each under its condition.
RunOrder(t) ==
    CASE setup.program = "moses" ->
           <<"wordGraph", "searchGraph">>
           \o (IF hasBest[t] /\ "output" \in setup.collectors THEN <<"alignment">> ELSE <<>>)
           \o <<"output", "nbest", "latticeSamples", "detail">>
      [] setup.program = "moses_chart" ->
           <<"output">> \o (IF hasBest[t] THEN <<"detail">> ELSE <<>>)
           \o <<"nbest", "searchGraph">>
      [] setup.program = "extract-rules" -> <<"extract", "extractInv">>

Enabled(c) == c \in setup.collectors
Writes(t) == {c \in ToSet(RunOrder(t)) : Enabled(c)}

\* Where in RunOrder the worker's next Write is, if there is one.
NextWrite(w) ==
    {k \in (writes[w] + 1) .. Len(RunOrder(task[w])) :
        /\ Enabled(RunOrder(task[w])[k])
        /\ \A j \in (writes[w] + 1) .. (k - 1) : ~Enabled(RunOrder(task[w])[j])}

\* The worker is inside Write, draining a collector.
Draining(w, c) == pc[w] = "running" /\ m_mutex[c] = task[w]

\* The worker's task calls Write on its next collector.
WriteNext(w) ==
    /\ pc[w] = "running"
    /\ \A c \in Collectors : ~Draining(w, c)
    /\ \E k \in NextWrite(w) :
          /\ LET c == RunOrder(task[w])[k]
             IN \/ Col!WriteExpected(c, task[w], id[task[w]])
                \/ Col!WriteCached(c, task[w], id[task[w]])
          /\ writes' = [writes EXCEPT ![w] = k]
    /\ UNCHANGED <<poolVars, setup, lineCount, m_translationId, id, hasBest>>

Drain(w) ==
    /\ \E c \in Collectors :
          /\ Draining(w, c)
          /\ (\E key \in Col!FreedKeys(c) : Col!DrainNext(c, key)) \/ Col!DrainEnd(c)
    /\ UNCHANGED <<poolVars, mainVars>>

FinishTask(w) ==
    /\ pc[w] = "running"
    /\ NextWrite(w) = {}
    /\ \A c \in Collectors : ~Draining(w, c)
    /\ Pool!FinishJob(w)
    /\ writes' = [writes EXCEPT ![w] = 0]
    /\ UNCHANGED <<collectorVars, setup, lineCount, m_translationId, id, hasBest>>

PoolElsewhere(w) ==
    /\ \/ Pool!WaitForJob(w) \/ Pool!TakeJob(w)
       \/ Pool!NotifyAvailable(w) \/ Pool!TestStopped(w)
    /\ UNCHANGED <<collectorVars, mainVars>>

WorkerStep(w) == WriteNext(w) \/ Drain(w) \/ FinishTask(w) \/ PoolElsewhere(w)

Exited == clientPc = "gone" /\ UNCHANGED vars

Next == MainStep \/ (\E w \in Workers : WorkerStep(w)) \/ Exited

\* Every thread that can take a step is scheduled.
Spec ==
    /\ Init /\ [][Next]_vars
    /\ WF_vars(MainStep)
    /\ \A w \in Workers : WF_vars(WorkerStep(w))

-----------------------------------------------------------------------------

\* The first id under which no task has written to c.
FirstGap(c) ==
    CHOOSE i \in 0 .. NumTasks :
        /\ \A t \in Tasks : t \in completed /\ c \in Writes(t) => id[t] # i
        /\ \A j \in 0 .. (i - 1) :
              \E t \in completed : c \in Writes(t) /\ id[t] = j

\* When Stop(true) has returned, a stream holds a text for each of the ids below
\* the first one nobody wrote and no others, in the order of the ids, however
\* the tasks overtook each other.
PrintedUpToFirstGap ==
    clientPc = "returned" /\ processRemainingJobs =>
        \A c \in setup.collectors :
            /\ Len(m_outStream[c]) = FirstGap(c)
            /\ \A k \in 1 .. FirstGap(c) : id[m_outStream[c][k]] = k - 1

\* Every sentence submitted by moses is printed on every stream in the end,
\* unless the pool is gone with its task still queued (after malformed input).
EventuallyPrinted ==
    \A t \in Tasks :
        setup.program = "moses" /\ submitted >= t ~>
            \/ clientPc = "gone" /\ \E i \in 1 .. Len(m_tasks) : m_tasks[i] = t
            \/ \A c \in setup.collectors : \E k \in 1 .. Len(m_outStream[c]) :
                   m_outStream[c][k] = t

\* The pool inside the program behaves as ThreadPool says, liveness included:
\* tasks that take many steps and wait for a collector's mutex still end.
ImplementsThreadPool == Pool!Spec
=============================================================================
