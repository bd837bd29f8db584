-------------------------- MODULE DecoderMainProofs --------------------------
(* Theorems about DecoderMain, for any command lines, input, number of threads *)
(* and number of sentences: the pool inside the program behaves as ThreadPool   *)
(* says, and the streams hold what they should when it has been stopped.        *)
EXTENDS DecoderMain, FiniteSetTheorems, WellFoundedInduction, TLAPS

-----------------------------------------------------------------------------
(* The program implements the pool *)

\* A step of the program is a step of its pool, or leaves the pool alone: the
\* main thread is the pool's client, and a task's Writes are all inside Run.
LEMMA StepIsPoolStep == [Next]_vars => [Pool!Next]_poolVars
<1> SUFFICES ASSUME [Next]_vars PROVE Pool!Next \/ UNCHANGED poolVars
  OBVIOUS
<1>1. CASE MainStep
  <2>1. CASE ReadSentence
    BY <2>1, Zenon DEF ReadSentence, Pool!Next, Pool!ClientStep
  <2>2. CASE SkipSentence
    BY <2>2 DEF SkipSentence
  <2>3. CASE InputThrows
    BY <2>3, Zenon DEF InputThrows, Pool!Next, Pool!ClientStep
  <2>4. CASE ClientElsewhere
    BY <2>4, Zenon DEF ClientElsewhere, Pool!Next, Pool!ClientStep
  <2> QED BY <1>1, <2>1, <2>2, <2>3, <2>4 DEF MainStep
<1>2. ASSUME NEW w \in Workers, WorkerStep(w) PROVE Pool!Next \/ UNCHANGED poolVars
  <2>1. CASE WriteNext(w)
    BY <2>1 DEF WriteNext
  <2>2. CASE Drain(w)
    BY <2>2 DEF Drain
  <2>3. CASE FinishTask(w)
    BY <2>3, Zenon DEF FinishTask, Pool!Next, Pool!WorkerStep
  <2>4. CASE PoolElsewhere(w)
    BY <2>4, Zenon DEF PoolElsewhere, Pool!Next, Pool!WorkerStep
  <2> QED BY <1>2, <2>1, <2>2, <2>3, <2>4 DEF WorkerStep
<1>3. CASE UNCHANGED vars
  BY <1>3 DEF vars
<1> QED BY <1>1, <1>2, <1>3 DEF Next, Exited

\* Each of the three programs uses its pool as ThreadPool's client does, as far
\* as safety goes.
THEOREM RefinesThreadPool == Spec => Pool!Init /\ [][Pool!Next]_poolVars
<1>1. Init => Pool!Init
  BY DEF Init
<1> QED BY <1>1, StepIsPoolStep, PTL DEF Spec

-----------------------------------------------------------------------------
(* One collector *)

\* The state of a collector, after the tasks W have written to it: o caches a
\* text for some of the ids, n is due, s is printed, and ids are the tasks' ids.
ColInv(o, n, s, W, ids) ==
    /\ o \in [Ids -> Tasks \cup {NoTask}]
    /\ s \in Seq(Tasks) /\ n = Len(s)
    /\ W \subseteq Tasks
    /\ ids \in [Tasks -> Ids]
    /\ \A k \in 1 .. n : s[k] \in W /\ ids[s[k]] = k - 1
    /\ \A i \in Ids : o[i] # NoTask => o[i] \in W /\ ids[o[i]] = i
    /\ \A t \in W : ids[t] < n \/ o[ids[t]] # NoTask

\* The ids a program can give are natural numbers.
LEMMA IdsAreNaturals == Ids \subseteq Nat
BY DEF Ids

\* Tasks are numbered, and NoTask is none of them.
LEMMA TasksAreNumbers == Tasks \subseteq Nat /\ NoTask \notin Tasks /\ Tasks = 1 .. NumTasks
BY MainAssumption DEF Tasks, Pool!Tasks

\* Write's first branch: a text is printed when its id is due.
LEMMA PrintKeeps ==
    ASSUME NEW o, NEW n, NEW s, NEW W, NEW ids, ColInv(o, n, s, W, ids),
           NEW t \in Tasks, ids[t] = n
    PROVE  ColInv(o, n + 1, Append(s, t), W \cup {t}, ids)
<1> USE DEF ColInv
<1>1. n \in Nat /\ Append(s, t) \in Seq(Tasks) /\ n + 1 = Len(Append(s, t))
  OBVIOUS
<1>2. ASSUME NEW k \in 1 .. (n + 1)
      PROVE  Append(s, t)[k] \in W \cup {t} /\ ids[Append(s, t)[k]] = k - 1
  <2>1. CASE k = n + 1
    BY <2>1
  <2>2. CASE k \in 1 .. n
    BY <2>2
  <2> QED BY <2>1, <2>2, <1>1
<1>3. ASSUME NEW u \in W \cup {t} PROVE ids[u] < n + 1 \/ o[ids[u]] # NoTask
  <2>1. ids[u] \in Nat
    BY IdsAreNaturals
  <2>2. CASE u = t
    BY <2>1, <2>2, <1>1
  <2>3. CASE u \in W
    BY <2>1, <2>3, <1>1
  <2> QED BY <2>2, <2>3
<1> QED BY <1>1, <1>2, <1>3

\* Write's second branch: a text whose id is not due is cached.
LEMMA CacheKeeps ==
    ASSUME NEW o, NEW n, NEW s, NEW W, NEW ids, ColInv(o, n, s, W, ids), NEW t \in Tasks
    PROVE  ColInv([o EXCEPT ![ids[t]] = t], n, s, W \cup {t}, ids)
<1> USE DEF ColInv
<1> DEFINE p == [o EXCEPT ![ids[t]] = t]
<1>1. ids[t] \in Ids /\ t # NoTask
  BY TasksAreNumbers
<1>2. p \in [Ids -> Tasks \cup {NoTask}]
  BY <1>1
<1>3. \A i \in Ids : p[i] = IF i = ids[t] THEN t ELSE o[i]
  BY <1>1
<1> HIDE DEF p
<1>4. \A i \in Ids : p[i] # NoTask => p[i] \in W \cup {t} /\ ids[p[i]] = i
  BY <1>3
<1>5. \A u \in W \cup {t} : ids[u] < n \/ p[ids[u]] # NoTask
  BY <1>1, <1>3
<1>6. ColInv(p, n, s, W \cup {t}, ids)
  BY <1>2, <1>4, <1>5
<1> QED BY <1>6 DEF p

\* An iteration of the drain: the cached text that is due is printed.
LEMMA DrainKeeps ==
    ASSUME NEW o, NEW n, NEW s, NEW W, NEW ids, ColInv(o, n, s, W, ids),
           n \in Ids, o[n] # NoTask
    PROVE  ColInv([o EXCEPT ![n] = NoTask], n + 1, Append(s, o[n]), W, ids)
<1> USE DEF ColInv
<1> DEFINE p == [o EXCEPT ![n] = NoTask]
           r == Append(s, o[n])
<1>1. n \in Nat /\ o[n] \in W /\ o[n] \in Tasks /\ ids[o[n]] = n
  OBVIOUS
<1>2. p \in [Ids -> Tasks \cup {NoTask}] /\ r \in Seq(Tasks) /\ n + 1 = Len(r)
  BY <1>1
<1>3. \A i \in Ids : p[i] = IF i = n THEN NoTask ELSE o[i]
  OBVIOUS
<1>4. ASSUME NEW k \in 1 .. (n + 1)
      PROVE  r[k] \in W /\ ids[r[k]] = k - 1
  <2>1. CASE k = n + 1
    BY <2>1, <1>1
  <2>2. CASE k \in 1 .. n
    BY <2>2, <1>1
  <2> QED BY <2>1, <2>2, <1>1
<1> HIDE DEF p, r
<1>5. \A i \in Ids : p[i] # NoTask => p[i] \in W /\ ids[p[i]] = i
  BY <1>3
<1>6. ASSUME NEW u \in W PROVE ids[u] < n + 1 \/ p[ids[u]] # NoTask
  <2>1. ids[u] \in Ids /\ ids[u] \in Nat
    BY IdsAreNaturals
  <2>2. ids[u] < n \/ o[ids[u]] # NoTask
    OBVIOUS
  <2>3. p[ids[u]] = IF ids[u] = n THEN NoTask ELSE o[ids[u]]
    BY <1>3, <2>1
  <2> QED BY <2>1, <2>2, <2>3, <1>1
<1>7. ColInv(p, n + 1, r, W, ids)
  BY <1>2, <1>4, <1>5, <1>6
<1> QED BY <1>7 DEF p, r

\* Nothing changes for a collector as long as the ids of its writers do not.
LEMMA OthersIdsKeep ==
    ASSUME NEW o, NEW n, NEW s, NEW W, NEW ids, ColInv(o, n, s, W, ids),
           NEW new \in [Tasks -> Ids], \A t \in W : new[t] = ids[t]
    PROVE  ColInv(o, n, s, W, new)
BY DEF ColInv

\* With nothing cached for the id that is due, that id is the first that no
\* writer has, and it is within FirstGap's bound.
LEMMA DueIsFirstGap ==
    ASSUME NEW o, NEW n, NEW s, NEW W, NEW ids, ColInv(o, n, s, W, ids),
           ~(n \in Ids /\ o[n] # NoTask)
    PROVE  /\ n \in 0 .. NumTasks
           /\ \A i \in 0 .. NumTasks :
                 /\ \A t \in W : ids[t] # i
                 /\ \A j \in 0 .. (i - 1) : \E t \in W : ids[t] = j
                 <=> i = n
<1> USE DEF ColInv
<1>1. n \in Nat /\ s \in [1 .. n -> Tasks]
  OBVIOUS
<1>2. \A t \in W : ids[t] # n
  BY <1>1
<1>3. \A j \in 0 .. (n - 1) : s[j + 1] \in W /\ ids[s[j + 1]] = j
  BY <1>1
<1>4. n <= NumTasks
  <2>1. \A j, k \in 1 .. n : s[j] = s[k] => j = k
    BY <1>1
  <2>2. s \in Injection(1 .. n, Tasks)
    BY <1>1, <2>1 DEF Injection, IsInjective
  <2>3. IsFiniteSet(Tasks) /\ Cardinality(Tasks) = NumTasks
    BY FS_Interval, TasksAreNumbers, MainAssumption
  <2>4. Cardinality(1 .. n) <= NumTasks
    BY <2>2, <2>3, FS_Injection
  <2>5. Cardinality(1 .. n) = IF 1 > n THEN 0 ELSE n - 1 + 1
    BY FS_Interval, <1>1, 1 \in Int, n \in Int
  <2> QED BY <2>4, <2>5, <1>1
<1>5. ASSUME NEW i \in 0 .. NumTasks, \A t \in W : ids[t] # i,
             \A j \in 0 .. (i - 1) : \E t \in W : ids[t] = j
      PROVE  i = n
  <2>1. ~(i < n)
    BY <1>3, <1>5, <1>1
  <2>2. ~(n < i)
    BY <1>2, <1>5, <1>1
  <2> QED BY <2>1, <2>2, <1>1, MainAssumption
<1>6. n \in 0 .. NumTasks
  BY <1>1, <1>4, MainAssumption
<1>7. \A j \in 0 .. (n - 1) : \E t \in W : ids[t] = j
  BY <1>3
<1> QED BY <1>2, <1>5, <1>6, <1>7

-----------------------------------------------------------------------------
(* The pool *)

AllExited == \A w \in Workers : pc[w] = "exited"

PoolTypes ==
    /\ submitted \in 0 .. NumTasks
    /\ m_tasks \in Seq(1 .. submitted)
    /\ pc \in [Workers -> Pool!WorkerPc]
    /\ task \in [Workers -> Tasks \cup {NoTask}]
    /\ completed \subseteq 1 .. submitted
    /\ \A w \in Workers : pc[w] = "running" => task[w] \in 1 .. submitted
    /\ clientPc \in {"submit", "submitWaiting", "submitWoken"} => submitted < NumTasks

\* The threads end before Stop returns.
StopPhases ==
    /\ m_stopped =>
          \/ clientPc \in {"notifyStopped", "join"}
          \/ clientPc \in {"stop", "returned", "gone"} /\ AllExited
    /\ clientPc \in {"returned", "gone"} => AllExited

PoolInv == PoolTypes /\ StopPhases

\* What the program needs of its pool is inductive: a worker's step.
LEMMA PoolInvWorker ==
    ASSUME PoolInv, NEW w \in Workers, Pool!WorkerStep(w) \/ Pool!SpuriousWakeup(w)
    PROVE  PoolInv'
<1> USE DEF PoolInv
<1>1. PoolTypes'
  <2> USE DEF PoolTypes, Pool!WorkerPc
  <2>1. CASE Pool!WaitForJob(w)
    BY <2>1 DEF Pool!WaitForJob, Pool!clientVars
  <2>2. CASE Pool!TakeJob(w)
    <3>1. UNCHANGED <<submitted, clientPc, completed>>
      BY <2>2 DEF Pool!TakeJob, Pool!clientVars
    <3>2. CASE /\ m_tasks # <<>>
               /\ task' = [task EXCEPT ![w] = Head(m_tasks)]
               /\ m_tasks' = Tail(m_tasks)
               /\ pc' = [pc EXCEPT ![w] = "running"]
      <4>1. Head(m_tasks) \in 1 .. submitted /\ Tail(m_tasks) \in Seq(1 .. submitted)
        BY <3>2
      <4>2. Head(m_tasks) \in Tasks
        BY <4>1, TasksAreNumbers, MainAssumption
      <4>3. \A v \in Workers : pc'[v] = "running" => task'[v] \in 1 .. submitted
        BY <3>2, <4>1
      <4> QED BY <3>1, <3>2, <4>1, <4>2, <4>3
    <3>3. CASE /\ task' = [task EXCEPT ![w] = NoTask]
               /\ pc' = [pc EXCEPT ![w] = "notify"]
               /\ UNCHANGED m_tasks
      BY <3>1, <3>3
    <3> QED BY <2>2, <3>2, <3>3 DEF Pool!TakeJob
  <2>3. CASE Pool!FinishJob(w)
    BY <2>3 DEF Pool!FinishJob, Pool!clientVars
  <2>4. CASE Pool!NotifyAvailable(w)
    BY <2>4 DEF Pool!NotifyAvailable
  <2>5. CASE Pool!TestStopped(w)
    BY <2>5 DEF Pool!TestStopped, Pool!clientVars
  <2>6. CASE Pool!SpuriousWakeup(w)
    BY <2>6 DEF Pool!SpuriousWakeup, Pool!clientVars
  <2> QED BY <2>1, <2>2, <2>3, <2>4, <2>5, <2>6 DEF Pool!WorkerStep
<1>2. StopPhases'
  <2>1. ~AllExited
    BY DEF AllExited, Pool!WorkerStep, Pool!WaitForJob, Pool!TakeJob, Pool!FinishJob,
           Pool!NotifyAvailable, Pool!TestStopped, Pool!SpuriousWakeup
  <2>2. /\ m_stopped' = m_stopped
        /\ \/ clientPc' = clientPc
           \/ clientPc = "submitWaiting" /\ clientPc' = "submitWoken"
           \/ clientPc = "drainWaiting" /\ clientPc' = "drainWoken"
    BY DEF Pool!WorkerStep, Pool!WaitForJob, Pool!TakeJob, Pool!FinishJob,
           Pool!NotifyAvailable, Pool!TestStopped, Pool!SpuriousWakeup, Pool!clientVars
  <2> QED BY <2>1, <2>2 DEF StopPhases
<1> QED BY <1>1, <1>2

\* A step of the pool's client.
LEMMA PoolInvClient ==
    ASSUME PoolInv, Pool!ClientStep \/ Pool!ClientSpuriousWakeup
    PROVE  PoolInv'
<1> USE DEF PoolInv, PoolTypes, StopPhases, AllExited, Pool!WorkerPc, Pool!workerVars
<1>1. CASE Pool!ReadInput
  BY <1>1 DEF Pool!ReadInput
<1>11. CASE Pool!EndOfInput
  BY <1>11 DEF Pool!EndOfInput
<1>12. CASE Pool!InputThrows
  BY <1>12 DEF Pool!InputThrows
<1>2. CASE Pool!SubmitWaits
  BY <1>2 DEF Pool!SubmitWaits
<1>3. CASE Pool!Submit
  <2>0. clientPc \in {"submit", "submitWoken"} /\ clientPc' = "reading"
    BY <1>3 DEF Pool!Submit
  <2>1. submitted' = submitted + 1 /\ submitted' \in 0 .. NumTasks
    BY <1>3, <2>0, MainAssumption DEF Pool!Submit
  <2>2. m_tasks' \in Seq(1 .. submitted')
    <3>1. m_tasks \in Seq(1 .. submitted') /\ submitted + 1 \in 1 .. submitted'
      BY <2>1
    <3> QED BY <3>1, <1>3 DEF Pool!Submit
  <2>3. /\ pc' \in [Workers -> Pool!WorkerPc]
        /\ \A w \in Workers : pc'[w] = "running" <=> pc[w] = "running"
    BY <1>3 DEF Pool!Submit
  <2>4. UNCHANGED <<task, completed, m_stopped>>
    BY <1>3 DEF Pool!Submit
  <2>5. 1 .. submitted \subseteq 1 .. submitted'
    BY <2>1
  <2>6. PoolTypes'
    BY <2>0, <2>1, <2>2, <2>3, <2>4, <2>5
  <2>7. StopPhases'
    BY <2>0, <2>4
  <2> QED BY <2>6, <2>7
<1>4. CASE Pool!StopBegins
  BY <1>4 DEF Pool!StopBegins
<1>5. CASE Pool!DrainQueue
  BY <1>5 DEF Pool!DrainQueue
<1>6. CASE Pool!SetStopped
  BY <1>6 DEF Pool!SetStopped
<1>7. CASE Pool!NotifyStopped
  BY <1>7 DEF Pool!NotifyStopped
<1>8. CASE Pool!Join
  BY <1>8 DEF Pool!Join
<1>9. CASE Pool!Destroy
  BY <1>9 DEF Pool!Destroy
<1>10. CASE Pool!ClientSpuriousWakeup
  BY <1>10 DEF Pool!ClientSpuriousWakeup
<1> QED BY <1>1, <1>2, <1>3, <1>4, <1>5, <1>6, <1>7, <1>8, <1>9, <1>10,
           <1>11, <1>12 DEF Pool!ClientStep

\* The program, whose steps are the pool's, keeps it.
LEMMA PoolInvNext == PoolInv /\ [Next]_vars => PoolInv'
<1> SUFFICES ASSUME PoolInv, [Next]_vars PROVE PoolInv'
  OBVIOUS
<1>1. Pool!Next \/ UNCHANGED poolVars
  BY StepIsPoolStep
<1>2. CASE UNCHANGED poolVars
  BY <1>2 DEF poolVars, PoolInv, PoolTypes, StopPhases, AllExited
<1>3. CASE Pool!Gone
  BY <1>3 DEF Pool!Gone, Pool!poolVars, PoolInv, PoolTypes, StopPhases, AllExited
<1> QED BY <1>1, <1>2, <1>3, PoolInvWorker, PoolInvClient DEF Pool!Next

-----------------------------------------------------------------------------
(* The sentences and their ids *)

\* A finite set of numbers has a greatest one.
LEMMA GreatestExists ==
    ASSUME NEW S \in SUBSET Nat, IsFiniteSet(S), S # {}
    PROVE  \E x \in S : \A y \in S : x >= y
<1> DEFINE HasGreatest(T) == \E x \in T : \A y \in T : x >= y
           Sizes == {k \in Nat : \E T \in SUBSET S :
                        T # {} /\ Cardinality(T) = k /\ ~HasGreatest(T)}
<1> SUFFICES ASSUME ~HasGreatest(S) PROVE FALSE
  OBVIOUS
<1>1. Cardinality(S) \in Sizes
  BY FS_CardinalityType
<1>2. PICK k \in Sizes : \A j \in Sizes : ~(<<j, k>> \in OpToRel(<, Nat))
  BY <1>1, NatLessThanWellFounded, WFMin, Zenon
<1>3. \A j \in Sizes : ~(j < k)
  BY <1>2 DEF OpToRel
<1>4. PICK T \in SUBSET S : T # {} /\ Cardinality(T) = k /\ ~HasGreatest(T)
  OBVIOUS
<1>5. IsFiniteSet(T)
  BY FS_Subset
<1>6. PICK x \in T : TRUE
  BY <1>4
<1> DEFINE U == T \ {x}
<1>7. Cardinality(U) = k - 1
  BY <1>4, <1>5, FS_RemoveElement
<1>8. IsFiniteSet(U) /\ Cardinality(U) \in Nat
  BY <1>5, FS_Subset, FS_CardinalityType
<1>9. CASE U = {}
  BY <1>4, <1>9
<1>10. CASE U # {}
  <2>1. HasGreatest(U)
    <3>0. k \in Nat
      OBVIOUS
    <3> HIDE DEF Sizes, U
    <3>1. Cardinality(U) < k
      BY <3>0, <1>7, <1>8
    <3> USE DEF Sizes, U
    <3> QED BY <3>1, <1>3, <1>8, <1>10
  <2>2. PICK m \in U : \A y \in U : m >= y
    BY <2>1
  <2>3. \A y \in T : m >= y \/ y = x
    BY <2>2
  <2>4. CASE x >= m
    <3>1. \A y \in T : x >= y
      BY <2>2, <2>3, <2>4
    <3> QED BY <3>1, <1>4
  <2>5. CASE ~(x >= m)
    <3>1. \A y \in T : m >= y
      BY <2>2, <2>3, <2>5
    <3> QED BY <3>1, <1>4
  <2> QED BY <2>4, <2>5
<1> QED BY <1>9, <1>10

\* The largest id that the input or the command line gives.
GivenIds == {0} \cup UNION {s.segIds \cup {s.startId} : s \in Setups}

\* The ids that markup and the command line give are bounded by an id.
LEMMA GivenIdsBounded ==
    /\ Max(GivenIds) \in Nat
    /\ \A i \in GivenIds : i \in Nat /\ i <= Max(GivenIds)
    /\ Ids = 0 .. (NumTasks + Max(GivenIds))
<1>1. GivenIds \subseteq Nat
  BY MainAssumption DEF GivenIds, SetupType
<1>2. IsFiniteSet(GivenIds)
  BY MainAssumption, FS_Singleton, FS_Union DEF GivenIds
<1>3. GivenIds # {}
  BY DEF GivenIds
<1>4. \E x \in GivenIds : \A y \in GivenIds : x >= y
  BY <1>1, <1>2, <1>3, GreatestExists, GivenIds \in SUBSET Nat
<1>5. Max(GivenIds) \in GivenIds /\ \A y \in GivenIds : Max(GivenIds) >= y
  BY <1>4 DEF Max
<1>6. \A i \in GivenIds : i \in Nat /\ i <= Max(GivenIds)
  BY <1>1, <1>5
<1>7. Ids = 0 .. (NumTasks + Max(GivenIds))
  BY DEF Ids, GivenIds
<1> QED BY <1>1, <1>5, <1>6, <1>7

IdInv ==
    /\ setup \in Setups
    /\ lineCount \in 0 .. setup.lines
    /\ m_translationId \in Nat /\ m_translationId <= Max(GivenIds) + lineCount
    /\ id \in [Tasks -> Ids]
    /\ hasBest \in [Tasks -> BOOLEAN]
    /\ writes \in [Workers -> Nat]

\* What the assumption says of the program that runs.
LEMMA SetupFacts ==
    ASSUME setup \in Setups
    PROVE  /\ setup.program \in Programs
           /\ setup.collectors \subseteq Collectors
           /\ setup.lines \in 0 .. NumTasks
           /\ setup.segIds \subseteq GivenIds
           /\ setup.startId \in GivenIds
<1>1. setup \in SetupType
  BY MainAssumption
<1>2. setup.segIds \subseteq GivenIds /\ setup.startId \in GivenIds
  BY DEF GivenIds
<1> QED BY <1>1, <1>2 DEF SetupType

\* ReadSentence, spelled out: the new task gets an id for which the collectors'
\* maps have room, and nothing else about any task changes.
LEMMA ReadSentenceFacts ==
    ASSUME PoolInv, IdInv, ReadSentence
    PROVE  /\ IdInv'
           /\ submitted + 1 \in Tasks /\ submitted' = submitted
           /\ \A t \in Tasks : t # submitted + 1 =>
                 id'[t] = id[t] /\ hasBest'[t] = hasBest[t]
           /\ UNCHANGED <<setup, writes, completed, pc, task, collectorVars>>
<1> USE DEF IdInv
<1>1. PICK segId \in setup.segIds : \E best \in SearchResults :
          LET input == GetInput(segId)
              t     == submitted + 1
          IN /\ Pool!ReadInput
             /\ m_translationId' = input.next
             /\ id' = [id EXCEPT ![t] = TaskId(input)]
             /\ hasBest' = [hasBest EXCEPT ![t] = best]
  BY Zenon DEF ReadSentence
<1>2. PICK best \in SearchResults :
          /\ Pool!ReadInput
          /\ m_translationId' = GetInput(segId).next
          /\ id' = [id EXCEPT ![submitted + 1] = TaskId(GetInput(segId))]
          /\ hasBest' = [hasBest EXCEPT ![submitted + 1] = best]
  BY <1>1, Zenon
<1>3. /\ lineCount < setup.lines /\ lineCount' = lineCount + 1
      /\ UNCHANGED <<setup, writes, collectorVars>>
  BY DEF ReadSentence
<1>4. /\ submitted < NumTasks /\ submitted' = submitted
      /\ UNCHANGED <<completed, pc, task>>
  BY <1>2 DEF Pool!ReadInput, Pool!workerVars
<1>5. submitted \in 0 .. NumTasks /\ submitted + 1 \in Tasks
  BY <1>4, TasksAreNumbers, MainAssumption DEF PoolInv, PoolTypes
<1>6. /\ segId \in Nat /\ segId <= Max(GivenIds) /\ Max(GivenIds) \in Nat
      /\ setup.lines \in 0 .. NumTasks /\ lineCount \in Nat /\ lineCount < NumTasks
  BY SetupFacts, GivenIdsBounded, <1>3, MainAssumption
<1>7. /\ GetInput(segId).id \in Nat
      /\ GetInput(segId).id <= Max(GivenIds) + lineCount
      /\ GetInput(segId).next \in Nat
      /\ GetInput(segId).next <= Max(GivenIds) + lineCount + 1
  BY <1>6 DEF GetInput
<1>8. TaskId(GetInput(segId)) \in Ids
  <2> DEFINE input == GetInput(segId)
  <2> HIDE DEF input
  <2>1. setup.program \in Programs
    BY SetupFacts
  <2>2. submitted \in Ids /\ lineCount \in Ids /\ input.id \in Ids
    BY <1>5, <1>6, <1>7, GivenIdsBounded, MainAssumption DEF input
  <2>3. TaskId(input) \in {submitted, lineCount, input.id}
    BY <2>1 DEF TaskId, Programs
  <2> QED BY <2>2, <2>3 DEF input
<1>9. best \in BOOLEAN
  BY DEF SearchResults
<1>10. id' \in [Tasks -> Ids] /\ hasBest' \in [Tasks -> BOOLEAN]
  BY <1>2, <1>5, <1>8, <1>9
<1>11. m_translationId' \in Nat /\ m_translationId' <= Max(GivenIds) + lineCount'
  BY <1>2, <1>3, <1>6, <1>7
<1>12. lineCount' \in 0 .. setup'.lines /\ setup' \in Setups /\ writes' \in [Workers -> Nat]
  BY <1>3, <1>6
<1>13. \A t \in Tasks : t # submitted + 1 =>
          id'[t] = id[t] /\ hasBest'[t] = hasBest[t]
  BY <1>2, <1>5
<1> QED BY <1>3, <1>4, <1>5, <1>10, <1>11, <1>12, <1>13

-----------------------------------------------------------------------------
(* Which tasks have written to which collector *)

\* The task has called Write on the collector: its Run has returned, or a worker
\* is beyond that place of RunOrder.
Wrote(c) ==
    {t \in Tasks :
        /\ Enabled(c)
        /\ \/ t \in completed /\ c \in Writes(t)
           \/ \E w \in Workers :
                 /\ pc[w] = "running" /\ task[w] = t
                 /\ \E k \in DOMAIN RunOrder(t) : k <= writes[w] /\ RunOrder(t)[k] = c}

\* RunOrder is a sequence, whichever program runs.
LEMMA RunOrderIsSequence ==
    ASSUME setup \in Setups, NEW t
    PROVE  \E S : RunOrder(t) \in Seq(S)
<1> DEFINE S == {"wordGraph", "searchGraph", "alignment", "output", "nbest",
                 "latticeSamples", "detail", "extract", "extractInv"}
           a == IF hasBest[t] /\ "output" \in setup.collectors THEN <<"alignment">> ELSE <<>>
           d == IF hasBest[t] THEN <<"detail">> ELSE <<>>
           m1 == <<"wordGraph", "searchGraph">>
           m2 == <<"output", "nbest", "latticeSamples", "detail">>
           h1 == <<"output">>
           h2 == <<"nbest", "searchGraph">>
           e == <<"extract", "extractInv">>
<1>a. a \in Seq(S)
  <2>1. <<"alignment">> \in Seq(S) /\ <<>> \in Seq(S)
    OBVIOUS
  <2> HIDE DEF S
  <2> QED BY <2>1, Zenon
<1>d. d \in Seq(S)
  <2>1. <<"detail">> \in Seq(S) /\ <<>> \in Seq(S)
    OBVIOUS
  <2> HIDE DEF S
  <2> QED BY <2>1, Zenon
<1>m1. m1 \in Seq(S)
  OBVIOUS
<1>m2. m2 \in Seq(S)
  OBVIOUS
<1>h1. h1 \in Seq(S)
  OBVIOUS
<1>h2. h2 \in Seq(S)
  OBVIOUS
<1>e. e \in Seq(S)
  OBVIOUS
<1>2. RunOrder(t) = CASE setup.program = "moses"         -> m1 \o a \o m2
                      [] setup.program = "moses_chart"   -> h1 \o d \o h2
                      [] setup.program = "extract-rules" -> e
  BY DEF RunOrder
<1>3. setup.program \in {"moses", "moses_chart", "extract-rules"}
  BY SetupFacts DEF Programs
<1> HIDE DEF a, d, m1, m2, h1, h2, e
<1>4. m1 \o a \o m2 \in Seq(S) /\ h1 \o d \o h2 \in Seq(S)
  BY <1>a, <1>d, <1>m1, <1>m2, <1>h1, <1>h2
<1>5. RunOrder(t) \in Seq(S)
  BY <1>2, <1>3, <1>4, <1>e
<1> QED BY <1>5

PlacesAreNumbers ==
    setup \in Setups =>
        \A t : /\ Len(RunOrder(t)) \in Nat
               /\ DOMAIN RunOrder(t) = 1 .. Len(RunOrder(t))

\* The places of RunOrder are numbers.
LEMMA RunOrderDomain == PlacesAreNumbers
<1> USE DEF PlacesAreNumbers
<1> SUFFICES ASSUME setup \in Setups, NEW t
             PROVE  /\ Len(RunOrder(t)) \in Nat
                    /\ DOMAIN RunOrder(t) = 1 .. Len(RunOrder(t))
  OBVIOUS
<1>1. PICK S : RunOrder(t) \in Seq(S)
  BY RunOrderIsSequence
<1> QED BY <1>1

\* RunOrder depends on the program and on the outcome of the task's own search.
LEMMA RunOrderSame ==
    ASSUME NEW t, UNCHANGED setup, hasBest'[t] = hasBest[t]
    PROVE  RunOrder(t)' = RunOrder(t) /\ \A c : Enabled(c)' = Enabled(c)
BY DEF RunOrder, Enabled

\* A step that completes no task and lets no worker advance in Run, start in the
\* middle of one or abandon one leaves Wrote as it is.
LEMMA WroteSame ==
    ASSUME PoolInv, UNCHANGED <<setup, writes, completed>>, setup \in Setups,
           writes \in [Workers -> Nat],
           \A t \in 1 .. submitted : hasBest'[t] = hasBest[t],
           \A w \in Workers :
              \/ writes[w] = 0
              \/ (pc'[w] = "running" <=> pc[w] = "running") /\ task'[w] = task[w],
           NEW c
    PROVE  Wrote(c)' = Wrote(c)
<1>0. 1 .. submitted \subseteq Tasks
  BY TasksAreNumbers, MainAssumption DEF PoolInv, PoolTypes
<1>1. Enabled(c)' = Enabled(c)
  BY DEF Enabled
<1>2. ASSUME NEW t \in 1 .. submitted
      PROVE  RunOrder(t)' = RunOrder(t) /\ Writes(t)' = Writes(t)
  <2>1. RunOrder(t)' = RunOrder(t)
    BY RunOrderSame
  <2> QED BY <2>1 DEF Writes, Enabled
<1>3. ASSUME NEW t \in Tasks, NEW w \in Workers
      PROVE  (/\ pc[w] = "running" /\ task[w] = t
              /\ \E k \in DOMAIN RunOrder(t) : k <= writes[w] /\ RunOrder(t)[k] = c)'
             <=>
             /\ pc[w] = "running" /\ task[w] = t
             /\ \E k \in DOMAIN RunOrder(t) : k <= writes[w] /\ RunOrder(t)[k] = c
  <2>1. CASE writes[w] = 0
    <3>1. DOMAIN RunOrder(t) = 1 .. Len(RunOrder(t)) /\ Len(RunOrder(t)) \in Nat
      BY RunOrderDomain DEF PlacesAreNumbers
    <3>2. (DOMAIN RunOrder(t) = 1 .. Len(RunOrder(t)) /\ Len(RunOrder(t)) \in Nat)'
      <4>1. PlacesAreNumbers'
        BY RunOrderDomain, PTL
      <4> QED BY <4>1 DEF PlacesAreNumbers
    <3> QED BY <2>1, <3>1, <3>2
  <2>2. CASE t \in 1 .. submitted /\ writes[w] # 0
    BY <2>2, <1>2
  <2>3. CASE ~(t \in 1 .. submitted) /\ writes[w] # 0
    BY <2>3 DEF PoolInv, PoolTypes
  <2> QED BY <2>1, <2>2, <2>3
<1>4. ASSUME NEW t \in Tasks
      PROVE  (t \in completed /\ c \in Writes(t))' <=> t \in completed /\ c \in Writes(t)
  BY <1>2 DEF PoolInv, PoolTypes
<1> QED BY <1>1, <1>3, <1>4 DEF Wrote

\* A worker with no Write to go has written to all the enabled collectors.
LEMMA NoWriteLeft ==
    ASSUME setup \in Setups, NEW w \in Workers, writes[w] \in Nat, NextWrite(w) = {},
           NEW k \in DOMAIN RunOrder(task[w]), Enabled(RunOrder(task[w])[k])
    PROVE  k <= writes[w]
<1>1. PICK n \in Nat : n = Len(RunOrder(task[w])) /\ DOMAIN RunOrder(task[w]) = 1 .. n
  BY RunOrderDomain DEF PlacesAreNumbers
<1> SUFFICES ASSUME k > writes[w] PROVE FALSE
  BY <1>1
<1> DEFINE S == {j \in (writes[w] + 1) .. n : Enabled(RunOrder(task[w])[j])}
<1>2. S \subseteq Nat /\ k \in S
  BY <1>1
<1>3. PICK m \in S : \A j \in S : ~(<<j, m>> \in OpToRel(<, Nat))
  BY <1>2, NatLessThanWellFounded, WFMin, Zenon
<1>4. \A j \in S : ~(j < m)
  BY <1>2, <1>3 DEF OpToRel
<1>5. m \in (writes[w] + 1) .. n /\ Enabled(RunOrder(task[w])[m])
  OBVIOUS
<1>6. ASSUME NEW j \in (writes[w] + 1) .. (m - 1), Enabled(RunOrder(task[w])[j])
      PROVE  FALSE
  <2>1. j \in S /\ j < m
    BY <1>5, <1>6, <1>1
  <2> QED BY <2>1, <1>4
<1>7. m \in NextWrite(w)
  <2> HIDE DEF S
  <2> QED BY <1>1, <1>5, <1>6 DEF NextWrite
<1> QED BY <1>7

\* A Write adds the worker's task to those that have written to that collector.
LEMMA WroteGrows ==
    ASSUME PoolInv, UNCHANGED <<setup, hasBest, completed, pc, task>>, setup \in Setups,
           writes \in [Workers -> Nat],
           NEW w \in Workers, pc[w] = "running",
           NEW k \in NextWrite(w), writes' = [writes EXCEPT ![w] = k], NEW c
    PROVE  Wrote(c)' = IF c = RunOrder(task[w])[k] THEN Wrote(c) \cup {task[w]} ELSE Wrote(c)
<1>0. task[w] \in Tasks /\ writes[w] \in Nat
  BY TasksAreNumbers, MainAssumption DEF PoolInv, PoolTypes
<1>1. PICK u \in Tasks : u = task[w]
  BY <1>0
<1> DEFINE order == RunOrder(u)
           Before(t, v) == \E j \in DOMAIN RunOrder(t) : j <= writes[v] /\ RunOrder(t)[j] = c
           After(t, v) == \E j \in DOMAIN RunOrder(t) : j <= writes'[v] /\ RunOrder(t)[j] = c
<1>2. PICK n \in Nat : DOMAIN order = 1 .. n /\ n = Len(order)
  BY RunOrderDomain DEF PlacesAreNumbers
<1>3. \A t : RunOrder(t)' = RunOrder(t) /\ Writes(t)' = Writes(t) /\ Enabled(c)' = Enabled(c)
  BY DEF RunOrder, Writes, Enabled
<1>4. /\ k \in (writes[w] + 1) .. n /\ Enabled(order[k])
      /\ \A j \in (writes[w] + 1) .. (k - 1) : ~Enabled(order[j])
  BY <1>1, <1>2 DEF NextWrite
<1>5. \A t, v : v \in Workers /\ v # w => (After(t, v) <=> Before(t, v))
  OBVIOUS
<1>6. ASSUME Enabled(c)
      PROVE  After(u, w) <=> Before(u, w) \/ c = order[k]
  <2>1. writes'[w] = k
    OBVIOUS
  <2>2. \A j \in 1 .. n : j <= k => j <= writes[w] \/ j \in (writes[w] + 1) .. (k - 1) \/ j = k
    BY <1>0, <1>4
  <2>3. ASSUME NEW j \in 1 .. n, j <= k, order[j] = c
        PROVE  j <= writes[w] \/ c = order[k]
    BY <2>2, <2>3, <1>4, <1>6
  <2>4. \A j \in 1 .. n : j <= writes[w] => j <= k
    BY <1>0, <1>4
  <2>5. k \in 1 .. n
    BY <1>0, <1>4
  <2> QED BY <2>1, <2>3, <2>4, <2>5, <1>2
<1> HIDE DEF Before, After
<1>7. Wrote(c) = {t \in Tasks : Enabled(c) /\ ((t \in completed /\ c \in Writes(t))
                     \/ \E v \in Workers : pc[v] = "running" /\ task[v] = t /\ Before(t, v))}
  BY DEF Wrote, Before
<1>8. Wrote(c)' = {t \in Tasks : Enabled(c) /\ ((t \in completed /\ c \in Writes(t))
                     \/ \E v \in Workers : pc[v] = "running" /\ task[v] = t /\ After(t, v))}
  BY <1>3 DEF Wrote, After
<1>9. CASE ~Enabled(c)
  <2>1. c # RunOrder(task[w])[k]
    BY <1>1, <1>4, <1>9
  <2> QED BY <1>7, <1>8, <1>9, <2>1
<1>10. CASE Enabled(c) /\ c # order[k]
  <2>1. \A t, v : v \in Workers /\ task[v] = t => (After(t, v) <=> Before(t, v))
    BY <1>1, <1>5, <1>6, <1>10
  <2> QED BY <1>1, <1>7, <1>8, <1>10, <2>1
<1>11. CASE Enabled(c) /\ c = order[k]
  <2>1. After(u, w)
    BY <1>6, <1>11
  <2>2. \A t, v : v \in Workers /\ task[v] = t /\ t # u => (After(t, v) <=> Before(t, v))
    BY <1>1, <1>5
  <2>3. \A t \in Tasks : t # u => (t \in Wrote(c)' <=> t \in Wrote(c))
    BY <1>7, <1>8, <2>2
  <2>4. u \in Wrote(c)'
    BY <1>1, <1>8, <1>11, <2>1
  <2>5. Wrote(c) \subseteq Tasks /\ Wrote(c)' \subseteq Tasks
    BY <1>7, <1>8
  <2>6. Wrote(c)' = Wrote(c) \cup {u}
    BY <2>3, <2>4, <2>5
  <2> QED BY <1>1, <1>11, <2>6
<1> QED BY <1>9, <1>10, <1>11

\* When a task completes it has written where it ever will.
LEMMA WroteFinished ==
    ASSUME PoolInv, IdInv, NEW w \in Workers, FinishTask(w), NEW c
    PROVE  Wrote(c)' = Wrote(c)
<1>1. /\ pc[w] = "running" /\ NextWrite(w) = {}
      /\ completed' = completed \cup {task[w]}
      /\ task' = [task EXCEPT ![w] = NoTask] /\ pc' = [pc EXCEPT ![w] = "notify"]
      /\ writes' = [writes EXCEPT ![w] = 0]
      /\ UNCHANGED <<setup, hasBest>>
  BY DEF FinishTask, Pool!FinishJob
<1>2. task[w] \in Tasks /\ writes[w] \in Nat /\ setup \in Setups
  BY <1>1, TasksAreNumbers, MainAssumption DEF PoolInv, PoolTypes, IdInv
<1>3. PICK u \in Tasks : u = task[w]
  BY <1>2
<1> DEFINE Before(t, v) == \E j \in DOMAIN RunOrder(t) : j <= writes[v] /\ RunOrder(t)[j] = c
           After(t, v) == \E j \in DOMAIN RunOrder(t) : j <= writes'[v] /\ RunOrder(t)[j] = c
<1>4. \A t : RunOrder(t)' = RunOrder(t) /\ Writes(t)' = Writes(t) /\ Enabled(c)' = Enabled(c)
  BY <1>1 DEF RunOrder, Writes, Enabled
<1>5. \A t, v : v \in Workers /\ v # w => (After(t, v) <=> Before(t, v))
  BY <1>1 DEF IdInv
<1>6. Enabled(c) => (c \in Writes(u) <=> Before(u, w))
  <2>1. c \in Writes(u) <=> Enabled(c) /\ \E j \in DOMAIN RunOrder(u) : RunOrder(u)[j] = c
    BY DEF Writes, ToSet
  <2>2. \A j \in DOMAIN RunOrder(u) : Enabled(RunOrder(u)[j]) => j <= writes[w]
    BY <1>1, <1>2, <1>3, NoWriteLeft
  <2> QED BY <2>1, <2>2
<1> HIDE DEF Before, After
<1>7. Wrote(c) = {t \in Tasks : Enabled(c) /\ ((t \in completed /\ c \in Writes(t))
                     \/ \E v \in Workers : pc[v] = "running" /\ task[v] = t /\ Before(t, v))}
  BY DEF Wrote, Before
<1>8. Wrote(c)' = {t \in Tasks : Enabled(c) /\ ((t \in completed' /\ c \in Writes(t))
                     \/ \E v \in Workers : pc'[v] = "running" /\ task'[v] = t /\ After(t, v))}
  BY <1>4 DEF Wrote, After
<1>9. \A v \in Workers : v # w => pc'[v] = pc[v] /\ task'[v] = task[v]
  BY <1>1 DEF PoolInv, PoolTypes
<1>10. pc'[w] # "running"
  BY <1>1 DEF PoolInv, PoolTypes
<1>11. ASSUME NEW t \in Tasks, Enabled(c)
       PROVE  t \in Wrote(c)' <=> t \in Wrote(c)
  <2>1. CASE t = u
    <3>1. t \in completed' /\ t = task[w]
      BY <1>1, <1>3, <2>1
    <3>2. t \in Wrote(c)' <=>
             c \in Writes(u)
             \/ \E v \in Workers : pc'[v] = "running" /\ task'[v] = u /\ After(u, v)
      BY <1>8, <1>11, <2>1, <3>1
    <3>3. t \in Wrote(c) <=>
             (u \in completed /\ c \in Writes(u))
             \/ \E v \in Workers : pc[v] = "running" /\ task[v] = u /\ Before(u, v)
      BY <1>7, <1>11, <2>1
    <3>4. c \in Writes(u) <=> Before(u, w)
      BY <1>6, <1>11
    <3>5. (\E v \in Workers : pc[v] = "running" /\ task[v] = u /\ Before(u, v))
          <=> Before(u, w)
              \/ \E v \in Workers : pc'[v] = "running" /\ task'[v] = u /\ After(u, v)
      BY <1>1, <1>3, <1>5, <1>9, <1>10
    <3> QED BY <3>2, <3>3, <3>4, <3>5
  <2>2. CASE t # u
    <3>1. t \in completed' <=> t \in completed
      BY <1>1, <1>3, <2>2
    <3>2. (\E v \in Workers : pc[v] = "running" /\ task[v] = t /\ Before(t, v))
          <=> \E v \in Workers : pc'[v] = "running" /\ task'[v] = t /\ After(t, v)
      BY <1>1, <1>3, <1>5, <1>9, <1>10, <2>2
    <3> QED BY <1>7, <1>8, <1>11, <3>1, <3>2
  <2> QED BY <2>1, <2>2
<1>12. CASE ~Enabled(c)
  BY <1>7, <1>8, <1>12
<1> QED BY <1>7, <1>8, <1>11, <1>12

-----------------------------------------------------------------------------
(* The inductive invariant *)

\* Each collector has printed and cached the texts of those that have written to
\* it; its mutex is held by a task that is running, and whenever it is free the
\* text that is due is not cached.
CollectorsInv ==
    /\ m_outputs \in [Collectors -> [Ids -> Tasks \cup {NoTask}]]
    /\ m_nextOutput \in [Collectors -> Nat]
    /\ m_outStream \in [Collectors -> Seq(Tasks)]
    /\ m_mutex \in [Collectors -> Tasks \cup {NoTask}]
    /\ \A c \in Collectors :
          /\ ColInv(m_outputs[c], m_nextOutput[c], m_outStream[c], Wrote(c), id)
          /\ IF m_mutex[c] = NoTask
             THEN ~Col!Cached(c, m_nextOutput[c])
             ELSE \E w \in Workers : pc[w] = "running" /\ task[w] = m_mutex[c]
    /\ \A w \in Workers : pc[w] # "running" => writes[w] = 0

PrintInv == PoolInv /\ IdInv /\ CollectorsInv

\* It holds when the program starts.
LEMMA PrintInvInit == Init => PrintInv
<1> SUFFICES ASSUME Init PROVE PrintInv
  OBVIOUS
<1> USE DEF Init, Pool!Init, Col!CollectorInit
<1>1. PoolInv
  <2>1. PoolTypes
    BY MainAssumption DEF PoolTypes, Pool!WorkerPc
  <2>2. StopPhases
    BY DEF StopPhases
  <2> QED BY <2>1, <2>2 DEF PoolInv
<1>2. IdInv
  <2>1. 0 \in Ids
    BY GivenIdsBounded, MainAssumption
  <2>2. setup.startId \in Nat /\ setup.startId <= Max(GivenIds) + 0
    BY SetupFacts, GivenIdsBounded
  <2>3. 0 \in 0 .. setup.lines
    BY SetupFacts, MainAssumption
  <2> QED BY <2>1, <2>2, <2>3 DEF IdInv
<1>3. CollectorsInv
  <2>1. \A c \in Collectors : Wrote(c) = {}
    BY MainAssumption DEF Wrote
  <2>2. ASSUME NEW c \in Collectors
        PROVE  ColInv(m_outputs[c], m_nextOutput[c], m_outStream[c], Wrote(c), id)
    BY <1>2, <2>1 DEF ColInv, IdInv
  <2>3. \A c \in Collectors : ~Col!Cached(c, m_nextOutput[c])
    BY DEF Col!Cached
  <2> QED BY <2>2, <2>3 DEF CollectorsInv
<1> QED BY <1>1, <1>2, <1>3 DEF PrintInv

\* A step that leaves the collectors alone, and the worker that holds a mutex in
\* its Run.
LEMMA CollectorsFrame ==
    ASSUME PrintInv, UNCHANGED <<m_outputs, m_nextOutput, m_outStream, m_mutex>>,
           \A c \in Collectors : Wrote(c)' = Wrote(c),
           id' \in [Tasks -> Ids],
           \A c \in Collectors : \A t \in Wrote(c) : id'[t] = id[t],
           \A c \in Collectors : \A w \in Workers :
              pc[w] = "running" /\ task[w] = m_mutex[c] =>
                 pc'[w] = "running" /\ task'[w] = task[w],
           \A w \in Workers : pc'[w] # "running" => writes'[w] = 0
    PROVE  CollectorsInv'
<1>1. ASSUME NEW c \in Collectors
      PROVE  ColInv(m_outputs'[c], m_nextOutput'[c], m_outStream'[c], Wrote(c)', id')
  <2>1. ColInv(m_outputs[c], m_nextOutput[c], m_outStream[c], Wrote(c), id)
    BY DEF PrintInv, CollectorsInv
  <2>2. ColInv(m_outputs[c], m_nextOutput[c], m_outStream[c], Wrote(c), id')
    BY <2>1, OthersIdsKeep
  <2> QED BY <2>2
<1>2. \A c \in Collectors :
         IF m_mutex[c] = NoTask
         THEN ~Col!Cached(c, m_nextOutput[c])
         ELSE \E w \in Workers : pc'[w] = "running" /\ task'[w] = m_mutex[c]
  BY DEF PrintInv, CollectorsInv
<1>3. \A c \in Collectors : Col!Cached(c, m_nextOutput[c])' <=> Col!Cached(c, m_nextOutput[c])
  BY DEF Col!Cached
<1> QED BY <1>1, <1>2, <1>3 DEF PrintInv, CollectorsInv

\* Only tasks that have been submitted have written anywhere.
LEMMA WritersSubmitted ==
    ASSUME PoolInv, NEW c PROVE Wrote(c) \subseteq 1 .. submitted
BY DEF Wrote, PoolInv, PoolTypes

\* The steps of the main thread.
LEMMA CollectorsInvMain == PrintInv /\ MainStep => IdInv' /\ CollectorsInv'
<1> SUFFICES ASSUME PrintInv, MainStep PROVE IdInv' /\ CollectorsInv'
  OBVIOUS
<1> USE DEF PrintInv
<1>0. /\ setup \in Setups /\ writes \in [Workers -> Nat] /\ id \in [Tasks -> Ids]
      /\ pc \in [Workers -> Pool!WorkerPc]
      /\ \A w \in Workers : pc[w] # "running" => writes[w] = 0
  BY DEF IdInv, CollectorsInv, PoolInv, PoolTypes
<1>1. CASE ReadSentence
  <2>1. /\ IdInv'
        /\ \A t \in Tasks : t # submitted + 1 => id'[t] = id[t] /\ hasBest'[t] = hasBest[t]
        /\ UNCHANGED <<setup, writes, completed, pc, task, collectorVars>>
    BY <1>1, ReadSentenceFacts
  <2>2. 1 .. submitted \subseteq Tasks /\ \A t \in 1 .. submitted : t # submitted + 1
    BY TasksAreNumbers, MainAssumption DEF PoolInv, PoolTypes
  <2>3. \A t \in 1 .. submitted : id'[t] = id[t] /\ hasBest'[t] = hasBest[t]
    BY <2>1, <2>2
  <2>4. \A c : Wrote(c)' = Wrote(c)
    BY <1>0, <2>1, <2>3, WroteSame
  <2>5. \A c \in Collectors : \A t \in Wrote(c) : id'[t] = id[t]
    BY <2>3, WritersSubmitted
  <2>6. id' \in [Tasks -> Ids]
    BY <2>1 DEF IdInv
  <2>7. CollectorsInv'
    BY <1>0, <2>1, <2>4, <2>5, <2>6, CollectorsFrame DEF collectorVars
  <2> QED BY <2>1, <2>7
<1>2. CASE SkipSentence
  <2>1. UNCHANGED <<poolVars, collectorVars, setup, m_translationId, id, hasBest, writes>>
    BY <1>2 DEF SkipSentence
  <2>2. IdInv'
    <3>1. setup.lines \in 0 .. NumTasks /\ Max(GivenIds) \in Nat
      BY <1>0, SetupFacts, GivenIdsBounded
    <3>2. lineCount < setup.lines /\ lineCount' = lineCount + 1
      BY <1>2 DEF SkipSentence
    <3>3. lineCount' \in 0 .. setup.lines
      BY <3>1, <3>2, MainAssumption DEF IdInv
    <3>4. m_translationId \in Nat /\ m_translationId <= Max(GivenIds) + lineCount'
      BY <3>1, <3>2, MainAssumption DEF IdInv
    <3> QED BY <2>1, <3>3, <3>4 DEF IdInv
  <2>3. UNCHANGED <<pc, task, completed>>
    BY <2>1 DEF poolVars
  <2>4. \A c : Wrote(c)' = Wrote(c)
    BY <1>0, <2>1, <2>3, WroteSame
  <2>5. CollectorsInv'
    BY <1>0, <2>1, <2>3, <2>4, CollectorsFrame DEF collectorVars
  <2> QED BY <2>2, <2>5
<1>3. CASE InputThrows \/ ClientElsewhere
  <2>1. UNCHANGED <<collectorVars, mainVars>>
    BY <1>3 DEF InputThrows, ClientElsewhere
  <2>2. UNCHANGED <<task, completed>> /\
        \A w \in Workers : pc'[w] = "running" <=> pc[w] = "running"
    BY <1>3, <1>0 DEF InputThrows, ClientElsewhere, Pool!InputThrows, Pool!EndOfInput,
        Pool!SubmitWaits, Pool!Submit, Pool!StopBegins, Pool!DrainQueue, Pool!SetStopped,
        Pool!NotifyStopped, Pool!Join, Pool!Destroy, Pool!ClientSpuriousWakeup,
        Pool!workerVars
  <2>3. UNCHANGED <<setup, writes, hasBest, id, lineCount, m_translationId>>
    BY <2>1 DEF mainVars
  <2>4. IdInv'
    BY <2>3 DEF IdInv
  <2>5. \A c : Wrote(c)' = Wrote(c)
    BY <1>0, <2>2, <2>3, WroteSame
  <2>6. CollectorsInv'
    BY <1>0, <2>1, <2>2, <2>3, <2>5, CollectorsFrame DEF collectorVars
  <2> QED BY <2>4, <2>6
<1> QED BY <1>1, <1>2, <1>3 DEF MainStep

\* A worker's call of Write.
LEMMA CollectorsInvWrite ==
    ASSUME PrintInv, NEW w \in Workers, WriteNext(w) PROVE CollectorsInv'
<1> USE DEF PrintInv
<1>0. /\ setup \in Setups /\ writes \in [Workers -> Nat] /\ id \in [Tasks -> Ids]
      /\ \A v \in Workers : pc[v] # "running" => writes[v] = 0
      /\ m_outputs \in [Collectors -> [Ids -> Tasks \cup {NoTask}]]
      /\ m_nextOutput \in [Collectors -> Nat]
      /\ m_outStream \in [Collectors -> Seq(Tasks)]
      /\ m_mutex \in [Collectors -> Tasks \cup {NoTask}]
  BY DEF IdInv, CollectorsInv
<1>1. PICK k \in NextWrite(w) :
         /\ \/ Col!WriteExpected(RunOrder(task[w])[k], task[w], id[task[w]])
            \/ Col!WriteCached(RunOrder(task[w])[k], task[w], id[task[w]])
         /\ writes' = [writes EXCEPT ![w] = k]
  BY DEF WriteNext
<1>2. /\ pc[w] = "running"
      /\ UNCHANGED <<setup, hasBest, id, pc, task, completed>>
  BY DEF WriteNext, poolVars
<1>3. PICK t \in Tasks : t = task[w]
  BY <1>2, TasksAreNumbers, MainAssumption DEF PoolInv, PoolTypes
<1>4. PICK c \in Collectors : c = RunOrder(task[w])[k]
  BY <1>0, SetupFacts DEF NextWrite, Enabled
<1>5. \A d : Wrote(d)' = IF d = c THEN Wrote(d) \cup {t} ELSE Wrote(d)
  BY <1>0, <1>1, <1>2, <1>3, <1>4, WroteGrows
<1>6. ColInv(m_outputs[c], m_nextOutput[c], m_outStream[c], Wrote(c), id)
  BY DEF CollectorsInv
<1>7. m_mutex[c] = NoTask /\ ~Col!Cached(c, m_nextOutput[c]) /\ t # NoTask
  BY <1>1, <1>3, <1>4, TasksAreNumbers
     DEF CollectorsInv, Col!WriteExpected, Col!WriteCached
<1>8. \A v \in Workers : pc'[v] # "running" => writes'[v] = 0
  BY <1>0, <1>1, <1>2
<1>9. CASE Col!WriteExpected(c, t, id[t])
  <2>1. /\ id[t] = m_nextOutput[c]
        /\ m_outStream' = [m_outStream EXCEPT ![c] = Append(@, t)]
        /\ m_nextOutput' = [m_nextOutput EXCEPT ![c] = @ + 1]
        /\ m_mutex' = [m_mutex EXCEPT ![c] = t]
        /\ m_outputs' = m_outputs
    BY <1>9 DEF Col!WriteExpected
  <2>2. ColInv(m_outputs[c], m_nextOutput[c] + 1, Append(m_outStream[c], t),
               Wrote(c) \cup {t}, id)
    BY <1>6, <2>1, PrintKeeps
  <2>3. ASSUME NEW d \in Collectors
        PROVE  /\ ColInv(m_outputs'[d], m_nextOutput'[d], m_outStream'[d], Wrote(d)', id')
               /\ IF m_mutex'[d] = NoTask
                  THEN ~Col!Cached(d, m_nextOutput[d])'
                  ELSE \E v \in Workers : pc'[v] = "running" /\ task'[v] = m_mutex'[d]
    <3>1. CASE d = c
      <4>1. m_mutex'[d] = t /\ pc'[w] = "running" /\ task'[w] = t
        BY <1>0, <1>2, <1>3, <2>1, <3>1
      <4>2. /\ m_nextOutput'[d] = m_nextOutput[c] + 1
            /\ m_outStream'[d] = Append(m_outStream[c], t)
            /\ m_outputs'[d] = m_outputs[c]
            /\ Wrote(d)' = Wrote(c) \cup {t} /\ id' = id
        BY <1>0, <1>2, <1>5, <2>1, <3>1
      <4> QED BY <4>1, <4>2, <2>2, <1>7
    <3>2. CASE d # c
      <4>1. /\ m_nextOutput'[d] = m_nextOutput[d] /\ m_outStream'[d] = m_outStream[d]
            /\ m_outputs'[d] = m_outputs[d] /\ m_mutex'[d] = m_mutex[d]
            /\ Wrote(d)' = Wrote(d) /\ id' = id
        BY <1>0, <1>2, <1>5, <2>1, <3>2
      <4> QED BY <1>2, <4>1 DEF CollectorsInv, Col!Cached
    <3> QED BY <3>1, <3>2
  <2>4. /\ m_outputs' \in [Collectors -> [Ids -> Tasks \cup {NoTask}]]
        /\ m_nextOutput' \in [Collectors -> Nat]
        /\ m_outStream' \in [Collectors -> Seq(Tasks)]
        /\ m_mutex' \in [Collectors -> Tasks \cup {NoTask}]
    BY <1>0, <2>1
  <2> QED BY <1>8, <2>3, <2>4 DEF CollectorsInv
<1>10. CASE Col!WriteCached(c, t, id[t])
  <2>1. /\ id[t] # m_nextOutput[c]
        /\ m_outputs' = [m_outputs EXCEPT ![c] = [@ EXCEPT ![id[t]] = t]]
        /\ UNCHANGED <<m_nextOutput, m_outStream, m_mutex>>
    BY <1>10 DEF Col!WriteCached
  <2>2. ColInv([m_outputs[c] EXCEPT ![id[t]] = t], m_nextOutput[c], m_outStream[c],
               Wrote(c) \cup {t}, id)
    BY <1>6, CacheKeeps
  <2>3. ASSUME NEW d \in Collectors
        PROVE  /\ ColInv(m_outputs'[d], m_nextOutput'[d], m_outStream'[d], Wrote(d)', id')
               /\ IF m_mutex'[d] = NoTask
                  THEN ~Col!Cached(d, m_nextOutput[d])'
                  ELSE \E v \in Workers : pc'[v] = "running" /\ task'[v] = m_mutex'[d]
    <3>1. CASE d = c
      <4>1. m_outputs'[d] = [m_outputs[c] EXCEPT ![id[t]] = t]
        BY <1>0, <2>1, <3>1
      <4>2. m_nextOutput[c] \in Ids => m_outputs'[c][m_nextOutput[c]] = NoTask
        BY <1>0, <1>7, <2>1, <3>1, <4>1 DEF Col!Cached
      <4>3. ~Col!Cached(d, m_nextOutput[d])'
        BY <2>1, <3>1, <4>2 DEF Col!Cached
      <4>4. ColInv(m_outputs'[d], m_nextOutput'[d], m_outStream'[d], Wrote(d)', id')
        BY <1>2, <1>5, <2>1, <2>2, <3>1, <4>1
      <4> QED BY <1>7, <2>1, <3>1, <4>3, <4>4
    <3>2. CASE d # c
      <4>1. m_outputs'[d] = m_outputs[d] /\ Wrote(d)' = Wrote(d) /\ id' = id
        BY <1>0, <1>2, <1>5, <2>1, <3>2
      <4> QED BY <1>2, <2>1, <4>1 DEF CollectorsInv, Col!Cached
    <3> QED BY <3>1, <3>2
  <2>4. m_outputs' \in [Collectors -> [Ids -> Tasks \cup {NoTask}]]
    BY <1>0, <2>1
  <2> QED BY <1>0, <1>8, <2>1, <2>3, <2>4 DEF CollectorsInv
<1> QED BY <1>1, <1>3, <1>4, <1>9, <1>10

\* An iteration or the end of the drain, by the worker that holds the mutex.
LEMMA CollectorsInvDrain ==
    ASSUME PrintInv, NEW w \in Workers, Drain(w) PROVE CollectorsInv'
<1> USE DEF PrintInv
<1>0. /\ setup \in Setups /\ writes \in [Workers -> Nat] /\ id \in [Tasks -> Ids]
      /\ \A v \in Workers : pc[v] # "running" => writes[v] = 0
      /\ m_outputs \in [Collectors -> [Ids -> Tasks \cup {NoTask}]]
      /\ m_nextOutput \in [Collectors -> Nat]
      /\ m_outStream \in [Collectors -> Seq(Tasks)]
      /\ m_mutex \in [Collectors -> Tasks \cup {NoTask}]
  BY DEF IdInv, CollectorsInv
<1>1. PICK c \in Collectors :
         /\ Draining(w, c)
         /\ (\E key \in Col!FreedKeys(c) : Col!DrainNext(c, key)) \/ Col!DrainEnd(c)
  BY DEF Drain
<1>2. /\ pc[w] = "running" /\ m_mutex[c] = task[w] /\ m_mutex[c] # NoTask
      /\ UNCHANGED <<setup, hasBest, id, pc, task, completed, writes>>
  BY <1>1 DEF Drain, Draining, Col!DrainNext, Col!DrainEnd, poolVars, mainVars
<1>3. \A d : Wrote(d)' = Wrote(d)
  BY <1>0, <1>2, WroteSame
<1>4. ColInv(m_outputs[c], m_nextOutput[c], m_outStream[c], Wrote(c), id)
  BY DEF CollectorsInv
<1>5. ASSUME NEW key, Col!DrainNext(c, key) PROVE CollectorsInv'
  <2> DEFINE due == m_nextOutput[c]
  <2>1. /\ due \in Ids /\ m_outputs[c][due] # NoTask
        /\ m_outStream' = [m_outStream EXCEPT ![c] = Append(@, m_outputs[c][due])]
        /\ m_outputs' = [m_outputs EXCEPT ![c] = [@ EXCEPT ![due] = NoTask]]
        /\ m_nextOutput' = [m_nextOutput EXCEPT ![c] = due + 1]
        /\ m_mutex' = m_mutex
    BY <1>5 DEF Col!DrainNext, Col!Cached
  <2>2. ColInv([m_outputs[c] EXCEPT ![due] = NoTask], due + 1,
               Append(m_outStream[c], m_outputs[c][due]), Wrote(c), id)
    BY <1>4, <2>1, DrainKeeps
  <2>3. ASSUME NEW d \in Collectors
        PROVE  /\ ColInv(m_outputs'[d], m_nextOutput'[d], m_outStream'[d], Wrote(d)', id')
               /\ IF m_mutex'[d] = NoTask
                  THEN ~Col!Cached(d, m_nextOutput[d])'
                  ELSE \E v \in Workers : pc'[v] = "running" /\ task'[v] = m_mutex'[d]
    <3>1. CASE d = c
      <4>1. /\ m_outputs'[d] = [m_outputs[c] EXCEPT ![due] = NoTask]
            /\ m_nextOutput'[d] = due + 1
            /\ m_outStream'[d] = Append(m_outStream[c], m_outputs[c][due])
        BY <1>0, <2>1, <3>1
      <4> QED BY <1>2, <1>3, <2>1, <2>2, <3>1, <4>1
    <3>2. CASE d # c
      <4>1. /\ m_nextOutput'[d] = m_nextOutput[d] /\ m_outStream'[d] = m_outStream[d]
            /\ m_outputs'[d] = m_outputs[d] /\ m_mutex'[d] = m_mutex[d]
        BY <1>0, <2>1, <3>2
      <4> QED BY <1>2, <1>3, <4>1 DEF CollectorsInv, Col!Cached
    <3> QED BY <3>1, <3>2
  <2>4. m_outputs' \in [Collectors -> [Ids -> Tasks \cup {NoTask}]]
    BY <1>0, <2>1
  <2>5. m_nextOutput' \in [Collectors -> Nat]
    BY <1>0, <2>1
  <2>6. m_outStream' \in [Collectors -> Seq(Tasks)]
    <3>1. m_outputs[c][due] \in Tasks
      BY <1>0, <2>1
    <3> QED BY <1>0, <2>1, <3>1
  <2> QED BY <1>0, <1>2, <2>1, <2>3, <2>4, <2>5, <2>6 DEF CollectorsInv
<1>6. CASE Col!DrainEnd(c)
  <2>1. /\ ~Col!Cached(c, m_nextOutput[c])
        /\ m_mutex' = [m_mutex EXCEPT ![c] = NoTask]
        /\ UNCHANGED <<m_outputs, m_nextOutput, m_outStream>>
    BY <1>6 DEF Col!DrainEnd
  <2>2. ASSUME NEW d \in Collectors
        PROVE  /\ ColInv(m_outputs'[d], m_nextOutput'[d], m_outStream'[d], Wrote(d)', id')
               /\ IF m_mutex'[d] = NoTask
                  THEN ~Col!Cached(d, m_nextOutput[d])'
                  ELSE \E v \in Workers : pc'[v] = "running" /\ task'[v] = m_mutex'[d]
    <3>1. ColInv(m_outputs'[d], m_nextOutput'[d], m_outStream'[d], Wrote(d)', id')
      BY <1>2, <1>3, <2>1 DEF CollectorsInv
    <3>2. Col!Cached(d, m_nextOutput[d])' <=> Col!Cached(d, m_nextOutput[d])
      BY <2>1 DEF Col!Cached
    <3>3. CASE d = c
      BY <1>0, <2>1, <3>1, <3>2, <3>3
    <3>4. CASE d # c
      <4>1. m_mutex'[d] = m_mutex[d]
        BY <1>0, <2>1, <3>4
      <4> QED BY <1>2, <3>1, <3>2, <4>1 DEF CollectorsInv
    <3> QED BY <3>3, <3>4
  <2>3. m_mutex' \in [Collectors -> Tasks \cup {NoTask}]
    BY <1>0, <2>1
  <2> QED BY <1>0, <1>2, <2>1, <2>2, <2>3 DEF CollectorsInv
<1> QED BY <1>1, <1>5, <1>6

\* The worker's steps outside the collectors: its task ends, or it is elsewhere in
\* Execute.
LEMMA CollectorsInvExecute ==
    ASSUME PrintInv, NEW w \in Workers, FinishTask(w) \/ PoolElsewhere(w)
    PROVE  CollectorsInv'
<1> USE DEF PrintInv
<1>0. /\ setup \in Setups /\ writes \in [Workers -> Nat] /\ id \in [Tasks -> Ids]
      /\ \A v \in Workers : pc[v] # "running" => writes[v] = 0
      /\ pc \in [Workers -> Pool!WorkerPc] /\ task \in [Workers -> Tasks \cup {NoTask}]
  BY DEF IdInv, CollectorsInv, PoolInv, PoolTypes
<1>1. CASE FinishTask(w)
  <2>1. /\ task' = [task EXCEPT ![w] = NoTask] /\ pc' = [pc EXCEPT ![w] = "notify"]
        /\ writes' = [writes EXCEPT ![w] = 0]
        /\ pc[w] = "running" /\ \A c \in Collectors : ~Draining(w, c)
        /\ UNCHANGED <<id, m_outputs, m_nextOutput, m_outStream, m_mutex>>
    BY <1>1 DEF FinishTask, Pool!FinishJob, collectorVars
  <2>2. \A c \in Collectors : Wrote(c)' = Wrote(c)
    BY <1>1, WroteFinished
  <2>3. ASSUME NEW c \in Collectors, NEW v \in Workers,
               pc[v] = "running", task[v] = m_mutex[c]
        PROVE  pc'[v] = "running" /\ task'[v] = task[v]
    <3>1. v # w
      BY <2>1, <2>3 DEF Draining
    <3> QED BY <1>0, <2>1, <2>3, <3>1
  <2>4. \A v \in Workers : pc'[v] # "running" => writes'[v] = 0
    BY <1>0, <2>1
  <2> QED BY <1>0, <2>1, <2>2, <2>3, <2>4, CollectorsFrame
<1>2. CASE PoolElsewhere(w)
  <2>1. UNCHANGED <<collectorVars, mainVars, completed>>
    BY <1>2 DEF PoolElsewhere, Pool!WaitForJob, Pool!TakeJob, Pool!NotifyAvailable,
                Pool!TestStopped
  <2>2. UNCHANGED <<setup, writes, hasBest, id>>
    BY <2>1 DEF mainVars
  <2>3. pc[w] # "running" /\ \A v \in Workers : v # w => pc'[v] = pc[v] /\ task'[v] = task[v]
    BY <1>0, <1>2 DEF PoolElsewhere, Pool!WaitForJob, Pool!TakeJob, Pool!NotifyAvailable,
                Pool!TestStopped
  <2>4. writes[w] = 0
    BY <1>0, <2>3
  <2>5. \A c : Wrote(c)' = Wrote(c)
    BY <1>0, <2>1, <2>2, <2>3, <2>4, WroteSame
  <2>6. \A v \in Workers : pc'[v] # "running" => writes'[v] = 0
    BY <1>0, <2>2, <2>3, <2>4
  <2> QED BY <1>0, <2>1, <2>2, <2>3, <2>5, <2>6, CollectorsFrame DEF collectorVars
<1> QED BY <1>1, <1>2

\* Every step of the program keeps the invariant.
LEMMA PrintInvNext == PrintInv /\ [Next]_vars => PrintInv'
<1> SUFFICES ASSUME PrintInv, [Next]_vars PROVE PrintInv'
  OBVIOUS
<1>1. PoolInv'
  BY PoolInvNext DEF PrintInv
<1>2. CASE MainStep
  BY <1>1, <1>2, CollectorsInvMain DEF PrintInv
<1>3. ASSUME NEW w \in Workers, WorkerStep(w) PROVE PrintInv'
  <2>1. IdInv'
    <3>1. CASE WriteNext(w)
      <4>1. PICK k \in NextWrite(w) : writes' = [writes EXCEPT ![w] = k]
        BY <3>1 DEF WriteNext
      <4>2. k \in Nat
        BY RunOrderDomain, <4>1 DEF NextWrite, PlacesAreNumbers, PrintInv, IdInv
      <4> QED BY <3>1, <4>1, <4>2 DEF WriteNext, PrintInv, IdInv
    <3>2. CASE Drain(w) \/ PoolElsewhere(w)
      BY <3>2 DEF Drain, PoolElsewhere, mainVars, PrintInv, IdInv
    <3>3. CASE FinishTask(w)
      BY <3>3 DEF FinishTask, PrintInv, IdInv
    <3> QED BY <1>3, <3>1, <3>2, <3>3 DEF WorkerStep
  <2>2. CollectorsInv'
    BY <1>3, CollectorsInvWrite, CollectorsInvDrain, CollectorsInvExecute DEF WorkerStep
  <2> QED BY <1>1, <2>1, <2>2 DEF PrintInv
<1>4. CASE UNCHANGED vars
  <2>1. UNCHANGED <<setup, hasBest, id, writes, lineCount, m_translationId,
                    pc, task, completed, collectorVars>>
    BY <1>4 DEF vars, poolVars, mainVars
  <2>2. IdInv'
    BY <2>1 DEF PrintInv, IdInv
  <2>3. \A c : Wrote(c)' = Wrote(c)
    BY <2>1, WroteSame DEF PrintInv, IdInv
  <2>4. CollectorsInv'
    BY <2>1, <2>3, CollectorsFrame DEF collectorVars, PrintInv, IdInv, CollectorsInv
  <2> QED BY <1>1, <2>2, <2>4 DEF PrintInv
<1> QED BY <1>2, <1>3, <1>4 DEF Next, Exited

\* The invariant behind the theorem that follows: what each stream holds and each
\* map caches are the texts of the tasks that have written there, each under its id.
THEOREM PrintInvariant == Spec => []PrintInv
BY PrintInvInit, PrintInvNext, PTL DEF Spec

\* When Stop(true) has returned, each stream holds, in the order of the ids, a text
\* for each of those below the first one nobody wrote, and no others.
THEOREM PrintedInOrder == Spec => []PrintedUpToFirstGap
<1>1. PrintInv => PrintedUpToFirstGap
  <2> SUFFICES ASSUME PrintInv, clientPc = "returned", NEW c \in setup.collectors
               PROVE  /\ Len(m_outStream[c]) = FirstGap(c)
                      /\ \A k \in 1 .. FirstGap(c) : id[m_outStream[c][k]] = k - 1
    BY DEF PrintedUpToFirstGap
  <2> DEFINE n == m_nextOutput[c]
             s == m_outStream[c]
             o == m_outputs[c]
  <2>1. c \in Collectors
    BY SetupFacts DEF PrintInv, IdInv
  <2>2. \A w \in Workers : pc[w] # "running"
    BY DEF PrintInv, PoolInv, StopPhases, AllExited
  <2>3. ColInv(o, n, s, Wrote(c), id) /\ ~(n \in Ids /\ o[n] # NoTask)
    BY <2>1, <2>2 DEF PrintInv, CollectorsInv, Col!Cached
  <2>4. Wrote(c) = {t \in completed : c \in Writes(t)}
    <3>1. completed \subseteq Tasks
      BY TasksAreNumbers, MainAssumption DEF PrintInv, PoolInv, PoolTypes
    <3>2. Enabled(c)
      BY DEF Enabled
    <3> QED BY <2>2, <3>1, <3>2 DEF Wrote
  <2> DEFINE IsGap(i) == /\ \A t \in Tasks : t \in completed /\ c \in Writes(t) => id[t] # i
                         /\ \A j \in 0 .. (i - 1) :
                               \E t \in completed : c \in Writes(t) /\ id[t] = j
  <2>5. completed \subseteq Tasks
    BY TasksAreNumbers, MainAssumption DEF PrintInv, PoolInv, PoolTypes
  <2>6. \A i : IsGap(i) <=> /\ \A t \in Wrote(c) : id[t] # i
                            /\ \A j \in 0 .. (i - 1) : \E t \in Wrote(c) : id[t] = j
    BY <2>4, <2>5
  <2> HIDE DEF n, s, o, IsGap
  <2>7. n \in 0 .. NumTasks /\ \A i \in 0 .. NumTasks : IsGap(i) <=> i = n
    BY <2>3, <2>6, DueIsFirstGap
  <2>8. FirstGap(c) = CHOOSE i \in 0 .. NumTasks : IsGap(i)
    BY DEF FirstGap, IsGap
  <2>9. FirstGap(c) = n
    BY <2>7, <2>8
  <2>10. Len(s) = n /\ \A k \in 1 .. n : id[s[k]] = k - 1
    BY <2>3 DEF ColInv
  <2> QED BY <2>9, <2>10 DEF s
<1> QED BY <1>1, PrintInvariant, PTL
=============================================================================
