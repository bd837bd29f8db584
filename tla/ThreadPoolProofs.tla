--------------------------- MODULE ThreadPoolProofs ---------------------------
(* Theorems about ThreadPool, for any number of workers, any number of tasks *)
(* and any queue limit.                                                      *)
EXTENDS ThreadPool, SequenceTheorems, TLAPS

USE DEF Tasks

-----------------------------------------------------------------------------
\* A client inside Submit has a task that is not counted yet.
SubmitPending ==
    clientPc \in {"submit", "submitWaiting", "submitWoken"} => submitted < NumTasks

\* A worker that runs has something to run.
RunningHasTask == \A w \in Workers : pc[w] = "running" => task[w] \in Tasks

TypeInv == TypeOK /\ SubmitPending /\ RunningHasTask

\* Type correctness is inductive together with what a client in Submit
\* and a running worker hold.
LEMMA TypeNext == TypeInv /\ [Next]_poolVars => TypeInv'
<1> SUFFICES ASSUME TypeInv, [Next]_poolVars PROVE TypeInv'
  OBVIOUS
<1> USE PoolAssumption DEF TypeInv, TypeOK, SubmitPending, RunningHasTask, WorkerPc, ClientPc
<1>1. ASSUME NEW w \in Workers, WorkerStep(w) PROVE TypeInv'
  <2>1. CASE WaitForJob(w)
    BY <2>1 DEF WaitForJob, clientVars
  <2>2. CASE TakeJob(w)
    <3>1. CASE ~m_stopped /\ m_tasks # <<>>
      <4>1. Head(m_tasks) \in Tasks /\ Tail(m_tasks) \in Seq(Tasks)
        BY <3>1
      <4>2. Append(started, Head(m_tasks)) \in Seq(Tasks)
        BY <4>1
      <4> QED BY <2>2, <3>1, <4>1, <4>2 DEF TakeJob, clientVars
    <3>2. CASE m_stopped \/ m_tasks = <<>>
      BY <2>2, <3>2 DEF TakeJob, clientVars
    <3> QED BY <3>1, <3>2
  <2>3. CASE FinishJob(w)
    <3>1. completed' \subseteq Tasks
      BY <2>3 DEF FinishJob
    <3> QED BY <2>3, <3>1 DEF FinishJob, clientVars
  <2>4. CASE NotifyAvailable(w)
    BY <2>4 DEF NotifyAvailable
  <2>5. CASE TestStopped(w)
    BY <2>5 DEF TestStopped, clientVars
  <2> QED BY <1>1, <2>1, <2>2, <2>3, <2>4, <2>5 DEF WorkerStep
<1>2. ASSUME NEW w \in Workers, SpuriousWakeup(w) PROVE TypeInv'
  BY <1>2 DEF SpuriousWakeup, clientVars
<1>3. CASE ClientStep
  <2> USE DEF workerVars
  <2>1. CASE ReadInput
    BY <2>1 DEF ReadInput
  <2>2. CASE EndOfInput \/ InputThrows
    BY <2>2 DEF EndOfInput, InputThrows
  <2>3. CASE SubmitWaits
    BY <2>3 DEF SubmitWaits
  <2>4. CASE Submit
    BY <2>4 DEF Submit
  <2>5. CASE StopBegins
    BY <2>5 DEF StopBegins
  <2>6. CASE DrainQueue
    BY <2>6 DEF DrainQueue
  <2>7. CASE SetStopped
    BY <2>7 DEF SetStopped
  <2>8. CASE NotifyStopped
    BY <2>8 DEF NotifyStopped
  <2>9. CASE Join
    BY <2>9 DEF Join
  <2>10. CASE Destroy
    BY <2>10 DEF Destroy
  <2> QED BY <1>3, <2>1, <2>2, <2>3, <2>4, <2>5, <2>6, <2>7, <2>8, <2>9, <2>10
          DEF ClientStep
<1>4. CASE ClientSpuriousWakeup
  BY <1>4 DEF ClientSpuriousWakeup, workerVars
<1>5. CASE UNCHANGED poolVars
  BY <1>5 DEF poolVars
<1> QED BY <1>1, <1>2, <1>3, <1>4, <1>5 DEF Next, Gone

\* The initial state has the types.
LEMMA TypeInit == Init => TypeInv
<1> HAVE Init
<1> USE DEF Init
<1>1. m_tasks \in Seq(Tasks) /\ started \in Seq(Tasks)
  OBVIOUS
<1>2. pc \in [Workers -> WorkerPc] /\ task \in [Workers -> Tasks \cup {NoTask}]
      /\ sawStopped \in [Workers -> BOOLEAN]
  BY DEF WorkerPc
<1>3. clientPc \in ClientPc /\ submitted \in 0 .. NumTasks
  BY PoolAssumption DEF ClientPc
<1>4. SubmitPending /\ RunningHasTask
  BY DEF SubmitPending, RunningHasTask
<1> QED BY <1>1, <1>2, <1>3, <1>4 DEF TypeInv, TypeOK

\* ThreadPool never leaves its types.
THEOREM TypeCorrect == Spec => []TypeOK
<1>1. Init => TypeInv
  BY TypeInit
<1>2. TypeInv /\ [Next]_poolVars => TypeInv'
  BY TypeNext
<1>3. TypeInv => TypeOK
  BY DEF TypeInv
<1> QED BY <1>1, <1>2, <1>3, PTL DEF Spec

-----------------------------------------------------------------------------
(* The order of the tasks *)

OrderInv == TypeInv /\ StartedInOrder

\* What StartedInOrder says of the two ends of the queue.
LEMMA QueueEnds ==
    ASSUME TypeOK, StartedInOrder
    PROVE  /\ Len(started) + Len(m_tasks) = submitted
           /\ \A i \in 1 .. Len(started) : started[i] = i
           /\ m_tasks # <<>> => Head(m_tasks) = Len(started) + 1
<1> USE DEF TypeOK
<1>1. Len(started \o m_tasks) = Len(started) + Len(m_tasks)
  OBVIOUS
<1>2. Len(started \o m_tasks) = submitted
  BY DEF StartedInOrder
<1>3. \A i \in 1 .. Len(started) : (started \o m_tasks)[i] = started[i]
  OBVIOUS
<1>4. \A i \in 1 .. submitted : (started \o m_tasks)[i] = i
  BY DEF StartedInOrder
<1>5. m_tasks # <<>> => (started \o m_tasks)[Len(started) + 1] = Head(m_tasks)
  OBVIOUS
<1> QED BY <1>1, <1>2, <1>3, <1>4, <1>5

\* The order is inductive.
LEMMA OrderNext == OrderInv /\ [Next]_poolVars => OrderInv'
<1> SUFFICES ASSUME OrderInv, [Next]_poolVars PROVE OrderInv'
  OBVIOUS
<1>0. TypeInv'
  BY TypeNext DEF OrderInv
<1> SUFFICES StartedInOrder'
  BY <1>0 DEF OrderInv
<1> USE DEF OrderInv, TypeInv, TypeOK
<1>1. ASSUME NEW w \in Workers, TakeJob(w), ~m_stopped /\ m_tasks # <<>>
      PROVE  StartedInOrder'
  <2>1. started' = Append(started, Head(m_tasks)) /\ m_tasks' = Tail(m_tasks)
        /\ submitted' = submitted
    BY <1>1 DEF TakeJob, clientVars
  <2>2. Append(started, Head(m_tasks)) \o Tail(m_tasks) = started \o m_tasks
    BY <1>1
  <2> QED BY <2>1, <2>2 DEF StartedInOrder
<1>2. CASE Submit
  <2>1. /\ m_tasks' = Append(m_tasks, submitted + 1)
        /\ submitted' = submitted + 1
        /\ started' = started
    BY <1>2 DEF Submit, workerVars
  <2>2. started \o Append(m_tasks, submitted + 1)
          = Append(started \o m_tasks, submitted + 1)
    OBVIOUS
  <2>3. Append([i \in 1 .. submitted |-> i], submitted + 1)
          = [i \in 1 .. submitted + 1 |-> i]
    OBVIOUS
  <2> QED BY <2>1, <2>2, <2>3 DEF StartedInOrder
<1>3. CASE UNCHANGED <<started, m_tasks, submitted>>
  BY <1>3 DEF StartedInOrder
<1>4. \/ \E w \in Workers : TakeJob(w) /\ ~m_stopped /\ m_tasks # <<>>
      \/ Submit
      \/ UNCHANGED <<started, m_tasks, submitted>>
  BY DEF Next, WorkerStep, WaitForJob, TakeJob, FinishJob, NotifyAvailable,
         TestStopped, SpuriousWakeup, ClientStep, ReadInput, EndOfInput,
         InputThrows, SubmitWaits, StopBegins, DrainQueue, SetStopped,
         NotifyStopped, Join, Destroy, ClientSpuriousWakeup, Gone,
         clientVars, workerVars, poolVars
<1> QED BY <1>1, <1>2, <1>3, <1>4

\* Tasks start in the order of their Submit and none is lost on the way,
\* whatever the number of workers and the queue limit.
THEOREM StartsInOrder == Spec => []StartedInOrder
<1>1. Init => OrderInv
  <2> HAVE Init
  <2>1. TypeInv
    BY TypeInit
  <2>2. StartedInOrder
    BY DEF Init, StartedInOrder
  <2> QED BY <2>1, <2>2 DEF OrderInv
<1>2. OrderInv /\ [Next]_poolVars => OrderInv'
  BY OrderNext
<1>3. OrderInv => StartedInOrder
  BY DEF OrderInv
<1> QED BY <1>1, <1>2, <1>3, PTL DEF Spec

-----------------------------------------------------------------------------
(* Each task runs once *)

RunInv == OrderInv /\ RunOnce

\* The tasks popped so far, as a set.
LEMMA StartedSet ==
    ASSUME TypeOK, StartedInOrder
    PROVE  {started[i] : i \in 1 .. Len(started)} = 1 .. Len(started)
BY QueueEnds DEF TypeOK

\* That each popped task is with one worker, or completed, is inductive.
LEMMA RunNext == RunInv /\ [Next]_poolVars => RunInv'
<1> SUFFICES ASSUME RunInv, [Next]_poolVars PROVE RunInv'
  OBVIOUS
<1>0. OrderInv'
  BY OrderNext DEF RunInv
<1> SUFFICES RunOnce'
  BY <1>0 DEF RunInv
<1> USE DEF RunInv, OrderInv, TypeInv, TypeOK
<1>s. Running \cup completed = 1 .. Len(started)
  BY StartedSet DEF RunOnce
<1>1. ASSUME NEW w \in Workers, TakeJob(w), ~m_stopped /\ m_tasks # <<>>
      PROVE  RunOnce'
  <2> DEFINE t == Len(started) + 1
  <2>1. /\ started' = Append(started, Head(m_tasks))
        /\ task' = [task EXCEPT ![w] = Head(m_tasks)]
        /\ pc' = [pc EXCEPT ![w] = "running"]
        /\ pc[w] # "running"
        /\ completed' = completed
    BY <1>1 DEF TakeJob
  <2>2. Head(m_tasks) = t /\ Len(started') = t
    BY <1>1, <2>1, QueueEnds
  <2>3. Running' = Running \cup {t}
    BY <2>1, <2>2 DEF Running
  <2>4. t \notin Running /\ t \notin completed
    BY <1>s
  <2>5. 1 .. t = (1 .. Len(started)) \cup {t}
    OBVIOUS
  <2>6. {started'[i] : i \in 1 .. Len(started')} = Running' \cup completed'
    <3>1. \A i \in 1 .. t : started'[i] = i
      BY <2>1, <2>2, QueueEnds
    <3>2. {started'[i] : i \in 1 .. Len(started')} = 1 .. t
      BY <2>2, <3>1
    <3> QED BY <1>s, <2>1, <2>3, <2>5, <3>2
  <2>7. Running' \cap completed' = {}
    BY <2>1, <2>3, <2>4 DEF RunOnce
  <2>8. ASSUME NEW u \in Workers, NEW v \in Workers,
               pc'[u] = "running", pc'[v] = "running", task'[u] = task'[v]
        PROVE  u = v
    <3>1. u # w => pc[u] = "running" /\ task[u] \in Running /\ task'[u] = task[u]
      BY <2>1, <2>8 DEF Running
    <3>2. v # w => pc[v] = "running" /\ task[v] \in Running /\ task'[v] = task[v]
      BY <2>1, <2>8 DEF Running
    <3>3. task'[w] = t
      BY <2>1, <2>2
    <3>4. CASE u = w \/ v = w
      BY <2>4, <2>8, <3>1, <3>2, <3>3, <3>4
    <3>5. CASE u # w /\ v # w
      BY <2>8, <3>1, <3>2, <3>5 DEF RunOnce
    <3> QED BY <3>4, <3>5
  <2> QED BY <2>6, <2>7, <2>8 DEF RunOnce
<1>2. ASSUME NEW w \in Workers, FinishJob(w) PROVE RunOnce'
  <2>1. /\ started' = started
        /\ completed' = completed \cup {task[w]}
        /\ task' = [task EXCEPT ![w] = NoTask]
        /\ pc' = [pc EXCEPT ![w] = "notify"]
        /\ pc[w] = "running"
    BY <1>2 DEF FinishJob
  <2>2. ASSUME NEW v \in Workers, pc'[v] = "running"
        PROVE  v # w /\ pc[v] = "running" /\ task'[v] = task[v]
    BY <2>1, <2>2
  <2>3. Running' = Running \ {task[w]}
    BY <2>1, <2>2 DEF Running, RunOnce
  <2>4. task[w] \in Running
    BY <2>1 DEF Running
  <2>5. /\ Running' \cup completed' = Running \cup completed
        /\ Running' \cap completed' = {}
    BY <2>1, <2>3, <2>4 DEF RunOnce
  <2>6. \A u, v \in Workers :
           pc'[u] = "running" /\ pc'[v] = "running" /\ task'[u] = task'[v] => u = v
    BY <2>2 DEF RunOnce
  <2>7. {started'[i] : i \in 1 .. Len(started')} = Running' \cup completed'
    BY <2>1, <2>5 DEF RunOnce
  <2> QED BY <2>5, <2>6, <2>7 DEF RunOnce
<1>3. ASSUME UNCHANGED <<started, completed, task>>,
             \A v \in Workers : pc'[v] = "running" <=> pc[v] = "running"
      PROVE  RunOnce'
  <2>1. Running' = Running
    BY <1>3 DEF Running
  <2> QED BY <1>3, <2>1 DEF RunOnce
<1>4. ASSUME NEW w \in Workers, TakeJob(w), m_stopped \/ m_tasks = <<>>
      PROVE  RunOnce'
  <2>1. /\ UNCHANGED <<started, completed>>
        /\ task' = [task EXCEPT ![w] = NoTask]
        /\ pc' = [pc EXCEPT ![w] = "notify"]
        /\ pc[w] # "running"
    BY <1>4 DEF TakeJob
  <2>2. \A v \in Workers : pc'[v] = "running" =>
            pc[v] = "running" /\ task'[v] = task[v]
    BY <2>1
  <2>3. Running' = Running
    BY <2>1, <2>2 DEF Running
  <2> QED BY <2>1, <2>2, <2>3 DEF RunOnce
<1>5. \/ \E w \in Workers : TakeJob(w) \/ FinishJob(w)
      \/ /\ UNCHANGED <<started, completed, task>>
         /\ \A v \in Workers : pc'[v] = "running" <=> pc[v] = "running"
  BY DEF Next, WorkerStep, WaitForJob, NotifyAvailable,
         TestStopped, SpuriousWakeup, ClientStep, ReadInput, EndOfInput,
         InputThrows, SubmitWaits, Submit, StopBegins, DrainQueue, SetStopped,
         NotifyStopped, Join, Destroy, ClientSpuriousWakeup, Gone,
         clientVars, workerVars, poolVars
<1> QED BY <1>1, <1>2, <1>3, <1>4, <1>5

\* No task is run twice or by two workers, and none that was popped is lost.
THEOREM RunsOnce == Spec => []RunOnce
<1>1. Init => RunInv
  <2> HAVE Init
  <2>1. TypeInv
    BY TypeInit
  <2>2. StartedInOrder /\ RunOnce
    BY DEF Init, StartedInOrder, RunOnce, Running
  <2> QED BY <2>1, <2>2 DEF RunInv, OrderInv
<1>2. RunInv /\ [Next]_poolVars => RunInv'
  BY RunNext
<1>3. RunInv => RunOnce
  BY DEF RunInv
<1> QED BY <1>1, <1>2, <1>3, PTL DEF Spec

-----------------------------------------------------------------------------
(* Stopping *)

AllExited == \A w \in Workers : pc[w] = "exited"

(***************************************************************************)
(* Why Stop(true) leaves nothing undone.  m_stopped is raised only by a      *)
(* Stop that is past its drain, and that Stop found the queue empty; the    *)
(* threads are joined before Stop returns; and the Stop of the destructor    *)
(* finds m_stopped set only when they have been.                            *)
(***************************************************************************)
StopPhases ==
    /\ m_stopped =>
          \/ clientPc \in {"notifyStopped", "join"}
          \/ clientPc \in {"stop", "returned", "gone"} /\ AllExited
    /\ clientPc \in {"returned", "gone"} => AllExited
    /\ clientPc = "stop" /\ m_stopped => ~processRemainingJobs
    /\ clientPc \in {"setStopped", "notifyStopped", "join", "returned"}
          /\ processRemainingJobs => m_tasks = <<>>

StopInv == RunInv /\ StopPhases

\* The phases of Stop are inductive.
LEMMA StopNext == StopInv /\ [Next]_poolVars => StopInv'
<1> SUFFICES ASSUME StopInv, [Next]_poolVars PROVE StopInv'
  OBVIOUS
<1>0. RunInv'
  BY RunNext DEF StopInv
<1> SUFFICES StopPhases'
  BY <1>0 DEF StopInv
<1> USE DEF StopInv, RunInv, OrderInv, TypeInv, TypeOK
<1>1. ASSUME NEW w \in Workers, WorkerStep(w) PROVE StopPhases'
  <2>1. AllExited => FALSE
    BY <1>1 DEF AllExited, WorkerStep, WaitForJob, TakeJob, FinishJob,
                NotifyAvailable, TestStopped
  <2>2. /\ UNCHANGED <<m_stopped, processRemainingJobs>>
        /\ m_tasks = <<>> => m_tasks' = <<>>
        /\ \/ clientPc' = clientPc
           \/ clientPc = "submitWaiting" /\ clientPc' = "submitWoken"
           \/ clientPc = "drainWaiting" /\ clientPc' = "drainWoken"
    BY <1>1 DEF WorkerStep, WaitForJob, TakeJob, FinishJob, NotifyAvailable,
                TestStopped, clientVars
  <2> QED BY <2>1, <2>2 DEF StopPhases
<1>2. ASSUME NEW w \in Workers, SpuriousWakeup(w) PROVE StopPhases'
  <2>1. ~AllExited
    BY <1>2 DEF SpuriousWakeup, AllExited
  <2> QED BY <1>2, <2>1 DEF SpuriousWakeup, clientVars, StopPhases
<1>3. CASE ClientStep
  <2> USE DEF workerVars
  <2>1. CASE ReadInput \/ EndOfInput \/ InputThrows
    BY <2>1 DEF ReadInput, EndOfInput, InputThrows, StopPhases, AllExited
  <2>2. CASE SubmitWaits
    BY <2>2 DEF SubmitWaits, StopPhases, AllExited
  <2>3. CASE Submit
    BY <2>3 DEF Submit, StopPhases, AllExited
  <2>4. CASE StopBegins
    BY <2>4 DEF StopBegins, StopPhases, AllExited
  <2>5. CASE DrainQueue
    BY <2>5 DEF DrainQueue, StopPhases, AllExited
  <2>6. CASE SetStopped
    BY <2>6 DEF SetStopped, StopPhases, AllExited
  <2>7. CASE NotifyStopped
    BY <2>7 DEF NotifyStopped, StopPhases, AllExited
  <2>8. CASE Join
    BY <2>8 DEF Join, StopPhases, AllExited
  <2>9. CASE Destroy
    BY <2>9 DEF Destroy, StopPhases, AllExited
  <2> QED BY <1>3, <2>1, <2>2, <2>3, <2>4, <2>5, <2>6, <2>7, <2>8, <2>9
          DEF ClientStep
<1>4. CASE ClientSpuriousWakeup
  BY <1>4 DEF ClientSpuriousWakeup, workerVars, StopPhases, AllExited
<1>5. CASE UNCHANGED poolVars
  BY <1>5 DEF poolVars, StopPhases, AllExited
<1> QED BY <1>1, <1>2, <1>3, <1>4, <1>5 DEF Next, Gone

\* The initial state is before any Stop.
LEMMA StopInit == Init => StopInv
<1> HAVE Init
<1>1. TypeInv
  BY TypeInit
<1>2. StartedInOrder /\ RunOnce /\ StopPhases
  BY DEF Init, StartedInOrder, RunOnce, Running, StopPhases
<1> QED BY <1>1, <1>2 DEF StopInv, RunInv, OrderInv

\* No worker outlives the Stop that ends the pool, the destructor's included.
THEOREM NoThreadSurvives == Spec => []NoThreadSurvivesStop
<1>1. StopInv => NoThreadSurvivesStop
  BY DEF StopInv, StopPhases, AllExited, NoThreadSurvivesStop
<1> QED BY <1>1, StopInit, StopNext, PTL DEF Spec

\* "Wait until all queued jobs have completed, and shut down the ThreadPool":
\* Stop(true) does, for any number of workers, tasks and any queue limit.
THEOREM StopTrueCorrect == Spec => []StopTrueCompletes
<1>1. StopInv => StopTrueCompletes
  <2> SUFFICES ASSUME StopInv, clientPc = "returned", processRemainingJobs
               PROVE  completed = 1 .. submitted
    BY DEF StopTrueCompletes
  <2> USE DEF StopInv, RunInv, OrderInv, TypeInv
  <2>1. m_tasks = <<>> /\ AllExited
    BY DEF StopPhases
  <2>2. Len(started) = submitted
    BY <2>1, QueueEnds DEF TypeOK
  <2>3. Running = {}
    BY <2>1 DEF Running, AllExited
  <2> QED BY <2>2, <2>3, StartedSet DEF RunOnce
<1> QED BY <1>1, StopInit, StopNext, PTL DEF Spec

-----------------------------------------------------------------------------
(* Notifications *)

(***************************************************************************)
(* NoLostWakeup is inductive once the types are known.  A worker only falls  *)
(* asleep over an empty queue and a Submit wakes all of them; the client only *)
(* sleeps over a queue that is full or not drained, and it is a worker about  *)
(* to run what it took, and to notify, that changes that.                    *)
(***************************************************************************)
WakeInv == TypeInv /\ NoLostWakeup

\* Every step of a worker leaves somebody to do the work and the notifying.
LEMMA WakeWorker ==
    ASSUME WakeInv, NEW w \in Workers, WorkerStep(w) PROVE NoLostWakeup'
<1> USE DEF WakeInv, TypeInv, TypeOK
<1>1. CASE WaitForJob(w)
  BY <1>1 DEF WaitForJob, clientVars, NoLostWakeup, QueueFull
<1>2. CASE TakeJob(w)
  <2>1. pc'[w] \in {"running", "notify"} /\ clientPc' = clientPc
    BY <1>2 DEF TakeJob, clientVars
  <2> QED BY <2>1 DEF NoLostWakeup
<1>3. CASE FinishJob(w)
  <2>1. pc'[w] = "notify"
    BY <1>3 DEF FinishJob
  <2> QED BY <2>1 DEF NoLostWakeup
<1>4. CASE NotifyAvailable(w)
  <2>1. pc'[w] = "test"
    BY <1>4 DEF NotifyAvailable
  <2>2. clientPc' \notin {"drainWaiting", "submitWaiting"}
    BY <1>4 DEF NotifyAvailable
  <2> QED BY <2>1, <2>2 DEF NoLostWakeup
<1>5. CASE TestStopped(w)
  <2>1. /\ UNCHANGED <<m_tasks, m_stopped, m_queueLimit, clientPc>>
        /\ pc'[w] # "waiting" /\ pc[w] = "test"
        /\ \A v \in Workers : v # w => pc'[v] = pc[v]
    BY <1>5 DEF TestStopped, clientVars
  <2> QED BY <2>1 DEF NoLostWakeup, QueueFull
<1> QED BY <1>1, <1>2, <1>3, <1>4, <1>5 DEF WorkerStep

\* So does every step of the client: it falls asleep only with cause, and wakes
\* every worker when there is something to do.
LEMMA WakeClient ==
    ASSUME WakeInv, ClientStep \/ ClientSpuriousWakeup PROVE NoLostWakeup'
<1> USE DEF WakeInv, TypeInv, TypeOK, workerVars
<1>1. CASE Submit
  <2>1. /\ \A w \in Workers : pc'[w] # "waiting"
        /\ clientPc' = "reading"
    BY <1>1 DEF Submit
  <2> QED BY <2>1, PoolAssumption DEF NoLostWakeup
<1>2. CASE SubmitWaits
  BY <1>2 DEF SubmitWaits, NoLostWakeup, QueueFull
<1>3. CASE DrainQueue
  BY <1>3 DEF DrainQueue, NoLostWakeup, QueueFull
<1>4. CASE NotifyStopped
  <2>1. \A w \in Workers : pc'[w] # "waiting"
    BY <1>4 DEF NotifyStopped
  <2>2. clientPc' = "join"
    BY <1>4 DEF NotifyStopped
  <2> QED BY <2>1, <2>2, PoolAssumption DEF NoLostWakeup
<1>5. ASSUME UNCHANGED <<m_tasks, pc>>, m_stopped => m_stopped',
             clientPc' \notin {"drainWaiting", "submitWaiting"}
      PROVE  NoLostWakeup'
  BY <1>5 DEF NoLostWakeup
<1>6. CASE ReadInput \/ EndOfInput \/ InputThrows \/ StopBegins \/ SetStopped
           \/ Join \/ Destroy \/ ClientSpuriousWakeup
  BY <1>5, <1>6 DEF ReadInput, EndOfInput, InputThrows, StopBegins, SetStopped,
                    Join, Destroy, ClientSpuriousWakeup
<1> QED BY <1>1, <1>2, <1>3, <1>4, <1>6 DEF ClientStep

\* No notification is lost between the queue, the workers and the client, for
\* any number of workers and any queue limit: the unlocked notify_all calls and
\* the waits on the two condition variables fit together.
THEOREM WakeupsCorrect == Spec => []NoLostWakeup
<1>1. Init => WakeInv
  <2> HAVE Init
  <2>1. TypeInv
    BY TypeInit
  <2>2. NoLostWakeup
    BY DEF Init, NoLostWakeup
  <2> QED BY <2>1, <2>2 DEF WakeInv
<1>2. WakeInv /\ [Next]_poolVars => WakeInv'
  <2> SUFFICES ASSUME WakeInv, [Next]_poolVars PROVE WakeInv'
    OBVIOUS
  <2>1. TypeInv'
    BY TypeNext DEF WakeInv
  <2>2. ASSUME NEW w \in Workers, SpuriousWakeup(w) PROVE NoLostWakeup'
    <3>1. /\ UNCHANGED <<m_tasks, m_stopped, m_queueLimit, clientPc>>
          /\ pc'[w] # "waiting" /\ pc[w] = "waiting"
          /\ \A v \in Workers : v # w => pc'[v] = pc[v]
      BY <2>2 DEF SpuriousWakeup, clientVars, WakeInv, TypeInv, TypeOK
    <3> QED BY <3>1 DEF WakeInv, NoLostWakeup, QueueFull
  <2>3. ASSUME UNCHANGED poolVars PROVE NoLostWakeup'
    BY <2>3 DEF poolVars, WakeInv, NoLostWakeup, QueueFull
  <2>4. NoLostWakeup'
    BY <2>2, <2>3, WakeWorker, WakeClient DEF Next, Gone
  <2> QED BY <2>1, <2>4 DEF WakeInv
<1>3. WakeInv => NoLostWakeup
  BY DEF WakeInv
<1> QED BY <1>1, <1>2, <1>3, PTL DEF Spec
=============================================================================
