----------------------------- MODULE ThreadPool -----------------------------
(***************************************************************************)
(* moses/src/ThreadPool.{h,cpp} as the programs of the repository use it:   *)
(* one client thread constructs the pool, submits its tasks, calls          *)
(* Stop(true) and leaves the scope, whose destructor calls Stop() again     *)
(* (moses-cmd, moses-chart-cmd, extract-rules, mert).  If reading the input *)
(* throws, the scope is left at once and the destructor's Stop() is the     *)
(* only one.                                                                *)
(*                                                                         *)
(* Every critical section of m_mutex is one action, except that a wait on a *)
(* condition variable ends its section and a new one starts at the wake-up. *)
(* The reads and notifications made without the mutex are actions of their  *)
(* own.                                                                     *)
(***************************************************************************)
EXTENDS Naturals, Sequences

CONSTANTS
    Workers,       \* the threads of m_threads
    NumTasks,      \* the bound on the number of tasks the client submits
    QueueLimits,   \* the values of SetQueueLimit; 0 is the default, no limit
    NoTask         \* a Task* that is NULL

ASSUME PoolAssumption ==
    /\ Workers # {}
    /\ NumTasks \in Nat
    /\ QueueLimits \subseteq Nat
    /\ NoTask \notin Nat

Tasks == 1 .. NumTasks   \* a task is the number of its Submit

VARIABLES
    m_queueLimit, \* the size of the queue at which Submit waits, or 0
    m_tasks,     \* the queue
    m_stopping,  \* Stop has been called: no more jobs
    m_stopped,   \* the threads are told to end
    pc,          \* where each worker is in Execute
    task,        \* the local variable task of Execute
    sawStopped,  \* what the worker's last critical section read in m_stopped
    clientPc,    \* where the client is
    processRemainingJobs, \* the argument of the client's Stop
    submitted,   \* the tasks submitted so far are 1 .. submitted
    started,     \* the tasks popped from the queue, in order
    completed    \* the tasks whose Run has returned

poolVars == <<m_queueLimit, m_tasks, m_stopping, m_stopped, pc, task, sawStopped,
              clientPc, processRemainingJobs, submitted, started, completed>>

WorkerPc == {"find", "waiting", "woken", "running", "notify", "test", "exited"}

ClientPc == {"reading", "submit", "submitWaiting", "submitWoken",
             "stop", "drain", "drainWaiting", "drainWoken",
             "setStopped", "notifyStopped", "join", "returned", "gone"}

TypeOK ==
    /\ m_queueLimit \in QueueLimits
    /\ m_tasks \in Seq(Tasks)
    /\ m_stopping \in BOOLEAN /\ m_stopped \in BOOLEAN
    /\ pc \in [Workers -> WorkerPc]
    /\ task \in [Workers -> Tasks \cup {NoTask}]
    /\ sawStopped \in [Workers -> BOOLEAN]
    /\ clientPc \in ClientPc
    /\ processRemainingJobs \in BOOLEAN
    /\ submitted \in 0 .. NumTasks
    /\ started \in Seq(Tasks)
    /\ completed \subseteq Tasks

Init ==
    /\ m_queueLimit \in QueueLimits
    /\ m_tasks = <<>>
    /\ m_stopping = FALSE /\ m_stopped = FALSE
    /\ pc = [w \in Workers |-> "find"]
    /\ task = [w \in Workers |-> NoTask]
    /\ sawStopped = [w \in Workers |-> FALSE]
    /\ clientPc = "reading"
    /\ processRemainingJobs = FALSE
    /\ submitted = 0
    /\ started = <<>>
    /\ completed = {}

clientVars == <<m_queueLimit, m_stopping, m_stopped, clientPc,
                processRemainingJobs, submitted>>

-----------------------------------------------------------------------------
(* Execute *)

\* The critical section up to the wait: the queue is empty, so sleep on
\* m_threadNeeded.
WaitForJob(w) ==
    /\ pc[w] = "find"
    /\ m_tasks = <<>> /\ ~m_stopped
    /\ pc' = [pc EXCEPT ![w] = "waiting"]
    /\ UNCHANGED <<m_tasks, task, sawStopped, started, completed, clientVars>>

\* Variants of TakeJob: a missing task is run like any other; the newest task
\* is taken; the task is not popped.
TakeJobUnchecked(w) ==
    /\ \/ pc[w] = "find" /\ (m_tasks # <<>> \/ m_stopped)
       \/ pc[w] = "woken"
    /\ sawStopped' = [sawStopped EXCEPT ![w] = m_stopped]
    /\ pc' = [pc EXCEPT ![w] = "running"]
    /\ \/ /\ ~m_stopped /\ m_tasks # <<>>
          /\ task' = [task EXCEPT ![w] = Head(m_tasks)]
          /\ m_tasks' = Tail(m_tasks)
          /\ started' = Append(started, Head(m_tasks))
       \/ /\ m_stopped \/ m_tasks = <<>>
          /\ UNCHANGED <<task, m_tasks, started>>
    /\ UNCHANGED <<completed, clientVars>>

TakeJobNewest(w) ==
    LET last == Len(m_tasks)
    IN /\ pc[w] \in {"find", "woken"} /\ m_tasks # <<>> /\ ~m_stopped
       /\ task' = [task EXCEPT ![w] = m_tasks[last]]
       /\ m_tasks' = SubSeq(m_tasks, 1, last - 1)
       /\ started' = Append(started, m_tasks[last])
       /\ pc' = [pc EXCEPT ![w] = "running"]
       /\ UNCHANGED <<sawStopped, completed, clientVars>>

TakeJobNoPop(w) ==
    /\ pc[w] \in {"find", "woken"} /\ m_tasks # <<>> /\ ~m_stopped
    /\ task' = [task EXCEPT ![w] = Head(m_tasks)]
    /\ started' = Append(started, Head(m_tasks))
    /\ pc' = [pc EXCEPT ![w] = "running"]
    /\ Len(started) < 2 * NumTasks
    /\ UNCHANGED <<m_tasks, sawStopped, completed, clientVars>>

\* The end of the critical section: after the wait, or without one.
TakeJob(w) ==
    /\ \/ pc[w] = "find" /\ (m_tasks # <<>> \/ m_stopped)
       \/ pc[w] = "woken"
    /\ sawStopped' = [sawStopped EXCEPT ![w] = m_stopped]
    /\ \/ /\ ~m_stopped /\ m_tasks # <<>>
          /\ task' = [task EXCEPT ![w] = Head(m_tasks)]
          /\ m_tasks' = Tail(m_tasks)
          /\ started' = Append(started, Head(m_tasks))
          /\ pc' = [pc EXCEPT ![w] = "running"]
       \/ /\ m_stopped \/ m_tasks = <<>>
          /\ task' = [task EXCEPT ![w] = NoTask]
          /\ pc' = [pc EXCEPT ![w] = "notify"]
          /\ UNCHANGED <<m_tasks, started>>
    /\ UNCHANGED <<completed, clientVars>>

\* A wait on a condition variable may return without a notification.
SpuriousWakeup(w) ==
    /\ pc[w] = "waiting"
    /\ pc' = [pc EXCEPT ![w] = "woken"]
    /\ UNCHANGED <<m_tasks, task, sawStopped, started, completed, clientVars>>

\* task->Run() returns and the task is deleted.
FinishJob(w) ==
    /\ pc[w] = "running"
    /\ completed' = completed \cup {task[w]}
    /\ task' = [task EXCEPT ![w] = NoTask]
    /\ pc' = [pc EXCEPT ![w] = "notify"]
    /\ UNCHANGED <<m_tasks, sawStopped, started, clientVars>>

\* m_threadAvailable.notify_all(), made without the mutex.
NotifyAvailable(w) ==
    /\ pc[w] = "notify"
    /\ pc' = [pc EXCEPT ![w] = "test"]
    /\ clientPc' = CASE clientPc = "submitWaiting" -> "submitWoken"
                     [] clientPc = "drainWaiting"  -> "drainWoken"
                     [] OTHER                      -> clientPc
    /\ UNCHANGED <<m_queueLimit, m_tasks, m_stopping, m_stopped, task, sawStopped,
                   processRemainingJobs, submitted, started, completed>>

\* while (!m_stopped), read without the mutex: a race with Stop, so the read
\* may miss a write the thread has not seen in a critical section of its own.
TestStopped(w) ==
    /\ pc[w] = "test"
    /\ \/ m_stopped /\ pc' = [pc EXCEPT ![w] = "exited"]
       \/ ~sawStopped[w] /\ pc' = [pc EXCEPT ![w] = "find"]
    /\ UNCHANGED <<m_tasks, task, sawStopped, started, completed, clientVars>>

-----------------------------------------------------------------------------
(* The client *)

workerVars == <<task, sawStopped, started, completed>>

\* The client has a task to submit.
ReadInput ==
    /\ clientPc = "reading" /\ submitted < NumTasks
    /\ clientPc' = "submit"
    /\ UNCHANGED <<m_tasks, m_stopping, m_stopped, pc, processRemainingJobs,
                   submitted, m_queueLimit, workerVars>>

\* The input is at its end: pool.Stop(true).
EndOfInput ==
    /\ clientPc = "reading"
    /\ clientPc' = "stop" /\ processRemainingJobs' = TRUE
    /\ UNCHANGED <<m_tasks, m_stopping, m_stopped, pc, submitted, m_queueLimit, workerVars>>

\* Reading throws: the pool is destroyed on the way to main's handler.
InputThrows ==
    /\ clientPc = "reading"
    /\ clientPc' = "stop" /\ processRemainingJobs' = FALSE
    /\ UNCHANGED <<m_tasks, m_stopping, m_stopped, pc, submitted, m_queueLimit, workerVars>>

QueueFull == m_queueLimit > 0 /\ Len(m_tasks) >= m_queueLimit

\* Submit.  The branch that throws because of m_stopping is not taken by a
\* client that stops the pool after its last Submit: reaching it would be a
\* deadlock of the model.
SubmitWaits ==
    /\ \/ clientPc = "submit" /\ ~m_stopping
       \/ clientPc = "submitWoken"
    /\ QueueFull
    /\ clientPc' = "submitWaiting"
    /\ UNCHANGED <<m_tasks, m_stopping, m_stopped, pc, processRemainingJobs,
                   submitted, m_queueLimit, workerVars>>

\* A variant of Submit: no thread is notified.
SubmitSilently ==
    /\ \/ clientPc = "submit" /\ ~m_stopping
       \/ clientPc = "submitWoken"
    /\ ~QueueFull
    /\ m_tasks' = Append(m_tasks, submitted + 1)
    /\ submitted' = submitted + 1
    /\ clientPc' = "reading"
    /\ UNCHANGED <<m_stopping, m_stopped, pc, processRemainingJobs, m_queueLimit, workerVars>>

\* m_tasks.push(task); m_threadNeeded.notify_all()
Submit ==
    /\ \/ clientPc = "submit" /\ ~m_stopping
       \/ clientPc = "submitWoken"
    /\ ~QueueFull
    /\ m_tasks' = Append(m_tasks, submitted + 1)
    /\ submitted' = submitted + 1
    /\ pc' = [w \in Workers |-> IF pc[w] = "waiting" THEN "woken" ELSE pc[w]]
    /\ clientPc' = "reading"
    /\ UNCHANGED <<m_stopping, m_stopped, processRemainingJobs, m_queueLimit, workerVars>>

\* Stop, its first critical section.
StopBegins ==
    /\ clientPc = "stop"
    /\ \/ m_stopped /\ clientPc' = "returned" /\ UNCHANGED m_stopping
       \/ /\ ~m_stopped
          /\ m_stopping' = TRUE
          /\ clientPc' = IF processRemainingJobs THEN "drain" ELSE "setStopped"
    /\ UNCHANGED <<m_tasks, m_stopped, pc, processRemainingJobs, submitted,
                   m_queueLimit, workerVars>>

\* A variant of DrainQueue: the condition is not tested again after a wake-up.
DrainQueueOnce ==
    /\ clientPc \in {"drain", "drainWoken"}
    /\ clientPc' = IF clientPc = "drain" /\ m_tasks # <<>> /\ ~m_stopped
                   THEN "drainWaiting" ELSE "setStopped"
    /\ UNCHANGED <<m_tasks, m_stopping, m_stopped, pc, processRemainingJobs,
                   submitted, m_queueLimit, workerVars>>

\* Stop: wait for the queue to drain.
DrainQueue ==
    /\ clientPc \in {"drain", "drainWoken"}
    /\ clientPc' = IF m_tasks # <<>> /\ ~m_stopped
                   THEN "drainWaiting" ELSE "setStopped"
    /\ UNCHANGED <<m_tasks, m_stopping, m_stopped, pc, processRemainingJobs,
                   submitted, m_queueLimit, workerVars>>

ClientSpuriousWakeup ==
    /\ \/ clientPc = "submitWaiting" /\ clientPc' = "submitWoken"
       \/ clientPc = "drainWaiting" /\ clientPc' = "drainWoken"
    /\ UNCHANGED <<m_tasks, m_stopping, m_stopped, pc, processRemainingJobs,
                   submitted, m_queueLimit, workerVars>>

\* Stop: tell all threads to stop.
SetStopped ==
    /\ clientPc = "setStopped"
    /\ m_stopped' = TRUE
    /\ clientPc' = "notifyStopped"
    /\ UNCHANGED <<m_tasks, m_stopping, pc, processRemainingJobs, submitted,
                   m_queueLimit, workerVars>>

\* A variant of NotifyStopped: the sleeping threads are not notified.
StopsSilently ==
    /\ clientPc = "notifyStopped"
    /\ clientPc' = "join"
    /\ UNCHANGED <<m_tasks, m_stopping, m_stopped, pc, processRemainingJobs,
                   submitted, m_queueLimit, workerVars>>

\* m_threadNeeded.notify_all(), made without the mutex.
NotifyStopped ==
    /\ clientPc = "notifyStopped"
    /\ pc' = [w \in Workers |-> IF pc[w] = "waiting" THEN "woken" ELSE pc[w]]
    /\ clientPc' = "join"
    /\ UNCHANGED <<m_tasks, m_stopping, m_stopped, processRemainingJobs,
                   submitted, m_queueLimit, workerVars>>

\* A variant of Join: the threads are not waited for.
Detach ==
    /\ clientPc = "join"
    /\ clientPc' = "returned"
    /\ UNCHANGED <<m_tasks, m_stopping, m_stopped, pc, processRemainingJobs,
                   submitted, m_queueLimit, workerVars>>

\* m_threads.join_all(): Stop returns.
Join ==
    /\ clientPc = "join"
    /\ \A w \in Workers : pc[w] = "exited"
    /\ clientPc' = "returned"
    /\ UNCHANGED <<m_tasks, m_stopping, m_stopped, pc, processRemainingJobs,
                   submitted, m_queueLimit, workerVars>>

\* Stop(true) has returned: the destructor's Stop() finds m_stopped set.  Once
\* it has returned too, the pool is gone.
Destroy ==
    /\ clientPc = "returned"
    /\ \/ /\ processRemainingJobs
          /\ processRemainingJobs' = FALSE /\ clientPc' = "stop"
       \/ /\ ~processRemainingJobs
          /\ clientPc' = "gone" /\ UNCHANGED processRemainingJobs
    /\ UNCHANGED <<m_tasks, m_stopping, m_stopped, pc, submitted, m_queueLimit, workerVars>>

WorkerStep(w) ==
    \/ WaitForJob(w) \/ TakeJob(w) \/ FinishJob(w)
    \/ NotifyAvailable(w) \/ TestStopped(w)

ClientStep ==
    \/ ReadInput \/ EndOfInput \/ InputThrows
    \/ SubmitWaits \/ Submit
    \/ StopBegins \/ DrainQueue \/ SetStopped \/ NotifyStopped \/ Join
    \/ Destroy

\* The client has left the scope of the pool.
Gone == clientPc = "gone" /\ UNCHANGED poolVars

Next ==
    \/ \E w \in Workers : WorkerStep(w) \/ SpuriousWakeup(w)
    \/ ClientStep \/ ClientSpuriousWakeup
    \/ Gone

\* The operating system schedules every thread that is not asleep, the mutex
\* is free again after every critical section, tasks end, and the input does.
Spec ==
    /\ Init /\ [][Next]_poolVars
    /\ \A w \in Workers : WF_poolVars(WorkerStep(w))
    /\ WF_poolVars(ClientStep)

-----------------------------------------------------------------------------
\* Tasks start in the order of their Submit, and none is lost, duplicated or
\* invented between the queue and the workers.
StartedInOrder == started \o m_tasks = [i \in 1 .. submitted |-> i]

Running == {task[w] : w \in {v \in Workers : pc[v] = "running"}}

\* Each task that was popped is either with exactly one worker or completed.
RunOnce ==
    /\ {started[i] : i \in 1 .. Len(started)} = Running \cup completed
    /\ Running \cap completed = {}
    /\ \A v, w \in Workers :
          pc[v] = "running" /\ pc[w] = "running" /\ task[v] = task[w] => v = w

\* "Wait until all queued jobs have completed, and shut down the ThreadPool":
\* when Stop(true) returns every submitted task has been run to its end.
StopTrueCompletes ==
    clientPc = "returned" /\ processRemainingJobs => completed = 1 .. submitted

\* No thread outlives the call that stops the pool, so none touches the
\* collectors the client destroys next.
NoThreadSurvivesStop ==
    clientPc \in {"returned", "gone"} => \A w \in Workers : pc[w] = "exited"

\* A notification is never lost: whenever a thread sleeps although what it
\* waits for has come true, some other thread is still to wake it or to do the
\* work.
NoLostWakeup ==
    /\ m_tasks # <<>> /\ ~m_stopped => \E w \in Workers : pc[w] # "waiting"
    /\ \/ clientPc = "drainWaiting" /\ m_tasks = <<>>
       \/ clientPc = "submitWaiting" /\ ~QueueFull
       => \E w \in Workers : pc[w] \in {"running", "notify"}

\* The client always gets out: no Submit, drain or join blocks for ever.
Termination == <>(clientPc = "gone")
=============================================================================
