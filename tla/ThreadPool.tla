------------------------------ MODULE ThreadPool ------------------------------
(***************************************************************************)
(* The framework's thread pool: worker threads that pop a priority queue,  *)
(* and a controlling thread that adds tasks, pauses, resumes, resizes and  *)
(* destroys the pool by pushing special tasks of CRITICAL priority.  Every *)
(* Push and Pop is one critical section of the queue's mutex; a thread     *)
(* that waits for a task is one whose Pop is not enabled.                  *)
(***************************************************************************)
EXTENDS Integers, Sequences, FiniteSets

CONSTANTS Tids,             \* thread ids, 0..n
          InitialThreads,   \* the constructor's argument
          MaxTasks,         \* bounds: tasks added, calls of Pause and SetNumThreads
          MaxPauses, MaxResizes,
          Sizes             \* arguments of SetNumThreads

ASSUME ThreadPoolAssumption ==
    /\ IsFiniteSet(Tids) /\ Tids = 0..(Cardinality(Tids) - 1)
    /\ InitialThreads \in 0..Cardinality(Tids)
    /\ {MaxTasks, MaxPauses, MaxResizes} \subseteq Nat
    /\ Sizes \subseteq Nat

VARIABLES
    m_pq,               \* the tasks in the queue, in the order of their creation
    threads,            \* [Tids -> where the thread is]
    m_deleted_threads,  \* tids of threads that have ended, for reuse
    m_tid,              \* the next new tid
    m_total_threads, m_paused, m_pause_sem,
    call,               \* what the controlling thread executes
    left, target,       \* its loop counter, and SetNumThreads' argument
    quiet,              \* Pause has returned and Resume has not been called
    grown,              \* SetNumThreads has added threads meanwhile
    tasks,              \* tasks added so far
    pauses, resizes     \* calls so far

poolVars == <<m_deleted_threads, m_tid, m_total_threads>>
pauseVars == <<m_paused, m_pause_sem, quiet, grown>>
callVars == <<call, left, target>>
countVars == <<tasks, pauses, resizes>>
vars == <<m_pq, threads, poolVars, pauseVars, callVars, countVars>>

CRITICAL == 4
Task(kind, priority) == [kind |-> kind, priority |-> priority]
PauseTask == Task("pause", CRITICAL)
EndTask == Task("end", CRITICAL)
Priorities == {1, 3}                    \* LOW and HIGH

Alive(t) == threads[t] \notin {"absent", "ended"}

Init ==
    /\ m_pq = << >>
    /\ threads = [t \in Tids |-> IF t < InitialThreads THEN "popping" ELSE "absent"]
    /\ m_deleted_threads = << >>
    /\ m_tid = InitialThreads
    /\ m_total_threads = InitialThreads
    /\ m_paused = FALSE /\ m_pause_sem = 0
    /\ quiet = FALSE /\ grown = FALSE
    /\ call = "none" /\ left = 0 /\ target = 0
    /\ tasks = 0 /\ pauses = 0 /\ resizes = 0

-------------------------------------------------------------------------------
(* The worker threads: ThreadRunTask. *)

\* A slip: operator< compares the creation times only.
TopByAge(q) == Len(q)

\* priority_queue::top: the highest priority, and of those the task created last.
Top(q) ==
    CHOOSE i \in DOMAIN q : \A j \in DOMAIN q :
        \/ q[j].priority < q[i].priority
        \/ q[j].priority = q[i].priority /\ j <= i

Remove(q, i) == SubSeq(q, 1, i - 1) \o SubSeq(q, i + 1, Len(q))

\* Where a thread goes with the task it popped; EndThreadTask only clears the
\* thread's own m_running.
Start(kind) ==
    CASE kind = "user"  -> "running"
      [] kind = "pause" -> "pausing"
      [] kind = "end"   -> "exiting"

Pop(t) ==
    /\ threads[t] = "popping"
    /\ m_pq # << >>
    /\ threads' = [threads EXCEPT ![t] = Start(m_pq[Top(m_pq)].kind)]
    /\ m_pq' = Remove(m_pq, Top(m_pq))
    /\ UNCHANGED <<poolVars, pauseVars, callVars, countVars>>

\* A slip: the thread's loop ends with its first task.
FinishTaskAndEnd(t) ==
    /\ threads[t] = "running"
    /\ threads' = [threads EXCEPT ![t] = "ended"]
    /\ UNCHANGED <<m_pq, poolVars, pauseVars, callVars, countVars>>

FinishTask(t) ==
    /\ threads[t] = "running"
    /\ threads' = [threads EXCEPT ![t] = "popping"]
    /\ UNCHANGED <<m_pq, poolVars, pauseVars, callVars, countVars>>

\* A slip: the semaphore is not released.
PauseWithoutRelease(t) ==
    /\ threads[t] = "pausing"
    /\ threads' = [threads EXCEPT ![t] = IF m_paused THEN "waiting" ELSE "popping"]
    /\ UNCHANGED <<m_pq, poolVars, pauseVars, callVars, countVars>>

\* Under m_pause_mtx: release the semaphore, then wait for !m_paused.
PauseThreadTask(t) ==
    /\ threads[t] = "pausing"
    /\ m_pause_sem' = m_pause_sem + 1
    /\ threads' = [threads EXCEPT ![t] = IF m_paused THEN "waiting" ELSE "popping"]
    /\ UNCHANGED <<m_pq, poolVars, m_paused, quiet, grown, callVars, countVars>>

\* A notified thread gets the mutex back and tests the predicate again.
WakeUp(t) ==
    /\ threads[t] = "notified"
    /\ threads' = [threads EXCEPT ![t] = IF m_paused THEN "waiting" ELSE "popping"]
    /\ UNCHANGED <<m_pq, poolVars, pauseVars, callVars, countVars>>

Exit(t) ==
    /\ threads[t] = "exiting"
    /\ threads' = [threads EXCEPT ![t] = "ended"]
    /\ m_deleted_threads' = Append(m_deleted_threads, t)
    /\ UNCHANGED <<m_pq, m_tid, m_total_threads, pauseVars, callVars, countVars>>

-------------------------------------------------------------------------------
(* The pool's users: AddTask, and the controlling thread's calls. *)

\* Any thread of the program may add tasks, until the pool is destroyed.
AddTask(priority) ==
    /\ call \notin {"destroying", "joining", "destroyed"}
    /\ tasks < MaxTasks
    /\ tasks' = tasks + 1
    /\ m_pq' = Append(m_pq, Task("user", priority))
    /\ UNCHANGED <<threads, poolVars, pauseVars, callVars, pauses, resizes>>

\* The loops of Pause, RemoveThreadsFromPool and ~ThreadPool: push one special
\* task per thread, then go on.
PushSpecial(during, task, next) ==
    /\ call = during
    /\ IF left > 0
       THEN /\ m_pq' = Append(m_pq, task)
            /\ left' = left - 1
            /\ UNCHANGED <<call, m_total_threads>>
       ELSE /\ call' = next
            /\ left' = m_total_threads
            /\ m_total_threads' = IF during = "shrinking" THEN target ELSE m_total_threads
            /\ UNCHANGED m_pq
    /\ UNCHANGED <<threads, m_deleted_threads, m_tid, pauseVars, target, countVars>>

\* Pause may be called on a paused pool; it then waits for threads that already wait.
Pause ==
    /\ call = "none"
    /\ pauses < MaxPauses
    /\ pauses' = pauses + 1
    /\ m_paused' = TRUE
    /\ call' = "pausing"
    /\ left' = m_total_threads
    /\ UNCHANGED <<m_pq, threads, poolVars, m_pause_sem, quiet, grown, target, tasks, resizes>>

PausePush == PushSpecial("pausing", PauseTask, "acquiring")

PauseAcquire ==
    /\ call = "acquiring"
    /\ IF left > 0
       THEN /\ m_pause_sem > 0
            /\ m_pause_sem' = m_pause_sem - 1
            /\ left' = left - 1
            /\ UNCHANGED <<call, quiet>>
       ELSE /\ call' = "none"
            /\ quiet' = TRUE
            /\ UNCHANGED <<m_pause_sem, left>>
    /\ UNCHANGED <<m_pq, threads, poolVars, m_paused, grown, target, countVars>>

Resume ==
    /\ call = "none"
    /\ m_paused' = FALSE
    /\ quiet' = FALSE /\ grown' = FALSE
    /\ threads' = [t \in Tids |-> IF threads[t] = "waiting" THEN "notified" ELSE threads[t]]
    /\ UNCHANGED <<m_pq, poolVars, m_pause_sem, callVars, countVars>>

SetNumThreads(n) ==
    /\ call = "none"
    /\ resizes < MaxResizes
    /\ resizes' = resizes + 1
    /\ target' = n
    /\ IF n > m_total_threads
       THEN /\ m_tid + (n - m_total_threads) <= Cardinality(Tids)
            /\ call' = "growing"
            /\ left' = n - m_total_threads
            /\ grown' = (grown \/ quiet)
       ELSE /\ call' = "shrinking"
            /\ left' = m_total_threads - n
            /\ UNCHANGED grown
    /\ UNCHANGED <<m_pq, threads, poolVars, m_paused, m_pause_sem, quiet, tasks, pauses>>

\* One iteration of AddThreadsToPool: reuse the tid of an ended thread, or take
\* a new one.
AddThreadToPool ==
    /\ call = "growing"
    /\ left > 0
    /\ left' = left - 1
    /\ IF m_deleted_threads # << >>
       THEN /\ threads' = [threads EXCEPT ![Head(m_deleted_threads)] = "popping"]
            /\ m_deleted_threads' = Tail(m_deleted_threads)
            /\ UNCHANGED m_tid
       ELSE /\ threads' = [threads EXCEPT ![m_tid] = "popping"]
            /\ m_tid' = m_tid + 1
            /\ UNCHANGED m_deleted_threads
    /\ UNCHANGED <<m_pq, m_total_threads, pauseVars, call, target, countVars>>

\* A slip: the new size is not stored.
SetNumThreadsForgets ==
    /\ call = "growing"
    /\ left = 0
    /\ call' = "none"
    /\ UNCHANGED <<m_pq, threads, poolVars, pauseVars, left, target, countVars>>

SetNumThreadsReturns ==
    /\ call = "growing"
    /\ left = 0
    /\ m_total_threads' = target
    /\ call' = "none"
    /\ UNCHANGED <<m_pq, threads, m_deleted_threads, m_tid, pauseVars, left, target, countVars>>

RemoveThreadsFromPool == PushSpecial("shrinking", EndTask, "none")

\* A slip: one thread gets no end task.
DestroyAllButOne ==
    /\ call = "none"
    /\ call' = "destroying"
    /\ left' = IF m_total_threads = 0 THEN 0 ELSE m_total_threads - 1
    /\ UNCHANGED <<m_pq, threads, poolVars, pauseVars, target, countVars>>

Destroy ==
    /\ call = "none"
    /\ call' = "destroying"
    /\ left' = m_total_threads
    /\ UNCHANGED <<m_pq, threads, poolVars, pauseVars, target, countVars>>

DestroyPush == PushSpecial("destroying", EndTask, "joining")

\* The jthreads of m_threads are joined before the queue is destroyed.
Join ==
    /\ call = "joining"
    /\ \A t \in Tids : ~Alive(t)
    /\ call' = "destroyed"
    /\ UNCHANGED <<m_pq, threads, poolVars, pauseVars, left, target, countVars>>

-------------------------------------------------------------------------------
Thread(t) ==
    Pop(t) \/ FinishTask(t) \/ PauseThreadTask(t) \/ WakeUp(t) \/ Exit(t)

\* The steps of a call that has begun.
Proceed ==
    \/ PausePush \/ PauseAcquire
    \/ AddThreadToPool \/ SetNumThreadsReturns \/ RemoveThreadsFromPool
    \/ DestroyPush \/ Join

Next ==
    \/ \E t \in Tids : Thread(t)
    \/ Proceed
    \/ \E priority \in Priorities : AddTask(priority)
    \/ Pause \/ Resume \/ Destroy
    \/ \E n \in Sizes : SetNumThreads(n)

\* The operating system runs every thread that can run, and user tasks return.
Fairness == WF_vars(Proceed) /\ \A t \in Tids : WF_vars(Thread(t))

Spec == Init /\ [][Next]_vars /\ Fairness

-------------------------------------------------------------------------------
ThreadStates ==
    {"absent", "popping", "running", "pausing", "waiting", "notified", "exiting", "ended"}

TypeOK ==
    /\ m_pq \in Seq([kind : {"user", "pause", "end"}, priority : Priorities \cup {CRITICAL}])
    /\ threads \in [Tids -> ThreadStates]
    /\ m_deleted_threads \in Seq(Tids)
    /\ m_tid \in 0..Cardinality(Tids)
    /\ m_total_threads \in Nat /\ m_pause_sem \in Nat
    /\ {m_paused, quiet, grown} \subseteq BOOLEAN
    /\ call \in {"none", "pausing", "acquiring", "growing", "shrinking",
                 "destroying", "joining", "destroyed"}
    /\ left \in Nat /\ target \in Nat
    /\ tasks \in 0..MaxTasks /\ pauses \in 0..MaxPauses /\ resizes \in 0..MaxResizes

Queued(kind) == Cardinality({i \in DOMAIN m_pq : m_pq[i].kind = kind})
Count(state) == Cardinality({t \in Tids : threads[t] = state})

\* Between calls the number of live threads that no end task is meant for is
\* m_total_threads, however pops, exits and earlier resizes interleave: Pause and
\* the destructor push exactly as many special tasks as there are threads to take
\* them.
ThreadsBalance ==
    /\ TypeOK
    /\ call = "none" =>
           Cardinality({t \in Tids : Alive(t)}) - Count("exiting") - Queued("end")
               = m_total_threads

\* No thread starts a task between the return of Pause and the call of Resume
\* ("Pause Thread Pool execution"), not even one that an earlier resize left over,
\* as long as no threads are added to the paused pool: those start tasks at once.
NoStartWhilePaused ==
    [][quiet /\ ~grown => \A t \in Tids : threads[t] = "popping" => threads'[t] # "running"]_vars

Pausing == call \in {"pausing", "acquiring"}
Destroying == call \in {"destroying", "joining"}

\* Pause returns: every task it pushes is taken by a thread.  The exception is known: a
\* thread that the last Resume has notified and that gets the mutex only after this
\* Pause has set m_paused waits on without taking a task, and Pause acquires one token
\* too few for ever.
PauseReturns ==
    (call = "pausing" /\ left = m_total_threads
        /\ \A t \in Tids : threads[t] \notin {"notified", "waiting"}) ~> ~Pausing

\* "Thread pool destructor joins workers", whatever is queued and however the pool
\* was resized, unless it is paused: nobody resumes the threads that wait.
DestructorJoins == Destroying /\ ~quiet ~> call = "destroyed"

\* The queue drains again and again, unless the pool is being paused, has no threads or
\* is destroyed (the destructor's end tasks overtake what is still queued).
UserTasksRun ==
    []<>(Queued("user") = 0 \/ m_paused \/ m_total_threads = 0
            \/ call \in {"destroying", "joining", "destroyed"})
===============================================================================
