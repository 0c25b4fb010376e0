------------------------------- MODULE Scheduler ------------------------------
(***************************************************************************)
(* The scheduler: a priority queue of tasks ordered by the time they are   *)
(* due, one POSIX timer armed for the first of them, and a thread that the *)
(* timer's expiry creates (SIGEV_THREAD) and that runs RunTask.  A thread  *)
(* may be created long before it gets the mutex, several may be alive, and *)
(* the destructor, which runs when the process exits, waits for none.      *)
(* AsyncInjection adds the tasks this program schedules, and the           *)
(* next-state relation.                                                    *)
(***************************************************************************)
EXTENDS Integers, FiniteSetsExt

CONSTANTS Tasks,            \* the tasks that may be added
          Intervals,        \* the intervals they are added with
          MaxTime,          \* bound on the clock
          NotArmed

ASSUME SchedulerAssumption ==
    /\ Intervals \subseteq Nat
    /\ MaxTime \in Nat
    /\ NotArmed \notin Nat

VARIABLES
    now,            \* the system clock
    m_queue,        \* set of [task, time] records
    m_counter,
    timer,          \* the time the timer is armed for, or NotArmed
    expired,        \* expiry threads that have not yet taken the mutex
    running,        \* tasks being run by an expiry thread
    life,           \* "up", "disarmed" (the timer is deleted) or "down"
    \* history, for the properties
    ran,            \* tasks that have been run
    rearmed,        \* the timer was armed while an expiry thread waited
    busyAtExit,     \* the destructor began while an expiry thread was alive
    touched         \* a thread used the timer or the mutex after it was gone

queueVars == <<m_queue, m_counter>>
timerVars == <<timer, rearmed, touched>>
exitVars == <<life, busyAtExit>>
schedulerVars == <<now, queueVars, timerVars, expired, running, ran, exitVars>>

SchedulerInit ==
    /\ now = 0
    /\ m_queue = {} /\ m_counter = 0
    /\ timer = NotArmed /\ expired = 0
    /\ running = {} /\ ran = {}
    /\ life = "up" /\ busyAtExit = FALSE
    /\ rearmed = FALSE /\ touched = FALSE

Queued == {e.task : e \in m_queue}

\* A slip: operator< the wrong way round.
IsTopReversed(q, e) == e \in q /\ \A f \in q : f.time <= e.time

\* priority_queue::top, the entry that is due first (one of them on a tie).
IsTop(q, e) == e \in q /\ \A f \in q : e.time <= f.time

\* StartTimer: timer_settime with the time of the first entry of queue q.  It
\* throws when the destructor has deleted the timer.
StartTimer(q) ==
    IF life = "up"
    THEN /\ timer' = Min({e.time : e \in q})
         /\ rearmed' = (rearmed \/ expired > 0)
         /\ UNCHANGED touched
    ELSE touched' = TRUE /\ UNCHANGED <<timer, rearmed>>

AddTask(t, interval) ==
    /\ life # "down"
    /\ t \notin Queued \cup running \cup ran
    /\ m_queue' = m_queue \cup {[task |-> t, time |-> now + interval]}
    /\ m_counter' = m_counter + 1
    /\ StartTimer(m_queue')
    /\ UNCHANGED <<now, expired, running, ran, exitVars>>

Tick ==
    /\ now < MaxTime
    /\ now' = now + 1
    /\ UNCHANGED <<queueVars, timerVars, expired, running, ran, exitVars>>

\* The timer is one-shot; one armed for a time in the past expires at once.
Expire ==
    /\ timer # NotArmed
    /\ timer <= now
    /\ timer' = NotArmed
    /\ expired' = expired + 1
    /\ UNCHANGED <<now, queueVars, rearmed, touched, running, ran, exitVars>>

\* RunTask's first critical section.
TakeTask ==
    /\ expired > 0 /\ life # "down"
    /\ expired' = expired - 1
    /\ \/ /\ m_queue = {}
          /\ UNCHANGED <<m_queue, running>>
       \/ \E e \in m_queue :
              /\ IsTop(m_queue, e)
              /\ m_queue' = m_queue \ {e}
              /\ running' = running \cup {e.task}
    /\ UNCHANGED <<now, m_counter, timerVars, ran, exitVars>>

Ended(t) ==
    /\ t \in running /\ life # "down"
    /\ running' = running \ {t}
    /\ ran' = ran \cup {t}
    /\ UNCHANGED <<now, m_queue, expired, exitVars>>

\* A slip: the timer is not restarted.
FinishWithoutRestart(t) ==
    /\ Ended(t)
    /\ m_counter' = m_counter - 1
    /\ UNCHANGED timerVars

\* RunTask's second critical section: the task has run (what it throws is
\* swallowed); the timer is started again for what is left.
FinishTask(t) ==
    /\ Ended(t)
    /\ m_counter' = m_counter - 1
    /\ IF m_counter' # 0 /\ m_queue # {} THEN StartTimer(m_queue) ELSE UNCHANGED timerVars

\* A slip: the timer is left armed.
DestructorWithoutDisarm ==
    /\ life = "up"
    /\ life' = "disarmed"
    /\ busyAtExit' = (expired > 0 \/ running # {})
    /\ UNCHANGED <<now, queueVars, timerVars, expired, running, ran>>

\* ~Scheduler disarms and deletes the timer, without the mutex ...
DestructorDisarm ==
    /\ life = "up"
    /\ life' = "disarmed"
    /\ timer' = NotArmed
    /\ busyAtExit' = (expired > 0 \/ running # {})
    /\ UNCHANGED <<now, queueVars, rearmed, touched, expired, running, ran>>

\* ... and empties the queue with it; the members are gone when it returns.
DestructorClear ==
    /\ life = "disarmed"
    /\ life' = "down"
    /\ m_queue' = {} /\ m_counter' = 0
    /\ UNCHANGED <<now, timerVars, expired, running, ran, busyAtExit>>

\* A thread that is still alive goes on to lock the mutex of the dead scheduler.
UseDestroyed ==
    /\ life = "down" /\ ~touched
    /\ expired > 0 \/ running # {}
    /\ touched' = TRUE
    /\ UNCHANGED <<now, queueVars, timer, rearmed, expired, running, ran, exitVars>>

-------------------------------------------------------------------------------
\* While the scheduler lives, m_counter is the number of tasks that are queued or
\* being run, so the task that finds it zero is the last one.
SchedulerTypeOK ==
    /\ now \in 0..MaxTime
    /\ m_queue \subseteq [task : Tasks, time : Nat]
    /\ timer \in Nat \cup {NotArmed}
    /\ expired \in Nat
    /\ running \subseteq Tasks /\ ran \subseteq Tasks
    /\ life \in {"up", "disarmed", "down"}
    /\ {rearmed, busyAtExit, touched} \subseteq BOOLEAN
    /\ m_counter = IF life = "down" THEN 0 ELSE Cardinality(m_queue) + Cardinality(running)

\* A queue with entries is never forgotten: the timer is armed for one of its
\* entries, or a thread is about to look at it or to restart the timer.
QueueIsWatched ==
    life = "up" /\ m_queue # {} => timer # NotArmed \/ expired > 0 \/ running # {}

\* No thread uses the scheduler's timer or mutex after the destructor, which runs at
\* exit with entries in the queue and the timer armed, as long as no expiry thread
\* is alive when it begins: ~Scheduler waits for none, and one that is alive locks
\* a mutex that is gone, or throws because the timer is.
DestroyedUnused == touched => busyAtExit

\* A task is not run before it is due, as long as the timer is not armed while an
\* expiry thread still waits for the mutex.  AddTask and RunTask do arm it then: it
\* expires a second time for the same entry, and the second thread takes the next
\* entry, whenever that is due.
RunsWhenDue ==
    [][~rearmed /\ life = "up" =>
           \A e \in m_queue : e \notin m_queue' => e.time <= now]_schedulerVars

\* Every task added is run, whatever is added or expires meanwhile (as far as the
\* clock goes), unless the process exits.
EveryTaskRuns ==
    \A t \in Tasks :
        t \in {e.task : e \in {f \in m_queue : f.time <= MaxTime}} ~> t \in ran \/ life # "up"
===============================================================================
