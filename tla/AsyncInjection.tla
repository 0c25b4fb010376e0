---------------------------- MODULE AsyncInjection -----------------------------
(***************************************************************************)
(* Functions that are polled until they return true.  Schedule makes an    *)
(* injection and adds a task for it to the scheduler; the expiry thread    *)
(* that runs the task calls the function and, if it returned false, adds   *)
(* the next task.  A task holds a weak pointer: the injection lives while  *)
(* the frame of Schedule or a thread that has locked the pointer owns it.  *)
(* The n-th task of injection i is <<i, n>>.                               *)
(***************************************************************************)
EXTENDS Scheduler

CONSTANTS Injections,
          PlainTasks,       \* other tasks that are added to the scheduler
          MaxPolls          \* the function returns true at the latest by this call

ASSUME AsyncAssumption ==
    /\ MaxPolls \in Nat \ {0}
    /\ Tasks = PlainTasks \cup (Injections \X (1..MaxPolls))
    /\ PlainTasks \cap (Injections \X (1..MaxPolls)) = {}

VARIABLES
    m_interval,     \* [Injections -> the interval, NotArmed before Schedule]
    owners,         \* the tasks whose thread has locked the pointer; <<i, 0>> is Schedule
    called,         \* tasks whose thread has called the function
    settled         \* injections whose function has returned true, or thrown

asyncVars == <<m_interval, owners, called, settled>>
vars == <<schedulerVars, asyncVars>>

Init ==
    /\ SchedulerInit
    /\ m_interval = [i \in Injections |-> NotArmed]
    /\ owners = {} /\ called = {} /\ settled = {}

Polls == Injections \X (1..MaxPolls)

\* The weak pointer of injection i can be locked.
Alive(i) == \E n \in 0..MaxPolls : <<i, n>> \in owners

Schedule(i, interval) ==
    /\ life = "up"
    /\ m_interval[i] = NotArmed
    /\ m_interval' = [m_interval EXCEPT ![i] = interval]
    /\ owners' = owners \cup {<<i, 0>>}
    /\ AddTask(<<i, 1>>, interval)
    /\ UNCHANGED <<called, settled>>

\* A slip: a list keeps every pointer Schedule has made.
ScheduleKeeps(i) == <<i, 0>> \in owners /\ UNCHANGED vars

\* Schedule's shared pointer goes out of scope.
ScheduleReturns(i) ==
    /\ <<i, 0>> \in owners
    /\ owners' = owners \ {<<i, 0>>}
    /\ UNCHANGED <<schedulerVars, m_interval, called, settled>>

\* AsyncInjectionTask::Run locks the pointer.
LockInjection(t) ==
    /\ t \in running \ (owners \cup called)
    /\ Alive(t[1])
    /\ owners' = owners \cup {t}
    /\ UNCHANGED <<schedulerVars, m_interval, called, settled>>

Reschedule(t) ==
    /\ t[2] < MaxPolls
    /\ AddTask(<<t[1], t[2] + 1>>, m_interval[t[1]])

\* A slip: the result is ignored.
PerformActionAlways(t) ==
    /\ t \in owners \ called
    /\ called' = called \cup {t}
    /\ settled' \in {settled, settled \cup {t[1]}}
    /\ Reschedule(t)
    /\ UNCHANGED <<m_interval, owners>>

\* PerformAction: the function returns true (or throws, which RunTask swallows), or
\* it returns false and the next task is added from the expiry thread.
PerformAction(t) ==
    /\ t \in owners \ called
    /\ called' = called \cup {t}
    /\ \/ /\ settled' = settled \cup {t[1]}
          /\ UNCHANGED schedulerVars
       \/ /\ Reschedule(t)
          /\ UNCHANGED settled
    /\ UNCHANGED <<m_interval, owners>>

\* Run returns and drops the thread's pointer.
Release(t) ==
    /\ t \in owners \cap called
    /\ owners' = owners \ {t}
    /\ UNCHANGED <<schedulerVars, m_interval, called, settled>>

\* A task has run: it has called the function, or found its injection dead.
FinishPoll(t) ==
    /\ t \in called \/ ~Alive(t[1])
    /\ t \notin owners
    /\ FinishTask(t)
    /\ UNCHANGED asyncVars

SchedulerNext ==
    /\ \/ life = "up" /\ \E t \in PlainTasks, interval \in Intervals : AddTask(t, interval)
       \/ \E t \in PlainTasks : FinishTask(t)
       \/ Tick
       \/ Expire
       \/ TakeTask
       \/ DestructorDisarm
       \/ DestructorClear
       \/ UseDestroyed
    /\ UNCHANGED asyncVars

Next ==
    \/ SchedulerNext
    \/ \E i \in Injections, interval \in Intervals : Schedule(i, interval)
    \/ \E i \in Injections : ScheduleReturns(i)
    \/ \E t \in Polls : LockInjection(t) \/ PerformAction(t) \/ Release(t) \/ FinishPoll(t)

\* Time passes, the timer expires, every thread gets the mutex and what it runs
\* returns; so does Schedule, which has nothing left to do once it has added the task.
\* The process's exit is not hurried.
Fairness ==
    /\ WF_vars(Tick /\ UNCHANGED asyncVars)
    /\ WF_vars(Expire /\ UNCHANGED asyncVars)
    /\ WF_vars(TakeTask /\ UNCHANGED asyncVars)
    /\ \A t \in PlainTasks : WF_vars(FinishTask(t) /\ UNCHANGED asyncVars)
    /\ \A t \in Polls :
           WF_vars(LockInjection(t) \/ PerformAction(t) \/ Release(t) \/ FinishPoll(t))
    /\ \A i \in Injections : WF_vars(ScheduleReturns(i))

Spec == Init /\ [][Next]_vars /\ Fairness

-------------------------------------------------------------------------------
TypeOK ==
    /\ SchedulerTypeOK
    /\ m_interval \in [Injections -> Intervals \cup {NotArmed}]
    /\ owners \subseteq Injections \X (0..MaxPolls)
    /\ called \subseteq Polls
    /\ settled \subseteq Injections

\* A function is polled by one thread at a time and never after it returned true: at
\* most one task of an injection has still to call it, and none once it has returned
\* true, although each task is added by the thread that runs the one before.
PollsAreSerial ==
    /\ TypeOK
    /\ \A i \in Injections :
           LET pending == {t \in (Queued \cup running) \ called : t \in Polls /\ t[1] = i}
           IN /\ Cardinality(pending) <= 1
              /\ i \in settled => pending = {}

\* Polling ends and leaves nothing behind: every injection is destroyed, and no task of
\* it stays with the scheduler, whichever of the threads that lock its pointer while
\* Schedule returns is the last to own it, and whether its function has returned true or
\* was never called again (up to the exit and to a poll due beyond the clock's bound).
InjectionsEnd ==
    \A i \in Injections :
        m_interval[i] # NotArmed ~>
            \/ ~Alive(i) /\ (Queued \cup running) \cap ({i} \X (1..MaxPolls)) = {}
            \/ life # "up"
            \/ \E e \in m_queue : e.task \in {i} \X (1..MaxPolls) /\ e.time > MaxTime
===============================================================================
