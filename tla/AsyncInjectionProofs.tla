------------------------- MODULE AsyncInjectionProofs --------------------------
(***************************************************************************)
(* The scheduler and the injections on it, for any tasks, intervals and    *)
(* number of polls: the counter counts, no queued task is forgotten, the   *)
(* destructor is safe where it can be, and a function is polled by one     *)
(* thread at a time.                                                       *)
(***************************************************************************)
EXTENDS AsyncInjection, FiniteSetTheorems, TLAPS

(* The scheduler. *)

\* A task is queued once, being run, or done.
TasksApart ==
    /\ \A e, f \in m_queue : e.task = f.task => e = f
    /\ \A e \in m_queue : e.task \notin running \cup ran
    /\ running \cap ran = {}

\* While the timer was never armed under a waiting expiry thread, the armed timer or the
\* one waiting thread stands for an entry that is due no later.
Timely ==
    /\ expired <= 1
    /\ expired > 0 => timer = NotArmed
    /\ timer # NotArmed => \E e \in m_queue : e.time <= timer
    /\ expired > 0 => \E e \in m_queue : e.time <= now

\* Once the timer is deleted no thread is created, so that one that is alive was alive
\* when the destructor began.
ExitKnown ==
    /\ life = "up" => ~touched
    /\ life # "up" => timer = NotArmed
    /\ life # "up" /\ ~busyAtExit => expired = 0 /\ running = {}

SchedulerInv ==
    /\ SchedulerTypeOK
    /\ IsFiniteSet(m_queue) /\ IsFiniteSet(running)
    /\ TasksApart
    /\ QueueIsWatched
    /\ life = "up" /\ ~rearmed => Timely
    /\ ExitKnown
    /\ DestroyedUnused

\* A queue that is not empty has an entry that is due first.
LEMMA SmallestTime ==
    ASSUME NEW q, q \subseteq [task : Tasks, time : Nat], q # {}
    PROVE  /\ Min({e.time : e \in q}) \in Nat
           /\ \E e \in q : e.time = Min({f.time : f \in q})
  <1> DEFINE T == {e.time : e \in q}
  <1>1. T \subseteq Nat /\ T # {}
    OBVIOUS
  <1> HIDE DEF T
  <1>2. PICK x \in T : \A y \in T : ~(<<y, x>> \in OpToRel(<, Nat))
    BY <1>1, NatLessThanWellFounded, WFMin
  <1>3. \A y \in T : x <= y
    <2> SUFFICES ASSUME NEW y \in T PROVE x <= y
      OBVIOUS
    <2>1. x \in Nat /\ y \in Nat
      BY <1>1
    <2>2. ~(y < x)
      BY <1>2, <2>1 DEF OpToRel
    <2> QED BY <2>1, <2>2
  <1>4. Min(T) \in T
    BY <1>3 DEF Min
  <1> QED BY <1>1, <1>4 DEF T

\* StartTimer arms the timer for an entry of the queue, or throws.
LEMMA TimerStarted ==
    ASSUME SchedulerTypeOK, NEW q, q \subseteq [task : Tasks, time : Nat], q # {}, StartTimer(q)
    PROVE  /\ life = "up" =>
                  /\ timer' \in Nat /\ timer' # NotArmed
                  /\ \E e \in q : e.time <= timer'
                  /\ rearmed' = (rearmed \/ expired > 0)
                  /\ touched' = touched
           /\ life # "up" => touched' = TRUE /\ timer' = timer /\ rearmed' = rearmed
  <1>1. CASE life = "up"
    <2>1. timer' \in Nat /\ \E e \in q : e.time = timer'
      BY <1>1, SmallestTime DEF StartTimer
    <2>2. \E e \in q : e.time <= timer'
      BY <2>1
    <2> QED BY <1>1, <2>1, <2>2, SchedulerAssumption DEF StartTimer
  <1>2. CASE life # "up"
    BY <1>2 DEF StartTimer
  <1> QED BY <1>1, <1>2

\* A new scheduler has nothing queued and its timer is not armed.
LEMMA InitEstablishesSchedulerInv ==
    ASSUME SchedulerInit PROVE SchedulerInv
  <1> USE DEF SchedulerInit
  <1>1. Cardinality(m_queue) = 0 /\ Cardinality(running) = 0
        /\ IsFiniteSet(m_queue) /\ IsFiniteSet(running)
    BY FS_EmptySet
  <1>2. SchedulerTypeOK
    <2>1. now \in 0..MaxTime /\ expired \in Nat /\ m_counter = 0 + 0
      BY SchedulerAssumption
    <2>2. {rearmed, busyAtExit, touched} \subseteq BOOLEAN
      OBVIOUS
    <2> QED BY <1>1, <2>1, <2>2 DEF SchedulerTypeOK
  <1> QED BY <1>1, <1>2
       DEF SchedulerInv, TasksApart, QueueIsWatched, Timely, ExitKnown, DestroyedUnused

\* AddTask counts the task, queues it and arms the timer for the earliest entry.
LEMMA AddTaskKeepsSchedulerInv ==
    ASSUME SchedulerInv, NEW t \in Tasks, NEW interval \in Nat, AddTask(t, interval),
           life = "up" \/ running # {}
    PROVE  SchedulerInv'
  <1> DEFINE e == [task |-> t, time |-> now + interval]
  <1> USE DEF SchedulerInv
  <1>1. /\ life # "down" /\ t \notin Queued /\ t \notin running /\ t \notin ran
        /\ m_queue' = m_queue \cup {e} /\ m_counter' = m_counter + 1
        /\ StartTimer(m_queue')
        /\ UNCHANGED <<now, expired, running, ran, life, busyAtExit>>
    BY DEF AddTask, exitVars
  <1>2. now \in Nat /\ e \in [task : Tasks, time : Nat] /\ e.task = t
    BY SchedulerAssumption DEF SchedulerTypeOK
  <1>3. m_queue' \subseteq [task : Tasks, time : Nat] /\ m_queue' # {}
    BY <1>1, <1>2 DEF SchedulerTypeOK
  <1>4. e \notin m_queue
    BY <1>1, <1>2 DEF Queued
  <1> HIDE DEF e
  <1>5. /\ life = "up" =>
               /\ timer' \in Nat /\ timer' # NotArmed
               /\ \E f \in m_queue' : f.time <= timer'
               /\ rearmed' = (rearmed \/ expired > 0)
               /\ touched' = touched
        /\ life # "up" => touched' = TRUE /\ timer' = timer /\ rearmed' = rearmed
    BY <1>1, <1>3, TimerStarted
  <1>6. IsFiniteSet(m_queue') /\ Cardinality(m_queue') = Cardinality(m_queue) + 1
    BY <1>1, <1>4, FS_AddElement
  <1>7. Cardinality(m_queue) \in Nat /\ Cardinality(running) \in Nat
    BY FS_CardinalityType
  <1>8. m_counter' = Cardinality(m_queue') + Cardinality(running')
    BY <1>1, <1>6, <1>7 DEF SchedulerTypeOK
  <1>9. {rearmed', touched', busyAtExit'} \subseteq BOOLEAN
    BY <1>1, <1>5 DEF SchedulerTypeOK
  <1>10. SchedulerTypeOK'
    BY <1>1, <1>3, <1>5, <1>8, <1>9 DEF SchedulerTypeOK
  <1>11. TasksApart'
    BY <1>1, <1>2 DEF TasksApart, Queued
  <1>12. QueueIsWatched'
    BY <1>1, <1>5 DEF QueueIsWatched
  <1>13. life' = "up" /\ ~rearmed' => Timely'
    <2> SUFFICES ASSUME life = "up", ~rearmed' PROVE Timely'
      BY <1>1
    <2>1. ~(expired > 0) /\ expired \in Nat
      BY <1>5 DEF SchedulerTypeOK
    <2>2. expired' = 0
      BY <1>1, <2>1
    <2> QED BY <1>5, <2>2 DEF Timely
  <1>14. ExitKnown' /\ DestroyedUnused'
    BY <1>1, <1>5 DEF ExitKnown, DestroyedUnused
  <1> QED BY <1>1, <1>6, <1>10, <1>11, <1>12, <1>13, <1>14

\* Time passes: an armed timer is never behind the clock.
LEMMA TickKeepsSchedulerInv ==
    ASSUME SchedulerInv, Tick PROVE SchedulerInv'
  <1> USE DEF SchedulerInv
  <1>1. /\ now < MaxTime /\ now' = now + 1
        /\ UNCHANGED <<m_queue, m_counter, timer, rearmed, touched, expired, running, ran,
                       life, busyAtExit>>
    BY DEF Tick, queueVars, timerVars, exitVars
  <1>2. now \in 0..MaxTime /\ m_queue \subseteq [task : Tasks, time : Nat]
    BY DEF SchedulerTypeOK
  <1>3. now' \in 0..MaxTime
    BY <1>1, <1>2, SchedulerAssumption
  <1>4. \A e \in m_queue : e.time <= now => e.time <= now'
    BY <1>1, <1>2
  <1>5. SchedulerTypeOK'
    BY <1>1, <1>3 DEF SchedulerTypeOK
  <1>6. Timely => Timely'
    BY <1>1, <1>4 DEF Timely
  <1>7. TasksApart' /\ QueueIsWatched' /\ ExitKnown' /\ DestroyedUnused'
    BY <1>1 DEF TasksApart, QueueIsWatched, ExitKnown, DestroyedUnused
  <1> QED BY <1>1, <1>5, <1>6, <1>7

\* The timer expires into a thread of its own.
LEMMA ExpireKeepsSchedulerInv ==
    ASSUME SchedulerInv, Expire PROVE SchedulerInv'
  <1> USE DEF SchedulerInv
  <1>1. /\ timer # NotArmed /\ timer <= now /\ timer' = NotArmed /\ expired' = expired + 1
        /\ UNCHANGED <<now, m_queue, m_counter, rearmed, touched, running, ran, life, busyAtExit>>
    BY DEF Expire, queueVars, exitVars
  <1>2. /\ timer \in Nat /\ now \in Nat /\ expired \in Nat
        /\ m_queue \subseteq [task : Tasks, time : Nat]
    BY <1>1, SchedulerAssumption DEF SchedulerTypeOK
  <1>3. SchedulerTypeOK'
    BY <1>1, <1>2 DEF SchedulerTypeOK
  <1>4. QueueIsWatched'
    BY <1>1, <1>2 DEF QueueIsWatched
  <1>5. Timely => Timely'
    <2> SUFFICES ASSUME Timely PROVE Timely'
      OBVIOUS
    <2>1. expired = 0
      BY <1>1, <1>2 DEF Timely
    <2>2. PICK e \in m_queue : e.time <= timer
      BY <1>1 DEF Timely
    <2>3. e.time <= now
      BY <1>1, <1>2, <2>2
    <2> QED BY <1>1, <2>1, <2>2, <2>3 DEF Timely
  <1>6. ExitKnown' /\ DestroyedUnused' /\ TasksApart'
    BY <1>1 DEF TasksApart, ExitKnown, DestroyedUnused
  <1> QED BY <1>1, <1>3, <1>4, <1>5, <1>6

\* The entry TakeTask takes is due, unless the timer was armed under a waiting thread.
LEMMA TopIsDue ==
    ASSUME SchedulerInv, life = "up", ~rearmed, expired > 0,
           NEW e \in m_queue, IsTop(m_queue, e)
    PROVE  e.time <= now
  <1>1. PICK f \in m_queue : f.time <= now
    BY DEF SchedulerInv, Timely
  <1>2. e.time <= f.time
    BY DEF IsTop
  <1>3. e.time \in Nat /\ f.time \in Nat /\ now \in Nat
    BY SchedulerAssumption DEF SchedulerInv, SchedulerTypeOK
  <1> QED BY <1>1, <1>2, <1>3

\* A thread takes the earliest entry and arms the timer for the next.
LEMMA TakeTaskKeepsSchedulerInv ==
    ASSUME SchedulerInv, TakeTask PROVE SchedulerInv'
  <1> USE DEF SchedulerInv
  <1>1. /\ expired > 0 /\ life # "down" /\ expired' = expired - 1
        /\ UNCHANGED <<now, m_counter, timer, rearmed, touched, ran, life, busyAtExit>>
    BY DEF TakeTask, timerVars, exitVars
  <1>2. expired \in Nat
    BY DEF SchedulerTypeOK
  <1>3. life' = "up" /\ ~rearmed' => Timely'
    <2> SUFFICES ASSUME Timely PROVE Timely'
      BY <1>1
    <2>1. timer' = NotArmed /\ expired' = 0
      BY <1>1, <1>2 DEF Timely
    <2> QED BY <2>1 DEF Timely
  <1>4. busyAtExit \/ life = "up"
    BY <1>1, <1>2 DEF ExitKnown
  <1>5. ExitKnown' /\ DestroyedUnused'
    BY <1>1, <1>4 DEF ExitKnown, DestroyedUnused
  <1>6. CASE m_queue = {} /\ UNCHANGED <<m_queue, running>>
    <2>1. SchedulerTypeOK'
      BY <1>1, <1>2, <1>6 DEF SchedulerTypeOK
    <2> QED BY <1>1, <1>3, <1>5, <1>6, <2>1 DEF TasksApart, QueueIsWatched
  <1>7. ASSUME NEW e \in m_queue, m_queue' = m_queue \ {e}, running' = running \cup {e.task}
        PROVE  SchedulerInv'
    <2>1. e.task \in Tasks /\ e.task \notin running
      BY DEF SchedulerTypeOK, TasksApart
    <2>2. /\ IsFiniteSet(m_queue') /\ Cardinality(m_queue') = Cardinality(m_queue) - 1
          /\ IsFiniteSet(running') /\ Cardinality(running') = Cardinality(running) + 1
      BY <1>7, <2>1, FS_AddElement, FS_RemoveElement
    <2>3. Cardinality(m_queue) \in Nat /\ Cardinality(running) \in Nat
      BY FS_CardinalityType
    <2>4. m_counter' = Cardinality(m_queue') + Cardinality(running')
      BY <1>1, <2>2, <2>3 DEF SchedulerTypeOK
    <2>5. SchedulerTypeOK'
      BY <1>1, <1>2, <1>7, <2>1, <2>4 DEF SchedulerTypeOK
    <2>6. TasksApart'
      BY <1>1, <1>7 DEF TasksApart
    <2>7. QueueIsWatched'
      BY <1>7 DEF QueueIsWatched
    <2> QED BY <1>3, <1>5, <2>2, <2>5, <2>6, <2>7
  <1> QED BY <1>6, <1>7 DEF TakeTask

\* A thread ends its task.
LEMMA FinishTaskKeepsSchedulerInv ==
    ASSUME SchedulerInv, NEW t, FinishTask(t) PROVE SchedulerInv'
  <1> USE DEF SchedulerInv
  <1>1. /\ t \in running /\ life # "down" /\ running' = running \ {t} /\ ran' = ran \cup {t}
        /\ UNCHANGED <<now, m_queue, expired, life, busyAtExit>>
        /\ m_counter' = m_counter - 1
        /\ IF m_counter' # 0 /\ m_queue # {} THEN StartTimer(m_queue) ELSE UNCHANGED timerVars
    BY DEF FinishTask, Ended, exitVars
  <1>2. IsFiniteSet(running') /\ Cardinality(running') = Cardinality(running) - 1
    BY <1>1, FS_RemoveElement
  <1>3. /\ Cardinality(m_queue) \in Nat /\ Cardinality(running) \in Nat
        /\ Cardinality(running') \in Nat
        /\ m_queue # {} => Cardinality(m_queue) # 0
    BY <1>2, FS_CardinalityType, FS_EmptySet
  <1>4. m_counter' = Cardinality(m_queue') + Cardinality(running')
    BY <1>1, <1>2, <1>3 DEF SchedulerTypeOK
  <1>5. m_queue # {} => StartTimer(m_queue)
    BY <1>1, <1>3, <1>4
  <1>6. m_queue = {} => UNCHANGED <<timer, rearmed, touched>>
    BY <1>1 DEF timerVars
  <1>7. m_queue \subseteq [task : Tasks, time : Nat] /\ running \subseteq Tasks
    BY DEF SchedulerTypeOK
  <1>8. m_queue # {} =>
        /\ life = "up" =>
               /\ timer' \in Nat /\ timer' # NotArmed
               /\ \E e \in m_queue : e.time <= timer'
               /\ rearmed' = (rearmed \/ expired > 0)
               /\ touched' = touched
        /\ life # "up" => touched' = TRUE /\ timer' = timer /\ rearmed' = rearmed
    BY <1>5, <1>7, TimerStarted
  <1>9. /\ timer' \in Nat \cup {NotArmed}
        /\ {rearmed', touched', busyAtExit'} \subseteq BOOLEAN
    <2>1. CASE m_queue = {}
      BY <1>1, <1>6, <2>1 DEF SchedulerTypeOK
    <2>2. CASE m_queue # {}
      BY <1>1, <1>8, <2>2 DEF SchedulerTypeOK
    <2> QED BY <2>1, <2>2
  <1>10. SchedulerTypeOK'
    BY <1>1, <1>4, <1>7, <1>9 DEF SchedulerTypeOK
  <1>11. TasksApart'
    BY <1>1 DEF TasksApart
  <1>12. QueueIsWatched'
    BY <1>1, <1>8 DEF QueueIsWatched
  <1>13. life' = "up" /\ ~rearmed' => Timely'
    <2> SUFFICES ASSUME life = "up", ~rearmed' PROVE Timely'
      BY <1>1
    <2>1. CASE m_queue = {}
      BY <1>1, <1>6, <2>1 DEF Timely
    <2>2. CASE m_queue # {}
      <3>1. ~(expired > 0) /\ expired \in Nat
        BY <1>8, <2>2 DEF SchedulerTypeOK
      <3>2. expired' = 0
        BY <1>1, <3>1
      <3> QED BY <1>1, <1>8, <2>2, <3>2 DEF Timely
    <2> QED BY <2>1, <2>2
  <1>14. life # "up" => busyAtExit
    BY <1>1 DEF ExitKnown
  <1>15. ExitKnown' /\ DestroyedUnused'
    <2>1. life # "up" => timer' = timer
      BY <1>6, <1>8
    <2>2. life = "up" => touched' = touched
      BY <1>6, <1>8
    <2> QED BY <1>1, <1>14, <2>1, <2>2 DEF ExitKnown, DestroyedUnused
  <1> QED BY <1>1, <1>2, <1>10, <1>11, <1>12, <1>13, <1>15

\* The steps of ~Scheduler, and of a thread it does not wait for.
LEMMA DestructorKeepsSchedulerInv ==
    ASSUME SchedulerInv, DestructorDisarm \/ DestructorClear \/ UseDestroyed
    PROVE  SchedulerInv'
  <1> USE DEF SchedulerInv
  <1>0. expired \in Nat /\ (busyAtExit \in BOOLEAN)
    BY DEF SchedulerTypeOK
  <1>1. CASE DestructorDisarm
    <2>1. /\ life = "up" /\ life' = "disarmed" /\ timer' = NotArmed
          /\ busyAtExit' = (expired > 0 \/ running # {})
          /\ UNCHANGED <<now, m_queue, m_counter, rearmed, touched, expired, running, ran>>
      BY <1>1 DEF DestructorDisarm, queueVars
    <2>2. SchedulerTypeOK'
      BY <2>1 DEF SchedulerTypeOK
    <2>3. ExitKnown'
      <3>1. ASSUME ~busyAtExit' PROVE expired = 0 /\ running = {}
        <4>1. ~(expired > 0) /\ running = {}
          BY <2>1, <3>1, Zenon
        <4> QED BY <1>0, <4>1
      <3> QED BY <2>1, <3>1 DEF ExitKnown
    <2>4. ~touched
      BY <2>1 DEF ExitKnown
    <2> QED BY <2>1, <2>2, <2>3, <2>4 DEF TasksApart, QueueIsWatched, DestroyedUnused
  <1>2. CASE DestructorClear
    <2>1. /\ life = "disarmed" /\ life' = "down" /\ m_queue' = {} /\ m_counter' = 0
          /\ UNCHANGED <<now, timer, rearmed, touched, expired, running, ran, busyAtExit>>
      BY <1>2 DEF DestructorClear, timerVars
    <2>2. SchedulerTypeOK'
      BY <2>1 DEF SchedulerTypeOK
    <2>3. IsFiniteSet(m_queue')
      BY <2>1, FS_EmptySet
    <2> QED BY <2>1, <2>2, <2>3 DEF TasksApart, QueueIsWatched, ExitKnown, DestroyedUnused
  <1>3. CASE UseDestroyed
    <2>1. /\ life = "down" /\ touched' = TRUE /\ (expired > 0 \/ running # {})
          /\ UNCHANGED <<now, m_queue, m_counter, timer, rearmed, expired, running, ran, life,
                         busyAtExit>>
      BY <1>3 DEF UseDestroyed, queueVars, exitVars
    <2>2. busyAtExit
      BY <1>0, <2>1 DEF ExitKnown
    <2>3. SchedulerTypeOK'
      BY <2>1 DEF SchedulerTypeOK
    <2> QED BY <2>1, <2>2, <2>3 DEF TasksApart, QueueIsWatched, ExitKnown, DestroyedUnused
  <1> QED BY <1>1, <1>2, <1>3

\* Steps that leave the scheduler alone keep its invariant.
LEMMA SchedulerInvKept ==
    ASSUME SchedulerInv, UNCHANGED schedulerVars PROVE SchedulerInv'
  BY DEF SchedulerInv, schedulerVars, queueVars, timerVars, exitVars, SchedulerTypeOK,
         TasksApart, QueueIsWatched, Timely, ExitKnown, DestroyedUnused

\* Every step of the scheduler's own keeps its invariant.
LEMMA SchedulerNextKeepsSchedulerInv ==
    ASSUME SchedulerInv, SchedulerNext PROVE SchedulerInv'
  <1>1. ASSUME NEW t \in PlainTasks, NEW interval \in Intervals, life = "up", AddTask(t, interval)
        PROVE  SchedulerInv'
    BY <1>1, AddTaskKeepsSchedulerInv, AsyncAssumption, SchedulerAssumption
  <1>2. ASSUME NEW t \in PlainTasks, FinishTask(t) PROVE SchedulerInv'
    BY <1>2, FinishTaskKeepsSchedulerInv
  <1> QED BY <1>1, <1>2, TickKeepsSchedulerInv, ExpireKeepsSchedulerInv,
             TakeTaskKeepsSchedulerInv, DestructorKeepsSchedulerInv DEF SchedulerNext

-------------------------------------------------------------------------------
(* The injections. *)

\* A task that has still to call its function.
Pending(t) == t \in Queued \cup running /\ t \notin called

\* A function has been scheduled when a task of its is known, a thread owns an injection
\* only while it runs a task of its, and one task at most has still to call it.
InjectionInv ==
    /\ m_interval \in [Injections -> Intervals \cup {NotArmed}]
    /\ owners \subseteq Injections \X (0..MaxPolls)
    /\ called \subseteq Polls
    /\ settled \subseteq Injections
    /\ \A i \in settled : m_interval[i] # NotArmed
    /\ \A t \in Polls : t \in Queued \cup running => m_interval[t[1]] # NotArmed
    /\ \A t \in Polls : t \in owners => t \in running
    /\ \A s, t \in Polls : s[1] = t[1] /\ Pending(s) /\ Pending(t) => s = t
    /\ \A t \in Polls : Pending(t) => t[1] \notin settled

AsyncInv == SchedulerInv /\ InjectionInv

\* Polls are tasks, told apart by their injection and their number.
LEMMA PollsAreTasks ==
    /\ Polls \subseteq Tasks /\ PlainTasks \cap Polls = {}
    /\ \A t \in Polls : t[1] \in Injections /\ t[2] \in 1..MaxPolls /\ t = <<t[1], t[2]>>
    /\ \A i \in Injections, n \in 1..MaxPolls : <<i, n>> \in Polls
    /\ \A i \in Injections : <<i, 0>> \notin Polls
  BY AsyncAssumption DEF Polls

\* AddTask queues its task and runs nothing.
LEMMA TaskQueued ==
    ASSUME NEW t, NEW interval, AddTask(t, interval)
    PROVE  Queued' = Queued \cup {t} /\ running' = running
  <1> DEFINE entry == [task |-> t, time |-> now + interval]
  <1>1. m_queue' = m_queue \cup {entry} /\ running' = running
    BY DEF AddTask
  <1>2. entry.task = t
    OBVIOUS
  <1> HIDE DEF entry
  <1> QED BY <1>1, <1>2 DEF Queued

\* Steps that add no task and end none that a thread owns.
LEMMA InjectionsKept ==
    ASSUME InjectionInv, UNCHANGED <<m_interval, called, settled>>,
           owners' \subseteq Injections \X (0..MaxPolls),
           \A t \in Polls : t \in (Queued \cup running)' => t \in Queued \cup running,
           \A t \in Polls : t \in owners' => t \in running'
    PROVE  InjectionInv'
  <1>1. \A t \in Polls : Pending(t)' => Pending(t)
    BY DEF Pending
  <1> QED BY <1>1 DEF InjectionInv, Polls

\* The scheduler only moves polls from the queue to the threads and drops them.
LEMMA SchedulerNextKeepsInjectionInv ==
    ASSUME AsyncInv, SchedulerNext PROVE InjectionInv'
  <1> USE DEF AsyncInv
  <1>0. UNCHANGED <<m_interval, owners, called, settled>>
        /\ owners \subseteq Injections \X (0..MaxPolls)
        /\ \A t \in Polls : t \in owners => t \in running
    BY DEF SchedulerNext, asyncVars, InjectionInv
  <1>1. ASSUME NEW p \in PlainTasks, NEW interval \in Intervals, AddTask(p, interval)
        PROVE  InjectionInv'
    <2>1. Queued' = Queued \cup {p} /\ running' = running /\ p \notin Polls
      BY <1>1, TaskQueued, PollsAreTasks
    <2> QED BY <1>0, <2>1, InjectionsKept
  <1>2. ASSUME NEW p \in PlainTasks, FinishTask(p) PROVE InjectionInv'
    <2>1. Queued' = Queued /\ running' = running \ {p} /\ p \notin Polls
      BY <1>2, PollsAreTasks DEF FinishTask, Ended, Queued
    <2> QED BY <1>0, <2>1, InjectionsKept
  <1>3. CASE TakeTask
    <2>1. /\ \A t \in Polls : t \in (Queued \cup running)' => t \in Queued \cup running
          /\ running \subseteq running'
      BY <1>3 DEF TakeTask, Queued
    <2> QED BY <1>0, <2>1, InjectionsKept
  <1>4. CASE Tick \/ Expire \/ DestructorDisarm \/ DestructorClear \/ UseDestroyed
    <2>1. (Queued' = Queued \/ Queued' = {}) /\ running' = running
      BY <1>4 DEF Tick, Expire, DestructorDisarm, DestructorClear, UseDestroyed, Queued,
                  queueVars
    <2> QED BY <1>0, <2>1, InjectionsKept
  <1> QED BY <1>1, <1>2, <1>3, <1>4 DEF SchedulerNext

\* Schedule adds the first poll of an injection.
LEMMA ScheduleKeepsAsyncInv ==
    ASSUME AsyncInv, NEW i \in Injections, NEW interval \in Intervals, Schedule(i, interval)
    PROVE  AsyncInv'
  <1> USE DEF AsyncInv
  <1> DEFINE new == <<i, 1>>
  <1>1. /\ life = "up" /\ m_interval[i] = NotArmed /\ AddTask(new, interval)
        /\ m_interval' = [m_interval EXCEPT ![i] = interval]
        /\ owners' = owners \cup {<<i, 0>>} /\ UNCHANGED <<called, settled>>
    BY DEF Schedule
  <1>2. new \in Polls /\ new[1] = i /\ interval \in Nat /\ interval # NotArmed
    BY PollsAreTasks, AsyncAssumption, SchedulerAssumption
  <1>3. SchedulerInv'
    BY <1>1, <1>2, PollsAreTasks, AddTaskKeepsSchedulerInv
  <1> HIDE DEF new
  <1>4. Queued' = Queued \cup {new} /\ running' = running
    BY <1>1, TaskQueued
  <1>5. /\ m_interval' \in [Injections -> Intervals \cup {NotArmed}]
        /\ m_interval'[i] # NotArmed
        /\ \A j \in Injections : j # i => m_interval'[j] = m_interval[j]
    BY <1>1, <1>2 DEF InjectionInv
  <1>6. owners' \subseteq Injections \X (0..MaxPolls)
        /\ \A t \in Polls : t \in owners' => t \in running'
    BY <1>1, <1>4, PollsAreTasks, AsyncAssumption DEF InjectionInv
  <1>7. \A t \in Polls : t[1] = i => t \notin Queued \cup running
    BY <1>1 DEF InjectionInv
  <1>8. i \notin settled
    BY <1>1 DEF InjectionInv
  <1>9. \A t \in Polls : Pending(t)' => Pending(t) \/ t = new
    BY <1>1, <1>4 DEF Pending
  <1>10. \A s, t \in Polls : s[1] = t[1] /\ Pending(s)' /\ Pending(t)' => s = t
    BY <1>2, <1>7, <1>9 DEF InjectionInv, Pending
  <1>11. \A t \in Polls : Pending(t)' => t[1] \notin settled'
    BY <1>1, <1>2, <1>8, <1>9 DEF InjectionInv
  <1>12. \A t \in Polls : t \in (Queued \cup running)' => m_interval'[t[1]] # NotArmed
    BY <1>2, <1>4, <1>5, PollsAreTasks DEF InjectionInv
  <1>13. \A j \in settled' : m_interval'[j] # NotArmed
    BY <1>1, <1>5 DEF InjectionInv
  <1>14. InjectionInv'
    BY <1>1, <1>5, <1>6, <1>10, <1>11, <1>12, <1>13 DEF InjectionInv, Polls
  <1> QED BY <1>3, <1>14

\* A poll calls the function and, unless that is done, adds the next poll.
LEMMA PerformActionKeepsAsyncInv ==
    ASSUME AsyncInv, NEW t \in Polls, PerformAction(t)
    PROVE  AsyncInv'
  <1> USE DEF AsyncInv
  <1> DEFINE new == <<t[1], t[2] + 1>>
  <1>1. /\ t \in owners /\ t \notin called /\ called' = called \cup {t}
        /\ UNCHANGED <<m_interval, owners>>
    BY DEF PerformAction
  <1>2. /\ t \in running /\ Pending(t) /\ t[1] \in Injections /\ t[2] \in 1..MaxPolls
        /\ m_interval[t[1]] \in Intervals /\ m_interval[t[1]] \in Nat
    BY <1>1, PollsAreTasks, SchedulerAssumption DEF InjectionInv, Pending
  <1>3. called' \subseteq Polls
    BY <1>1 DEF InjectionInv
  <1>4. CASE settled' = settled \cup {t[1]} /\ UNCHANGED schedulerVars
    <2>1. Queued' = Queued /\ running' = running
      BY <1>4 DEF schedulerVars, queueVars, Queued
    <2>2. \A s \in Polls : Pending(s)' => Pending(s) /\ s # t
      BY <1>1, <2>1 DEF Pending
    <2>3. \A s \in Polls : Pending(s)' => s[1] # t[1]
      BY <1>2, <2>2 DEF InjectionInv
    <2>4. InjectionInv'
      BY <1>1, <1>2, <1>3, <1>4, <2>1, <2>2, <2>3 DEF InjectionInv, Polls
    <2> QED BY <1>4, <2>4, SchedulerInvKept
  <1>5. CASE Reschedule(t) /\ UNCHANGED settled
    <2>1. t[2] < MaxPolls /\ AddTask(new, m_interval[t[1]])
      BY <1>5 DEF Reschedule
    <2>2. t[2] + 1 \in 1..MaxPolls
      BY <1>2, <2>1, AsyncAssumption
    <2>3. new \in Polls /\ new[1] = t[1]
      BY <1>2, <2>2, PollsAreTasks
    <2> HIDE DEF new
    <2>4. SchedulerInv'
      BY <1>2, <2>1, <2>3, PollsAreTasks, AddTaskKeepsSchedulerInv
    <2>5. Queued' = Queued \cup {new} /\ running' = running
      BY <2>1, TaskQueued
    <2>6. \A s \in Polls : Pending(s)' => s = new \/ (Pending(s) /\ s # t)
      BY <1>1, <2>5 DEF Pending
    <2>7. \A s \in Polls : Pending(s) /\ s # t => s[1] # t[1]
      BY <1>2 DEF InjectionInv
    <2>8. t[1] \notin settled
      BY <1>2 DEF InjectionInv
    <2>9. \A r, s \in Polls : r[1] = s[1] /\ Pending(r)' /\ Pending(s)' => r = s
      BY <2>3, <2>6, <2>7 DEF InjectionInv
    <2>10. \A s \in Polls : Pending(s)' => s[1] \notin settled'
      BY <1>5, <2>3, <2>6, <2>8 DEF InjectionInv
    <2>11. \A s \in Polls : s \in (Queued \cup running)' => m_interval'[s[1]] # NotArmed
      BY <1>1, <1>2, <2>3, <2>5 DEF InjectionInv
    <2>12. InjectionInv'
      BY <1>1, <1>3, <1>5, <2>5, <2>9, <2>10, <2>11 DEF InjectionInv, Polls
    <2> QED BY <2>4, <2>12
  <1> QED BY <1>4, <1>5 DEF PerformAction

\* Nothing is polled at first.
LEMMA InitEstablishesAsyncInv == Init => AsyncInv
  <1> SUFFICES ASSUME Init PROVE AsyncInv
    OBVIOUS
  <1>1. SchedulerInv
    BY InitEstablishesSchedulerInv DEF Init
  <1>2. Queued = {} /\ running = {}
    BY DEF Init, SchedulerInit, Queued
  <1>3. InjectionInv
    BY <1>2 DEF Init, InjectionInv, Pending
  <1> QED BY <1>1, <1>3 DEF AsyncInv

\* Every step of the scheduler and of the injections keeps both invariants.
LEMMA NextPreservesAsyncInv == AsyncInv /\ [Next]_vars => AsyncInv'
  <1> SUFFICES ASSUME AsyncInv, [Next]_vars PROVE AsyncInv'
    OBVIOUS
  <1>0. SchedulerInv /\ InjectionInv
    BY DEF AsyncInv
  <1>1. CASE SchedulerNext
    BY <1>0, <1>1, SchedulerNextKeepsSchedulerInv, SchedulerNextKeepsInjectionInv DEF AsyncInv
  <1>2. ASSUME NEW i \in Injections, NEW interval \in Intervals, Schedule(i, interval)
        PROVE  AsyncInv'
    BY <1>2, ScheduleKeepsAsyncInv
  <1>3. ASSUME UNCHANGED <<schedulerVars, m_interval, called, settled>>,
               owners' \subseteq Injections \X (0..MaxPolls),
               \A t \in Polls : t \in owners' => t \in running
        PROVE  AsyncInv'
    <2>1. Queued' = Queued /\ running' = running
      BY <1>3 DEF schedulerVars, queueVars, Queued
    <2>2. InjectionInv'
      BY <1>0, <1>3, <2>1, InjectionsKept
    <2> QED BY <1>0, <1>3, <2>2, SchedulerInvKept DEF AsyncInv
  <1>4. ASSUME NEW i \in Injections, ScheduleReturns(i) PROVE AsyncInv'
    BY <1>0, <1>3, <1>4 DEF ScheduleReturns, InjectionInv
  <1>5. ASSUME NEW t \in Polls, LockInjection(t) PROVE AsyncInv'
    <2>1. t \in Injections \X (0..MaxPolls)
      BY PollsAreTasks, AsyncAssumption DEF Polls
    <2> QED BY <1>0, <1>3, <1>5, <2>1 DEF LockInjection, InjectionInv
  <1>6. ASSUME NEW t \in Polls, PerformAction(t) PROVE AsyncInv'
    BY <1>6, PerformActionKeepsAsyncInv
  <1>7. ASSUME NEW t \in Polls, Release(t) PROVE AsyncInv'
    BY <1>0, <1>3, <1>7 DEF Release, InjectionInv
  <1>8. ASSUME NEW t \in Polls, FinishPoll(t) PROVE AsyncInv'
    <2>1. FinishTask(t) /\ t \notin owners /\ UNCHANGED <<m_interval, owners, called, settled>>
      BY <1>8 DEF FinishPoll, asyncVars
    <2>2. Queued' = Queued /\ running' = running \ {t}
      BY <2>1 DEF FinishTask, Ended, Queued
    <2>3. InjectionInv'
      <3>1. owners' \subseteq Injections \X (0..MaxPolls)
            /\ \A s \in Polls : s \in owners' => s \in running'
        BY <1>0, <2>1, <2>2 DEF InjectionInv
      <3> QED BY <1>0, <2>1, <2>2, <3>1, InjectionsKept
    <2> QED BY <1>0, <2>1, <2>3, FinishTaskKeepsSchedulerInv DEF AsyncInv
  <1>9. CASE UNCHANGED vars
    BY <1>0, <1>3, <1>9 DEF vars, asyncVars, InjectionInv
  <1> QED BY <1>1, <1>2, <1>4, <1>5, <1>6, <1>7, <1>8, <1>9 DEF Next

\* The two invariants hold together.
LEMMA AsyncInvariant == Spec => []AsyncInv
  BY InitEstablishesAsyncInv, NextPreservesAsyncInv, PTL DEF Spec

\* A queue with entries is never forgotten: RunTask's test of m_counter, which another
\* thread may have raised since the task was taken, never leaves the last entries without
\* an armed timer or a thread that will arm it.
THEOREM QueueAlwaysWatched == Spec => []QueueIsWatched
  <1>1. AsyncInv => QueueIsWatched
    BY DEF AsyncInv, SchedulerInv
  <1> QED BY <1>1, AsyncInvariant, PTL

\* Nothing uses the timer or the mutex after the destructor unless an expiry thread was
\* alive when it began: no thread can come to life between its two steps.
THEOREM DestroyedNeverUsed == Spec => []DestroyedUnused
  <1>1. AsyncInv => DestroyedUnused
    BY DEF AsyncInv, SchedulerInv
  <1> QED BY <1>1, AsyncInvariant, PTL

\* As long as the timer was never armed while an expiry thread waited for the mutex, a
\* task is not taken from the queue before it is due.
THEOREM TasksRunWhenDue == Spec => RunsWhenDue
  <1>1. AsyncInv /\ [Next]_vars =>
            [~rearmed /\ life = "up" =>
                \A e \in m_queue : e \notin m_queue' => e.time <= now]_schedulerVars
    <2> SUFFICES ASSUME AsyncInv, [Next]_vars, ~rearmed, life = "up",
                        NEW e \in m_queue, e \notin m_queue'
                 PROVE  e.time <= now
      OBVIOUS
    <2>1. ASSUME NEW t, NEW interval, AddTask(t, interval) PROVE FALSE
      BY <2>1 DEF AddTask
    <2>2. ASSUME NEW t, FinishTask(t) PROVE FALSE
      BY <2>2 DEF FinishTask, Ended
    <2>3. ASSUME UNCHANGED schedulerVars PROVE FALSE
      BY <2>3 DEF schedulerVars, queueVars
    <2>4. ASSUME Tick \/ Expire \/ DestructorDisarm \/ DestructorClear \/ UseDestroyed
          PROVE  FALSE
      BY <2>4 DEF Tick, Expire, DestructorDisarm, DestructorClear, UseDestroyed, queueVars
    <2>5. ASSUME TakeTask PROVE e.time <= now
      <3>1. expired > 0 /\ IsTop(m_queue, e)
        BY <2>5 DEF TakeTask
      <3> QED BY <3>1, TopIsDue DEF AsyncInv
    <2>6. CASE SchedulerNext
      BY <2>1, <2>2, <2>4, <2>5, <2>6 DEF SchedulerNext
    <2>7. CASE ~SchedulerNext
      BY <2>1, <2>2, <2>3, <2>7 DEF Next, Schedule, ScheduleReturns, LockInjection,
         PerformAction, Reschedule, Release, FinishPoll, vars
    <2> QED BY <2>6, <2>7
  <1> QED BY <1>1, AsyncInvariant, PTL DEF Spec, RunsWhenDue

\* A function is polled by one thread at a time and never after it returned true, and
\* m_counter is the number of tasks queued or being run, for any number of injections and
\* plain tasks: each poll adds the next one from its own thread, before it ends itself.
THEOREM PollsAlwaysSerial == Spec => []PollsAreSerial
  <1>1. AsyncInv => PollsAreSerial
    <2> SUFFICES ASSUME AsyncInv PROVE PollsAreSerial
      OBVIOUS
    <2>1. TypeOK
      BY DEF AsyncInv, SchedulerInv, InjectionInv, TypeOK
    <2>2. ASSUME NEW i \in Injections
          PROVE  LET pending == {t \in (Queued \cup running) \ called : t \in Polls /\ t[1] = i}
                 IN Cardinality(pending) <= 1 /\ (i \in settled => pending = {})
      <3> DEFINE pending == {t \in (Queued \cup running) \ called : t \in Polls /\ t[1] = i}
      <3>1. \A s, t \in pending : s = t
        BY DEF AsyncInv, InjectionInv, Pending
      <3>2. i \in settled => pending = {}
        BY DEF AsyncInv, InjectionInv, Pending
      <3> HIDE DEF pending
      <3>3. pending = {} \/ \E x : pending = {x}
        BY <3>1
      <3>4. Cardinality(pending) \in {0, 1}
        BY <3>3, FS_EmptySet, FS_Singleton
      <3>5. Cardinality(pending) <= 1
        BY <3>4
      <3> QED BY <3>2, <3>5 DEF pending
    <2> QED BY <2>1, <2>2 DEF PollsAreSerial
  <1> QED BY <1>1, AsyncInvariant, PTL
===============================================================================
