------------------------------- MODULE Framework -------------------------------
(***************************************************************************)
(* The framework: its owner's thread runs the directory monitor and the    *)
(* reactor and later destroys them; another thread may call Stop; the      *)
(* reactor's callbacks turn input into tasks, and a thread of the pool     *)
(* gets each task's command from the factory, which may be a plug-in's,    *)
(* and runs it.  What throws out of the monitor's thread ends the process. *)
(***************************************************************************)
EXTENDS Reactor, DirMonitor

CONSTANTS MaxTasks          \* bound on the tasks that wait for the pool

ASSUME FrameworkAssumption == MaxTasks \in Nat

VARIABLES
    main,           \* "built", "monitoring", "running", "destroying" or "destroyed"
    stop,           \* where a call of Stop is: "none", "monitor", "close" or "join"
    stopUsed,       \* a thread other than the owner's has called Stop
    tasks,          \* tasks in the pool
    command,        \* whose command a pool thread runs: "none", "builtin" or a file
    crashed         \* history: code that is not mapped was called

frameVars == <<main, stop, stopUsed>>
poolVars == <<tasks, command, crashed>>
vars == <<reactorVars, monitorVars, frameVars, poolVars>>

Init ==
    /\ ReactorInit
    /\ MonitorInit
    /\ main = "built" /\ stop = "none" /\ stopUsed = FALSE
    /\ tasks = 0 /\ command = "none" /\ crashed = FALSE

\* The process is up.
Up == worker # "threw" /\ ~crashed

-------------------------------------------------------------------------------
(* Run, Stop and the destructor. *)

RunMonitor ==
    /\ Up /\ main = "built"
    /\ MonitorRun
    /\ main' = "monitoring"
    /\ UNCHANGED <<reactorVars, stop, stopUsed, poolVars>>

RunReactor ==
    /\ Up /\ main = "monitoring"
    /\ ReactorRun
    /\ main' = "running"
    /\ UNCHANGED <<monitorVars, stop, stopUsed, poolVars>>

\* Stop begins with Reactor::Stop.
ReactorStop ==
    /\ reactor_running' = FALSE
    /\ stop' = "monitor"
    /\ UNCHANGED <<m_listen_funcs, ready, reactor, fd_list, selected>>

StopByThread ==
    /\ Up /\ main \in {"built", "monitoring", "running"} /\ stop = "none" /\ ~stopUsed
    /\ stopUsed' = TRUE
    /\ ReactorStop
    /\ UNCHANGED <<monitorVars, main, poolVars>>

\* A slip: DirMonitor::Stop clears m_running only after it has closed the descriptor.
StopLateClear ==
    /\ Up
    /\ \/ stop = "monitor" /\ NothingToStop /\ stop' = "none" /\ UNCHANGED monitorVars
       \/ stop = "monitor" /\ ~NothingToStop /\ stop' = "close" /\ StopClose
       \/ stop = "close" /\ stop' = "join" /\ StopClear
       \/ stop = "join" /\ stop' = "none" /\ StopJoin
    /\ UNCHANGED <<reactorVars, main, stopUsed, poolVars>>

\* DirMonitor::Stop.
StopMonitor ==
    /\ Up
    /\ \/ stop = "monitor" /\ NothingToStop /\ stop' = "none" /\ UNCHANGED monitorVars
       \/ stop = "monitor" /\ ~NothingToStop /\ stop' = "close" /\ StopClear
       \/ stop = "close" /\ stop' = "join" /\ StopClose
       \/ stop = "join" /\ stop' = "none" /\ StopJoin
    /\ UNCHANGED <<reactorVars, main, stopUsed, poolVars>>

\* The owner destroys the framework when Run has returned or thrown (or instead of
\* calling it), and when another thread's Stop has returned.
MayDestroy ==
    /\ Up /\ stop = "none"
    /\ main = "built" \/ (main = "running" /\ reactor \in {"returned", "threw"})

\* A slip: the destructor leaves stopping to the monitor's destructor.
DestroyWithoutStop ==
    /\ MayDestroy
    /\ main' = "destroying"
    /\ UNCHANGED <<reactorVars, monitorVars, stop, stopUsed, poolVars>>

\* ~Framework calls Stop ...
DestroyBegin ==
    /\ MayDestroy
    /\ main' = "destroying"
    /\ ReactorStop
    /\ UNCHANGED <<monitorVars, stopUsed, poolVars>>

\* ... and the members go, the callbacks and the loader first.
DestroyMembers ==
    /\ Up /\ main = "destroying" /\ stop = "none"
    /\ main' = "destroyed"
    /\ DestroyLoader
    /\ UNCHANGED <<reactorVars, stop, stopUsed, poolVars>>

-------------------------------------------------------------------------------
(* The threads. *)

\* The callback the framework registers: GetTaskArgs gives a task for the pool,
\* or nothing.  A callback may also stop the reactor.
Callback(fd) ==
    /\ Up
    /\ CallReturns(fd)
    /\ reactor_running' \in {reactor_running, FALSE}
    /\ \/ tasks < MaxTasks /\ tasks' = tasks + 1
       \/ UNCHANGED tasks
    /\ UNCHANGED <<monitorVars, frameVars, command, crashed>>

ReactorThread ==
    /\ Up
    /\ ReactorTest \/ Listen
    /\ UNCHANGED <<monitorVars, frameVars, poolVars>>

Input ==
    /\ Up
    /\ ListenInterrupted \/ \E fd \in Fds : Arrive(fd) \/ CallThrows(fd)
    /\ UNCHANGED <<monitorVars, frameVars, poolVars>>

MonitorThread ==
    /\ Up
    /\ WorkerTest \/ WorkerEnter \/ WorkerRead \/ WorkerHandle \/ WorkerBatchDone
    /\ UNCHANGED <<reactorVars, frameVars, poolVars>>

Directory ==
    /\ Up
    /\ \E f \in Files : WriteFile(f) \/ DeleteFile(f)
    /\ UNCHANGED <<reactorVars, frameVars, poolVars>>

Unmapped(provider) == provider \in Files /\ handles[provider] = 0

\* FW_TPTask::Run, first half: the factory calls the creator of the task's key.
CreateCommand ==
    /\ Up /\ tasks > 0 /\ command = "none"
    /\ tasks' = tasks - 1
    /\ command' = creator
    /\ crashed' = (crashed \/ Unmapped(creator))
    /\ UNCHANGED <<reactorVars, monitorVars, frameVars>>

\* Second half: the command runs.
RunCommand ==
    /\ Up /\ command # "none"
    /\ command' = "none"
    /\ crashed' = (crashed \/ Unmapped(command))
    /\ UNCHANGED <<reactorVars, monitorVars, frameVars, tasks>>

Next ==
    \/ RunMonitor \/ RunReactor \/ StopByThread \/ StopMonitor
    \/ DestroyBegin \/ DestroyMembers
    \/ ReactorThread \/ Input \/ MonitorThread \/ Directory
    \/ \E fd \in Fds : Callback(fd)
    \/ CreateCommand \/ RunCommand

\* Every thread goes on when it can.  Nothing makes input arrive, files change, a
\* signal come, or the owner run or destroy the framework.
Fairness ==
    /\ WF_vars(RunReactor) /\ WF_vars(StopMonitor) /\ WF_vars(DestroyMembers)
    /\ WF_vars(ReactorThread) /\ WF_vars(MonitorThread)
    /\ \A fd \in Fds : WF_vars(Callback(fd))
    /\ WF_vars(CreateCommand) /\ WF_vars(RunCommand)

Spec == Init /\ [][Next]_vars /\ Fairness

-------------------------------------------------------------------------------
TypeOK ==
    /\ ReactorTypeOK /\ MonitorTypeOK
    /\ main \in {"built", "monitoring", "running", "destroying", "destroyed"}
    /\ stop \in {"none", "monitor", "close", "join"}
    /\ tasks \in 0..MaxTasks
    /\ command \in Loadable \cup {"none", "builtin"}
    /\ {stopUsed, crashed} \subseteq BOOLEAN

\* The loader and the dynamic linker agree: each library in the map is open exactly
\* once, the others not at all, and the loader outlives the monitor's thread, which
\* calls it.  A pool thread calls code that is not mapped only after a library has
\* been closed: dlclose leaves its creator in the factory.
PluginsMapped ==
    /\ TypeOK
    /\ \A f \in Files :
           /\ handles[f] = IF f \in m_dll_map THEN 1 ELSE 0
           /\ (loaded[f] # 0) = (f \in m_dll_map)
    /\ main = "destroyed" => worker \in {"none", "ended"}
    /\ crashed => retired # {}

\* Stopping never ends the process, in whatever order Stop and the monitor's thread
\* run: the thread throws only over a file dlopen cannot open, and over one that is
\* deleted while it is not loaded (it was there before the monitor, or its events
\* have not been handled).
MonitorSurvives == worker = "threw" => hasty

\* A library that is written while the monitor runs gets loaded, in the version that
\* is on disk, unless it is changed again, the monitor is stopped or the process
\* ends.  One that is written over a loaded one is not: Load finds it in the map.
PluginsGetLoaded ==
    \A f \in Loadable, v \in 1..(MaxChanges + 1) :
        (disk[f] = v /\ Pending(f) /\ monitor_running) ~>
            \/ loaded[f] = v
            \/ disk[f] # v \/ f \in rewritten
            \/ ~monitor_running \/ ~Up

ReactorDone == reactor \in {"returned", "threw"}

\* Stop returns: the thread that is blocked in read wakes up and ends.  And Run
\* returns once the reactor has been stopped while it ran, provided descriptors keep
\* becoming ready: nothing wakes a select that is blocked.
StopReturns ==
    /\ stop # "none" ~> stop = "none" \/ ~Up
    /\ []<>(fd_list \cap ready # {} \/ ReactorDone \/ ~Up) =>
           ((reactor # "idle" /\ ~reactor_running) ~> ReactorDone \/ ~Up)
===============================================================================
