------------------------------ MODULE DirMonitor -------------------------------
(***************************************************************************)
(* The directory of plug-ins and what watches it: DirMonitor's thread      *)
(* reads inotify events and notifies, through its two dispatchers, the     *)
(* callbacks of DLLLoader, which opens and closes the libraries; and a     *)
(* library's constructor registers a creator with the factory of commands. *)
(***************************************************************************)
EXTENDS Integers, Sequences

CONSTANTS Files,            \* names of files in the directory
          SharedObjects,    \* those that end in ".so"
          Loadable,         \* those dlopen can open
          MaxChanges        \* bound on the changes to the directory

ASSUME MonitorAssumption ==
    /\ Loadable \subseteq SharedObjects /\ SharedObjects \subseteq Files
    /\ {"none", "builtin"} \cap Files = {}
    /\ MaxChanges \in Nat

VARIABLES
    disk,               \* [Files -> the version of the file, 0 if there is none]
    changes,            \* how often the directory has been changed
    events,             \* inotify events that have not been read
    notifyOpen,         \* m_notify_fd is open
    monitor_running,    \* m_running
    worker,             \* the thread: "none", "test", "enter", "read", "handle", "ended", "threw"
    joinable,           \* m_worker.joinable()
    batch,              \* events that one read returned and that are still to be handled
    m_reg_list,         \* the dispatchers, "open" and "close", that have the loader's callback
    m_dll_map,          \* files with a handle
    handles,            \* [Files -> how often the dynamic linker has it open]
    loaded,             \* [Files -> the version that is mapped, 0 if none is]
    creator,            \* the file whose creator the factory has, or "builtin"
    \* history, for the properties
    hasty,              \* a change the monitor cannot cope with was made
    rewritten,          \* files that were written again without being deleted first
    retired             \* libraries that have been closed

dirVars == <<disk, changes, hasty, rewritten>>
loaderVars == <<m_reg_list, m_dll_map, handles, loaded, creator, retired>>
threadVars == <<monitor_running, worker, joinable, batch>>
monitorVars == <<dirVars, events, notifyOpen, threadVars, loaderVars>>

\* Framework's constructor registers a callback with either dispatcher.
Registered == {"open", "close"}

\* Libraries may be there before the monitor is made; their events never come.
MonitorInit ==
    /\ \E present \in SUBSET SharedObjects :
           disk = [f \in Files |-> IF f \in present THEN 1 ELSE 0]
    /\ changes = 0
    /\ events = << >> /\ batch = << >>
    /\ notifyOpen = TRUE
    /\ monitor_running = FALSE /\ worker = "none" /\ joinable = FALSE
    /\ m_reg_list = Registered
    /\ m_dll_map = {}
    /\ handles = [f \in Files |-> 0]
    /\ loaded = [f \in Files |-> 0]
    /\ creator = "builtin"
    /\ hasty = FALSE /\ rewritten = {} /\ retired = {}

IsSharedObject(f) == f \in SharedObjects

Ignored == [mask |-> "IN_IGNORED", name |-> "none"]

\* Events of f the thread has not handled yet.
Pending(f) == \E k \in 1..Len(batch \o events) : (batch \o events)[k].name = f

\* A change while the directory is watched; later ones concern nobody.
Change(mask, f) ==
    /\ notifyOpen
    /\ changes < MaxChanges
    /\ changes' = changes + 1
    /\ events' = Append(events, [mask |-> mask, name |-> f])

WriteFile(f) ==
    /\ Change("IN_CLOSE_WRITE", f)
    /\ disk' = [disk EXCEPT ![f] = changes + 2]
    /\ hasty' = (hasty \/ f \in SharedObjects \ Loadable)
    /\ rewritten' = IF f \in Loadable /\ disk[f] # 0 THEN rewritten \cup {f} ELSE rewritten
    /\ UNCHANGED <<notifyOpen, threadVars, loaderVars>>

\* Deleting a library is hasty when it is not loaded, or when the thread is behind.
DeleteFile(f) ==
    /\ disk[f] # 0
    /\ Change("IN_DELETE", f)
    /\ disk' = [disk EXCEPT ![f] = 0]
    /\ hasty' = (hasty \/ (IsSharedObject(f) /\ (f \notin m_dll_map \/ Pending(f))))
    /\ UNCHANGED <<rewritten, notifyOpen, threadVars, loaderVars>>

-------------------------------------------------------------------------------
(* DLLLoader, called by the monitor's thread. *)

\* A slip: nothing is opened.
LoadNothing(f) == UNCHANGED loaderVars /\ worker' = "handle"

\* A library that is in the map stays as it is.  dlopen runs the library's
\* constructor, which registers its creator; if dlopen fails Load throws, out of
\* the thread.
Load(f) ==
    IF f \in m_dll_map THEN UNCHANGED loaderVars /\ worker' = "handle"
    ELSE IF f \notin Loadable \/ disk[f] = 0 THEN UNCHANGED loaderVars /\ worker' = "threw"
    ELSE /\ handles' = [handles EXCEPT ![f] = @ + 1]
         /\ loaded' = [loaded EXCEPT ![f] = disk[f]]
         /\ m_dll_map' = m_dll_map \cup {f}
         /\ creator' = f
         /\ worker' = "handle"
         /\ UNCHANGED <<m_reg_list, retired>>

\* dlclose for every file of a set; what nobody else has open is unmapped.
Closed(fs) ==
    /\ handles' = [f \in Files |-> IF f \in fs THEN handles[f] - 1 ELSE handles[f]]
    /\ loaded' = [f \in Files |-> IF handles'[f] = 0 THEN 0 ELSE loaded[f]]
    /\ retired' = retired \cup fs

\* Unload throws for a library that is not in the map.  Nothing takes the library's
\* creator out of the factory.
Unload(f) ==
    IF f \notin m_dll_map THEN UNCHANGED loaderVars /\ worker' = "threw"
    ELSE /\ Closed({f})
         /\ m_dll_map' = m_dll_map \ {f}
         /\ worker' = "handle"
         /\ UNCHANGED <<m_reg_list, creator>>

\* Dispatcher::Notify calls the loader if its callback is on the list.
Notify(dispatcher, f) ==
    IF dispatcher \notin m_reg_list THEN UNCHANGED loaderVars /\ worker' = "handle"
    ELSE IF dispatcher = "open" THEN Load(f) ELSE Unload(f)

\* A callback that dies takes itself off its dispatcher's list.
UnregisterCallbacks == m_reg_list' = {}

-------------------------------------------------------------------------------
(* DirMonitor *)

MonitorRun ==
    /\ worker = "none"
    /\ monitor_running' = TRUE
    /\ worker' = "test" /\ joinable' = TRUE
    /\ UNCHANGED <<dirVars, events, notifyOpen, batch, loaderVars>>

WorkerTest ==
    /\ worker = "test"
    /\ worker' = IF monitor_running THEN "enter" ELSE "ended"
    /\ UNCHANGED <<dirVars, events, notifyOpen, monitor_running, joinable, batch, loaderVars>>

\* read is called; it fails if Stop has closed the descriptor.
WorkerEnter ==
    /\ worker = "enter"
    /\ worker' = IF notifyOpen THEN "read" ELSE IF monitor_running THEN "threw" ELSE "ended"
    /\ UNCHANGED <<dirVars, events, notifyOpen, monitor_running, joinable, batch, loaderVars>>

\* The thread blocks in read until there are events, also when the descriptor is
\* closed meanwhile; it gets one or, if the names are short, more.
WorkerRead ==
    /\ worker = "read"
    /\ \E n \in 1..Len(events) :
           /\ batch' = SubSeq(events, 1, n)
           /\ events' = SubSeq(events, n + 1, Len(events))
    /\ worker' = "handle"
    /\ UNCHANGED <<dirVars, notifyOpen, monitor_running, joinable, loaderVars>>

\* Each event of a library goes to the open or the close dispatcher.
WorkerHandle ==
    /\ worker = "handle" /\ batch # << >>
    /\ LET e == Head(batch)
       IN IF e.mask = "IN_CLOSE_WRITE" /\ IsSharedObject(e.name) THEN Notify("open", e.name)
          ELSE IF e.mask = "IN_DELETE" /\ IsSharedObject(e.name) THEN Notify("close", e.name)
          ELSE UNCHANGED <<worker, loaderVars>>
    /\ batch' = Tail(batch)
    /\ UNCHANGED <<dirVars, events, notifyOpen, monitor_running, joinable>>

WorkerBatchDone ==
    /\ worker = "handle" /\ batch = << >>
    /\ worker' = "test"
    /\ UNCHANGED <<dirVars, events, notifyOpen, monitor_running, joinable, batch, loaderVars>>

\* Stop's early return.
NothingToStop == ~monitor_running /\ ~joinable

StopClear ==
    /\ monitor_running' = FALSE
    /\ UNCHANGED <<dirVars, events, notifyOpen, worker, joinable, batch, loaderVars>>

\* A slip: only close, which does not wake a read.
StopCloseWithoutRmWatch ==
    /\ notifyOpen' = FALSE
    /\ UNCHANGED <<dirVars, events, threadVars, loaderVars>>

\* inotify_rm_watch queues a last event, which wakes the thread; then close.
StopClose ==
    /\ IF notifyOpen THEN notifyOpen' = FALSE /\ events' = Append(events, Ignored)
                     ELSE UNCHANGED <<notifyOpen, events>>
    /\ UNCHANGED <<dirVars, threadVars, loaderVars>>

StopJoin ==
    /\ joinable => worker = "ended"
    /\ joinable' = FALSE
    /\ UNCHANGED <<dirVars, events, notifyOpen, monitor_running, worker, batch, loaderVars>>

\* The callbacks die, then ~DLLLoader closes every handle.
DestroyLoader ==
    /\ UnregisterCallbacks
    /\ Closed(m_dll_map)
    /\ m_dll_map' = {}
    /\ UNCHANGED <<dirVars, events, notifyOpen, threadVars, creator>>

MonitorTypeOK ==
    /\ disk \in [Files -> Nat] /\ loaded \in [Files -> Nat]
    /\ handles \in [Files -> Nat]
    /\ changes \in 0..MaxChanges
    /\ m_reg_list \subseteq Registered /\ m_dll_map \subseteq Loadable
    /\ creator \in Loadable \cup {"builtin"}
    /\ worker \in {"none", "test", "enter", "read", "handle", "ended", "threw"}
    /\ {notifyOpen, monitor_running, joinable, hasty} \subseteq BOOLEAN
    /\ rewritten \subseteq Files /\ retired \subseteq Loadable
===============================================================================
