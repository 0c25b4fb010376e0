--------------------------- MODULE FrameworkProofs -----------------------------
(***************************************************************************)
(* The framework's threads and its plug-ins, for any set of files, any     *)
(* number of changes to the directory and any number of descriptors and    *)
(* tasks.                                                                  *)
(***************************************************************************)
EXTENDS Framework, SequenceTheorems, TLAPS

(* Where Stop, the owner and the monitor's thread are. *)

\* Stop clears m_running before it closes the descriptor, joins what can be joined, and
\* the owner goes on only after that.
ThreadInv ==
    /\ worker = "none" =>
           notifyOpen /\ ~monitor_running /\ ~joinable /\ stop \in {"none", "monitor"}
    /\ ~joinable => worker \in {"none", "ended"}
    /\ stop \in {"close", "join"} \/ ~notifyOpen => ~monitor_running
    /\ main = "destroying" /\ stop = "none" => worker \in {"none", "ended"}
    /\ main = "destroyed" => worker \in {"none", "ended"}

\* The loader and the dynamic linker.
Mapped ==
    \A f \in Files :
        /\ handles[f] = IF f \in m_dll_map THEN 1 ELSE 0
        /\ (loaded[f] # 0) = (f \in m_dll_map)

\* The code the factory and the pool refer to is mapped, or was.
CodeKnown ==
    /\ creator \in Files => creator \in m_dll_map \cup retired
    /\ command \in Files => command \in m_dll_map \cup retired
    /\ crashed => retired # {}

PluginsInv == TypeOK /\ ThreadInv /\ Mapped /\ CodeKnown

\* The names the loader uses for nothing and for the built-in creator are no files.
LEMMA NoSuchFile == "none" \notin Files /\ "builtin" \notin Files /\ Loadable \subseteq Files
                    /\ SharedObjects \subseteq Files
  BY MonitorAssumption

\* At first no thread runs and the libraries found in the directory are mapped.
LEMMA InitEstablishesPluginsInv == Init => PluginsInv
  <1> SUFFICES ASSUME Init PROVE PluginsInv
    OBVIOUS
  <1> USE DEF Init, ReactorInit, MonitorInit
  <1>1. ReactorTypeOK
    BY DEF ReactorTypeOK
  <1>2. MonitorTypeOK
    <2>1. disk \in [Files -> Nat]
      OBVIOUS
    <2>3. changes \in 0..MaxChanges
      BY MonitorAssumption
    <2>2. notifyOpen = TRUE /\ monitor_running = FALSE /\ joinable = FALSE /\ hasty = FALSE
      BY Zenon
    <2> QED BY <2>1, <2>2, <2>3 DEF MonitorTypeOK
  <1>3. TypeOK
    <2>1. tasks \in 0..MaxTasks
      BY FrameworkAssumption
    <2>2. stopUsed = FALSE /\ crashed = FALSE
      BY Zenon
    <2> QED BY <1>1, <1>2, <2>1, <2>2 DEF TypeOK
  <1>4. ThreadInv /\ Mapped /\ CodeKnown
    BY NoSuchFile DEF ThreadInv, Mapped, CodeKnown
  <1> QED BY <1>3, <1>4 DEF PluginsInv

\* Load and Unload keep what is mapped in step with the table of libraries.
LEMMA LoadKeepsPlugins ==
    ASSUME TypeOK, Mapped, CodeKnown, NEW f \in SharedObjects, Notify("open", f) \/ Notify("close", f),
           UNCHANGED <<disk, command, crashed>>
    PROVE  /\ m_dll_map' \subseteq Loadable /\ retired' \subseteq Loadable
           /\ m_reg_list' = m_reg_list
           /\ handles' \in [Files -> Nat] /\ loaded' \in [Files -> Nat]
           /\ creator' \in Loadable \cup {"builtin"}
           /\ worker' \in {"handle", "threw"}
           /\ Mapped' /\ CodeKnown'
  <1> DEFINE Goal == /\ m_dll_map' \subseteq Loadable /\ retired' \subseteq Loadable
                     /\ m_reg_list' = m_reg_list
                     /\ handles' \in [Files -> Nat] /\ loaded' \in [Files -> Nat]
                     /\ creator' \in Loadable \cup {"builtin"}
                     /\ worker' \in {"handle", "threw"}
                     /\ Mapped' /\ CodeKnown'
  <1>0. /\ m_dll_map \subseteq Loadable /\ retired \subseteq Loadable /\ f \in Files
        /\ handles \in [Files -> Nat] /\ loaded \in [Files -> Nat] /\ disk \in [Files -> Nat]
        /\ creator \in Loadable \cup {"builtin"} /\ Loadable \subseteq Files
    BY NoSuchFile DEF TypeOK, MonitorTypeOK
  <1>1. CASE UNCHANGED loaderVars /\ worker' \in {"handle", "threw"}
    BY <1>0, <1>1 DEF loaderVars, Mapped, CodeKnown
  <1>2. CASE /\ f \notin m_dll_map /\ f \in Loadable /\ disk[f] # 0
             /\ handles' = [handles EXCEPT ![f] = @ + 1]
             /\ loaded' = [loaded EXCEPT ![f] = disk[f]]
             /\ m_dll_map' = m_dll_map \cup {f}
             /\ creator' = f
             /\ worker' = "handle"
             /\ UNCHANGED <<m_reg_list, retired>>
    <2>1. handles[f] = 0
      BY <1>0, <1>2 DEF Mapped
    <2>2. handles' \in [Files -> Nat] /\ loaded' \in [Files -> Nat] /\ handles'[f] = 1
      BY <1>0, <1>2, <2>1
    <2>3. Mapped'
      BY <1>0, <1>2, <2>2 DEF Mapped
    <2>4. CodeKnown'
      BY <1>2 DEF CodeKnown
    <2> QED BY <1>0, <1>2, <2>2, <2>3, <2>4
  <1>3. CASE /\ f \in m_dll_map
             /\ Closed({f})
             /\ m_dll_map' = m_dll_map \ {f}
             /\ worker' = "handle"
             /\ UNCHANGED <<m_reg_list, creator>>
    <2>1. handles[f] = 1
      BY <1>0, <1>3 DEF Mapped
    <2>2. /\ handles' = [g \in Files |-> IF g = f THEN handles[g] - 1 ELSE handles[g]]
          /\ loaded' = [g \in Files |-> IF handles'[g] = 0 THEN 0 ELSE loaded[g]]
          /\ retired' = retired \cup {f}
      BY <1>3 DEF Closed
    <2>3. handles' \in [Files -> Nat] /\ loaded' \in [Files -> Nat] /\ handles'[f] = 0
      BY <1>0, <2>1, <2>2
    <2>4. Mapped'
      BY <1>0, <1>3, <2>2, <2>3 DEF Mapped
    <2>5. CodeKnown'
      BY <1>3, <2>2 DEF CodeKnown
    <2> QED BY <1>0, <1>3, <2>2, <2>3, <2>4, <2>5
  <1> QED BY <1>1, <1>2, <1>3 DEF Notify, Load, Unload, loaderVars

\* The loader's destructor closes every library and unregisters it.
LEMMA DestroyLoaderKeepsPlugins ==
    ASSUME TypeOK, Mapped, CodeKnown, DestroyLoader, UNCHANGED <<command, crashed>>
    PROVE  /\ m_dll_map' = {} /\ m_reg_list' = {} /\ retired' \subseteq Loadable
           /\ handles' \in [Files -> Nat] /\ loaded' \in [Files -> Nat]
           /\ Mapped' /\ CodeKnown'
  <1>0. /\ m_dll_map \subseteq Loadable /\ retired \subseteq Loadable
        /\ handles \in [Files -> Nat] /\ loaded \in [Files -> Nat]
    BY DEF TypeOK, MonitorTypeOK
  <1>1. /\ handles' = [f \in Files |-> IF f \in m_dll_map THEN handles[f] - 1 ELSE handles[f]]
        /\ loaded' = [f \in Files |-> IF handles'[f] = 0 THEN 0 ELSE loaded[f]]
        /\ retired' = retired \cup m_dll_map
        /\ m_dll_map' = {} /\ m_reg_list' = {} /\ creator' = creator
    BY DEF DestroyLoader, Closed, UnregisterCallbacks
  <1>2. \A f \in Files : handles'[f] = 0 /\ loaded'[f] = 0
    BY <1>0, <1>1 DEF Mapped
  <1>3. handles' \in [Files -> Nat] /\ loaded' \in [Files -> Nat]
    BY <1>1, <1>2
  <1>4. Mapped' /\ CodeKnown'
    BY <1>1, <1>2 DEF Mapped, CodeKnown
  <1> QED BY <1>0, <1>1, <1>3, <1>4

\* What the monitor's thread does between two events.
WorkerMoves == WorkerTest \/ WorkerEnter \/ WorkerRead \/ WorkerBatchDone

\* What the thread does when it handles an event.
LEMMA HandleNotifies ==
    ASSUME WorkerHandle
    PROVE  \/ \E f \in SharedObjects : Notify("open", f) \/ Notify("close", f)
           \/ UNCHANGED <<worker, loaderVars>>
  BY DEF WorkerHandle, IsSharedObject

\* The reactor's variables keep their types in every step of the framework.
LEMMA ReactorTypeKept ==
    ASSUME TypeOK, [Next]_vars
    PROVE  ReactorTypeOK'
  <1>0. ReactorTypeOK
    BY DEF TypeOK
  <1>1. ASSUME UNCHANGED reactorVars PROVE ReactorTypeOK'
    BY <1>0, <1>1 DEF ReactorTypeOK, reactorVars
  <1>2. CASE RunReactor
    BY <1>0, <1>2 DEF ReactorTypeOK, RunReactor, ReactorRun
  <1>3. CASE StopByThread \/ DestroyBegin
    BY <1>0, <1>3 DEF ReactorTypeOK, StopByThread, DestroyBegin, ReactorStop
  <1>4. CASE ReactorThread
    BY <1>0, <1>4 DEF ReactorTypeOK, ReactorThread, ReactorTest, Listen
  <1>5. CASE Input
    BY <1>0, <1>5 DEF ReactorTypeOK, Input, ListenInterrupted, Arrive, CallThrows
  <1>6. ASSUME NEW fd \in Fds, Callback(fd) PROVE ReactorTypeOK'
    BY <1>0, <1>6 DEF ReactorTypeOK, Callback, CallReturns
  <1> QED BY <1>1, <1>2, <1>3, <1>4, <1>5, <1>6
       DEF Next, RunMonitor, StopMonitor, DestroyMembers, MonitorThread, Directory,
           CreateCommand, RunCommand, vars

\* Steps of the reactor, of Stop's first half and of the owner that leave the monitor alone.
LEMMA PluginsWithoutMonitor ==
    ASSUME PluginsInv, UNCHANGED <<monitorVars, command, crashed>>, ReactorTypeOK',
           tasks' \in 0..MaxTasks, stopUsed' \in BOOLEAN,
           \/ UNCHANGED <<main, stop>>
           \/ main' \in {"monitoring", "running"} /\ UNCHANGED stop
           \/ main' \in {main, "destroying"} /\ stop = "none" /\ stop' = "monitor"
    PROVE  PluginsInv'
  <1> USE DEF PluginsInv
  <1>1. UNCHANGED <<disk, changes, hasty, rewritten, events, notifyOpen, monitor_running,
                    worker, joinable, batch, m_reg_list, m_dll_map, handles, loaded, creator,
                    retired>>
    BY DEF monitorVars, dirVars, threadVars, loaderVars
  <1>2. MonitorTypeOK'
    BY <1>1 DEF TypeOK, MonitorTypeOK
  <1>3. /\ main' \in {"built", "monitoring", "running", "destroying", "destroyed"}
        /\ stop' \in {"none", "monitor", "close", "join"}
    BY DEF TypeOK
  <1>4. TypeOK'
    BY <1>2, <1>3 DEF TypeOK
  <1>5. ThreadInv'
    BY <1>1 DEF ThreadInv
  <1>6. Mapped' /\ CodeKnown'
    BY <1>1 DEF Mapped, CodeKnown
  <1> QED BY <1>4, <1>5, <1>6

\* Steps of the monitor's thread and of Stop that leave the loader and the files alone.
LEMMA PluginsWithoutLoader ==
    ASSUME PluginsInv, UNCHANGED <<reactorVars, dirVars, loaderVars, poolVars, stopUsed>>,
           main' \in {main, "monitoring"},
           worker' \in {"none", "test", "enter", "read", "handle", "ended", "threw"},
           stop' \in {"none", "monitor", "close", "join"},
           {notifyOpen', monitor_running', joinable'} \subseteq BOOLEAN,
           ThreadInv'
    PROVE  PluginsInv'
  <1> USE DEF PluginsInv
  <1>1. UNCHANGED <<disk, changes, hasty, rewritten, m_reg_list, m_dll_map, handles, loaded,
                    creator, retired, tasks, command, crashed, stopUsed>>
    BY DEF dirVars, loaderVars, poolVars
  <1>2. MonitorTypeOK'
    BY <1>1 DEF TypeOK, MonitorTypeOK
  <1>3. ReactorTypeOK'
    BY DEF TypeOK, ReactorTypeOK, reactorVars
  <1>4. TypeOK'
    BY <1>1, <1>2, <1>3 DEF TypeOK
  <1>5. Mapped' /\ CodeKnown'
    BY <1>1 DEF Mapped, CodeKnown
  <1> QED BY <1>4, <1>5

\* Every step keeps the threads, the libraries and the creators consistent.
LEMMA NextPreservesPluginsInv == PluginsInv /\ [Next]_vars => PluginsInv'
  <1> SUFFICES ASSUME PluginsInv, [Next]_vars PROVE PluginsInv'
    OBVIOUS
  <1>0. /\ TypeOK /\ ThreadInv /\ Mapped /\ CodeKnown /\ ReactorTypeOK'
        /\ tasks \in 0..MaxTasks /\ {stopUsed, crashed} \subseteq BOOLEAN
        /\ {notifyOpen, monitor_running, joinable, hasty} \subseteq BOOLEAN
        /\ worker \in {"none", "test", "enter", "read", "handle", "ended", "threw"}
        /\ stop \in {"none", "monitor", "close", "join"}
    BY ReactorTypeKept DEF PluginsInv, TypeOK, MonitorTypeOK
  <1>1. CASE RunReactor \/ StopByThread \/ DestroyBegin \/ ReactorThread \/ Input \/ UNCHANGED vars
    <2>1. /\ UNCHANGED <<monitorVars, command, crashed, tasks>>
          /\ stopUsed' \in {stopUsed, TRUE}
          /\ \/ UNCHANGED <<main, stop>>
             \/ main' \in {"monitoring", "running"} /\ UNCHANGED stop
             \/ main' \in {main, "destroying"} /\ stop = "none" /\ stop' = "monitor"
      BY <1>1 DEF RunReactor, StopByThread, DestroyBegin, ReactorThread, Input, vars, poolVars,
                  frameVars, ReactorStop, MayDestroy
    <2>2. tasks' \in 0..MaxTasks /\ stopUsed' \in BOOLEAN
      BY <1>0, <2>1
    <2> QED BY <1>0, <2>1, <2>2, PluginsWithoutMonitor
  <1>2. ASSUME NEW fd \in Fds, Callback(fd) PROVE PluginsInv'
    <2>1. /\ UNCHANGED <<monitorVars, command, crashed, stopUsed, main, stop>>
          /\ tasks' = tasks \/ (tasks < MaxTasks /\ tasks' = tasks + 1)
      BY <1>2 DEF Callback, frameVars
    <2>2. tasks' \in 0..MaxTasks /\ stopUsed' \in BOOLEAN
      BY <1>0, <2>1, FrameworkAssumption
    <2> QED BY <1>0, <2>1, <2>2, PluginsWithoutMonitor
  <1>3. CASE RunMonitor
    <2>1. /\ worker = "none" /\ monitor_running' = TRUE /\ worker' = "test" /\ joinable' = TRUE
          /\ main' = "monitoring"
          /\ UNCHANGED <<reactorVars, dirVars, loaderVars, poolVars, stopUsed, stop, notifyOpen>>
      BY <1>3 DEF RunMonitor, MonitorRun
    <2>2. ThreadInv'
      BY <1>0, <2>1 DEF ThreadInv
    <2> QED BY <1>0, <2>1, <2>2, PluginsWithoutLoader
  <1>4. CASE StopMonitor
    <2>1. UNCHANGED <<reactorVars, dirVars, loaderVars, poolVars, stopUsed, main>>
      BY <1>4 DEF StopMonitor, StopClear, StopClose, StopJoin, monitorVars
    <2>2. /\ ThreadInv'
          /\ worker' = worker /\ stop' \in {"none", "close", "join"}
          /\ notifyOpen' \in BOOLEAN /\ monitor_running' \in BOOLEAN /\ joinable' \in BOOLEAN
      <3>1. CASE stop = "monitor" /\ NothingToStop /\ stop' = "none" /\ UNCHANGED monitorVars
        <4>1. UNCHANGED <<notifyOpen, monitor_running, worker, joinable>>
          BY <3>1 DEF monitorVars, threadVars
        <4> QED BY <1>0, <2>1, <3>1, <4>1 DEF ThreadInv, NothingToStop
      <3>2. CASE stop = "monitor" /\ ~NothingToStop /\ stop' = "close" /\ StopClear
        BY <1>0, <2>1, <3>2 DEF ThreadInv, NothingToStop, StopClear
      <3>3. CASE stop = "close" /\ stop' = "join" /\ StopClose
        <4>1. UNCHANGED <<monitor_running, worker, joinable>> /\ notifyOpen' \in BOOLEAN
          BY <1>0, <3>3 DEF StopClose, threadVars
        <4> QED BY <1>0, <2>1, <3>3, <4>1 DEF ThreadInv
      <3>4. CASE stop = "join" /\ stop' = "none" /\ StopJoin
        BY <1>0, <2>1, <3>4 DEF ThreadInv, StopJoin
      <3> QED BY <1>4, <3>1, <3>2, <3>3, <3>4 DEF StopMonitor
    <2> QED BY <1>0, <2>1, <2>2, PluginsWithoutLoader
  <1>5. CASE MonitorThread /\ WorkerMoves
    <2>1. /\ UNCHANGED <<reactorVars, dirVars, loaderVars, poolVars, stopUsed, main, stop,
                         notifyOpen, monitor_running, joinable>>
          /\ worker \in {"test", "enter", "read", "handle"}
          /\ worker' \in {"test", "enter", "read", "handle", "ended", "threw"}
      BY <1>5 DEF MonitorThread, WorkerMoves, WorkerTest, WorkerEnter, WorkerRead,
                  WorkerBatchDone, frameVars
    <2>2. ThreadInv'
      BY <1>0, <2>1 DEF ThreadInv
    <2> QED BY <1>0, <2>1, <2>2, PluginsWithoutLoader
  <1>6. CASE MonitorThread /\ WorkerHandle
    <2>1. /\ UNCHANGED <<poolVars, stopUsed, main, stop, dirVars,
                         notifyOpen, monitor_running, joinable>>
          /\ worker = "handle"
      BY <1>6 DEF MonitorThread, WorkerHandle, frameVars
    <2>2. UNCHANGED <<disk, changes, hasty, rewritten, tasks, command, crashed>>
      BY <2>1 DEF dirVars, poolVars
    <2>3. CASE UNCHANGED <<worker, loaderVars>>
      <3>1. ThreadInv'
        BY <1>0, <2>1, <2>3 DEF ThreadInv
      <3>2. UNCHANGED reactorVars
        BY <1>6 DEF MonitorThread
      <3> QED BY <1>0, <2>1, <2>3, <3>1, <3>2, PluginsWithoutLoader
    <2>4. ASSUME NEW f \in SharedObjects, Notify("open", f) \/ Notify("close", f)
          PROVE  PluginsInv'
      <3>1. /\ m_dll_map' \subseteq Loadable /\ retired' \subseteq Loadable
            /\ m_reg_list' = m_reg_list
            /\ handles' \in [Files -> Nat] /\ loaded' \in [Files -> Nat]
            /\ creator' \in Loadable \cup {"builtin"}
            /\ worker' \in {"handle", "threw"}
            /\ Mapped' /\ CodeKnown'
        BY <1>0, <2>2, <2>4, LoadKeepsPlugins
      <3>2. MonitorTypeOK'
        BY <1>0, <2>1, <2>2, <3>1 DEF TypeOK, MonitorTypeOK
      <3>3. TypeOK'
        BY <1>0, <2>1, <2>2, <3>2 DEF TypeOK
      <3>4. ThreadInv'
        BY <1>0, <2>1, <3>1 DEF ThreadInv
      <3> QED BY <3>1, <3>3, <3>4 DEF PluginsInv
    <2> QED BY <1>6, <2>3, <2>4, HandleNotifies
  <1>7. CASE Directory
    <2>1. PICK f \in Files : WriteFile(f) \/ DeleteFile(f)
      BY <1>7 DEF Directory
    <2>2. /\ UNCHANGED <<notifyOpen, threadVars, loaderVars, frameVars, poolVars>>
          /\ changes < MaxChanges /\ changes' = changes + 1
          /\ hasty' \in BOOLEAN
          /\ rewritten' \subseteq rewritten \cup {f}
          /\ disk' = [disk EXCEPT ![f] = changes + 2] \/ disk' = [disk EXCEPT ![f] = 0]
      BY <1>7, <2>1 DEF Directory, WriteFile, DeleteFile, Change
    <2>3. UNCHANGED <<notifyOpen, monitor_running, worker, joinable, m_reg_list, m_dll_map,
                      handles, loaded, creator, retired, main, stop, stopUsed, tasks, command,
                      crashed>>
      BY <2>2 DEF threadVars, loaderVars, frameVars, poolVars
    <2>4. changes' \in 0..MaxChanges /\ disk' \in [Files -> Nat] /\ rewritten' \subseteq Files
      BY <1>0, <2>2, MonitorAssumption DEF TypeOK, MonitorTypeOK
    <2>5. MonitorTypeOK'
      BY <1>0, <2>2, <2>3, <2>4 DEF TypeOK, MonitorTypeOK
    <2>6. TypeOK'
      BY <1>0, <2>3, <2>5 DEF TypeOK
    <2> QED BY <1>0, <2>3, <2>6 DEF PluginsInv, ThreadInv, Mapped, CodeKnown
  <1>8. CASE DestroyMembers
    <2>1. /\ main = "destroying" /\ stop = "none" /\ main' = "destroyed" /\ DestroyLoader
          /\ UNCHANGED <<stop, stopUsed, tasks, command, crashed>>
      BY <1>8 DEF DestroyMembers, poolVars
    <2>2. /\ m_dll_map' = {} /\ m_reg_list' = {} /\ retired' \subseteq Loadable
          /\ handles' \in [Files -> Nat] /\ loaded' \in [Files -> Nat]
          /\ Mapped' /\ CodeKnown'
      BY <1>0, <2>1, DestroyLoaderKeepsPlugins
    <2>3. UNCHANGED <<disk, changes, hasty, rewritten, notifyOpen, monitor_running, worker,
                      joinable, creator>>
      BY <2>1 DEF DestroyLoader, dirVars, threadVars
    <2>4. MonitorTypeOK'
      BY <1>0, <2>2, <2>3 DEF TypeOK, MonitorTypeOK
    <2>5. TypeOK'
      BY <1>0, <2>1, <2>4 DEF TypeOK
    <2>6. ThreadInv'
      BY <1>0, <2>1, <2>3 DEF ThreadInv
    <2> QED BY <2>2, <2>5, <2>6 DEF PluginsInv
  <1>9. CASE CreateCommand \/ RunCommand
    <2>1. /\ UNCHANGED <<monitorVars, main, stop, stopUsed>>
          /\ \/ tasks > 0 /\ tasks' = tasks - 1 /\ command' = creator
                /\ crashed' = (crashed \/ Unmapped(creator))
             \/ tasks' = tasks /\ command' = "none"
                /\ crashed' = (crashed \/ Unmapped(command))
      BY <1>9 DEF CreateCommand, RunCommand, frameVars
    <2>2. UNCHANGED <<disk, changes, hasty, rewritten, notifyOpen, monitor_running,
                      worker, joinable, m_reg_list, m_dll_map, handles, loaded, creator, retired>>
      BY <2>1 DEF monitorVars, dirVars, threadVars, loaderVars
    <2>3. creator \in Loadable \cup {"builtin"} /\ tasks' \in 0..MaxTasks
      BY <1>0, <2>1, FrameworkAssumption DEF TypeOK, MonitorTypeOK
    <2>4. \A p \in {creator, command} : Unmapped(p) => retired # {}
      BY <1>0 DEF Unmapped, Mapped, CodeKnown
    <2>5. crashed' \in BOOLEAN /\ (crashed' => retired' # {})
      BY <1>0, <2>1, <2>2, <2>4 DEF CodeKnown
    <2>6. MonitorTypeOK'
      BY <1>0, <2>2 DEF TypeOK, MonitorTypeOK
    <2>7. TypeOK'
      BY <1>0, <2>1, <2>3, <2>5, <2>6 DEF TypeOK
    <2>8. CodeKnown'
      BY <1>0, <2>1, <2>2, <2>5, NoSuchFile DEF CodeKnown
    <2> QED BY <1>0, <2>1, <2>2, <2>7, <2>8 DEF PluginsInv, ThreadInv, Mapped
  <1> QED BY <1>1, <1>2, <1>3, <1>4, <1>5, <1>6, <1>7, <1>8, <1>9
       DEF Next, MonitorThread, WorkerMoves

\* The loader and the dynamic linker agree, the loader outlives the thread that calls it,
\* and a pool thread calls code that is not mapped only after a library has been closed,
\* for any files and any order of Stop, Run, the destructor and changes to the directory.
THEOREM PluginsAlwaysMapped == Spec => []PluginsMapped
  <1>1. PluginsInv => PluginsMapped
    BY DEF PluginsInv, ThreadInv, Mapped, CodeKnown, PluginsMapped
  <1> QED BY <1>1, InitEstablishesPluginsInv, NextPreservesPluginsInv, PTL DEF Spec

-------------------------------------------------------------------------------
(* The events the monitor's thread has not handled. *)

Events == [mask : {"IN_CLOSE_WRITE", "IN_DELETE"}, name : Files] \cup {Ignored}

Unhandled == batch \o events

\* The k-th of the events of q can be handled when its turn comes: what was written can be
\* opened, and what was deleted is loaded and has no event before.
Welcome(q, k) ==
    q[k].name \in SharedObjects =>
        /\ q[k].mask = "IN_CLOSE_WRITE" => q[k].name \in Loadable /\ disk[q[k].name] # 0
        /\ q[k].mask = "IN_DELETE" =>
               /\ \A j \in 1..(k - 1) : q[j].name # q[k].name
               /\ m_reg_list # {} => q[k].name \in m_dll_map

AllWelcome == \A k \in 1..Len(Unhandled) : Welcome(Unhandled, k)

EventsInv ==
    /\ batch \in Seq(Events) /\ events \in Seq(Events)
    /\ worker \in {"none", "test", "enter", "read"} => batch = << >>
    /\ m_reg_list \in {Registered, {}}
    /\ ~hasty => AllWelcome
    /\ MonitorSurvives

\* What the monitor has still to handle is a sequence of events.
LEMMA UnhandledType ==
    ASSUME EventsInv
    PROVE  /\ Unhandled \in Seq(Events) /\ Len(Unhandled) \in Nat
           /\ \A k \in 1..Len(Unhandled) : Unhandled[k] \in Events
  BY DEF EventsInv, Unhandled

\* At first there is nothing to handle.
LEMMA InitEstablishesEventsInv == Init => EventsInv
  <1> SUFFICES ASSUME Init PROVE EventsInv
    OBVIOUS
  <1>1. /\ batch = << >> /\ events = << >> /\ m_reg_list = Registered /\ worker = "none"
    BY DEF Init, MonitorInit
  <1>2. Len(Unhandled) = 0
    BY <1>1 DEF Unhandled
  <1> QED BY <1>1, <1>2 DEF EventsInv, AllWelcome, MonitorSurvives

\* Steps that neither add nor take events, nor touch what they are about.
LEMMA EventsKept ==
    ASSUME EventsInv, Unhandled' = Unhandled, batch' \in Seq(Events), events' \in Seq(Events),
           UNCHANGED <<disk, hasty>>,
           UNCHANGED <<m_reg_list, m_dll_map>> \/ m_reg_list' = {},
           worker' \in {"none", "test", "enter", "read"} => batch' = << >>,
           worker' = "threw" => hasty
    PROVE  EventsInv'
  <1>1. ~hasty' => AllWelcome'
    <2> SUFFICES ASSUME AllWelcome, NEW k \in 1..Len(Unhandled)
                 PROVE  Welcome(Unhandled, k)'
      BY DEF AllWelcome, EventsInv
    <2>1. Welcome(Unhandled, k)
      BY DEF AllWelcome
    <2> QED BY <2>1 DEF Welcome
  <1>2. m_reg_list' \in {Registered, {}}
    BY DEF EventsInv
  <1> QED BY <1>1, <1>2 DEF EventsInv, MonitorSurvives

\* A step that adds an event.
LEMMA EventAdded ==
    ASSUME EventsInv, NEW e \in Events, events' = Append(events, e), batch' = batch
    PROVE  /\ events' \in Seq(Events)
           /\ Len(Unhandled') = Len(Unhandled) + 1
           /\ \A k \in 1..Len(Unhandled) : Unhandled'[k] = Unhandled[k]
           /\ Unhandled'[Len(Unhandled) + 1] = e
  BY DEF EventsInv, Unhandled

\* A change to the directory that the monitor can cope with stays one it can cope with.
LEMMA EventsAfterAdding ==
    ASSUME EventsInv, NEW e \in Events, events' = Append(events, e),
           UNCHANGED <<batch, worker, m_reg_list, m_dll_map>>,
           hasty => hasty',
           ~hasty' /\ e.name \in SharedObjects =>
               /\ e.mask = "IN_CLOSE_WRITE" => e.name \in Loadable /\ disk'[e.name] # 0
               /\ e.mask = "IN_DELETE" => ~Pending(e.name) /\ e.name \in m_dll_map,
           ~hasty' => \A f \in SharedObjects :
               Pending(f) /\ disk[f] # 0 => disk'[f] # 0
    PROVE  EventsInv'
  <1> DEFINE n == Len(Unhandled)
  <1>1. /\ events' \in Seq(Events) /\ batch' \in Seq(Events) /\ n \in Nat
        /\ Len(Unhandled') = n + 1
        /\ \A k \in 1..n : Unhandled'[k] = Unhandled[k]
        /\ Unhandled'[n + 1] = e
    BY EventAdded, UnhandledType DEF EventsInv
  <1>2. \A f : Pending(f) <=> \E k \in 1..n : Unhandled[k].name = f
    BY DEF Pending, Unhandled
  <1>3. ASSUME ~hasty' PROVE AllWelcome'
    <2> SUFFICES ASSUME NEW k \in 1..(n + 1) PROVE Welcome(Unhandled, k)'
      BY <1>1 DEF AllWelcome
    <2>1. AllWelcome
      BY <1>3 DEF EventsInv
    <2>2. CASE k \in 1..n
      <3>1. Welcome(Unhandled, k) /\ Unhandled'[k] = Unhandled[k]
        BY <1>1, <2>1, <2>2 DEF AllWelcome
      <3>2. \A j \in 1..(k - 1) : Unhandled'[j] = Unhandled[j]
        <4> SUFFICES ASSUME NEW j \in 1..(k - 1) PROVE j \in 1..n
          BY <1>1
        <4> QED BY <1>1, <2>2
      <3>3. Unhandled[k].name \in SharedObjects /\ disk[Unhandled[k].name] # 0
              => disk'[Unhandled[k].name] # 0
        BY <1>2, <1>3, <2>2
      <3> HIDE DEF n
      <3> QED BY <3>1, <3>2, <3>3 DEF Welcome
    <2>3. CASE k = n + 1
      <3>1. Unhandled'[k] = e
        BY <1>1, <2>3
      <3>2. e.mask = "IN_DELETE" /\ e.name \in SharedObjects =>
                \A j \in 1..(k - 1) : Unhandled'[j].name # e.name
        <4> SUFFICES ASSUME e.mask = "IN_DELETE", e.name \in SharedObjects,
                            NEW j \in 1..(k - 1)
                     PROVE  Unhandled'[j].name # e.name
          OBVIOUS
        <4>1. j \in 1..n
          BY <1>1, <2>3
        <4> QED BY <1>1, <1>2, <1>3, <4>1
      <3> HIDE DEF n
      <3> QED BY <1>3, <3>1, <3>2 DEF Welcome
    <2> QED BY <1>1, <2>2, <2>3
  <1>4. /\ m_reg_list' \in {Registered, {}}
        /\ worker' \in {"none", "test", "enter", "read"} => batch' = << >>
        /\ MonitorSurvives'
    BY DEF EventsInv, MonitorSurvives
  <1> QED BY <1>1, <1>3, <1>4 DEF EventsInv

\* The thread takes the first event.
LEMMA EventTaken ==
    ASSUME EventsInv, batch # << >>, batch' = Tail(batch), events' = events
    PROVE  /\ batch' \in Seq(Events) /\ events' \in Seq(Events)
           /\ 1 \in 1..Len(Unhandled) /\ Unhandled[1] = Head(batch)
           /\ Len(Unhandled') = Len(Unhandled) - 1
           /\ \A k \in 1..Len(Unhandled') : Unhandled'[k] = Unhandled[k + 1]
  BY DEF EventsInv, Unhandled

\* Handling one event leaves the others welcome.
LEMMA EventsAfterHandling ==
    ASSUME PluginsInv, EventsInv, WorkerHandle
    PROVE  EventsInv'
  <1> DEFINE e == Head(batch)
             n == Len(Unhandled)
  <1>0. /\ worker = "handle" /\ batch # << >> /\ batch' = Tail(batch)
        /\ UNCHANGED <<events, disk, hasty>>
    BY DEF WorkerHandle, dirVars
  <1>1. /\ batch' \in Seq(Events) /\ events' \in Seq(Events)
        /\ Unhandled[1] = e /\ n \in Nat /\ 1 \in 1..n
        /\ Len(Unhandled') = n - 1
        /\ \A k \in 1..(n - 1) : Unhandled'[k] = Unhandled[k + 1]
    BY <1>0, EventTaken, UnhandledType
  <1>2. /\ IF e.mask = "IN_CLOSE_WRITE" /\ IsSharedObject(e.name) THEN Notify("open", e.name)
           ELSE IF e.mask = "IN_DELETE" /\ IsSharedObject(e.name) THEN Notify("close", e.name)
           ELSE UNCHANGED <<worker, loaderVars>>
    BY DEF WorkerHandle
  <1> HIDE DEF e
  <1>3. /\ m_reg_list' = m_reg_list /\ worker' \in {"handle", "threw"}
        /\ \/ m_dll_map \subseteq m_dll_map'
           \/ /\ e.mask = "IN_DELETE" /\ e.name \in SharedObjects
              /\ m_dll_map' = m_dll_map \ {e.name}
    BY <1>0, <1>2 DEF IsSharedObject, Notify, Load, Unload, loaderVars
  <1>4. ASSUME ~hasty
        PROVE  worker' # "threw" /\ AllWelcome'
    <2>1. AllWelcome
      BY <1>4 DEF EventsInv
    <2>2. Welcome(Unhandled, 1)
      BY <1>1, <2>1 DEF AllWelcome
    <2>3. /\ e.mask = "IN_CLOSE_WRITE" /\ e.name \in SharedObjects =>
                 e.name \in Loadable /\ disk[e.name] # 0
          /\ e.mask = "IN_DELETE" /\ e.name \in SharedObjects =>
                 (m_reg_list # {} => e.name \in m_dll_map)
      BY <1>1, <2>2 DEF Welcome
    <2>4. worker' # "threw"
      BY <1>0, <1>2, <2>3 DEF IsSharedObject, Notify, Load, Unload
    <2>5. ASSUME NEW k \in 1..(n - 1) PROVE Welcome(Unhandled, k)'
      <3>1. k + 1 \in 1..n /\ 1 \in 1..((k + 1) - 1)
        BY <1>1
      <3>2. Welcome(Unhandled, k + 1) /\ Unhandled'[k] = Unhandled[k + 1]
        BY <1>1, <2>1, <3>1 DEF AllWelcome
      <3>3. \A j \in 1..(k - 1) : j + 1 \in 1..((k + 1) - 1) /\ Unhandled'[j] = Unhandled[j + 1]
        <4> SUFFICES ASSUME NEW j \in 1..(k - 1)
                     PROVE  j \in 1..(n - 1) /\ j + 1 \in 1..((k + 1) - 1)
          BY <1>1
        <4> QED BY <1>1
      <3> HIDE DEF n
      <3>4. CASE m_dll_map \subseteq m_dll_map'
        BY <1>0, <1>3, <3>2, <3>3, <3>4 DEF Welcome
      <3>5. CASE m_dll_map' = m_dll_map \ {e.name}
        <4>1. Unhandled[k + 1].name \in SharedObjects /\ Unhandled[k + 1].mask = "IN_DELETE" =>
                  Unhandled[k + 1].name # e.name
          BY <1>1, <3>1, <3>2 DEF Welcome
        <4> QED BY <1>0, <1>3, <3>2, <3>3, <3>5, <4>1 DEF Welcome
      <3> QED BY <1>3, <3>4, <3>5
    <2> QED BY <1>1, <2>4, <2>5 DEF AllWelcome
  <1> QED BY <1>0, <1>1, <1>3, <1>4 DEF EventsInv, MonitorSurvives

\* Every step keeps the events the monitor has still to handle welcome.
LEMMA NextPreservesEventsInv == PluginsInv /\ EventsInv /\ [Next]_vars => EventsInv'
  <1> SUFFICES ASSUME PluginsInv, EventsInv, [Next]_vars PROVE EventsInv'
    OBVIOUS
  <1>0. /\ batch \in Seq(Events) /\ events \in Seq(Events) /\ TypeOK /\ ThreadInv
        /\ worker \in {"none", "test", "enter", "read"} => batch = << >>
        /\ worker = "threw" => hasty
    BY DEF PluginsInv, EventsInv, MonitorSurvives
  <1>1. ASSUME UNCHANGED <<events, batch, disk, hasty>>,
               UNCHANGED <<m_reg_list, m_dll_map>> \/ m_reg_list' = {},
               worker' \in {"none", "test", "enter", "read"} => batch' = << >>,
               worker' = "threw" => hasty
        PROVE  EventsInv'
    <2>1. Unhandled' = Unhandled
      BY <1>1 DEF Unhandled
    <2> QED BY <1>0, <1>1, <2>1, EventsKept
  <1>2. ASSUME UNCHANGED monitorVars PROVE EventsInv'
    BY <1>0, <1>1, <1>2 DEF monitorVars, dirVars, threadVars, loaderVars
  <1>3. CASE RunMonitor
    BY <1>0, <1>1, <1>3 DEF RunMonitor, MonitorRun, dirVars, loaderVars
  <1>4. CASE StopMonitor
    <2>1. CASE UNCHANGED monitorVars \/ StopClear \/ StopJoin
      BY <1>0, <1>1, <1>2, <2>1 DEF StopClear, StopJoin, dirVars, loaderVars
    <2>2. CASE StopClose
      <3>1. UNCHANGED <<batch, worker, disk, hasty, m_reg_list, m_dll_map>>
        BY <2>2 DEF StopClose, dirVars, threadVars, loaderVars
      <3>2. CASE events' = Append(events, Ignored)
        <4>1. Ignored \in Events /\ Ignored.name \notin SharedObjects
          BY NoSuchFile DEF Events, Ignored
        <4> QED BY <3>1, <3>2, <4>1, EventsAfterAdding
      <3>3. CASE events' = events
        BY <1>0, <1>1, <3>1, <3>3
      <3> QED BY <2>2, <3>2, <3>3 DEF StopClose
    <2> QED BY <1>4, <2>1, <2>2 DEF StopMonitor
  <1>5. CASE MonitorThread /\ (WorkerTest \/ WorkerEnter \/ WorkerBatchDone)
    <2>1. /\ UNCHANGED <<events, batch, disk, hasty, m_reg_list, m_dll_map>>
          /\ worker' \in {"test", "enter", "read"} => batch = << >>
          /\ worker' # "none"
      BY <1>0, <1>5 DEF WorkerTest, WorkerEnter, WorkerBatchDone, dirVars, loaderVars
    <2>2. worker' # "threw"
      BY <1>0, <1>5 DEF WorkerTest, WorkerEnter, WorkerBatchDone, ThreadInv
    <2> QED BY <1>1, <2>1, <2>2
  <1>6. CASE MonitorThread /\ WorkerRead
    <2>1. PICK n \in 1..Len(events) :
              batch' = SubSeq(events, 1, n) /\ events' = SubSeq(events, n + 1, Len(events))
      BY <1>6 DEF WorkerRead
    <2>2. /\ batch = << >> /\ worker' = "handle"
          /\ UNCHANGED <<disk, hasty, m_reg_list, m_dll_map>>
      BY <1>0, <1>6 DEF WorkerRead, dirVars, loaderVars
    <2>3. Unhandled = events
      BY <1>0, <2>2, ConcatEmptySeq DEF Unhandled
    <2>4. batch' \in Seq(Events) /\ events' \in Seq(Events)
      BY <1>0, <2>1
    <2>5. Unhandled' = events
      <3>1. Len(events) \in Nat
        BY <1>0
      <3>2. /\ 1 \in 1..(Len(events) + 1) /\ n \in (1 - 1)..Len(events)
            /\ Len(events) \in n..Len(events)
        BY <3>1
      <3>3. SubSeq(events, 1, n) \o SubSeq(events, n + 1, Len(events))
              = SubSeq(events, 1, Len(events))
        BY <1>0, <3>2, ConcatAdjacentSubSeq
      <3>4. SubSeq(events, 1, Len(events)) = events
        BY <1>0, SubSeqFull
      <3> QED BY <2>1, <3>3, <3>4 DEF Unhandled
    <2> QED BY <2>2, <2>3, <2>4, <2>5, EventsKept
  <1>7. CASE MonitorThread /\ WorkerHandle
    BY <1>7, EventsAfterHandling
  <1>8. CASE Directory
    <2>1. PICK f \in Files : WriteFile(f) \/ DeleteFile(f)
      BY <1>8 DEF Directory
    <2>2. UNCHANGED <<batch, worker, m_reg_list, m_dll_map>> /\ (hasty => hasty')
          /\ disk \in [Files -> Nat] /\ changes \in Nat /\ SharedObjects \subseteq Files
      BY <1>0, <2>1, NoSuchFile, MonitorAssumption
         DEF WriteFile, DeleteFile, threadVars, loaderVars, TypeOK, MonitorTypeOK
    <2>3. CASE WriteFile(f)
      <3> DEFINE e == [mask |-> "IN_CLOSE_WRITE", name |-> f]
      <3>1. /\ events' = Append(events, e) /\ disk' = [disk EXCEPT ![f] = changes + 2]
            /\ hasty' = (hasty \/ f \in SharedObjects \ Loadable)
        BY <2>3 DEF WriteFile, Change
      <3>2. e \in Events /\ e.name = f /\ e.mask = "IN_CLOSE_WRITE"
        BY DEF Events
      <3> HIDE DEF e
      <3>3. changes + 2 # 0
        BY <2>2
      <3>4. disk'[f] # 0 /\ \A g \in SharedObjects : disk[g] # 0 => disk'[g] # 0
        BY <2>2, <3>1, <3>3
      <3> QED BY <2>2, <3>1, <3>2, <3>4, EventsAfterAdding
    <2>4. CASE DeleteFile(f)
      <3> DEFINE e == [mask |-> "IN_DELETE", name |-> f]
      <3>1. /\ events' = Append(events, e) /\ disk' = [disk EXCEPT ![f] = 0]
            /\ hasty' = (hasty \/ (f \in SharedObjects /\ (f \notin m_dll_map \/ Pending(f))))
        BY <2>4 DEF DeleteFile, Change, IsSharedObject
      <3>2. e \in Events /\ e.name = f /\ e.mask = "IN_DELETE"
        BY DEF Events
      <3> HIDE DEF e
      <3>3. ~hasty' => \A g \in SharedObjects : Pending(g) /\ disk[g] # 0 => disk'[g] # 0
        BY <2>2, <3>1
      <3> QED BY <2>2, <3>1, <3>2, <3>3, EventsAfterAdding
    <2> QED BY <2>1, <2>3, <2>4
  <1>9. CASE DestroyMembers
    BY <1>0, <1>1, <1>9 DEF DestroyMembers, DestroyLoader, UnregisterCallbacks, dirVars,
                            threadVars
  <1> QED BY <1>2, <1>3, <1>4, <1>5, <1>6, <1>7, <1>8, <1>9
       DEF Next, MonitorThread, RunReactor, StopByThread, DestroyBegin, ReactorThread, Input,
           Callback, CreateCommand, RunCommand, vars

\* The monitor's thread throws, which ends the process, only after a change to the
\* directory it cannot cope with: never because of Stop, in whatever order the clearing of
\* m_running, the closing of the descriptor and the thread's test and read happen.
THEOREM MonitorAlwaysSurvives == Spec => []MonitorSurvives
  <1>1. Init => PluginsInv /\ EventsInv
    BY InitEstablishesPluginsInv, InitEstablishesEventsInv
  <1>2. PluginsInv /\ EventsInv /\ [Next]_vars => (PluginsInv /\ EventsInv)'
    BY NextPreservesPluginsInv, NextPreservesEventsInv
  <1>3. EventsInv => MonitorSurvives
    BY DEF EventsInv
  <1> QED BY <1>1, <1>2, <1>3, PTL DEF Spec
===============================================================================
