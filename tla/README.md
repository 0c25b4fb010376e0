# A TLA+ verification of IoTBasedRAID01

The program serves a Linux network block device (NBD) from the files of several
small devices, the *minions*, on top of a framework of its own (reactor, thread
pool, scheduler, logger, plug-ins).  This directory holds TLA+ modules that model
it, the TLC configurations that check them on small instances, and TLAPS proofs
that hold for every instance.  `PROJECT.json` lists the components, the runs, the
source lines behind every definition, the hazards, the findings and the theorems.

## The system

A request travels like this:

    kernel --TCP--> NBDProxy --Framework/ThreadPool--> ReadCommand / WriteCommand
      ^                |  (notifies ResponseManager)        |
      |                v                                    v
      |        ResponseManager <----- ticket ------- MinionManager, StripeSplitter
      |                ^                                    |
      |                | result                             v
      +---- reply -- Ticket <--- response --- MinionProxy <--UDP--> MasterProxy,
                                                              FileManager (minion)

Three kinds of thread of the master touch it: the framework's reactor (new
requests), the workers of the thread pool (commands) and MinionManager's own
reactor (responses).  A minion has a reactor and a pool as well.  A further process,
a child of the master, lends the kernel its end of the NBD socket, and a further
thread watches the directory of plug-ins.

| Component | State | Operations | What makes it correct |
|---|---|---|---|
| StripeSplitter | none | `Split` | segments partition the range, inside one chunk each |
| Ticket | mirror responses per segment, `m_completed` | `OnMirrorResponse` | read and write policy, one result, no missed completion |
| MinionManager | minions, chunk size | `AddReadTask`, `AddWriteTask` | both mirrors of every segment are asked |
| MinionProxy | `m_map`: uid to callback | `Add*Task`, `OnMinionFDWakeUp` | a response runs the callback of its own command |
| ResponseManager | `m_requests`, `m_tickets` | `OnNewTask`, `OnTicketCreate`, `OnTicketDone` | tables agree with NBDProxy's |
| NBDProxy | `m_responses` | `GetTaskArgs`, `OnNBDResponse` | requests are framed; one reply per request, under its handle, error iff the ticket failed |
| UID | `s_counter` | construction of an `ATaskArgs` or a `TaskResult` | no two requests in flight share a uid |
| NBD | descriptors, child process | constructor, `RunClient`, signal handler, `DisconnectNBD`, destructor | the handler uses no closed descriptor; a disconnect does not disturb requests |
| MasterProxy, MinionCommands | none | one command per datagram | answers what the file operation returned |
| FileManager | file, stream state | `Init`, `ReadFromFile`, `WriteToFile` | acknowledged data can be read back |
| Messages | the fields of four classes | `GetSize`, `ToBuffer`, `FromBuffer` | what one end decodes the other has encoded; what fits is delivered |
| ThreadPool, WaitableQueue | queue, threads, counts, pause state | `AddTask`, `Pause`, `Resume`, `SetNumThreads`, destructor | counts match threads, a paused pool starts nothing, calls return |
| Logger | queue, `m_running` | `Log`, thread, destructor | nothing lost or reordered, the destructor returns |
| Scheduler | queue, `m_counter`, one timer | `AddTask`, `RunTask`, destructor | no task forgotten, none early, nothing used after the destructor |
| AsyncInjection | interval, weak pointers | `Schedule`, `PerformAction`, `Reschedule` | polled by one thread at a time, never after it returned true; the injection is destroyed in the end |
| Reactor, LinuxListener | callbacks by descriptor, `m_running` | `Run`, `Listen`, `Stop` | `Run` returns after `Stop` |
| DirMonitor, DLLLoader, Dispatcher, Factory | inotify descriptor, thread, open libraries, registered callbacks and creators | `Run`, `Stop`, `Load`, `Unload`, `Notify` | new libraries are loaded, the loader outlives its caller, stopping never ends the process |
| Framework | all of these | `Run`, `Stop`, destructor, `FW_TPTask::Run` | a command's code is mapped when it runs; `Stop` returns |
| Handleton, Singleton | | | see "Not modelled" |

What is hard: responses that come in any order, twice, late or never; a request
over two chunks, which meets one minion twice; a file operation or a `sendto` that
fails between the two mirrors; a minion that restarts; a request that arrives in
pieces, while the reply to another needs the mutex its reader holds; a counter that
two threads advance without a lock; a signal at any moment; the pool's pause
handshake against resizing and destruction; the logger's shutdown; the single timer
of the scheduler against threads that are late for the mutex, and against the exit;
plug-ins that come, change and go while a thread is stopped; datagrams at the limit
of a receive buffer that is not initialised.  The `hazards` of `PROJECT.json` give
each with its line and the properties aimed at it.

## The modules

| Module | Models | Notes |
|---|---|---|
| `Striping` | index arithmetic and the closed form of `Split` | pure operators; `ChunkSize` and `NumMinions` are the parameters, assumed positive because `MinionManager::Init` throws otherwise |
| `StripeSplitter` | the loop of `Split`, after `ValidateRange` | one action per iteration |
| `TicketOps` | the methods of `Ticket` as operators on a ticket value | shared by the next two |
| `Ticket` | one ticket with its mirrors | one action per response |
| `BlockDevice` | what the kernel expects of the device | abstract and external: no minions, only the values a read may return; see below |
| `RaidDrive` | the whole path above | composes `Striping` and `TicketOps`; `Kernel == INSTANCE BlockDevice WITH ...` is the refinement mapping |
| `NBDSession` | the kernel's end: NBD's processes, signals, the TCP stream, NBDProxy, the uid counter | the rest of the drive is a set of requests being worked on |
| `Messages` | the wire format and the receive buffers of both proxies | one minion, no loss; a buffer is `BUFSIZ` bytes of which a datagram overwrites the first |
| `ThreadPool`, `Logger` | the framework's concurrent classes | |
| `Scheduler`, `AsyncInjection` | the scheduler and what it is used for | `AsyncInjection` extends `Scheduler` and has the next-state relation of both |
| `Reactor`, `DirMonitor`, `Framework` | the reactor's loop; directory, monitor, loader, factory; the owner of both | `Framework` extends the other two and composes their steps |
| `StripeSplitterProofs`, `TicketProofs`, `RaidDriveProofs`, `NBDSessionProofs`, `MessagesProofs`, `AsyncInjectionProofs`, `FrameworkProofs` | the theorems about the module each is named after | each extends its module; see "The proofs" |
| `QueueProofs` | the theorems about `ThreadPool` and `Logger`, the two users of the waitable queues | extends both |
| `MCTicket`, `MCRaidDrive`, `MCAsyncInjection` | constants for TLC | the other configurations need no module |

What `BlockDevice` promises is that of a disk, except for two things the drive is not
able to hide, and which it states instead of assuming them away.  Units may share a
place (`Sharing`): the code keeps a chunk on its primary and, as a backup, at the same
local offsets of the next minion, where the chunk after it has its primary copy, so a
write to one unit may show up in the other.  `allowed[a]` is the set of values a read of
`a` may return: what an acknowledged write left there, what writes in flight or failed
may have left, and what writes to units that share a place with `a` and were not over
when that write was issued may have brought.  And a part, here a minion, may be
*damaged*: `damaged[m][a]` says that the copy of `a` on `m` is no longer vouched for,
because the minion has restarted with an empty file or a write command ran on it after
its request was answered; an acknowledged write that was issued after the damage repairs
it.  A read of a unit with a damaged copy may return anything.  `Promised` are the
requests that send at most one command to each minion; of the others (which cross chunks,
or run on a drive of one minion) the device promises only that they are answered at most
once.  `before` and `damaged` are history: no guard of the drive's code reads them.

State keeps the names of the code's members (`reactor_running` and
`monitor_running` are the two classes' `m_running`).  An action is one critical
section, one system call, one datagram or one iteration:

* A ticket's whole `OnMirrorResponse`, down to the reply on the NBD socket, runs
  inside `MinionProxy::m_mtx`, the ticket's mutex and `ResponseManager::m_mtx`, so
  `OnMinionFDWakeUp` is one action that calls `HandleAnswer`, `OnMirrorResponse`,
  `OnTicketDone` and `OnNBDResponse`.
* In `RaidDrive`, `GetTaskArgs` fills two tables and the pool's queue in three
  critical sections, but nobody can name the new uid before the last of them; it is
  one action.  `NBDSession` takes it apart: each `recv`, the read and the store of
  the counter, and the table are steps, and the two increments of the counter (for a
  request and for the result of a ticket, which then drops its own) interleave.
* The loop of `AddReadTask`/`AddWriteTask` takes a proxy's mutex once per mirror;
  `SendMirror` is one call.  Responses may overtake the rest of the loop.
* A minion that restarts (`RestartMinion`) loses any of the commands that have reached
  it; which of those under way these are is left open, as the network may still hold some.
* In `ThreadPool` each push, pop, semaphore operation and critical section of the
  pause mutex is an action; so is each access to the logger's `m_running`, which
  is not atomic.  One thread calls `Pause`, `Resume`, `SetNumThreads` and the
  destructor, in any order: `Pause` also on a paused pool, `Resume` also on a running one.
* The order of `m_pq` in `ThreadPool` is the order in which tasks were created.
* In `Scheduler` an expiry thread is created (`Expire`), takes an entry
  (`TakeTask`) and ends its task (`FinishTask`); any number may be alive at each
  stage.  In `AsyncInjection` the task in between locks its weak pointer, calls the
  function and drops the pointer.  `ScheduleReturns` is the end of `Schedule`'s frame,
  which drops the only other owner; it may come before or after the first polls.
* In `DirMonitor` the thread's test of `m_running`, its call of `read`, what `read`
  returns and each event are steps, and `Stop` is three: clear the flag, remove the
  watch and close, join.

Payloads are abstract: a written unit is the pair of its request and its address,
so a value that reaches a wrong place is told apart from every other.  The bytes of
a response to a failed read are `Garbage`, since its buffer is not initialised.  In
`Messages` a number of *w* bytes is *w* numbered bytes that carry its value: enough
to tell a whole number from a part of one or from parts of two.  In `NBDSession` a
request is `HeaderLen` tokens and a write's data `DataLen` more; the header's magic
is right exactly when the tokens are those of one request.  A plug-in has a version,
so that an old library that is still mapped is told from the file on disk.

Definitions whose comment calls them a *slip* are not part of any specification:
each is a plausible mistake in the definition that follows it, which some property
must catch.  `PROJECT.json` pairs them under `mutants`.

Variables whose comment calls them *history* (`hasty`, `rearmed`, `rolledBack`,
`refused`, `before`, `damaged`, ...) are read by no guard that models code: they let a property name the
circumstance in which the code does not keep it.

## The runs

In most modules the type invariant is a conjunct of a safety property rather than a
property of its own.

| Run | Bounds | Shows |
|---|---|---|
| `splitter` | 3 chunks of 3, all offsets and lengths to 11 | splitting is right for every range of up to four pieces, also for ranges beyond the drive, which throw |
| `ticket` | 2 segments, 3 messages | both policies, one result, nothing missed, for every order and outcome; a response after the result changes nothing |
| `raid` | 3 minions of 2 units, 2 requests out of: reading or writing a unit, writing the unit that shares a place with it, a write that crosses from the one chunk into the other; one each of: failing file operation, throwing `SendTo`, write command or answer delivered twice | refinement of `BlockDevice`, mirrored data, consistent tables, every response at a callback of its own or, for the crossing write, a later call |
| `raid_liveness` | 2 minions, 2 requests for one unit, one each of: failing file operation, lost datagram, write command delivered twice, restart | requests are answered unless a datagram is lost, on the network or with a minion, most reads even then; acknowledged data is still on one minion after a restart or a late write |
| `session` | 3 requests of 2 or 3 tokens, 2 signals, the child's end, and then that of the socket, at any time | requests are framed however they arrive, answered once and under their handle; the handler uses no closed descriptor |
| `messages` | a receive buffer of 36 bytes, 2 commands, reads to 11 and writes to 4 bytes | nothing cut or stale is decoded; whatever fits, to the last byte, is answered |
| `pool` | 3 thread ids, 2 tasks, 2 pauses, any number of resumes, 2 resizes to between 0 and 3, the destructor | counts, pause handshake, calls return, tasks run |
| `logger` | 2 clients, 2 messages each | order, completeness, the destructor returns |
| `async` | one polled function (at most 3 polls) and one other task, intervals 0 to 2, the clock to 3, exit at any time | no task forgotten, none early, polls are serial, every injection ends, nothing is used after the destructor |
| `framework` | one descriptor, one plug-in that may be there before, 3 changes to the directory, one task | libraries are loaded and mapped as the loader believes, the loader outlives the thread, stopping never ends the process, `Stop` and `Run` return |

Why these bounds are enough to be interesting: three minions are the smallest
number for which the backup of a chunk is neither its own primary nor the primary
of its predecessor's backup; two units per chunk give a boundary inside and between
chunks; two requests give one to run into the other, be it over the same unit, over a
shared place or over a shared callback; two workers give one that is late while the other is parked; two pauses give
one that meets threads the resume before has only notified, or a pool that is paused
already.  Three requests in a
session give a uid that is handed out again while its first owner is in flight; a
header of two tokens can be cut in the middle.  Three polls let a thread that adds
the next one be overtaken by it, and another task's expiry fall in between.  Three
changes let a plug-in be written, deleted and written again behind the monitor's
back.  Each bound on a fault is a constant, and the fault can strike at any step.  A
receive buffer of 36 bytes holds every header at its real size, and the lengths are
the ones that fit exactly, are one byte too long, and are two bytes too long.

The workload of `raid` has the two defects of the code that are the subjects of runs of
their own, units of different chunks at one place of a minion's file and a request that
meets one minion twice, because the properties say what holds in spite of them.  The one
of `raid_liveness` has not, since a crossing write is never answered.  Deadlock is not checked, because every one of these systems may
come to rest: the kernel stops asking, the pool is destroyed, the bounds are used up.

Runs that find a violation, each of something the repository says of itself (the
quotations are under `findings`); neither needs any fault:

| Run | Violated | What the code does |
|---|---|---|
| `raid_aliasing` | `ReadsLastWrite` | primary and backup data overlap in a minion's file |
| `raid_crossing` | `EveryRequestAnswered` | a write over two chunks is never answered |

### What the code does not keep

Some properties of the passing runs name an exception, because the code does not keep
the plain form.  Each is a defect or a limit of the code that the model reaches:

* `FailureHasCause`: a read fails when *one* mirror has failed, since a failed backup
  that answers before the primary settles its segment, although the primary would
  serve it.
* `EveryRequestAnswered` excepts a `SendTo` that throws, a write that loses a datagram
  on the network or a command with a minion that restarts, and a read of which one
  mirror's datagram is lost so and the other mirror's is lost too or its file operation
  fails: nobody retries.
* `ResponseMatchesCallback` excepts a request that sends two commands to one minion,
  whose callbacks share an entry: the response of the earlier is taken for that of the
  later.  So a *read* over two chunks gets an answer, but may take one segment's bytes for
  the other's, and `BlockDevice` promises nothing of what such a request reads or of when
  it is acknowledged.
* `ImplementsBlockDevice` has a device on which writes to units of neighbouring chunks
  show up in each other, see `Sharing`; `raid_aliasing` shows that this is not what a
  reader of the README expects.  A read of a unit with a damaged copy may return anything:
  a restarted minion truncates its file and answers reads from it, and a write command
  that is delivered again after its reply undoes later ones.
* `AckedDataSurvives` allows one restart or one datagram that comes twice, not both.
* `RepliesMatch` and `RequestsAnswered` except a counter that has been put back: a
  thread that has read `s_counter` for a `TaskResult` and stores late makes the next
  requests share uids with ones in flight.  `RequestsAnswered` also excepts a signal
  that finds the reactor in `select` (which then throws, out of `Run`) and a child
  that has ended (`Receive` throws when the socket ends with the device).
* `HandlerUsesOpenDevice` excepts a disconnect that the kernel has refused: the
  handler then keeps the descriptor, and uses it after the destructor has closed it.
* `FittingIsAnswered` excepts datagrams of `BUFSIZ` bytes and more, which are cut and
  dropped, so that such a request is never answered.
* `NoStartWhilePaused` excepts a pool that `SetNumThreads` has enlarged while it was
  paused: the new threads take tasks at once.
* `PauseReturns` excepts a `Pause` that begins while a thread still stands in the
  wait of the last pause.  One that `Resume` has notified finds `m_paused` set again,
  waits on, and `Pause` acquires one token too few for ever; the same happens to a `Pause`
  of a paused pool with threads, since none of them takes the new pause tasks.  (The
  repository's own test pauses a paused pool, first without threads, where `Pause`
  returns at once.)
* `DestructorJoins` excepts a pool that is destroyed while it is paused: the parked
  workers never see their end tasks and the join does not return.
* `DestructorReturns` excepts a logger thread that has already popped the
  destructor's own message and, with `m_running` still set, waits for another.
* `RunsWhenDue` excepts a timer that was armed while an expiry thread was waiting for
  the mutex: it expires twice, and the second thread takes the next entry before it
  is due.
* `DestroyedUnused` excepts an expiry thread that is alive when `~Scheduler` begins:
  the destructor does not wait for it.
* `InjectionsEnd` says that an injection ends, not that its function is polled until it
  returns true: `Schedule` drops the only owner when it returns, so that a function whose
  interval has not passed by then is never called, or never again.
* `MonitorSurvives` excepts changes the monitor cannot cope with: a file that is no
  library, and one deleted while it is not loaded.  `Load` and `Unload` throw, out of
  the monitor's thread, which ends the process.
* `PluginsGetLoaded` excepts a library that is written over a loaded one: `Load` finds
  it in the map and keeps the old.
* `PluginsMapped` allows a pool thread to call code that is not mapped once a library
  has been closed: its creator stays in the factory.
* `StopReturns` has `Run` return only if descriptors keep becoming ready: `Stop` does
  not wake a `select`.  A `Stop` that comes before `Run` is undone by it.

### Fairness

Weak fairness is assumed of threads, one conjunct per thread or step: a worker with a
task, a minion with a datagram, a reactor with a readable socket, a pool or `Stop`
call that has begun, an expiry thread.  The operating system's scheduler gives that,
and the code blocks nowhere else between these steps; that user tasks and polled
functions return is assumed too.  Besides, time passes, an armed timer expires, and
the kernel finishes sending a request it has begun to send.  Nothing is assumed of
the callers of the pool, the logger and the scheduler (but `Schedule` returns once it has
added its task: nothing in it blocks), of the framework's owner, of input, signals, changes to the directory, the child
process, the exit, or of faults.  In `raid_liveness` a datagram may vanish;
fairness does not bring it back.

## The proofs

A theorem holds for every value of the constants that satisfies the named `ASSUME`s of
the module (TLC evaluates those in every run): any geometry, any set of requests,
threads, tasks or files, and any bounds on calls and faults.  One theorem needs more and
says so in its `ASSUME`: `DataSurvives`, that there are two minions.  Each inductive
invariant was also checked by TLC on the instance of the run it belongs to.  Every safety
invariant and action property of the passing runs has a theorem.

| Theorem | States, for every instance | Invariant |
|---|---|---|
| `StripeSplitterProofs`: `TypeCorrect`, `Placed`, `Partitioned` | `TypeOK`, `SegmentsPlaced`, `SegmentsPartition` | `LoopInv` |
| `LoopIsSplit` | `LoopComputesSplit` | `LoopInv`, `Follows` |
| `TicketProofs`: `TypeCorrect`, `WritePolicy`, `ReadPolicy`, `FailuresHaveCauses`, `NoMissedCompletion`, `Frozen` | `TypeOK`, `WriteAckedByBothMirrors`, `ReadServedByHealthyMirror`, `FailureHasCause`, `DoneWhenAnswered`, `FrozenAfterResult` | `TicketInv` |
| `RaidDriveProofs`: `TablesAlwaysAgree` | `TablesAgree` | `TablesInv` |
| `ResponsesAlwaysMatch` | `ResponseMatchesCallback` | `TablesInv`, `RoutesInv`, `OrderInv` |
| `UnitsStayMirrored` | `SettledUnitsAreMirrored` | `DriveInv`, `DataInv`, `HoldsInv`, `SurvivalInv` |
| `DataSurvives` | `AckedDataSurvives`, if `NumMinions > 1` | the same |
| `DriveIsABlockDevice` | `ImplementsBlockDevice`, the refinement of `BlockDevice` | the same |
| `NBDSessionProofs`: `RequestsAlwaysFramed` | `RequestsFramed` | `FrameInv` |
| `RepliesAlwaysMatch` | `RepliesMatch` | `RepliesInv` |
| `HandlerNeverUsesClosed` | `HandlerUsesOpenDevice` | `HandlerInv` |
| `MessagesProofs`: `RoundTrip` | a datagram is accepted exactly if it is smaller than the buffer, and is then decoded to what was sent | none needed |
| `NothingEverCorrupted` | `NothingCorrupted` | `MessagesInv` |
| `QueueProofs`: `ThreadsAlwaysBalance`, `PausedStartsNothing` | `ThreadsBalance`, `NoStartWhilePaused` | `PoolInv` |
| `LoggerLosesNothing` | `NothingLost` | `LoggerInv` |
| `AsyncInjectionProofs`: `QueueAlwaysWatched`, `DestroyedNeverUsed`, `TasksRunWhenDue` | `QueueIsWatched`, `DestroyedUnused`, `RunsWhenDue` | `SchedulerInv` |
| `PollsAlwaysSerial` | `PollsAreSerial` | `SchedulerInv`, `InjectionInv` |
| `FrameworkProofs`: `PluginsAlwaysMapped` | `PluginsMapped` | `PluginsInv` |
| `MonitorAlwaysSurvives` | `MonitorSurvives` | `PluginsInv`, `EventsInv` |

The theorems about `RaidDrive` hold for every workload, so also for requests that cross
chunks and for units that share places, and for any number of restarts, lost and repeated
datagrams, failing file operations and throwing `SendTo`s.  A drive of one minion keeps
both copies of a unit at one place, so nothing survives its restart: that is the one
hypothesis of `DataSurvives`.

### The invariants, and why they are needed

* **`StripeSplitter`**.  `LoopInv` adds to the properties `Progress`: `currentOffset` is
  `offset + bufferOffset`, `bufferOffset` and what remains add up to the request,
  `bufferOffset` is the end of the last segment, the range has been validated once the
  loop runs, and nothing remains when it is done.  The properties alone do not relate the
  loop's variables to the list.  `Follows` relates the loop to the closed form `Split`
  that `RaidDrive` uses: iteration *i* has appended segment *i*; while something remains,
  the loop stands at the start of the next segment, in the chunk that follows; when
  nothing remains, the number of segments is that of `Split`.  The arithmetic is isolated
  in `DivMod`, `DivUnique`, `TimesMonotone`, `DivBound` and `SegmentFits`, because the
  solver does not reason about division by a variable.
* **`Ticket`**.  `TicketInv`: the ticket has notified exactly when it is completed, what it
  has notified is the result its records determine, its records equal the mirrors' answers
  while it is open and are part of them afterwards, and an open ticket is unresolved.  The
  last is what makes completion impossible to miss, and is not visible in any property.
* **`RaidDrive`** is proved in layers.  `DriveInv` is the first five of these:
  * `TablesInv` follows each request through its life: a task before a ticket, a ticket
    before commands, no reply before a ticket.
  * `RoutesInv` ties every command, answer and callback to one call of its request.
  * `OrderInv`: calls are made in order and each takes the entry of the one before, so no
    datagram ever finds the callback of an earlier call than its own.
  * `TicketsInv` says what shape a ticket of any number of segments has, that it is
    complete exactly when the kernel has its reply, and that it has no record for a call
    that is still to be made.
  * `KernelInv`: outstanding requests do not conflict, and what a write in flight brings,
    to its own units and those that share their places, may be read.

  `DataInv` says that all bytes about are values of `BlockDevice`; the buffers of requests
  that cross need no more.  `HoldsInv` is what the minions vouch for: every copy that is
  not damaged holds a value that may be read, and each success with which a minion has
  answered an outstanding request of `Promised`, in the network or in a ticket, is still
  true, that is, the minion still holds what was written or something that `Settled`
  allows over it, or was damaged since, or has returned what may be read.  The difficult
  step is the acknowledgement: it shrinks `allowed`, and both mirrors' records have to say
  that the smaller set still covers their files, also when a write to a shared place has
  come in between (which is why `Settled` keeps the writes that were not over when the
  acknowledged one was issued, `before`).  These give mirroring and the refinement: the
  reply a ticket makes is one `BlockDevice` allows, and every other step leaves the
  kernel's view alone or is `Damage`.

  `SurvivalInv` bounds the damage.  A minion is `Reliable` if none of its copies is
  damaged, nothing that concerns it is under way twice, and each datagram of its is
  `Fresh`: the ticket still lacks the record of that call, or of an earlier call to the
  same minion whose callback was lost to this one.  A fresh write command belongs to an
  unanswered request, so running it damages nothing.  Without restarts and repeated
  datagrams every minion is reliable, with one such incident all but one are, and every
  unit is kept by two.
* **`NBDSession`**.  What `Receive` holds, what is in the socket and what the kernel has
  still to put form one stream, and `FrameInv` says that it is whole messages, one after
  the other, and how far into the first `Receive` has come.  No step changes the stream
  except at its ends.  `RepliesInv` adds that a request is in exactly one place (in the
  stream, in hand, worked on, being answered, answered) and, unless the counter was put
  back, that uids given out lie below it and lead to the handle of their request.
* **`Messages`**.  Layout first: `HoldsAt(buffer, at, bytes)` says that a buffer holds these
  bytes from a place on, and one lemma per class says where `ToBuffer` puts each field.
  A number or the data is read back from where it is held (`NumberReadBack`), whatever
  follows it.  `ReceiveFrom` copies what fits over what the stack held; `Accepted` compares
  the size it returns with the one the header announces, and a datagram as long as the
  buffer or longer is refused, because `recvfrom` is asked for one byte less.
  Together: `RoundTrip`.  `MessagesInv` then says that every datagram under way is the
  encoding of a command that was sent or of an answer that was given, and that messages
  and buffers have the form the lemmas need; `NothingCorrupted` alone says nothing of the
  datagrams that have not arrived yet.
* **`ThreadPool`**.  `PoolInv` counts.  `Balanced`: the threads that still take tasks are
  `m_total_threads` and one for each queued end task, less what a running `SetNumThreads`
  has still to add or to end.  `PauseTokens`: every pause task that was pushed is in the
  queue, with a thread, or a token that `Pause` has still to acquire.  `PauseWaits`: a
  thread waits for every token; so that, once `Pause` has returned, the threads that do
  not wait are as many as there are end tasks.  Such a thread that pops therefore finds a
  task of critical priority on top (`EndOnTop`), which is `NoStartWhilePaused`.  The proof
  needs the queue's top to exist and to be maximal (`TopInQueue`), from the least element
  of a set of numbers (`LeastNat`), and that a push, a pop and a thread's move change each
  count by one.
* **`Logger`**.  What was pushed is the file, the message in the thread's hand and the
  queue, in this order; the thread returns only when `m_running` is cleared and the queue
  is empty, which is after the destructor's push.
* **`Scheduler`, `AsyncInjection`**.  A task is in one of three places; the counter counts
  two of them; an armed timer or the one waiting thread stands for an entry that is due no
  later; once the timer is deleted no thread comes to life.  For the injections: of the
  polls of one function at most one has still to call it, and none once it returned true.
* **`Framework`**.  `ThreadInv`: `Stop` clears `m_running` before it closes the descriptor
  and joins before the owner goes on.  `Mapped` and `CodeKnown`: a library has one handle
  exactly when it is in the loader's table, and creators and commands point into libraries
  that are mapped or were closed.  `EventsInv`: unless a change came that the monitor
  cannot cope with, every event still to be handled can be, when its turn comes.

### Only model-checked

* Liveness under fairness, and everything about `ENABLED`, is out of the prover's reach:
  `EveryRequestAnswered`, `RequestsAnswered`, `FittingIsAnswered`, `PauseReturns`,
  `DestructorJoins`, `UserTasksRun`, `EverythingWritten`, `DestructorReturns`,
  `EveryTaskRuns`, `InjectionsEnd`, `PluginsGetLoaded`, `StopReturns`.

## Not modelled

* **Handleton, Singleton**: lazy construction behind `call_once`; the models take
  every singleton as constructed.  The race on `m_handletons` is inside the standard
  library's table, and `Singleton` has no user in the drive.
* **Dispatcher**: modelled where callbacks die while their dispatcher may notify
  (`DirMonitor`); the tickets' dispatchers are calls in `RaidDrive`.  That one callback
  is registered with many of them matters when `ResponseManager` dies before its
  tickets, which does not happen before the process exits.
* **MinionManager**'s destructor: it stops a reactor and joins its thread, which is
  the `Stop` against a blocked `select` of `Framework`.
* **WaitableQueue**'s `Pop` with a timeout, **Reactor**'s `Unregister`: no caller.
* **Sockets**: opening and closing; `TCPClient::Send`, which runs under `NBDProxy`'s
  mutex and is part of `OnNBDResponse`.  `TCPClient::Receive` throws (71-82) only once
  the device no longer runs; an error of `recv` before that does not occur on the
  socket pair, and `EINTR` is retried, which is no step.
* **NBD**: what makes `NBD_DO_IT` return, and so `waitpid` in the destructor, is the
  kernel's; the model leaves it open.  The signal handler logs, and may interrupt a
  thread that holds the logger's mutex: no module has both.  `FLUSH` and `TRIM` share
  the case of `DISC`, and the device announces no flags that would bring them.
* The size checks of the proxies in `RaidDrive`, which passes decoded fields; they are
  in `Messages`, for one minion.  Uids are distinct in `RaidDrive`; `NBDSession` has
  the counter.
* Integer overflow in `ValidateRange`: the kernel keeps requests inside the device.

## What is left

Every safety property of the runs has its theorem, without hypotheses on the workload or
the faults.  What `BlockDevice` gives up, shared places and crossing requests, is what the
code gives up: a callback table keyed by segment and role would make `Promised` the whole
workload, and separate areas for primary and backup data would make `Sharing` empty.  Calls of the pool's `Pause`, `Resume` and
`SetNumThreads` by several threads at a time are not modelled, nor does the repository
make any.
