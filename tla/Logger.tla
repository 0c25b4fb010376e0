-------------------------------- MODULE Logger --------------------------------
(***************************************************************************)
(* The asynchronous logger: threads of the program push messages into a    *)
(* WaitableQueue, one logger thread pops and writes them, and the          *)
(* destructor pushes a last message, clears m_running and joins the        *)
(* thread.  m_running is a plain bool that the destructor writes and the   *)
(* logger thread reads: each access is a step of its own.                  *)
(***************************************************************************)
EXTENDS Integers, Sequences

SequenceOps == INSTANCE SequencesExt

CONSTANTS Clients,          \* threads that log
          MaxMessages       \* bound: messages logged by one client

ASSUME LoggerAssumption == MaxMessages \in Nat

VARIABLES
    m_queue, m_running,
    pc,             \* the logger thread: "running", "empty", "pop", "write", "returned"
    log,            \* the message LoggerRun holds
    file,           \* the lines written to logger.txt
    logged,         \* [Clients -> messages logged by it]
    pushed,         \* every message ever pushed, in order
    dtor            \* "none", "pushed", "cleared", "joined"

loggerVars == <<m_queue, m_running, pc, log, file, logged, pushed, dtor>>

ShutDown == <<"destructor", 1>>

LoggerInit ==
    /\ m_queue = << >> /\ m_running = TRUE
    /\ pc = "running" /\ log = ShutDown
    /\ file = << >> /\ pushed = << >>
    /\ logged = [c \in Clients |-> 0]
    /\ dtor = "none"

Push(message) ==
    /\ m_queue' = Append(m_queue, message)
    /\ pushed' = Append(pushed, message)

Log(c) ==
    /\ dtor = "none"
    /\ logged[c] < MaxMessages
    /\ logged' = [logged EXCEPT ![c] = @ + 1]
    /\ Push(<<c, logged[c] + 1>>)
    /\ UNCHANGED <<m_running, pc, log, file, dtor>>

\* A slip: m_running is not tested.
TestRunningDropped ==
    /\ pc = "running"
    /\ pc' = "empty"
    /\ UNCHANGED <<m_queue, m_running, log, file, logged, pushed, dtor>>

\* The loop's condition, m_running || !m_queue.IsEmpty(): IsEmpty is called only
\* when m_running is found FALSE.
TestRunning ==
    /\ pc = "running"
    /\ pc' = IF m_running THEN "pop" ELSE "empty"
    /\ UNCHANGED <<m_queue, m_running, log, file, logged, pushed, dtor>>

\* A slip: the queue is not tested.
TestEmptyNever ==
    /\ pc = "empty"
    /\ pc' = "returned"
    /\ UNCHANGED <<m_queue, m_running, log, file, logged, pushed, dtor>>

TestEmpty ==
    /\ pc = "empty"
    /\ pc' = IF m_queue = << >> THEN "returned" ELSE "pop"
    /\ UNCHANGED <<m_queue, m_running, log, file, logged, pushed, dtor>>

PopMessage ==
    /\ pc = "pop"
    /\ m_queue # << >>
    /\ log' = Head(m_queue)
    /\ m_queue' = Tail(m_queue)
    /\ pc' = "write"
    /\ UNCHANGED <<m_running, file, logged, pushed, dtor>>

LogMessageTask ==
    /\ pc = "write"
    /\ file' = Append(file, log)
    /\ pc' = "running"
    /\ UNCHANGED <<m_queue, m_running, log, logged, pushed, dtor>>

DestructorPush ==
    /\ dtor = "none"
    /\ Push(ShutDown)
    /\ dtor' = "pushed"
    /\ UNCHANGED <<m_running, pc, log, file, logged>>

\* A slip: m_running is not cleared.
DestructorWithoutClear ==
    /\ dtor = "pushed"
    /\ dtor' = "cleared"
    /\ UNCHANGED <<m_queue, m_running, pc, log, file, logged, pushed>>

DestructorClear ==
    /\ dtor = "pushed"
    /\ m_running' = FALSE
    /\ dtor' = "cleared"
    /\ UNCHANGED <<m_queue, pc, log, file, logged, pushed>>

DestructorJoin ==
    /\ dtor = "cleared"
    /\ pc = "returned"
    /\ dtor' = "joined"
    /\ UNCHANGED <<m_queue, m_running, pc, log, file, logged, pushed>>

LoggerRun == TestRunning \/ TestEmpty \/ PopMessage \/ LogMessageTask

Destructor == DestructorPush \/ DestructorClear \/ DestructorJoin

LoggerNext == LoggerRun \/ Destructor \/ \E c \in Clients : Log(c)

\* The logger thread runs, and a destructor that has begun goes on.
LoggerFairness == WF_loggerVars(LoggerRun) /\ WF_loggerVars(DestructorClear \/ DestructorJoin)

LoggerSpec == LoggerInit /\ [][LoggerNext]_loggerVars /\ LoggerFairness

-------------------------------------------------------------------------------
Messages == (Clients \X (1..MaxMessages)) \cup {ShutDown}

LoggerTypeOK ==
    /\ m_queue \in Seq(Messages) /\ file \in Seq(Messages) /\ pushed \in Seq(Messages)
    /\ m_running \in BOOLEAN
    /\ pc \in {"running", "empty", "pop", "write", "returned"}
    /\ log \in Messages
    /\ logged \in [Clients -> 0..MaxMessages]
    /\ dtor \in {"none", "pushed", "cleared", "joined"}

\* The file holds the messages in the order they were pushed, and all of them
\* when the destructor returns: nothing queued at shutdown is lost.
NothingLost ==
    /\ LoggerTypeOK
    /\ SequenceOps!IsPrefix(file, pushed)
    /\ dtor = "joined" => file = pushed

\* Every message is written in the end, also while nobody logs any more.
EverythingWritten == []<>(file = pushed)

\* The destructor, once it has cleared m_running, returns.  The exception is known:
\* its own message may have been popped before m_running is cleared, and the logger
\* thread then waits in Pop for a message nobody will push.
DestructorReturns ==
    (dtor = "cleared" /\ ~(pc = "pop" /\ m_queue = << >>)) ~> dtor = "joined"
===============================================================================
