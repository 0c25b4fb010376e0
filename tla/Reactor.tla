-------------------------------- MODULE Reactor --------------------------------
(***************************************************************************)
(* The reactor: a map from descriptors to callbacks, and a loop that waits *)
(* in select until a registered descriptor is ready and calls the          *)
(* callbacks of all that are.  Stop only clears m_running, which the loop  *)
(* tests between two rounds.  What a callback does is up to its user, see  *)
(* Framework.                                                              *)
(***************************************************************************)
EXTENDS Integers, FiniteSets

CONSTANTS Fds

VARIABLES
    m_listen_funcs,     \* descriptors with a callback
    ready,              \* descriptors that select would report
    reactor_running,    \* m_running
    reactor,            \* where Run is: "idle", "test", "select", "call", "returned", "threw"
    fd_list,            \* the descriptors handed to select
    selected            \* those it returned and Run has still to call

reactorVars == <<m_listen_funcs, ready, reactor_running, reactor, fd_list, selected>>

ReactorInit ==
    /\ m_listen_funcs = Fds
    /\ ready = {}
    /\ reactor_running = FALSE
    /\ reactor = "idle"
    /\ fd_list = {} /\ selected = {}

\* A descriptor becomes ready.
Arrive(fd) ==
    /\ fd \notin ready /\ reactor \notin {"returned", "threw"}
    /\ ready' = ready \cup {fd}
    /\ UNCHANGED <<m_listen_funcs, reactor_running, reactor, fd_list, selected>>

ReactorRun ==
    /\ reactor = "idle"
    /\ reactor_running' = TRUE
    /\ reactor' = "test"
    /\ UNCHANGED <<m_listen_funcs, ready, fd_list, selected>>

\* The loop's condition; a new round collects the registered descriptors.
ReactorTest ==
    /\ reactor = "test"
    /\ IF reactor_running
       THEN reactor' = "select" /\ fd_list' = m_listen_funcs
       ELSE reactor' = "returned" /\ UNCHANGED fd_list
    /\ UNCHANGED <<m_listen_funcs, ready, reactor_running, selected>>

\* LinuxListener::Listen: select blocks until a descriptor of the list is ready.
Listen ==
    /\ reactor = "select"
    /\ fd_list \cap ready # {}
    /\ selected' = fd_list \cap ready
    /\ reactor' = "call"
    /\ UNCHANGED <<m_listen_funcs, ready, reactor_running, fd_list>>

\* select is interrupted by a signal handler: SA_RESTART does not restart it, and
\* Listen throws.
ListenInterrupted ==
    /\ reactor = "select"
    /\ reactor' = "threw"
    /\ UNCHANGED <<m_listen_funcs, ready, reactor_running, fd_list, selected>>

\* The callback of fd is looked up and returns, having read what made fd ready; after
\* the last one the round is over.
CallReturns(fd) ==
    /\ reactor = "call"
    /\ fd \in selected
    /\ selected' = selected \ {fd}
    /\ ready' = ready \ {fd}
    /\ reactor' = IF selected' = {} THEN "test" ELSE "call"
    /\ UNCHANGED <<m_listen_funcs, fd_list>>

\* The callback throws, out of Run.
CallThrows(fd) ==
    /\ reactor = "call"
    /\ fd \in selected
    /\ reactor' = "threw"
    /\ ready' = ready \ {fd}
    /\ UNCHANGED <<m_listen_funcs, reactor_running, fd_list, selected>>

ReactorTypeOK ==
    /\ m_listen_funcs \subseteq Fds /\ ready \subseteq Fds
    /\ fd_list \subseteq Fds /\ selected \subseteq Fds
    /\ reactor_running \in BOOLEAN
    /\ reactor \in {"idle", "test", "select", "call", "returned", "threw"}
===============================================================================
