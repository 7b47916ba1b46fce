------------------------------ MODULE AsyncApp ------------------------------
(***************************************************************************)
(* async-server-app/async-server-main.c: the program around the            *)
(* asynchronous server, from the creation of the listening socket to the   *)
(* end of the process.  Two builds: with CH_ASYNC_SINGLE_THREAD (the       *)
(* default) main runs one server itself; without it main creates the       *)
(* socket and several threads each run a server, with a reactor of its     *)
(* own, on that one socket.                                                *)
(*                                                                         *)
(* The loops compete for the connections of the shared backlog, and SIGINT *)
(* ends at most one of them: the signal handler only returns, so the       *)
(* signal is felt where it interrupts epoll_wait (EINTR, reactor.c:221)    *)
(* and is lost everywhere else.  A connection, once accepted, is           *)
(* AsyncServer.tla's matter and is not followed here.                      *)
(***************************************************************************)
EXTENDS Naturals, FiniteSets

CONSTANTS Loops,        \* the threads that can run a server
          MainLoop,     \* the one of them that is main, in the single build
          MaxConnects,  \* connections the clients make
          MaxSignals    \* SIGINTs that are sent

ASSUME AsyncAppAssumption ==
    /\ IsFiniteSet(Loops)
    /\ MainLoop \in Loops
    /\ MaxConnects \in Nat
    /\ MaxSignals \in Nat

VARIABLES build,        \* "single" or "multi"
          lsock,        \* what has been done to the listening socket
          thread,       \* where each thread is in thread_function
          server_ptr,   \* ctx->server_ptr: "NULL", "live" or "dangling"
          freed,        \* how often the server of each thread was freed
          connects,     \* connections made so far
          backlog,      \* connections waiting to be accepted
          signals,      \* SIGINTs sent so far
          process       \* "start", "running", "exited", "aborted"; "off": it does not run

appVars == <<build, lsock, thread, server_ptr, freed, connects, backlog,
             signals, process>>

\* The threads that run a server in this build.
Active == IF build = "single" THEN {MainLoop} ELSE Loops

Running(t) == thread[t] \in {"waiting", "event", "blocked"}

\* main's options: the build fixes the number of loops, signal() installs
\* the handler before anything else.
AppInit ==
    /\ build \in {"single", "multi"}
    /\ lsock = {}
    /\ thread = [t \in Loops |-> "new"]
    /\ server_ptr = [t \in Loops |-> "NULL"]
    /\ freed = [t \in Loops |-> 0]
    /\ connects = 0
    /\ backlog = 0
    /\ signals = 0
    /\ process \in {"start", "off"}

-----------------------------------------------------------------------------
\* async_socket.c.  Every call is asserted to succeed; the one that can fail
\* on a healthy system is bind (BindFails).  async_socket_create has no
\* return statement: the debug build leaves the descriptor in the register
\* its caller reads.
async_socket_create == {"created"}
async_socket_set_reuseaddr(s) == s \cup {"reuseaddr"}
async_socket_set_reuseport(s) == s \cup {"reuseport"}
async_socket_set_nonblocking(s) == s \cup {"nonblocking"}
async_socket_bind(s) == s \cup {"bound"}
async_socket_listen(s) == s \cup {"listening"}

async_create_shareable_socket ==
    async_socket_set_nonblocking(
        async_socket_set_reuseport(
            async_socket_set_reuseaddr(async_socket_create)))

\* AsyncServer_init: the socket of a server that makes its own.
AsyncServer_init ==
    async_socket_listen(async_socket_bind(async_create_shareable_socket))

\* AsyncServer_init_with_socket, called by both constructors: the server of
\* thread t exists and refers to the listening socket, which it does not own.
AsyncServer_init_with_socket(t) ==
    server_ptr' = [server_ptr EXCEPT ![t] = "live"]

\* AsyncServer_start registers the listener with the reactor of thread t, the
\* listen call that follows in main and in thread_function is a repetition,
\* and the loop goes to its first epoll_wait.
AsyncServer_start(t) == thread' = [thread EXCEPT ![t] = "waiting"]

-----------------------------------------------------------------------------
\* main of the single threaded build, up to the loop.
StartSingle ==
    /\ process = "start"
    /\ build = "single"
    /\ lsock' = AsyncServer_init
    /\ AsyncServer_init_with_socket(MainLoop)
    /\ AsyncServer_start(MainLoop)
    /\ process' = "running"
    /\ UNCHANGED <<build, freed, connects, backlog, signals>>

\* main of the multi threaded build, up to the joins.
StartMulti ==
    /\ process = "start"
    /\ build = "multi"
    /\ lsock' = async_socket_listen(
                    async_socket_bind(async_create_shareable_socket))
    /\ thread' = [t \in Loops |-> "setup"]
    /\ process' = "running"
    /\ UNCHANGED <<build, server_ptr, freed, connects, backlog, signals>>

\* The port is taken by another program: the assertion ends the process.
BindFails ==
    /\ process = "start"
    /\ process' = "aborted"
    /\ UNCHANGED <<build, lsock, thread, server_ptr, freed, connects, backlog,
                   signals>>

\* thread_function up to the loop.
thread_function(t) ==
    /\ process = "running"
    /\ thread[t] = "setup"
    /\ AsyncServer_init_with_socket(t)
    /\ AsyncServer_start(t)
    /\ lsock' = async_socket_listen(lsock)
    /\ UNCHANGED <<build, freed, connects, backlog, signals, process>>

\* A client connects.
ClientConnects ==
    /\ process = "running"
    /\ "listening" \in lsock
    /\ connects < MaxConnects
    /\ connects' = connects + 1
    /\ backlog' = backlog + 1
    /\ UNCHANGED <<build, lsock, thread, server_ptr, freed, signals, process>>

\* Faulty form: edge triggered, so that a second connection that comes before
\* the first was accepted is not told of.
WaitReturnsAtEdge(t) ==
    /\ process = "running"
    /\ thread[t] = "waiting"
    /\ backlog = 1
    /\ thread' = [thread EXCEPT ![t] = "event"]
    /\ UNCHANGED <<build, lsock, server_ptr, freed, connects, backlog,
                   signals, process>>

\* epoll_wait of thread t returns because of the backlog.  The listener is
\* level triggered, and EPOLLEXCLUSIVE promises that at least one waiter is
\* woken, not that only one is.
WaitReturns(t) ==
    /\ process = "running"
    /\ thread[t] = "waiting"
    /\ backlog > 0
    /\ thread' = [thread EXCEPT ![t] = "event"]
    /\ UNCHANGED <<build, lsock, server_ptr, freed, connects, backlog,
                   signals, process>>

\* on_event_listening accepts one connection.  When another loop has taken
\* the last one, accept fails with EAGAIN and the handler returns; on a
\* blocking socket it would wait there.  Any other error (a connection aborted
\* in the backlog, no descriptor left) fails the assertion: the process ends,
\* and all its loops with it.
on_event_listening(t) ==
    /\ process = "running"
    /\ thread[t] = "event"
    /\ \/ /\ backlog > 0
          /\ backlog' = backlog - 1
          /\ thread' = [thread EXCEPT ![t] = "waiting"]
          /\ UNCHANGED process
       \/ /\ backlog = 0
          /\ thread' = [thread EXCEPT ![t] =
                           IF "nonblocking" \in lsock THEN "waiting"
                                                      ELSE "blocked"]
          /\ UNCHANGED <<backlog, process>>
       \/ /\ process' = "aborted"
          /\ UNCHANGED <<backlog, thread>>
    /\ UNCHANGED <<build, lsock, server_ptr, freed, connects, signals>>

\* SIGINT, delivered to thread t: sig_handler returns at once, and only an
\* epoll_wait it interrupted takes notice, by leaving the loop.
sig_handler(t) ==
    /\ process = "running"
    /\ signals < MaxSignals
    /\ signals' = signals + 1
    /\ thread' = [thread EXCEPT ![t] = IF @ = "waiting" THEN "interrupted" ELSE @]
    /\ UNCHANGED <<build, lsock, server_ptr, freed, connects, backlog, process>>

\* Faulty form of AsyncServer_dispose: the whole of AsyncServer_destroy, which
\* closes the listening socket.
AsyncServer_dispose_closing(t) ==
    /\ freed' = [freed EXCEPT ![t] = @ + 1]
    /\ server_ptr' = [server_ptr EXCEPT ![t] = "NULL"]
    /\ lsock' = lsock \cup {"closed"}

\* AsyncServer_dispose frees the struct and clears the pointer.  It does not
\* call AsyncServer_destroy: listener, reactor, handler list and the socket
\* stay.
AsyncServer_dispose(t) ==
    /\ freed' = [freed EXCEPT ![t] = @ + 1]
    /\ server_ptr' = [server_ptr EXCEPT ![t] = "NULL"]
    /\ UNCHANGED lsock

\* The end of thread_function, and of main in the single threaded build.
LoopReturns(t) ==
    /\ process = "running"
    /\ thread[t] = "interrupted"
    /\ AsyncServer_dispose(t)
    /\ thread' = [thread EXCEPT ![t] = "ended"]
    /\ process' = IF build = "single" THEN "exited" ELSE process
    /\ UNCHANGED <<build, connects, backlog, signals>>

\* The end of main in the multi threaded build: all threads are joined and
\* the first server_ptr is disposed of.  The thread has left it NULL and
\* CHECK_TAG reads through it.
main_disposes ==
    /\ process = "running"
    /\ build = "multi"
    /\ \A t \in Loops : thread[t] = "ended"
    /\ IF server_ptr[MainLoop] = "NULL"
       THEN UNCHANGED <<server_ptr, freed, lsock>>
       ELSE AsyncServer_dispose(MainLoop)
    /\ process' = IF server_ptr[MainLoop] = "NULL" THEN "aborted" ELSE "exited"
    /\ UNCHANGED <<build, thread, connects, backlog, signals>>

AppNext ==
    \/ StartSingle \/ StartMulti \/ BindFails \/ ClientConnects \/ main_disposes
    \/ \E t \in Loops :
          \/ thread_function(t)
          \/ WaitReturns(t)
          \/ on_event_listening(t)
          \/ sig_handler(t)
          \/ LoopReturns(t)

AppSpec == AppInit /\ [][AppNext]_appVars

\* A thread that can run is scheduled.
AppFairness ==
    \A t \in Loops :
        WF_appVars(WaitReturns(t) \/ on_event_listening(t) \/ LoopReturns(t))

-----------------------------------------------------------------------------
\* No loop is ever held in accept: of the loops that epoll woke for one
\* connection all but one find the backlog empty, and return to their other
\* connections because async_create_shareable_socket made the descriptor
\* non-blocking (async_socket.c:138, async_server.c:192).
LoopsNeverBlock == \A t \in Loops : thread[t] # "blocked"

\* As long as a loop runs, its server exists and the shared socket listens
\* and is open, whichever other loops have been interrupted and have disposed
\* of their servers (async_server.c:112).
LoopKeepsItsSocket ==
    \A t \in Loops : Running(t) =>
        /\ server_ptr[t] = "live"
        /\ "listening" \in lsock
        /\ "closed" \notin lsock

\* No server is freed twice: not by the thread and then by main, which
\* disposes of every entry of thread_table again (async-server-main.c:96-99).
ServerFreedOnce == \A t \in Loops : freed[t] <= 1

\* A connection in the backlog is accepted as long as a loop is left to
\* accept it, however the loops race for it and whichever of them a SIGINT
\* interrupts.  Only an accept that fails with another error than EAGAIN ends
\* the process while loops still run, and with connections still waiting
\* (async_server.c:201-208).
BacklogDrained ==
    (process = "running" /\ backlog > 0 /\ \E t \in Active : Running(t))
        ~> \/ backlog = 0
           \/ \A t \in Active : ~Running(t)
           \/ process = "aborted"

\* Whatever the other loops do, win or lose a connection, are interrupted or
\* dispose of their servers, a loop that runs can serve.
LoopsKeepServing == LoopsNeverBlock /\ LoopKeepsItsSocket /\ ServerFreedOnce
=============================================================================
