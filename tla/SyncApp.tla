------------------------------- MODULE SyncApp -------------------------------
(***************************************************************************)
(* sync_server_app/sync_server_app.c, sync/sync_server.c and the outer     *)
(* loop of sync/worker.c: how the synchronous server starts, and how it    *)
(* ends when SIGINT calls sync_server_terminate.                           *)
(*                                                                         *)
(* Two builds.  With SYNC_WORKER_QUEUE main accepts and hands the sockets  *)
(* to the workers through a Queue, and the entry -1 tells one worker to    *)
(* end.  Without it (the default) the workers accept themselves, qref is   *)
(* never assigned, and every use of it is undefined: here the process      *)
(* dies, which is what a wild pointer does.  SyncServer.tla has what that  *)
(* build's workers do with a connection.                                   *)
(*                                                                         *)
(* A call of Queue_add or Queue_remove is two steps: to take the mutex     *)
(* once there is space or an entry, and to change the queue and unlock     *)
(* (Queue.tla shows that the calls are a bounded FIFO).  The interval      *)
(* between them matters because the signal handler runs on top of a        *)
(* thread that may be inside it.                                           *)
(***************************************************************************)
EXTENDS Naturals, Sequences, FiniteSets

CONSTANTS Workers,      \* the worker threads
          Main,         \* the main thread
          Conns,        \* connections that clients make, once each
          Terminate,    \* the queue entry -1
          NoOne,        \* no thread
          Capacity      \* of the queue

ASSUME SyncAppAssumption ==
    /\ IsFiniteSet(Workers)
    /\ Main \notin Workers
    /\ Terminate \notin Conns
    /\ NoOne \notin Workers \cup {Main}
    /\ Capacity \in Nat \ {0}

VARIABLES sbuild,       \* "queue" or "accept"
          lopen,        \* the listening socket is open
          waiting,      \* connections in the listen backlog
          queue,        \* the entries of qref
          mutex,        \* the thread that holds qref's mutex
          at,           \* at[t]: where thread t is
          sock,         \* sock[t]: the socket thread t has in hand
          interrupt,    \* the running sig_handler: its thread, -1s left to add
          signalled,    \* the SIGINT was sent
          served,       \* connections a worker has finished with
          early,        \* connections queued before the first -1
          sstatus       \* of the process: "running", "exited", "left" by a failed start,
                        \* "aborted", or "off": the program does not run

syncVars == <<sbuild, lopen, waiting, queue, mutex, at, sock, interrupt,
              signalled, served, early, sstatus>>

SyncThreads == Workers \cup {Main}

SyncAppInit ==
    /\ sbuild \in {"queue", "accept"}
    /\ lopen = FALSE
    /\ waiting = Conns
    /\ queue = << >>
    /\ mutex = NoOne
    /\ at = [t \in SyncThreads |-> IF t = Main THEN "new" ELSE "none"]
    /\ sock = [t \in SyncThreads |-> Terminate]
    /\ interrupt = [thread |-> NoOne, left |-> 0]
    /\ signalled = FALSE
    /\ served = {}
    /\ early = {}
    /\ sstatus \in {"running", "off"}

\* Thread t executes its own code, not the signal handler.
ThreadAt(t, place) ==
    /\ sstatus = "running"
    /\ interrupt.thread # t
    /\ at[t] = place

Goto(t, place) == at' = [at EXCEPT ![t] = place]

-----------------------------------------------------------------------------
\* sync_server_new; main then stores the server in g_sref.
sync_server_new ==
    /\ ThreadAt(Main, "new")
    /\ Goto(Main, "listen")
    /\ UNCHANGED <<sbuild, lopen, waiting, queue, mutex, sock, interrupt,
                   signalled, served, early, sstatus>>

\* create_listener_socket returns a listening socket or fails an assertion.
sync_create_listener_socket(bound) ==
    /\ lopen' = bound
    /\ sstatus' = IF bound THEN sstatus ELSE "aborted"

\* sync_server_listen up to the loop that starts the workers.
sync_server_listen ==
    /\ ThreadAt(Main, "listen")
    /\ \E bound \in BOOLEAN : sync_create_listener_socket(bound)
    /\ Goto(Main, "starting")
    /\ UNCHANGED <<sbuild, waiting, queue, mutex, sock, interrupt, signalled,
                   served, early>>

\* The worker's loop begins with what its build waits for.
sync_worker_new == IF sbuild = "queue" THEN "remove" ELSE "accept"

\* One turn of that loop: the next worker is made and its thread started.  After
\* the last one main accepts connections, or joins the workers.
sync_worker_start(w) ==
    /\ ThreadAt(Main, "starting")
    /\ at[w] = "none"
    /\ at' = [at EXCEPT ![w] = sync_worker_new,
                        ![Main] = IF \A v \in Workers \ {w} : at[v] # "none"
                                  THEN (IF sbuild = "queue" THEN "accept" ELSE "join")
                                  ELSE @]
    /\ UNCHANGED <<sbuild, lopen, waiting, queue, mutex, sock, interrupt,
                   signalled, served, early, sstatus>>

\* pthread_create fails: sync_server_listen returns, and main ends the process
\* with whatever its other workers are doing.
WorkerStartFails ==
    /\ ThreadAt(Main, "starting")
    /\ sstatus' = "left"
    /\ UNCHANGED <<sbuild, lopen, waiting, queue, mutex, at, sock, interrupt,
                   signalled, served, early>>

\* accept in main (queue build) or in a worker.  A worker goes on to serve.  The
\* backlog is a queue of clients that are all alike: some fixed order will do.
AcceptConnection(t) ==
    /\ ThreadAt(t, "accept") \/ ThreadAt(t, "in_accept")
    /\ lopen \/ at[t] = "in_accept"
    /\ \E c \in waiting :
          /\ c = CHOOSE first \in waiting : TRUE
          /\ waiting' = waiting \ {c}
          /\ sock' = [sock EXCEPT ![t] = c]
          /\ Goto(t, IF t = Main THEN "add" ELSE "serve")
    /\ UNCHANGED <<sbuild, lopen, queue, mutex, interrupt, signalled, served,
                   early, sstatus>>

\* An accept that fails ends the loop of main, and the joins follow: for want
\* of a descriptor, say, or because the socket is closed, which main finds when
\* the handler that closed it interrupted its accept, which the kernel restarts,
\* or when it comes back from Queue_add.
AcceptFails ==
    /\ ThreadAt(Main, "accept")
    /\ Goto(Main, "join")
    /\ UNCHANGED <<sbuild, lopen, waiting, queue, mutex, sock, interrupt,
                   signalled, served, early, sstatus>>

\* Queue_add takes the mutex and finds space.
AddLock ==
    /\ ThreadAt(Main, "add")
    /\ mutex = NoOne
    /\ Len(queue) < Capacity
    /\ mutex' = Main
    /\ Goto(Main, "adding")
    /\ UNCHANGED <<sbuild, lopen, waiting, queue, sock, interrupt, signalled,
                   served, early, sstatus>>

\* Queue_add stores the socket, and unlocks.
AddUnlock ==
    /\ ThreadAt(Main, "adding")
    /\ queue' = Append(queue, sock[Main])
    /\ early' = IF signalled THEN early ELSE early \cup {sock[Main]}
    /\ mutex' = NoOne
    /\ Goto(Main, "accept")
    /\ UNCHANGED <<sbuild, lopen, waiting, sock, interrupt, signalled, served,
                   sstatus>>

\* Queue_remove takes the mutex and finds an entry.
RemoveLock(w) ==
    /\ ThreadAt(w, "remove")
    /\ mutex = NoOne
    /\ queue # << >>
    /\ mutex' = w
    /\ Goto(w, "removing")
    /\ UNCHANGED <<sbuild, lopen, waiting, queue, sock, interrupt, signalled,
                   served, early, sstatus>>

\* Faulty form: the newest entry is removed.
RemoveUnlockNewest(w) ==
    /\ ThreadAt(w, "removing")
    /\ sock' = [sock EXCEPT ![w] = queue[Len(queue)]]
    /\ queue' = SubSeq(queue, 1, Len(queue) - 1)
    /\ mutex' = NoOne
    /\ Goto(w, IF queue[Len(queue)] = Terminate THEN "ended" ELSE "serve")
    /\ UNCHANGED <<sbuild, lopen, waiting, interrupt, signalled, served, early,
                   sstatus>>

\* Queue_remove takes the oldest entry out and unlocks; Worker_main ends on
\* -1 and serves any other socket.
RemoveUnlock(w) ==
    /\ ThreadAt(w, "removing")
    /\ sock' = [sock EXCEPT ![w] = Head(queue)]
    /\ queue' = Tail(queue)
    /\ mutex' = NoOne
    /\ Goto(w, IF Head(queue) = Terminate THEN "ended" ELSE "serve")
    /\ UNCHANGED <<sbuild, lopen, waiting, interrupt, signalled, served, early,
                   sstatus>>

\* Worker_main is done with a connection and goes back to its loop: the client
\* asked for that or has closed.  A client that goes on sending keep-alive
\* requests, or nothing, keeps the worker here.
Serve(w) ==
    /\ ThreadAt(w, "serve")
    /\ served' = served \cup {sock[w]}
    /\ Goto(w, IF sbuild = "queue" THEN "remove" ELSE "accept")
    /\ UNCHANGED <<sbuild, lopen, waiting, queue, mutex, sock, interrupt,
                   signalled, early, sstatus>>

\* The connection breaks before a request is complete: worker.c:120 asserts.
ServeFails(w) ==
    /\ ThreadAt(w, "serve")
    /\ sstatus' = "aborted"
    /\ UNCHANGED <<sbuild, lopen, waiting, queue, mutex, at, sock, interrupt,
                   signalled, served, early>>

\* sync_worker_join returns once the worker's thread has ended.
sync_worker_join(w) == at[w] = "ended"

\* All workers are joined and disposed of, Queue_dispose frees the queue and
\* main its server.
sync_server_listen_ends ==
    /\ ThreadAt(Main, "join")
    /\ \A w \in Workers : sync_worker_join(w)
    /\ sstatus' = "exited"
    /\ UNCHANGED <<sbuild, lopen, waiting, queue, mutex, at, sock, interrupt,
                   signalled, served, early>>

-----------------------------------------------------------------------------
\* SIGINT: thread t leaves its code for sig_handler, which enters
\* sync_server_terminate.  Before sync_server_new has returned g_sref is NULL,
\* and without a queue the first Queue_add follows a wild pointer.
sync_sig_handler(t) ==
    /\ sstatus = "running"
    /\ ~signalled
    /\ at[t] \notin {"none", "ended"}
    /\ signalled' = TRUE
    /\ IF sbuild = "queue" /\ at[Main] # "new"
       THEN /\ interrupt' = [thread |-> t, left |-> Cardinality(Workers)]
            /\ UNCHANGED sstatus
       ELSE /\ sstatus' = "aborted"
            /\ UNCHANGED interrupt
    /\ UNCHANGED <<sbuild, lopen, waiting, queue, mutex, at, sock, served, early>>

\* Faulty form: one -1 for all the workers.
TerminateAddsOnce ==
    /\ sstatus = "running"
    /\ interrupt.thread # NoOne
    /\ interrupt.left > 0
    /\ mutex = NoOne
    /\ Len(queue) < Capacity
    /\ queue' = Append(queue, Terminate)
    /\ interrupt' = [interrupt EXCEPT !.left = 0]
    /\ UNCHANGED <<sbuild, lopen, waiting, mutex, at, sock, signalled, served,
                   early, sstatus>>

\* One turn of sync_server_terminate's loop, a whole Queue_add of -1.  It
\* waits for the mutex and for space; when the thread it interrupted holds
\* the mutex, for ever.
TerminateAdds ==
    /\ sstatus = "running"
    /\ interrupt.thread # NoOne
    /\ interrupt.left > 0
    /\ mutex = NoOne
    /\ Len(queue) < Capacity
    /\ queue' = Append(queue, Terminate)
    /\ interrupt' = [interrupt EXCEPT !.left = @ - 1]
    /\ UNCHANGED <<sbuild, lopen, waiting, mutex, at, sock, signalled, served,
                   early, sstatus>>

\* The end of sync_server_terminate: the listening socket is closed and the
\* interrupted thread goes on.  An accept that is under way in another thread
\* keeps the socket: that call is not woken, and the next one fails.  Before
\* sync_server_listen has stored the socket nothing is closed.
TerminateCloses ==
    /\ sstatus = "running"
    /\ interrupt.thread # NoOne
    /\ interrupt.left = 0
    /\ lopen' = FALSE
    /\ interrupt' = [interrupt EXCEPT !.thread = NoOne]
    /\ \/ UNCHANGED at
       \/ interrupt.thread # Main /\ at[Main] = "accept" /\ Goto(Main, "in_accept")
    /\ UNCHANGED <<sbuild, waiting, queue, mutex, sock, signalled, served,
                   early, sstatus>>

WorkerRuns(w) == AcceptConnection(w) \/ RemoveLock(w) \/ RemoveUnlock(w)

WorkerSteps(w) == WorkerRuns(w) \/ Serve(w) \/ ServeFails(w)

MainSteps ==
    \/ sync_server_new \/ sync_server_listen
    \/ (\E w \in Workers : sync_worker_start(w)) \/ WorkerStartFails
    \/ AcceptConnection(Main) \/ AcceptFails
    \/ AddLock \/ AddUnlock \/ sync_server_listen_ends

SyncAppNext ==
    \/ MainSteps \/ TerminateAdds \/ TerminateCloses
    \/ \E w \in Workers : WorkerSteps(w)
    \/ \E t \in SyncThreads : sync_sig_handler(t)

SyncAppSpec == SyncAppInit /\ [][SyncAppNext]_syncVars

\* Threads and the signal handler are scheduled; a mutex and an entry that
\* are there again and again are obtained (strong fairness, as the wake-ups of
\* Queue.tla provide it).  How long a connection is served is up to its client.
SyncAppFairness ==
    /\ WF_syncVars(MainSteps) /\ SF_syncVars(AddLock)
    /\ SF_syncVars(TerminateAdds) /\ WF_syncVars(TerminateCloses)
    /\ \A w \in Workers :
          WF_syncVars(WorkerRuns(w)) /\ SF_syncVars(RemoveLock(w))

-----------------------------------------------------------------------------
\* The ways in which SIGINT fails to end the queue build: the handler waits
\* for the mutex its own thread holds; it waits for space and no other worker
\* is there to make it; main waits for space and no worker is left; main waits
\* in an accept that the close does not wake; the handler ran before there was
\* a socket to close.
HandlerDeadlocks == interrupt.thread # NoOne /\ mutex = interrupt.thread
QueueStaysFull ==
    /\ Len(queue) = Capacity
    /\ \A w \in Workers \ {interrupt.thread} : at[w] \in {"none", "ended"}
    /\ interrupt.left > 0 \/ at[Main] = "add"
AcceptNotInterrupted == at[Main] = "in_accept"
ClosedTooEarly == interrupt.thread = NoOne /\ lopen

\* sync_server_app.c:74 "when given a CONNECTION: keep-alive will hold the
\* connection open forever": a client can keep a worker from its -1, and main
\* from its join, for as long as it likes (worker.c:117-146).
ClientsLetGo == \A w \in Workers : []<>(at[w] # "serve")

\* SIGINT ends the server: every worker takes one -1 and main joins them all,
\* unless a client never lets go of its worker, a connection breaks and aborts
\* the process, or one of the above happens (sync_server.c:158-166).
SigintEnds ==
    ClientsLetGo => (signalled ~> \/ sstatus # "running"
                                  \/ HandlerDeadlocks
                                  \/ QueueStaysFull
                                  \/ AcceptNotInterrupted
                                  \/ ClosedTooEarly)

\* No connection queued before SIGINT is dropped: when main has joined the
\* workers, every one of them has been served, because the -1 entries queue up
\* behind it (sync_server.c:162, queue.c:111).  The sockets that main adds
\* afterwards have no such promise.
QueuedAreServed == sstatus = "exited" => early \subseteq served
=============================================================================
