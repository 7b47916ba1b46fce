---------------------------- MODULE ProgramProofs ----------------------------
(***************************************************************************)
(* The programs around the servers, for any number of threads and          *)
(* connections: what the shared listening socket and the SIGINT handler    *)
(* cannot break.                                                           *)
(***************************************************************************)
EXTENDS AsyncApp, SyncApp, SequenceTheorems, FiniteSetTheorems, TLAPS

-----------------------------------------------------------------------------
(* async-server-main.c *)

AppTypeOK ==
    /\ build \in {"single", "multi"}
    /\ thread \in [Loops -> {"new", "setup", "waiting", "event", "interrupted", "ended"}]
    /\ server_ptr \in [Loops -> {"NULL", "live"}]
    /\ freed \in [Loops -> Nat]

\* Where a thread is decides what its server is, and the shared socket is made
\* before any thread is.  LoopsKeepServing says it of the running loops only,
\* which is not inductive: the loop that ends must be the one whose server has
\* not been freed yet, and main must find nothing left to dispose of.
LoopAt(t) ==
    /\ thread[t] # "new" => {"listening", "nonblocking"} \subseteq lsock
    /\ thread[t] \in {"waiting", "event", "interrupted"} => server_ptr[t] = "live"
    /\ thread[t] = "ended" => server_ptr[t] = "NULL"
    /\ freed[t] = IF thread[t] = "ended" THEN 1 ELSE 0

AppInv ==
    /\ AppTypeOK
    /\ "closed" \notin lsock
    /\ process = "start" => \A t \in Loops : thread[t] = "new"
    /\ \A t \in Loops : LoopAt(t)

\* Nothing runs before main has started.
LEMMA AppInitInv == AppInit => AppInv
BY DEF AppInit, AppInv, AppTypeOK, LoopAt

\* One step per action of main, of a thread, of a client and of the signal.
LEMMA AppNextInv == AppInv /\ [AppNext]_appVars => AppInv'
<1> SUFFICES ASSUME AppInv, [AppNext]_appVars
             PROVE  AppInv'
  BY Zenon
<1> USE DEF AppInv, AppTypeOK, LoopAt
<1>1. CASE StartSingle
  BY <1>1, AsyncAppAssumption, Zenon
     DEF StartSingle, AsyncServer_init, AsyncServer_init_with_socket, AsyncServer_start,
         async_create_shareable_socket, async_socket_create, async_socket_set_reuseaddr,
         async_socket_set_reuseport, async_socket_set_nonblocking, async_socket_bind,
         async_socket_listen
<1>2. CASE StartMulti
  BY <1>2, Zenon
     DEF StartMulti, async_create_shareable_socket, async_socket_create,
         async_socket_set_reuseaddr, async_socket_set_reuseport,
         async_socket_set_nonblocking, async_socket_bind, async_socket_listen
<1>3. CASE BindFails
  BY <1>3, Zenon DEF BindFails
<1>4. CASE ClientConnects
  BY <1>4, Zenon DEF ClientConnects
<1>5. CASE main_disposes
  <2>1. server_ptr[MainLoop] = "NULL"
    BY <1>5, AsyncAppAssumption, Zenon DEF main_disposes
  <2> QED BY <1>5, <2>1, Zenon DEF main_disposes
<1>6. ASSUME NEW t \in Loops, thread_function(t)
      PROVE  AppInv'
  BY <1>6, Zenon
     DEF thread_function, AsyncServer_init_with_socket, AsyncServer_start,
         async_socket_listen
<1>7. ASSUME NEW t \in Loops, WaitReturns(t)
      PROVE  AppInv'
  BY <1>7, Zenon DEF WaitReturns
<1>8. ASSUME NEW t \in Loops, on_event_listening(t)
      PROVE  AppInv'
  BY <1>8, Zenon DEF on_event_listening
<1>9. ASSUME NEW t \in Loops, sig_handler(t)
      PROVE  AppInv'
  BY <1>9, Zenon DEF sig_handler
<1>10. ASSUME NEW t \in Loops, LoopReturns(t)
       PROVE  AppInv'
  BY <1>10 DEF LoopReturns, AsyncServer_dispose
<1>11. CASE UNCHANGED appVars
  BY <1>11, Zenon DEF appVars
<1> QED BY <1>1, <1>2, <1>3, <1>4, <1>5, <1>6, <1>7, <1>8, <1>9, <1>10, <1>11, Zenon DEF AppNext

\* However many threads share the listening socket and whichever of them are
\* interrupted, no loop is held in accept, the socket of a running loop listens,
\* and no server is freed twice.
THEOREM AsyncAppKeepsServing == AppSpec => []LoopsKeepServing
<1>1. AppInv => LoopsKeepServing
  BY DEF AppInv, AppTypeOK, LoopAt, LoopsKeepServing, LoopsNeverBlock,
         LoopKeepsItsSocket, ServerFreedOnce, Running
<1> QED BY AppInitInv, AppNextInv, <1>1, PTL DEF AppSpec

-----------------------------------------------------------------------------
(* sync_server_app.c and sync_server.c *)

SyncPlaces ==
    {"new", "listen", "starting", "none", "accept", "in_accept", "add", "adding",
     "remove", "removing", "serve", "join", "ended"}

SyncAppTypeOK ==
    /\ waiting \subseteq Conns
    /\ queue \in Seq(Conns \cup {Terminate})
    /\ at \in [SyncThreads -> SyncPlaces]
    /\ sock \in [SyncThreads -> Conns \cup {Terminate}]
    /\ interrupt \in [thread : SyncThreads \cup {NoOne}, left : Nat]
    /\ signalled \in BOOLEAN
    /\ early \subseteq Conns

Queued(c) == \E i \in 1..Len(queue) : queue[i] = c

\* What Queue_add and Queue_remove hold while they are inside.
MutexHeld ==
    /\ \A w \in Workers : at[w] = "removing" => mutex = w /\ queue # << >>
    /\ at[Main] = "adding" => mutex = Main

\* A connection is in one place at a time: in the backlog, with main, or queued.
NotYetQueued ==
    /\ early \cap waiting = {}
    /\ at[Main] \in {"add", "adding"} => sock[Main] \in Conns \ (early \cup waiting)

\* Until the SIGINT nothing says that a worker should end.
NoEarlyEnd ==
    \/ Queued(Terminate)
    \/ \E w \in Workers : at[w] = "ended"
    \/ interrupt.thread # NoOne
    => signalled

\* Every early connection is served, on its way through the queue, or being
\* served; in the queue it is before every -1, and out of it when the first
\* worker has taken one.
OnItsWay(c) ==
    c \in served \/ Queued(c) \/ \E w \in Workers : at[w] = "serve" /\ sock[w] = c

EarlyFirst ==
    /\ \A c \in early : OnItsWay(c)
    /\ \A i, j \in 1..Len(queue) : queue[i] = Terminate /\ queue[j] \in early => j < i
    /\ \A c \in early : Queued(c) => \A w \in Workers : at[w] # "ended"

\* Main gets past its loop over the workers only by starting one.
WorkersExist ==
    at[Main] \notin {"new", "listen", "starting"} => Workers # {}

SyncAppInv ==
    /\ SyncAppTypeOK
    /\ MutexHeld
    /\ NotYetQueued
    /\ NoEarlyEnd
    /\ EarlyFirst
    /\ WorkersExist
    /\ QueuedAreServed

\* No worker has a descriptor before the first accept.
LEMMA SyncAppInitInv == SyncAppInit => SyncAppInv
<1> SUFFICES ASSUME SyncAppInit
             PROVE  SyncAppInv
  BY Zenon
<1> USE DEF SyncAppInit
<1>1. SyncAppTypeOK
  <2>1. interrupt \in [thread : SyncThreads \cup {NoOne}, left : Nat]
    BY Zenon
  <2>2. at \in [SyncThreads -> SyncPlaces] /\ sock \in [SyncThreads -> Conns \cup {Terminate}]
    BY Zenon DEF SyncPlaces
  <2>3. queue \in Seq(Conns \cup {Terminate})
    OBVIOUS
  <2> QED BY <2>1, <2>2, <2>3, Zenon DEF SyncAppTypeOK
<1>2. /\ at[Main] = "new"
      /\ \A w \in Workers : at[w] = "none"
  BY SyncAppAssumption, Zenon DEF SyncThreads
<1>3. MutexHeld /\ NotYetQueued /\ WorkersExist
  BY <1>2, Zenon DEF MutexHeld, NotYetQueued, WorkersExist
<1>4. NoEarlyEnd /\ EarlyFirst /\ QueuedAreServed
  BY <1>2 DEF NoEarlyEnd, EarlyFirst, QueuedAreServed, Queued
<1> QED BY <1>1, <1>3, <1>4, Zenon DEF SyncAppInv

\* The steps that neither queue nor serve anything and after which no worker
\* holds the mutex that did not before.
LEMMA QuietStep ==
    ASSUME SyncAppInv, SyncAppTypeOK',
           UNCHANGED <<queue, mutex, served, early>>,
           sstatus' = "exited" => sstatus = "exited",
           signalled => signalled',
           interrupt'.thread # NoOne => signalled',
           waiting' \subseteq waiting,
           \A w \in Workers :
              /\ at'[w] = "removing" => at[w] = "removing"
              /\ at[w] = "serve" => at'[w] = "serve" /\ sock'[w] = sock[w]
              /\ at'[w] = "ended" => at[w] = "ended",
           at'[Main] = "adding" => at[Main] = "adding",
           at'[Main] \in {"add", "adding"} =>
              \/ at[Main] \in {"add", "adding"} /\ sock'[Main] = sock[Main]
              \/ sock'[Main] \in waiting \ waiting',
           WorkersExist'
    PROVE  SyncAppInv'
<1> USE DEF SyncAppInv
<1>1. MutexHeld'
  BY Zenon DEF MutexHeld
<1>2. NotYetQueued'
  BY Zenon DEF NotYetQueued, SyncAppTypeOK
<1>3. NoEarlyEnd'
  BY Zenon DEF NoEarlyEnd, Queued
<1>4. EarlyFirst'
  BY DEF EarlyFirst, OnItsWay, Queued
<1>5. QueuedAreServed'
  BY Zenon DEF QueuedAreServed
<1> QED BY <1>1, <1>2, <1>3, <1>4, <1>5, Zenon

\* Types are kept; the interesting one is that Queue_remove finds an entry.
LEMMA SyncAppTypes == SyncAppInv /\ SyncAppNext => SyncAppTypeOK'
<1> SUFFICES ASSUME SyncAppInv, SyncAppNext
             PROVE  SyncAppTypeOK'
  BY Zenon
<1> USE DEF SyncAppInv, SyncAppTypeOK, ThreadAt, Goto, SyncPlaces
<1>1. CASE sync_server_new
  BY <1>1, Zenon DEF sync_server_new
<1>2. CASE sync_server_listen
  BY <1>2, Zenon DEF sync_server_listen, sync_create_listener_socket
<1>3. ASSUME NEW w \in Workers, sync_worker_start(w)
      PROVE  SyncAppTypeOK'
  BY <1>3, Zenon DEF sync_worker_start, sync_worker_new
<1>4. CASE WorkerStartFails
  BY <1>4, Zenon DEF WorkerStartFails
<1>5. ASSUME NEW t \in SyncThreads, AcceptConnection(t)
      PROVE  SyncAppTypeOK'
  BY <1>5 DEF AcceptConnection
<1>6. CASE AcceptFails
  BY <1>6, Zenon DEF AcceptFails
<1>7. CASE AddLock
  BY <1>7, Zenon DEF AddLock
<1>8. CASE AddUnlock
  <2>1. sock[Main] \in Conns
    BY <1>8, Zenon DEF AddUnlock, NotYetQueued
  <2>2. early' \subseteq Conns
    BY <1>8, <2>1, Zenon DEF AddUnlock
  <2>3. queue' \in Seq(Conns \cup {Terminate})
    BY <1>8, <2>1 DEF AddUnlock
  <2> QED BY <1>8, <2>2, <2>3, Zenon DEF AddUnlock
<1>9. CASE sync_server_listen_ends
  BY <1>9, Zenon DEF sync_server_listen_ends
<1>10. ASSUME NEW w \in Workers, RemoveLock(w)
       PROVE  SyncAppTypeOK'
  BY <1>10, Zenon DEF RemoveLock
<1>11. ASSUME NEW w \in Workers, RemoveUnlock(w)
       PROVE  SyncAppTypeOK'
  <2>1. queue # << >>
    BY <1>11, Zenon DEF RemoveUnlock, MutexHeld
  <2>2. Head(queue) \in Conns \cup {Terminate} /\ Tail(queue) \in Seq(Conns \cup {Terminate})
    BY <2>1
  <2> QED BY <1>11, <2>2, Zenon DEF RemoveUnlock
<1>12. ASSUME NEW w \in Workers, Serve(w)
       PROVE  SyncAppTypeOK'
  BY <1>12, Zenon DEF Serve
<1>13. ASSUME NEW w \in Workers, ServeFails(w)
       PROVE  SyncAppTypeOK'
  BY <1>13, Zenon DEF ServeFails
<1>14. ASSUME NEW t \in SyncThreads, sync_sig_handler(t)
       PROVE  SyncAppTypeOK'
  <2>1. Cardinality(Workers) \in Nat
    BY SyncAppAssumption, FS_CardinalityType, Zenon
  <2>2. interrupt' \in [thread : SyncThreads \cup {NoOne}, left : Nat]
    BY <1>14, <2>1 DEF sync_sig_handler
  <2> QED BY <1>14, <2>2, Zenon DEF sync_sig_handler
<1>15. CASE TerminateAdds
  <2>1. interrupt' \in [thread : SyncThreads \cup {NoOne}, left : Nat]
    BY <1>15 DEF TerminateAdds
  <2>2. queue' \in Seq(Conns \cup {Terminate})
    BY <1>15 DEF TerminateAdds
  <2> QED BY <1>15, <2>1, <2>2, Zenon DEF TerminateAdds
<1>16. CASE TerminateCloses
  <2>1. interrupt' \in [thread : SyncThreads \cup {NoOne}, left : Nat]
    BY <1>16, Zenon DEF TerminateCloses
  <2> QED BY <1>16, <2>1, Zenon DEF TerminateCloses
<1> QED
  BY <1>1, <1>2, <1>3, <1>4, <1>5, <1>6, <1>7, <1>8, <1>9, <1>10, <1>11, <1>12, <1>13,
     <1>14, <1>15, <1>16, Zenon
     DEF SyncAppNext, MainSteps, WorkerSteps, WorkerRuns, SyncThreads

\* Queue_add stores a connection.  The -1 entries of a handler that has already
\* begun make it a late one.
LEMMA AddKeepsInv ==
    ASSUME SyncAppInv, AddUnlock, SyncAppTypeOK'
    PROVE  SyncAppInv'
<1> USE DEF AddUnlock, ThreadAt, Goto
<1> DEFINE n == Len(queue)
           c == sock[Main]
<1>1. /\ queue \in Seq(Conns \cup {Terminate}) /\ c \in Conns \ (early \cup waiting)
      /\ at \in [SyncThreads -> SyncPlaces] /\ Main \in SyncThreads /\ Main \notin Workers
      /\ mutex = Main /\ Main # NoOne /\ Terminate \notin Conns
  BY SyncAppAssumption, Zenon DEF SyncAppInv, SyncAppTypeOK, NotYetQueued, MutexHeld, SyncThreads
<1>2. /\ n \in Nat /\ Len(queue') = n + 1 /\ queue'[n + 1] = c
      /\ \A i \in 1..n : queue'[i] = queue[i]
  BY <1>1
<1>3. at'[Main] = "accept" /\ \A w \in Workers : at'[w] = at[w]
  BY <1>1, Zenon DEF SyncAppTypeOK, SyncThreads
<1>4. \A x : Queued(x)' <=> Queued(x) \/ x = c
  <2> SUFFICES ASSUME NEW x
               PROVE  Queued(x)' <=> Queued(x) \/ x = c
    BY Zenon
  <2>1. Queued(x) => Queued(x)'
    BY <1>2 DEF Queued
  <2>2. x = c => Queued(x)'
    BY <1>2 DEF Queued
  <2>3. Queued(x)' => Queued(x) \/ x = c
    BY <1>2 DEF Queued
  <2> QED BY <2>1, <2>2, <2>3, Zenon
<1>5. MutexHeld'
  BY <1>1, <1>3, Zenon DEF SyncAppInv, MutexHeld, SyncThreads
<1>6. NotYetQueued'
  BY <1>1, <1>3, Zenon DEF SyncAppInv, NotYetQueued
<1>7. NoEarlyEnd'
  BY <1>1, <1>3, <1>4, Zenon DEF SyncAppInv, NoEarlyEnd
<1>8. EarlyFirst'
  <2>1. ASSUME NEW d \in early'
        PROVE  OnItsWay(d)'
    BY <1>3, <1>4 DEF SyncAppInv, EarlyFirst, OnItsWay
  <2>2. ASSUME NEW i \in 1..(n + 1), NEW j \in 1..(n + 1),
               queue'[i] = Terminate, queue'[j] \in early'
        PROVE  j < i
    <3>1. i \in 1..n /\ queue[i] = Terminate
      BY <1>1, <1>2, <2>2
    <3>2. signalled
      BY <3>1, Zenon DEF SyncAppInv, NoEarlyEnd, Queued
    <3>3. j \in 1..n /\ queue[j] \in early
      BY <1>1, <1>2, <2>2, <3>2
    <3> QED BY <3>1, <3>3, Zenon DEF SyncAppInv, EarlyFirst
  <2>3. ASSUME NEW d \in early', Queued(d)', NEW w \in Workers, at'[w] = "ended"
        PROVE  FALSE
    <3>1. signalled /\ early' = early
      BY <1>3, <2>3, Zenon DEF SyncAppInv, NoEarlyEnd
    <3>2. Queued(d)
      BY <1>1, <1>4, <2>3, <3>1, Zenon
    <3> QED BY <1>3, <2>3, <3>1, <3>2, Zenon DEF SyncAppInv, EarlyFirst
  <2> QED BY <1>2, <2>1, <2>2, <2>3, Zenon DEF EarlyFirst
<1>9. WorkersExist' /\ QueuedAreServed'
  BY <1>1, Zenon DEF SyncAppInv, WorkersExist, QueuedAreServed
<1> QED BY <1>5, <1>6, <1>7, <1>8, <1>9, Zenon DEF SyncAppInv

\* A worker takes the oldest entry: a -1 only when no early connection is left.
LEMMA RemoveKeepsInv ==
    ASSUME SyncAppInv, NEW v \in Workers, RemoveUnlock(v), SyncAppTypeOK'
    PROVE  SyncAppInv'
<1> USE DEF RemoveUnlock, ThreadAt, Goto
<1> DEFINE n == Len(queue)
           x == Head(queue)
<1>1. /\ queue \in Seq(Conns \cup {Terminate}) /\ queue # << >> /\ mutex = v
      /\ at \in [SyncThreads -> SyncPlaces] /\ sock \in [SyncThreads -> Conns \cup {Terminate}]
      /\ Main \notin Workers /\ v # Main /\ v # NoOne /\ Terminate \notin Conns
      /\ Workers \subseteq SyncThreads /\ Main \in SyncThreads
  BY SyncAppAssumption DEF SyncAppInv, SyncAppTypeOK, MutexHeld, SyncThreads
<1>2. /\ n \in Nat \ {0} /\ Len(queue') = n - 1 /\ queue[1] = x
      /\ \A i \in 1..(n - 1) : queue'[i] = queue[i + 1]
  BY <1>1
<1>3. /\ at'[Main] = at[Main] /\ sock'[Main] = sock[Main]
      /\ at'[v] = (IF x = Terminate THEN "ended" ELSE "serve") /\ sock'[v] = x
      /\ \A w \in Workers \ {v} : at'[w] = at[w] /\ sock'[w] = sock[w]
  BY <1>1, Zenon
<1>4. \A y : (Queued(y)' => Queued(y)) /\ (Queued(y) /\ y # x => Queued(y)')
  <2> SUFFICES ASSUME NEW y
               PROVE  (Queued(y)' => Queued(y)) /\ (Queued(y) /\ y # x => Queued(y)')
    BY Zenon
  <2>1. ASSUME Queued(y)'
        PROVE  Queued(y)
    <3>1. PICK i \in 1..(n - 1) : queue'[i] = y
      BY <1>2, <2>1, Zenon DEF Queued
    <3>2. i + 1 \in 1..n /\ queue[i + 1] = y
      BY <1>2, <3>1
    <3> QED BY <3>2, Zenon DEF Queued
  <2>2. ASSUME Queued(y), y # x
        PROVE  Queued(y)'
    <3>1. PICK i \in 1..n : queue[i] = y
      BY <2>2, Zenon DEF Queued
    <3>2. i - 1 \in 1..(n - 1) /\ queue'[i - 1] = y
      BY <1>2, <2>2, <3>1
    <3> QED BY <1>2, <3>2, Zenon DEF Queued
  <2> QED BY <2>1, <2>2, Zenon
<1>5. Queued(x)
  BY <1>2 DEF Queued
<1>6. x = Terminate => signalled /\ \A c \in early : ~Queued(c)
  <2> SUFFICES ASSUME x = Terminate
               PROVE  signalled /\ \A c \in early : ~Queued(c)
    BY Zenon
  <2>1. signalled
    BY <1>5, Zenon DEF SyncAppInv, NoEarlyEnd
  <2>2. ASSUME NEW j \in 1..n, queue[j] \in early
        PROVE  FALSE
    <3>1. j < 1
      BY <1>2, <2>2 DEF SyncAppInv, EarlyFirst
    <3> QED BY <3>1
  <2> QED BY <2>1, <2>2, Zenon DEF Queued
<1>7. MutexHeld'
  BY <1>1, <1>3, Zenon DEF SyncAppInv, MutexHeld
<1>8. NotYetQueued'
  BY <1>3, Zenon DEF SyncAppInv, NotYetQueued
<1>9. NoEarlyEnd'
  BY <1>3, <1>4, <1>6 DEF SyncAppInv, NoEarlyEnd
<1>10. EarlyFirst'
  <2>1. ASSUME NEW d \in early'
        PROVE  OnItsWay(d)'
    <3>1. d \in early /\ d # Terminate /\ OnItsWay(d)
      BY <1>1, Zenon DEF SyncAppInv, EarlyFirst, SyncAppTypeOK
    <3>2. CASE d = x
      BY <1>3, <3>1, <3>2, Zenon DEF OnItsWay
    <3>3. CASE d # x
      <4>1. CASE Queued(d)
        BY <1>4, <3>3, <4>1, Zenon DEF OnItsWay
      <4>2. CASE d \in served
        BY <4>2, Zenon DEF OnItsWay
      <4>3. ASSUME NEW w \in Workers, at[w] = "serve", sock[w] = d
            PROVE  OnItsWay(d)'
        BY <1>3, <4>3, Zenon DEF OnItsWay
      <4> QED BY <3>1, <4>1, <4>2, <4>3, Zenon DEF OnItsWay
    <3> QED BY <3>2, <3>3, Zenon
  <2>2. ASSUME NEW i \in 1..(n - 1), NEW j \in 1..(n - 1),
               queue'[i] = Terminate, queue'[j] \in early'
        PROVE  j < i
    <3>1. i + 1 \in 1..n /\ j + 1 \in 1..n /\ queue[i + 1] = Terminate /\ queue[j + 1] \in early
      BY <1>2, <2>2
    <3>2. j + 1 < i + 1
      BY <3>1, Zenon DEF SyncAppInv, EarlyFirst
    <3> QED BY <3>2
  <2>3. ASSUME NEW d \in early', Queued(d)', NEW w \in Workers, at'[w] = "ended"
        PROVE  FALSE
    <3>1. d \in early /\ Queued(d)
      BY <1>4, <2>3, Zenon
    <3>2. w = v /\ x = Terminate
      BY <1>3, <2>3, <3>1 DEF SyncAppInv, EarlyFirst
    <3> QED BY <1>6, <3>1, <3>2, Zenon
  <2> QED BY <1>2, <2>1, <2>2, <2>3, Zenon DEF EarlyFirst
<1>11. WorkersExist' /\ QueuedAreServed'
  BY <1>3, Zenon DEF SyncAppInv, WorkersExist, QueuedAreServed
<1> QED BY <1>7, <1>8, <1>9, <1>10, <1>11, Zenon DEF SyncAppInv

\* The handler's Queue_add appends a -1, behind every early connection.
LEMMA TerminateKeepsInv ==
    ASSUME SyncAppInv, TerminateAdds, SyncAppTypeOK'
    PROVE  SyncAppInv'
<1> USE DEF TerminateAdds
<1> DEFINE n == Len(queue)
<1>1. /\ queue \in Seq(Conns \cup {Terminate}) /\ signalled /\ Terminate \notin early
      /\ interrupt'.thread = interrupt.thread
  BY SyncAppAssumption, Zenon DEF SyncAppInv, SyncAppTypeOK, NoEarlyEnd
<1>2. /\ n \in Nat /\ Len(queue') = n + 1 /\ queue'[n + 1] = Terminate
      /\ \A i \in 1..n : queue'[i] = queue[i]
  BY <1>1
<1>3. \A x : (Queued(x) => Queued(x)') /\ (Queued(x)' => Queued(x) \/ x = Terminate)
  BY <1>2 DEF Queued
<1>4. MutexHeld'
  BY <1>1, <1>2 DEF SyncAppInv, MutexHeld
<1>5. NotYetQueued'
  BY Zenon DEF SyncAppInv, NotYetQueued
<1>6. NoEarlyEnd'
  BY <1>1, Zenon DEF NoEarlyEnd
<1>7. EarlyFirst'
  <2>1. ASSUME NEW d \in early'
        PROVE  OnItsWay(d)'
    BY <1>3, Zenon DEF SyncAppInv, EarlyFirst, OnItsWay
  <2>2. ASSUME NEW i \in 1..(n + 1), NEW j \in 1..(n + 1),
               queue'[i] = Terminate, queue'[j] \in early'
        PROVE  j < i
    <3>1. j \in 1..n /\ queue[j] \in early
      BY <1>1, <1>2, <2>2
    <3>2. CASE i = n + 1
      BY <1>2, <3>1, <3>2
    <3>3. CASE i # n + 1
      BY <1>2, <2>2, <3>1, <3>3 DEF SyncAppInv, EarlyFirst
    <3> QED BY <3>2, <3>3, Zenon
  <2>3. ASSUME NEW d \in early', Queued(d)'
        PROVE  \A w \in Workers : at'[w] # "ended"
    BY <1>1, <1>3, <2>3, Zenon DEF SyncAppInv, EarlyFirst
  <2> QED BY <1>2, <2>1, <2>2, <2>3, Zenon DEF EarlyFirst
<1>8. WorkersExist' /\ QueuedAreServed'
  BY Zenon DEF SyncAppInv, WorkersExist, QueuedAreServed
<1> QED BY <1>4, <1>5, <1>6, <1>7, <1>8, Zenon DEF SyncAppInv

\* One step per action of main, of a worker and of the signal handler.
LEMMA SyncAppNextInv == SyncAppInv /\ [SyncAppNext]_syncVars => SyncAppInv'
<1> SUFFICES ASSUME SyncAppInv, [SyncAppNext]_syncVars
             PROVE  SyncAppInv'
  BY Zenon
<1>0. CASE UNCHANGED syncVars
  BY <1>0, Zenon
     DEF syncVars, SyncAppInv, SyncAppTypeOK, MutexHeld, NotYetQueued, NoEarlyEnd,
         EarlyFirst, OnItsWay, Queued, WorkersExist, QueuedAreServed
<1> SUFFICES ASSUME SyncAppNext
             PROVE  SyncAppInv'
  BY <1>0, Zenon
<1>a. SyncAppTypeOK'
  BY SyncAppTypes, Zenon
<1>b. /\ at \in [SyncThreads -> SyncPlaces] /\ sock \in [SyncThreads -> Conns \cup {Terminate}]
      /\ Main \in SyncThreads /\ Workers \subseteq SyncThreads /\ Main \notin Workers
      /\ interrupt.thread # NoOne => signalled
      /\ WorkersExist
  BY SyncAppAssumption, Zenon DEF SyncAppInv, SyncAppTypeOK, NoEarlyEnd, SyncThreads
<1> USE DEF ThreadAt, Goto, WorkersExist
<1>1. CASE sync_server_new
  BY <1>1, <1>a, <1>b, QuietStep, Zenon DEF sync_server_new
<1>2. CASE sync_server_listen
  BY <1>2, <1>a, <1>b, QuietStep, Zenon DEF sync_server_listen, sync_create_listener_socket
<1>3. ASSUME NEW w \in Workers, sync_worker_start(w)
      PROVE  SyncAppInv'
  BY <1>3, <1>a, <1>b, QuietStep, Zenon DEF sync_worker_start, sync_worker_new
<1>4. CASE WorkerStartFails
  BY <1>4, <1>a, <1>b, QuietStep, Zenon DEF WorkerStartFails
<1>5. ASSUME NEW t \in SyncThreads, AcceptConnection(t)
      PROVE  SyncAppInv'
  BY <1>5, <1>a, <1>b, QuietStep, Zenon DEF AcceptConnection
<1>6. CASE AcceptFails
  BY <1>6, <1>a, <1>b, QuietStep, Zenon DEF AcceptFails
<1>7. CASE AddLock
  <2>1. MutexHeld'
    BY <1>7, <1>b, SyncAppAssumption, Zenon DEF AddLock, SyncAppInv, MutexHeld
  <2>2. NotYetQueued'
    BY <1>7, <1>b, Zenon DEF AddLock, SyncAppInv, NotYetQueued
  <2>3. NoEarlyEnd' /\ EarlyFirst'
    BY <1>7, <1>b, Zenon DEF AddLock, SyncAppInv, NoEarlyEnd, EarlyFirst, OnItsWay, Queued
  <2>4. WorkersExist' /\ QueuedAreServed'
    BY <1>7, <1>b, Zenon DEF AddLock, SyncAppInv, QueuedAreServed
  <2> QED BY <1>a, <2>1, <2>2, <2>3, <2>4, Zenon DEF SyncAppInv
<1>8. CASE AddUnlock
  BY <1>8, <1>a, AddKeepsInv, Zenon
<1>9. CASE sync_server_listen_ends
  <2>1. Workers # {} /\ \A w \in Workers : at[w] = "ended"
    BY <1>9, <1>b, Zenon DEF sync_server_listen_ends, sync_worker_join
  <2>2. early \subseteq served
    BY <2>1, Zenon DEF SyncAppInv, EarlyFirst, OnItsWay
  <2>3. QueuedAreServed'
    BY <1>9, <2>2, Zenon DEF sync_server_listen_ends, QueuedAreServed
  <2>4. MutexHeld' /\ NotYetQueued' /\ WorkersExist'
    BY <1>9, Zenon DEF sync_server_listen_ends, SyncAppInv, MutexHeld, NotYetQueued
  <2>5. NoEarlyEnd' /\ EarlyFirst'
    BY <1>9, Zenon DEF sync_server_listen_ends, SyncAppInv, NoEarlyEnd, EarlyFirst, OnItsWay, Queued
  <2> QED BY <1>a, <2>3, <2>4, <2>5, Zenon DEF SyncAppInv
<1>10. ASSUME NEW w \in Workers, RemoveLock(w)
       PROVE  SyncAppInv'
  <2>1. MutexHeld'
    BY <1>10, <1>b, SyncAppAssumption, Zenon DEF RemoveLock, SyncAppInv, MutexHeld
  <2>2. NotYetQueued'
    BY <1>10, <1>b, Zenon DEF RemoveLock, SyncAppInv, NotYetQueued
  <2>3. NoEarlyEnd' /\ EarlyFirst'
    BY <1>10, <1>b, Zenon DEF RemoveLock, SyncAppInv, NoEarlyEnd, EarlyFirst, OnItsWay, Queued
  <2>4. WorkersExist' /\ QueuedAreServed'
    BY <1>10, <1>b, Zenon DEF RemoveLock, SyncAppInv, QueuedAreServed
  <2> QED BY <1>a, <2>1, <2>2, <2>3, <2>4, Zenon DEF SyncAppInv
<1>11. ASSUME NEW w \in Workers, RemoveUnlock(w)
       PROVE  SyncAppInv'
  BY <1>11, <1>a, RemoveKeepsInv, Zenon
<1>12. ASSUME NEW w \in Workers, Serve(w)
       PROVE  SyncAppInv'
  <2>1. MutexHeld' /\ NotYetQueued'
    BY <1>12, <1>b, Zenon DEF Serve, SyncAppInv, MutexHeld, NotYetQueued
  <2>2. NoEarlyEnd'
    BY <1>12, <1>b, Zenon DEF Serve, SyncAppInv, NoEarlyEnd, Queued
  <2>3. EarlyFirst'
    BY <1>12, <1>b, Zenon DEF Serve, SyncAppInv, EarlyFirst, OnItsWay, Queued
  <2>4. WorkersExist' /\ QueuedAreServed'
    BY <1>12, <1>b, Zenon DEF Serve, SyncAppInv, QueuedAreServed
  <2> QED BY <1>a, <2>1, <2>2, <2>3, <2>4, Zenon DEF SyncAppInv
<1>13. ASSUME NEW w \in Workers, ServeFails(w)
       PROVE  SyncAppInv'
  BY <1>13, <1>a, <1>b, QuietStep, Zenon DEF ServeFails
<1>14. ASSUME NEW t \in SyncThreads, sync_sig_handler(t)
       PROVE  SyncAppInv'
  BY <1>14, <1>a, <1>b, QuietStep, Zenon DEF sync_sig_handler
<1>15. CASE TerminateAdds
  BY <1>15, <1>a, TerminateKeepsInv, Zenon
<1>16. CASE TerminateCloses
  <2>1. interrupt'.thread = NoOne
    BY <1>16, Zenon DEF TerminateCloses, SyncAppInv, SyncAppTypeOK
  <2> QED BY <1>16, <1>a, <1>b, <2>1, QuietStep, Zenon DEF TerminateCloses
<1> QED
  BY <1>1, <1>2, <1>3, <1>4, <1>5, <1>6, <1>7, <1>8, <1>9, <1>10, <1>11, <1>12, <1>13,
     <1>14, <1>15, <1>16, Zenon
     DEF SyncAppNext, MainSteps, WorkerSteps, WorkerRuns, SyncThreads

\* For any number of workers and connections and any capacity of the queue: a
\* server that ends after SIGINT has served every connection queued before it,
\* whichever thread the handler interrupted and whatever main queued meanwhile.
THEOREM SyncAppServesQueued == SyncAppSpec => []QueuedAreServed
<1>1. SyncAppInv => QueuedAreServed
  BY Zenon DEF SyncAppInv
<1> QED BY SyncAppInitInv, SyncAppNextInv, <1>1, PTL DEF SyncAppSpec
=============================================================================
