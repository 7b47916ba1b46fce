# A TLA+ model of c_http

c_http holds two HTTP/1.1 servers written in C: `sync_server_app`, with blocking
sockets and worker threads, and `async_server_app`, with one or several threads,
non-blocking sockets and a home-grown run loop over `epoll`. Around them are a
client library with a verifier, a small demo protocol with its own server, earlier
versions of the asynchronous code, and a library of buffers, lists and parsers.
This directory models how they run. TLC checks each module on small instances; TLAPS
proves the most important invariants for every value of the constants. Paths below
are relative to `src/http_in_c` unless they start with `src/`.

To check a run: `tlc -config MCQueue.cfg MCQueue`.
To check the proofs of a module: `tlapm SyncServerProofs.tla`. The eight modules with
proofs are those whose names end in `Proofs`, and `SyncServerSteps`; each takes a few
minutes.

## 1. The system

| component | state | operations | interacts with |
|---|---|---|---|
| thread-safe queue, `common/queue.c` | ring `q`, `first`, `next`, `size`; mutex, two condition variables | `Queue_add`, `Queue_remove` | main thread and workers of the sync server (build option `SYNC_WORKER_QUEUE`) |
| ready list, `runloop/functor_list.c` | ring of functors, `head`, `tail_plus` | add, remove, size | run loop; also the list inside the inter-thread queue |
| run loop, `runloop/reactor.c`, `fdtable.c` | fd table, ready list | register, deregister, `rtor_reactor_run`, post, close, inter-thread post | every watcher |
| stream, listener, timer and eventfd watchers, `runloop/w_*.c` | event mask, callbacks, interval, pipe | register, arm, disarm, set, fire, clear, handlers | run loop, kernel |
| inter-thread queues, `runloop/evfd_queue.c`, `w_queue.c`, `interthread_queue.c` | list, mutex, eventfd | add, remove, drain, handler | run loop, other threads |
| async connection, `async/connection_*.c` | read state, write state, posted flags, pending request, output buffer, parser | read, write, close; postable reader, writer and handler; fd events | run loop, handler, socket |
| async handler and server, `async/async_handler.c`, `async_server.c` | list of handlers | accept, handle request, handle response, close | connections, application |
| sync connection, `sync/sync_connection.c` | parser, `input_list`, `reader_status` | read, read message, write, dispose | worker, client, socket |
| sync worker and server, `sync/worker.c`, `sync_server.c` | threads, current connection | accept, serve, listen, join, terminate | queue, connections |
| sync client, `sync/sync_client.c`, and verifier, `src/verifier` | one connection for each thread, times | connect, round trip, close, combine, report | sync connection |
| parser and messages, `http/*.c` | llhttp state, buffers, header list, body chain | callbacks, lookup, edit, serialize | connections, handlers |
| buffers and lists, `common/*.c` | pointers, lengths | append, consume, add, remove, iterate | everything |
| URL parser, `common/url_parser.c`, `url.c` | state of the scan, fields | scan, host, copy | its tests |
| applications, `src/async-server-app`, `src/sync_server_app` | servers, threads, SIGINT handler | start, signal, end | servers |
| demo protocol, `demo_protocol/*.c` | parser, connection, handler | frames in, echoes out | run loop |
| older async code, `async-old/*.c`, `async/async_connection.c` | connection states | read, write, clean up | run loop |

What is hard about this system:

* queue: conditional broadcasts, spurious wakeups, a ring in which `first = next`
  means both full and empty;
* run loop: callbacks that post more callbacks, batches of events of which one may
  end the life of another's watcher, one `errno` shared by all connections;
* async connection: edge-triggered readiness, partial sends, states that are left
  by an event, by a functor or not at all;
* inter-thread queue: list and eventfd are two pieces of state, and reading one
  clears what several threads have written;
* sync worker: pipelined messages kept over calls, error returns confused with
  success, sockets that are not closed, a receive timeout;
* signals: SIGPIPE in both servers, SIGINT handlers that take a mutex, interrupted
  system calls that end one loop of several;
* ownership: messages and buffers that pass between parser, connection and
  application, descriptors that are closed twice;
* parsing: input that is cut into pieces anywhere, buffers that keep what an earlier
  message left.

`PROJECT.json` lists each hazard at its line and the properties that look at it.

## 2. Modules

### Concurrency and connections

| module | models | state and actions |
|---|---|---|
| `BoundedFifo` | what a bounded blocking FIFO promises | abstract; `items`, `offer` |
| `Queue` | `common/queue.c` with `QUEUE_CIRCULAR` | one variable for each field; `pc` holds the point of a thread inside `Queue_add` or `Queue_remove`; lock, wait, update with broadcast, and unlock are separate steps, spurious wakeups included |
| `FunctorList` | `functor_list.c` | operators on the record of `head`, `tail_plus`, `list` |
| `ReadyList` | the run loop's use of that list | `Post`, `RunOne` |
| `InterthreadPost` | `evfd_queue.c`, `w_queue.c`, `interthread_queue_handler` and the loop around it | each posting thread: add, signal; the loop: its test for exit, `epoll_wait`, dispatch, remove, drain |
| `InterthreadQueue` | `interthread_queue.c` over the pipe of `w_eventfd.c` | register; add: lock, append, write and unlock; drain: lock, the calls, the read that never ends |
| `RunLoop` | `reactor.c` but for posts from other threads, `fdtable.c`, `w_timerfd.c`, `w_eventfd.c`, `w_stream.c`, `w_listener.c`, `w_queue.c` | table, epoll's interest and readiness, each watcher's record; one action for each call a program can make, before the loop runs, in a handler or in a functor; the loop's own steps; the clock |
| `Sockets` | the kernel as the async server uses it (external) | receive and send buffers, edge-triggered readiness, FIN, reset, accept queue |
| `Reactor` | the part of the run loop the async server uses | loop position, batch of events, ready list as a sequence, fd table as a set |
| `AsyncConnection` | `connection_*.c`, `async_handler.c` | one operator for each C function; a function that posts takes the ready list at the point of its call |
| `AsyncServer` | `async_server.c` and the clients; composes the three above | one action for each turn of the run loop |
| `SyncServer` | `worker.c`, `sync_connection.c`, `sync_server_listen` in the default build, and the clients | each worker: accept, take a message from `input_list`, read and parse a buffer, answer |
| `Ownership` | what connections of both servers allocate, free and close | `heap` holds the live blocks by their owner and field, `misuse` the blocks freed or read when not live, `fd_table` and `stolen` the descriptors of a process with several loops |

### Programs

| module | models | state and actions |
|---|---|---|
| `AsyncApp` | `async-server-main.c` in both builds, `async_socket.c`, start and disposal of `AsyncServer` | one thread for each loop, the shared backlog, signals, main's joins |
| `SyncApp` | `sync_server_app.c`, `sync_server.c` and `worker.c` in the build with the queue | main, the workers, the SIGINT handler on the stack of the thread it interrupts, the queue with its mutex |
| `DemoParser`, `DemoServer` | `demo_protocol/demo_{parser,message,connection,handler,server}.c` | the parser over classes of characters; reader, writer, handler and clean-up as functors of one loop |
| `Verifier` | `verify_app.c`, `sync_client.c` | threads with their connections and round trips, the array of times; the server is external and may be away or fail |

### Library

| module | models | against |
|---|---|---|
| `LinkedList` | `list.c` over nodes and pointers, `dlist.c` where it differs | the sequence of items the calls say |
| `IOBuffer`, `BufferChain`, `Cbuffer` | the three buffers with their memory, terminator and sizes | the text put in |
| `Message` | `message.c`, `header_list.c`, `kvpair.c`, the reply of `sync_handler_example.c` | operators |
| `HttpParser` | the callbacks of `parser.c`, fed by llhttp (external) with the pieces of a message | the message sent |
| `UrlParser` | `url_parser.c`, `url.c`, one character a step | the fields put together again |
| `SocketHelpers` | `socket_functions.c` over a kernel (external) | the bytes that peers and kernel hold |
| `OldServer`, `OldConnection` | `async-old/`, `async/async_connection.c` | |

The theorems are in modules of their own, described in section 5:

| module | about |
|---|---|
| `LibraryProofs` | `Queue`, `IOBuffer`, `Cbuffer`, `OldServer`, `OldConnection` |
| `InterthreadProofs` | `FunctorList`, `ReadyList`, `InterthreadPost` |
| `AsyncServerProofs` | `AsyncServer` |
| `SyncServerSteps`, `SyncServerProofs` | `SyncServer`: its steps, and its theorems |
| `RunLoopProofs` | `RunLoop` |
| `OwnershipProofs` | `Ownership` |
| `ProgramProofs` | `AsyncApp`, `SyncApp` |

`MCQueue`, `MCAsyncServer`, `MCInterthreadPost` and `MCSyncServer` are the
instances of one module each. `MCLibrary`, `MCPrograms` and `MCRunLoop` put modules
that share no state side by side: in a behaviour one part is active and the others
stay in one initial state, so the states of the instance are the sum and not the
product of those of its parts.

The atomic steps follow the code's scheduling. The async server has one thread for
each loop, so a handler or functor runs to its end in one action, and only the
kernel, the clients and other threads interleave with it. The threads of `Queue`,
`InterthreadPost`, `InterthreadQueue` and `SyncApp` interleave at every acquisition and
release of a mutex; what they do while they hold it is one or two steps. A worker of
`SyncServer` shares only the listening socket and the process with the others, so its
steps end where it makes a system call. A call that waits is a step that is not enabled, or a
state of its own where it matters who waits: `loop = "blocked"` in `RunLoop` is the loop's own
read of an eventfd's empty pipe, `"reading"` a call of the user that reads one. The model ends
there, because an event that would end the wait could as well have come before the call.
`caught` in `SocketHelpers` is a signal that interrupts the next call that has to wait.

Data is abstracted to what the control flow tells apart. A byte stream is a
sequence of tokens: a piece of a request, the end of one (with or without
keep-alive), or something that is not HTTP. A response is its length (async) or the
number of its request (sync). llhttp is external: it completes a message at the end
token and fails at, and after, a bad one; in `HttpParser` it calls the callbacks with
every cut of a message into pieces. A character of a URL or of a demo frame stands for
its class. Assertions of the C code are either invariants (`HalfDuplex`,
`PointerAssertions`, `WaitsOnlyWhenDrained`) or, where they can fail, an outcome of the
process (`loop = "aborted"`, `process = "no request"`), which a property then bounds:
`AbortsOnlyWhen`, `EndsOnlyForCause`, `AssertsOnlyAfterShortSend` and their like say what
must have happened before. Values the code reads uninitialized are chosen:
`addr_length` of `accept` in `worker.c` (`AcceptLoses`), `both_handler` of a stream,
`is_request` and the status of a response without a reason, the array of times.

## 3. Runs

### Passing

| run | instance | states | properties |
|---|---|---|---|
| `queue` | 1 producer, 2 consumers, 2 slots, 2 values | 8,483 | `NoLostWakeup`; `IsFifo`: refinement of `BoundedFifo`; `EntriesPass`: every `Queue_add` returns and the oldest entry is taken |
| `interthread_order` | 2 threads, 3 posts each, ring of 3, which fills | 9,215 | `PostsInOrder`: callbacks run at most once, in the order posted, each with its own argument, and the list is never empty when read; `PostWakesLoop` |
| `async_pair` | 2 connections; requests in pieces, malformed or closing, responses longer than the send buffer, FIN, resets, an `accept` that fails | 682,114 | `OneContinuation`: exactly one functor or awaited event for each connection; `NothingOutlivesConnection`; `NoForgottenOutput` |
| `async_service` | 2 clients, 2 requests each, not pipelined | 123,775 | `NoForgottenInput`; `RequestsAnswered`: connections are accepted and requests answered; `ClosedWhenPeerCloses` |
| `sync_clients` | 2 workers, 3 connections, 2 descriptors, 2 requests each, pipelined; one client may send something malformed, leave or fall silent | 576,073 | `ServesInOrder` and `RequestsAnswered`: once each, in order and in the end; `EndsOnlyForCause`: the process ends only because of that client, of a reset or of a failed `accept` |
| `runloop` | each pair of a timer, an eventfd, a stream and a listener, with and without the inter-thread queue, programs of 4 calls; 2 connections with 4 messages on 1 or 2 loops | 1,013,938 | `LoopKeepsTable`: table, count and epoll agree but for deleted fds, and the loop ends with nothing left to watch, and to run unless it never had an event; `StopsOnlyWhen`: every abort and block has one of the named causes; `TimersNotEarly`, `RepeatingTimersRun`; `OwnedOnce`: nothing is freed twice, a closed connection leaves only messages, a descriptor is stolen only across loops |
| `programs` | 1 to 3 loops and 3 signals; 2 workers, a queue of 2 and 3 connections; 3 frames, whole or broken; 2 threads with 2 connections and 2 round trips | 33,774 | `LoopsKeepServing`, `BacklogDrained`: loops never block in `accept`, keep their socket and accept what comes until an `accept` fails; `QueuedAreServed`, `SigintEnds`: queued connections are served before SIGINT ends the workers, and it does when the clients let go of them; `EchoInOrder`, `DemoGoesOn`, `FramesAnswered`: the demo server; `RoundTripsCounted`, `VerifierEnds`: the verifier reports every round trip, leaks no socket and ends |
| `library` | each part with every sequence of calls within the bounds | 527,421 | `ListAsCalled`, `BufferKeepsBytes`, `ChainHoldsText`, `CbufferKeepsString`: lists and buffers hold what was put in; `MessageAsSent`: a message is delivered as sent wherever it was cut; `HeadersAsMeant`; `UrlSplits`: into fields that do not overlap; `HelpersReportTruly`: the socket helpers; `OldServerAnswers`, `OldConnectionGoesOn`: the older connections forget nothing, but for a stale `errno`; `ItemsAnnounced`: in the older inter-thread queue, in the order of their adders; `IsFifo`: the ring of functors |

A property that says several things of one component is the conjunction of named ones,
each with its comment in the module: `LoopKeepsTable`, for instance, of `TableMatchesEpoll`,
`InterestWithinMask`, `ReturnsWhenIdle` and `QueueFdClosedOnce`. The rest of this document
names the parts.

The bounds are the smallest at which the cases meet: a ring that wraps, fills and
empties with threads waiting on both sides (the proofs cover any number of
producers); a request in more than one piece; a response that needs more than one
send; as many clients as to have one wait for a worker, a descriptor or its turn in
the run loop; two watchers, so that the handler of one can deregister, set or close
the other while its event is in the same batch; four calls, which is one to create,
one to change, one inside a handler and one after it. In the library: three nodes
(first, middle, last); a buffer of four bytes and texts longer than it; two headers of
one name, each in two pieces; URLs of up to three characters behind beginnings that
lead into every part of the grammar, with `OffsetRange` in place of the 65536 values of the
`uint16_t` fields, so that an offset wraps and a port of three digits is out of range within
the lengths that are tried; a pipe of the older inter-thread queue that takes two events
(`PipeRoom`) for three adders. `MaxReqs`, `MaxParts`, `MaxPosts`, `MaxConnects`,
`MaxSignals`, `MaxCalls`, `MaxFires` and `MaxMisbehaved` bound what clients, threads and programs do and only end
behaviours. `Window` bounds the requests (posts) outstanding: with `Window = 1` clients
do not pipeline. Deadlock is checked for the queue, whose threads always go on. In
the other models the system may stop: clients are done, or the process has ended.

Where a property needs an assumption about clients, the run's constants state it.
`NoForgottenInput` holds when one `recv` takes all that a client has outstanding
(`RcvCap <= RecvMax`; the code reads up to 1,000,000 bytes) and fails otherwise
because of the stale `errno` below.

### Violations: what the repository says and the code does not do

| run | property | the code |
|---|---|---|
| `async_stale_errno` | `EagainedIsDrained` | `connection_read.c:73` tests `errno` after a successful `recv`; an old `EAGAIN` parks a connection whose socket is still readable |
| `async_pipelined` | `AllAnswered` | `connection_read.c:163` overwrites the first of two requests completed by one buffer |
| `interthread_burst` | `EveryPostRuns` | `evfd_queue.c:79` clears the eventfd for all posts and takes one |
| `sync_leave` | `KeepsServing` | `worker.c:119` takes the -1 of a failed read for a message and asserts |

`PROJECT.json` quotes the line of documentation each one contradicts. The burst of
posts agrees with the remark "inter thread queue does not seem to work" of
`src/something.todo:77`; the tests post one at a time with a sleep in between.

### Behaviours the properties allow for

A property that names its exceptions documents them. These are the ones a reader of
the code should know; each is a state some run reaches.

* Async server: a parse error is hidden by the stale `errno` (`connection_read.c:73`);
  a connection is read again after a request with `Connection: close`
  (`async_handler.c:121`); a send to a connection that was closed and then reset raises
  SIGPIPE and ends the process (`connection_write.c:39`), and so does any error of `accept`
  but `EAGAIN` (`async_server.c:208`); a descriptor is closed twice
  (`connection_api.c:57`), harmless with one loop (`StolenOnlyAcrossLoops`); requests,
  responses and bodies are never freed (`ClosedLeavesMessagesOnly`); a SIGINT ends one
  loop of several, or none.
* Run loop (`AbortsOnlyWhen`, `TimersNotEarly`, `BlocksOnlyWhenCleared`): deregistering a
  watcher whose event is later in the batch, `rtor_reactor_delete`, which leaves the fd with
  epoll, arming an eventfd watcher that has no handler, arming a listener, using a stream
  whose `both_handler` was never set, posting before the loop runs and going on after a close
  abort; a functor posted before a loop that has nothing to watch is not run; a timer set
  again in the batch of its own expiry fires early; `rtor_timer_disarm` arms; fractions of a
  second are lost.
* Sync server (`EndsOnlyForCause`, `SigintEnds`): five silent seconds
  (`sync_connection.c:115`), or a buffer with a message and a parse error
  (`sync_connection.c:170`), abort the process; finished connections are not closed
  (`worker.c:147`), so that `accept` runs out of descriptors and the workers end; the
  SIGINT handler can wait for a mutex its own thread holds, for space only that thread's
  workers could make, or for an `accept` that nothing wakes; a client that keeps its
  connection alive keeps its worker (`ClientsLetGo`).
* Inter-thread posts: a list that fills up before the loop wakes ends the process
  (`functor_list.c:48`).
* Older inter-thread queue (`AnnouncedWhenFree`): an add to a full pipe waits with the mutex
  held, which the drain needs; a drain calls back with the same item for ever, or waits for a
  pipe that is empty, and keeps the mutex.
* Demo server and older connection: a short send aborts, a broken frame leaves its
  connection waiting, the clean-up can run twice; in the older connection a stale `errno` loses
  the client's end (`ReadingNotLost`).
* Older server (`StopHasCause`): a bad read, a client that closes after empty lines or inside a
  request, and a send after a reset each stop the server for all clients.
* Socket helpers (`BlockingAssertsOnlyWhen`): a signal that is caught while a blocking read or
  write waits meets their assertions.
* Library: a commit behind a partial consume overwrites a byte (`BytesIntact`), a grown
  buffer may have no room for its terminator (`TerminatorInside`), `add_front` and
  `remove_iter` leave a wrong size (`ChainHoldsText`), a reason in two pieces aborts
  (`AbortsOnSplitReason`), a dealloc that does not null its pointer is called twice
  by `List_destroy` (`DeallocatedAsOwed`), `BufferChain_eq_cstr` takes a longer string that
  begins with the text for it, a URL longer than its 16-bit offsets is split wrongly
  (`Measurable`).
* Verifier: a refused connect is retried at the first address for ever
  (`sync_client.c:112`), so `VerifierEnds` assumes a server there.

## 4. Fairness

* `Queue`, `SyncApp`: weak fairness of each thread's step with the mutex in hand, strong
  fairness of taking the mutex (a mutex that is released again and again is
  eventually obtained; POSIX does not promise it, Linux scheduling provides it), and
  consumers that keep calling `Queue_remove`, as `Worker_main` does.
  Serving is not fair in `SyncApp`: a client may hold its worker for ever, and `SigintEnds`
  has as its hypothesis (`ClientsLetGo`) that none does.
* `InterthreadPost`: weak fairness of the loop and of a thread that has added a
  functor, strong fairness of the loop's taking the mutex.
* `AsyncServer`: weak fairness of the single server thread, and of each client's
  reading of its responses. Nothing is assumed of when clients send.
* `SyncServer`: weak fairness of each worker and of `listen`, and clients that finish
  with a request without keep-alive; a worker serves one connection until then. Writes
  block until the client reads.
* `RunLoop`: weak fairness of the loop's thread, of the clock and of an expired timer's
  event.
* `AsyncApp`: weak fairness of each loop. `DemoServer`: of the server, of the network and
  of a client that reads. `Verifier`: of its threads and of the receive timeout; nothing is
  assumed of the server.

## 5. Proofs

Each theorem is `Spec => []P` or `Spec => IsFifo`, for every value of the constants that
the named `ASSUME`s allow. In each, an inductive invariant is shown to hold in the initial
states, to be kept by every action, and to imply the property. The named properties are those
of the runs, so that TLC has checked each on an instance as well; the types, `MutualExclusion`, `PointerAssertions`, `AbortsOnlyWhenFull`,
`HalfDuplex` and `WaitsOnlyWhenDrained` are proved without being among them.

### Queue and inter-thread posts

The queue (`QueueNoLostWakeup`, `QueueIsFifo`; any number of threads, any capacity above
0). The inductive invariant is `TypeOK`, `MutualExclusion`, `RingConsistent`,
`NoSleepingConsumer` and `NoSleepingProducer` together. Ring consistency is needed because
`is_full` and `is_empty` combine all three fields, mutual exclusion because the fields are
changed by a thread that tested them in an earlier step. `NoSleepingConsumer` is the
wakeup argument: the broadcast happens only when `size` becomes 1, which is enough
because no consumer sleeps with `size > 0`. From it follow the asserts of the pointer
increments, and the refinement, step by step: `AddPut` appends to the contents,
`RemoveTake` drops their head, every other step leaves them.

The ready list (`ReadyListAborts`, `ReadyListIsFifo`; any capacity above 1). The lemmas
compute the ring's size as a distance with wrap-around; adding appends to the contents and
removing takes their head. So the ready list is a FIFO of capacity - 1, and its assertion
fails only when that many functors wait.

Posts from other threads (`InterthreadPostsInOrder`; any number of threads, any capacity above
1 and any number of posts outstanding, a list that fills up included). `InOrder` alone is not inductive. `Locked` says who holds the mutex at
each point; `Announced` says that the counter of the eventfd, an event in the batch or a thread
about to signal each imply a functor in the list, which is why a wakeup finds one although
posts share wakeups; `OneAtATime` says that the one argument field of the watcher is enough,
because the ready list is drained before the next event is dispatched. That every post runs
is not provable: `interthread_burst` shows that it is false.

### Asynchronous server

Any set of connections, any buffer, response and request sizes above 0. `IInv` joins the
half-duplex discipline of each connection to the ready list: `Matches(ready_list, Cont)`
says that the list holds, without duplicates, exactly the functor that the state of each
registered connection calls for. Neither part is inductive alone: a functor keeps the
discipline only if the connection is in the state the functor was posted for, and the list
matches only if the states of the two sides exclude each other. The rest of `IInv` says which
connections are registered, that the accept queue has no duplicates and no open connection,
and what an unregistered connection looks like. `RunMatches` and `PostedMatches` are the two
facts about sequences it rests on: running takes away the first functor and its connection's
claim to one, posting adds both. It follows that a connection is never stuck with nothing
posted, no functor runs twice or after its connection is freed, and the loop waits only when
the list is empty (`AsyncServerOneContinuation`, `AsyncServerNothingOutlives`,
`AsyncServerDrains`).

`EInv` adds, for each registered connection, what a side in `EAGAINED` relies on. `OutputAt`:
a writer waits either for a socket that has no space and will report it, or for an event that
is ready in epoll or in the batch being dispatched. `InputAt` says the same of a reader with
input to read. Both halves are needed: space returns by a step of the client, which turns the
first into the second; `epoll_wait` and dispatch move the event and, at its end, run the side
that waits. `IInv` is needed for the events that are dropped because their side is not in
`EAGAINED`. For output this holds for every value of the constants
(`AsyncServerOutputNotForgotten`). For input it holds when one `recv` takes all that a socket
can hold (`RcvCap <= RecvMax`, a hypothesis of `AsyncServerInputNotForgotten`): the `recv`
after which the reader waits then leaves nothing behind, however stale its `errno` is.
Without that assumption the statement is false, which is what `async_stale_errno` shows.

### Synchronous server

`SyncServerServesInOrder` and `SyncServerEndsOnlyForCause`, for any number of workers,
connections, requests and descriptors and any socket buffer. The answers of a connection are
in order only because what is still to be answered is, so `SyncInv` speaks of `Pending(c)`: the
request a worker is answering, its `input_list`, and the requests in the socket buffer, in
this order. `At(c)` says that answers and pending requests together are the numbers sent so
far, that a request without keep-alive is the last one, and that a client still up that does not
misbehave has such a last one pending or to send. From this the causes follow: a worker that
reads and gets an error, or aborts, does so on a connection whose client has left, been reset,
fallen silent or sent something malformed. `Exclusive` and `BacklogOK` are needed so that a
step of one worker leaves the pending requests of the others' connections alone.

`Pending` uses `Messages`, the recursive function that computes what llhttp makes of a buffer.
What it does to a buffer that grows, and that it is the identity on a list of requests, is
shown by induction over the length. The library's induction theorems cannot be used, because
they take an operator; `WFMin`, which takes a set, can: the set of the lengths for which
the statement fails has no least element. The six facts that the steps need are `Laws`:
`SyncServerSteps` has them as a hypothesis of its lemmas, `SyncServerProofs` proves them and
with them the theorems.

### Run loop

`RunLoopKeepsTable`, `RunLoopStopsOnlyWhen` and `RunLoopTimersNotEarly`, for any sets of
timers, eventfds, streams, listeners and queues, any number of calls and any intervals.
`Agrees(r, D)` says that table, count and epoll agree but for the deleted fds `D`; it is kept
by `rtor_reactor_register` and its relatives as functions, of which the watchers' operations
are made. `BatchAsReported` is the argument about batches: an event that `epoll_wait` has reported is still good when it is
dispatched, unless its fd had been deleted or its eventfd armed without a handler, or a handler
earlier in the batch deregistered its watcher, cleared its eventfd or set its timer again; the
model's history records which. `TimersOnTime` says that what is left of a timer makes up for the time that has not passed. `InterestAsArmed`, `Phases` and
`QueueAndEnd` say what is watched for what, where handlers run, and how the loop ended.
The history counts the seconds since a timer was set only up to the whole seconds of its
interval (`Tick`), which is all the property compares with.

### Ownership and programs

`ConnectionsOwnOnce`, for any number of connections, loops and messages. Nothing is freed
twice because what will be freed is live: `HeldAreLive` says it of the message being parsed, the
request being answered and all that disposal frees, `MessagesApart` that these are different
messages, `RestIsHeld` that nothing but parts of messages is left for nobody.
`DescriptorsKept` covers the second close: the descriptor is free, or belongs to a connection
of another loop.

`AsyncAppKeepsServing`, for any number of threads: a loop's server is live while the loop
runs and freed once. `SyncAppServesQueued`, for any number of workers and any capacity: in
the queue every connection that was accepted before the SIGINT is in front of every -1, so
that a worker takes it before any worker ends.

### Library

`IOBufferKeepsBytes` and `CbufferAlwaysKeepsString`, for every capacity. The invariants relate
memory, position and length to the text put in, byte by byte. For the IOBuffer an emptied
one must also be at its start, or the next bytes would not fit. For the Cbuffer `m_size` may
point behind the string, but never to a place without a terminator, which is what the next
append overwrites.

`OldServerForgetsNone` and `OldConnectionStallsOnlyOnStaleErrno`, for any number of connections and messages and any buffer sizes: one function at most is posted at a time in the
older server, and it accounts for the one connection that waits for nothing; in the older
connection the history variable `parked` marks the one way to rest with input unread, and a read
that takes all there is leaves no input behind in it, only the client's end.

### What is only model-checked

* Everything about liveness: the prover does not reason about fairness.
* `AllAnswered`, `EveryPostRuns`, `EagainedIsDrained` and `KeepsServing` are false, as the runs
  show.
* `EchoInOrder` of the demo server: the parser's result depends on what all earlier bytes did,
  so its invariant would have to say what the parser computes for every input cut anywhere.
  `MessageAsSent`, `UrlSplits` and `HeadersAsMeant` are of the same kind.
* `ListAsCalled` and `ChainHoldsText`: the sequence that a chain of nodes stands for is defined
  recursively over the pointers, and what a recursive definition computes for every input is
  out of the prover's reach.
* `DemoGoesOn`, `RoundTripsCounted`, `HelpersReportTruly` and `ItemsAnnounced`: no proof is
  kept here.

## 6. Not modelled

* Logging, options, the text of pages and of reports, memory exhaustion (`eg_alloc`
  exits).
* The limit of 1024 descriptors of the fd table. Of the descriptors that `rtor_reactor_close`
  closes with the table's iterator only the queue's is counted (`Closes`), the one that is
  closed again later.
* `async/connection_cleanup.c`, `AsyncServer_destroy`, `runloop/run_list.c`, `fd_map.c`,
  `sync_connection_read_request`, `MessageResponse` and its relatives, `TcpConn_read_some`,
  `handler_echo`, `tcp_conn_list`: called from nowhere, or stubs.
* `demo_protocol/demo_client.c` and the synchronous reader and writer beside it: the reader
  calls functions that exist only in a saved version of the parser, so there is no
  program to model.
* The chunk callbacks of `http/parser.c`, which do nothing; llhttp, a library.
* `verify_response` beyond its result, which is always true for a response
  (`VERIFY_DISABLED`).
* Templates that generate copies of `list.c`, `saved/` but for the parser that `async-old/` calls, `junk/`, tests, tools, the Python
  client.
* The demo server with more than one connection: connections share only the loop.

## 7. What could be added

* Proofs: `RoundTripsCounted` of the verifier and `DemoGoesOn` of the demo server; the bound
  of the ready list by the number of connections; `ItemsAnnounced`; `ListAsCalled`, whose
  invariant has to say that the nodes form one chain.
* A client of `AsyncServer` that never runs out of requests, for the drain of the ready list
  that it could keep from ending.
* The descriptors of the fd table as numbers, once the code has a limit to check them
  against.
* `AsyncApp` composed with `AsyncServer`, so that several loops serve connections to the end.
