------------------------------ MODULE RunLoop ------------------------------
(***************************************************************************)
(* The run loop with all its kinds of watcher: reactor.c, fdtable.c,       *)
(* w_timerfd.c, w_eventfd.c, w_stream.c, w_listener.c and w_queue.c of     *)
(* http_in_c/runloop.                                                      *)
(*                                                                         *)
(* The user of the loop calls the functions of the watchers before the     *)
(* loop runs, in the handlers it calls and in the functors that were       *)
(* posted; it calls them on watchers in the state they are for.  Kernel    *)
(* and other threads make fds ready meanwhile.  What goes through the      *)
(* interthread queue is in module InterthreadPost; here its watcher is     *)
(* only one that counts as watched.                                        *)
(*                                                                         *)
(* Time passes in half seconds.                                            *)
(***************************************************************************)
EXTENDS Integers, FiniteSets

CONSTANTS Timers, Eventfds, Streams, Listeners, Queues,   \* the watchers, each with its fd
          Intervals,    \* intervals of timers
          OneShot,      \* it_interval of a timer that does not repeat (11 seconds)
          Programs,     \* the sets of watchers that a user works with
          MaxCalls,     \* bound: calls of the user
          MaxFires,     \* bound: events in the pipe of an eventfd watcher
          None

Fds == Timers \cup Eventfds \cup Streams \cup Listeners \cup Queues
Second == 2
Interests == SUBSET {"IN", "OUT", "ET", "EXCLUSIVE"}

\* Every watcher has an fd of its own, and the one of the queue is the loop's.
ASSUME RunLoopAssumption ==
    /\ Timers \cap (Eventfds \cup Streams \cup Listeners \cup Queues) = {}
    /\ Eventfds \cap (Streams \cup Listeners \cup Queues) = {}
    /\ Streams \cap (Listeners \cup Queues) = {}
    /\ Listeners \cap Queues = {}
    /\ Programs \subseteq SUBSET (Fds \ Queues)
    /\ Intervals \subseteq Nat
    /\ OneShot \in Nat
    /\ None \notin Fds \cup {"idle", "closed", "interrupted"}
    /\ \A interest \in Interests : interest # None

VARIABLES used,     \* the watchers this user works with
          rx,       \* the reactor with its fd table, and the epoll instance
          timer,    \* timer[t]: a timer watcher and its timerfd
          event,    \* event[e]: an eventfd watcher and the events in its pipe
          stream,   \* stream[s]: a stream watcher
          input,    \* input[s]: what stream or listener s is ready for
          loop,     \* where the loop is
          batch,    \* the fds whose event is still to be dispatched
          running,  \* the user's code that runs now: a handler, a functor, or None
          calls,    \* calls the user has made
          history,  \* what the properties need to know of the past, and three more:
          deleted,  \* the fds that rtor_reactor_delete took out of the table
          bare,     \* the eventfd watchers that were armed and left without a handler
          turned    \* the loop has dispatched events

marks == <<deleted, bare, turned>>
loopVars == <<used, rx, timer, event, stream, input, loop, batch, running, calls, history, marks>>

-----------------------------------------------------------------------------
(* reactor.c and fdtable.c, on a reactor r.  A call that fails an assertion *)
(* clears ok.                                                              *)

FdTable_new == [table |-> {}, count |-> 0]

rtor_reactor_init ==
    [table |-> FdTable_new.table, count |-> FdTable_new.count, epoll |-> [fd \in Fds |-> None], edge |-> [fd \in Fds |-> FALSE],
     ready |-> 0, closed_flag |-> FALSE, queue |-> None, ok |-> TRUE]

\* A change of interest makes epoll look again at an fd that is ready.  The
\* interest of an EPOLLEXCLUSIVE fd cannot be changed.
rtor_epoll_ctl(r, op, fd, interest) ==
    IF \/ r.closed_flag
       \/ op = "ADD" /\ r.epoll[fd] # None
       \/ op # "ADD" /\ r.epoll[fd] = None
       \/ op = "MOD" /\ "EXCLUSIVE" \in r.epoll[fd]
    THEN [r EXCEPT !.ok = FALSE]
    ELSE [r EXCEPT !.epoll[fd] = IF op = "DEL" THEN None ELSE interest, !.edge[fd] = op # "DEL"]

FdTable_insert(r, fd) ==
    [r EXCEPT !.ok = @ /\ fd \notin r.table, !.table = @ \cup {fd}, !.count = @ + 1]
FdTable_remove(r, fd) ==
    [r EXCEPT !.ok = @ /\ fd \in r.table, !.table = @ \ {fd}, !.count = @ - 1]
FdTable_lookup(r, fd) == [r EXCEPT !.ok = @ /\ fd \in r.table]
FdTable_size(r) == r.count
FdTable_free(r) == [r EXCEPT !.table = {}, !.count = 0]

rtor_reactor_register(r, fd, interest) ==
    FdTable_insert(rtor_epoll_ctl(r, "ADD", fd, interest), fd)

\* The fd stays with epoll.
rtor_reactor_delete(r, fd) == FdTable_remove(FdTable_lookup(r, fd), fd)

\* Faulty form of rtor_reactor_deregister: rtor_reactor_delete.
rtor_reactor_deregisterTableOnly(r, fd) == rtor_reactor_delete(r, fd)

rtor_reactor_deregister(r, fd) ==
    FdTable_remove(rtor_epoll_ctl(FdTable_lookup(r, fd), "DEL", fd, {}), fd)

rtor_reactor_reregister(r, fd, interest) ==
    rtor_epoll_ctl(FdTable_lookup(r, fd), "MOD", fd, interest)

rtor_reactor_post(r) == [r EXCEPT !.ready = @ + 1]

\* The epoll instance and every registered fd are closed; the table keeps them.
rtor_reactor_close(r) == [r EXCEPT !.closed_flag = TRUE, !.epoll = [fd \in Fds |-> None]]

\* rtor_wqueue_register and rtor_wqueue_deregister
rtor_wqueue_register(r, q) == rtor_reactor_register(r, q, {"IN"})
rtor_wqueue_deregister(r, q) == rtor_reactor_deregister(r, q)

\* How often the fd of the queue is closed with its watcher.
rtor_wqueue_dispose(r) == IF r.queue = None THEN 0 ELSE 1

rtor_reactor_enable_interthread_queue(r, q) == [rtor_wqueue_register(r, q) EXCEPT !.queue = q]

-----------------------------------------------------------------------------
(* w_timerfd.c *)

rtor_timer_init ==
    [interval |-> 0, repeating |-> FALSE, handler |-> FALSE,
     armed |-> FALSE, left |-> 0, period |-> 0, pending |-> FALSE]

WholeSeconds(interval) == Second * (interval \div Second)

\* Faulty form of WTimerFd_update_interval: the seconds are left out.
WTimerFd_update_intervalFraction(t, interval, repeating) ==
    [t EXCEPT !.interval = interval, !.repeating = repeating, !.armed = interval # 0,
              !.left = 0, !.period = IF repeating THEN 0 ELSE OneShot, !.pending = FALSE]

\* Faulty form of WTimerFd_update_interval: it_value is left 0 for a repeating timer.
WTimerFd_update_intervalNoValue(t, interval, repeating) ==
    [t EXCEPT !.interval = interval, !.repeating = repeating, !.armed = interval # 0 /\ ~repeating,
              !.left = 0, !.period = OneShot, !.pending = FALSE]

\* The struct itimerspec, given to timerfd_settime by every caller.  The part
\* beyond the seconds is computed in microseconds and used as nanoseconds: it is
\* no time at all, but it is not 0, which would stop the timer.
WTimerFd_update_interval(t, interval, repeating) ==
    LET value == WholeSeconds(interval)
    IN  [t EXCEPT !.interval = interval, !.repeating = repeating, !.armed = interval # 0,
                  !.left = value, !.period = IF repeating THEN value ELSE OneShot,
                  !.pending = FALSE]

rtor_timer_disarm(t) == WTimerFd_update_interval(t, t.interval, t.repeating)
rtor_timer_rearm(t) == WTimerFd_update_interval(t, t.interval, t.repeating)
rtor_timer_rearm_old(t, interval, repeating) ==
    WTimerFd_update_interval([t EXCEPT !.handler = TRUE], interval, repeating)

-----------------------------------------------------------------------------
(* What is ready, and what the user does *)

rtor_eventfd_init == [pipe |-> 0, handler |-> FALSE]

\* rtor_stream_init leaves both_handler as malloc gave it.
rtor_stream_init == [mask : {{}}, both : {"null", "garbage"}, read : {FALSE}, write : {FALSE}]

RunLoopInit ==
    /\ used \in Programs
    /\ \E q \in Queues \cup {None} :
        rx = IF q = None THEN rtor_reactor_init ELSE rtor_reactor_enable_interthread_queue(rtor_reactor_init, q)
    /\ timer = [t \in Timers |-> rtor_timer_init]
    /\ event = [e \in Eventfds |-> rtor_eventfd_init]
    /\ stream \in [Streams -> rtor_stream_init]
    /\ \A s \in Streams \ used : stream[s].both = "null"
    /\ input = [fd \in Streams \cup Listeners |-> {}]
    /\ loop \in {"setup", "off"}
    /\ batch = {}
    /\ running = None
    /\ calls = 0
    /\ history = [since |-> [t \in Timers |-> 0], reset |-> {}, dropped |-> {}, cleared |-> {},
                  refused |-> FALSE, early |-> FALSE, ended |-> None, closes |-> 0]
    /\ deleted = {}
    /\ bare = {}
    /\ turned = FALSE

Ready(fd) ==
    CASE fd \in Timers -> IF timer[fd].pending THEN {"IN"} ELSE {}
      [] fd \in Eventfds -> IF event[fd].pipe > 0 THEN {"IN"} ELSE {}
      [] fd \in Queues -> {}
      [] OTHER -> input[fd]

EpollReady == {fd \in Fds : /\ rx.epoll[fd] # None
                            /\ Ready(fd) \cap rx.epoll[fd] # {}
                            /\ "ET" \in rx.epoll[fd] => rx.edge[fd]}

\* The user's code is before rtor_reactor_run, in a handler or in a functor.
Call ==
    /\ loop = "setup" \/ running # None
    /\ loop \notin {"aborted", "blocked", "reading"}
    /\ ~rx.closed_flag
    /\ calls < MaxCalls
    /\ calls' = calls + 1
    /\ UNCHANGED <<batch, running, input>>

\* The reactor is r after the call, or an assertion has ended the program.
Becomes(r) ==
    /\ rx' = r
    /\ loop' = IF r.ok THEN loop ELSE "aborted"

Watched(fd) == fd \in rx.table

\* A timer is set while its event is still to be dispatched.
Set(t) == [history EXCEPT !.since[t] = 0,
                          !.reset = IF t \in batch THEN @ \cup {t} ELSE @]
Dropped(fd) == [history EXCEPT !.dropped = IF fd \in batch THEN @ \cup {fd} ELSE @]

rtor_timer_register(t, interval, repeating) ==
    /\ Call
    /\ ~Watched(t)
    /\ timer' = [timer EXCEPT ![t] =
                    WTimerFd_update_interval([@ EXCEPT !.handler = TRUE], interval, repeating)]
    /\ Becomes(rtor_reactor_register(rx, t, {"IN"}))
    /\ history' = Set(t)
    /\ UNCHANGED <<event, stream>>

\* The interest becomes 0.
rtor_timer_update(t, interval, repeating) ==
    /\ Call
    /\ Watched(t)
    /\ timer' = [timer EXCEPT ![t] = WTimerFd_update_interval(@, interval, repeating)]
    /\ Becomes(rtor_reactor_reregister(rx, t, {}))
    /\ history' = Set(t)
    /\ UNCHANGED <<event, stream>>

\* rtor_timer_disarm, rtor_timer_rearm and rtor_timer_rearm_old
SetTimer(t) ==
    /\ Call
    /\ Watched(t)
    /\ \/ timer' = [timer EXCEPT ![t] = rtor_timer_disarm(@)]
       \/ timer' = [timer EXCEPT ![t] = rtor_timer_rearm(@)]
       \/ \E interval \in Intervals, repeating \in BOOLEAN :
            timer' = [timer EXCEPT ![t] = rtor_timer_rearm_old(@, interval, repeating)]
    /\ history' = Set(t)
    /\ UNCHANGED <<rx, loop, event, stream>>

\* rtor_timer_deregister, rtor_eventfd_deregister, rtor_stream_deregister and
\* rtor_listener_deregister
Deregister(fd) ==
    /\ Call
    /\ Watched(fd)
    /\ Becomes(rtor_reactor_deregister(rx, fd))
    /\ history' = Dropped(fd)
    /\ UNCHANGED <<timer, event, stream>>

\* A call of rtor_reactor_delete.
Delete(fd) ==
    /\ Call
    /\ Watched(fd)
    /\ Becomes(rtor_reactor_delete(rx, fd))
    /\ deleted' = deleted \cup {fd}
    /\ UNCHANGED <<timer, event, stream, history, bare, turned>>

rtor_eventfd_register(e) ==
    /\ Call
    /\ ~Watched(e)
    /\ event' = [event EXCEPT ![e].handler = FALSE]
    /\ Becomes(rtor_reactor_register(rx, e, {}))
    /\ UNCHANGED <<timer, stream, history>>

\* The handler that is given, if one is given, replaces the one there was.
Handle(e, given) ==
    /\ event' = [event EXCEPT ![e].handler = @ \/ given]
    /\ bare' = IF event[e].handler \/ given THEN bare \ {e} ELSE bare \cup {e}

rtor_eventfd_change_watch(e, given, interest) ==
    /\ Call
    /\ Watched(e)
    /\ Handle(e, given)
    /\ Becomes(rtor_reactor_reregister(rx, e, interest))
    /\ UNCHANGED <<timer, stream, history, deleted, turned>>

rtor_eventfd_arm(e, given) ==
    /\ Call
    /\ Watched(e)
    /\ Handle(e, given)
    /\ Becomes(rtor_reactor_reregister(rx, e, {"IN"}))
    /\ UNCHANGED <<timer, stream, history, deleted, turned>>

rtor_eventfd_disarm(e) ==
    /\ Call
    /\ Watched(e)
    /\ Becomes(rtor_reactor_reregister(rx, e, {}))
    /\ UNCHANGED <<timer, event, stream, history>>

\* An event is taken out of the pipe while it is still to be dispatched.
Cleared(e) == [history EXCEPT !.cleared = IF e \in batch THEN @ \cup {e} ELSE @]

\* One read, which waits if the pipe is empty.
rtor_eventfd_clear_one_event(e) ==
    /\ Call
    /\ IF event[e].pipe > 0
       THEN /\ event' = [event EXCEPT ![e].pipe = @ - 1]
            /\ history' = Cleared(e)
            /\ UNCHANGED loop
       ELSE loop' = "reading" /\ UNCHANGED <<event, history>>
    /\ UNCHANGED <<rx, timer, stream>>

\* Reads until a read fails, which the read of an empty pipe does not do.
rtor_eventfd_clear_all_events(e) ==
    /\ Call
    /\ event' = [event EXCEPT ![e].pipe = 0]
    /\ loop' = "reading"
    /\ history' = Cleared(e)
    /\ UNCHANGED <<rx, timer, stream>>

\* What all functions that arm and disarm a stream do.
Rewatch(s, w) ==
    /\ Call
    /\ Watched(s)
    /\ stream' = [stream EXCEPT ![s] = w]
    /\ Becomes(rtor_reactor_reregister(rx, s, w.mask))
    /\ UNCHANGED <<timer, event, history>>

rtor_stream_register(s) ==
    /\ Call
    /\ ~Watched(s)
    /\ Becomes(rtor_reactor_register(rx, s, {}))
    /\ UNCHANGED <<timer, event, stream, history>>

rtor_stream_arm_both(s) ==
    Rewatch(s, [stream[s] EXCEPT !.mask = @ \cup {"ET", "IN", "OUT"}, !.both = "set"])
rtor_stream_arm_read(s) == Rewatch(s, [stream[s] EXCEPT !.mask = @ \cup {"IN"}, !.read = TRUE])
rtor_stream_arm_write(s) == Rewatch(s, [stream[s] EXCEPT !.mask = @ \cup {"OUT"}, !.write = TRUE])

rtor_stream_disarm_read(s) == Rewatch(s, [stream[s] EXCEPT !.mask = @ \ {"IN"}, !.read = FALSE])
rtor_stream_disarm_write(s) == Rewatch(s, [stream[s] EXCEPT !.mask = @ \ {"OUT"}])

rtor_listener_register(l) ==
    /\ Call
    /\ ~Watched(l)
    /\ Becomes(rtor_reactor_register(rx, l, {"IN", "EXCLUSIVE"}))
    /\ UNCHANGED <<timer, event, stream, history>>

rtor_listener_arm(l) ==
    /\ Call
    /\ Watched(l)
    /\ Becomes(rtor_reactor_reregister(rx, l, {"IN"}))
    /\ history' = [history EXCEPT !.refused = TRUE]
    /\ UNCHANGED <<timer, event, stream>>

WListenerFd_disarm(l) ==
    /\ Call
    /\ Watched(l)
    /\ Becomes(rtor_reactor_reregister(rx, l, {}))
    /\ history' = [history EXCEPT !.refused = TRUE]
    /\ UNCHANGED <<timer, event, stream>>

Post ==
    /\ Call
    /\ rx' = rtor_reactor_post(rx)
    /\ UNCHANGED <<loop, timer, event, stream, history>>

Closes(r) == IF r.queue \in r.table THEN history.closes + 1 ELSE history.closes

Close ==
    /\ Call
    /\ rx' = rtor_reactor_close(rx)
    /\ history' = [history EXCEPT !.closes = Closes(rx), !.ended = "closed"]
    /\ UNCHANGED <<loop, timer, event, stream>>

PlainCall ==
    \/ \E t \in Timers \cap used, interval \in Intervals, repeating \in BOOLEAN :
        \/ rtor_timer_register(t, interval, repeating)
        \/ rtor_timer_update(t, interval, repeating)
    \/ \E t \in Timers \cap used : SetTimer(t)
    \/ \E fd \in used : Deregister(fd)
    \/ \E e \in Eventfds \cap used :
        \/ rtor_eventfd_register(e)
        \/ rtor_eventfd_disarm(e)
        \/ rtor_eventfd_clear_one_event(e)
        \/ rtor_eventfd_clear_all_events(e)
    \/ \E s \in Streams \cap used :
        \/ rtor_stream_register(s)
        \/ rtor_stream_arm_both(s)
        \/ rtor_stream_arm_read(s)
        \/ rtor_stream_arm_write(s)
        \/ rtor_stream_disarm_read(s)
        \/ rtor_stream_disarm_write(s)
    \/ \E l \in Listeners \cap used :
        \/ rtor_listener_register(l)
        \/ rtor_listener_arm(l)
        \/ WListenerFd_disarm(l)
    \/ Post
    \/ Close

UserCall ==
    \/ PlainCall /\ UNCHANGED marks
    \/ \E fd \in used : Delete(fd)
    \/ \E e \in Eventfds \cap used, given \in BOOLEAN :
        \/ \E interest \in {{}, {"IN"}} : rtor_eventfd_change_watch(e, given, interest)
        \/ rtor_eventfd_arm(e, given)

-----------------------------------------------------------------------------
(* Kernel and other threads *)

\* The thread of the loop is not running, or waits for an event in a pipe.  (An
\* event that ends the wait is one that could as well have come before it.)
Stopped == loop \in {"off", "returned", "freed", "aborted", "blocked", "reading"}

Tick ==
    /\ ~Stopped
    /\ timer' = [t \in Timers |-> [timer[t] EXCEPT !.left = IF @ > 0 THEN @ - 1 ELSE 0]]
    /\ history' = [history EXCEPT !.since =
                      [t \in Timers |-> IF @[t] < WholeSeconds(timer[t].interval) /\ timer[t].armed
                                        THEN @[t] + 1 ELSE @[t]]]
    /\ UNCHANGED <<rx, event, stream, input, loop, batch, running, calls>>

Expire(t) ==
    /\ ~Stopped
    /\ timer[t].armed
    /\ timer[t].left = 0
    /\ timer' = [timer EXCEPT ![t].pending = TRUE, ![t].left = timer[t].period]
    /\ UNCHANGED <<rx, event, stream, input, loop, batch, running, calls, history>>

\* Any thread.
rtor_eventfd_fire(e) ==
    /\ ~Stopped
    /\ event[e].pipe < MaxFires
    /\ event' = [event EXCEPT ![e].pipe = @ + 1]
    /\ UNCHANGED <<rx, timer, stream, input, loop, batch, running, calls, history>>

\* Data or space arrives, or the user takes what there was.
Arrive(fd) ==
    /\ ~Stopped
    /\ \/ \E bit \in {"IN", "OUT"} \ input[fd] :
            /\ bit = "OUT" => fd \in Streams
            /\ input' = [input EXCEPT ![fd] = @ \cup {bit}]
            /\ rx' = [rx EXCEPT !.edge[fd] = rx.epoll[fd] # None]
       \/ /\ running # None
          /\ input[fd] # {}
          /\ input' = [input EXCEPT ![fd] = {}]
          /\ UNCHANGED rx
    /\ UNCHANGED <<timer, event, stream, loop, batch, running, calls, history>>

Environment ==
    \/ Tick
    \/ \E t \in Timers \cap used : Expire(t)
    \/ \E e \in Eventfds \cap used : rtor_eventfd_fire(e)
    \/ \E fd \in (Streams \cup Listeners) \cap used : Arrive(fd)

-----------------------------------------------------------------------------
(* rtor_reactor_run *)

Run ==
    /\ loop = "setup"
    /\ loop' = "top"
    /\ UNCHANGED <<rx, timer, event, stream, input, batch, running, calls, history>>

Top ==
    LET last == FdTable_size(rx) = 1 /\ rx.queue # None
        r == IF last THEN rtor_wqueue_deregister(rx, rx.queue) ELSE rx
    IN  /\ loop = "top"
        /\ rx' = r
        /\ IF FdTable_size(rx) = 0 \/ last
           THEN /\ loop' = IF r.ok THEN "returned" ELSE "aborted"
                /\ history' = [history EXCEPT !.ended = IF @ = None THEN "idle" ELSE @]
           ELSE /\ loop' = IF rx.ready = 0 THEN "wait" ELSE "aborted"
                /\ UNCHANGED history
        /\ UNCHANGED <<timer, event, stream, input, batch, running, calls>>

epoll_wait ==
    /\ loop = "wait"
    /\ ~rx.closed_flag
    /\ EpollReady # {}
    /\ loop' = "dispatch"
    /\ batch' = EpollReady
    /\ rx' = [rx EXCEPT !.edge = [fd \in Fds |-> @[fd] /\ fd \notin EpollReady]]
    /\ history' = [history EXCEPT !.dropped = {}, !.cleared = {}, !.reset = {}]
    /\ turned' = TRUE
    /\ UNCHANGED <<timer, event, stream, input, running, calls, deleted, bare>>

\* epoll_wait fails: a signal came, or the loop was closed.
epoll_waitFails ==
    /\ loop = "wait"
    /\ loop' = "returned"
    /\ history' = [history EXCEPT !.ended = IF rx.closed_flag THEN @ ELSE "interrupted"]
    /\ UNCHANGED <<rx, timer, event, stream, input, batch, running, calls>>

\* The turn of fd in the for loop: FdTable_lookup, and the handler of its watcher.
Dispatching(fd) ==
    /\ loop = "dispatch"
    /\ running = None
    /\ fd \in batch
    /\ batch' = batch \ {fd}
    /\ UNCHANGED <<input, calls>>

DispatchUnwatched(fd) ==
    /\ Dispatching(fd)
    /\ ~FdTable_lookup(rx, fd).ok
    /\ loop' = "aborted"
    /\ UNCHANGED <<rx, timer, event, stream, running, history>>

\* handler of w_timerfd.c: nothing is read when the timer was set meanwhile, and
\* timer_handler is called all the same.
DispatchTimer(t) ==
    /\ Dispatching(t)
    /\ Watched(t)
    /\ timer' = [timer EXCEPT ![t].pending = FALSE]
    /\ Becomes(IF timer[t].repeating THEN rx ELSE rtor_reactor_deregister(rx, t))
    /\ running' = <<t, "handler">>
    /\ history' = [history EXCEPT !.early =
                        @ \/ (t \notin history.reset /\ history.since[t] < WholeSeconds(timer[t].interval))]
    /\ UNCHANGED <<event, stream>>

\* Faulty form of DispatchEventfd: a second read.
DispatchEventfdTwice(e) ==
    /\ Dispatching(e)
    /\ Watched(e)
    /\ IF event[e].pipe < 2
       THEN loop' = "blocked" /\ UNCHANGED <<event, running>>
       ELSE /\ event' = [event EXCEPT ![e].pipe = @ - 2]
            /\ loop' = loop /\ running' = <<e, "handler">>
    /\ UNCHANGED <<rx, timer, stream, history>>

\* handler of w_eventfd.c: the read of an empty pipe waits.
DispatchEventfd(e) ==
    /\ Dispatching(e)
    /\ Watched(e)
    /\ IF event[e].pipe = 0
       THEN loop' = "blocked" /\ UNCHANGED <<event, running>>
       ELSE /\ event' = [event EXCEPT ![e].pipe = @ - 1]
            /\ IF event[e].handler
               THEN loop' = loop /\ running' = <<e, "handler">>
               ELSE loop' = "aborted" /\ UNCHANGED running
    /\ UNCHANGED <<rx, timer, stream, history>>

\* handler of w_stream.c: the handlers in turn, each by what the watcher holds then.
Due(s, after) ==
    CASE after = "start" /\ stream[s].both # "null" -> "both"
      [] after \in {"start", "both"} /\ "IN" \in stream[s].mask /\ stream[s].read -> "read"
      [] after # "write" /\ "OUT" \in stream[s].mask /\ stream[s].write -> "write"
      [] OTHER -> "done"

DispatchStream(s) ==
    /\ Dispatching(s)
    /\ Watched(s)
    /\ loop' = IF stream[s].both = "garbage" THEN "aborted" ELSE loop
    /\ running' = IF Due(s, "start") = "done" THEN None ELSE <<s, Due(s, "start")>>
    /\ UNCHANGED <<rx, timer, event, stream, history>>

DispatchListener(l) ==
    /\ Dispatching(l)
    /\ Watched(l)
    /\ running' = <<l, "handler">>
    /\ UNCHANGED <<rx, timer, event, stream, loop, history>>

\* The user's code returns.
Return ==
    /\ loop \in {"dispatch", "drain"}
    /\ running # None
    /\ running' = IF running[1] \in Streams /\ Due(running[1], running[2]) # "done"
                  THEN <<running[1], Due(running[1], running[2])>> ELSE None
    /\ UNCHANGED <<rx, timer, event, stream, input, loop, batch, calls, history>>

EndDispatch ==
    /\ loop = "dispatch"
    /\ running = None
    /\ batch = {}
    /\ loop' = "drain"
    /\ UNCHANGED <<rx, timer, event, stream, input, batch, running, calls, history>>

\* One turn of the loop over the ready list, or its end.
Drain ==
    /\ loop = "drain"
    /\ running = None
    /\ IF rx.ready > 0
       THEN rx' = [rx EXCEPT !.ready = @ - 1] /\ running' = <<None, "functor">> /\ UNCHANGED loop
       ELSE loop' = "top" /\ UNCHANGED <<rx, running>>
    /\ UNCHANGED <<timer, event, stream, input, batch, calls, history>>

rtor_reactor_free ==
    /\ loop = "returned"
    /\ loop' = "freed"
    /\ rx' = [FdTable_free(rtor_reactor_close(rx)) EXCEPT !.ready = 0]
    /\ history' = [history EXCEPT !.closes =
                        (IF rx.closed_flag THEN @ ELSE Closes(rx)) + rtor_wqueue_dispose(rx)]
    /\ UNCHANGED <<timer, event, stream, input, batch, running, calls>>

PlainStep ==
    \/ Run
    \/ Top
    \/ \E fd \in Fds : DispatchUnwatched(fd)
    \/ \E t \in Timers : DispatchTimer(t)
    \/ \E e \in Eventfds : DispatchEventfd(e)
    \/ \E s \in Streams : DispatchStream(s)
    \/ \E l \in Listeners : DispatchListener(l)
    \/ Return
    \/ EndDispatch
    \/ Drain
    \/ rtor_reactor_free

LoopStep ==
    \/ epoll_wait
    \/ PlainStep /\ UNCHANGED marks

RunLoopNext ==
    /\ loop # "off"
    /\ \/ UserCall
       \/ Environment /\ UNCHANGED marks
       \/ LoopStep
       \/ epoll_waitFails /\ UNCHANGED marks
    /\ UNCHANGED used

RunLoopSpec == RunLoopInit /\ [][RunLoopNext]_loopVars

\* The thread of the loop and the clock go on; the user's code returns.
RunLoopFairness ==
    /\ WF_loopVars(LoopStep /\ UNCHANGED used)
    /\ WF_loopVars(Tick /\ UNCHANGED <<used, marks>>)
    /\ \A t \in Timers : WF_loopVars(Expire(t) /\ UNCHANGED <<used, marks>>)

-----------------------------------------------------------------------------
(* Properties *)

\* As long as the loop is open the fd table, its count and the epoll instance
\* agree about what is watched, whatever is registered and deregistered in
\* handlers, by the user and by single-shot timers; only an fd that
\* rtor_reactor_delete took out of the table stays with epoll, for good.
TableMatchesEpoll ==
    loop # "aborted" /\ ~rx.closed_flag =>
        /\ rx.table \cup deleted = {fd \in Fds : rx.epoll[fd] # None}
        /\ rx.table \cap deleted = {}
        /\ rx.count = Cardinality(rx.table)

\* The program ends in an assertion or a wild call only when a watcher was
\* deregistered while its event of the same batch was still to come, when the fd
\* of one was deleted (epoll goes on reporting it, and it cannot be registered
\* again), when an eventfd watcher was armed and left without a handler, when a
\* listener was armed or disarmed (its fd is EPOLLEXCLUSIVE), when a batch went on
\* after rtor_reactor_close, when a functor was posted before the loop ran, or
\* when a stream was used without rtor_stream_arm_both, which alone sets
\* both_handler.
AbortsOnlyWhen ==
    loop = "aborted" =>
        \/ history.dropped # {}
        \/ deleted # {}
        \/ bare # {}
        \/ history.refused
        \/ rx.closed_flag
        \/ rx.ready > 0
        \/ \E s \in Streams : stream[s].both = "garbage"

\* A timer's handler is not called before the whole seconds of its interval have
\* passed since it was set, unless it was set again by another handler of the
\* batch its event is in.  (The rest of the interval is lost.)
TimersNotEarly == ~history.early

\* The loop's own read of an eventfd watcher's pipe waits only when another
\* handler of the batch, or a functor, has taken the event of this watcher out of
\* the pipe with rtor_eventfd_clear_one_event.  Otherwise the thread waits in a
\* call of the user, for an event of an empty pipe.
BlocksOnlyWhenCleared ==
    /\ loop = "blocked" => \E e \in history.cleared \cap Eventfds : event[e].pipe = 0
    /\ loop = "reading" => \E e \in Eventfds : event[e].pipe = 0

\* The loop returns when nothing but its own queue is in the table, when it was
\* closed or when a signal came.  A functor is left that was not run only if the
\* loop found nothing to watch at once: it was posted before rtor_reactor_run, and
\* no event was ever dispatched.
ReturnsWhenIdle ==
    loop = "returned" =>
        /\ history.ended # None
        /\ history.ended = "idle" => rx.table = {}
        /\ rx.ready > 0 => rx.table = {} /\ ~turned

\* rtor_reactor_free closes the fd of the interthread queue a second time exactly
\* when the loop was closed or interrupted while the queue was still watched.
QueueFdClosedOnce ==
    loop = "freed" /\ rx.queue # None => (history.closes = 1 <=> history.ended = "idle")

\* epoll reports for a stream only what its watcher's event_mask has, so that a
\* disarmed direction cannot wake the loop for ever.
InterestWithinMask ==
    loop # "aborted" => \A s \in Streams : rx.epoll[s] # None => rx.epoll[s] \subseteq stream[s].mask

\* A repeating timer that is set and watched is handled, however busy the other
\* watchers are, as long as the loop goes on.
RepeatingTimersRun ==
    \A t \in Timers :
        LET repeats == /\ Watched(t) /\ rx.epoll[t] = {"IN"}
                       /\ timer[t].repeating /\ timer[t].interval # 0
        IN  loop = "wait" /\ repeats ~> running = <<t, "handler">> \/ Stopped \/ rx.closed_flag \/ ~repeats

\* The records the loop keeps of its watchers are true: the table and epoll agree
\* but for deleted fds, streams are watched for what they armed, and the loop
\* leaves with an empty table and a queue closed once, unless it was closed or
\* interrupted.
LoopKeepsTable ==
    /\ TableMatchesEpoll
    /\ InterestWithinMask
    /\ ReturnsWhenIdle
    /\ QueueFdClosedOnce

\* The loop's thread ends or stays in a handler for the named causes only.
StopsOnlyWhen == AbortsOnlyWhen /\ BlocksOnlyWhenCleared
=============================================================================
