-------------------------- MODULE InterthreadQueue --------------------------
(***************************************************************************)
(* runloop/interthread_queue.c: the older queue between threads, a list    *)
(* under a mutex with an eventfd watcher to wake the loop.  It is compiled *)
(* and exported in runloop.h; the reactor uses EvfdQueue instead (module   *)
(* InterthreadPost).                                                       *)
(*                                                                         *)
(* Adders put one item each.  The owner of the loop registers the queue,   *)
(* deregisters it, and may drain it at any time.  The watcher is the two-  *)
(* pipe build of w_eventfd.c: reads of the pipe block.                     *)
(***************************************************************************)
EXTENDS Naturals, Sequences

CONSTANTS Adders,   \* threads that call rtor_interthread_queue_add
          PipeRoom  \* events the pipe takes

VARIABLES itq,      \* the RtorInterthreadQueue with its eventfd watcher
          adder,    \* adder[t]: "start", "locked", "writing" or "added"
          drainer,  \* the owner: "idle", "locked", "calling" or "reading"
          drained,  \* history: the items draincb was called with, at most two calls
          arrival   \* history: the adders in the order in which they got the mutex

itqVars == <<itq, adder, drainer, drained, arrival>>

\* rtor_interthread_queue_init: neither the mutex nor the handler is
\* initialised.  A mutex of stray bytes is one that nobody can lock.
rtor_interthread_queue_init ==
    {[queue |-> << >>, events |-> 0, queue_mutex |-> m, registered |-> FALSE,
      fd_event_handler |-> "unset", interest |-> {}] : m \in {"free", "stray"}}

InterthreadQueueInit ==
    /\ itq \in rtor_interthread_queue_init
    /\ adder = [t \in Adders |-> "start"]
    /\ drainer = "idle"
    /\ drained = << >>
    /\ arrival = << >>

\* The handler is set, and cleared again by rtor_eventfd_register, which
\* registers the descriptor without any interest.
rtor_eventfd_register(q) ==
    [q EXCEPT !.fd_event_handler = "NULL", !.interest = {}, !.registered = TRUE]

rtor_interthread_queue_register ==
    /\ drainer = "idle"
    /\ ~itq.registered
    /\ itq' = rtor_eventfd_register([itq EXCEPT !.fd_event_handler = "static_handler"])
    /\ UNCHANGED <<adder, drainer, drained, arrival>>

rtor_interthread_queue_deregister ==
    /\ drainer = "idle"
    /\ itq.registered
    /\ itq' = [itq EXCEPT !.registered = FALSE]
    /\ UNCHANGED <<adder, drainer, drained, arrival>>

\* The first part of rtor_interthread_queue_add and of
\* rtor_interthread_queue_drain.
AddLocks(t) ==
    /\ adder[t] = "start"
    /\ itq.queue_mutex = "free"
    /\ itq' = [itq EXCEPT !.queue_mutex = "held"]
    /\ adder' = [adder EXCEPT ![t] = "locked"]
    /\ arrival' = Append(arrival, t)
    /\ UNCHANGED <<drainer, drained>>

DrainLocks ==
    /\ drainer = "idle"
    /\ itq.queue_mutex = "free"
    /\ itq' = [itq EXCEPT !.queue_mutex = "held"]
    /\ drainer' = "locked"
    /\ UNCHANGED <<adder, drained, arrival>>

\* Faulty form: the mutex is released before the event is written.
rtor_interthread_queue_addUnlocks(t) ==
    /\ \/ /\ adder[t] = "locked"
          /\ itq' = [itq EXCEPT !.queue = Append(@, t), !.queue_mutex = "free"]
          /\ adder' = [adder EXCEPT ![t] = "writing"]
       \/ /\ adder[t] = "writing" /\ itq.events < PipeRoom
          /\ itq' = [itq EXCEPT !.events = @ + 1]
          /\ adder' = [adder EXCEPT ![t] = "added"]
    /\ UNCHANGED <<drainer, drained, arrival>>

\* The rest of rtor_interthread_queue_add: the item is added, and the event
\* written with the mutex held; write waits while the pipe is full.
rtor_interthread_queue_add(t) ==
    /\ \/ /\ adder[t] = "locked"
          /\ itq' = [itq EXCEPT !.queue = Append(@, t)]
          /\ adder' = [adder EXCEPT ![t] = "writing"]
       \/ /\ adder[t] = "writing" /\ itq.events < PipeRoom
          /\ itq' = [itq EXCEPT !.events = @ + 1, !.queue_mutex = "free"]
          /\ adder' = [adder EXCEPT ![t] = "added"]
    /\ UNCHANGED <<drainer, drained, arrival>>

\* The loop of rtor_interthread_queue_drain removes one item and has no step:
\* with an item, draincb is called with it again and again.  Without one,
\* rtor_eventfd_clear_all_events reads the pipe until the read fails, which the
\* blocking read of the empty pipe does not.
rtor_interthread_queue_drain ==
    \/ /\ drainer = "locked" /\ itq.queue # << >>
       /\ drained' = <<Head(itq.queue)>>
       /\ itq' = [itq EXCEPT !.queue = Tail(@)]
       /\ drainer' = "calling"
       /\ UNCHANGED <<adder, arrival>>
    \/ /\ drainer = "calling" /\ Len(drained) < 2
       /\ drained' = Append(drained, drained[1])
       /\ UNCHANGED <<itq, adder, drainer, arrival>>
    \/ /\ drainer = "locked" /\ itq.queue = << >>
       /\ itq' = [itq EXCEPT !.events = 0]
       /\ drainer' = "reading"
       /\ UNCHANGED <<adder, drained, arrival>>

InterthreadQueueNext ==
    \/ rtor_interthread_queue_register \/ rtor_interthread_queue_deregister
    \/ DrainLocks \/ rtor_interthread_queue_drain
    \/ \E t \in Adders : AddLocks(t) \/ rtor_interthread_queue_add(t)

-----------------------------------------------------------------------------
\* The item that the drain calls draincb with, again and again.
Handed == IF drained = << >> THEN << >> ELSE <<Head(drained)>>

\* The item that a thread which holds the mutex has yet to add.
Coming == SelectSeq(arrival, LAMBDA t : adder[t] = "locked")

\* However adders, registration and a drain interleave, the items are in the list
\* in the order in which their adders got the mutex, none is lost or there twice,
\* and the drain hands over the oldest one only (interthread_queue.c:45-68).
AddedInOrder ==
    arrival = Handed \o itq.queue \o Coming

\* Whoever gets the mutex finds one event in the pipe for each item.  An item
\* without an event is only there while its adder holds the mutex, for ever if
\* the pipe is full, or after a drain, which never releases it: so no thread
\* drains a list that has outgrown the pipe (interthread_queue.c:46-56, 63-68).
AnnouncedWhenFree ==
    /\ itq.queue_mutex = "free" => itq.events = Len(itq.queue)
    /\ Len(itq.queue) > itq.events =>
          \E t \in Adders : adder[t] = "writing" /\ t = itq.queue[itq.events + 1]
    /\ drainer # "idle" => \A t \in Adders : adder[t] \in {"start", "added"}

\* The items are in the list as they came, and announced one by one.
ItemsAnnounced == AddedInOrder /\ AnnouncedWhenFree
=============================================================================
