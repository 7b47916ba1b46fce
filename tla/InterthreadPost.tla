-------------------------- MODULE InterthreadPost --------------------------
(***************************************************************************)
(* Posting a callback to a run loop from other threads:                    *)
(* rtor_reactor_interthread_post and interthread_queue_handler of          *)
(* http_in_c/runloop/reactor.c over the queue of evfd_queue.c, a functor   *)
(* list with a mutex and an eventfd that wakes the loop.                   *)
(*                                                                         *)
(* The loop has one other watcher, which may end at an event of its own;   *)
(* when the queue's watcher is the only one left the loop exits.           *)
(***************************************************************************)
EXTENDS FunctorList, FiniteSets

CONSTANTS Posters,    \* the other threads
          NoThread,   \* owner of the free mutex
          Loop,       \* the thread of the run loop
          Capacity,   \* slots of the queue's list (RTOR_MAX_FDS)
          MaxPosts,   \* bound: posts of one thread
          Window,     \* bound: posts that have not run yet
          Ending      \* may the other watcher end?

Jobs == Posters \X (1..MaxPosts)

ASSUME InterthreadAssumption ==
    /\ Capacity \in Nat
    /\ Capacity > 1
    /\ MaxPosts \in Nat
    /\ Window \in Nat
    /\ Ending \in BOOLEAN
    /\ NoThread \notin Posters \cup {Loop}
    /\ Loop \notin Posters
    /\ NoFunctor \notin Jobs

VARIABLES list,         \* the queue's list
          mutex,        \* owner of queue_mutex
          eventfd,      \* the counter of the eventfd
          at,           \* at[p]: is p inside Evfdq_add, and where
          count,        \* count[p]: posts p has made
          loop,         \* where the loop is
          batch,        \* events still to be dispatched
          other,        \* is the other watcher registered?
          op,           \* the functor Evfdq_remove has taken
          handler_arg,  \* queue_event_handler_arg of the watcher
          ready_list,   \* the loop's ready list
          posted,       \* history: jobs in the order they were queued
          ran           \* history: what ran, with the argument it found

queue == <<list, mutex, eventfd>>
threads == <<at, count, posted>>
reactor == <<loop, batch, other, op, handler_arg, ready_list, ran>>
vars == <<queue, threads, reactor>>

\* "aborted" by the assertion of functor_list_remove, "full" by that of
\* functor_list_add in a posting thread: either ends the whole process.
LoopStates ==
    {"top", "wait", "dispatch", "remove", "drain", "exited", "aborted", "full"}

Init ==
    /\ list = functor_list_new(Capacity)
    /\ mutex = NoThread
    /\ eventfd = 0
    /\ at = [p \in Posters |-> "idle"]
    /\ count = [p \in Posters |-> 0]
    /\ loop = "top"
    /\ batch = {}
    /\ other = TRUE
    /\ op = NoFunctor
    /\ handler_arg = NoFunctor
    /\ ready_list = << >>
    /\ posted = << >>
    /\ ran = << >>

-----------------------------------------------------------------------------
(* Evfdq_add, in a posting thread *)

\* A thread calls Evfdq_add and gets the mutex.
MayPost(p) ==
    /\ loop \notin {"aborted", "full"}
    /\ at[p] = "idle"
    /\ count[p] < MaxPosts
    /\ Len(posted) - Len(ran) < Window
    /\ mutex = NoThread

\* Add to the list.  A job is a function with its argument; the pair <<p, n>>
\* names both.
Evfdq_add(p) ==
    LET job == <<p, count[p] + 1>>
    IN  /\ MayPost(p)
        /\ ~functor_list_is_full(list)
        /\ mutex' = p
        /\ list' = functor_list_add(list, job)
        /\ count' = [count EXCEPT ![p] = @ + 1]
        /\ posted' = Append(posted, job)
        /\ at' = [at EXCEPT ![p] = "added"]
        /\ UNCHANGED <<eventfd, reactor>>

\* The loop is behind by as many posts as the list holds: functor_list_add
\* asserts that it has room.
AddToFull(p) ==
    /\ MayPost(p)
    /\ functor_list_is_full(list)
    /\ loop' = "full"
    /\ UNCHANGED <<queue, threads, batch, other, op, handler_arg, ready_list, ran>>

\* Faulty form of Signal: the eventfd is not written.
SignalForgotten(p) ==
    /\ loop \notin {"aborted", "full"}
    /\ at[p] = "added"
    /\ mutex' = NoThread
    /\ at' = [at EXCEPT ![p] = "idle"]
    /\ UNCHANGED <<eventfd, list, count, posted, reactor>>

\* Write to the eventfd, and unlock.
Signal(p) ==
    /\ loop \notin {"aborted", "full"}
    /\ at[p] = "added"
    /\ eventfd' = eventfd + 1
    /\ mutex' = NoThread
    /\ at' = [at EXCEPT ![p] = "idle"]
    /\ UNCHANGED <<list, count, posted, reactor>>

-----------------------------------------------------------------------------
(* The run loop *)

idle_queue == UNCHANGED <<queue, threads>>

\* The tests at the top of the loop.
Top ==
    /\ loop = "top"
    /\ loop' = IF other THEN "wait" ELSE "exited"
    /\ UNCHANGED <<batch, other, op, handler_arg, ready_list, ran>>
    /\ idle_queue

\* epoll_wait; the eventfd is level-triggered.
epoll_wait ==
    /\ loop = "wait"
    /\ \E events \in SUBSET {"queue", "other"} :
          /\ events # {}
          /\ "queue" \in events <=> eventfd > 0
          /\ batch' = events
    /\ loop' = "dispatch"
    /\ UNCHANGED <<other, op, handler_arg, ready_list, ran>>
    /\ idle_queue

OtherEvent ==
    /\ loop = "dispatch"
    /\ "other" \in batch
    /\ batch' = batch \ {"other"}
    /\ \/ UNCHANGED other
       \/ Ending /\ other' = FALSE
    /\ UNCHANGED <<loop, op, handler_arg, ready_list, ran>>
    /\ idle_queue

\* Evfdq_remove as called by interthread_queue_handler: lock, and take one
\* functor off the list; the assertion of functor_list_remove aborts.
Evfdq_remove ==
    /\ loop = "dispatch"
    /\ "queue" \in batch
    /\ mutex = NoThread
    /\ IF functor_list_size(list) = 0
       THEN loop' = "aborted" /\ UNCHANGED <<list, mutex, op, batch>>
       ELSE /\ loop' = "remove"
            /\ batch' = batch \ {"queue"}
            /\ mutex' = Loop
            /\ op' = functor_list_front(list)
            /\ list' = functor_list_remove(list)
    /\ UNCHANGED <<eventfd, threads, other, handler_arg, ready_list, ran>>

\* Reading an eventfd that is not a semaphore sets its counter to 0.
ReadEventfd == 0

\* The rest of Evfdq_remove, the read and the unlock, and of
\* interthread_queue_handler: the functor is posted with the watcher as its
\* argument, which carries the argument of the post.
interthread_queue_handler ==
    /\ loop = "remove"
    /\ eventfd' = ReadEventfd
    /\ mutex' = NoThread
    /\ handler_arg' = op
    /\ ready_list' = Append(ready_list, op)
    /\ op' = NoFunctor
    /\ loop' = "dispatch"
    /\ UNCHANGED <<list, threads, batch, other, ran>>

EndDispatch ==
    /\ loop = "dispatch"
    /\ batch = {}
    /\ loop' = "drain"
    /\ UNCHANGED <<batch, other, op, handler_arg, ready_list, ran>>
    /\ idle_queue

RunFunctor ==
    /\ loop = "drain"
    /\ ready_list # << >>
    /\ ready_list' = Tail(ready_list)
    /\ ran' = Append(ran, [f |-> Head(ready_list), arg |-> handler_arg])
    /\ UNCHANGED <<loop, batch, other, op, handler_arg>>
    /\ idle_queue

\* Faulty form of EndDrain: posted functors are left for a later turn.
EndDrainEarly ==
    /\ loop = "drain"
    /\ loop' = "top"
    /\ UNCHANGED <<batch, other, op, handler_arg, ready_list, ran>>
    /\ idle_queue

EndDrain ==
    /\ loop = "drain"
    /\ ready_list = << >>
    /\ loop' = "top"
    /\ UNCHANGED <<batch, other, op, handler_arg, ready_list, ran>>
    /\ idle_queue

RunLoop ==
    \/ Top
    \/ epoll_wait
    \/ OtherEvent
    \/ Evfdq_remove
    \/ interthread_queue_handler
    \/ EndDispatch
    \/ RunFunctor
    \/ EndDrain

Next == RunLoop \/ \E p \in Posters : Evfdq_add(p) \/ AddToFull(p) \/ Signal(p)

Spec == Init /\ [][Next]_vars

\* The loop runs whenever it is not blocked, a thread inside Evfdq_add leaves
\* it, and the loop is not refused the mutex for ever.
Fairness ==
    /\ WF_vars(RunLoop)
    /\ SF_vars(Evfdq_remove)
    /\ \A p \in Posters : WF_vars(Signal(p))

FairSpec == Spec /\ Fairness

-----------------------------------------------------------------------------
(* Properties *)

\* The type invariant.
TypeOK ==
    /\ list \in RingType(Jobs, Capacity)
    /\ mutex \in Posters \cup {NoThread, Loop}
    /\ eventfd \in Nat
    /\ at \in [Posters -> {"idle", "added"}]
    /\ count \in [Posters -> 0..MaxPosts]
    /\ loop \in LoopStates
    /\ batch \subseteq {"queue", "other"}
    /\ other \in BOOLEAN
    /\ op \in Jobs \cup {NoFunctor}
    /\ handler_arg \in Jobs \cup {NoFunctor}
    /\ ready_list \in Seq(Jobs)
    /\ posted \in Seq(Jobs)
    /\ ran \in Seq([f : Jobs, arg : Jobs])

Taken == IF loop = "remove" THEN <<op>> ELSE << >>
RanJobs == [i \in 1..Len(ran) |-> ran[i].f]

\* Callbacks run in the order they were posted, each once: at any time what
\* ran, what is about to run and what is queued make up what was posted.
InOrder == posted = RanJobs \o ready_list \o Taken \o Contents(list)

\* A callback finds its own argument in the watcher, although the watcher has
\* room for one argument only and is overwritten by the next event.
OwnArgument == \A i \in 1..Len(ran) : ran[i].f = ran[i].arg

\* interthread_queue_handler is never called with an empty list, on which
\* functor_list_remove would abort.
NeverRemovesFromEmpty == loop # "aborted"

\* The posts of all threads run as one sequence: in their order, each once and
\* with its own argument, and a wakeup always finds one.
PostsInOrder == InOrder /\ OwnArgument /\ NeverRemovesFromEmpty

\* A posted callback runs, unless the loop has ended or the list was full.  runloop/readme.md:64-65:
\* "a means of a second thread adding callbacks to a runloop".
EveryPostRuns == \A j \in Jobs :
    (\E i \in 1..Len(posted) : posted[i] = j)
        ~> (\E i \in 1..Len(ran) : ran[i].f = j) \/ loop \in {"exited", "full"}

\* A post wakes the loop: whenever a thread has added a functor, some functor
\* (its own or an older one) runs afterwards, unless the loop ends or a further
\* post finds the list full.
PostWakesLoop ==
    \A p \in Posters : \A n \in 0..(MaxPosts * Cardinality(Posters)) :
        at[p] = "added" /\ Len(ran) = n ~> Len(ran) > n \/ loop \in {"exited", "full"}
=============================================================================
