------------------------------ MODULE Reactor ------------------------------
(***************************************************************************)
(* http_in_c/runloop/reactor.c: the run loop of one thread.                *)
(*                                                                         *)
(* rtor_reactor_run waits for fd events, calls the handler of every event  *)
(* of the batch that epoll_wait returned, then runs the posted functors    *)
(* until the ready list is empty, including those posted meanwhile.  The   *)
(* ready list is the ring of functor_list.c, here the sequence of its      *)
(* elements; the fd table is the set of fds that have a watcher.           *)
(***************************************************************************)
EXTENDS Sockets

CONSTANT Listener    \* the watcher of the listening socket

VARIABLES loop,         \* the part of the loop the thread is in
          batch,        \* watchers whose event is still to be dispatched
          mask,         \* mask[c]: the event bits epoll_wait returned for c
          ready_list,   \* posted functors, oldest first
          table         \* registered connections (the listener always is)

reactor == <<loop, batch, mask, ready_list, table>>

\* "killed": a signal ended the process, SIGPIPE or a failed assertion's SIGABRT.
LoopStates == {"wait", "dispatch", "drain", "killed"}

ReactorInit ==
    /\ loop = "wait"
    /\ batch = {}
    /\ mask = [c \in Conns |-> {}]
    /\ ready_list = << >>
    /\ table = {}

EpollReady ==
    {c \in table : edge[c] /\ EventMask(c) # {}}
        \cup {l \in {Listener} : backlog # << >>}

\* epoll_wait returns all that is ready; connections are edge-triggered, the
\* listening socket is level-triggered.
epoll_wait ==
    /\ loop = "wait"
    /\ EpollReady # {}
    /\ loop' = "dispatch"
    /\ batch' = EpollReady
    /\ mask' = [c \in Conns |-> IF c \in EpollReady THEN EventMask(c) ELSE {}]
    /\ edge' = [c \in Conns |-> edge[c] /\ c \notin table]
    /\ UNCHANGED <<ready_list, table, peer, rx, tx, nospace, backlog>>

\* One turn of the for loop over the events returned by epoll_wait.
Dispatch(w) ==
    /\ loop = "dispatch"
    /\ w \in batch
    /\ batch' = batch \ {w}
    /\ UNCHANGED <<loop, mask>>

EndDispatch ==
    /\ loop = "dispatch"
    /\ batch = {}
    /\ loop' = "drain"
    /\ UNCHANGED <<batch, mask, ready_list, table>>

\* One turn of the while loop over the ready list: functor_list_remove.
RunFunctor(f, c) ==
    /\ loop = "drain"
    /\ ready_list # << >>
    /\ Head(ready_list) = [f |-> f, c |-> c]
    /\ UNCHANGED <<batch, mask>>

EndDrain ==
    /\ loop = "drain"
    /\ ready_list = << >>
    /\ loop' = "wait"
    /\ UNCHANGED <<batch, mask, ready_list, table>>

\* rtor_reactor_post on a ready list rl.
Posted(rl, f, c) == Append(rl, [f |-> f, c |-> c])

-----------------------------------------------------------------------------

ReactorTypeOK ==
    /\ loop \in LoopStates
    /\ batch \subseteq Conns \cup {Listener}
    /\ mask \in [Conns -> SUBSET {"IN", "OUT"}]
    /\ table \subseteq Conns
=============================================================================
