------------------------------- MODULE Queue -------------------------------
(***************************************************************************)
(* http_in_c/common/queue.c: the bounded queue of socket descriptors       *)
(* between the accepting thread and the worker threads of the synchronous  *)
(* server.  A ring of max_size slots guarded by one mutex, and two         *)
(* condition variables on which producers wait for space and consumers     *)
(* for an entry.                                                           *)
(*                                                                         *)
(* A thread executes a call in the steps between which another thread can  *)
(* run: acquiring the mutex, the test of the while loop with either the    *)
(* wait (which gives the mutex up) or the whole update of the ring and the *)
(* broadcast, and the release.  A thread woken from a wait has to acquire  *)
(* the mutex again and then repeats the test, so it is back where a new    *)
(* call starts.  POSIX lets a wait end without a broadcast: SpuriousWakeup. *)
(***************************************************************************)
EXTENDS Integers, Sequences

CONSTANTS Producers,    \* threads that call Queue_add
          Consumers,    \* threads that call Queue_remove
          Sockets,      \* the descriptors that are queued
          NoSocket,     \* no descriptor; also the content of a fresh slot
          NoThread,     \* owner of the free mutex
          MaxSize       \* the capacity given to Queue_new_with_capacity

Threads == Producers \cup Consumers

\* queue.h:21 "capacity size_t Cannot be 0".  No thread is on both ends.
ASSUME QueueAssumption ==
    /\ MaxSize \in Nat \ {0}
    /\ NoSocket \notin Sockets
    /\ NoThread \notin Threads
    /\ Producers \cap Consumers = {}

VARIABLES q,        \* the slots of the ring
          size,     \* number of entries
          next,     \* the slot the next entry goes to
          first,    \* the slot of the oldest entry
          mutex,    \* owner of queue_mutex
          pc,       \* where each thread is inside Queue_add or Queue_remove
          arg,      \* arg[p]: the argument of p's Queue_add
          got       \* got[c]: the result of c's last Queue_remove

ring == <<q, size, next, first>>
vars == <<q, size, next, first, mutex, pc, arg, got>>

Slots == 0..(MaxSize - 1)

AddPoints == {"idle", "add_lock", "add_test", "add_wait", "add_unlock"}
RemovePoints == {"idle", "rm_lock", "rm_test", "rm_wait", "rm_unlock"}

Init ==
    /\ q = [i \in Slots |-> NoSocket]
    /\ size = 0
    /\ next = 0
    /\ first = 0
    /\ mutex = NoThread
    /\ pc = [t \in Threads |-> "idle"]
    /\ arg = [p \in Producers |-> NoSocket]
    /\ got = [c \in Consumers |-> NoSocket]

is_full == first = next /\ size > 0
is_empty == first = next /\ size = 0

\* The two pointer increments, advance_next_pointer and advance_first_pointer.
Advance(i) == (i + 1) % MaxSize

\* pthread_cond_broadcast: every thread waiting at w goes on to acquire the
\* mutex again; then thread t goes to its unlock.
Broadcast(woken, w, l, t, u) ==
    pc' = [x \in Threads |-> IF x = t THEN u
                             ELSE IF woken /\ pc[x] = w THEN l ELSE pc[x]]

Lock(t, from, to) ==
    /\ pc[t] = from
    /\ mutex = NoThread
    /\ mutex' = t
    /\ pc' = [pc EXCEPT ![t] = to]
    /\ UNCHANGED <<ring, arg, got>>

\* pthread_cond_wait up to the point where the thread sleeps.
Wait(t, to) ==
    /\ mutex' = NoThread
    /\ pc' = [pc EXCEPT ![t] = to]
    /\ UNCHANGED <<ring, arg, got>>

Unlock(t, from) ==
    /\ pc[t] = from
    /\ mutex' = NoThread
    /\ pc' = [pc EXCEPT ![t] = "idle"]
    /\ UNCHANGED <<ring, arg, got>>

-----------------------------------------------------------------------------
(* Queue_add *)

Queue_add(p, s) ==
    /\ pc[p] = "idle"
    /\ pc' = [pc EXCEPT ![p] = "add_lock"]
    /\ arg' = [arg EXCEPT ![p] = s]
    /\ UNCHANGED <<ring, mutex, got>>

AddLock(p) == Lock(p, "add_lock", "add_test")

AddWait(p) ==
    /\ pc[p] = "add_test"
    /\ size = MaxSize
    /\ Wait(p, "add_wait")

\* Faulty form of AddWakes: broadcast when the queue becomes full.
AddWakesWhenFull == size + 1 = MaxSize

\* The waiting consumers are woken only when the queue stops being empty.
AddWakes == size + 1 = 1

AddPut(p) ==
    /\ pc[p] = "add_test"
    /\ size # MaxSize
    /\ q' = [q EXCEPT ![next] = arg[p]]
    /\ next' = Advance(next)
    /\ size' = size + 1
    /\ Broadcast(AddWakes, "rm_wait", "rm_lock", p, "add_unlock")
    /\ UNCHANGED <<first, mutex, arg, got>>

AddReturn(p) == Unlock(p, "add_unlock")

-----------------------------------------------------------------------------
(* Queue_remove *)

Queue_remove(c) ==
    /\ pc[c] = "idle"
    /\ pc' = [pc EXCEPT ![c] = "rm_lock"]
    /\ UNCHANGED <<ring, mutex, arg, got>>

RemoveLock(c) == Lock(c, "rm_lock", "rm_test")

RemoveWait(c) ==
    /\ pc[c] = "rm_test"
    /\ is_empty
    /\ Wait(c, "rm_wait")

\* Faulty form of RemoveWakes: producers are never woken.
RemoveWakesNever == FALSE

RemoveWakes == size - 1 < MaxSize

\* Faulty form of Oldest: the entry at the wrong end of the ring.
EntryAtNext == q[next]

Oldest == q[first]

RemoveTake(c) ==
    /\ pc[c] = "rm_test"
    /\ ~is_empty
    /\ got' = [got EXCEPT ![c] = Oldest]
    /\ first' = Advance(first)
    /\ size' = size - 1
    /\ Broadcast(RemoveWakes, "add_wait", "add_lock", c, "rm_unlock")
    /\ UNCHANGED <<q, next, mutex, arg>>

RemoveReturn(c) == Unlock(c, "rm_unlock")

SpuriousWakeup(t) ==
    /\ \/ pc[t] = "add_wait" /\ pc' = [pc EXCEPT ![t] = "add_lock"]
       \/ pc[t] = "rm_wait" /\ pc' = [pc EXCEPT ![t] = "rm_lock"]
    /\ UNCHANGED <<ring, mutex, arg, got>>

-----------------------------------------------------------------------------
AddStep(p) == AddLock(p) \/ AddWait(p) \/ AddPut(p) \/ AddReturn(p)
RemoveStep(c) == RemoveLock(c) \/ RemoveWait(c) \/ RemoveTake(c) \/ RemoveReturn(c)

Next ==
    \/ \E p \in Producers, s \in Sockets : Queue_add(p, s)
    \/ \E p \in Producers : AddStep(p)
    \/ \E c \in Consumers : Queue_remove(c)
    \/ \E c \in Consumers : RemoveStep(c)
    \/ \E t \in Threads : SpuriousWakeup(t)

Spec == Init /\ [][Next]_vars

\* Threads that have not blocked keep running, workers call Queue_remove
\* again after each connection, and no thread is refused the mutex for ever.
Fairness ==
    /\ \A p \in Producers :
          /\ WF_vars(AddWait(p) \/ AddPut(p) \/ AddReturn(p))
          /\ SF_vars(AddLock(p))
    /\ \A c \in Consumers :
          /\ WF_vars(Queue_remove(c))
          /\ WF_vars(RemoveWait(c) \/ RemoveTake(c) \/ RemoveReturn(c))
          /\ SF_vars(RemoveLock(c))

FairSpec == Spec /\ Fairness

-----------------------------------------------------------------------------
(* Properties *)

TypeOK ==
    /\ q \in [Slots -> Sockets \cup {NoSocket}]
    /\ size \in 0..MaxSize
    /\ next \in Slots
    /\ first \in Slots
    /\ mutex \in Threads \cup {NoThread}
    /\ pc \in [Threads -> AddPoints \cup RemovePoints]
    /\ arg \in [Producers -> Sockets \cup {NoSocket}]
    /\ got \in [Consumers -> Sockets \cup {NoSocket}]

InCritical(t) == pc[t] \in {"add_test", "add_unlock", "rm_test", "rm_unlock"}

\* Only the owner of queue_mutex is between pthread_mutex_lock and
\* pthread_mutex_unlock, also after a wait, which gives the mutex up and takes
\* it again: the updates of size, next and first never overlap.
MutualExclusion == \A t \in Threads : InCritical(t) => mutex = t

\* The distance from first to next, with wrap-around (q_size in the code).
RingDistance == IF first <= next THEN next - first ELSE next + MaxSize - first

\* size, first and next agree: they are kept separately, and is_full and
\* is_empty tell a full ring from an empty one, where first = next, by size.
RingConsistent == size = RingDistance \/ (size = MaxSize /\ first = next)

\* The assertions of advance_next_pointer and advance_first_pointer hold
\* whenever a call reaches them: a thread that passed the test of its while
\* loop, which reads size in one function and is_empty in the other, does not
\* find the ring full after all, and size-- never wraps the unsigned size.
PointerAssertions ==
    /\ \A p \in Producers : pc[p] = "add_test" /\ size # MaxSize => ~is_full
    /\ \A c \in Consumers : pc[c] = "rm_test" /\ size = 0 => is_empty

\* No consumer sleeps while there is an entry, although Queue_add broadcasts
\* not_empty_cv only on the change of size from 0 to 1.
NoSleepingConsumer == \A c \in Consumers : pc[c] = "rm_wait" => size = 0

\* No producer sleeps while there is space.
NoSleepingProducer == \A p \in Producers : pc[p] = "add_wait" => size = MaxSize

\* No wakeup is lost, on either side, although both broadcasts are conditional.
NoLostWakeup == NoSleepingConsumer /\ NoSleepingProducer

\* The slot of the i-th oldest entry, 1 <= i <= size.
SlotOf(i) == IF first + i - 1 < MaxSize THEN first + i - 1
                                        ELSE first + i - 1 - MaxSize

Contents == [i \in 1..size |-> q[SlotOf(i)]]

Adding(p) == pc[p] \in {"add_lock", "add_test", "add_wait"}
Offered == [p \in Producers |-> IF Adding(p) THEN arg[p] ELSE NoSocket]

\* The queue is a FIFO: Queue_add and Queue_remove take effect one at a time
\* in the step that updates the ring, no entry is lost, duplicated or
\* overtaken, and Queue_remove returns the oldest.
Fifo == INSTANCE BoundedFifo WITH
    Values <- Sockets, NoValue <- NoSocket, Capacity <- MaxSize,
    items <- Contents, offer <- Offered

IsFifo == Fifo!Spec

\* With one accepting thread, a call of Queue_add returns as long as workers
\* keep asking for work: a full queue does not stop the server for ever.
AddReturns == \A p \in Producers : pc[p] = "add_lock" ~> pc[p] = "idle"

\* The oldest entry does not stay in its slot for ever.
OldestLeaves == \A i \in Slots : size > 0 /\ first = i ~> first # i

\* Entries pass through the queue: nothing waits for ever to get in or out.
EntriesPass == AddReturns /\ OldestLeaves
=============================================================================
