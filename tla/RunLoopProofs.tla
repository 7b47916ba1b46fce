---------------------------- MODULE RunLoopProofs ----------------------------
(***************************************************************************)
(* The run loop for any set of watchers, any number of calls and any       *)
(* intervals: the fd table and epoll agree, the loop ends and waits for    *)
(* the named causes only, and timers are not early.                        *)
(***************************************************************************)
EXTENDS RunLoop, FiniteSetTheorems, TLAPS

-----------------------------------------------------------------------------
(* Types *)

Reactors ==
    [table : SUBSET Fds, count : Int, epoll : [Fds -> Interests \cup {None}],
     edge : [Fds -> BOOLEAN], ready : Nat, closed_flag : BOOLEAN,
     queue : Queues \cup {None}, ok : BOOLEAN]

TimerWatchers ==
    [interval : Nat, repeating : BOOLEAN, handler : BOOLEAN, armed : BOOLEAN,
     left : Nat, period : Nat, pending : BOOLEAN]

EventWatchers == [pipe : Nat, handler : BOOLEAN]

StreamWatchers ==
    [mask : SUBSET {"IN", "OUT", "ET"}, both : {"null", "garbage", "set"},
     read : BOOLEAN, write : BOOLEAN]

Histories ==
    [since : [Timers -> Nat], reset : SUBSET Fds, dropped : SUBSET Fds,
     cleared : SUBSET Fds, refused : BOOLEAN, early : BOOLEAN,
     ended : {None, "idle", "closed", "interrupted"}, closes : Nat]

LoopPlaces ==
    {"off", "setup", "top", "wait", "dispatch", "drain", "returned", "freed",
     "aborted", "blocked", "reading"}

LoopTypeOK ==
    /\ used \in SUBSET (Fds \ Queues)
    /\ rx \in Reactors
    /\ timer \in [Timers -> TimerWatchers]
    /\ event \in [Eventfds -> EventWatchers]
    /\ stream \in [Streams -> StreamWatchers]
    /\ loop \in LoopPlaces
    /\ batch \subseteq Fds
    /\ history \in Histories
    /\ turned \in BOOLEAN

-----------------------------------------------------------------------------
(* The inductive invariant *)

\* The table of a reactor, its count and the epoll instance agree but for the fds
\* D that were deleted.  The count stays true after rtor_reactor_close, when epoll
\* knows nothing any more.
Agrees(r, D) ==
    /\ r.ok
    /\ IsFiniteSet(r.table)
    /\ r.count = Cardinality(r.table)
    /\ IF r.closed_flag THEN \A fd \in Fds : r.epoll[fd] = None
                        ELSE /\ r.table \cup D = {fd \in Fds : r.epoll[fd] # None}
                             /\ r.table \cap D = {}

\* What an fd is registered for follows from its kind and its watcher.
InterestAsArmed ==
    /\ \A fd \in Fds \ Listeners : rx.epoll[fd] # None => "EXCLUSIVE" \notin rx.epoll[fd]
    /\ \A s \in Streams : rx.epoll[s] # None => rx.epoll[s] \subseteq stream[s].mask
    /\ \A e \in Eventfds : rx.epoll[e] \notin {None, {}} => event[e].handler \/ e \in bare

\* Where handlers and functors run, and where events and functors can be left.
Phases ==
    /\ running # None => loop \in {"dispatch", "drain", "blocked", "reading"}
    /\ batch # {} => loop \in {"dispatch", "blocked", "reading"}
    /\ loop = "wait" => rx.ready = 0
    /\ turned /\ loop = "top" => rx.ready = 0
    /\ loop = "setup" => ~turned

\* An event of the batch is still good, or the user has undone what it is about.
BatchAsReported ==
    /\ batch \subseteq rx.table \cup history.dropped \cup deleted
    /\ \A e \in batch \cap Eventfds :
          /\ ~event[e].handler => e \in history.dropped \cup bare
          /\ event[e].pipe = 0 => e \in history.cleared
    /\ \A t \in batch \cap Timers :
          t \notin history.reset => history.since[t] >= WholeSeconds(timer[t].interval)

\* What is left of a timer makes up for the time that has not passed yet.
TimersOnTime ==
    \A t \in Timers :
        /\ timer[t].armed =>
              history.since[t] + timer[t].left >= WholeSeconds(timer[t].interval)
        /\ timer[t].pending => history.since[t] >= WholeSeconds(timer[t].interval)

\* The queue is watched until the loop returns, and how the loop ended decides
\* how often its fd was closed.
QueueAndEnd ==
    /\ loop \notin {"returned", "freed"} =>
          /\ rx.queue # None => rx.queue \in rx.table
          /\ history.ended = IF rx.closed_flag THEN "closed" ELSE None
    /\ loop # "freed" =>
          history.closes = IF rx.closed_flag /\ rx.queue # None THEN 1 ELSE 0
    /\ loop = "returned" =>
          /\ history.ended # None
          /\ history.ended = "idle" => rx.table = {} /\ ~rx.closed_flag
          /\ history.ended # "idle" /\ rx.queue # None => rx.closed_flag \/ rx.queue \in rx.table
          /\ rx.ready > 0 => rx.table = {} /\ ~turned

RunLoopInv ==
    /\ LoopTypeOK
    /\ TimersNotEarly
    /\ StopsOnlyWhen
    /\ QueueFdClosedOnce
    /\ loop # "aborted" =>
          /\ Agrees(rx, deleted)
          /\ InterestAsArmed
          /\ Phases
          /\ BatchAsReported
          /\ TimersOnTime
          /\ QueueAndEnd

-----------------------------------------------------------------------------
(* reactor.c: what its functions do to a reactor whose records agree *)

\* The updates that these functions are made of, with names.
WithEpoll(r, fd, interest, edge) == [r EXCEPT !.epoll[fd] = interest, !.edge[fd] = edge]
WithTable(r, ok, table, count) == [r EXCEPT !.ok = ok, !.table = table, !.count = count]
WithRest(r, table, count, ready) == [r EXCEPT !.table = table, !.count = count, !.ready = ready]
WithOk(r, ok) == [r EXCEPT !.ok = ok]

\* Updating the epoll set leaves the other fields of a reactor.
LEMMA WithEpollFields ==
    ASSUME NEW r \in Reactors, NEW fd \in Fds, NEW v \in Interests \cup {None}, NEW b \in BOOLEAN
    PROVE  /\ WithEpoll(r, fd, v, b) \in Reactors
           /\ WithEpoll(r, fd, v, b).table = r.table
           /\ WithEpoll(r, fd, v, b).count = r.count
           /\ WithEpoll(r, fd, v, b).ok = r.ok
           /\ WithEpoll(r, fd, v, b).epoll = [r.epoll EXCEPT ![fd] = v]
           /\ WithEpoll(r, fd, v, b).closed_flag = r.closed_flag
           /\ WithEpoll(r, fd, v, b).ready = r.ready
           /\ WithEpoll(r, fd, v, b).queue = r.queue
BY Zenon DEF Reactors, WithEpoll

\* Updating the table leaves the other fields of a reactor.
LEMMA WithTableFields ==
    ASSUME NEW r \in Reactors, NEW T \in SUBSET Fds, NEW n \in Int, NEW b \in BOOLEAN
    PROVE  /\ WithTable(r, b, T, n) \in Reactors
           /\ WithTable(r, b, T, n).table = T
           /\ WithTable(r, b, T, n).count = n
           /\ WithTable(r, b, T, n).ok = b
           /\ WithTable(r, b, T, n).epoll = r.epoll
           /\ WithTable(r, b, T, n).closed_flag = r.closed_flag
           /\ WithTable(r, b, T, n).ready = r.ready
           /\ WithTable(r, b, T, n).queue = r.queue
BY Zenon DEF Reactors, WithTable

\* Updating the fields outside table and epoll set leaves these.
LEMMA WithRestFields ==
    ASSUME NEW r \in Reactors, NEW T \in SUBSET Fds, NEW n \in Int, NEW m \in Nat
    PROVE  /\ WithRest(r, T, n, m) \in Reactors
           /\ WithRest(r, T, n, m).table = T
           /\ WithRest(r, T, n, m).count = n
           /\ WithRest(r, T, n, m).ready = m
           /\ WithRest(r, T, n, m).ok = r.ok
           /\ WithRest(r, T, n, m).epoll = r.epoll
           /\ WithRest(r, T, n, m).closed_flag = r.closed_flag
           /\ WithRest(r, T, n, m).queue = r.queue
BY Zenon DEF Reactors, WithRest

\* A failed assertion changes nothing else of a reactor.
LEMMA WithOkFields ==
    ASSUME NEW r \in Reactors, NEW b \in BOOLEAN
    PROVE  /\ WithOk(r, b) \in Reactors
           /\ WithOk(r, b).table = r.table
           /\ WithOk(r, b).count = r.count
           /\ WithOk(r, b).ok = b
           /\ WithOk(r, b).epoll = r.epoll
           /\ WithOk(r, b).closed_flag = r.closed_flag
           /\ WithOk(r, b).ready = r.ready
           /\ WithOk(r, b).queue = r.queue
BY Zenon DEF Reactors, WithOk

\* rtor_reactor_register, on an fd that is not watched and was not deleted.
LEMMA RegisterAgrees ==
    ASSUME NEW r \in Reactors, NEW D, Agrees(r, D), ~r.closed_flag,
           NEW fd \in Fds \ (r.table \cup D), NEW interest \in Interests
    PROVE  LET r2 == rtor_reactor_register(r, fd, interest)
           IN  /\ r2 \in Reactors /\ Agrees(r2, D)
               /\ r2.table = r.table \cup {fd}
               /\ r2.epoll = [r.epoll EXCEPT ![fd] = interest]
               /\ r2.closed_flag = r.closed_flag /\ r2.ready = r.ready /\ r2.queue = r.queue
<1> DEFINE r1 == WithEpoll(r, fd, interest, TRUE)
           T  == r1.table \cup {fd}
           r2 == FdTable_insert(r1, fd)
<1>1. r.epoll[fd] = None /\ interest # None
  <2>1. fd \in Fds /\ fd \notin r.table \cup D
    BY Zenon
  <2>2. r.table \cup D = {g \in Fds : r.epoll[g] # None}
    BY Zenon DEF Agrees
  <2> QED BY <2>1, <2>2, RunLoopAssumption, Zenon
<1>2. rtor_epoll_ctl(r, "ADD", fd, interest) = r1
  BY <1>1, Zenon DEF rtor_epoll_ctl, WithEpoll
<1>3. /\ r1 \in Reactors /\ r1.table = r.table /\ r1.count = r.count /\ r1.ok = r.ok
      /\ r1.epoll = [r.epoll EXCEPT ![fd] = interest]
      /\ r1.closed_flag = r.closed_flag /\ r1.ready = r.ready /\ r1.queue = r.queue
  <2>1. fd \in Fds /\ interest \in Interests \cup {None} /\ TRUE \in BOOLEAN
    BY Zenon
  <2> QED BY <2>1, WithEpollFields, ZenonT(60)
<1> HIDE DEF r1
<1>4. /\ r2 \in Reactors /\ r2.table = T /\ r2.count = r1.count + 1 /\ r2.ok = TRUE
      /\ r2.epoll = r1.epoll
      /\ r2.closed_flag = r1.closed_flag /\ r2.ready = r1.ready /\ r2.queue = r1.queue
  <2>1. (r1.ok /\ fd \notin r1.table) = TRUE
    BY <1>3, Zenon DEF Agrees
  <2> DEFINE yes == TRUE
  <2>2. yes \in BOOLEAN /\ r2 = WithTable(r1, yes, T, r1.count + 1)
    BY <2>1, Zenon DEF FdTable_insert, WithTable
  <2>3. r1 \in Reactors /\ T \in SUBSET Fds /\ r1.count + 1 \in Int
    BY <1>3 DEF Reactors
  <2> HIDE DEF r2, T, yes
  <2>4. /\ r2 \in Reactors /\ r2.table = T /\ r2.count = r1.count + 1 /\ r2.ok = yes
        /\ r2.epoll = r1.epoll
        /\ r2.closed_flag = r1.closed_flag /\ r2.ready = r1.ready /\ r2.queue = r1.queue
    BY <2>2, <2>3, WithTableFields
  <2> QED BY <2>4, Zenon DEF yes
<1> HIDE DEF r2
<1>5. IsFiniteSet(r2.table) /\ Cardinality(r2.table) = Cardinality(r.table) + 1
  <2>1. IsFiniteSet(r.table) /\ fd \notin r.table /\ r2.table = r.table \cup {fd}
    BY <1>3, <1>4, Zenon DEF Agrees
  <2> QED BY <2>1, FS_AddElement, Zenon
<1>6. r2.table \cup D = {g \in Fds : r2.epoll[g] # None} /\ r2.table \cap D = {}
  BY <1>1, <1>3, <1>4 DEF Agrees, Reactors
<1>7. Agrees(r2, D)
  <2>1. r2.ok
    BY <1>4, Zenon
  <2>2. ~r2.closed_flag /\ r2.count = Cardinality(r2.table)
    BY <1>3, <1>4, <1>5 DEF Agrees
  <2> QED BY <2>1, <2>2, <1>5, <1>6, Zenon DEF Agrees
<1> QED BY <1>2, <1>3, <1>4, <1>7, Zenon DEF rtor_reactor_register, r2

\* rtor_reactor_register, on an fd that was deleted: epoll still knows it.
LEMMA RegisterFails ==
    ASSUME NEW r \in Reactors, NEW D, Agrees(r, D), ~r.closed_flag,
           NEW fd \in D, NEW interest \in Interests
    PROVE  LET r2 == rtor_reactor_register(r, fd, interest)
           IN  /\ r2 \in Reactors /\ ~r2.ok
               /\ r2.table = r.table \cup {fd}
               /\ r2.closed_flag = r.closed_flag /\ r2.ready = r.ready /\ r2.queue = r.queue
<1> DEFINE r1 == rtor_epoll_ctl(r, "ADD", fd, interest)
           T  == r1.table \cup {fd}
           r2 == FdTable_insert(r1, fd)
           no == FALSE
<1>1. fd \in Fds /\ r.epoll[fd] # None
  BY Zenon DEF Agrees
<1>2. r1 = WithOk(r, no) /\ no \in BOOLEAN
  BY <1>1, Zenon DEF rtor_epoll_ctl, WithOk
<1> HIDE DEF r1, no
<1>3. /\ r1 \in Reactors /\ r1.ok = no /\ r1.table = r.table
      /\ r1.closed_flag = r.closed_flag /\ r1.ready = r.ready /\ r1.queue = r.queue
  BY <1>2, WithOkFields, Zenon
<1>4. (r1.ok /\ fd \notin r1.table) = no
  BY <1>3, Zenon DEF no
<1>5. r2 = WithTable(r1, no, T, r1.count + 1)
  BY <1>4, Zenon DEF FdTable_insert, WithTable
<1>6. T \in SUBSET Fds /\ r1.count + 1 \in Int
  BY <1>1, <1>3 DEF Reactors
<1> HIDE DEF r2, T
<1>7. /\ r2 \in Reactors /\ r2.ok = no /\ r2.table = T
      /\ r2.closed_flag = r1.closed_flag /\ r2.ready = r1.ready /\ r2.queue = r1.queue
  BY <1>2, <1>3, <1>5, <1>6, WithTableFields
<1> QED BY <1>3, <1>7, Zenon DEF rtor_reactor_register, r2, r1, T, no

\* rtor_reactor_delete, on an fd that is watched: the fd is one more that was
\* deleted.
LEMMA DeleteAgrees ==
    ASSUME NEW r \in Reactors, NEW D, Agrees(r, D), ~r.closed_flag, NEW fd \in r.table
    PROVE  LET r2 == rtor_reactor_delete(r, fd)
           IN  /\ r2 \in Reactors /\ Agrees(r2, D \cup {fd})
               /\ r2.table = r.table \ {fd} /\ r2.epoll = r.epoll
               /\ r2.closed_flag = r.closed_flag /\ r2.ready = r.ready /\ r2.queue = r.queue
<1> DEFINE T  == r.table \ {fd}
           r2 == rtor_reactor_delete(r, fd)
           yes == TRUE
<1>1. r.ok = TRUE /\ r.ok \in BOOLEAN /\ fd \in Fds
  BY Zenon DEF Reactors, Agrees
<1>2. FdTable_lookup(r, fd) = r
  <2>1. (r.ok /\ fd \in r.table) = r.ok
    BY <1>1, Zenon
  <2>2. FdTable_lookup(r, fd) = [r EXCEPT !.ok = r.ok]
    BY <2>1, Zenon DEF FdTable_lookup
  <2> QED BY <2>2, Zenon DEF Reactors
<1>3. (r.ok /\ fd \in r.table) = yes /\ yes \in BOOLEAN
  BY <1>1, Zenon
<1> HIDE DEF yes
<1>4. r2 = WithTable(r, yes, T, r.count - 1)
  BY <1>2, <1>3, Zenon DEF rtor_reactor_delete, FdTable_remove, WithTable
<1>5. T \in SUBSET Fds /\ r.count - 1 \in Int
  BY DEF Reactors
<1> HIDE DEF r2, T
<1>6. /\ r2 \in Reactors /\ r2.table = T /\ r2.count = r.count - 1
      /\ r2.ok = yes /\ r2.epoll = r.epoll
      /\ r2.closed_flag = r.closed_flag /\ r2.ready = r.ready /\ r2.queue = r.queue
  BY <1>3, <1>4, <1>5, WithTableFields
<1>7. IsFiniteSet(T) /\ Cardinality(T) = Cardinality(r.table) - 1
  <2>1. IsFiniteSet(r.table)
    BY Zenon DEF Agrees
  <2> QED BY <2>1, FS_RemoveElement, Zenon DEF T
<1>8. r2.table \cup (D \cup {fd}) = {g \in Fds : r2.epoll[g] # None}
  <2>1. r.table \cup D = {g \in Fds : r.epoll[g] # None}
    BY Zenon DEF Agrees
  <2>2. r2.table \cup (D \cup {fd}) = r.table \cup D
    BY <1>6, Zenon DEF T
  <2> QED BY <1>6, <2>1, <2>2, Zenon
<1>9. r2.table \cap (D \cup {fd}) = {}
  BY <1>6, Zenon DEF T, Agrees
<1>10. r2.ok /\ r2.count = Cardinality(r2.table) /\ IsFiniteSet(r2.table)
  BY <1>6, <1>7, Zenon DEF Agrees, yes
<1>11. Agrees(r2, D \cup {fd})
  BY <1>6, <1>8, <1>9, <1>10, Zenon DEF Agrees
<1> QED BY <1>6, <1>11, Zenon DEF r2, T

\* rtor_reactor_deregister, on an fd that is watched: after rtor_reactor_close it
\* asserts.
LEMMA DeregisterAgrees ==
    ASSUME NEW r \in Reactors, NEW D, Agrees(r, D), NEW fd \in r.table
    PROVE  LET r2 == rtor_reactor_deregister(r, fd)
           IN  /\ r2 \in Reactors
               /\ r2.closed_flag = r.closed_flag /\ r2.ready = r.ready /\ r2.queue = r.queue
               /\ r.closed_flag => ~r2.ok
               /\ ~r.closed_flag => /\ Agrees(r2, D)
                                    /\ r2.table = r.table \ {fd}
                                    /\ r2.epoll = [r.epoll EXCEPT ![fd] = None]
<1> DEFINE r0 == FdTable_lookup(r, fd)
           r1 == rtor_epoll_ctl(r0, "DEL", fd, {})
           T  == r1.table \ {fd}
           r2 == FdTable_remove(r1, fd)
<1>1. fd \in Fds
  BY Zenon DEF Reactors
<1>2. r0 = r
  <2>1. r.ok \in BOOLEAN
    BY Zenon DEF Reactors
  <2>2. (r.ok /\ fd \in r.table) = r.ok
    BY <2>1, Zenon
  <2>3. r0 = [r EXCEPT !.ok = r.ok]
    BY <2>2, Zenon DEF FdTable_lookup
  <2> QED BY <2>3, Zenon DEF Reactors
<1> HIDE DEF r0
<1>3. ASSUME r1 \in Reactors, r1.table = r.table, NEW b \in BOOLEAN, (r1.ok /\ fd \in r1.table) = b
      PROVE  /\ r2 \in Reactors /\ r2.table = r.table \ {fd} /\ r2.count = r1.count - 1
             /\ r2.ok = b /\ r2.epoll = r1.epoll
             /\ r2.closed_flag = r1.closed_flag /\ r2.ready = r1.ready /\ r2.queue = r1.queue
  <2> HIDE DEF r1
  <2>1. r2 = WithTable(r1, b, T, r1.count - 1)
    BY <1>3, Zenon DEF FdTable_remove, WithTable
  <2>2. T \in SUBSET Fds /\ T = r.table \ {fd} /\ r1.count - 1 \in Int
    BY <1>3 DEF Reactors
  <2> HIDE DEF r2, T
  <2> QED BY <1>3, <2>1, <2>2, WithTableFields
<1>4. CASE r.closed_flag
  <2>1. r1 = WithOk(r, FALSE) /\ FALSE \in BOOLEAN
    BY <1>2, <1>4, Zenon DEF rtor_epoll_ctl, WithOk
  <2> HIDE DEF r1
  <2>2. /\ r1 \in Reactors /\ r1.ok = FALSE /\ r1.table = r.table
        /\ r1.closed_flag = r.closed_flag /\ r1.ready = r.ready /\ r1.queue = r.queue
    BY <2>1, WithOkFields, Zenon
  <2>3. (r1.ok /\ fd \in r1.table) = FALSE
    BY <2>2, Zenon
  <2> HIDE DEF r2
  <2>4. /\ r2 \in Reactors /\ r2.ok = FALSE
        /\ r2.closed_flag = r1.closed_flag /\ r2.ready = r1.ready /\ r2.queue = r1.queue
    BY <1>3, <2>2, <2>3, Zenon
  <2> QED BY <1>4, <2>2, <2>4, Zenon DEF rtor_reactor_deregister, r2, r1, r0
<1>5. CASE ~r.closed_flag
  <2>1. r1 = WithEpoll(r, fd, None, FALSE) /\ None \in Interests \cup {None} /\ FALSE \in BOOLEAN
    BY <1>1, <1>2, <1>5, Zenon DEF rtor_epoll_ctl, Agrees, WithEpoll
  <2> HIDE DEF r1
  <2>2. /\ r1 \in Reactors /\ r1.table = r.table /\ r1.count = r.count /\ r1.ok = r.ok
        /\ r1.epoll = [r.epoll EXCEPT ![fd] = None]
        /\ r1.closed_flag = r.closed_flag /\ r1.ready = r.ready /\ r1.queue = r.queue
    BY <1>1, <2>1, WithEpollFields, ZenonT(60)
  <2> DEFINE yes == TRUE
  <2>3. yes \in BOOLEAN /\ (r1.ok /\ fd \in r1.table) = yes
    BY <2>2, Zenon DEF Agrees
  <2> HIDE DEF r2, yes
  <2>4. /\ r2 \in Reactors /\ r2.table = r.table \ {fd} /\ r2.count = r.count - 1
        /\ r2.epoll = r1.epoll
        /\ r2.closed_flag = r1.closed_flag /\ r2.ready = r1.ready /\ r2.queue = r1.queue
    BY <1>3, <2>2, <2>3, Zenon
  <2>4a. r2.ok = TRUE
    BY <1>3, <2>2, <2>3, Zenon DEF yes
  <2>5. IsFiniteSet(r2.table) /\ Cardinality(r2.table) = Cardinality(r.table) - 1
    <3>1. IsFiniteSet(r.table)
      BY Zenon DEF Agrees
    <3>2. IsFiniteSet(r.table \ {fd}) /\ Cardinality(r.table \ {fd}) = Cardinality(r.table) - 1
      BY <3>1, FS_RemoveElement, Zenon
    <3> QED BY <2>4, <3>2, Zenon
  <2>6. r2.table \cup D = {g \in Fds : r2.epoll[g] # None} /\ r2.table \cap D = {}
    BY <1>1, <1>5, <2>2, <2>4 DEF Agrees, Reactors
  <2>7. Agrees(r2, D)
    <3>1. r2.ok
      BY <2>4a, Zenon
    <3>2. ~r2.closed_flag /\ r2.count = Cardinality(r2.table)
      BY <1>5, <2>2, <2>4, <2>5, Zenon DEF Agrees
    <3> QED BY <3>1, <3>2, <2>5, <2>6, Zenon DEF Agrees
  <2> QED BY <1>5, <2>2, <2>4, <2>7, Zenon DEF rtor_reactor_deregister, r2, r1, r0
<1> QED BY <1>4, <1>5, Zenon

\* rtor_reactor_reregister, on an fd that is watched: it asserts on the fd of a
\* listener, and changes nothing then.
LEMMA ReregisterAgrees ==
    ASSUME NEW r \in Reactors, NEW D, Agrees(r, D), ~r.closed_flag, NEW fd \in r.table,
           NEW interest \in Interests
    PROVE  LET r2 == rtor_reactor_reregister(r, fd, interest)
           IN  /\ r2 \in Reactors /\ r2.table = r.table
               /\ r2.closed_flag = r.closed_flag /\ r2.ready = r.ready /\ r2.queue = r.queue
               /\ "EXCLUSIVE" \notin r.epoll[fd] =>
                     /\ Agrees(r2, D)
                     /\ r2.epoll = [r.epoll EXCEPT ![fd] = interest]
               /\ "EXCLUSIVE" \in r.epoll[fd] => ~r2.ok
<1> DEFINE r2 == rtor_reactor_reregister(r, fd, interest)
<1>1. /\ fd \in Fds /\ r.epoll[fd] # None /\ interest # None
  BY RunLoopAssumption DEF Agrees, Reactors
<1>2. FdTable_lookup(r, fd) = r
  <2>1. r.ok \in BOOLEAN
    BY Zenon DEF Reactors
  <2>2. (r.ok /\ fd \in r.table) = r.ok
    BY <2>1, Zenon
  <2>3. FdTable_lookup(r, fd) = [r EXCEPT !.ok = r.ok]
    BY <2>2, Zenon DEF FdTable_lookup
  <2> QED BY <2>3, Zenon DEF Reactors
<1>3. CASE "EXCLUSIVE" \in r.epoll[fd]
  <2>1. r2 = WithOk(r, FALSE) /\ FALSE \in BOOLEAN
    BY <1>2, <1>3, Zenon DEF rtor_reactor_reregister, rtor_epoll_ctl, WithOk
  <2> HIDE DEF r2
  <2>2. r2 \in Reactors /\ r2.table = r.table
        /\ r2.closed_flag = r.closed_flag /\ r2.ready = r.ready /\ r2.queue = r.queue
        /\ r2.ok = FALSE
    BY <2>1, WithOkFields, Zenon
  <2> QED BY <1>3, <2>2, Zenon DEF r2
<1>4. CASE "EXCLUSIVE" \notin r.epoll[fd]
  <2>1. r2 = WithEpoll(r, fd, interest, TRUE) /\ interest \in Interests \cup {None} /\ TRUE \in BOOLEAN
    BY <1>1, <1>2, <1>4, Zenon DEF rtor_reactor_reregister, rtor_epoll_ctl, WithEpoll
  <2> HIDE DEF r2
  <2>2. /\ r2 \in Reactors /\ r2.table = r.table /\ r2.count = r.count /\ r2.ok = r.ok
        /\ r2.epoll = [r.epoll EXCEPT ![fd] = interest]
        /\ r2.closed_flag = r.closed_flag /\ r2.ready = r.ready /\ r2.queue = r.queue
    BY <1>1, <2>1, WithEpollFields, ZenonT(60)
  <2>3. r2.table \cup D = {g \in Fds : r2.epoll[g] # None} /\ r2.table \cap D = {}
    BY <1>1, <2>2 DEF Agrees, Reactors
  <2>4. Agrees(r2, D)
    BY <1>1, <2>2, <2>3, Zenon DEF Agrees
  <2> QED BY <1>4, <2>2, <2>4, Zenon DEF r2
<1> QED BY <1>3, <1>4, Zenon

-----------------------------------------------------------------------------
(* Steps that keep the loop where it is, and steps that end the program *)

\* The user's calls and the kernel's steps leave place, handler and batch alone.
LEMMA Steady ==
    ASSUME RunLoopInv, ~Stopped, LoopTypeOK', UNCHANGED <<loop, running, batch>>,
           Agrees(rx', deleted'), InterestAsArmed', BatchAsReported', TimersOnTime',
           rx'.queue = rx.queue, rx'.closed_flag = rx.closed_flag,
           rx'.ready = rx.ready \/ loop \notin {"wait", "top"},
           rx.queue # None => rx.queue \in rx'.table,
           history'.ended = history.ended, history'.closes = history.closes,
           ~history'.early, turned' = turned
    PROVE  RunLoopInv'
<1>1. TimersNotEarly' /\ StopsOnlyWhen' /\ QueueFdClosedOnce'
  BY Zenon DEF Stopped, TimersNotEarly, StopsOnlyWhen, AbortsOnlyWhen, BlocksOnlyWhenCleared,
         QueueFdClosedOnce
<1>2. Phases'
  BY Zenon DEF Stopped, RunLoopInv, Phases
<1>3. QueueAndEnd'
  BY Zenon DEF Stopped, RunLoopInv, QueueAndEnd
<1> QED BY <1>1, <1>2, <1>3, Zenon DEF RunLoopInv

\* An assertion fails, or a wild pointer is called.
LEMMA Aborting ==
    ASSUME RunLoopInv, LoopTypeOK', loop' = "aborted", AbortsOnlyWhen', ~history'.early
    PROVE  RunLoopInv'
BY Zenon DEF RunLoopInv, TimersNotEarly, StopsOnlyWhen, BlocksOnlyWhenCleared, QueueFdClosedOnce

\* What may be assumed of a call of the user: the loop is in a state in which
\* all the records hold.
LEMMA CallState ==
    ASSUME RunLoopInv, Call
    PROVE  /\ ~Stopped /\ loop # "aborted" /\ loop # "wait" /\ ~rx.closed_flag
           /\ LoopTypeOK /\ Agrees(rx, deleted) /\ InterestAsArmed /\ BatchAsReported /\ TimersOnTime
           /\ rx.queue # None => rx.queue \in rx.table
           /\ ~history.early /\ loop \in {"setup", "dispatch", "drain"}
           /\ UNCHANGED <<batch, running, input>>
<1>1. loop # "aborted" /\ loop \in {"setup", "dispatch", "drain"}
  BY Zenon DEF Call, RunLoopInv, Phases
<1> QED BY <1>1, Zenon DEF Call, RunLoopInv, TimersNotEarly, QueueAndEnd, Stopped

\* The interest of one fd changes, and perhaps its watcher with it.
LEMMA InterestSet ==
    ASSUME LoopTypeOK, InterestAsArmed, NEW fd \in Fds, NEW v \in Interests \cup {None},
           rx'.epoll = [rx.epoll EXCEPT ![fd] = v],
           \/ v = None
           \/ /\ fd \notin Listeners => "EXCLUSIVE" \notin v
              /\ fd \in Streams => v \subseteq stream'[fd].mask
              /\ fd \in Eventfds => v = {} \/ event'[fd].handler \/ fd \in bare',
           \A s \in Streams \ {fd} : stream'[s].mask = stream[s].mask,
           \A e \in Eventfds \ {fd} : /\ event'[e].handler = event[e].handler
                                      /\ e \in bare' <=> e \in bare
    PROVE  InterestAsArmed'
<1>1. \A g \in Fds : rx'.epoll[g] = IF g = fd THEN v ELSE rx.epoll[g]
  BY Zenon DEF LoopTypeOK, Reactors
<1>2. Streams \subseteq Fds /\ Eventfds \subseteq Fds
  BY Zenon DEF Fds
<1>3. \A g \in Fds \ Listeners : rx'.epoll[g] # None => "EXCLUSIVE" \notin rx'.epoll[g]
  BY <1>1, Zenon DEF InterestAsArmed
<1>4. \A s \in Streams : rx'.epoll[s] # None => rx'.epoll[s] \subseteq stream'[s].mask
  BY <1>1, <1>2, Zenon DEF InterestAsArmed
<1>5. \A e \in Eventfds : rx'.epoll[e] \notin {None, {}} => event'[e].handler \/ e \in bare'
  BY <1>1, <1>2, Zenon DEF InterestAsArmed
<1> QED BY <1>3, <1>4, <1>5, Zenon DEF InterestAsArmed

\* rtor_reactor_register in a call, whatever else the call sets.
LEMMA CallRegisters ==
    ASSUME RunLoopInv, Call, NEW fd \in Fds, fd \notin rx.table, NEW v \in Interests,
           Becomes(rtor_reactor_register(rx, fd, v)),
           fd \notin Listeners => "EXCLUSIVE" \notin v,
           fd \in Streams => v \subseteq stream'[fd].mask,
           fd \in Eventfds => v = {} \/ event'[fd].handler,
           \A s \in Streams \ {fd} : stream'[s].mask = stream[s].mask,
           \A e \in Eventfds \ {fd} : event'[e].handler = event[e].handler,
           UNCHANGED <<used, deleted, bare, turned>>,
           timer' \in [Timers -> TimerWatchers], event' \in [Eventfds -> EventWatchers],
           stream' \in [Streams -> StreamWatchers], history' \in Histories,
           history'.dropped = history.dropped,
           history'.ended = history.ended, history'.closes = history.closes, ~history'.early
    PROVE  /\ LoopTypeOK' /\ rx.table \subseteq rx'.table
           /\ fd \in deleted => RunLoopInv'
           /\ BatchAsReported' /\ TimersOnTime' => RunLoopInv'
<1>1. /\ ~Stopped /\ loop # "aborted" /\ loop # "wait" /\ ~rx.closed_flag /\ rx \in Reactors
      /\ LoopTypeOK /\ Agrees(rx, deleted) /\ InterestAsArmed
      /\ rx.queue # None => rx.queue \in rx.table
      /\ UNCHANGED <<batch, running>>
  BY CallState, Zenon DEF LoopTypeOK
<1>2. CASE fd \notin deleted
  <2>1. /\ rx' \in Reactors /\ Agrees(rx', deleted) /\ rx'.table = rx.table \cup {fd}
        /\ rx'.epoll = [rx.epoll EXCEPT ![fd] = v]
        /\ rx'.closed_flag = rx.closed_flag /\ rx'.ready = rx.ready /\ rx'.queue = rx.queue
    BY <1>1, <1>2, RegisterAgrees DEF Becomes
  <2>2. loop' = loop /\ Agrees(rx', deleted')
    BY <2>1, Zenon DEF Becomes, Agrees
  <2>3. LoopTypeOK'
    BY <1>1, <2>1, <2>2, Zenon DEF LoopTypeOK
  <2>4. InterestAsArmed'
    BY <1>1, <2>1, InterestSet, Zenon
  <2>5. rx.queue # None => rx.queue \in rx'.table
    BY <1>1, <2>1, Zenon
  <2> QED BY <1>1, <1>2, <2>1, <2>2, <2>3, <2>4, <2>5, Steady, Zenon
<1>3. CASE fd \in deleted
  <2>1. /\ rx' \in Reactors /\ ~rx'.ok /\ rx'.table = rx.table \cup {fd}
    BY <1>1, <1>3, RegisterFails DEF Becomes
  <2>2. loop' = "aborted" /\ AbortsOnlyWhen'
    BY <1>3, <2>1, Zenon DEF Becomes, AbortsOnlyWhen
  <2>3. LoopTypeOK'
    BY <1>1, <2>1, <2>2, Zenon DEF LoopTypeOK, LoopPlaces
  <2> QED BY <2>1, <2>2, <2>3, Aborting, Zenon
<1> QED BY <1>2, <1>3, Zenon

\* rtor_reactor_reregister in a call, on the fd of anything but a listener.
LEMMA CallReregisters ==
    ASSUME RunLoopInv, Call, NEW fd \in Fds \ Listeners, fd \in rx.table, NEW v \in Interests,
           Becomes(rtor_reactor_reregister(rx, fd, v)),
           "EXCLUSIVE" \notin v,
           fd \in Streams => v \subseteq stream'[fd].mask,
           fd \in Eventfds => v = {} \/ event'[fd].handler \/ fd \in bare',
           \A s \in Streams \ {fd} : stream'[s].mask = stream[s].mask,
           \A e \in Eventfds \ {fd} : /\ event'[e].handler = event[e].handler
                                      /\ e \in bare' <=> e \in bare,
           UNCHANGED <<used, deleted, turned>>,
           timer' \in [Timers -> TimerWatchers], event' \in [Eventfds -> EventWatchers],
           stream' \in [Streams -> StreamWatchers], history' \in Histories,
           history'.ended = history.ended, history'.closes = history.closes, ~history'.early
    PROVE  /\ LoopTypeOK' /\ rx'.table = rx.table
           /\ BatchAsReported' /\ TimersOnTime' => RunLoopInv'
<1>1. /\ ~Stopped /\ loop # "aborted" /\ loop # "wait" /\ ~rx.closed_flag /\ rx \in Reactors
      /\ LoopTypeOK /\ Agrees(rx, deleted) /\ InterestAsArmed
      /\ rx.queue # None => rx.queue \in rx.table
      /\ UNCHANGED <<batch, running>>
  BY CallState, Zenon DEF LoopTypeOK
<1>2. "EXCLUSIVE" \notin rx.epoll[fd]
  BY <1>1 DEF InterestAsArmed, Agrees
<1>3. /\ rx' \in Reactors /\ Agrees(rx', deleted') /\ rx'.table = rx.table
      /\ rx'.epoll = [rx.epoll EXCEPT ![fd] = v]
      /\ rx'.closed_flag = rx.closed_flag /\ rx'.ready = rx.ready /\ rx'.queue = rx.queue
  BY <1>1, <1>2, ReregisterAgrees DEF Becomes
<1>4. loop' = loop
  BY <1>3, Zenon DEF Becomes, Agrees
<1>5. LoopTypeOK'
  BY <1>1, <1>3, <1>4, Zenon DEF LoopTypeOK
<1>6. InterestAsArmed'
  BY <1>1, <1>3, InterestSet, Zenon
<1> QED BY <1>1, <1>3, <1>4, <1>5, <1>6, Steady, Zenon

\* The records of the past after a call.
LEMMA SetFields ==
    ASSUME history \in Histories, NEW t \in Timers
    PROVE  /\ Set(t) \in Histories
           /\ Set(t).since = [history.since EXCEPT ![t] = 0]
           /\ Set(t).reset = (IF t \in batch THEN history.reset \cup {t} ELSE history.reset)
           /\ Set(t).dropped = history.dropped /\ Set(t).cleared = history.cleared
           /\ Set(t).ended = history.ended /\ Set(t).closes = history.closes
           /\ Set(t).early = history.early
BY Zenon DEF Set, Histories, Fds

\* Dropping a descriptor is recorded for the events already reported.
LEMMA DroppedFields ==
    ASSUME history \in Histories, NEW fd \in Fds
    PROVE  /\ Dropped(fd) \in Histories
           /\ Dropped(fd).since = history.since /\ Dropped(fd).reset = history.reset
           /\ Dropped(fd).dropped =
                 (IF fd \in batch THEN history.dropped \cup {fd} ELSE history.dropped)
           /\ Dropped(fd).cleared = history.cleared
           /\ Dropped(fd).ended = history.ended /\ Dropped(fd).closes = history.closes
           /\ Dropped(fd).early = history.early
BY Zenon DEF Dropped, Histories

\* WTimerFd_update_interval gives the timer the whole seconds of its interval, and
\* takes back an expiration that nobody has read yet.
LEMMA TimerSet ==
    ASSUME NEW w \in TimerWatchers, NEW interval \in Nat, NEW repeating \in BOOLEAN
    PROVE  LET w2 == WTimerFd_update_interval(w, interval, repeating)
           IN  /\ w2 \in TimerWatchers
               /\ w2.interval = interval /\ w2.left = WholeSeconds(interval) /\ ~w2.pending
<1>1. WholeSeconds(interval) \in Nat
  BY DEF WholeSeconds, Second
<1> DEFINE value == WholeSeconds(interval)
           armed == interval # 0
           period == IF repeating THEN value ELSE OneShot
<1>2. armed \in BOOLEAN /\ period \in Nat
  BY <1>1, RunLoopAssumption, Zenon
<1> HIDE DEF value, armed, period
<1>3. WTimerFd_update_interval(w, interval, repeating) =
         [w EXCEPT !.interval = interval, !.repeating = repeating, !.armed = armed,
                   !.left = value, !.period = period, !.pending = FALSE]
  BY Zenon DEF WTimerFd_update_interval, value, armed, period
<1> QED BY <1>1, <1>2, <1>3, Zenon DEF TimerWatchers, value

\* A timer that is set, in whichever call: its event, if it is in the batch, is
\* excused, and all its time is still to come.
LEMMA TimerCallRecords ==
    ASSUME RunLoopInv, Call, NEW t \in Timers, NEW w \in TimerWatchers,
           timer' = [timer EXCEPT ![t] = w], history' = Set(t), UNCHANGED <<deleted, bare>>,
           w.left = WholeSeconds(w.interval), ~w.pending
    PROVE  /\ timer' \in [Timers -> TimerWatchers] /\ history' \in Histories
           /\ history'.dropped = history.dropped
           /\ history'.ended = history.ended /\ history'.closes = history.closes
           /\ ~history'.early
           /\ TimersOnTime'
           /\ UNCHANGED event /\ rx.table \subseteq rx'.table => BatchAsReported'
<1>1. /\ timer \in [Timers -> TimerWatchers] /\ history \in Histories
      /\ BatchAsReported /\ TimersOnTime /\ ~history.early /\ batch' = batch
  BY CallState, Zenon DEF LoopTypeOK
<1>2. /\ Set(t) \in Histories
      /\ Set(t).since = [history.since EXCEPT ![t] = 0]
      /\ Set(t).reset = (IF t \in batch THEN history.reset \cup {t} ELSE history.reset)
      /\ Set(t).dropped = history.dropped /\ Set(t).cleared = history.cleared
      /\ Set(t).ended = history.ended /\ Set(t).closes = history.closes
      /\ Set(t).early = history.early
  BY <1>1, SetFields, Zenon
<1>3. timer' \in [Timers -> TimerWatchers]
  BY <1>1, Zenon
<1>4. /\ history' \in Histories /\ history'.dropped = history.dropped
      /\ history'.ended = history.ended /\ history'.closes = history.closes
      /\ history'.cleared = history.cleared
  BY <1>2, Zenon
<1>5. ~history'.early
  BY <1>1, <1>2, Zenon
<1>6. history.since \in [Timers -> Nat]
  BY <1>1, Zenon DEF Histories
<1>7. /\ timer'[t] = w /\ history'.since[t] = 0
      /\ \A u \in Timers \ {t} : timer'[u] = timer[u] /\ history'.since[u] = history.since[u]
  BY <1>1, <1>2, <1>6, Zenon
<1>8. TimersOnTime'
  <2>1. WholeSeconds(w.interval) \in Nat
    BY Zenon DEF WholeSeconds, Second, TimerWatchers
  <2> QED BY <1>1, <1>7, <2>1 DEF TimersOnTime
<1>9. ASSUME UNCHANGED event, rx.table \subseteq rx'.table
      PROVE  BatchAsReported'
  <2>1. batch' \subseteq rx'.table \cup history'.dropped \cup deleted'
    BY <1>1, <1>4, <1>9, Zenon DEF BatchAsReported
  <2>2. \A e \in batch' \cap Eventfds :
          /\ ~event'[e].handler => e \in history'.dropped \cup bare'
          /\ event'[e].pipe = 0 => e \in history'.cleared
    BY <1>1, <1>4, <1>9, Zenon DEF BatchAsReported
  <2>3. ASSUME NEW u \in batch' \cap Timers, u \notin history'.reset
        PROVE  history'.since[u] >= WholeSeconds(timer'[u].interval)
    <3>1. u # t /\ u \in batch /\ u \notin history.reset
      BY <1>1, <1>2, <2>3, Zenon
    <3> QED BY <1>1, <1>7, <3>1, Zenon DEF BatchAsReported
  <2> QED BY <2>1, <2>2, <2>3, Zenon DEF BatchAsReported
<1> QED BY <1>3, <1>4, <1>5, <1>8, <1>9, Zenon

\* rtor_timer_register adds the timer that was not there.
LEMMA TimerRegistered ==
    ASSUME RunLoopInv, NEW t \in Timers, NEW interval \in Intervals, NEW repeating \in BOOLEAN,
           rtor_timer_register(t, interval, repeating), UNCHANGED <<used, deleted, bare, turned>>
    PROVE  RunLoopInv'
<1> DEFINE w0 == [timer[t] EXCEPT !.handler = TRUE]
           w == WTimerFd_update_interval(w0, interval, repeating)
<1>1. /\ Call /\ t \notin rx.table /\ timer' = [timer EXCEPT ![t] = w]
      /\ Becomes(rtor_reactor_register(rx, t, {"IN"})) /\ history' = Set(t)
      /\ UNCHANGED <<event, stream>>
  BY Zenon DEF rtor_timer_register, Watched
<1>2. /\ timer \in [Timers -> TimerWatchers] /\ event \in [Eventfds -> EventWatchers]
      /\ stream \in [Streams -> StreamWatchers]
  BY <1>1, CallState, Zenon DEF LoopTypeOK
<1>3. interval \in Nat /\ t \in Fds /\ t \notin Listeners \cup Streams \cup Eventfds
  BY RunLoopAssumption, Zenon DEF Fds
<1>4. {"IN"} \in Interests /\ "EXCLUSIVE" \notin {"IN"}
  BY Zenon DEF Interests
<1>5. w0 \in TimerWatchers
  BY <1>2, Zenon DEF TimerWatchers
<1> HIDE DEF w0
<1>6. w \in TimerWatchers /\ w.interval = interval /\ w.left = WholeSeconds(interval) /\ ~w.pending
  BY <1>3, <1>5, TimerSet, Zenon
<1> HIDE DEF w
<1>7. /\ timer' \in [Timers -> TimerWatchers] /\ history' \in Histories
      /\ history'.dropped = history.dropped
      /\ history'.ended = history.ended /\ history'.closes = history.closes
      /\ ~history'.early
      /\ TimersOnTime'
      /\ UNCHANGED event /\ rx.table \subseteq rx'.table => BatchAsReported'
  BY <1>1, <1>6, TimerCallRecords, Zenon
<1>8. /\ rx.table \subseteq rx'.table
      /\ BatchAsReported' /\ TimersOnTime' => RunLoopInv'
  BY <1>1, <1>2, <1>3, <1>4, <1>7, CallRegisters, Zenon
<1> QED BY <1>1, <1>7, <1>8, Zenon

\* rtor_timer_update rearms or stops a timer that stays registered.
LEMMA TimerUpdated ==
    ASSUME RunLoopInv, NEW t \in Timers, NEW interval \in Intervals, NEW repeating \in BOOLEAN,
           rtor_timer_update(t, interval, repeating), UNCHANGED <<used, deleted, bare, turned>>
    PROVE  RunLoopInv'
<1> DEFINE w == WTimerFd_update_interval(timer[t], interval, repeating)
<1>1. /\ Call /\ t \in rx.table /\ timer' = [timer EXCEPT ![t] = w]
      /\ Becomes(rtor_reactor_reregister(rx, t, {})) /\ history' = Set(t)
      /\ UNCHANGED <<event, stream>>
  BY Zenon DEF rtor_timer_update, Watched
<1>2. /\ timer \in [Timers -> TimerWatchers] /\ event \in [Eventfds -> EventWatchers]
      /\ stream \in [Streams -> StreamWatchers]
  BY <1>1, CallState, Zenon DEF LoopTypeOK
<1>3. interval \in Nat /\ t \in Fds \ Listeners /\ t \notin Streams \cup Eventfds
  BY RunLoopAssumption, Zenon DEF Fds
<1>4. {} \in Interests /\ "EXCLUSIVE" \notin {}
  BY Zenon DEF Interests
<1>5. timer[t] \in TimerWatchers
  BY <1>2, Zenon
<1>6. w \in TimerWatchers /\ w.interval = interval /\ w.left = WholeSeconds(interval) /\ ~w.pending
  BY <1>3, <1>5, TimerSet, Zenon
<1> HIDE DEF w
<1>7. /\ timer' \in [Timers -> TimerWatchers] /\ history' \in Histories
      /\ history'.ended = history.ended /\ history'.closes = history.closes
      /\ ~history'.early
      /\ TimersOnTime'
      /\ UNCHANGED event /\ rx.table \subseteq rx'.table => BatchAsReported'
  BY <1>1, <1>6, TimerCallRecords, Zenon
<1>8. /\ rx'.table = rx.table
      /\ BatchAsReported' /\ TimersOnTime' => RunLoopInv'
  BY <1>1, <1>2, <1>3, <1>4, <1>7, CallReregisters, Zenon
<1> QED BY <1>1, <1>7, <1>8, Zenon

\* rtor_timer_disarm, rtor_timer_rearm and rtor_timer_rearm_old
LEMMA TimerSetAgain ==
    ASSUME RunLoopInv, NEW t \in Timers, SetTimer(t), UNCHANGED <<used, deleted, bare, turned>>
    PROVE  RunLoopInv'
<1>1. /\ Call /\ t \in rx.table /\ history' = Set(t)
      /\ UNCHANGED <<rx, loop, event, stream>>
  BY Zenon DEF SetTimer, Watched
<1>2. /\ ~Stopped /\ loop # "aborted" /\ LoopTypeOK /\ Agrees(rx, deleted) /\ InterestAsArmed
      /\ rx.queue # None => rx.queue \in rx.table
      /\ UNCHANGED <<batch, running>> /\ timer \in [Timers -> TimerWatchers]
  BY <1>1, CallState, Zenon DEF LoopTypeOK
<1>3. PICK w \in TimerWatchers :
         /\ timer' = [timer EXCEPT ![t] = w]
         /\ w.left = WholeSeconds(w.interval) /\ ~w.pending
  <2>1. timer[t] \in TimerWatchers /\ timer[t].interval \in Nat /\ timer[t].repeating \in BOOLEAN
    BY <1>2, Zenon DEF TimerWatchers
  <2>2. CASE timer' = [timer EXCEPT ![t] = WTimerFd_update_interval(@, @.interval, @.repeating)]
    <3> DEFINE w == WTimerFd_update_interval(timer[t], timer[t].interval, timer[t].repeating)
    <3>1. timer' = [timer EXCEPT ![t] = w]
      BY <2>2, Zenon
    <3>2. w \in TimerWatchers /\ w.left = WholeSeconds(w.interval) /\ ~w.pending
      BY <2>1, TimerSet
    <3> HIDE DEF w
    <3> QED BY <3>1, <3>2, Zenon
  <2>3. ASSUME NEW interval \in Intervals, NEW repeating \in BOOLEAN,
               timer' = [timer EXCEPT ![t] = rtor_timer_rearm_old(@, interval, repeating)]
        PROVE  \E w \in TimerWatchers :
                  /\ timer' = [timer EXCEPT ![t] = w]
                  /\ w.left = WholeSeconds(w.interval) /\ ~w.pending
    <3> DEFINE w0 == [timer[t] EXCEPT !.handler = TRUE]
               w == WTimerFd_update_interval(w0, interval, repeating)
    <3>1. w0 \in TimerWatchers /\ interval \in Nat
      BY <2>1, RunLoopAssumption, Zenon DEF TimerWatchers
    <3>2. timer' = [timer EXCEPT ![t] = w]
      BY <2>3, Zenon DEF rtor_timer_rearm_old
    <3> HIDE DEF w0
    <3>3. w \in TimerWatchers /\ w.interval = interval /\ w.left = WholeSeconds(interval) /\ ~w.pending
      BY <3>1, TimerSet, Zenon
    <3> HIDE DEF w
    <3> QED BY <3>2, <3>3, Zenon
  <2> QED BY <2>2, <2>3, Zenon DEF SetTimer, rtor_timer_disarm, rtor_timer_rearm
<1>4. /\ timer' \in [Timers -> TimerWatchers] /\ history' \in Histories
      /\ history'.ended = history.ended /\ history'.closes = history.closes
      /\ ~history'.early
      /\ TimersOnTime'
      /\ UNCHANGED event /\ rx.table \subseteq rx'.table => BatchAsReported'
  BY <1>1, <1>3, TimerCallRecords, Zenon
<1>5. LoopTypeOK' /\ InterestAsArmed'
  BY <1>1, <1>2, <1>4, Zenon DEF LoopTypeOK, InterestAsArmed
<1> QED BY <1>1, <1>2, <1>4, <1>5, Steady, Zenon

\* A watcher that is deregistered while its event is in the batch is remembered.
LEMMA Deregistered ==
    ASSUME RunLoopInv, NEW fd \in used, Deregister(fd), UNCHANGED <<used, deleted, bare, turned>>
    PROVE  RunLoopInv'
<1>1. /\ Call /\ fd \in rx.table /\ Becomes(rtor_reactor_deregister(rx, fd))
      /\ history' = Dropped(fd) /\ UNCHANGED <<timer, event, stream>>
  BY Zenon DEF Deregister, Watched
<1>2. /\ ~Stopped /\ loop # "aborted" /\ ~rx.closed_flag /\ LoopTypeOK /\ rx \in Reactors
      /\ Agrees(rx, deleted) /\ InterestAsArmed
      /\ BatchAsReported /\ TimersOnTime /\ ~history.early /\ history \in Histories
      /\ rx.queue # None => rx.queue \in rx.table
      /\ UNCHANGED <<batch, running>>
      /\ fd \in Fds \ Queues /\ rx.queue \in Queues \cup {None}
  BY <1>1, CallState, Zenon DEF LoopTypeOK, Reactors
<1>3. /\ rx' \in Reactors /\ Agrees(rx', deleted') /\ rx'.table = rx.table \ {fd}
      /\ rx'.epoll = [rx.epoll EXCEPT ![fd] = None]
      /\ rx'.closed_flag = rx.closed_flag /\ rx'.ready = rx.ready /\ rx'.queue = rx.queue
  BY <1>1, <1>2, DeregisterAgrees, Zenon DEF Becomes
<1>4. /\ history' \in Histories
      /\ history'.since = history.since /\ history'.reset = history.reset
      /\ history'.dropped = (IF fd \in batch THEN history.dropped \cup {fd} ELSE history.dropped)
      /\ history'.cleared = history.cleared
      /\ history'.ended = history.ended /\ history'.closes = history.closes
      /\ ~history'.early
  BY <1>1, <1>2, DroppedFields, Zenon
<1>5. loop' = loop
  BY <1>1, <1>3, Zenon DEF Becomes, Agrees
<1>6. LoopTypeOK'
  BY <1>1, <1>2, <1>3, <1>4, <1>5, Zenon DEF LoopTypeOK
<1>7. InterestAsArmed'
  BY <1>1, <1>2, <1>3, InterestSet, Zenon
<1>8. BatchAsReported' /\ TimersOnTime'
  BY <1>1, <1>2, <1>3, <1>4, Zenon DEF BatchAsReported, TimersOnTime
<1>9. rx.queue # None => rx.queue \in rx'.table
  BY <1>2, <1>3, Zenon
<1> QED BY <1>2, <1>3, <1>4, <1>5, <1>6, <1>7, <1>8, <1>9, Steady, Zenon

\* rtor_reactor_delete leaves the fd with epoll, and is remembered.
LEMMA Deleted ==
    ASSUME RunLoopInv, NEW fd \in used, Delete(fd), UNCHANGED used
    PROVE  RunLoopInv'
<1>1. /\ Call /\ fd \in rx.table /\ Becomes(rtor_reactor_delete(rx, fd))
      /\ deleted' = deleted \cup {fd} /\ UNCHANGED <<timer, event, stream, history, bare, turned>>
  BY Zenon DEF Delete, Watched
<1>2. /\ ~Stopped /\ loop # "aborted" /\ ~rx.closed_flag /\ LoopTypeOK /\ rx \in Reactors
      /\ Agrees(rx, deleted) /\ InterestAsArmed
      /\ BatchAsReported /\ TimersOnTime /\ ~history.early
      /\ rx.queue # None => rx.queue \in rx.table
      /\ UNCHANGED <<batch, running>>
      /\ fd \in Fds \ Queues /\ rx.queue \in Queues \cup {None}
  BY <1>1, CallState, Zenon DEF LoopTypeOK, Reactors
<1>3. /\ rx' \in Reactors /\ Agrees(rx', deleted') /\ rx'.table = rx.table \ {fd}
      /\ rx'.epoll = rx.epoll
      /\ rx'.closed_flag = rx.closed_flag /\ rx'.ready = rx.ready /\ rx'.queue = rx.queue
  BY <1>1, <1>2, DeleteAgrees, Zenon DEF Becomes
<1>4. loop' = loop
  BY <1>1, <1>3, Zenon DEF Becomes, Agrees
<1>5. LoopTypeOK' /\ InterestAsArmed' /\ TimersOnTime'
  BY <1>1, <1>2, <1>3, <1>4, Zenon DEF LoopTypeOK, InterestAsArmed, TimersOnTime
<1>6. BatchAsReported'
  BY <1>1, <1>2, <1>3, Zenon DEF BatchAsReported
<1>7. rx.queue # None => rx.queue \in rx'.table
  BY <1>2, <1>3, Zenon
<1> QED BY <1>1, <1>2, <1>3, <1>4, <1>5, <1>6, <1>7, Steady, Zenon

\* Calls on an eventfd watcher that keep what its pipe holds.  A handler is taken
\* away only with the registration, which has the event of a batch dropped.
LEMMA EventfdRecords ==
    ASSUME RunLoopInv, Call, NEW e \in Eventfds, NEW b \in BOOLEAN,
           event' = [event EXCEPT ![e].handler = b], UNCHANGED <<timer, history, deleted>>,
           \A d \in Eventfds \ {e} : d \in bare' <=> d \in bare,
           rx.table \subseteq rx'.table, b \/ e \in bare' \/ e \notin rx.table \cup deleted
    PROVE  BatchAsReported' /\ TimersOnTime'
<1>1. /\ event \in [Eventfds -> EventWatchers] /\ BatchAsReported /\ TimersOnTime
      /\ batch' = batch
  BY CallState, Zenon DEF LoopTypeOK
<1>2. \A d \in Eventfds : /\ event'[d].pipe = event[d].pipe
                          /\ event'[d].handler = IF d = e THEN b ELSE event[d].handler
  BY <1>1, Zenon DEF EventWatchers
<1>3. TimersOnTime'
  BY <1>1, Zenon DEF TimersOnTime
<1>4. e \in batch /\ ~b => e \in history.dropped \cup bare'
  BY <1>1, Zenon DEF BatchAsReported
<1>5. BatchAsReported'
  BY <1>1, <1>2, <1>4, Zenon DEF BatchAsReported
<1> QED BY <1>3, <1>5, Zenon

\* rtor_eventfd_register adds the eventfd that was not there.
LEMMA EventfdRegistered ==
    ASSUME RunLoopInv, NEW e \in Eventfds, rtor_eventfd_register(e), UNCHANGED <<used, deleted, bare, turned>>
    PROVE  RunLoopInv'
<1>1. /\ Call /\ e \notin rx.table /\ event' = [event EXCEPT ![e].handler = FALSE]
      /\ Becomes(rtor_reactor_register(rx, e, {})) /\ UNCHANGED <<timer, stream, history>>
  BY Zenon DEF rtor_eventfd_register, Watched
<1>2. /\ timer \in [Timers -> TimerWatchers] /\ event \in [Eventfds -> EventWatchers]
      /\ stream \in [Streams -> StreamWatchers] /\ history \in Histories /\ ~history.early
  BY <1>1, CallState, Zenon DEF LoopTypeOK
<1>3. e \in Fds /\ e \notin Listeners \cup Streams /\ {} \in Interests
  BY RunLoopAssumption, Zenon DEF Fds, Interests
<1>4. /\ event' \in [Eventfds -> EventWatchers]
      /\ \A d \in Eventfds \ {e} : event'[d].handler = event[d].handler
  BY <1>1, <1>2, Zenon DEF EventWatchers
<1>5. /\ rx.table \subseteq rx'.table
      /\ e \in deleted => RunLoopInv'
      /\ BatchAsReported' /\ TimersOnTime' => RunLoopInv'
  BY <1>1, <1>2, <1>3, <1>4, CallRegisters, Zenon
<1>6. CASE e \notin deleted
  <2>1. FALSE \in BOOLEAN /\ e \notin rx.table \cup deleted
    BY <1>1, <1>6, Zenon
  <2>2. BatchAsReported' /\ TimersOnTime'
    BY <1>1, <1>5, <2>1, EventfdRecords, Zenon
  <2> QED BY <1>5, <2>2, Zenon
<1> QED BY <1>5, <1>6, Zenon

\* rtor_eventfd_change_watch and rtor_eventfd_arm
LEMMA EventfdWatched ==
    ASSUME RunLoopInv, NEW e \in Eventfds, NEW interest \in {{}, {"IN"}},
           NEW given \in BOOLEAN, Call, Watched(e), Handle(e, given),
           Becomes(rtor_reactor_reregister(rx, e, interest)),
           UNCHANGED <<timer, stream, history, used, deleted, turned>>
    PROVE  RunLoopInv'
<1> DEFINE b == event[e].handler \/ given
<1>1. /\ timer \in [Timers -> TimerWatchers] /\ event \in [Eventfds -> EventWatchers]
      /\ stream \in [Streams -> StreamWatchers] /\ history \in Histories /\ ~history.early
  BY CallState, Zenon DEF LoopTypeOK
<1>2. /\ e \in Fds \ Listeners /\ e \notin Streams /\ e \in rx.table
      /\ interest \in Interests /\ "EXCLUSIVE" \notin interest
  BY RunLoopAssumption, Zenon DEF Fds, Interests, Watched
<1>3. /\ event' = [event EXCEPT ![e].handler = b] /\ b \in BOOLEAN
      /\ b \/ e \in bare'
      /\ \A d \in Eventfds \ {e} : d \in bare' <=> d \in bare
  BY <1>1, Zenon DEF EventWatchers, Handle
<1> HIDE DEF b
<1>4. /\ event' \in [Eventfds -> EventWatchers]
      /\ \A d \in Eventfds \ {e} : event'[d].handler = event[d].handler
      /\ event'[e].handler = b
  BY <1>1, <1>3, Zenon DEF EventWatchers
<1>5. event'[e].handler \/ e \in bare'
  BY <1>3, <1>4, Zenon
<1>6. /\ rx'.table = rx.table
      /\ BatchAsReported' /\ TimersOnTime' => RunLoopInv'
  BY <1>1, <1>2, <1>3, <1>4, <1>5, CallReregisters, Zenon
<1>7. BatchAsReported' /\ TimersOnTime'
  BY <1>3, <1>6, EventfdRecords, Zenon
<1> QED BY <1>6, <1>7, Zenon

\* Disarming an eventfd keeps its registration.
LEMMA EventfdDisarmed ==
    ASSUME RunLoopInv, NEW e \in Eventfds, rtor_eventfd_disarm(e), UNCHANGED <<used, deleted, bare, turned>>
    PROVE  RunLoopInv'
<1>1. /\ Call /\ e \in rx.table /\ Becomes(rtor_reactor_reregister(rx, e, {}))
      /\ UNCHANGED <<timer, event, stream, history>>
  BY Zenon DEF rtor_eventfd_disarm, Watched
<1>2. /\ timer \in [Timers -> TimerWatchers] /\ event \in [Eventfds -> EventWatchers]
      /\ stream \in [Streams -> StreamWatchers] /\ history \in Histories /\ ~history.early
      /\ BatchAsReported /\ TimersOnTime /\ batch' = batch
  BY <1>1, CallState, Zenon DEF LoopTypeOK
<1>3. e \in Fds \ Listeners /\ e \notin Streams /\ {} \in Interests /\ "EXCLUSIVE" \notin {}
  BY RunLoopAssumption, Zenon DEF Fds, Interests
<1>4. /\ rx'.table = rx.table
      /\ BatchAsReported' /\ TimersOnTime' => RunLoopInv'
  BY <1>1, <1>2, <1>3, CallReregisters, Zenon
<1>5. BatchAsReported' /\ TimersOnTime'
  BY <1>1, <1>2, <1>4, Zenon DEF BatchAsReported, TimersOnTime
<1> QED BY <1>4, <1>5, Zenon

\* The record of an event that is taken out of the pipe.
LEMMA ClearedFields ==
    ASSUME history \in Histories, NEW e \in Fds
    PROVE  /\ Cleared(e) \in Histories
           /\ Cleared(e).since = history.since /\ Cleared(e).reset = history.reset
           /\ Cleared(e).dropped = history.dropped
           /\ Cleared(e).cleared =
                 (IF e \in batch THEN history.cleared \cup {e} ELSE history.cleared)
           /\ Cleared(e).ended = history.ended /\ Cleared(e).closes = history.closes
           /\ Cleared(e).early = history.early
BY Zenon DEF Cleared, Histories

\* A call that waits for an event of an empty pipe.
LEMMA CallReads ==
    ASSUME RunLoopInv, Call, NEW e \in Eventfds, event'[e].pipe = 0, loop' = "reading",
           UNCHANGED <<rx, deleted, bare, turned>>,
           LoopTypeOK', InterestAsArmed', BatchAsReported', TimersOnTime',
           history'.ended = history.ended, history'.closes = history.closes,
           history'.early = history.early
    PROVE  RunLoopInv'
<1>1. /\ ~Stopped /\ loop # "aborted" /\ ~rx.closed_flag /\ Agrees(rx, deleted) /\ ~history.early
      /\ rx.queue # None => rx.queue \in rx.table
      /\ UNCHANGED <<batch, running>>
  BY CallState, Zenon
<1>2. Agrees(rx', deleted')
  BY <1>1, Zenon
<1>3. TimersNotEarly' /\ QueueFdClosedOnce'
  BY <1>1, Zenon DEF TimersNotEarly, QueueFdClosedOnce
<1>4. StopsOnlyWhen'
  BY Zenon DEF StopsOnlyWhen, AbortsOnlyWhen, BlocksOnlyWhenCleared
<1>5. Phases'
  BY <1>1, Zenon DEF Phases
<1>6. QueueAndEnd'
  BY <1>1, Zenon DEF RunLoopInv, QueueAndEnd, Stopped
<1> QED BY <1>2, <1>3, <1>4, <1>5, <1>6, Zenon DEF RunLoopInv

\* Events are taken out of the pipe, before the handler of a batch can.
LEMMA EventfdCleared ==
    ASSUME RunLoopInv, NEW e \in Eventfds, rtor_eventfd_clear_one_event(e), UNCHANGED <<used, deleted, bare, turned>>
    PROVE  RunLoopInv'
<1>0. CASE ~(event[e].pipe > 0)
  <2>1. Call /\ loop' = "reading" /\ UNCHANGED <<event, history, rx, timer, stream>>
    BY <1>0, Zenon DEF rtor_eventfd_clear_one_event
  <2>2. event \in [Eventfds -> EventWatchers]
    BY <2>1, CallState, Zenon DEF LoopTypeOK
  <2>3. event'[e].pipe = 0
    BY <1>0, <2>1, <2>2 DEF EventWatchers
  <2>4. LoopTypeOK' /\ InterestAsArmed' /\ BatchAsReported' /\ TimersOnTime'
    BY <2>1, CallState, Zenon DEF LoopTypeOK, LoopPlaces, InterestAsArmed, BatchAsReported,
                             TimersOnTime
  <2> QED BY <2>1, <2>3, <2>4, CallReads, Zenon
<1>1. SUFFICES ASSUME event[e].pipe > 0
               PROVE  RunLoopInv'
  BY <1>0, Zenon
<1>1a. /\ Call /\ event[e].pipe > 0 /\ event' = [event EXCEPT ![e].pipe = @ - 1]
       /\ history' = Cleared(e)
       /\ UNCHANGED <<rx, loop, timer, stream>>
  BY <1>1, Zenon DEF rtor_eventfd_clear_one_event
<1>2. /\ ~Stopped /\ loop # "aborted" /\ LoopTypeOK /\ Agrees(rx, deleted) /\ InterestAsArmed
      /\ BatchAsReported /\ TimersOnTime /\ ~history.early
      /\ rx.queue # None => rx.queue \in rx.table
      /\ UNCHANGED <<batch, running>>
      /\ event \in [Eventfds -> EventWatchers] /\ history \in Histories /\ e \in Fds
  BY <1>1a, CallState, Zenon DEF LoopTypeOK, Fds
<1>3. /\ history' \in Histories /\ history'.since = history.since /\ history'.reset = history.reset
      /\ history'.dropped = history.dropped /\ history'.ended = history.ended
      /\ history'.closes = history.closes /\ history'.early = history.early
      /\ history'.cleared = (IF e \in batch THEN history.cleared \cup {e} ELSE history.cleared)
  BY <1>1a, <1>2, ClearedFields, Zenon
<1>4. /\ event' \in [Eventfds -> EventWatchers]
      /\ \A d \in Eventfds : event'[d].handler = event[d].handler
      /\ \A d \in Eventfds \ {e} : event'[d].pipe = event[d].pipe
  BY <1>1a, <1>2 DEF EventWatchers
<1>5. LoopTypeOK' /\ InterestAsArmed' /\ TimersOnTime'
  BY <1>1a, <1>2, <1>3, <1>4 DEF LoopTypeOK, InterestAsArmed, TimersOnTime
<1>6. BatchAsReported'
  BY <1>1a, <1>2, <1>3, <1>4 DEF BatchAsReported
<1>7. ~history'.early
  BY <1>2, <1>3, Zenon
<1> QED BY <1>1a, <1>2, <1>3, <1>5, <1>6, <1>7, Steady, Zenon

\* rtor_eventfd_clear_all_events drains the pipe and blocks.
LEMMA EventfdClearedAll ==
    ASSUME RunLoopInv, NEW e \in Eventfds, rtor_eventfd_clear_all_events(e), UNCHANGED <<used, deleted, bare, turned>>
    PROVE  RunLoopInv'
<1>1. /\ Call /\ event' = [event EXCEPT ![e].pipe = 0] /\ loop' = "reading"
      /\ history' = Cleared(e)
      /\ UNCHANGED <<rx, timer, stream>>
  BY Zenon DEF rtor_eventfd_clear_all_events
<1>2. /\ ~Stopped /\ loop # "aborted" /\ LoopTypeOK /\ Agrees(rx, deleted) /\ InterestAsArmed
      /\ BatchAsReported /\ TimersOnTime /\ ~history.early
      /\ UNCHANGED <<batch, running>>
      /\ event \in [Eventfds -> EventWatchers] /\ history \in Histories /\ e \in Fds
  BY <1>1, CallState, Zenon DEF LoopTypeOK, Fds
<1>3. /\ history' \in Histories /\ history'.since = history.since /\ history'.reset = history.reset
      /\ history'.dropped = history.dropped /\ history'.ended = history.ended
      /\ history'.closes = history.closes /\ history'.early = history.early
      /\ history'.cleared = (IF e \in batch THEN history.cleared \cup {e} ELSE history.cleared)
  BY <1>1, <1>2, ClearedFields, Zenon
<1>4. /\ event' \in [Eventfds -> EventWatchers]
      /\ \A d \in Eventfds : event'[d].handler = event[d].handler
      /\ \A d \in Eventfds \ {e} : event'[d].pipe = event[d].pipe
  BY <1>1, <1>2, Zenon DEF EventWatchers
<1>5. LoopTypeOK'
  BY <1>1, <1>2, <1>3, <1>4, Zenon DEF LoopTypeOK, LoopPlaces
<1>6. InterestAsArmed' /\ TimersOnTime'
  BY <1>1, <1>2, <1>3, <1>4, Zenon DEF InterestAsArmed, TimersOnTime
<1>7. BatchAsReported'
  BY <1>1, <1>2, <1>3, <1>4, Zenon DEF BatchAsReported
<1>8. event'[e].pipe = 0
  BY <1>1, <1>2, Zenon DEF EventWatchers
<1> QED BY <1>1, <1>3, <1>5, <1>6, <1>7, <1>8, CallReads, Zenon

\* A call that sets the watcher of a stream and registers it for its event_mask.
LEMMA StreamRewatched ==
    ASSUME RunLoopInv, NEW s \in Streams, NEW w \in StreamWatchers, Rewatch(s, w),
           UNCHANGED <<used, deleted, bare, turned>>
    PROVE  RunLoopInv'
<1>1. /\ Call /\ s \in rx.table /\ stream' = [stream EXCEPT ![s] = w]
      /\ Becomes(rtor_reactor_reregister(rx, s, w.mask)) /\ UNCHANGED <<timer, event, history>>
  BY Zenon DEF Rewatch, Watched
<1>2. /\ timer \in [Timers -> TimerWatchers] /\ event \in [Eventfds -> EventWatchers]
      /\ stream \in [Streams -> StreamWatchers] /\ history \in Histories /\ ~history.early
      /\ BatchAsReported /\ TimersOnTime /\ batch' = batch
  BY <1>1, CallState, Zenon DEF LoopTypeOK
<1>3. /\ s \in Fds \ Listeners /\ s \notin Eventfds
      /\ w.mask \in Interests /\ "EXCLUSIVE" \notin w.mask
  BY RunLoopAssumption DEF Fds, Interests, StreamWatchers
<1>4. /\ stream' \in [Streams -> StreamWatchers] /\ stream'[s] = w
      /\ \A r \in Streams \ {s} : stream'[r].mask = stream[r].mask
  BY <1>1, <1>2, Zenon
<1>5. /\ rx'.table = rx.table
      /\ BatchAsReported' /\ TimersOnTime' => RunLoopInv'
  BY <1>1, <1>2, <1>3, <1>4, CallReregisters, Zenon
<1>6. BatchAsReported' /\ TimersOnTime'
  BY <1>1, <1>2, <1>5, Zenon DEF BatchAsReported, TimersOnTime
<1> QED BY <1>5, <1>6, Zenon

\* The calls on a stream keep its interest and its handlers together.
LEMMA StreamCalls ==
    ASSUME RunLoopInv, NEW s \in Streams, UNCHANGED <<used, deleted, bare, turned>>,
           \/ rtor_stream_register(s)
           \/ rtor_stream_arm_both(s)
           \/ rtor_stream_arm_read(s)
           \/ rtor_stream_arm_write(s)
           \/ rtor_stream_disarm_read(s)
           \/ rtor_stream_disarm_write(s)
    PROVE  RunLoopInv'
<1>0. stream[s] \in StreamWatchers
  BY Zenon DEF RunLoopInv, LoopTypeOK
<1>1. CASE rtor_stream_register(s)
  <2>1. /\ Call /\ s \notin rx.table /\ Becomes(rtor_reactor_register(rx, s, {}))
        /\ UNCHANGED <<timer, event, stream, history>>
    BY <1>1, Zenon DEF rtor_stream_register, Watched
  <2>2. /\ timer \in [Timers -> TimerWatchers] /\ event \in [Eventfds -> EventWatchers]
        /\ stream \in [Streams -> StreamWatchers] /\ history \in Histories /\ ~history.early
        /\ BatchAsReported /\ TimersOnTime /\ batch' = batch
    BY <2>1, CallState, Zenon DEF LoopTypeOK
  <2>3. s \in Fds /\ s \notin Listeners \cup Eventfds /\ {} \in Interests
    BY RunLoopAssumption, Zenon DEF Fds, Interests
  <2>4. /\ rx.table \subseteq rx'.table
        /\ BatchAsReported' /\ TimersOnTime' => RunLoopInv'
    BY <2>1, <2>2, <2>3, CallRegisters, Zenon
  <2>5. BatchAsReported' /\ TimersOnTime'
    BY <2>1, <2>2, <2>4, Zenon DEF BatchAsReported, TimersOnTime
  <2> QED BY <2>4, <2>5, Zenon
<1>2. CASE rtor_stream_arm_both(s)
  <2> DEFINE w == [stream[s] EXCEPT !.mask = @ \cup {"ET", "IN", "OUT"}, !.both = "set"]
  <2>1. w \in StreamWatchers
    BY <1>0, Zenon DEF StreamWatchers
  <2> QED BY <1>2, <2>1, StreamRewatched, Zenon DEF rtor_stream_arm_both
<1>3. CASE rtor_stream_arm_read(s)
  <2> DEFINE w == [stream[s] EXCEPT !.mask = @ \cup {"IN"}, !.read = TRUE]
  <2>1. w \in StreamWatchers
    BY <1>0, Zenon DEF StreamWatchers
  <2> QED BY <1>3, <2>1, StreamRewatched, Zenon DEF rtor_stream_arm_read
<1>4. CASE rtor_stream_arm_write(s)
  <2> DEFINE w == [stream[s] EXCEPT !.mask = @ \cup {"OUT"}, !.write = TRUE]
  <2>1. w \in StreamWatchers
    BY <1>0, Zenon DEF StreamWatchers
  <2> QED BY <1>4, <2>1, StreamRewatched, Zenon DEF rtor_stream_arm_write
<1>5. CASE rtor_stream_disarm_read(s)
  <2> DEFINE w == [stream[s] EXCEPT !.mask = @ \ {"IN"}, !.read = FALSE]
  <2>1. w \in StreamWatchers
    BY <1>0, Zenon DEF StreamWatchers
  <2> QED BY <1>5, <2>1, StreamRewatched, Zenon DEF rtor_stream_disarm_read
<1>6. CASE rtor_stream_disarm_write(s)
  <2> DEFINE w == [stream[s] EXCEPT !.mask = @ \ {"OUT"}]
  <2>1. w \in StreamWatchers
    BY <1>0, Zenon DEF StreamWatchers
  <2> QED BY <1>6, <2>1, StreamRewatched, Zenon DEF rtor_stream_disarm_write
<1> QED BY <1>1, <1>2, <1>3, <1>4, <1>5, <1>6, Zenon

\* rtor_listener_register adds the listener that was not there.
LEMMA ListenerRegistered ==
    ASSUME RunLoopInv, NEW l \in Listeners, rtor_listener_register(l), UNCHANGED <<used, deleted, bare, turned>>
    PROVE  RunLoopInv'
<1>1. /\ Call /\ l \notin rx.table
      /\ Becomes(rtor_reactor_register(rx, l, {"IN", "EXCLUSIVE"}))
      /\ UNCHANGED <<timer, event, stream, history>>
  BY Zenon DEF rtor_listener_register, Watched
<1>2. /\ timer \in [Timers -> TimerWatchers] /\ event \in [Eventfds -> EventWatchers]
      /\ stream \in [Streams -> StreamWatchers] /\ history \in Histories /\ ~history.early
      /\ BatchAsReported /\ TimersOnTime /\ batch' = batch
  BY <1>1, CallState, Zenon DEF LoopTypeOK
<1>3. l \in Fds /\ l \notin Streams \cup Eventfds /\ {"IN", "EXCLUSIVE"} \in Interests
  BY RunLoopAssumption, Zenon DEF Fds, Interests
<1>4. /\ rx.table \subseteq rx'.table
      /\ BatchAsReported' /\ TimersOnTime' => RunLoopInv'
  BY <1>1, <1>2, <1>3, CallRegisters, Zenon
<1>5. BatchAsReported' /\ TimersOnTime'
  BY <1>1, <1>2, <1>4, Zenon DEF BatchAsReported, TimersOnTime
<1> QED BY <1>4, <1>5, Zenon

\* rtor_listener_arm and WListenerFd_disarm
LEMMA ListenerRewatched ==
    ASSUME RunLoopInv, NEW l \in Listeners, NEW v \in {{}, {"IN"}}, Call, Watched(l),
           Becomes(rtor_reactor_reregister(rx, l, v)),
           history' = [history EXCEPT !.refused = TRUE],
           UNCHANGED <<timer, event, stream, used, deleted, bare, turned>>
    PROVE  RunLoopInv'
<1>1. /\ ~Stopped /\ loop # "aborted" /\ ~rx.closed_flag /\ LoopTypeOK /\ rx \in Reactors
      /\ Agrees(rx, deleted) /\ InterestAsArmed
      /\ BatchAsReported /\ TimersOnTime /\ ~history.early /\ history \in Histories
      /\ rx.queue # None => rx.queue \in rx.table
      /\ UNCHANGED <<batch, running>>
  BY CallState, Zenon DEF LoopTypeOK
<1>2. l \in Fds /\ l \notin Streams \cup Eventfds /\ v \in Interests /\ l \in rx.table
  BY RunLoopAssumption, Zenon DEF Fds, Interests, Watched
<1>3. /\ rx' \in Reactors /\ rx'.table = rx.table
      /\ rx'.closed_flag = rx.closed_flag /\ rx'.ready = rx.ready /\ rx'.queue = rx.queue
      /\ "EXCLUSIVE" \notin rx.epoll[l] =>
            Agrees(rx', deleted') /\ rx'.epoll = [rx.epoll EXCEPT ![l] = v]
      /\ "EXCLUSIVE" \in rx.epoll[l] => ~rx'.ok
  BY <1>1, <1>2, ReregisterAgrees DEF Becomes
<1>4. /\ history' \in Histories /\ history'.since = history.since /\ history'.reset = history.reset
      /\ history'.dropped = history.dropped /\ history'.ended = history.ended
      /\ history'.closes = history.closes /\ history'.cleared = history.cleared
      /\ history'.early = history.early
  BY <1>1, Zenon DEF Histories
<1>5. history'.refused /\ ~history'.early
  BY <1>1, <1>4, Zenon DEF Histories
<1>6. LoopTypeOK'
  BY <1>1, <1>3, <1>4, Zenon DEF LoopTypeOK, LoopPlaces, Becomes
<1>7. CASE "EXCLUSIVE" \notin rx.epoll[l]
  <2>1. loop' = loop
    BY <1>3, <1>7, Zenon DEF Becomes, Agrees
  <2>2. InterestAsArmed'
    BY <1>1, <1>2, <1>3, <1>7, InterestSet, Zenon
  <2>3. BatchAsReported' /\ TimersOnTime'
    BY <1>1, <1>3, <1>4, Zenon DEF BatchAsReported, TimersOnTime
  <2> QED BY <1>1, <1>3, <1>4, <1>5, <1>6, <1>7, <2>1, <2>2, <2>3, Steady, Zenon
<1>8. CASE "EXCLUSIVE" \in rx.epoll[l]
  <2>1. loop' = "aborted" /\ AbortsOnlyWhen'
    BY <1>3, <1>5, <1>8, Zenon DEF Becomes, AbortsOnlyWhen
  <2> QED BY <1>5, <1>6, <2>1, Aborting, Zenon
<1> QED BY <1>7, <1>8, Zenon

\* rtor_reactor_post appends to the ready list and touches no watcher.
LEMMA Posted ==
    ASSUME RunLoopInv, Post, UNCHANGED <<used, deleted, bare, turned>>
    PROVE  RunLoopInv'
<1>1. /\ Call /\ rx' = [rx EXCEPT !.ready = @ + 1]
      /\ UNCHANGED <<loop, timer, event, stream, history>>
  BY Zenon DEF Post, rtor_reactor_post
<1>2. /\ ~Stopped /\ loop # "aborted" /\ loop \notin {"wait", "top"}
      /\ LoopTypeOK /\ rx \in Reactors
      /\ Agrees(rx, deleted) /\ InterestAsArmed /\ BatchAsReported /\ TimersOnTime /\ ~history.early
      /\ rx.queue # None => rx.queue \in rx.table
      /\ UNCHANGED <<batch, running>>
  BY <1>1, CallState, Zenon DEF LoopTypeOK
<1>3. /\ rx' \in Reactors /\ rx'.table = rx.table /\ rx'.count = rx.count /\ rx'.ok = rx.ok
      /\ rx'.epoll = rx.epoll /\ rx'.closed_flag = rx.closed_flag /\ rx'.queue = rx.queue
  BY <1>1, <1>2 DEF Reactors
<1>4. LoopTypeOK'
  BY <1>1, <1>2, <1>3, Zenon DEF LoopTypeOK
<1>5. Agrees(rx', deleted')
  BY <1>2, <1>3, Zenon DEF Agrees
<1>6. InterestAsArmed' /\ BatchAsReported' /\ TimersOnTime'
  BY <1>1, <1>2, <1>3, Zenon DEF InterestAsArmed, BatchAsReported, TimersOnTime
<1> QED BY <1>1, <1>2, <1>3, <1>4, <1>5, <1>6, Steady, Zenon

\* rtor_reactor_close: epoll forgets all fds, the table does not.
LEMMA CloseAgrees ==
    ASSUME NEW r \in Reactors, NEW D, Agrees(r, D)
    PROVE  LET r2 == rtor_reactor_close(r)
           IN  /\ r2 \in Reactors /\ Agrees(r2, D) /\ r2.closed_flag
               /\ \A fd \in Fds : r2.epoll[fd] = None
               /\ r2.table = r.table /\ r2.ready = r.ready /\ r2.queue = r.queue
<1> DEFINE r2 == rtor_reactor_close(r)
<1>1. /\ r2 \in Reactors /\ r2.table = r.table /\ r2.count = r.count /\ r2.ok = r.ok
      /\ r2.epoll = [fd \in Fds |-> None] /\ r2.ready = r.ready /\ r2.queue = r.queue
  BY Zenon DEF rtor_reactor_close, Reactors
<1>2. r2.closed_flag
  BY Zenon DEF rtor_reactor_close, Reactors
<1> HIDE DEF r2
<1>3. \A fd \in Fds : r2.epoll[fd] = None
  BY <1>1, Zenon
<1>4. r2.ok /\ IsFiniteSet(r2.table) /\ r2.count = Cardinality(r2.table)
  BY <1>1, Zenon DEF Agrees
<1>5. Agrees(r2, D)
  BY <1>2, <1>3, <1>4, Zenon DEF Agrees
<1> QED BY <1>1, <1>2, <1>3, <1>5, Zenon DEF r2

\* rtor_reactor_close drops what is registered.
LEMMA Closed ==
    ASSUME RunLoopInv, Close, UNCHANGED <<used, deleted, bare, turned>>
    PROVE  RunLoopInv'
<1>1. /\ Call /\ rx' = rtor_reactor_close(rx)
      /\ history' = [history EXCEPT !.closes = Closes(rx), !.ended = "closed"]
      /\ UNCHANGED <<loop, timer, event, stream>>
  BY Zenon DEF Close
<1>2. /\ ~Stopped /\ loop # "aborted" /\ loop # "wait" /\ ~rx.closed_flag
      /\ LoopTypeOK /\ rx \in Reactors
      /\ Agrees(rx, deleted) /\ InterestAsArmed /\ BatchAsReported /\ TimersOnTime /\ ~history.early
      /\ rx.queue # None => rx.queue \in rx.table
      /\ UNCHANGED <<batch, running>> /\ history \in Histories /\ rx.table \subseteq Fds
  BY <1>1, CallState, Zenon DEF LoopTypeOK, Reactors
<1>3. /\ rx' \in Reactors /\ Agrees(rx', deleted') /\ rx'.closed_flag
      /\ \A fd \in Fds : rx'.epoll[fd] = None
      /\ rx'.table = rx.table /\ rx'.ready = rx.ready /\ rx'.queue = rx.queue
  BY <1>1, <1>2, CloseAgrees, Zenon
<1>4. history.closes = 0 /\ Closes(rx) = (IF rx.queue # None THEN 1 ELSE 0)
  BY <1>2, RunLoopAssumption DEF Closes, RunLoopInv, QueueAndEnd, Stopped
<1>5. /\ history' \in Histories /\ history'.since = history.since /\ history'.reset = history.reset
      /\ history'.dropped = history.dropped /\ history'.cleared = history.cleared
      /\ history'.early = history.early /\ history'.ended = "closed"
      /\ history'.closes = (IF rx.queue # None THEN 1 ELSE 0)
  <2> DEFINE n == Closes(rx)
  <2>1. n \in Nat /\ n = (IF rx.queue # None THEN 1 ELSE 0)
    BY <1>4
  <2>2. history' = [history EXCEPT !.closes = n, !.ended = "closed"] /\ history \in Histories
    BY <1>1, <1>2, Zenon
  <2> HIDE DEF n
  <2>3. /\ history' \in Histories /\ history'.since = history.since
        /\ history'.reset = history.reset /\ history'.dropped = history.dropped
        /\ history'.cleared = history.cleared /\ history'.early = history.early
        /\ history'.ended = "closed" /\ history'.closes = n
    BY <2>1, <2>2, Zenon DEF Histories
  <2> QED BY <2>1, <2>3, Zenon
<1>6. LoopTypeOK'
  BY <1>1, <1>2, <1>3, <1>5, Zenon DEF LoopTypeOK
<1>7. InterestAsArmed'
  BY <1>3, Zenon DEF InterestAsArmed, Fds
<1>8. BatchAsReported' /\ TimersOnTime'
  BY <1>1, <1>2, <1>3, <1>5, Zenon DEF BatchAsReported, TimersOnTime
<1>9. TimersNotEarly' /\ StopsOnlyWhen' /\ QueueFdClosedOnce'
  BY <1>1, <1>2, <1>5, Zenon DEF Stopped, TimersNotEarly, StopsOnlyWhen, AbortsOnlyWhen,
                          BlocksOnlyWhenCleared, QueueFdClosedOnce
<1>10. Phases'
  BY <1>1, <1>2, <1>3, Zenon DEF RunLoopInv, Phases
<1>11. QueueAndEnd'
  BY <1>1, <1>2, <1>3, <1>5, Zenon DEF QueueAndEnd, Stopped
<1> QED BY <1>3, <1>6, <1>7, <1>8, <1>9, <1>10, <1>11, Zenon DEF RunLoopInv

\* The calls that the three marks are not about.
LEMMA PlainCallInv ==
    ASSUME RunLoopInv, PlainCall, UNCHANGED <<used, deleted, bare, turned>>
    PROVE  RunLoopInv'
<1>1. ASSUME NEW t \in Timers, NEW interval \in Intervals, NEW repeating \in BOOLEAN,
             \/ rtor_timer_register(t, interval, repeating)
             \/ rtor_timer_update(t, interval, repeating)
      PROVE  RunLoopInv'
  BY <1>1, TimerRegistered, TimerUpdated, Zenon
<1>2. ASSUME NEW t \in Timers, SetTimer(t)
      PROVE  RunLoopInv'
  BY <1>2, TimerSetAgain, Zenon
<1>3. ASSUME NEW fd \in used, Deregister(fd)
      PROVE  RunLoopInv'
  BY <1>3, Deregistered, Zenon
<1>4. ASSUME NEW e \in Eventfds,
             \/ rtor_eventfd_register(e)
             \/ rtor_eventfd_disarm(e)
             \/ rtor_eventfd_clear_one_event(e)
             \/ rtor_eventfd_clear_all_events(e)
      PROVE  RunLoopInv'
  <2>1. CASE rtor_eventfd_register(e)
    BY <2>1, EventfdRegistered, Zenon
  <2>4. CASE rtor_eventfd_disarm(e)
    BY <2>4, EventfdDisarmed, Zenon
  <2>5. CASE rtor_eventfd_clear_one_event(e)
    BY <2>5, EventfdCleared, Zenon
  <2>6. CASE rtor_eventfd_clear_all_events(e)
    BY <2>6, EventfdClearedAll, Zenon
  <2> QED BY <1>4, <2>1, <2>4, <2>5, <2>6, Zenon
<1>5. ASSUME NEW s \in Streams,
             \/ rtor_stream_register(s)
             \/ rtor_stream_arm_both(s)
             \/ rtor_stream_arm_read(s)
             \/ rtor_stream_arm_write(s)
             \/ rtor_stream_disarm_read(s)
             \/ rtor_stream_disarm_write(s)
      PROVE  RunLoopInv'
  BY <1>5, StreamCalls, Zenon
<1>6. ASSUME NEW l \in Listeners,
             \/ rtor_listener_register(l)
             \/ rtor_listener_arm(l)
             \/ WListenerFd_disarm(l)
      PROVE  RunLoopInv'
  <2>1. CASE rtor_listener_register(l)
    BY <2>1, ListenerRegistered, Zenon
  <2>2. CASE rtor_listener_arm(l)
    BY <2>2, ListenerRewatched, Zenon DEF rtor_listener_arm
  <2>3. CASE WListenerFd_disarm(l)
    BY <2>3, ListenerRewatched, Zenon DEF WListenerFd_disarm
  <2> QED BY <1>6, <2>1, <2>2, <2>3, Zenon
<1>7. CASE Post
  BY <1>7, Posted, Zenon
<1>8. CASE Close
  BY <1>8, Closed, Zenon
<1> QED BY <1>1, <1>2, <1>3, <1>4, <1>5, <1>6, <1>7, <1>8, Zenon DEF PlainCall

\* Every call of the user.
LEMMA UserCallInv ==
    ASSUME RunLoopInv, UserCall, UNCHANGED used
    PROVE  RunLoopInv'
<1>1. ASSUME NEW fd \in used, Delete(fd)
      PROVE  RunLoopInv'
  BY <1>1, Deleted, Zenon
<1>2. ASSUME NEW e \in Eventfds, NEW given \in BOOLEAN, rtor_eventfd_arm(e, given)
      PROVE  RunLoopInv'
  <2>1. {"IN"} \in {{}, {"IN"}}
    BY Zenon
  <2> QED BY <1>2, <2>1, EventfdWatched, Zenon DEF rtor_eventfd_arm
<1>3. ASSUME NEW e \in Eventfds, NEW given \in BOOLEAN, NEW interest \in {{}, {"IN"}},
             rtor_eventfd_change_watch(e, given, interest)
      PROVE  RunLoopInv'
  BY <1>3, EventfdWatched, Zenon DEF rtor_eventfd_change_watch
<1> QED BY <1>1, <1>2, <1>3, PlainCallInv, Zenon DEF UserCall, marks

-----------------------------------------------------------------------------
(* Kernel and other threads *)

\* What may be assumed while the loop goes on.
LEMMA OpenState ==
    ASSUME RunLoopInv, ~Stopped
    PROVE  /\ loop # "aborted" /\ LoopTypeOK /\ rx \in Reactors /\ history \in Histories
           /\ Agrees(rx, deleted) /\ InterestAsArmed /\ Phases /\ BatchAsReported /\ TimersOnTime
           /\ rx.queue # None => rx.queue \in rx.table
           /\ ~history.early
BY Zenon DEF Stopped, RunLoopInv, LoopTypeOK, TimersNotEarly, QueueAndEnd

\* A timer loses as much of its rest as time passes.
LEMMA TickInv ==
    ASSUME RunLoopInv, Tick, UNCHANGED <<used, deleted, bare, turned>>
    PROVE  RunLoopInv'
<1> DEFINE since == [t \in Timers |-> IF /\ history.since[t] < WholeSeconds(timer[t].interval)
                                         /\ timer[t].armed
                                      THEN history.since[t] + 1 ELSE history.since[t]]
<1>1. /\ ~Stopped
      /\ timer' = [t \in Timers |-> [timer[t] EXCEPT !.left = IF @ > 0 THEN @ - 1 ELSE 0]]
      /\ history' = [history EXCEPT !.since = since]
      /\ UNCHANGED <<rx, event, stream, loop, batch, running>>
  BY Zenon DEF Tick
<1>2. /\ loop # "aborted" /\ LoopTypeOK /\ Agrees(rx, deleted) /\ InterestAsArmed
      /\ BatchAsReported /\ TimersOnTime /\ history \in Histories
      /\ rx.queue # None => rx.queue \in rx.table
      /\ ~history.early /\ timer \in [Timers -> TimerWatchers]
  BY <1>1, OpenState, Zenon DEF LoopTypeOK
<1>3. since \in [Timers -> Nat]
  BY <1>2 DEF Histories
<1>4. ASSUME NEW t \in Timers
      PROVE  /\ history.since[t] <= since[t]
             /\ since[t] \in Nat
             /\ timer[t].armed => \/ since[t] = history.since[t] + 1
                                  \/ since[t] >= WholeSeconds(timer[t].interval)
  <2>1. history.since[t] \in Nat /\ timer[t].interval \in Nat
    BY <1>2, Zenon DEF Histories, TimerWatchers
  <2>2. WholeSeconds(timer[t].interval) \in Nat
    BY <2>1 DEF WholeSeconds, Second
  <2> QED BY <2>1, <2>2
<1> HIDE DEF since
<1>5. /\ history' \in Histories /\ history'.since = since /\ history'.reset = history.reset
      /\ history'.dropped = history.dropped /\ history'.cleared = history.cleared
      /\ history'.early = history.early /\ history'.ended = history.ended
      /\ history'.closes = history.closes
  BY <1>1, <1>2, <1>3, Zenon DEF Histories
<1>6. ASSUME NEW t \in Timers
      PROVE  /\ timer'[t] \in TimerWatchers /\ timer'[t].interval = timer[t].interval
             /\ timer'[t].armed = timer[t].armed /\ timer'[t].pending = timer[t].pending
             /\ timer'[t].left = (IF timer[t].left > 0 THEN timer[t].left - 1 ELSE 0)
  BY <1>1, <1>2 DEF TimerWatchers
<1>7. timer' \in [Timers -> TimerWatchers]
  BY <1>1, <1>6, Zenon
<1>8. LoopTypeOK' /\ InterestAsArmed'
  BY <1>1, <1>2, <1>5, <1>7, Zenon DEF LoopTypeOK, InterestAsArmed
<1>9. TimersOnTime'
  <2> SUFFICES ASSUME NEW t \in Timers
               PROVE  /\ timer'[t].armed =>
                            since[t] + timer'[t].left >= WholeSeconds(timer'[t].interval)
                      /\ timer'[t].pending => since[t] >= WholeSeconds(timer'[t].interval)
    BY <1>5, Zenon DEF TimersOnTime
  <2>1. history.since[t] \in Nat /\ timer[t].left \in Nat /\ timer[t].interval \in Nat
    BY <1>2, Zenon DEF Histories, TimerWatchers
  <2>2. WholeSeconds(timer[t].interval) \in Nat
    BY <2>1 DEF WholeSeconds, Second
  <2>3. /\ timer[t].armed => history.since[t] + timer[t].left >= WholeSeconds(timer[t].interval)
        /\ timer[t].pending => history.since[t] >= WholeSeconds(timer[t].interval)
    BY <1>2, Zenon DEF TimersOnTime
  <2> QED BY <1>4, <1>6, <2>1, <2>2, <2>3
<1>10. BatchAsReported'
  <2>1. ASSUME NEW t \in batch' \cap Timers, t \notin history'.reset
        PROVE  history'.since[t] >= WholeSeconds(timer'[t].interval)
    <3>1. history.since[t] >= WholeSeconds(timer[t].interval)
      BY <1>1, <1>2, <1>5, <2>1, Zenon DEF BatchAsReported
    <3>2. history.since[t] \in Nat /\ WholeSeconds(timer[t].interval) \in Nat
      BY <1>2 DEF Histories, TimerWatchers, WholeSeconds, Second
    <3> QED BY <1>4, <1>5, <1>6, <3>1, <3>2
  <2> QED BY <1>1, <1>2, <1>5, <2>1, Zenon DEF BatchAsReported
<1>11. ~history'.early
  BY <1>2, <1>5, Zenon
<1> QED BY <1>1, <1>2, <1>5, <1>8, <1>9, <1>10, <1>11, Steady, Zenon

\* A timer expires when nothing of its time is left.
LEMMA ExpireInv ==
    ASSUME RunLoopInv, NEW t \in Timers, Expire(t), UNCHANGED <<used, deleted, bare, turned>>
    PROVE  RunLoopInv'
<1>1. /\ ~Stopped /\ timer[t].armed /\ timer[t].left = 0
      /\ timer' = [timer EXCEPT ![t].pending = TRUE, ![t].left = timer[t].period]
      /\ UNCHANGED <<rx, event, stream, loop, batch, running, history>>
  BY Zenon DEF Expire
<1>2. /\ loop # "aborted" /\ LoopTypeOK /\ Agrees(rx, deleted) /\ InterestAsArmed
      /\ BatchAsReported /\ TimersOnTime /\ history \in Histories
      /\ rx.queue # None => rx.queue \in rx.table
      /\ ~history.early /\ timer \in [Timers -> TimerWatchers]
  BY <1>1, OpenState, Zenon DEF LoopTypeOK
<1>3. /\ timer' \in [Timers -> TimerWatchers]
      /\ \A u \in Timers : timer'[u].interval = timer[u].interval
      /\ \A u \in Timers \ {t} : timer'[u] = timer[u]
      /\ timer'[t].left \in Nat
  BY <1>1, <1>2, Zenon DEF TimerWatchers
<1>4. LoopTypeOK' /\ InterestAsArmed' /\ BatchAsReported'
  BY <1>1, <1>2, <1>3, Zenon DEF LoopTypeOK, InterestAsArmed, BatchAsReported
<1>5. TimersOnTime'
  <2>1. history.since[t] \in Nat /\ WholeSeconds(timer[t].interval) \in Nat
    BY <1>2 DEF Histories, TimerWatchers, WholeSeconds, Second
  <2>2. history.since[t] >= WholeSeconds(timer[t].interval)
    BY <1>1, <1>2, <2>1 DEF TimersOnTime
  <2>3. history.since[t] + timer'[t].left >= WholeSeconds(timer[t].interval)
    BY <1>3, <2>1, <2>2
  <2> QED BY <1>1, <1>2, <1>3, <2>2, <2>3, Zenon DEF TimersOnTime
<1> QED BY <1>1, <1>2, <1>4, <1>5, Steady, Zenon

\* rtor_eventfd_fire writes to the pipe from any thread.
LEMMA FireInv ==
    ASSUME RunLoopInv, NEW e \in Eventfds, rtor_eventfd_fire(e), UNCHANGED <<used, deleted, bare, turned>>
    PROVE  RunLoopInv'
<1>1. /\ ~Stopped /\ event' = [event EXCEPT ![e].pipe = @ + 1]
      /\ UNCHANGED <<rx, timer, stream, loop, batch, running, history>>
  BY Zenon DEF rtor_eventfd_fire
<1>2. /\ loop # "aborted" /\ LoopTypeOK /\ Agrees(rx, deleted) /\ InterestAsArmed
      /\ BatchAsReported /\ TimersOnTime
      /\ rx.queue # None => rx.queue \in rx.table
      /\ ~history.early /\ event \in [Eventfds -> EventWatchers]
  BY <1>1, OpenState, Zenon DEF LoopTypeOK
<1>3. /\ event' \in [Eventfds -> EventWatchers] /\ event'[e].pipe # 0
      /\ \A d \in Eventfds : event'[d].handler = event[d].handler
      /\ \A d \in Eventfds \ {e} : event'[d] = event[d]
  BY <1>1, <1>2 DEF EventWatchers
<1>4. LoopTypeOK' /\ InterestAsArmed' /\ TimersOnTime'
  BY <1>1, <1>2, <1>3, Zenon DEF LoopTypeOK, InterestAsArmed, TimersOnTime
<1>5. BatchAsReported'
  BY <1>1, <1>2, <1>3, Zenon DEF BatchAsReported
<1> QED BY <1>1, <1>2, <1>4, <1>5, Steady, Zenon

\* Input or space on a descriptor changes no watcher.
LEMMA ArriveInv ==
    ASSUME RunLoopInv, NEW fd \in Fds, Arrive(fd), UNCHANGED <<used, deleted, bare, turned>>
    PROVE  RunLoopInv'
<1>1. /\ ~Stopped
      /\ rx' = [rx EXCEPT !.edge[fd] = rx.epoll[fd] # None] \/ rx' = rx
      /\ UNCHANGED <<timer, event, stream, loop, batch, running, history>>
  BY Zenon DEF Arrive
<1>2. /\ loop # "aborted" /\ LoopTypeOK /\ rx \in Reactors /\ Agrees(rx, deleted) /\ InterestAsArmed
      /\ BatchAsReported /\ TimersOnTime
      /\ rx.queue # None => rx.queue \in rx.table
      /\ ~history.early
  BY <1>1, OpenState, Zenon DEF LoopTypeOK
<1>3. /\ rx' \in Reactors /\ rx'.table = rx.table /\ rx'.count = rx.count /\ rx'.ok = rx.ok
      /\ rx'.epoll = rx.epoll /\ rx'.closed_flag = rx.closed_flag
      /\ rx'.ready = rx.ready /\ rx'.queue = rx.queue
  <2> DEFINE b == rx.epoll[fd] # None
  <2>1. b \in BOOLEAN /\ (rx' = [rx EXCEPT !.edge[fd] = b] \/ rx' = rx)
    BY <1>1, Zenon
  <2> HIDE DEF b
  <2> QED BY <1>2, <2>1 DEF Reactors
<1>4. LoopTypeOK'
  BY <1>1, <1>2, <1>3, Zenon DEF LoopTypeOK
<1>5. Agrees(rx', deleted')
  BY <1>2, <1>3, Zenon DEF Agrees
<1>6. InterestAsArmed' /\ BatchAsReported' /\ TimersOnTime'
  BY <1>1, <1>2, <1>3, Zenon DEF InterestAsArmed, BatchAsReported, TimersOnTime
<1> QED BY <1>1, <1>2, <1>3, <1>4, <1>5, <1>6, Steady, Zenon

\* Time and the outside world keep the invariant.
LEMMA EnvironmentInv ==
    ASSUME RunLoopInv, Environment, UNCHANGED <<used, deleted, bare, turned>>
    PROVE  RunLoopInv'
<1>1. ASSUME NEW fd \in (Streams \cup Listeners) \cap used, Arrive(fd)
      PROVE  RunLoopInv'
  <2>1. fd \in Fds
    BY Zenon DEF Fds
  <2> QED BY <1>1, <2>1, ArriveInv, Zenon
<1> QED BY <1>1, TickInv, ExpireInv, FireInv, Zenon DEF Environment

-----------------------------------------------------------------------------
(* rtor_reactor_run *)

\* What may be assumed at a step of the loop, which is never one of an aborted
\* program.
LEMMA LoopState ==
    ASSUME RunLoopInv, loop # "aborted"
    PROVE  /\ LoopTypeOK /\ rx \in Reactors /\ history \in Histories /\ rx.table \subseteq Fds
           /\ timer \in [Timers -> TimerWatchers] /\ event \in [Eventfds -> EventWatchers]
           /\ Agrees(rx, deleted) /\ InterestAsArmed /\ Phases /\ BatchAsReported /\ TimersOnTime
           /\ QueueAndEnd /\ ~history.early
BY Zenon DEF RunLoopInv, LoopTypeOK, TimersNotEarly, Reactors

\* rtor_wqueue_deregister leaves an empty table when the queue was the last watcher.
LEMMA LastIsQueue ==
    ASSUME NEW r \in Reactors, NEW D, Agrees(r, D), r.count = 1, r.queue \in r.table
    PROVE  r.table = {r.queue}
<1>1. IsFiniteSet(r.table) /\ Cardinality(r.table) = 1
  BY Zenon DEF Agrees
<1>2. PICK x : r.table = {x}
  BY <1>1, FS_Singleton, Zenon
<1> QED BY <1>2, Zenon

\* The top of the loop: it returns with an empty table, goes on to wait with an
\* empty ready list, or asserts.
LEMMA TopInv ==
    ASSUME RunLoopInv, Top, UNCHANGED <<used, deleted, bare, turned>>
    PROVE  RunLoopInv'
<1> DEFINE last == FdTable_size(rx) = 1 /\ rx.queue # None
<1>1. /\ loop = "top" /\ UNCHANGED <<timer, event, stream, batch, running>>
      /\ rx' = IF last THEN rtor_wqueue_deregister(rx, rx.queue) ELSE rx
      /\ IF FdTable_size(rx) = 0 \/ last
         THEN /\ loop' = IF rx'.ok THEN "returned" ELSE "aborted"
              /\ history' = [history EXCEPT !.ended = IF @ = None THEN "idle" ELSE @]
         ELSE /\ loop' = IF rx.ready = 0 THEN "wait" ELSE "aborted"
              /\ UNCHANGED history
  BY Zenon DEF Top
<1>2. /\ LoopTypeOK /\ rx \in Reactors /\ history \in Histories /\ rx.table \subseteq Fds
      /\ Agrees(rx, deleted) /\ InterestAsArmed /\ Phases /\ BatchAsReported /\ TimersOnTime
      /\ QueueAndEnd /\ ~history.early
  BY <1>1, LoopState, Zenon
<1>3. /\ running = None /\ batch = {}
      /\ rx.queue # None => rx.queue \in rx.table
      /\ history.ended = (IF rx.closed_flag THEN "closed" ELSE None)
      /\ history.closes = (IF rx.closed_flag /\ rx.queue # None THEN 1 ELSE 0)
  BY <1>1, <1>2, Zenon DEF Phases, QueueAndEnd
<1>3a. rx.ready > 0 => ~turned
  BY <1>1, <1>2 DEF Phases
<1>4. CASE FdTable_size(rx) = 0 \/ last
  <2> DEFINE ended == IF history.ended = None THEN "idle" ELSE history.ended
  <2>1. /\ history' = [history EXCEPT !.ended = ended]
        /\ ended \in {None, "idle", "closed", "interrupted"}
    BY <1>1, <1>2, <1>4, Zenon DEF Histories
  <2> HIDE DEF ended
  <2>2. /\ history' \in Histories /\ history'.since = history.since
        /\ history'.reset = history.reset /\ history'.dropped = history.dropped
        /\ history'.cleared = history.cleared /\ history'.early = history.early
        /\ history'.closes = history.closes /\ history'.ended = ended
    BY <1>2, <2>1, Zenon DEF Histories
  <2>3. ended # None /\ ended = IF rx.closed_flag THEN "closed" ELSE "idle"
    BY <1>3, RunLoopAssumption, Zenon DEF ended
  <2>4. ~history'.early
    BY <1>2, <2>2, Zenon
  <2>5. CASE FdTable_size(rx) = 0
    <3>1. rx.table = {} /\ rx' = rx
      <4>1. IsFiniteSet(rx.table) /\ Cardinality(rx.table) = 0
        BY <1>2, <2>5, Zenon DEF FdTable_size, Agrees
      <4>2. rx.table = {}
        BY <4>1, FS_EmptySet, Zenon
      <4>3. rx' = rx
        BY <1>1, <2>5
      <4> QED BY <4>2, <4>3, Zenon
    <3>2. loop' = "returned"
      BY <1>1, <1>2, <2>5, <3>1, Zenon DEF Agrees
    <3>3. LoopTypeOK'
      BY <1>1, <1>2, <2>2, <3>1, <3>2, Zenon DEF LoopTypeOK, LoopPlaces
    <3>4. InterestAsArmed' /\ BatchAsReported' /\ TimersOnTime' /\ Agrees(rx, deleted)'
      BY <1>1, <1>2, <2>2, <3>1, Zenon DEF InterestAsArmed, BatchAsReported, TimersOnTime
    <3>5. Phases' /\ QueueAndEnd'
      <4>1. Phases'
        BY <1>1, <1>3, <3>2, Zenon DEF Phases
      <4>2. QueueAndEnd'
        BY <1>1, <1>3, <1>3a, <2>2, <2>3, <3>1, <3>2, Zenon DEF QueueAndEnd
      <4> QED BY <4>1, <4>2, Zenon
    <3>6. TimersNotEarly' /\ StopsOnlyWhen' /\ QueueFdClosedOnce'
      BY <2>4, <3>2, Zenon DEF TimersNotEarly, StopsOnlyWhen, AbortsOnlyWhen,
                        BlocksOnlyWhenCleared, QueueFdClosedOnce
    <3> QED BY <3>3, <3>4, <3>5, <3>6, Zenon DEF RunLoopInv
  <2>6. CASE FdTable_size(rx) # 0
    <3>1. /\ last /\ rx.count = 1 /\ rx.queue \in rx.table
          /\ rx' = rtor_reactor_deregister(rx, rx.queue)
      BY <1>1, <1>3, <1>4, <2>6, Zenon DEF FdTable_size, rtor_wqueue_deregister
    <3>2. /\ rx' \in Reactors
          /\ rx'.closed_flag = rx.closed_flag /\ rx'.ready = rx.ready /\ rx'.queue = rx.queue
          /\ rx.closed_flag => ~rx'.ok
          /\ ~rx.closed_flag => /\ Agrees(rx', deleted') /\ rx'.table = rx.table \ {rx.queue}
                                /\ rx'.epoll = [rx.epoll EXCEPT ![rx.queue] = None]
      BY <1>2, <3>1, DeregisterAgrees, Zenon
    <3>3. LoopTypeOK'
      BY <1>1, <1>2, <1>4, <2>2, <3>2, Zenon DEF LoopTypeOK, LoopPlaces
    <3>4. CASE rx.closed_flag
      <4>1. loop' = "aborted" /\ AbortsOnlyWhen'
        BY <1>1, <1>4, <3>2, <3>4, Zenon DEF AbortsOnlyWhen
      <4> QED BY <2>4, <3>3, <4>1, Aborting, Zenon
    <3>5. CASE ~rx.closed_flag
      <4>1. rx'.table = {} /\ loop' = "returned"
        BY <1>1, <1>2, <1>4, <3>1, <3>2, <3>5, LastIsQueue, Zenon DEF Agrees
      <4>2. InterestAsArmed'
        BY <1>1, <1>2, <3>1, <3>2, <3>5, InterestSet, Zenon
      <4>3. BatchAsReported' /\ TimersOnTime'
        BY <1>1, <1>2, <1>3, <2>2, Zenon DEF BatchAsReported, TimersOnTime
      <4>4. Phases' /\ QueueAndEnd'
        <5>1. Phases'
          BY <1>1, <1>3, <4>1, Zenon DEF Phases
        <5>2. QueueAndEnd'
          BY <1>1, <1>3, <1>3a, <2>2, <2>3, <3>2, <3>5, <4>1, Zenon DEF QueueAndEnd
        <5> QED BY <5>1, <5>2, Zenon
      <4>5. TimersNotEarly' /\ StopsOnlyWhen' /\ QueueFdClosedOnce'
        BY <2>4, <4>1, Zenon DEF TimersNotEarly, StopsOnlyWhen, AbortsOnlyWhen,
                          BlocksOnlyWhenCleared, QueueFdClosedOnce
      <4> QED BY <3>2, <3>3, <3>5, <4>2, <4>3, <4>4, <4>5, Zenon DEF RunLoopInv
    <3> QED BY <3>4, <3>5, Zenon
  <2> QED BY <2>5, <2>6, Zenon
<1>5. CASE ~(FdTable_size(rx) = 0 \/ last)
  <2>1. rx' = rx /\ history' = history /\ loop' = IF rx.ready = 0 THEN "wait" ELSE "aborted"
    BY <1>1, <1>5, Zenon
  <2>2. LoopTypeOK'
    BY <1>1, <1>2, <2>1, Zenon DEF LoopTypeOK, LoopPlaces
  <2>3. CASE rx.ready = 0
    <3>1. InterestAsArmed' /\ BatchAsReported' /\ TimersOnTime' /\ Agrees(rx, deleted)'
      BY <1>1, <1>2, <2>1, Zenon DEF InterestAsArmed, BatchAsReported, TimersOnTime
    <3>2. Phases' /\ QueueAndEnd'
      <4>1. loop' = "wait" /\ rx'.ready = 0 /\ running' = None /\ batch' = {}
        BY <1>1, <1>3, <2>1, <2>3, Zenon
      <4>2. Phases'
        BY <4>1, Zenon DEF Phases
      <4>3. QueueAndEnd'
        BY <1>1, <1>2, <2>1, <4>1, Zenon DEF QueueAndEnd
      <4> QED BY <4>2, <4>3, Zenon
    <3>3. TimersNotEarly' /\ StopsOnlyWhen' /\ QueueFdClosedOnce'
      BY <1>2, <2>1, <2>3, Zenon DEF TimersNotEarly, StopsOnlyWhen, AbortsOnlyWhen,
                              BlocksOnlyWhenCleared, QueueFdClosedOnce
    <3> QED BY <2>2, <3>1, <3>2, <3>3, Zenon DEF RunLoopInv
  <2>4. CASE rx.ready # 0
    <3>1. rx.ready \in Nat
      BY <1>2, Zenon DEF Reactors
    <3>2. loop' = "aborted" /\ AbortsOnlyWhen'
      BY <2>1, <2>4, <3>1 DEF AbortsOnlyWhen
    <3>3. ~history'.early
      BY <1>2, <2>1, Zenon
    <3> QED BY <2>2, <3>2, <3>3, Aborting, Zenon
  <2> QED BY <2>3, <2>4, Zenon
<1> QED BY <1>4, <1>5, Zenon

\* A step that leaves the loop running keeps the invariant when it keeps the
\* records, and waits in a handler only after a pipe was emptied.
LEMMA GoesOn ==
    ASSUME RunLoopInv, loop \notin {"aborted", "returned", "freed"},
           loop' \notin {"aborted", "returned", "freed"},
           LoopTypeOK', Agrees(rx', deleted'), InterestAsArmed', Phases', BatchAsReported', TimersOnTime',
           rx'.queue = rx.queue, rx'.closed_flag = rx.closed_flag,
           rx.queue # None => rx.queue \in rx'.table,
           history'.ended = history.ended, history'.closes = history.closes, ~history'.early,
           loop' # "reading",
           loop' = "blocked" => \E e \in history'.cleared \cap Eventfds : event'[e].pipe = 0
    PROVE  RunLoopInv'
<1>1. TimersNotEarly' /\ StopsOnlyWhen' /\ QueueFdClosedOnce'
  BY Zenon DEF TimersNotEarly, StopsOnlyWhen, AbortsOnlyWhen, BlocksOnlyWhenCleared, QueueFdClosedOnce
<1>2. QueueAndEnd'
  BY Zenon DEF RunLoopInv, QueueAndEnd
<1> QED BY <1>1, <1>2, Zenon DEF RunLoopInv

\* Steps that change nothing but where the loop is and what runs.
LEMMA OnlyMoves ==
    ASSUME RunLoopInv, loop \notin {"aborted", "returned", "freed"}, loop' \in LoopPlaces,
           loop' \notin {"aborted", "returned", "freed", "blocked", "reading"}, Phases',
           batch' \subseteq batch, UNCHANGED <<used, rx, timer, event, stream, history>>,
           UNCHANGED <<deleted, bare, turned>>
    PROVE  RunLoopInv'
<1>1. /\ LoopTypeOK /\ Agrees(rx, deleted) /\ InterestAsArmed /\ BatchAsReported /\ TimersOnTime
      /\ QueueAndEnd /\ ~history.early
  BY LoopState, Zenon
<1>2. LoopTypeOK' /\ InterestAsArmed' /\ TimersOnTime'
  BY <1>1, Zenon DEF LoopTypeOK, InterestAsArmed, TimersOnTime
<1>3. BatchAsReported'
  BY <1>1, Zenon DEF BatchAsReported
<1>4. rx.queue # None => rx.queue \in rx'.table
  BY <1>1, Zenon DEF QueueAndEnd
<1> QED BY <1>1, <1>2, <1>3, <1>4, GoesOn, Zenon

\* rtor_reactor_run starts the loop and touches no watcher.
LEMMA RunInv ==
    ASSUME RunLoopInv, Run, UNCHANGED <<used, deleted, bare, turned>>
    PROVE  RunLoopInv'
<1>1. /\ loop = "setup" /\ loop' = "top"
      /\ UNCHANGED <<rx, timer, event, stream, batch, running, history>>
  BY Zenon DEF Run
<1>2. Phases'
  BY <1>1, LoopState, Zenon DEF Phases
<1> QED BY <1>1, <1>2, OnlyMoves, Zenon DEF LoopPlaces

\* An event that epoll reports is of a watched fd whose handler has something to do.
LEMMA ReportedIsWatched ==
    ASSUME LoopTypeOK, Agrees(rx, deleted), ~rx.closed_flag, InterestAsArmed, TimersOnTime
    PROVE  /\ EpollReady \subseteq rx.table \cup deleted
           /\ \A e \in EpollReady \cap Eventfds :
                 (event[e].handler \/ e \in bare) /\ event[e].pipe # 0
           /\ \A t \in EpollReady \cap Timers :
                 history.since[t] >= WholeSeconds(timer[t].interval)
<1>1. EpollReady \subseteq rx.table \cup deleted
  BY Zenon DEF EpollReady, Agrees
<1>2. ASSUME NEW e \in EpollReady \cap Eventfds
      PROVE  (event[e].handler \/ e \in bare) /\ event[e].pipe # 0
  <2>0. e \in Eventfds /\ e \notin Timers /\ e \notin Queues
    BY RunLoopAssumption, Zenon
  <2>1. rx.epoll[e] # None /\ Ready(e) \cap rx.epoll[e] # {}
    BY Zenon DEF EpollReady
  <2>2. Ready(e) = IF event[e].pipe > 0 THEN {"IN"} ELSE {}
    BY <2>0, Zenon DEF Ready
  <2>3. event[e].pipe > 0 /\ rx.epoll[e] # {}
    BY <2>1, <2>2, Zenon
  <2> QED BY <2>0, <2>1, <2>3 DEF InterestAsArmed
<1>3. ASSUME NEW t \in EpollReady \cap Timers
      PROVE  history.since[t] >= WholeSeconds(timer[t].interval)
  <2>0. t \in Timers /\ t \notin Eventfds /\ t \notin Queues
    BY RunLoopAssumption, Zenon
  <2>1. Ready(t) # {}
    BY Zenon DEF EpollReady
  <2>2. Ready(t) = IF timer[t].pending THEN {"IN"} ELSE {}
    BY <2>0, Zenon DEF Ready
  <2>3. timer[t].pending
    BY <2>1, <2>2, Zenon
  <2> QED BY <2>0, <2>3, Zenon DEF TimersOnTime
<1> QED BY <1>1, <1>2, <1>3, Zenon

\* epoll_wait returns events of registered descriptors.
LEMMA WaitInv ==
    ASSUME RunLoopInv, epoll_wait, UNCHANGED used
    PROVE  RunLoopInv'
<1>1. /\ loop = "wait" /\ ~rx.closed_flag /\ loop' = "dispatch" /\ batch' = EpollReady
      /\ rx' = [rx EXCEPT !.edge = [fd \in Fds |-> rx.edge[fd] /\ fd \notin EpollReady]]
      /\ history' = [history EXCEPT !.dropped = {}, !.cleared = {}, !.reset = {}]
      /\ turned' = TRUE /\ UNCHANGED <<timer, event, stream, running, deleted, bare>>
  BY Zenon DEF epoll_wait
<1>2. /\ LoopTypeOK /\ rx \in Reactors /\ history \in Histories
      /\ Agrees(rx, deleted) /\ InterestAsArmed /\ Phases /\ TimersOnTime
      /\ rx.queue # None => rx.queue \in rx.table
      /\ ~history.early
  BY <1>1, LoopState, Zenon DEF QueueAndEnd
<1>3. /\ rx' \in Reactors /\ rx'.table = rx.table /\ rx'.count = rx.count /\ rx'.ok = rx.ok
      /\ rx'.epoll = rx.epoll /\ rx'.closed_flag = rx.closed_flag
      /\ rx'.ready = rx.ready /\ rx'.queue = rx.queue
  <2> DEFINE f == [fd \in Fds |-> rx.edge[fd] /\ fd \notin EpollReady]
  <2>1. f \in [Fds -> BOOLEAN] /\ rx' = [rx EXCEPT !.edge = f]
    BY <1>1, Zenon
  <2> HIDE DEF f
  <2> QED BY <1>2, <2>1, Zenon DEF Reactors
<1>4. /\ history' \in Histories /\ history'.since = history.since
      /\ history'.ended = history.ended /\ history'.closes = history.closes
      /\ history'.early = history.early
  BY <1>1, <1>2, Zenon DEF Histories
<1>5. LoopTypeOK'
  BY <1>1, <1>2, <1>3, <1>4, Zenon DEF LoopTypeOK, LoopPlaces, EpollReady
<1>6. Agrees(rx', deleted')
  BY <1>1, <1>2, <1>3, Zenon DEF Agrees
<1>7. InterestAsArmed' /\ TimersOnTime'
  BY <1>1, <1>2, <1>3, <1>4, Zenon DEF InterestAsArmed, TimersOnTime
<1>8. BatchAsReported'
  <2>1. /\ EpollReady \subseteq rx.table \cup deleted
        /\ \A e \in EpollReady \cap Eventfds :
              (event[e].handler \/ e \in bare) /\ event[e].pipe # 0
        /\ \A t \in EpollReady \cap Timers : history.since[t] >= WholeSeconds(timer[t].interval)
    BY <1>1, <1>2, ReportedIsWatched, Zenon
  <2> QED BY <1>1, <1>3, <1>4, <2>1, Zenon DEF BatchAsReported
<1>9. Phases'
  BY <1>1, <1>2, Zenon DEF Phases
<1>10. ~history'.early /\ (rx.queue # None => rx.queue \in rx'.table)
  BY <1>2, <1>3, <1>4, Zenon
<1> QED BY <1>1, <1>3, <1>4, <1>5, <1>6, <1>7, <1>8, <1>9, <1>10, GoesOn, Zenon

\* An interrupted epoll_wait reports nothing.
LEMMA WaitFailsInv ==
    ASSUME RunLoopInv, epoll_waitFails, UNCHANGED <<used, deleted, bare, turned>>
    PROVE  RunLoopInv'
<1> DEFINE ended == IF rx.closed_flag THEN history.ended ELSE "interrupted"
<1>1. /\ loop = "wait" /\ loop' = "returned" /\ history' = [history EXCEPT !.ended = ended]
      /\ UNCHANGED <<rx, timer, event, stream, batch, running>>
  BY Zenon DEF epoll_waitFails
<1>2. /\ LoopTypeOK /\ rx \in Reactors /\ history \in Histories
      /\ Agrees(rx, deleted) /\ InterestAsArmed /\ Phases /\ BatchAsReported /\ TimersOnTime
      /\ QueueAndEnd /\ ~history.early
  BY <1>1, LoopState, Zenon
<1>3. ended = IF rx.closed_flag THEN "closed" ELSE "interrupted"
  BY <1>1, <1>2, Zenon DEF QueueAndEnd
<1> HIDE DEF ended
<1>4. /\ history' \in Histories /\ history'.since = history.since
      /\ history'.reset = history.reset /\ history'.dropped = history.dropped
      /\ history'.cleared = history.cleared /\ history'.early = history.early
      /\ history'.closes = history.closes /\ history'.ended = ended
  <2>1. ended \in {None, "idle", "closed", "interrupted"}
    BY <1>3, Zenon
  <2> QED BY <1>1, <1>2, <2>1, Zenon DEF Histories
<1>5. LoopTypeOK' /\ InterestAsArmed' /\ BatchAsReported' /\ TimersOnTime' /\ Agrees(rx, deleted)'
  BY <1>1, <1>2, <1>4, Zenon DEF LoopTypeOK, LoopPlaces, InterestAsArmed, BatchAsReported, TimersOnTime
<1>6. Phases'
  BY <1>1, <1>2, Zenon DEF Phases
<1>7. QueueAndEnd'
  BY <1>1, <1>2, <1>3, <1>4, RunLoopAssumption DEF Phases, QueueAndEnd
<1>8. TimersNotEarly' /\ StopsOnlyWhen' /\ QueueFdClosedOnce'
  BY <1>1, <1>2, <1>4, Zenon DEF TimersNotEarly, StopsOnlyWhen, AbortsOnlyWhen,
                          BlocksOnlyWhenCleared, QueueFdClosedOnce
<1> QED BY <1>5, <1>6, <1>7, <1>8, Zenon DEF RunLoopInv

\* The turn of an fd whose watcher is gone ends the program: it was dropped.
LEMMA UnwatchedInv ==
    ASSUME RunLoopInv, NEW fd \in Fds, DispatchUnwatched(fd), UNCHANGED <<used, deleted, bare, turned>>
    PROVE  RunLoopInv'
<1>1. /\ loop = "dispatch" /\ fd \in batch /\ batch' = batch \ {fd} /\ loop' = "aborted"
      /\ ~FdTable_lookup(rx, fd).ok
      /\ UNCHANGED <<rx, timer, event, stream, history>>
  BY Zenon DEF DispatchUnwatched, Dispatching
<1>2. /\ LoopTypeOK /\ rx \in Reactors /\ Agrees(rx, deleted) /\ BatchAsReported /\ ~history.early
  BY <1>1, LoopState, Zenon
<1>3. fd \notin rx.table
  <2>1. SUFFICES ASSUME fd \in rx.table PROVE FALSE
    BY Zenon
  <2> DEFINE b == rx.ok /\ fd \in rx.table
  <2>2. rx.ok
    BY <1>2, Zenon DEF Agrees
  <2>3. b = TRUE
    BY <2>1, <2>2, Zenon
  <2>4. FdTable_lookup(rx, fd) = [rx EXCEPT !.ok = b]
    BY Zenon DEF FdTable_lookup
  <2> HIDE DEF b
  <2>5. FdTable_lookup(rx, fd).ok = b
    BY <1>2, <2>4, Zenon DEF Reactors
  <2> QED BY <1>1, <2>3, <2>5, Zenon
<1>4. LoopTypeOK' /\ AbortsOnlyWhen' /\ ~history'.early
  BY <1>1, <1>2, <1>3, Zenon DEF LoopTypeOK, LoopPlaces, BatchAsReported, AbortsOnlyWhen
<1> QED BY <1>1, <1>4, Aborting, Zenon

\* The handler of a timer runs in time, and a single-shot timer is deregistered
\* before, which a closed loop does not survive.
LEMMA DispatchTimerInv ==
    ASSUME RunLoopInv, NEW t \in Timers, DispatchTimer(t), UNCHANGED <<used, deleted, bare, turned>>
    PROVE  RunLoopInv'
<1> DEFINE early == \/ history.early
                    \/ /\ t \notin history.reset
                       /\ history.since[t] < WholeSeconds(timer[t].interval)
<1>1. /\ loop = "dispatch" /\ t \in batch /\ batch' = batch \ {t} /\ t \in rx.table
      /\ timer' = [timer EXCEPT ![t].pending = FALSE]
      /\ Becomes(IF timer[t].repeating THEN rx ELSE rtor_reactor_deregister(rx, t))
      /\ history' = [history EXCEPT !.early = early]
      /\ UNCHANGED <<event, stream>>
  BY Zenon DEF DispatchTimer, Dispatching, Watched
<1>2. /\ LoopTypeOK /\ rx \in Reactors /\ history \in Histories /\ rx.table \subseteq Fds
      /\ timer \in [Timers -> TimerWatchers]
      /\ Agrees(rx, deleted) /\ InterestAsArmed /\ BatchAsReported /\ TimersOnTime
      /\ QueueAndEnd /\ ~history.early
  BY <1>1, LoopState, Zenon
<1>3. early = FALSE
  <2>1. t \notin history.reset => history.since[t] >= WholeSeconds(timer[t].interval)
    BY <1>1, <1>2, Zenon DEF BatchAsReported
  <2>2. history.since[t] \in Nat /\ WholeSeconds(timer[t].interval) \in Int
    BY <1>2 DEF Histories, TimerWatchers, WholeSeconds, Second
  <2>3. ~early
    BY <1>2, <2>1, <2>2
  <2> HIDE DEF early
  <2> QED BY <2>3
<1> HIDE DEF early
<1>4. /\ history' \in Histories /\ history'.since = history.since
      /\ history'.reset = history.reset /\ history'.dropped = history.dropped
      /\ history'.cleared = history.cleared
      /\ history'.closes = history.closes /\ history'.ended = history.ended
  BY <1>1, <1>2, <1>3, Zenon DEF Histories
<1>5. ~history'.early
  BY <1>1, <1>2, <1>3, Zenon DEF Histories
<1>6. /\ timer' \in [Timers -> TimerWatchers]
      /\ \A u \in Timers \ {t} : timer'[u] = timer[u]
      /\ timer'[t].interval = timer[t].interval /\ timer'[t].armed = timer[t].armed
      /\ timer'[t].left = timer[t].left
  BY <1>1, <1>2, Zenon DEF TimerWatchers
<1>7. ~timer'[t].pending
  BY <1>1, <1>2, Zenon DEF TimerWatchers
<1>8. TimersOnTime'
  BY <1>2, <1>4, <1>6, <1>7, Zenon DEF TimersOnTime
<1>9. /\ rx' \in Reactors /\ loop' \in {"dispatch", "aborted"}
      /\ rx'.closed_flag = rx.closed_flag /\ rx'.ready = rx.ready /\ rx'.queue = rx.queue
      /\ loop' # "aborted" => /\ Agrees(rx', deleted') /\ InterestAsArmed'
                              /\ rx.table \ {t} \subseteq rx'.table
      /\ loop' = "aborted" => rx.closed_flag
  <2>1. CASE timer[t].repeating
    <3>1. rx' = rx /\ loop' = loop
      BY <1>1, <1>2, <2>1, Zenon DEF Becomes, Agrees
    <3> QED BY <1>1, <1>2, <3>1, Zenon DEF InterestAsArmed
  <2>2. CASE ~timer[t].repeating
    <3>1. Becomes(rtor_reactor_deregister(rx, t))
      BY <1>1, <2>2, Zenon
    <3>2. /\ rx' \in Reactors
          /\ rx'.closed_flag = rx.closed_flag /\ rx'.ready = rx.ready /\ rx'.queue = rx.queue
          /\ ~rx.closed_flag => /\ Agrees(rx', deleted) /\ rx'.table = rx.table \ {t}
                                /\ rx'.epoll = [rx.epoll EXCEPT ![t] = None]
          /\ rx.closed_flag => ~rx'.ok
          /\ loop' = IF rx'.ok THEN loop ELSE "aborted"
      <4>1. /\ rx' = rtor_reactor_deregister(rx, t)
            /\ loop' = IF rx'.ok THEN loop ELSE "aborted"
        BY <3>1, Zenon DEF Becomes
      <4>2. rx \in Reactors /\ Agrees(rx, deleted) /\ t \in rx.table
        BY <1>1, <1>2, Zenon
      <4> QED BY <4>1, <4>2, DeregisterAgrees, Zenon
    <3>3. ~rx.closed_flag => InterestAsArmed' /\ loop' = "dispatch"
      BY <1>1, <1>2, <3>2, InterestSet, Zenon DEF Agrees
    <3>4. rx.closed_flag => loop' = "aborted"
      BY <3>2, Zenon
    <3> QED BY <1>1, <3>2, <3>3, <3>4, Zenon
  <2> QED BY <2>1, <2>2, Zenon
<1>10. LoopTypeOK'
  BY <1>1, <1>2, <1>4, <1>6, <1>9, Zenon DEF LoopTypeOK, LoopPlaces
<1>11. CASE loop' = "aborted"
  <2>1. AbortsOnlyWhen'
    BY <1>9, <1>11, Zenon DEF AbortsOnlyWhen
  <2> QED BY <1>5, <1>10, <1>11, <2>1, Aborting, Zenon
<1>12. CASE loop' # "aborted"
  <2>1. BatchAsReported'
    BY <1>1, <1>2, <1>4, <1>6, <1>9, <1>12, Zenon DEF BatchAsReported
  <2>2. Phases'
    BY <1>1, <1>9, <1>12, Zenon DEF Phases
  <2>3. rx.queue # None => rx.queue \in rx'.table
    <3>1. rx.queue # None => rx.queue \in rx.table /\ rx.queue \in Queues
      BY <1>1, <1>2, Zenon DEF QueueAndEnd, Reactors
    <3> QED BY <1>9, <1>12, <3>1, RunLoopAssumption
  <2> QED BY <1>1, <1>4, <1>5, <1>8, <1>9, <1>10, <1>12, <2>1, <2>2, <2>3, GoesOn, Zenon
<1> QED BY <1>11, <1>12, Zenon

\* The handler of an eventfd watcher waits when someone emptied its pipe, and
\* calls a null pointer when it was deregistered and registered anew, or armed
\* without a handler.
LEMMA DispatchEventfdInv ==
    ASSUME RunLoopInv, NEW e \in Eventfds, DispatchEventfd(e), UNCHANGED <<used, deleted, bare, turned>>
    PROVE  RunLoopInv'
<1>1. /\ loop = "dispatch" /\ e \in batch /\ batch' = batch \ {e}
      /\ UNCHANGED <<rx, timer, stream, history>>
      /\ event[e].pipe = 0 => loop' = "blocked" /\ event' = event
      /\ event[e].pipe # 0 => /\ event' = [event EXCEPT ![e].pipe = event[e].pipe - 1]
                              /\ event[e].handler => loop' = loop
                              /\ ~event[e].handler => loop' = "aborted"
  BY Zenon DEF DispatchEventfd, Dispatching
<1>2. /\ LoopTypeOK /\ event \in [Eventfds -> EventWatchers]
      /\ Agrees(rx, deleted) /\ InterestAsArmed /\ BatchAsReported /\ TimersOnTime
      /\ QueueAndEnd /\ ~history.early /\ Phases
  BY <1>1, LoopState, Zenon
<1>3. /\ event' \in [Eventfds -> EventWatchers]
      /\ \A d \in Eventfds : event'[d].handler = event[d].handler
      /\ \A d \in Eventfds \ {e} : event'[d] = event[d]
  <2>1. CASE event[e].pipe = 0
    BY <1>1, <1>2, <2>1, Zenon
  <2>2. CASE event[e].pipe # 0
    <3>1. event[e].pipe - 1 \in Nat
      BY <1>2, <2>2 DEF EventWatchers
    <3> QED BY <1>1, <1>2, <2>2, <3>1 DEF EventWatchers
  <2> QED BY <2>1, <2>2, Zenon
<1>4. /\ event[e].pipe = 0 => e \in history.cleared
      /\ ~event[e].handler => e \in history.dropped \cup bare
  BY <1>1, <1>2, Zenon DEF BatchAsReported
<1>5. /\ loop' \in {"dispatch", "blocked", "aborted"}
      /\ loop' = "blocked" => e \in history'.cleared \cap Eventfds /\ event'[e].pipe = 0
      /\ loop' = "aborted" => history'.dropped # {} \/ bare' # {}
  BY <1>1, <1>4, Zenon
<1>6. LoopTypeOK' /\ InterestAsArmed' /\ TimersOnTime' /\ ~history'.early
  BY <1>1, <1>2, <1>3, <1>5, Zenon DEF LoopTypeOK, LoopPlaces, InterestAsArmed, TimersOnTime
<1>7. BatchAsReported'
  BY <1>1, <1>2, <1>3, Zenon DEF BatchAsReported
<1>8. CASE loop' = "aborted"
  <2>1. AbortsOnlyWhen'
    BY <1>5, <1>8, Zenon DEF AbortsOnlyWhen
  <2> QED BY <1>6, <1>8, <2>1, Aborting, Zenon
<1>9. CASE loop' # "aborted"
  <2>1. Phases'
    BY <1>5, <1>9, Zenon DEF Phases
  <2>2. rx.queue # None => rx.queue \in rx'.table
    BY <1>1, <1>2, Zenon DEF QueueAndEnd
  <2> QED BY <1>1, <1>2, <1>5, <1>6, <1>7, <1>9, <2>1, <2>2, GoesOn, Zenon
<1> QED BY <1>8, <1>9, Zenon

\* A stream's event calls the handlers armed for it.
LEMMA DispatchStreamInv ==
    ASSUME RunLoopInv, NEW s \in Streams, DispatchStream(s), UNCHANGED <<used, deleted, bare, turned>>
    PROVE  RunLoopInv'
<1>1. /\ loop = "dispatch" /\ batch' \subseteq batch
      /\ loop' = IF stream[s].both = "garbage" THEN "aborted" ELSE loop
      /\ UNCHANGED <<rx, timer, event, stream, history>>
  BY Zenon DEF DispatchStream, Dispatching
<1>2. LoopTypeOK /\ ~history.early
  BY <1>1, LoopState, Zenon
<1>3. CASE stream[s].both = "garbage"
  <2>1. LoopTypeOK' /\ loop' = "aborted" /\ AbortsOnlyWhen' /\ ~history'.early
    BY <1>1, <1>2, <1>3, Zenon DEF LoopTypeOK, LoopPlaces, AbortsOnlyWhen
  <2> QED BY <2>1, Aborting, Zenon
<1>4. CASE stream[s].both # "garbage"
  <2>1. loop' = "dispatch"
    BY <1>1, <1>4, Zenon
  <2>2. Phases'
    BY <2>1, Zenon DEF Phases
  <2> QED BY <1>1, <2>1, <2>2, OnlyMoves, Zenon DEF LoopPlaces
<1> QED BY <1>3, <1>4, Zenon

\* A listener's event calls its handler.
LEMMA DispatchListenerInv ==
    ASSUME RunLoopInv, NEW l \in Listeners, DispatchListener(l), UNCHANGED <<used, deleted, bare, turned>>
    PROVE  RunLoopInv'
<1>1. /\ loop = "dispatch" /\ loop' = "dispatch" /\ batch' \subseteq batch
      /\ UNCHANGED <<rx, timer, event, stream, history>>
  BY Zenon DEF DispatchListener, Dispatching
<1>2. Phases'
  BY <1>1, Zenon DEF Phases
<1> QED BY <1>1, <1>2, OnlyMoves, Zenon DEF LoopPlaces

\* A handler that returns lets the loop go on.
LEMMA ReturnInv ==
    ASSUME RunLoopInv, Return, UNCHANGED <<used, deleted, bare, turned>>
    PROVE  RunLoopInv'
<1>1. /\ loop \in {"dispatch", "drain"} /\ loop' = loop /\ batch' = batch
      /\ UNCHANGED <<rx, timer, event, stream, history>>
  BY Zenon DEF Return
<1>2. Phases'
  BY <1>1, LoopState, Zenon DEF Phases
<1> QED BY <1>1, <1>2, OnlyMoves, Zenon DEF LoopPlaces

\* The dispatch ends when the reported events are used up.
LEMMA EndDispatchInv ==
    ASSUME RunLoopInv, EndDispatch, UNCHANGED <<used, deleted, bare, turned>>
    PROVE  RunLoopInv'
<1>1. /\ loop = "dispatch" /\ loop' = "drain" /\ batch = {} /\ batch' = batch
      /\ UNCHANGED <<rx, timer, event, stream, history>>
  BY Zenon DEF EndDispatch
<1>2. Phases'
  BY <1>1, Zenon DEF Phases
<1> QED BY <1>1, <1>2, OnlyMoves, Zenon DEF LoopPlaces

\* The drain runs one posted functor, or ends.
LEMMA DrainInv ==
    ASSUME RunLoopInv, Drain, UNCHANGED <<used, deleted, bare, turned>>
    PROVE  RunLoopInv'
<1>1. /\ loop = "drain" /\ running = None /\ batch' = batch
      /\ IF rx.ready > 0 THEN rx' = [rx EXCEPT !.ready = rx.ready - 1] /\ loop' = loop
                         ELSE loop' = "top" /\ UNCHANGED <<rx, running>>
      /\ UNCHANGED <<timer, event, stream, history>>
  BY Zenon DEF Drain
<1>2. /\ LoopTypeOK /\ rx \in Reactors /\ Agrees(rx, deleted) /\ InterestAsArmed /\ Phases
      /\ BatchAsReported /\ TimersOnTime /\ QueueAndEnd /\ ~history.early
  BY <1>1, LoopState, Zenon
<1>3. CASE rx.ready > 0
  <2> DEFINE n == rx.ready - 1
  <2>1. n \in Nat /\ rx' = [rx EXCEPT !.ready = n] /\ loop' = loop
    BY <1>1, <1>2, <1>3 DEF Reactors
  <2> HIDE DEF n
  <2>2. /\ rx' \in Reactors /\ rx'.table = rx.table /\ rx'.count = rx.count /\ rx'.ok = rx.ok
        /\ rx'.epoll = rx.epoll /\ rx'.closed_flag = rx.closed_flag /\ rx'.queue = rx.queue
    BY <1>2, <2>1, Zenon DEF Reactors
  <2>3. Agrees(rx', deleted')
    BY <1>2, <2>2, Zenon DEF Agrees
  <2>4. LoopTypeOK' /\ InterestAsArmed' /\ BatchAsReported' /\ TimersOnTime'
    BY <1>1, <1>2, <2>1, <2>2, Zenon DEF LoopTypeOK, InterestAsArmed, BatchAsReported, TimersOnTime
  <2>5. Phases'
    BY <1>1, <1>2, <2>1, Zenon DEF Phases
  <2>6. rx.queue # None => rx.queue \in rx'.table
    BY <1>1, <1>2, <2>2, Zenon DEF QueueAndEnd
  <2> QED BY <1>1, <1>2, <2>1, <2>2, <2>3, <2>4, <2>5, <2>6, GoesOn, Zenon
<1>4. CASE ~(rx.ready > 0)
  <2>1. loop' = "top" /\ rx' = rx /\ running' = running
    BY <1>1, <1>4, Zenon
  <2>1a. rx.ready = 0
    BY <1>2, <1>4 DEF Reactors
  <2>2. Phases'
    BY <1>1, <1>2, <2>1, <2>1a, Zenon DEF Phases
  <2> QED BY <1>1, <2>1, <2>2, OnlyMoves, Zenon DEF LoopPlaces
<1> QED BY <1>3, <1>4, Zenon

\* rtor_reactor_free closes the queue once more when it was still in the table.
LEMMA FreeInv ==
    ASSUME RunLoopInv, rtor_reactor_free, UNCHANGED <<used, deleted, bare, turned>>
    PROVE  RunLoopInv'
<1> DEFINE r == rtor_reactor_close(rx)
           n == (IF rx.closed_flag THEN history.closes ELSE Closes(rx)) + rtor_wqueue_dispose(rx)
<1>1. /\ loop = "returned" /\ loop' = "freed"
      /\ rx' = [FdTable_free(r) EXCEPT !.ready = 0]
      /\ history' = [history EXCEPT !.closes = n]
      /\ UNCHANGED <<timer, event, stream, batch, running>>
  BY Zenon DEF rtor_reactor_free
<1>2. /\ LoopTypeOK /\ rx \in Reactors /\ history \in Histories /\ Agrees(rx, deleted) /\ InterestAsArmed
      /\ Phases /\ BatchAsReported /\ TimersOnTime /\ QueueAndEnd /\ ~history.early
  BY <1>1, LoopState, Zenon
<1>3. /\ n \in Nat
      /\ rx.queue # None => (n = 1 <=> history.ended = "idle")
  <2>1. rx.table \subseteq Fds /\ history.closes \in Nat
    BY <1>2, Zenon DEF Reactors, Histories
  <2>2. /\ history.closes = IF rx.closed_flag /\ rx.queue # None THEN 1 ELSE 0
        /\ history.ended = "idle" => rx.table = {} /\ ~rx.closed_flag
        /\ history.ended # "idle" /\ rx.queue # None => rx.closed_flag \/ rx.queue \in rx.table
    BY <1>1, <1>2, Zenon DEF QueueAndEnd
  <2> QED BY <2>1, <2>2 DEF Closes, rtor_wqueue_dispose
<1>4. /\ r \in Reactors /\ r.closed_flag /\ Agrees(r, deleted) /\ r.queue = rx.queue
      /\ \A fd \in Fds : r.epoll[fd] = None
  BY <1>2, CloseAgrees, Zenon
<1> HIDE DEF n, r
<1>5. /\ rx' \in Reactors /\ rx'.table = {} /\ rx'.count = 0 /\ rx'.epoll = r.epoll
      /\ rx'.closed_flag = r.closed_flag /\ rx'.ok = r.ok /\ rx'.queue = r.queue
  <2>1. r \in Reactors
    BY <1>4, Zenon
  <2>2. rx' = WithRest(r, {}, 0, 0)
    BY <1>1, <2>1, Zenon DEF Reactors, FdTable_free, WithRest
  <2>3. {} \in SUBSET Fds
    BY Zenon
  <2> QED BY <2>1, <2>2, <2>3, WithRestFields
<1>6. /\ history' \in Histories /\ history'.since = history.since
      /\ history'.ended = history.ended /\ history'.closes = n
      /\ history'.early = history.early
  BY <1>1, <1>2, <1>3, Zenon DEF Histories
<1>7. IsFiniteSet(rx'.table) /\ rx'.count = Cardinality(rx'.table)
  BY <1>5, FS_EmptySet, Zenon
<1>8. Agrees(rx', deleted')
  BY <1>4, <1>5, <1>7, Zenon DEF Agrees
<1>9. batch = {}
  BY <1>1, <1>2, Zenon DEF Phases
<1>10. LoopTypeOK' /\ InterestAsArmed' /\ BatchAsReported' /\ TimersOnTime'
  <2>1. LoopTypeOK'
    BY <1>1, <1>2, <1>5, <1>6, Zenon DEF LoopTypeOK, LoopPlaces
  <2>2. InterestAsArmed'
    BY <1>4, <1>5, Zenon DEF InterestAsArmed, Fds
  <2>3. BatchAsReported'
    BY <1>1, <1>9, Zenon DEF BatchAsReported
  <2>4. TimersOnTime'
    BY <1>1, <1>2, <1>6, Zenon DEF TimersOnTime
  <2> QED BY <2>1, <2>2, <2>3, <2>4, Zenon
<1>11. Phases' /\ QueueAndEnd'
  BY <1>1, <1>2, Zenon DEF Phases, QueueAndEnd
<1>12. TimersNotEarly' /\ StopsOnlyWhen' /\ QueueFdClosedOnce'
  BY <1>1, <1>2, <1>3, <1>4, <1>5, <1>6, Zenon
     DEF TimersNotEarly, StopsOnlyWhen, AbortsOnlyWhen, BlocksOnlyWhenCleared, QueueFdClosedOnce
<1> QED BY <1>8, <1>10, <1>11, <1>12, Zenon DEF RunLoopInv

\* Every step of the loop itself keeps the invariant.
LEMMA LoopStepInv ==
    ASSUME RunLoopInv, LoopStep, UNCHANGED used
    PROVE  RunLoopInv'
BY RunInv, TopInv, WaitInv, UnwatchedInv, DispatchTimerInv, DispatchEventfdInv,
   DispatchStreamInv, DispatchListenerInv, ReturnInv, EndDispatchInv, DrainInv, FreeInv, Zenon
   DEF LoopStep, PlainStep, marks

-----------------------------------------------------------------------------
(* The loop as a whole *)

\* A new reactor watches nothing.
LEMMA RunLoopStarts ==
    ASSUME RunLoopInit
    PROVE  RunLoopInv
<1>0. deleted = {} /\ bare = {} /\ turned = FALSE
  BY Zenon DEF RunLoopInit
<1>1. /\ used \in Programs /\ timer = [t \in Timers |-> rtor_timer_init]
      /\ event = [e \in Eventfds |-> rtor_eventfd_init] /\ stream \in [Streams -> rtor_stream_init]
      /\ loop \in {"setup", "off"} /\ batch = {} /\ running = None
      /\ history = [since |-> [t \in Timers |-> 0], reset |-> {}, dropped |-> {}, cleared |-> {},
                    refused |-> FALSE, early |-> FALSE, ended |-> None, closes |-> 0]
  BY Zenon DEF RunLoopInit
<1> DEFINE r == rtor_reactor_init
<1>2. /\ r \in Reactors /\ r.table = {} /\ r.count = 0 /\ r.epoll = [fd \in Fds |-> None]
      /\ r.queue = None
  BY DEF rtor_reactor_init, Reactors, FdTable_new
<1>3. r.ok /\ ~r.closed_flag
  BY Zenon DEF rtor_reactor_init
<1> HIDE DEF r
<1>4. Agrees(r, {})
  <2>1. IsFiniteSet({}) /\ Cardinality({}) = 0
    BY FS_EmptySet, Zenon
  <2> QED BY <1>2, <1>3, <2>1, Zenon DEF Agrees
<1>5. PICK q \in Queues \cup {None} :
         rx = IF q = None THEN r ELSE rtor_reactor_enable_interthread_queue(r, q)
  BY Zenon DEF RunLoopInit, r
<1>6. /\ rx \in Reactors /\ Agrees(rx, {}) /\ ~rx.closed_flag
      /\ rx.queue # None => rx.queue \in rx.table
      /\ \A fd \in Fds \ Queues : rx.epoll[fd] = None
      /\ \A fd \in Fds : rx.epoll[fd] # None => rx.epoll[fd] = {"IN"}
  <2>1. CASE q = None
    BY <1>2, <1>3, <1>4, <1>5, <2>1, Zenon
  <2>2. CASE q # None
    <3> DEFINE r2 == rtor_reactor_register(r, q, {"IN"})
    <3>1. q \in Fds /\ q \in Queues /\ {"IN"} \in Interests
      BY <2>2, Zenon DEF Fds, Interests
    <3>2. /\ r2 \in Reactors /\ Agrees(r2, {}) /\ r2.table = {q}
          /\ r2.epoll = [r.epoll EXCEPT ![q] = {"IN"}] /\ r2.closed_flag = r.closed_flag
      BY <1>2, <1>3, <1>4, <3>1, RegisterAgrees
    <3>3. rx = [r2 EXCEPT !.queue = q]
      BY <1>5, <2>2, Zenon DEF rtor_reactor_enable_interthread_queue, rtor_wqueue_register
    <3> HIDE DEF r2
    <3>4. /\ rx \in Reactors /\ rx.table = r2.table /\ rx.count = r2.count /\ rx.ok = r2.ok
          /\ rx.epoll = r2.epoll /\ rx.closed_flag = r2.closed_flag /\ rx.queue = q
      BY <3>1, <3>2, <3>3, Zenon DEF Reactors
    <3>5. Agrees(rx, {})
      BY <3>2, <3>4 DEF Agrees
    <3> QED BY <1>2, <1>3, <3>1, <3>2, <3>4, <3>5
  <2> QED BY <2>1, <2>2, Zenon
<1>7. /\ history \in Histories /\ ~history.early
      /\ history.ended = None /\ history.closes = 0
  BY <1>1, Zenon DEF Histories
<1>8. /\ timer \in [Timers -> TimerWatchers]
      /\ \A t \in Timers : ~timer[t].armed /\ ~timer[t].pending
  BY <1>1, Zenon DEF rtor_timer_init, TimerWatchers
<1>9. event \in [Eventfds -> EventWatchers]
  BY <1>1, Zenon DEF rtor_eventfd_init, EventWatchers
<1>10. stream \in [Streams -> StreamWatchers]
  <2>1. rtor_stream_init \subseteq StreamWatchers
    BY Zenon DEF rtor_stream_init, StreamWatchers
  <2> QED BY <1>1, <2>1, Zenon
<1>11. LoopTypeOK
  BY <1>0, <1>1, <1>6, <1>7, <1>8, <1>9, <1>10, RunLoopAssumption, Zenon DEF LoopTypeOK, LoopPlaces
<1>12. InterestAsArmed
  <2>1. \A fd \in Streams \cup Eventfds : rx.epoll[fd] = None
    BY <1>6, RunLoopAssumption, Zenon DEF Fds
  <2> QED BY <1>6, <2>1 DEF InterestAsArmed
<1>13. Phases /\ BatchAsReported /\ TimersOnTime
  BY <1>0, <1>1, <1>8, Zenon DEF Phases, BatchAsReported, TimersOnTime
<1>14. QueueAndEnd
  BY <1>1, <1>6, <1>7, Zenon DEF QueueAndEnd
<1>15. TimersNotEarly /\ StopsOnlyWhen /\ QueueFdClosedOnce
  BY <1>1, <1>7, Zenon DEF TimersNotEarly, StopsOnlyWhen, AbortsOnlyWhen, BlocksOnlyWhenCleared,
                    QueueFdClosedOnce
<1> QED BY <1>0, <1>6, <1>11, <1>12, <1>13, <1>14, <1>15, Zenon DEF RunLoopInv

\* Every step keeps the invariant.
LEMMA RunLoopSteps ==
    ASSUME RunLoopInv, [RunLoopNext]_loopVars
    PROVE  RunLoopInv'
<1>1. CASE RunLoopNext
  BY <1>1, UserCallInv, EnvironmentInv, LoopStepInv, WaitFailsInv, Zenon DEF RunLoopNext, marks
<1>2. CASE UNCHANGED loopVars
  <2>1. /\ UNCHANGED <<used, rx, timer, event, stream, loop, batch, running, history>>
        /\ UNCHANGED <<deleted, bare, turned>>
    BY <1>2, Zenon DEF loopVars, marks
  <2>2. /\ RunLoopInv => LoopTypeOK /\ LoopTypeOK'
        /\ TimersNotEarly' = TimersNotEarly
    BY <2>1, Zenon DEF RunLoopInv, LoopTypeOK, TimersNotEarly
  <2>3. StopsOnlyWhen => StopsOnlyWhen'
    BY <2>1, Zenon DEF StopsOnlyWhen, AbortsOnlyWhen, BlocksOnlyWhenCleared
  <2>4. QueueFdClosedOnce => QueueFdClosedOnce'
    BY <2>1, Zenon DEF QueueFdClosedOnce
  <2>5. InterestAsArmed => InterestAsArmed'
    BY <2>1, Zenon DEF InterestAsArmed
  <2>6. BatchAsReported => BatchAsReported'
    BY <2>1, Zenon DEF BatchAsReported
  <2>7. TimersOnTime => TimersOnTime'
    BY <2>1, Zenon DEF TimersOnTime
  <2>8. Phases /\ QueueAndEnd => Phases' /\ QueueAndEnd'
    BY <2>1, Zenon DEF Phases, QueueAndEnd
  <2>9. Agrees(rx, deleted) => Agrees(rx, deleted)'
    BY <2>1, Zenon DEF Agrees
  <2> QED BY <2>1, <2>2, <2>3, <2>4, <2>5, <2>6, <2>7, <2>8, <2>9, Zenon DEF RunLoopInv
<1> QED BY <1>1, <1>2, Zenon

\* The inductive invariant holds of every behaviour of the run loop: its table, its
\* epoll set and its watchers agree.
THEOREM RunLoopInvariant == RunLoopSpec => []RunLoopInv
BY RunLoopStarts, RunLoopSteps, PTL DEF RunLoopSpec

\* For any watchers, calls of the user and events: the fd table, its count and the
\* epoll instance agree but for deleted fds, a stream is watched for nothing it did not arm, and
\* rtor_reactor_run leaves with an empty table and its queue closed once unless it
\* was closed or interrupted, and with no functor unrun once it has dispatched.
THEOREM RunLoopKeepsTable == RunLoopSpec => []LoopKeepsTable
<1>1. RunLoopInv => LoopKeepsTable
  <2> SUFFICES ASSUME RunLoopInv PROVE LoopKeepsTable
    BY Zenon
  <2>1. TableMatchesEpoll
    BY Zenon DEF TableMatchesEpoll, RunLoopInv, Agrees
  <2>2. InterestWithinMask
    BY Zenon DEF InterestWithinMask, RunLoopInv, InterestAsArmed
  <2>3. ReturnsWhenIdle
    BY Zenon DEF ReturnsWhenIdle, RunLoopInv, QueueAndEnd
  <2> QED BY <2>1, <2>2, <2>3, Zenon DEF LoopKeepsTable, RunLoopInv
<1> QED BY <1>1, RunLoopInvariant, PTL

\* Whatever the handlers do, the loop's thread ends in an assertion or a wild call,
\* and waits inside a handler, for the named causes only.
THEOREM RunLoopStopsOnlyWhen == RunLoopSpec => []StopsOnlyWhen
<1>1. RunLoopInv => StopsOnlyWhen
  BY Zenon DEF RunLoopInv
<1> QED BY <1>1, RunLoopInvariant, PTL

\* For any intervals and any order of expiries, calls and batches no timer's handler
\* runs before the whole seconds of its interval have passed.
THEOREM RunLoopTimersNotEarly == RunLoopSpec => []TimersNotEarly
<1>1. RunLoopInv => TimersNotEarly
  BY Zenon DEF RunLoopInv
<1> QED BY <1>1, RunLoopInvariant, PTL
=============================================================================
