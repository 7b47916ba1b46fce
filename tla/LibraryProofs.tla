--------------------------- MODULE LibraryProofs ---------------------------
(***************************************************************************)
(* The data structures under the servers.                                  *)
(*                                                                         *)
(* The queue of common/queue.c, for any number of threads and any          *)
(* capacity: the inductive invariant, the safety invariants that follow    *)
(* from it, and the proof that the ring implements BoundedFifo.            *)
(*                                                                         *)
(* IOBuffer and Cbuffer, for buffers of any size: whatever is appended,    *)
(* consumed, copied, cleared and moved, they hand out the bytes they were  *)
(* given, terminated.                                                      *)
(*                                                                         *)
(* The two event-driven servers that came before the one that is built     *)
(* now, for any number of connections and messages: the first answers what *)
(* it has read or says why not, and a connection of the second is never    *)
(* left without an event or a posted function that will move it on.        *)
(***************************************************************************)
EXTENDS Queue, IOBuffer, Cbuffer, OldServer, OldConnection, SequenceTheorems, TLAPS

-----------------------------------------------------------------------------
(* Queue *)

\* The inductive invariant.  RingConsistent is what keeps size within 0 and
\* MaxSize; the two NoSleeping invariants do not depend on the other parts.
IInv ==
    /\ TypeOK
    /\ MutualExclusion
    /\ RingConsistent
    /\ NoSleepingConsumer
    /\ NoSleepingProducer

\* A pointer that is advanced moves to the next slot or wraps to slot 0.
LEMMA AdvanceWraps ==
    ASSUME NEW i \in Slots
    PROVE  Advance(i) = IF i + 1 = MaxSize THEN 0 ELSE i + 1
<1>1. CASE i + 1 = MaxSize
  BY <1>1, QueueAssumption DEF Advance, Slots
<1>2. CASE i + 1 # MaxSize
  BY <1>2, QueueAssumption DEF Advance, Slots
<1> QED BY <1>1, <1>2, Zenon

\* Slots are numbers, and advancing stays within them.
LEMMA AdvanceType ==
    ASSUME NEW i \in Slots
    PROVE  Advance(i) \in Slots
BY AdvanceWraps, QueueAssumption DEF Slots

\* An empty ring with a free mutex satisfies the invariant.
LEMMA InitIInv == Init => IInv
<1> SUFFICES ASSUME Init PROVE IInv
  BY Zenon
<1> USE QueueAssumption DEF Init
<1>1. TypeOK
  BY DEF TypeOK, Slots, AddPoints, RemovePoints
<1>2. MutualExclusion /\ NoSleepingConsumer /\ NoSleepingProducer
  BY Zenon DEF MutualExclusion, InCritical, NoSleepingConsumer, NoSleepingProducer, Threads
<1>3. RingConsistent
  BY DEF RingConsistent, RingDistance
<1> QED BY <1>1, <1>2, <1>3, Zenon DEF IInv

\* The step of Queue_add that stores an entry preserves the invariant.
LEMMA AddPutIInv ==
    ASSUME IInv, NEW p \in Producers, AddPut(p)
    PROVE  IInv'
<1> USE QueueAssumption DEF IInv
<1>1. /\ size \in 0..(MaxSize - 1)
      /\ size' = size + 1
      /\ next' = IF next + 1 = MaxSize THEN 0 ELSE next + 1
      /\ next' \in Slots
      /\ first' = first
  BY AdvanceWraps, AdvanceType DEF AddPut, TypeOK, Slots
<1>2. TypeOK'
  BY <1>1 DEF TypeOK, AddPut, Broadcast, Slots, Threads, AddPoints, RemovePoints
<1>3. MutualExclusion'
  BY Zenon DEF AddPut, Broadcast, MutualExclusion, InCritical, TypeOK, Threads
<1>4. RingConsistent'
  BY <1>1 DEF RingConsistent, RingDistance, TypeOK, Slots
<1>5. NoSleepingConsumer'
  BY <1>1 DEF AddPut, Broadcast, AddWakes, NoSleepingConsumer, TypeOK, Threads
<1>6. NoSleepingProducer'
  BY <1>1, Zenon DEF AddPut, Broadcast, NoSleepingProducer, TypeOK, Threads
<1> QED BY <1>2, <1>3, <1>4, <1>5, <1>6, Zenon

\* The same for the step that takes the oldest entry.
LEMMA RemoveTakeIInv ==
    ASSUME IInv, NEW c \in Consumers, RemoveTake(c)
    PROVE  IInv'
<1> USE QueueAssumption DEF IInv
<1>1. /\ size \in 1..MaxSize
      /\ size' = size - 1
      /\ first' = IF first + 1 = MaxSize THEN 0 ELSE first + 1
      /\ first' \in Slots
      /\ next' = next
  BY AdvanceWraps, AdvanceType
     DEF RemoveTake, is_empty, RingConsistent, RingDistance, TypeOK, Slots
<1>2. TypeOK'
  BY <1>1 DEF TypeOK, RemoveTake, Oldest, Broadcast, Slots, Threads, AddPoints, RemovePoints
<1>3. MutualExclusion'
  BY Zenon DEF RemoveTake, Broadcast, MutualExclusion, InCritical, TypeOK, Threads
<1>4. RingConsistent'
  BY <1>1 DEF RingConsistent, RingDistance, TypeOK, Slots
<1>5. NoSleepingConsumer'
  BY <1>1 DEF RemoveTake, Broadcast, NoSleepingConsumer, TypeOK, Threads
<1>6. NoSleepingProducer'
  BY <1>1 DEF RemoveTake, Broadcast, RemoveWakes, NoSleepingProducer, TypeOK, Threads
<1> QED BY <1>2, <1>3, <1>4, <1>5, <1>6, Zenon

\* Every other step moves one thread between points of a call, and changes
\* neither the ring nor, except by acquiring or releasing it, the mutex.
LEMMA NextIInv ==
    ASSUME IInv, [Next]_vars
    PROVE  IInv'
<1> USE QueueAssumption DEF IInv
<1>a. ASSUME NEW p \in Producers, AddPut(p)
      PROVE  IInv'
  BY <1>a, AddPutIInv, Zenon
<1>b. ASSUME NEW c \in Consumers, RemoveTake(c)
      PROVE  IInv'
  BY <1>b, RemoveTakeIInv, Zenon
<1> USE DEF ring, TypeOK, MutualExclusion, InCritical, RingConsistent, RingDistance,
            NoSleepingConsumer, NoSleepingProducer, Threads, AddPoints, RemovePoints
<1>1. ASSUME NEW p \in Producers, NEW s \in Sockets, Queue_add(p, s)
      PROVE  IInv'
  BY <1>1, Zenon DEF Queue_add
<1>2. ASSUME NEW c \in Consumers, Queue_remove(c)
      PROVE  IInv'
  BY <1>2, Zenon DEF Queue_remove
<1>3. ASSUME NEW p \in Producers, AddLock(p)
      PROVE  IInv'
  BY <1>3, Zenon DEF AddLock, Lock
<1>4. ASSUME NEW c \in Consumers, RemoveLock(c)
      PROVE  IInv'
  BY <1>4, Zenon DEF RemoveLock, Lock
<1>5. ASSUME NEW p \in Producers, AddWait(p)
      PROVE  IInv'
  BY <1>5, Zenon DEF AddWait, Wait
<1>6. ASSUME NEW c \in Consumers, RemoveWait(c)
      PROVE  IInv'
  BY <1>6, Zenon DEF RemoveWait, Wait, is_empty
<1>7. ASSUME NEW p \in Producers, AddReturn(p)
      PROVE  IInv'
  BY <1>7, Zenon DEF AddReturn, Unlock
<1>8. ASSUME NEW c \in Consumers, RemoveReturn(c)
      PROVE  IInv'
  BY <1>8, Zenon DEF RemoveReturn, Unlock
<1>9. ASSUME NEW t \in Threads, SpuriousWakeup(t)
      PROVE  IInv'
  BY <1>9 DEF SpuriousWakeup
<1>10. CASE UNCHANGED vars
  BY <1>10, Zenon DEF vars
<1> HIDE DEF IInv
<1> QED BY <1>a, <1>b, <1>1, <1>2, <1>3, <1>4, <1>5, <1>6, <1>7, <1>8, <1>9, <1>10, Zenon
           DEF Next, AddStep, RemoveStep

\* The inductive invariant holds in every reachable state.
THEOREM QueueInvariant == Spec => []IInv
<1>1. IInv /\ [Next]_vars => IInv'
  BY NextIInv, Zenon
<1> QED BY InitIInv, <1>1, PTL DEF Spec

\* Every variable of the queue keeps its type: in particular the unsigned size
\* neither exceeds max_size nor wraps below zero, and both pointers stay in
\* the array.
THEOREM QueueTypeOK == Spec => []TypeOK
<1>1. IInv => TypeOK
  BY Zenon DEF IInv
<1> QED BY QueueInvariant, <1>1, PTL

\* At most the owner of queue_mutex is inside a critical section of queue.c.
THEOREM QueueMutualExclusion == Spec => []MutualExclusion
<1>1. IInv => MutualExclusion
  BY Zenon DEF IInv
<1> QED BY QueueInvariant, <1>1, PTL

\* The assertions of the two advance functions never fail, and size-- never
\* underflows.
THEOREM QueuePointerAssertions == Spec => []PointerAssertions
<1>1. IInv => PointerAssertions
  BY QueueAssumption DEF IInv, TypeOK, RingConsistent, RingDistance,
     PointerAssertions, is_full, is_empty, Slots
<1> QED BY QueueInvariant, <1>1, PTL

\* No wakeup is lost on either condition variable: a thread sleeps only while
\* the condition it waits for is false.
THEOREM QueueNoLostWakeup == Spec => []NoLostWakeup
<1>1. IInv => NoLostWakeup
  BY Zenon DEF IInv, NoLostWakeup
<1> QED BY QueueInvariant, <1>1, PTL

-----------------------------------------------------------------------------
(* The ring implements the abstract queue. *)

\* A thread that is adding has a descriptor to add.
ArgPresent == \A p \in Producers : Adding(p) => arg[p] \in Sockets

\* arg is set by the call and not touched until the entry is in the ring.
LEMMA ArgPresentInvariant == Spec => []ArgPresent
<1>1. Init => ArgPresent
  BY Zenon DEF Init, ArgPresent, Adding, Threads
<1>2. IInv /\ ArgPresent /\ [Next]_vars => ArgPresent'
  <2> SUFFICES ASSUME IInv, ArgPresent, [Next]_vars, NEW p \in Producers, Adding(p)'
               PROVE  arg'[p] \in Sockets
    BY Zenon DEF ArgPresent
  <2>1. pc \in [Threads -> AddPoints \cup RemovePoints] /\ arg \in [Producers -> Sockets \cup {NoSocket}]
        /\ p \in Threads /\ (Adding(p) => arg[p] \in Sockets)
    BY Zenon DEF IInv, TypeOK, ArgPresent, Threads
  <2>2. CASE \E r \in Producers, s \in Sockets : Queue_add(r, s)
    BY <2>1, <2>2 DEF Queue_add, Adding, Threads
  <2>3. CASE \E r \in Producers : AddStep(r)
    BY <2>1, <2>3 DEF AddStep, AddLock, AddWait, AddPut, AddReturn, Lock, Wait, Unlock, Broadcast,
                      Adding, Threads
  <2>4. CASE \E c \in Consumers : Queue_remove(c) \/ RemoveStep(c)
    BY <2>1, <2>4 DEF Queue_remove, RemoveStep, RemoveLock, RemoveWait, RemoveTake, RemoveReturn,
                      Lock, Wait, Unlock, Broadcast, Adding, Threads
  <2>5. CASE \E t \in Threads : SpuriousWakeup(t)
    BY <2>1, <2>5 DEF SpuriousWakeup, Adding
  <2>6. CASE UNCHANGED vars
    BY <2>1, <2>6, Zenon DEF vars, Adding
  <2> QED BY <2>2, <2>3, <2>4, <2>5, <2>6, Zenon DEF Next
<1> QED BY QueueInvariant, <1>1, <1>2, PTL DEF Spec

\* Storing an entry in slot next appends it to the contents.
LEMMA AddPutAppends ==
    ASSUME IInv, NEW p \in Producers, AddPut(p)
    PROVE  Contents' = Append(Contents, arg[p])
<1> USE QueueAssumption DEF IInv, TypeOK, Slots
<1>1. /\ size \in 0..(MaxSize - 1)
      /\ size' = size + 1
      /\ first' = first
      /\ q' = [q EXCEPT ![next] = arg[p]]
  BY DEF AddPut
<1>2. SlotOf(size + 1) = next
  BY <1>1 DEF SlotOf, RingConsistent, RingDistance
<1>3. ASSUME NEW i \in 1..size
      PROVE  SlotOf(i) \in Slots /\ SlotOf(i) # next
  BY <1>1 DEF SlotOf, RingConsistent, RingDistance
<1>4. Contents' = [i \in 1..(size + 1) |-> q'[SlotOf(i)]]
  BY <1>1 DEF Contents, SlotOf
<1>5. /\ Contents = [i \in 1..size |-> q[SlotOf(i)]]
      /\ Append(Contents, arg[p]) = [i \in 1..(size + 1) |->
                                       IF i = size + 1 THEN arg[p] ELSE q[SlotOf(i)]]
  BY <1>1 DEF Contents
<1> QED BY <1>1, <1>2, <1>3, <1>4, <1>5

\* Tail as a function on its indices.
LEMMA TailIsFunction ==
    ASSUME NEW S, NEW s \in Seq(S), s # << >>
    PROVE  Tail(s) = [i \in 1..(Len(s) - 1) |-> s[i + 1]]
<1>1. /\ Tail(s) \in Seq(S)
      /\ Len(Tail(s)) = Len(s) - 1
      /\ \A i \in 1..(Len(s) - 1) : Tail(s)[i] = s[i + 1]
  BY HeadTailProperties, Zenon
<1>2. Tail(s) = [i \in 1..Len(Tail(s)) |-> Tail(s)[i]]
  BY <1>1, LenProperties, ZenonT(30)
<1> QED BY <1>1, <1>2, Zenon

\* Advancing first drops the oldest entry, the one that is returned.
LEMMA RemoveTakeDrops ==
    ASSUME IInv, NEW c \in Consumers, RemoveTake(c)
    PROVE  /\ Contents # << >>
           /\ Contents' = Tail(Contents)
           /\ got' = [got EXCEPT ![c] = Head(Contents)]
<1> USE QueueAssumption DEF IInv, TypeOK, Slots
<1>1. /\ size \in 1..MaxSize
      /\ size' = size - 1
      /\ first' = IF first + 1 = MaxSize THEN 0 ELSE first + 1
      /\ q' = q
      /\ got' = [got EXCEPT ![c] = q[first]]
  BY AdvanceWraps DEF RemoveTake, Oldest, is_empty, RingConsistent, RingDistance
<1>2. Contents \in Seq(Sockets \cup {NoSocket}) /\ Len(Contents) = size
  <2>1. ASSUME NEW i \in 1..size
        PROVE  q[SlotOf(i)] \in Sockets \cup {NoSocket}
    BY <1>1 DEF SlotOf
  <2> QED BY <2>1, <1>1 DEF Contents
<1>3. Contents[1] = q[first]
  BY <1>1 DEF Contents, SlotOf
<1>4. Contents' = [i \in 1..(size - 1) |-> Contents[i + 1]]
  <2>1. Contents' = [i \in 1..(size - 1) |-> q[SlotOf(i)']]
    BY <1>1, Zenon DEF Contents, SlotOf
  <2>2. ASSUME NEW i \in 1..(size - 1)
        PROVE  SlotOf(i)' = SlotOf(i + 1)
    BY <1>1 DEF SlotOf
  <2>3. ASSUME NEW i \in 1..(size - 1)
        PROVE  Contents[i + 1] = q[SlotOf(i + 1)]
    BY <1>1 DEF Contents
  <2> QED BY <2>1, <2>2, <2>3, Zenon
<1>5. Contents # << >> /\ Head(Contents) = Contents[1]
  BY <1>1, <1>2
<1>6. Tail(Contents) = [i \in 1..(size - 1) |-> Contents[i + 1]]
  BY <1>1, <1>2, <1>5, TailIsFunction
<1> QED BY <1>1, <1>3, <1>4, <1>5, <1>6, ZenonT(30)

\* A step that leaves the ring alone leaves the contents alone.
LEMMA ContentsUnchanged ==
    ASSUME UNCHANGED ring
    PROVE  Contents' = Contents
BY Zenon DEF ring, Contents, SlotOf

\* Every step is a step of the abstract queue, or changes nothing it sees.
LEMMA FifoStep ==
    ASSUME IInv, ArgPresent, [Next]_vars
    PROVE  [Fifo!Next]_(Fifo!vars)
<1> USE QueueAssumption DEF Fifo!vars
<1>1. ASSUME NEW p \in Producers, NEW s \in Sockets, Queue_add(p, s)
      PROVE  Fifo!Offer(p, s)
  <2>1. Offered[p] = NoSocket /\ Offered' = [Offered EXCEPT ![p] = s]
    BY <1>1, ZenonT(30) DEF Queue_add, Offered, Adding, IInv, TypeOK, Threads
  <2> QED BY <1>1, <2>1, ContentsUnchanged, Zenon DEF Queue_add, Fifo!Offer
<1>2. ASSUME NEW p \in Producers, AddPut(p)
      PROVE  Fifo!Put(p)
  <2>1. Offered[p] = arg[p] /\ arg[p] # NoSocket
    BY <1>2, Zenon DEF AddPut, Offered, Adding, ArgPresent
  <2>2. Offered' = [Offered EXCEPT ![p] = NoSocket]
    BY <1>2, ZenonT(30) DEF AddPut, Broadcast, Offered, Adding, IInv, TypeOK, Threads
  <2>3. Len(Contents) < MaxSize
    BY <1>2 DEF AddPut, Contents, IInv, TypeOK
  <2> QED BY <1>2, <2>1, <2>2, <2>3, AddPutAppends, ZenonT(30) DEF AddPut, Fifo!Put
<1>3. ASSUME NEW c \in Consumers, RemoveTake(c)
      PROVE  Fifo!Take(c)
  <2>1. Offered' = Offered
    BY <1>3, Zenon DEF RemoveTake, Broadcast, Offered, Adding, IInv, TypeOK, Threads
  <2> QED BY <1>3, <2>1, RemoveTakeDrops, Zenon DEF Fifo!Take
<1>4. ASSUME \/ \E c \in Consumers : \/ Queue_remove(c)
                                    \/ RemoveLock(c) \/ RemoveWait(c) \/ RemoveReturn(c)
             \/ \E p \in Producers : AddLock(p) \/ AddWait(p) \/ AddReturn(p)
             \/ \E t \in Threads : SpuriousWakeup(t)
      PROVE  UNCHANGED <<Contents, Offered, got>>
  <2>1. UNCHANGED <<ring, arg, got>>
    BY <1>4, Zenon DEF Queue_remove, RemoveLock, RemoveWait, RemoveReturn, AddLock, AddWait,
       AddReturn, SpuriousWakeup, Lock, Wait, Unlock
  <2>2. \A p \in Producers : Adding(p)' <=> Adding(p)
    BY <1>4 DEF Queue_remove, RemoveLock, RemoveWait, RemoveReturn, AddLock, AddWait,
       AddReturn, SpuriousWakeup, Lock, Wait, Unlock, Adding, IInv, TypeOK, Threads
  <2> QED BY <2>1, <2>2, ContentsUnchanged, Zenon DEF Offered
<1>5. CASE UNCHANGED vars
  BY <1>5, ContentsUnchanged, Zenon DEF vars, ring, Offered, Adding
<1> QED BY <1>1, <1>2, <1>3, <1>4, <1>5, Zenon DEF Next, AddStep, RemoveStep, Fifo!Next

\* The queue implements the bounded FIFO: for any number of threads and any
\* capacity no descriptor is lost, duplicated or overtaken.
THEOREM QueueIsFifo == Spec => IsFifo
<1>1. Init => Fifo!Init
  BY QueueAssumption DEF Init, Fifo!Init, Contents, Offered, Adding, Threads
<1>2. IInv /\ ArgPresent /\ [Next]_vars => [Fifo!Next]_(Fifo!vars)
  BY FifoStep, Zenon
<1> QED BY QueueInvariant, ArgPresentInvariant, <1>1, <1>2, PTL DEF Spec, IsFifo, Fifo!Spec

-----------------------------------------------------------------------------
(* IOBuffer: what the operations do to the memory *)

Bytes == Nat \cup {TERM, FILL}

IOBuffers == [capacity : {IOCapacity}, ptr : Nat, remaining : Nat, mem : [0..IOCapacity -> Bytes]]

\* The bytes that IOBuffer_data returns.
LEMMA DataIsSequence ==
    ASSUME NEW b \in IOBuffers, b.ptr + b.remaining <= IOCapacity
    PROVE  /\ IOBuffer_data(b) \in Seq(Bytes)
           /\ Len(IOBuffer_data(b)) = b.remaining
           /\ \A i \in 1..b.remaining : IOBuffer_data(b)[i] = b.mem[b.ptr + i - 1]
<1> DEFINE n == b.remaining
           p == b.ptr
           m == b.mem
<1>1. n \in Nat /\ p \in Nat /\ m \in [0..IOCapacity -> Bytes] /\ p + n <= IOCapacity
  BY Zenon DEF IOBuffers
<1>2. IOBuffer_data(b) = [i \in 1..n |-> m[p + i - 1]]
  BY Zenon DEF IOBuffer_data
<1> HIDE DEF n, p, m
<1>3. \A i \in 1..n : m[p + i - 1] \in Bytes
  BY <1>1, IOBufferAssumption
<1>4. [i \in 1..n |-> m[p + i - 1]] \in Seq(Bytes)
  BY <1>1, <1>3
<1>5. Len([i \in 1..n |-> m[p + i - 1]]) = n
  BY <1>1
<1> QED BY <1>2, <1>4, <1>5, Zenon DEF n, p, m

\* IOBuffer_data_add puts the bytes behind the committed ones, and then the
\* terminator where IOBuffer_commit puts it.
LEMMA DataAdded ==
    ASSUME NEW b \in IOBuffers, NEW bytes \in Seq(Bytes),
           b.ptr + b.remaining + Len(bytes) <= IOCapacity
    PROVE  /\ IOBuffer_data_add(b, bytes) \in IOBuffers
           /\ IOBuffer_data_add(b, bytes).ptr = b.ptr
           /\ IOBuffer_data_add(b, bytes).remaining = b.remaining + Len(bytes)
           /\ \A j \in 0..IOCapacity :
                 IOBuffer_data_add(b, bytes).mem[j] =
                    IF j = b.remaining + Len(bytes) THEN TERM
                    ELSE IF j \in (b.ptr + b.remaining)..(b.ptr + b.remaining + Len(bytes) - 1)
                         THEN bytes[j - (b.ptr + b.remaining) + 1]
                         ELSE b.mem[j]
<1> DEFINE n == b.remaining
           p == b.ptr
           m == b.mem
           k == Len(bytes)
           start == p + n
           filled == [i \in DOMAIN m |-> IF i - start \in 0..(k - 1) THEN bytes[i - start + 1] ELSE m[i]]
           ended == [filled EXCEPT ![n + k] = TERM]
<1>1. n \in Nat /\ p \in Nat /\ m \in [0..IOCapacity -> Bytes] /\ k \in Nat /\ p + n + k <= IOCapacity
      /\ b = [capacity |-> IOCapacity, ptr |-> p, remaining |-> n, mem |-> m]
  BY LenProperties, Zenon DEF IOBuffers
<1> HIDE DEF n, p, m, k
<1>3. filled \in [0..IOCapacity -> Bytes]
  <2>1. DOMAIN m = 0..IOCapacity
    BY <1>1, Zenon
  <2>2. ASSUME NEW i \in 0..IOCapacity, i - start \in 0..(k - 1) PROVE bytes[i - start + 1] \in Bytes
    <3>1. i - start + 1 \in 1..Len(bytes)
      BY <1>1, <2>2 DEF k
    <3> QED BY <3>1, ElementOfSeq, Zenon
  <2>3. \A i \in 0..IOCapacity : m[i] \in Bytes
    BY <1>1, Zenon
  <2> QED BY <2>1, <2>2, <2>3, Zenon
<1>4. \A i \in 0..IOCapacity :
         filled[i] = IF i \in start..(start + k - 1) THEN bytes[i - start + 1] ELSE m[i]
  <2>1. DOMAIN m = 0..IOCapacity
    BY <1>1, Zenon
  <2>2. \A i \in 0..IOCapacity : i - start \in 0..(k - 1) <=> i \in start..(start + k - 1)
    BY <1>1, IOBufferAssumption
  <2> QED BY <2>1, <2>2, Zenon
<1> HIDE DEF filled
<1>5. n + k \in 0..IOCapacity /\ TERM \in Bytes
  BY <1>1, IOBufferAssumption DEF Bytes
<1>6. ended \in [0..IOCapacity -> Bytes]
      /\ \A j \in 0..IOCapacity : ended[j] = IF j = n + k THEN TERM ELSE filled[j]
  BY <1>3, <1>5, Zenon
<1> HIDE DEF ended
<1>7. IOBuffer_data_add(b, bytes) \in IOBuffers
      /\ IOBuffer_data_add(b, bytes).ptr = p
      /\ IOBuffer_data_add(b, bytes).remaining = n + k
      /\ IOBuffer_data_add(b, bytes).mem = ended
  <2> DEFINE c == [b EXCEPT !.mem = filled]
             total == n + k
  <2>1. IOBuffer_data_add(b, bytes) = IOBuffer_commit(c, k)
    BY Zenon DEF IOBuffer_data_add, filled, n, p, m, k
  <2>2. c \in IOBuffers /\ c.remaining = n /\ c.mem = filled /\ c.ptr = p
    BY <1>1, <1>3, Zenon DEF IOBuffers
  <2> HIDE DEF c
  <2>3. IOBuffer_commit(c, k) = [c EXCEPT !.remaining = total, !.mem = ended]
    BY <2>2, Zenon DEF IOBuffer_commit, ended, IOBuffers
  <2>4. total \in Nat
    BY <1>1
  <2> DEFINE r == [c EXCEPT !.remaining = total, !.mem = ended]
  <2> HIDE DEF total
  <2>5. ended \in [0..IOCapacity -> Bytes]
    BY <1>6, Zenon
  <2>6. r \in IOBuffers /\ r.ptr = c.ptr /\ r.remaining = total /\ r.mem = ended
    BY <2>2, <2>4, <2>5, Zenon DEF IOBuffers
  <2> HIDE DEF r
  <2>7. IOBuffer_data_add(b, bytes) = r
    BY <2>1, <2>3, Zenon DEF r
  <2> QED BY <2>2, <2>6, <2>7, Zenon DEF total
<1> QED BY <1>4, <1>6, <1>7, Zenon DEF n, p, m, k

-----------------------------------------------------------------------------
(* IOBuffer: the inductive invariant *)

IOBInv ==
    /\ iob \in IOBuffers
    /\ iob.ptr + iob.remaining <= IOCapacity
    /\ iob.remaining = 0 => iob.ptr = 0
    /\ arrived \in Nat
    /\ unread \in Seq(Bytes)
    /\ Len(unread) = iob.remaining
    /\ ~late =>
          /\ \A i \in 1..iob.remaining : iob.mem[iob.ptr + i - 1] = unread[i]
          /\ iob.remaining > 0 => iob.mem[iob.ptr + iob.remaining] = TERM

\* The invariant is strong enough.
LEMMA IOBInvKeepsBytes == IOBInv => BufferKeepsBytes
<1> SUFFICES ASSUME IOBInv PROVE BufferKeepsBytes
  BY Zenon
<1>1. /\ iob \in IOBuffers /\ iob.ptr + iob.remaining <= IOCapacity /\ iob.capacity = IOCapacity
      /\ iob.ptr \in Nat /\ iob.remaining \in Nat
  BY Zenon DEF IOBInv, IOBuffers
<1>2. /\ IOBuffer_data(iob) \in Seq(Bytes)
      /\ Len(IOBuffer_data(iob)) = iob.remaining
      /\ \A i \in 1..iob.remaining : IOBuffer_data(iob)[i] = iob.mem[iob.ptr + i - 1]
  BY <1>1, DataIsSequence, Zenon
<1>3. ASSUME ~late PROVE IOBuffer_data(iob) = unread
  <2>1. unread \in Seq(Bytes) /\ Len(unread) = iob.remaining
        /\ \A i \in 1..iob.remaining : IOBuffer_data(iob)[i] = unread[i]
    BY <1>2, <1>3, Zenon DEF IOBInv
  <2> QED BY <1>2, <2>1, SeqEqual, Zenon
<1>4. ASSUME ~late, unread # << >> PROVE iob.mem[iob.ptr + iob.remaining] = TERM
  <2>1. Len(unread) # 0
    BY <1>4, EmptySeq, Zenon DEF IOBInv
  <2> QED BY <1>1, <1>4, <2>1 DEF IOBInv
<1>5. BytesIntact
  BY <1>1, <1>3, <1>4, Zenon DEF BytesIntact
<1>6. EmptyIsRewound
  BY <1>1, IOBufferAssumption DEF EmptyIsRewound, IOBuffer_space_len, IOBInv
<1> QED BY <1>5, <1>6, Zenon DEF BufferKeepsBytes

\* A new buffer has no bytes.
LEMMA NewBuffer ==
    /\ IOBuffer_new(IOCapacity) \in IOBuffers
    /\ IOBuffer_new(IOCapacity).ptr = 0
    /\ IOBuffer_new(IOCapacity).remaining = 0
BY IOBufferAssumption, Zenon DEF IOBuffer_new, IOBuffers, Bytes

\* The buffer starts empty.
LEMMA IOBStarts == IOBufferInit => IOBInv
BY NewBuffer, IOBufferAssumption DEF IOBufferInit, IOBInv

\* Bytes that arrive are appended, and terminated unless a consume left bytes
\* behind.
LEMMA ReceiveKeeps ==
    ASSUME IOBInv, NEW n \in 1..IOCapacity, Receive(n)
    PROVE  IOBInv'
<1> DEFINE bytes == [i \in 1..n |-> arrived + i]
           p == iob.ptr
           r == iob.remaining
<1>1. /\ arrived \in Nat /\ p \in Nat /\ r \in Nat /\ n \in Nat /\ n > 0 /\ iob \in IOBuffers
      /\ unread \in Seq(Bytes) /\ Len(unread) = r /\ iob.capacity = IOCapacity
      /\ iob.mem \in [0..IOCapacity -> Bytes]
  BY IOBufferAssumption DEF IOBInv, IOBuffers
<1>2. bytes \in Seq(Bytes) /\ Len(bytes) = n /\ \A i \in 1..n : bytes[i] = arrived + i
  BY <1>1 DEF Bytes
<1>3. /\ iob' = IOBuffer_data_add(iob, bytes) /\ unread' = unread \o bytes
      /\ arrived' = arrived + n /\ late' = (late \/ iob.ptr > 0)
      /\ DataAddAsserts(iob, bytes)
  BY Zenon DEF Receive
<1> HIDE DEF bytes
<1>4. p + r + n <= IOCapacity
  BY <1>1, <1>2, <1>3, IOBufferAssumption DEF DataAddAsserts, IOBuffer_space_len
<1>5. /\ iob' \in IOBuffers /\ iob'.ptr = p /\ iob'.remaining = r + n
      /\ \A j \in 0..IOCapacity :
            iob'.mem[j] = IF j = r + n THEN TERM
                          ELSE IF j \in (p + r)..(p + r + n - 1) THEN bytes[j - (p + r) + 1]
                          ELSE iob.mem[j]
  <2>1. iob.ptr + iob.remaining + Len(bytes) <= IOCapacity
    BY <1>2, <1>4, Zenon
  <2>2. /\ IOBuffer_data_add(iob, bytes) \in IOBuffers
        /\ IOBuffer_data_add(iob, bytes).ptr = iob.ptr
        /\ IOBuffer_data_add(iob, bytes).remaining = iob.remaining + Len(bytes)
        /\ \A j \in 0..IOCapacity :
              IOBuffer_data_add(iob, bytes).mem[j] =
                 IF j = iob.remaining + Len(bytes) THEN TERM
                 ELSE IF j \in (iob.ptr + iob.remaining)..(iob.ptr + iob.remaining + Len(bytes) - 1)
                      THEN bytes[j - (iob.ptr + iob.remaining) + 1]
                      ELSE iob.mem[j]
    BY <1>1, <1>2, <2>1, DataAdded, Zenon
  <2> QED BY <1>2, <1>3, <2>2, Zenon
<1> HIDE DEF p, r
<1>6. /\ unread' \in Seq(Bytes) /\ Len(unread') = r + n
      /\ \A i \in 1..(r + n) : unread'[i] = IF i <= r THEN unread[i] ELSE bytes[i - r]
  <2>1. /\ unread \o bytes \in Seq(Bytes) /\ Len(unread \o bytes) = Len(unread) + Len(bytes)
        /\ \A i \in 1..(Len(unread) + Len(bytes)) :
              (unread \o bytes)[i] = IF i <= Len(unread) THEN unread[i] ELSE bytes[i - Len(unread)]
    BY <1>1, <1>2, ConcatProperties, Zenon
  <2> QED BY <1>1, <1>2, <1>3, <2>1, Zenon
<1>7. ASSUME ~late'
      PROVE  /\ \A i \in 1..iob'.remaining : iob'.mem[iob'.ptr + i - 1] = unread'[i]
             /\ iob'.mem[iob'.ptr + iob'.remaining] = TERM
  <2>1. ~late /\ p = 0
    <3>1. ~late /\ ~(p > 0)
      BY <1>3, <1>7, Zenon DEF p
    <3> QED BY <1>1, <3>1
  <2>2. \A i \in 1..r : iob.mem[i - 1] = unread[i]
    BY <1>1, <2>1 DEF IOBInv, p, r
  <2>3. iob'.mem[r + n] = TERM
    BY <1>1, <1>4, <1>5, <2>1, IOBufferAssumption
  <2>4. ASSUME NEW i \in 1..(r + n) PROVE iob'.mem[i - 1] = unread'[i]
    <3>1. i - 1 \in 0..IOCapacity /\ i - 1 # r + n
      BY <1>1, <1>4, <2>1, <2>4, IOBufferAssumption
    <3>2. CASE i <= r
      <4>1. i \in 1..r /\ i - 1 \notin (p + r)..(p + r + n - 1)
        BY <1>1, <2>1, <2>4, <3>2
      <4>2. iob'.mem[i - 1] = iob.mem[i - 1]
        BY <1>5, <3>1, <4>1, Zenon
      <4>3. unread'[i] = unread[i]
        BY <1>6, <3>2, Zenon
      <4> QED BY <2>2, <4>1, <4>2, <4>3, Zenon
    <3>3. CASE i > r
      <4>1. i - 1 \in (p + r)..(p + r + n - 1) /\ i - 1 - (p + r) + 1 = i - r
        BY <1>1, <2>1, <2>4, <3>3
      <4>2. iob'.mem[i - 1] = bytes[i - 1 - (p + r) + 1]
        BY <1>5, <3>1, <4>1, Zenon
      <4>3. ~(i <= r)
        BY <1>1, <3>3
      <4>4. unread'[i] = bytes[i - r]
        BY <1>6, <4>3, Zenon
      <4> QED BY <4>1, <4>2, <4>4, Zenon
    <3> QED BY <1>1, <3>2, <3>3
  <2>5. \A i \in 1..(r + n) : 0 + i - 1 = i - 1
    BY <1>1
  <2>6. iob'.remaining = r + n /\ iob'.ptr = 0 /\ 0 + (r + n) = r + n
    BY <1>1, <1>5, <2>1
  <2> HIDE DEF bytes
  <2> QED BY <2>3, <2>4, <2>5, <2>6, Zenon
<1>8. arrived' \in Nat /\ p + (r + n) <= IOCapacity /\ r + n # 0
  BY <1>1, <1>3, <1>4, IOBufferAssumption
<1> QED BY <1>5, <1>6, <1>7, <1>8, Zenon DEF IOBInv

\* The parser consumes bytes from the front.
LEMMA ConsumeKeeps ==
    ASSUME IOBInv, NEW n \in 1..IOCapacity, Consume(n)
    PROVE  IOBInv'
<1> DEFINE p == iob.ptr
           r == iob.remaining
           front == IF r = n THEN 0 ELSE p + n
           left == r - n
<1>1. /\ p \in Nat /\ r \in Nat /\ n \in Nat /\ n > 0 /\ n <= r /\ iob \in IOBuffers
      /\ unread \in Seq(Bytes) /\ Len(unread) = r /\ p + r <= IOCapacity
      /\ iob.mem \in [0..IOCapacity -> Bytes]
  BY IOBufferAssumption DEF IOBInv, IOBuffers, Consume
<1>2. /\ iob' = [iob EXCEPT !.ptr = front, !.remaining = left]
      /\ unread' = SubSeq(unread, n + 1, Len(unread)) /\ arrived' = arrived
      /\ late' = (late /\ n < r)
  BY <1>1, Zenon DEF Consume, IOBuffer_consume, IOBuffers
<1>3. /\ front \in Nat /\ left \in Nat /\ front + left <= IOCapacity
      /\ left = 0 => front = 0
      /\ left > 0 => front = p + n /\ n < r
  <2> HIDE DEF p, r
  <2>1. CASE r = n
    BY <1>1, <2>1, IOBufferAssumption
  <2>2. CASE r # n
    BY <1>1, <2>2, IOBufferAssumption
  <2> QED BY <2>1, <2>2, Zenon
<1> HIDE DEF p, r, front, left
<1>4. iob' \in IOBuffers /\ iob'.ptr = front /\ iob'.remaining = left /\ iob'.mem = iob.mem
  BY <1>1, <1>2, <1>3, Zenon DEF IOBuffers
<1>5. /\ unread' \in Seq(Bytes) /\ Len(unread') = left
      /\ \A i \in 1..left : unread'[i] = unread[n + i]
  <2>1. \A i \in (n + 1)..r : unread[i] \in Bytes
    BY <1>1, ElementOfSeq
  <2>2. n + 1 \in Int /\ r \in Int
    BY <1>1
  <2>3. /\ SubSeq(unread, n + 1, r) \in Seq(Bytes)
        /\ Len(SubSeq(unread, n + 1, r)) = IF n + 1 <= r THEN r - (n + 1) + 1 ELSE 0
        /\ \A i \in 1..(r - (n + 1) + 1) : SubSeq(unread, n + 1, r)[i] = unread[n + 1 + i - 1]
    BY <2>1, <2>2, SubSeqProperties
  <2>4. unread' = SubSeq(unread, n + 1, r)
    BY <1>1, <1>2, Zenon
  <2>5. /\ r - (n + 1) + 1 = left
        /\ (IF n + 1 <= r THEN r - (n + 1) + 1 ELSE 0) = left
        /\ \A i \in 1..left : n + 1 + i - 1 = n + i
    BY <1>1, <1>3 DEF left
  <2> QED BY <2>3, <2>4, <2>5, Zenon
<1>6. ASSUME ~late', left > 0
      PROVE  /\ \A i \in 1..left : iob.mem[front + i - 1] = unread'[i]
             /\ iob.mem[front + left] = TERM
  <2>1. ~late /\ front = p + n /\ n < r
    <3>1. front = p + n /\ n < r
      BY <1>3, <1>6, Zenon
    <3> QED BY <1>2, <1>6, <3>1, Zenon
  <2>2. /\ \A i \in 1..r : iob.mem[p + i - 1] = unread[i]
        /\ iob.mem[p + r] = TERM
    BY <1>1, <2>1 DEF IOBInv, p, r
  <2>3. front + left = p + r
    BY <1>1, <2>1 DEF left
  <2>4. ASSUME NEW i \in 1..left PROVE iob.mem[front + i - 1] = unread'[i]
    <3>1. n + i \in 1..r /\ p + (n + i) - 1 = front + i - 1
      <4>1. i \in Nat /\ i >= 1 /\ i <= r - n
        BY <1>1, <2>4 DEF left
      <4> QED BY <1>1, <2>1, <4>1
    <3> QED BY <1>5, <2>2, <3>1, Zenon
  <2> QED BY <2>2, <2>3, <2>4, Zenon
<1>7. ASSUME ~late'
      PROVE  /\ \A i \in 1..left : iob.mem[front + i - 1] = unread'[i]
             /\ left > 0 => iob.mem[front + left] = TERM
  <2>1. CASE left > 0
    BY <1>6, <1>7, <2>1, Zenon
  <2>2. CASE ~(left > 0)
    BY <1>3, <2>2
  <2> QED BY <2>1, <2>2, Zenon
<1> QED BY <1>2, <1>3, <1>4, <1>5, <1>7, Zenon DEF IOBInv

\* IOBuffer_dup and IOBuffer_consolidate_space keep the bytes.
LEMMA CopyKeeps ==
    ASSUME IOBInv, CopyBuffer
    PROVE  IOBInv'
<1>1. /\ iob \in IOBuffers /\ iob.ptr \in Nat /\ iob.remaining \in Nat
      /\ iob.ptr + iob.remaining <= IOCapacity /\ iob.mem \in [0..IOCapacity -> Bytes]
      /\ iob.capacity = IOCapacity
  BY Zenon DEF IOBInv, IOBuffers
<1>2. UNCHANGED <<arrived, unread, late>>
  BY Zenon DEF CopyBuffer
<1>3. CASE iob' = IOBuffer_dup(iob)
  <2>1. iob' \in IOBuffers /\ iob'.ptr = iob.ptr /\ iob'.remaining = iob.remaining /\ iob'.mem = iob.mem
    BY <1>1, <1>3, Zenon DEF IOBuffer_dup, IOBuffer_new, IOBuffers
  <2> QED BY <1>2, <2>1, Zenon DEF IOBInv
<1>4. CASE iob.remaining > 0 /\ iob' = IOBuffer_consolidate_space(iob)
  <2> DEFINE b == IOBuffer_new(IOCapacity)
             d == IOBuffer_data(iob)
             r == iob.remaining
  <2>1. b \in IOBuffers /\ b.ptr = 0 /\ b.remaining = 0
    BY NewBuffer, Zenon
  <2>2. /\ d \in Seq(Bytes) /\ Len(d) = r
        /\ \A i \in 1..r : d[i] = iob.mem[iob.ptr + i - 1]
    BY <1>1, DataIsSequence, Zenon
  <2>3. iob' = IOBuffer_data_add(b, d)
    BY <1>1, <1>4, Zenon DEF IOBuffer_consolidate_space
  <2> HIDE DEF b, d
  <2>4. b.ptr + b.remaining + Len(d) <= IOCapacity
    BY <1>1, <2>1, <2>2, IOBufferAssumption
  <2>5. /\ iob' \in IOBuffers
        /\ iob'.ptr = b.ptr
        /\ iob'.remaining = b.remaining + Len(d)
        /\ \A j \in 0..IOCapacity :
              iob'.mem[j] =
                 IF j = b.remaining + Len(d) THEN TERM
                 ELSE IF j \in (b.ptr + b.remaining)..(b.ptr + b.remaining + Len(d) - 1)
                      THEN d[j - (b.ptr + b.remaining) + 1]
                      ELSE b.mem[j]
    BY <2>1, <2>2, <2>3, <2>4, DataAdded, Zenon
  <2> HIDE DEF r
  <2>6. r \in Nat /\ r <= IOCapacity /\ r > 0
    BY <1>1, <1>4, IOBufferAssumption DEF r
  <2>7. iob'.ptr = 0 /\ iob'.remaining = r
    BY <2>1, <2>2, <2>5, <2>6
  <2>8. iob'.mem[r] = TERM
    BY <2>1, <2>2, <2>5, <2>6, IOBufferAssumption
  <2>9. ASSUME NEW i \in 1..r PROVE iob'.mem[0 + i - 1] = d[i]
    <3>1. /\ i - 1 \in 0..IOCapacity /\ i - 1 # b.remaining + Len(d) /\ 0 + i - 1 = i - 1
          /\ i - 1 \in (b.ptr + b.remaining)..(b.ptr + b.remaining + Len(d) - 1)
          /\ i - 1 - (b.ptr + b.remaining) + 1 = i
      BY <2>1, <2>2, <2>6, <2>9, IOBufferAssumption
    <3> QED BY <2>5, <3>1, Zenon
  <2>10. ASSUME ~late
         PROVE  /\ \A i \in 1..r : iob'.mem[0 + i - 1] = unread[i]
                /\ iob'.mem[0 + r] = TERM
    BY <2>2, <2>6, <2>8, <2>9, <2>10 DEF IOBInv, r
  <2>11. unread \in Seq(Bytes) /\ Len(unread) = r /\ arrived \in Nat /\ 0 + r <= IOCapacity
    BY <2>6 DEF IOBInv, r
  <2> QED BY <1>2, <2>5, <2>6, <2>7, <2>10, <2>11, Zenon DEF IOBInv
<1> QED BY <1>3, <1>4, Zenon DEF CopyBuffer

\* Each step keeps the invariant.
LEMMA IOBSteps == IOBInv /\ [IOBufferNext]_iobVars => IOBInv'
<1> SUFFICES ASSUME IOBInv, [IOBufferNext]_iobVars
             PROVE  IOBInv'
  BY Zenon
<1>1. CASE ResetBuffer
  <2>1. iob' = [iob EXCEPT !.ptr = 0, !.remaining = 0] /\ unread' = << >> /\ arrived' = arrived
    BY <1>1, Zenon DEF ResetBuffer, IOBuffer_reset
  <2>2. iob' \in IOBuffers /\ iob'.ptr = 0 /\ iob'.remaining = 0
    BY <2>1, Zenon DEF IOBInv, IOBuffers
  <2> QED BY <2>1, <2>2, IOBufferAssumption DEF IOBInv
<1>2. CASE UNCHANGED iobVars
  BY <1>2, Zenon DEF iobVars, IOBInv
<1> QED BY <1>1, <1>2, ReceiveKeeps, ConsumeKeeps, CopyKeeps, Zenon DEF IOBufferNext

\* For every capacity and every sequence of receives, consumes, resets and
\* copies: a buffer never exceeds its memory, has all of its space again once it
\* is emptied, and hands out the bytes it was given, terminated, as long as
\* nothing is committed behind a consume that left bytes in it.
THEOREM IOBufferKeepsBytes == IOBufferSpec => []BufferKeepsBytes
BY IOBStarts, IOBSteps, IOBInvKeepsBytes, PTL DEF IOBufferSpec

-----------------------------------------------------------------------------
(* Cbuffer: one buffer *)

Text == 1..MaxString

Cbuffers == [m_length : 0..MaxString, m_size : 0..MaxString, m_capacity : Nat \ {0},
             mem : [0..MaxString -> Text \cup {NUL, RAW}]]

\* The buffer holds the string.
Spells(b, s) ==
    /\ b \in Cbuffers
    /\ s \in Seq(Text)
    /\ Len(s) = b.m_length
    /\ \A i \in 1..b.m_length : b.mem[i - 1] = s[i]

\* There is a terminator behind the string, and where m_size says.
Ended(b) == b.mem[b.m_length] = NUL /\ b.mem[b.m_size] = NUL

\* Nothing was appended yet.
Fresh(b) == b.m_length = 0 /\ b.m_size = 0

\* The terminator lies inside the memory.
Inside(b) == b.m_length < b.m_capacity

\* The smaller of two numbers.
LEMMA MinOfTwo ==
    ASSUME NEW x \in Int, NEW y \in Int
    PROVE  Min({x, y}) = IF x <= y THEN x ELSE y
BY DEF Min

\* The larger of two numbers.
LEMMA MaxOfTwo ==
    ASSUME NEW x \in Int, NEW y \in Int
    PROVE  Max({x, y}) = IF x >= y THEN x ELSE y
BY DEF Max

\* Cbuffer_data returns the string.
LEMMA DataIsString ==
    ASSUME NEW b, NEW s, Spells(b, s)
    PROVE  Cbuffer_data(b) = s
<1>1. /\ s \in Seq(Text) /\ Len(s) = b.m_length /\ Len(s) \in Nat
      /\ \A i \in 1..Len(s) : b.mem[i - 1] = s[i]
  BY LenProperties, Zenon DEF Spells
<1>2. s = [i \in 1..Len(s) |-> s[i]]
  BY <1>1
<1>3. Cbuffer_data(b) = [i \in 1..Len(s) |-> b.mem[i - 1]]
  BY <1>1, Zenon DEF Cbuffer_data
<1>4. [i \in 1..Len(s) |-> b.mem[i - 1]] = [i \in 1..Len(s) |-> s[i]]
  BY <1>1, Zenon
<1> QED BY <1>2, <1>3, <1>4, Zenon

\* The string has no 0, so Cbuffer_cstr ends where it ends.
LEMMA CstrIsString ==
    ASSUME NEW b, NEW s, Spells(b, s), Ended(b)
    PROVE  CstrAsserts(b) /\ Cbuffer_cstr(b) = s
<1> DEFINE n == b.m_length
           nuls == {i \in DOMAIN b.mem : b.mem[i] = NUL}
<1>1. /\ n \in 0..MaxString /\ DOMAIN b.mem = 0..MaxString /\ b.mem[n] = NUL /\ MaxString \in Nat
      /\ s \in Seq(Text) /\ Len(s) = n /\ \A i \in 1..n : b.mem[i - 1] = s[i]
  BY CbufferAssumption, Zenon DEF Spells, Ended, Cbuffers
<1>2. \A i \in 1..n : s[i] # NUL
  BY <1>1, ElementOfSeq, CbufferAssumption, Zenon DEF Text
<1> HIDE DEF n
<1>3. \A i \in 0..MaxString : i < n => b.mem[i] # NUL
  <2> SUFFICES ASSUME NEW i \in 0..MaxString, i < n PROVE b.mem[i] # NUL
    BY Zenon
  <2>1. i + 1 \in 1..n /\ i + 1 - 1 = i
    BY <1>1
  <2>2. b.mem[i + 1 - 1] = s[i + 1] /\ s[i + 1] # NUL
    BY <1>1, <1>2, <2>1
  <2> QED BY <2>1, <2>2, Zenon
<1>4. n \in nuls /\ \A i \in nuls : n <= i
  BY <1>1, <1>3
<1>5. nuls \subseteq Int
  BY <1>1
<1> HIDE DEF nuls
<1>6. Min(nuls) = n
  <2>1. \A x \in nuls : (\A y \in nuls : x =< y) => x = n
    BY <1>1, <1>4, <1>5
  <2> QED BY <1>4, <2>1, Zenon DEF Min
<1>7. Cbuffer_cstr(b) = [i \in 1..n |-> b.mem[i - 1]]
  BY <1>6, Zenon DEF Cbuffer_cstr, nuls
<1>8. Cbuffer_cstr(b) = Cbuffer_data(b)
  BY <1>7, Zenon DEF Cbuffer_data, n
<1> QED BY <1>8, DataIsString, Zenon DEF CstrAsserts, Ended

\* Cbuffer_clear leaves the empty string, and m_size where it was.
LEMMA Cleared ==
    ASSUME NEW b, NEW s, Spells(b, s), Ended(b) \/ Fresh(b)
    PROVE  /\ Spells(Cbuffer_clear(b), << >>)
           /\ Ended(Cbuffer_clear(b))
           /\ Inside(Cbuffer_clear(b))
<1> DEFINE m == [b.mem EXCEPT ![0] = NUL]
           r == [b EXCEPT !.m_length = 0, !.mem = m]
<1>1. /\ b \in Cbuffers /\ b.mem \in [0..MaxString -> Text \cup {NUL, RAW}] /\ 0 \in 0..MaxString
      /\ b.m_size \in 0..MaxString /\ b.m_capacity \in Nat \ {0}
  BY CbufferAssumption DEF Spells, Cbuffers
<1>2. Cbuffer_clear(b) = r
  BY <1>1, Zenon DEF Cbuffer_clear, Cbuffers
<1>3. /\ m \in [0..MaxString -> Text \cup {NUL, RAW}] /\ m[0] = NUL
      /\ \A i \in 0..MaxString : i # 0 => m[i] = b.mem[i]
  BY <1>1, Zenon
<1> HIDE DEF m
<1>4. /\ r \in Cbuffers /\ r.m_length = 0 /\ r.mem = m
      /\ r.m_size = b.m_size /\ r.m_capacity = b.m_capacity
  BY <1>1, <1>3, Zenon DEF Cbuffers
<1> HIDE DEF r
<1>5. m[b.m_size] = NUL
  BY <1>1, <1>3, Zenon DEF Ended, Fresh
<1>6. Spells(r, << >>)
  BY <1>4 DEF Spells
<1> QED BY <1>1, <1>2, <1>3, <1>4, <1>5, <1>6 DEF Ended, Inside

\* Cbuffer_append puts the bytes behind the string, and a terminator behind
\* them. Only an append that outgrows the doubled memory leaves that
\* terminator outside it.
LEMMA Appended ==
    ASSUME NEW b, NEW s, Spells(b, s),
           NEW bytes \in Seq(Text), Len(bytes) > 0, b.m_length + Len(bytes) <= MaxString
    PROVE  LET r == Cbuffer_append(b, bytes)
           IN  /\ Spells(r, s \o bytes)
               /\ Ended(r)
               /\ ~(b.m_length + Len(bytes) >= Min({MaxString, 2 * b.m_capacity})) => Inside(r)
<1> DEFINE n == b.m_length
           k == Len(bytes)
           length == n + k
           limit == Min({MaxString, 2 * b.m_capacity})
           cap == IF length >= b.m_capacity
                  THEN BufferStrategy_reallocate_size(b.m_capacity, length) ELSE b.m_capacity
           f == [i \in DOMAIN b.mem |->
                   IF i \in n..(length - 1) THEN bytes[i - n + 1] ELSE b.mem[i]]
           m == [f EXCEPT ![length] = NUL]
           r == [m_length |-> length, m_size |-> length, mem |-> m, m_capacity |-> cap]
<1>1. /\ b \in Cbuffers /\ b.mem \in [0..MaxString -> Text \cup {NUL, RAW}]
      /\ n \in 0..MaxString /\ b.m_capacity \in Nat \ {0} /\ MaxString \in Nat
      /\ s \in Seq(Text) /\ Len(s) = n /\ \A i \in 1..n : b.mem[i - 1] = s[i]
  BY CbufferAssumption, Zenon DEF Spells, Cbuffers
<1>2. k \in Nat \ {0} /\ \A i \in 1..k : bytes[i] \in Text
  BY LenProperties, ElementOfSeq
<1>3. bytes # << >> /\ Cbuffer_append(b, bytes) = r
  BY <1>2 DEF Cbuffer_append
<1>4. length \in 1..MaxString
  BY <1>1, <1>2
<1>5. limit \in Nat
  BY <1>1, MinOfTwo
<1>6. /\ cap \in Nat \ {0}
      /\ ~(length >= limit) => length < cap
  <2>1. CASE length >= b.m_capacity
    <3>1. cap = Max({length, limit})
      BY <2>1, Zenon DEF BufferStrategy_reallocate_size
    <3> HIDE DEF limit, cap, length
    <3>2. cap = IF length >= limit THEN length ELSE limit
      BY <3>1, <1>4, <1>5, MaxOfTwo
    <3> QED BY <3>2, <1>4, <1>5
  <2>2. CASE ~(length >= b.m_capacity)
    BY <2>2, <1>1, <1>4
  <2> QED BY <2>1, <2>2, Zenon
<1> HIDE DEF cap
<1>7. f \in [0..MaxString -> Text \cup {NUL, RAW}]
  <2> SUFFICES ASSUME NEW i \in 0..MaxString, i \in n..(length - 1)
               PROVE  bytes[i - n + 1] \in Text
    BY <1>1, Zenon
  <2>1. i - n + 1 \in 1..k
    BY <1>1, <1>2
  <2> QED BY <2>1, <1>2, Zenon
<1>8. /\ m \in [0..MaxString -> Text \cup {NUL, RAW}] /\ m[length] = NUL
      /\ \A i \in 0..MaxString : i # length => m[i] = f[i]
  <2> HIDE DEF f, length
  <2> QED BY <1>4, <1>7
<1>9. \A i \in 1..length : m[i - 1] = (s \o bytes)[i]
  <2> SUFFICES ASSUME NEW i \in 1..length PROVE m[i - 1] = (s \o bytes)[i]
    BY Zenon
  <2>1. i - 1 \in 0..MaxString /\ i - 1 # length
    BY <1>1, <1>2, <1>4
  <2>2. m[i - 1] = f[i - 1]
    BY <2>1, <1>8, Zenon
  <2>3. f[i - 1] = IF i - 1 \in n..(length - 1) THEN bytes[i - 1 - n + 1] ELSE b.mem[i - 1]
    BY <2>1, <1>1, Zenon
  <2>4. CASE i <= n
    <3>1. ~(i - 1 \in n..(length - 1)) /\ i \in 1..n
      BY <2>4, <1>1
    <3>2. f[i - 1] = s[i]
      BY <3>1, <2>3, <1>1, Zenon
    <3>3. (s \o bytes)[i] = s[i]
      BY <3>1, <1>1, ConcatProperties
    <3> QED BY <2>2, <3>2, <3>3, Zenon
  <2>5. CASE i > n
    <3>1. i - 1 \in n..(length - 1) /\ i - 1 - n + 1 = i - n /\ i \in (n + 1)..(n + k)
      BY <2>5, <1>1, <1>2
    <3>2. f[i - 1] = bytes[i - n]
      BY <3>1, <2>3, Zenon
    <3>3. i \in 1..(Len(s) + Len(bytes)) /\ ~(i <= Len(s))
      BY <3>1, <1>1, <1>2
    <3>4. (s \o bytes)[i] = bytes[i - Len(s)]
      BY <3>3, <1>1, ConcatProperties, Zenon
    <3> QED BY <2>2, <3>2, <3>4, <1>1, Zenon
  <2> QED BY <2>4, <2>5, <1>1, <1>2
<1>10. s \o bytes \in Seq(Text) /\ Len(s \o bytes) = length
  BY <1>1, ConcatProperties
<1> HIDE DEF m
<1>11. /\ r \in Cbuffers /\ r.m_length = length /\ r.mem = m
       /\ r.m_size = length /\ r.m_capacity = cap
  <2> HIDE DEF length
  <2> QED BY <1>4, <1>6, <1>8 DEF Cbuffers
<1> HIDE DEF r, length
<1>12. Spells(r, s \o bytes)
  BY <1>9, <1>10, <1>11, Zenon DEF Spells
<1>13. Ended(r)
  BY <1>8, <1>11, Zenon DEF Ended
<1>14. ~(length >= limit) => Inside(r)
  BY <1>6, <1>11, Zenon DEF Inside
<1> QED BY <1>3, <1>12, <1>13, <1>14, Zenon DEF length

-----------------------------------------------------------------------------
(* Cbuffer: two buffers *)

Two == {"dest", "src"}

\* The inductive invariant: what clear and append need of each buffer. m_size
\* may point behind the string, but never to a place without a terminator.
CbufInv ==
    /\ DOMAIN cbuf = Two /\ DOMAIN string = Two /\ DOMAIN written = Two /\ DOMAIN leap = Two
    /\ \A b \in Two :
        /\ written[b] \in BOOLEAN /\ leap[b] \in BOOLEAN
        /\ Spells(cbuf[b], string[b])
        /\ written[b] => Ended(cbuf[b])
        /\ ~written[b] => Fresh(cbuf[b])
        /\ ~leap[b] => Inside(cbuf[b])

\* New buffers are empty.
LEMMA CbufStarts == CbufferInit => CbufInv
<1> SUFFICES ASSUME CbufferInit PROVE CbufInv
  BY Zenon
<1>1. /\ Cbuffer_new \in Cbuffers /\ Cbuffer_new.m_length = 0
      /\ Cbuffer_new.m_size = 0 /\ Cbuffer_new.m_capacity = MinString
  BY CbufferAssumption DEF Cbuffer_new, Cbuffers, BufferStrategy_allocate
<1>2. Spells(Cbuffer_new, << >>)
  BY <1>1 DEF Spells
<1>3. Fresh(Cbuffer_new) /\ Inside(Cbuffer_new)
  BY <1>1, CbufferAssumption DEF Fresh, Inside
<1> QED BY <1>2, <1>3, Zenon DEF CbufferInit, CbufInv, Two

\* CbufferAppend and CbufferClear change one buffer.
LEMMA AppendKeeps ==
    ASSUME CbufInv, NEW x \in Two, NEW n \in 0..MaxString,
           CbufferAppend(x, [i \in 1..n |-> Len(string[x]) + i])
    PROVE  CbufInv'
<1> DEFINE bytes == [i \in 1..n |-> Len(string[x]) + i]
<1>0. n \in Nat /\ MaxString \in Nat
  BY CbufferAssumption
<1>1. /\ Spells(cbuf[x], string[x]) /\ DOMAIN cbuf = Two /\ DOMAIN string = Two
      /\ DOMAIN written = Two /\ DOMAIN leap = Two
      /\ \A b \in Two : written[b] \in BOOLEAN /\ leap[b] \in BOOLEAN
  BY Zenon DEF CbufInv
<1>2. /\ Len(string[x]) \in Nat /\ Len(string[x]) = cbuf[x].m_length
  BY <1>1, LenProperties, Zenon DEF Spells
<1>3. Len(bytes) = n
  BY <1>0
<1>4. cbuf[x].m_length + n <= MaxString
  BY <1>3, Zenon DEF CbufferAppend
<1>5. bytes \in Seq(Text)
  <2>1. \A i \in 1..n : Len(string[x]) + i \in 1..MaxString
    BY <1>0, <1>2, <1>4
  <2> QED BY <1>0, <2>1 DEF Text
<1>6. bytes = << >> <=> n = 0
  BY <1>3, <1>0, EmptySeq, <1>5, Zenon
<1> HIDE DEF bytes
<1>7. /\ cbuf' = [cbuf EXCEPT ![x] = Cbuffer_append(@, bytes)]
      /\ string' = [string EXCEPT ![x] = @ \o bytes]
      /\ written' = [written EXCEPT ![x] = @ \/ bytes # << >>]
      /\ leap' = IF bytes = << >> THEN leap
                 ELSE [leap EXCEPT ![x] = cbuf[x].m_length + Len(bytes)
                                              >= Min({MaxString, 2 * cbuf[x].m_capacity})]
  BY Zenon DEF CbufferAppend, bytes
<1>8. CASE n = 0
  <2>1. bytes = << >> /\ Cbuffer_append(cbuf[x], bytes) = cbuf[x] /\ string[x] \o bytes = string[x]
    BY <1>8, <1>6, <1>1, ConcatEmptySeq, Zenon DEF Cbuffer_append, Spells
  <2>2. /\ DOMAIN cbuf' = Two /\ DOMAIN string' = Two /\ leap' = leap
        /\ \A b \in Two : cbuf'[b] = cbuf[b] /\ string'[b] = string[b]
    BY <2>1, <1>1, <1>7, Zenon
  <2>3. DOMAIN written' = Two /\ \A b \in Two : written'[b] = written[b]
    <3>1. written' = [written EXCEPT ![x] = written[x] \/ FALSE]
      BY <2>1, <1>7, Zenon
    <3>2. (written[x] \/ FALSE) = written[x]
      BY <1>1, Zenon
    <3> QED BY <3>1, <3>2, <1>1, Zenon
  <2> QED BY <2>2, <2>3, Zenon DEF CbufInv
<1>9. CASE n # 0
  <2> DEFINE r == Cbuffer_append(cbuf[x], bytes)
             far == cbuf[x].m_length + Len(bytes) >= Min({MaxString, 2 * cbuf[x].m_capacity})
  <2>1. Spells(r, string[x] \o bytes) /\ Ended(r) /\ (~far => Inside(r))
    <3>1. Len(bytes) > 0 /\ cbuf[x].m_length + Len(bytes) <= MaxString
      BY <1>0, <1>3, <1>4, <1>9
    <3> QED BY <3>1, <1>1, <1>5, Appended, Zenon
  <2>2. far \in BOOLEAN
    OBVIOUS
  <2>3. bytes # << >>
    BY <1>6, <1>9, Zenon
  <2> HIDE DEF r, far
  <2>4. /\ cbuf' = [cbuf EXCEPT ![x] = r]
        /\ string' = [string EXCEPT ![x] = string[x] \o bytes]
        /\ leap' = [leap EXCEPT ![x] = far]
    BY <1>7, <2>3, Zenon DEF r, far
  <2>5. written' = [written EXCEPT ![x] = TRUE]
    BY <1>7, <2>3, Zenon
  <2> QED BY <2>1, <2>2, <2>4, <2>5, <1>1, Zenon DEF CbufInv
<1> QED BY <1>8, <1>9, Zenon

\* Cbuffer_clear empties one buffer.
LEMMA ClearKeeps ==
    ASSUME CbufInv, NEW x \in Two, CbufferClear(x)
    PROVE  CbufInv'
<1>1. /\ Spells(cbuf[x], string[x]) /\ (Ended(cbuf[x]) \/ Fresh(cbuf[x]))
      /\ DOMAIN written = Two /\ DOMAIN leap = Two
  BY Zenon DEF CbufInv
<1> DEFINE r == Cbuffer_clear(cbuf[x])
<1>2. Spells(r, << >>) /\ Ended(r) /\ Inside(r)
  BY <1>1, Cleared, Zenon
<1> HIDE DEF r
<1>3. /\ cbuf' = [cbuf EXCEPT ![x] = r] /\ string' = [string EXCEPT ![x] = << >>]
      /\ written' = [written EXCEPT ![x] = TRUE] /\ leap' = [leap EXCEPT ![x] = FALSE]
  BY Zenon DEF CbufferClear, r
<1> QED BY <1>1, <1>2, <1>3, Zenon DEF CbufInv

\* Cbuffer_move hands src's structure to dest, and clears dest's for src.
LEMMA MoveKeeps == CbufInv /\ Cbuffer_move => CbufInv'
<1> SUFFICES ASSUME CbufInv, Cbuffer_move PROVE CbufInv'
  BY Zenon
<1>0. "dest" \in Two /\ "src" \in Two /\ \A x \in Two : x = "dest" \/ x = "src"
  BY Zenon DEF Two
<1>1. /\ Spells(cbuf["dest"], string["dest"]) /\ (Ended(cbuf["dest"]) \/ Fresh(cbuf["dest"]))
      /\ written["src"] \in BOOLEAN /\ leap["src"] \in BOOLEAN
  BY <1>0, Zenon DEF CbufInv
<1> DEFINE c == Cbuffer_clear(cbuf["dest"])
           r == Cbuffer_clear(c)
<1>2. Spells(c, << >>) /\ Ended(c)
  BY <1>1, Cleared, Zenon
<1> HIDE DEF c
<1>3. Spells(r, << >>) /\ Ended(r) /\ Inside(r)
  BY <1>2, Cleared, Zenon
<1> HIDE DEF r
<1>4. cbuf' = [dest |-> cbuf["src"], src |-> r]
  BY Zenon DEF Cbuffer_move, Moved, c, r
<1>5. /\ string' = [dest |-> string["src"], src |-> << >>]
      /\ written' = [dest |-> written["src"], src |-> TRUE]
      /\ leap' = [dest |-> leap["src"], src |-> FALSE]
  BY Zenon DEF Cbuffer_move
<1>6. /\ DOMAIN cbuf' = Two /\ DOMAIN string' = Two
      /\ cbuf'["dest"] = cbuf["src"] /\ cbuf'["src"] = r
      /\ string'["dest"] = string["src"] /\ string'["src"] = << >>
  BY <1>4, <1>5, Zenon DEF Two
<1>7. DOMAIN written' = Two /\ DOMAIN leap' = Two
  BY <1>5, Zenon DEF Two
<1>8. /\ written'["dest"] = written["src"] /\ written'["src"] = TRUE
      /\ leap'["dest"] = leap["src"] /\ leap'["src"] = FALSE
  BY <1>5, Zenon
<1>9. /\ Spells(cbuf["src"], string["src"]) /\ (written["src"] => Ended(cbuf["src"]))
      /\ (~written["src"] => Fresh(cbuf["src"])) /\ (~leap["src"] => Inside(cbuf["src"]))
  BY <1>0, Zenon DEF CbufInv
<1> QED BY <1>0, <1>1, <1>3, <1>6, <1>7, <1>8, <1>9, Zenon DEF CbufInv

\* Cbuffer: through any sequence of appends, growths, clears and moves a buffer
\* holds what was appended since it was cleared, Cbuffer_cstr's assertion on
\* the terminator holds although clear leaves m_size behind, and the terminator
\* is inside the memory unless one append outgrew the doubled capacity.
THEOREM CbufferAlwaysKeepsString == CbufferSpec => []CbufferKeepsString
<1>1. CbufInv /\ [CbufferNext]_cbufVars => CbufInv'
  <2> SUFFICES ASSUME CbufInv, [CbufferNext]_cbufVars PROVE CbufInv'
    BY Zenon
  <2>1. CASE CbufferNext
    BY <2>1, AppendKeeps, ClearKeeps, MoveKeeps, Zenon DEF CbufferNext, Two
  <2>2. CASE UNCHANGED cbufVars
    BY <2>2, Zenon DEF cbufVars, CbufInv
  <2> QED BY <2>1, <2>2, Zenon
<1>2. CbufInv => CbufferKeepsString
  BY DataIsString, CstrIsString, Zenon
     DEF CbufInv, CbufferKeepsString, CbufferHoldsString, TerminatorInside, Inside, Two
<1> QED BY <1>1, <1>2, CbufStarts, PTL DEF CbufferSpec

-----------------------------------------------------------------------------
(* OldServer: the fields of a TcpConn *)

TcpFields == {"state", "read", "write", "msg", "iobuf", "rc", "handler", "left", "reported"}

BadReads == {"XRD_EOF", "XRD_ERROR", "XRD_PERROR"}

\* The states of a client's end, of a message that is being read, and what ends
\* the process before a connection is accepted.
Ends == {"open", "eof", "reset", "pipe"}
Reading == {"empty", "blank", "started"}
NotStopped == {"no", "listen", "accept"}

\* What TcpConn_read leaves alone, and what it returns: a message, the reason
\* why there is none, or nothing, for a client that closed too early.
LEMMA ReadResult ==
    ASSUME NEW c, DOMAIN tcp[c] = TcpFields, tcp[c].msg \in Reading, oend[c] \in Ends,
           NEW t \in TcpConn_read(c)
    PROVE  /\ DOMAIN t = TcpFields
           /\ t.state = tcp[c].state
           /\ t.left = tcp[c].left
           /\ t.reported = tcp[c].reported
           /\ t.write = tcp[c].write
           /\ \/ t.rc = "XRD_EOM" /\ t.msg = "done"
              \/ t.rc \in BadReads
              \/ t.rc = "XRD_EAGAIN" /\ t.msg \in Reading
              \/ t.rc = "spin" /\ t.msg = "blank" /\ oend[c] \in {"eof", "pipe"}
              \/ t.rc = "consume" /\ t.msg = "started" /\ oend[c] \in {"eof", "pipe"}
<1> DEFINE s == tcp[c].iobuf \o oarrived[c]
           d == Decisive(s)
           m == Consumed(tcp[c].msg, s)
           r == [tcp[c] EXCEPT !.msg = m, !.iobuf = << >>]
           eom == [r EXCEPT !.rc = "XRD_EOM", !.msg = "done", !.iobuf = SubSeq(s, d + 1, Len(s))]
           closed == [r EXCEPT !.rc = "XRD_EOM", !.msg = "done"]
           perror == [free_req_message(r) EXCEPT !.rc = "XRD_PERROR"]
           error == [free_req_message(r) EXCEPT !.rc = "XRD_ERROR"]
           spin == [r EXCEPT !.rc = "spin"]
           consume == [r EXCEPT !.rc = "consume"]
           eof == [free_req_message(r) EXCEPT !.rc = "XRD_EOF"]
           eagain == [r EXCEPT !.rc = "XRD_EAGAIN"]
<1>1. m \in Reading
  BY Zenon DEF Consumed, Reading
<1>2. r = [tcp[c] EXCEPT !.msg = Consumed(@, s), !.iobuf = << >>]
  BY Zenon
<1> HIDE DEF s, d, m
<1>3. /\ DOMAIN r = TcpFields /\ r.msg = m /\ r.state = tcp[c].state /\ r.left = tcp[c].left
      /\ r.reported = tcp[c].reported /\ r.write = tcp[c].write
  BY Zenon DEF TcpFields
<1> HIDE DEF r
<1>4. \/ t \in {eom, closed, perror, error, eof, eagain}
      \/ t = spin /\ m = "blank" /\ oend[c] \in {"eof", "pipe"}
      \/ t = consume /\ m = "started" /\ oend[c] \in {"eof", "pipe"}
  <2>1. \/ t \in {eom, perror, error, eof, eagain}
        \/ t \in Parser_consume_eof(r) /\ r.msg # "empty" /\ oend[c] \in {"eof", "pipe"}
    BY <1>2, Zenon DEF TcpConn_read, s, d, Ends
  <2>2. ASSUME t \in Parser_consume_eof(r), r.msg # "empty"
        PROVE  \/ t \in {closed, perror}
               \/ t = spin /\ m = "blank"
               \/ t = consume /\ m = "started"
    BY <1>1, <1>3, <2>2, Zenon DEF Parser_consume_eof, Reading
  <2> HIDE DEF eom, closed, perror, error, spin, consume, eof, eagain
  <2> QED BY <2>1, <2>2, Zenon
<1>5. CASE t \in {eom, closed}
  BY <1>3, <1>5, Zenon DEF TcpFields
<1>6. CASE t \in {perror, error, eof}
  BY <1>3, <1>6, Zenon DEF TcpFields, free_req_message, BadReads
<1>7. CASE t = eagain
  BY <1>1, <1>3, <1>7, Zenon DEF TcpFields
<1>8. CASE t = spin /\ m = "blank" /\ oend[c] \in {"eof", "pipe"}
  BY <1>3, <1>8, Zenon DEF TcpFields
<1>9. CASE t = consume /\ m = "started" /\ oend[c] \in {"eof", "pipe"}
  BY <1>3, <1>9, Zenon DEF TcpFields
<1> HIDE DEF eom, closed, perror, error, spin, consume, eof, eagain
<1> QED BY <1>4, <1>5, <1>6, <1>7, <1>8, <1>9, Zenon

-----------------------------------------------------------------------------
(* OldServer: the inductive invariant *)

PostedKinds == {"on_post_read_msg", "write_complete_post_func"}

\* The one function that is posted.
For(k, c) == posted = << <<k, c>> >>

OldTypeOK ==
    /\ tcp = [c \in OldConns |-> tcp[c]]
    /\ \A c \in OldConns : DOMAIN tcp[c] = TcpFields /\ tcp[c].left \in Nat
    /\ oroom \in [OldConns -> Nat]
    /\ oend \in [OldConns -> Ends]
    /\ posted = << >> \/ \E k \in PostedKinds, c \in OldConns : For(k, c)

\* A connection reads, or has a function posted, or writes, or is done.
OldAt(c) ==
    /\ tcp[c].read => /\ ~tcp[c].reported /\ tcp[c].msg \in Reading
                      /\ \A k \in PostedKinds : ~For(k, c)
    /\ For("on_post_read_msg", c) =>
          ~tcp[c].reported /\ (tcp[c].msg = "none" => tcp[c].rc \in BadReads)
    /\ tcp[c].write => ~tcp[c].read /\ tcp[c].left # 0
    /\ For("write_complete_post_func", c) \/ tcp[c].reported =>
          tcp[c].left = 0 \/ oend[c] = "reset"
    /\ odead = "no" =>
          \/ tcp[c].state = "none"
          \/ tcp[c].read
          \/ tcp[c].write
          \/ \E k \in PostedKinds : For(k, c)
          \/ tcp[c].reported

OldInv ==
    /\ OldTypeOK
    /\ \A c \in OldConns : OldAt(c)
    /\ StopHasCause

\* The invariant is strong enough.
LEMMA OldInvAnswers == OldInv => OldServerAnswers
<1> SUFFICES ASSUME OldInv PROVE OldServerAnswers
  BY Zenon
<1>1. ConnectionNotForgotten
  <2> SUFFICES ASSUME odead = "no", NEW c \in OldConns
               PROVE  \/ tcp[c].state = "none"
                      \/ tcp[c].read \/ tcp[c].write
                      \/ \E i \in DOMAIN posted : posted[i][2] = c
                      \/ tcp[c].reported
    BY Zenon DEF ConnectionNotForgotten
  <2>1. ASSUME NEW k, For(k, c)
        PROVE  \E i \in DOMAIN posted : posted[i][2] = c
    <3>1. 1 \in DOMAIN posted /\ posted[1] = <<k, c>>
      BY <2>1 DEF For
    <3>2. posted[1][2] = c
      BY <3>1
    <3> QED BY <3>1, <3>2, Zenon
  <2>2. OldAt(c)
    BY Zenon DEF OldInv
  <2> QED BY <2>1, <2>2, Zenon DEF OldAt
<1>2. ReportedMeansWritten
  BY Zenon DEF OldInv, OldAt, ReportedMeansWritten
<1> QED BY <1>1, <1>2, Zenon DEF OldInv, OldServerAnswers

\* A connection that a step does not touch.
LEMMA OldUntouched ==
    ASSUME NEW d, OldAt(d), tcp'[d] = tcp[d], oend[d] = "reset" => oend'[d] = "reset",
           \A k \in PostedKinds : For(k, d)' <=> For(k, d), odead' = "no" => odead = "no"
    PROVE  OldAt(d)'
<1>1. /\ For("on_post_read_msg", d)' <=> For("on_post_read_msg", d)
      /\ For("write_complete_post_func", d)' <=> For("write_complete_post_func", d)
      /\ (\E k \in PostedKinds : For(k, d)') <=> (\E k \in PostedKinds : For(k, d))
      /\ (\A k \in PostedKinds : ~For(k, d)') <=> (\A k \in PostedKinds : ~For(k, d))
  BY Zenon DEF PostedKinds
<1> QED BY <1>1, ZenonT(30) DEF OldAt

\* One function is posted for one connection.
LEMMA ForOne ==
    ASSUME NEW k, NEW c, NEW l, NEW d
    PROVE  /\ For(k, c) /\ For(l, d) => k = l /\ c = d
           /\ For(k, c) => posted # << >>
<1> SUFFICES ASSUME For(k, c)
             PROVE  posted # << >> /\ (For(l, d) => k = l /\ c = d)
  BY Zenon
<1>1. Len(posted) = 1 /\ posted[1] = <<k, c>>
  BY Zenon DEF For
<1>2. ASSUME For(l, d) PROVE k = l /\ c = d
  <2>1. posted[1] = <<l, d>>
    BY <1>2 DEF For
  <2> QED BY <1>1, <2>1
<1> QED BY <1>1, <1>2

\* As long as no client has stopped the server there is nothing to explain.
LEMMA NotStoppedFine == odead \in NotStopped => StopHasCause
BY Zenon DEF NotStopped, StopHasCause

\* Nothing is accepted at first.
LEMMA OldStarts == OldInit => OldInv
<1> SUFFICES ASSUME OldInit PROVE OldInv
  BY Zenon
<1>1. /\ tcp = [c \in OldConns |-> NoTcp] /\ oroom = [c \in OldConns |-> OldRoom]
      /\ oend = [c \in OldConns |-> "open"] /\ posted = << >> /\ odead = "no"
  BY Zenon DEF OldInit
<1>2. OldTypeOK
  BY <1>1, OldServerAssumption, Zenon DEF OldTypeOK, NoTcp, TcpFields, Ends
<1>3. ASSUME NEW c \in OldConns PROVE OldAt(c)
  <2>1. \A k : ~For(k, c)
    BY <1>1, ForOne, Zenon
  <2>2. ~tcp[c].read /\ ~tcp[c].write /\ ~tcp[c].reported /\ tcp[c].state = "none"
    BY <1>1, Zenon DEF NoTcp
  <2> QED BY <2>1, <2>2, Zenon DEF OldAt
<1>4. StopHasCause
  BY <1>1, NotStoppedFine, Zenon DEF NotStopped
<1> QED BY <1>2, <1>3, <1>4, Zenon DEF OldInv

\* A step on one connection, from and to a run list that is empty or has a
\* function of this connection.
LEMMA OldChanged ==
    ASSUME OldInv, odead = "no", NEW c \in OldConns, NEW t, DOMAIN t = TcpFields, t.left \in Nat,
           tcp' = [tcp EXCEPT ![c] = t], oend' = oend, oroom' \in [OldConns -> Nat],
           posted = << >> \/ \E k \in PostedKinds : For(k, c),
           posted' = << >> \/ \E k \in PostedKinds : For(k, c)',
           OldAt(c)', StopHasCause'
    PROVE  OldInv'
<1>1. /\ tcp'[c] = t /\ \A d \in OldConns \ {c} : tcp'[d] = tcp[d]
      /\ tcp' = [d \in OldConns |-> tcp'[d]]
  BY Zenon DEF OldInv, OldTypeOK
<1>2. OldTypeOK'
  <2>1. \A d \in OldConns : DOMAIN tcp'[d] = TcpFields /\ tcp'[d].left \in Nat
    BY <1>1, Zenon DEF OldInv, OldTypeOK
  <2>2. posted' = << >> \/ \E k \in PostedKinds, d \in OldConns : For(k, d)'
    BY Zenon
  <2>3. oend' \in [OldConns -> Ends]
    BY Zenon DEF OldInv, OldTypeOK
  <2> QED BY <1>1, <2>1, <2>2, <2>3, Zenon DEF OldTypeOK
<1>3. ASSUME NEW d \in OldConns \ {c} PROVE OldAt(d)'
  <2>1. ASSUME NEW k PROVE ~For(k, d) /\ ~For(k, d)'
    <3>1. ~For(k, d)
      BY ForOne, Zenon
    <3>2. ASSUME For(k, d)' PROVE FALSE
      <4>1. posted'[1] = <<k, d>> /\ posted' # << >>
        BY <3>2, Zenon DEF For
      <4>2. PICK l : For(l, c)'
        BY <4>1, Zenon
      <4>3. posted'[1] = <<l, c>>
        BY <4>2, Zenon DEF For
      <4> QED BY <4>1, <4>3
    <3> QED BY <3>1, <3>2, Zenon
  <2>2. OldAt(d)
    BY Zenon DEF OldInv
  <2> QED BY <1>1, <2>1, <2>2, OldUntouched, Zenon
<1> QED BY <1>2, <1>3, Zenon DEF OldInv

\* A connection is accepted and watched.
LEMMA ListeningKeeps ==
    ASSUME OldInv, odead = "no", posted = << >>, NEW c \in OldConns, on_event_listening(c)
    PROVE  OldInv'
<1> DEFINE t == TcpConn_read_msg(TcpConn_new)
<1>1. /\ tcp' = [tcp EXCEPT ![c] = t] /\ UNCHANGED <<oend, oroom, posted, odead>>
  BY Zenon DEF on_event_listening
<1>2. /\ DOMAIN t = TcpFields /\ t.left = 0 /\ t.read = TRUE /\ t.write = FALSE /\ t.reported = FALSE
      /\ t.msg = "empty"
  BY Zenon DEF TcpConn_read_msg, TcpConn_prepare_read, TcpConn_new, NoTcp, TcpFields
<1> HIDE DEF t
<1>3. tcp'[c] = t /\ oroom' \in [OldConns -> Nat]
  BY <1>1, Zenon DEF OldInv, OldTypeOK
<1>4. \A k : ~For(k, c)'
  BY <1>1, ForOne, Zenon DEF For
<1>5. OldAt(c)'
  BY <1>1, <1>2, <1>3, <1>4, Zenon DEF OldAt, Reading
<1>6. StopHasCause'
  BY <1>1, Zenon DEF StopHasCause
<1>7. t.left \in Nat /\ posted' = << >> /\ oend' = oend
  BY <1>1, <1>2
<1> QED BY <1>1, <1>2, <1>3, <1>5, <1>6, <1>7, OldChanged, Zenon

\* What arrived is read: more is waited for, or the callback is posted.
LEMMA ReadKeeps ==
    ASSUME OldInv, odead = "no", posted = << >>, NEW c \in OldConns, read_msg_handler(c)
    PROVE  OldInv'
<1>1. PICK r \in TcpConn_read(c) :
      /\ tcp[c].read /\ tcp' = [tcp EXCEPT ![c] = [r EXCEPT !.read = r.rc = "XRD_EAGAIN"]]
      /\ UNCHANGED <<oend, oroom>>
      /\ posted' = IF r.rc \in {"XRD_EAGAIN"} \cup Stops THEN posted
                   ELSE Append(posted, <<"on_post_read_msg", c>>)
      /\ odead' = IF r.rc \in Stops THEN r.rc ELSE odead
  BY Zenon DEF read_msg_handler
<1> DEFINE armed == r.rc = "XRD_EAGAIN"
           t == [r EXCEPT !.read = armed]
<1>2. /\ DOMAIN tcp[c] = TcpFields /\ tcp[c].left \in Nat /\ tcp[c].msg \in Reading
      /\ oend[c] \in Ends
  BY <1>1, Zenon DEF OldInv, OldTypeOK, OldAt
<1>3. /\ DOMAIN r = TcpFields
      /\ r.left = tcp[c].left
      /\ r.reported = tcp[c].reported
      /\ r.write = tcp[c].write
      /\ \/ r.rc = "XRD_EOM" /\ r.msg = "done"
         \/ r.rc \in BadReads
         \/ r.rc = "XRD_EAGAIN" /\ r.msg \in Reading
         \/ r.rc = "spin" /\ r.msg = "blank" /\ oend[c] \in {"eof", "pipe"}
         \/ r.rc = "consume" /\ r.msg = "started" /\ oend[c] \in {"eof", "pipe"}
  BY <1>2, ReadResult, Zenon
<1>4. /\ DOMAIN t = TcpFields
      /\ t.left = tcp[c].left
      /\ t.reported = tcp[c].reported
      /\ t.write = tcp[c].write
      /\ t.read = armed
      /\ t.rc = r.rc
      /\ t.msg = r.msg
  <2> HIDE DEF armed
  <2> QED BY <1>3, Zenon DEF TcpFields
<1>0. tcp' = [tcp EXCEPT ![c] = t]
  BY <1>1, Zenon
<1> HIDE DEF t
<1>5. tcp'[c] = t /\ oroom' \in [OldConns -> Nat]
  BY <1>0, <1>1, Zenon DEF OldInv, OldTypeOK
<1>6. ~tcp[c].reported /\ ~tcp[c].write
  BY <1>1, Zenon DEF OldInv, OldAt
<1>7. \/ armed /\ posted' = << >> /\ odead' = "no" /\ t.msg \in Reading
      \/ /\ ~armed /\ posted' = << >> /\ oend[c] \in {"eof", "pipe"}
         /\ \/ odead' = "spin" /\ t.msg = "blank"
            \/ odead' = "consume" /\ t.msg = "started"
      \/ /\ ~armed /\ For("on_post_read_msg", c)' /\ odead' = "no"
         /\ t.msg = "none" => t.rc \in BadReads
  <2>1. Append(<< >>, <<"on_post_read_msg", c>>) = << <<"on_post_read_msg", c>> >>
    OBVIOUS
  <2>2. r.rc \in Stops <=> r.rc = "spin" \/ r.rc = "consume"
    BY Zenon DEF Stops
  <2>3. r.rc \in {"XRD_EAGAIN"} \cup Stops <=> armed \/ r.rc = "spin" \/ r.rc = "consume"
    BY <2>2, Zenon
  <2>4. CASE (r.rc = "XRD_EOM" /\ r.msg = "done") \/ r.rc \in BadReads
    <3>1. ~armed /\ r.rc # "spin" /\ r.rc # "consume"
      BY <2>4, Zenon DEF BadReads
    <3> HIDE DEF armed
    <3>2. posted' = Append(posted, <<"on_post_read_msg", c>>) /\ odead' = "no"
      BY <1>1, <2>2, <2>3, <3>1, Zenon
    <3> QED BY <1>4, <2>1, <2>4, <3>1, <3>2, Zenon DEF For
  <2>5. CASE r.rc = "XRD_EAGAIN" /\ r.msg \in Reading
    BY <1>1, <1>4, <2>2, <2>3, <2>5, Zenon
  <2>6. CASE r.rc = "spin" /\ r.msg = "blank" /\ oend[c] \in {"eof", "pipe"}
    BY <1>1, <1>4, <2>2, <2>3, <2>6, Zenon
  <2>7. CASE r.rc = "consume" /\ r.msg = "started" /\ oend[c] \in {"eof", "pipe"}
    BY <1>1, <1>4, <2>2, <2>3, <2>7, Zenon
  <2> QED BY <1>3, <2>4, <2>5, <2>6, <2>7, Zenon
<1>8. OldAt(c)'
  <2>1. ~tcp'[c].write /\ ~tcp'[c].reported /\ (tcp'[c].read <=> armed)
    BY <1>4, <1>5, <1>6, Zenon
  <2>2. CASE posted' = << >>
    <3>1. \A k : ~For(k, c)'
      BY <2>2, Zenon DEF For
    <3>2. /\ armed => odead' = "no" /\ tcp'[c].msg \in Reading
          /\ ~armed => odead' # "no"
      BY <1>5, <1>7, <3>1, Zenon
    <3> QED BY <2>1, <3>1, <3>2, Zenon DEF OldAt
  <2>3. CASE /\ ~armed /\ For("on_post_read_msg", c)' /\ odead' = "no"
             /\ t.msg = "none" => t.rc \in BadReads
    <3>1. ~For("write_complete_post_func", c)'
      BY <2>3, Zenon DEF For
    <3> QED BY <1>5, <2>1, <2>3, <3>1, Zenon DEF OldAt, PostedKinds
  <2> QED BY <1>7, <2>2, <2>3, Zenon
<1>9. StopHasCause'
  <2>1. CASE odead' = "no"
    BY <2>1, Zenon DEF StopHasCause
  <2>2. CASE odead' = "spin" /\ t.msg = "blank" /\ oend[c] \in {"eof", "pipe"}
    BY <1>1, <1>5, <2>2, Zenon DEF StopHasCause
  <2>3. CASE odead' = "consume" /\ t.msg = "started" /\ oend[c] \in {"eof", "pipe"}
    BY <1>1, <1>5, <2>3, Zenon DEF StopHasCause
  <2> QED BY <1>7, <2>1, <2>2, <2>3, Zenon
<1>10. posted' = << >> \/ \E k \in PostedKinds : For(k, c)'
  BY <1>7, Zenon DEF PostedKinds
<1>11. t.left \in Nat
  BY <1>2, <1>4, Zenon
<1> QED BY <1>0, <1>1, <1>4, <1>5, <1>8, <1>9, <1>10, <1>11, OldChanged, Zenon

\* A posted function runs.
LEMMA PostedKeeps ==
    ASSUME OldInv, odead = "no", RunPosted
    PROVE  OldInv'
<1>1. PICK k \in PostedKinds, c \in OldConns : For(k, c)
  BY Zenon DEF OldInv, OldTypeOK, RunPosted
<1>2. Head(posted) = <<k, c>> /\ Tail(posted) = << >>
  BY <1>1 DEF For
<1>3. Head(posted)[1] = k /\ Head(posted)[2] = c
  BY <1>2
<1>4. /\ posted' = << >> /\ UNCHANGED <<oend, oroom>>
      /\ IF k = "on_post_read_msg" THEN on_message(c) ELSE write_complete_post_func(c)
  BY <1>2, <1>3, Zenon DEF RunPosted
<1>5. \A l, d : ~For(l, d)'
  BY <1>4, Zenon DEF For
<1>6. DOMAIN tcp[c] = TcpFields /\ tcp[c].left \in Nat /\ OldAt(c) /\ ~tcp[c].read
  BY <1>1, Zenon DEF OldInv, OldTypeOK, OldAt
<1>7. oroom' \in [OldConns -> Nat]
  BY <1>4, Zenon DEF OldInv, OldTypeOK
<1>8. CASE k = "on_post_read_msg" /\ tcp[c].msg = "none"
  <2>1. odead' = "null message" /\ tcp' = tcp
    BY <1>4, <1>8, Zenon DEF on_message
  <2>2. tcp[c].rc \in BadReads
    BY <1>1, <1>6, <1>8, Zenon DEF OldAt
  <2>3. tcp' = [tcp EXCEPT ![c] = tcp[c]]
    BY <2>1, Zenon DEF OldInv, OldTypeOK
  <2>4. OldAt(c)'
    BY <1>1, <1>4, <1>5, <1>6, <1>8, <2>1, Zenon DEF OldAt
  <2>5. StopHasCause'
    BY <2>1, <2>2, Zenon DEF StopHasCause, BadReads
  <2> QED BY <1>1, <1>4, <1>6, <1>7, <2>3, <2>4, <2>5, OldChanged, Zenon
<1>9. CASE k = "on_post_read_msg" /\ tcp[c].msg # "none"
  <2> DEFINE t == XrHandler_function(tcp[c])
  <2>1. odead' = "no" /\ tcp' = [tcp EXCEPT ![c] = t]
    BY <1>4, <1>9, Zenon DEF on_message
  <2>2. /\ DOMAIN t = TcpFields /\ t.left = ResponseLen /\ t.write = TRUE
        /\ t.read = tcp[c].read /\ t.reported = tcp[c].reported
    BY <1>6, Zenon DEF XrHandler_function, XrSimpleHandler, TcpConn_write, TcpFields
  <2> HIDE DEF t
  <2>3. ~tcp[c].reported /\ t.left \in Nat /\ t.left # 0
    BY <1>1, <1>6, <1>9, <2>2, OldServerAssumption, Zenon DEF OldAt
  <2>4. tcp'[c] = t
    BY <2>1, Zenon DEF OldInv, OldTypeOK
  <2>5. OldAt(c)'
    BY <1>5, <1>6, <2>2, <2>3, <2>4, Zenon DEF OldAt
  <2>6. StopHasCause'
    BY <2>1, Zenon DEF StopHasCause
  <2> QED BY <1>1, <1>4, <1>7, <2>1, <2>2, <2>3, <2>5, <2>6, OldChanged, Zenon
<1>10. CASE k # "on_post_read_msg"
  <2> DEFINE t == [tcp[c] EXCEPT !.reported = TRUE]
  <2>1. odead' = odead /\ tcp' = [tcp EXCEPT ![c] = t]
    BY <1>4, <1>10, Zenon DEF write_complete_post_func
  <2>2. /\ DOMAIN t = TcpFields /\ t.left = tcp[c].left /\ t.write = tcp[c].write
        /\ t.read = tcp[c].read /\ t.reported = TRUE
    BY <1>6, Zenon DEF TcpFields
  <2> HIDE DEF t
  <2>3. For("write_complete_post_func", c)
    BY <1>1, <1>10, Zenon DEF PostedKinds
  <2>4. tcp'[c] = t /\ oend' = oend /\ t.left \in Nat
    BY <1>4, <1>6, <2>1, <2>2, Zenon DEF OldInv, OldTypeOK
  <2>5. t.left = 0 \/ oend'[c] = "reset"
    BY <1>6, <2>2, <2>3, <2>4, Zenon DEF OldAt
  <2>6. OldAt(c)'
    BY <1>5, <1>6, <2>2, <2>4, <2>5, Zenon DEF OldAt
  <2>7. StopHasCause'
    BY <2>1, Zenon DEF StopHasCause
  <2> QED BY <1>1, <1>4, <1>7, <2>1, <2>2, <2>4, <2>6, <2>7, OldChanged, Zenon
<1> QED BY <1>8, <1>9, <1>10, Zenon

\* The kernel takes the rest of the response, a part of it, or refuses it.
LEMMA WriteKeeps ==
    ASSUME OldInv, odead = "no", posted = << >>, NEW c \in OldConns, write_machine(c)
    PROVE  OldInv'
<1> DEFINE WriteDone == For("write_complete_post_func", c)
<1>1. DOMAIN tcp[c] = TcpFields /\ tcp[c].left \in Nat /\ OldAt(c) /\ oroom[c] \in Nat
      /\ tcp[c].write /\ ~tcp[c].read /\ UNCHANGED <<oend, odead>>
  BY Zenon DEF OldInv, OldTypeOK, OldAt, write_machine
<1>2. Append(posted, <<"write_complete_post_func", c>>) = << <<"write_complete_post_func", c>> >>
  OBVIOUS
<1>3. StopHasCause'
  BY <1>1, Zenon DEF StopHasCause
<1>4. ASSUME NEW t, DOMAIN t = TcpFields, t.left \in Nat, t.read = tcp[c].read,
             t.reported = tcp[c].reported, tcp' = [tcp EXCEPT ![c] = t],
             oroom' \in [OldConns -> Nat],
             tcp[c].left = 0 => t.left = 0,
             \/ WriteDone' /\ t.write = FALSE /\ (t.left = 0 \/ oend[c] = "reset")
             \/ posted' = << >> /\ t.write = TRUE /\ t.left # 0
      PROVE  OldInv'
  <2>1. tcp'[c] = t
    BY <1>4, Zenon DEF OldInv, OldTypeOK
  <2>2. ~For("on_post_read_msg", c)'
    <3> SUFFICES ASSUME For("on_post_read_msg", c)' PROVE FALSE
      BY Zenon
    <3>1. posted' # << >> /\ posted'[1] = <<"on_post_read_msg", c>>
      BY Zenon DEF For
    <3>2. posted'[1] = <<"write_complete_post_func", c>>
      BY <1>4, <3>1, Zenon DEF For
    <3> QED BY <3>1, <3>2
  <2>3. posted' = << >> \/ \E k \in PostedKinds : For(k, c)'
    BY <1>4, Zenon DEF PostedKinds
  <2>4. CASE WriteDone' /\ t.write = FALSE /\ (t.left = 0 \/ oend[c] = "reset")
    <3>1. OldAt(c)'
      BY <1>1, <1>4, <2>1, <2>2, <2>4, Zenon DEF OldAt, PostedKinds
    <3> QED BY <1>1, <1>3, <1>4, <2>3, <3>1, OldChanged, Zenon
  <2>5. CASE posted' = << >> /\ t.write = TRUE /\ t.left # 0
    <3>1. \A k : ~For(k, c)'
      BY <2>5, Zenon DEF For
    <3>2. OldAt(c)'
      BY <1>1, <1>4, <2>1, <2>5, <3>1, Zenon DEF OldAt
    <3> QED BY <1>1, <1>3, <1>4, <2>3, <3>2, OldChanged, Zenon
  <2> QED BY <1>4, <2>4, <2>5, Zenon
<1>5. CASE oend[c] = "reset"
  <2> DEFINE t == [tcp[c] EXCEPT !.write = FALSE]
  <2>1. /\ tcp' = [tcp EXCEPT ![c] = t] /\ WriteDone' /\ oroom' = oroom
    BY <1>2, <1>5, Zenon DEF write_machine, For
  <2>2. /\ DOMAIN t = TcpFields /\ t.left = tcp[c].left /\ t.read = tcp[c].read
        /\ t.reported = tcp[c].reported /\ t.write = FALSE
    BY <1>1, Zenon DEF TcpFields
  <2> HIDE DEF t
  <2>3. oroom' \in [OldConns -> Nat]
    BY <2>1, Zenon DEF OldInv, OldTypeOK
  <2> HIDE DEF WriteDone
  <2> QED BY <1>1, <1>4, <1>5, <2>1, <2>2, <2>3, Zenon
<1>6. CASE oend[c] # "reset"
  <2> DEFINE n == IF tcp[c].left < oroom[c] THEN tcp[c].left ELSE oroom[c]
             done == n = tcp[c].left
             more == ~done
             rest == tcp[c].left - n
             t == [tcp[c] EXCEPT !.left = rest, !.write = more]
  <2>1. /\ tcp' = [tcp EXCEPT ![c] = t] /\ oroom' = [oroom EXCEPT ![c] = oroom[c] - n]
        /\ posted' = IF done THEN Append(posted, <<"write_complete_post_func", c>>) ELSE posted
    BY <1>1, <1>6, Zenon DEF write_machine, TcpFields, OldInv, OldTypeOK
  <2>2. /\ n \in Nat /\ rest \in Nat /\ oroom[c] - n \in Nat
        /\ tcp[c].left = 0 => rest = 0
        /\ done <=> rest = 0
    BY <1>1
  <2> HIDE DEF n, rest, more
  <2>3. /\ DOMAIN t = TcpFields /\ t.left = rest /\ t.read = tcp[c].read
        /\ t.reported = tcp[c].reported /\ t.write = more
    BY <1>1, Zenon DEF TcpFields
  <2> HIDE DEF t
  <2>4. oroom' \in [OldConns -> Nat]
    BY <2>1, <2>2, Zenon DEF OldInv, OldTypeOK
  <2>5. \/ WriteDone' /\ t.write = FALSE /\ t.left = 0
        \/ posted' = << >> /\ t.write = TRUE /\ t.left # 0
    BY <1>2, <2>1, <2>2, <2>3, Zenon DEF For, more
  <2> HIDE DEF WriteDone
  <2> QED BY <1>4, <2>1, <2>2, <2>3, <2>4, <2>5, Zenon
<1> QED BY <1>5, <1>6, Zenon

\* The kernel ends the process in the middle of a response.
LEMMA SigpipeKeeps ==
    ASSUME OldInv, odead = "no", NEW c \in OldConns, write_machine_sigpipe(c)
    PROVE  OldInv'
<1>1. /\ UNCHANGED <<tcp, oend, oroom, posted>> /\ odead' = "SIGPIPE"
      /\ oend[c] = "pipe" /\ tcp[c].left # 0
  BY Zenon DEF write_machine_sigpipe, OldInv, OldAt
<1>2. OldTypeOK'
  BY <1>1, Zenon DEF OldInv, OldTypeOK, For
<1>3. ASSUME NEW d \in OldConns PROVE OldAt(d)'
  <2>1. \A k \in PostedKinds : For(k, d)' <=> For(k, d)
    BY <1>1, Zenon DEF For
  <2>2. OldAt(d)
    BY Zenon DEF OldInv
  <2> QED BY <1>1, <2>1, <2>2, OldUntouched, Zenon
<1>4. StopHasCause'
  BY <1>1, Zenon DEF StopHasCause
<1> QED BY <1>2, <1>3, <1>4, Zenon DEF OldInv

\* Steps that touch no connection of the server.
LEMMA OldRestKeeps ==
    ASSUME OldInv, odead = "no", UNCHANGED <<tcp, posted>>, oroom' \in [OldConns -> Nat],
           oend' \in [OldConns -> Ends],
           \A c \in OldConns : oend[c] = "reset" => oend'[c] = "reset",
           odead' \in NotStopped
    PROVE  OldInv'
<1>1. OldTypeOK'
  BY Zenon DEF OldInv, OldTypeOK, For
<1>2. ASSUME NEW c \in OldConns PROVE OldAt(c)'
  <2>1. \A k \in PostedKinds : For(k, c)' <=> For(k, c)
    BY Zenon DEF For
  <2>2. OldAt(c)
    BY Zenon DEF OldInv
  <2> QED BY <2>1, <2>2, OldUntouched, Zenon
<1>3. StopHasCause'
  BY Zenon DEF NotStopped, StopHasCause
<1> QED BY <1>1, <1>2, <1>3, Zenon DEF OldInv

\* Each step keeps the invariant.
LEMMA OldSteps == OldInv /\ [OldNext]_oldVars => OldInv'
<1> SUFFICES ASSUME OldInv, [OldNext]_oldVars
             PROVE  OldInv'
  BY Zenon
<1>1. /\ oroom \in [OldConns -> Nat]
      /\ oend \in [OldConns -> Ends]
  BY Zenon DEF OldInv, OldTypeOK
<1>2. CASE OldNext /\ OldLoop
  BY <1>2, PostedKeeps, ListeningKeeps, ReadKeeps, WriteKeeps, SigpipeKeeps, Zenon
     DEF OldNext, OldLoop
<1>3. CASE OldNext /\ (AsyncServer_listen \/ AcceptFails)
  <2>1. UNCHANGED <<tcp, posted, oroom, oend>> /\ odead = "no" /\ odead' \in NotStopped
    BY <1>3, Zenon DEF OldNext, AsyncServer_listen, AcceptFails, NotStopped
  <2> QED BY <1>1, <2>1, OldRestKeeps, Zenon
<1>4. ASSUME OldNext, NEW c \in OldConns, OldClient(c) \/ OldClientReads(c)
      PROVE  OldInv'
  <2>1. /\ UNCHANGED <<tcp, posted, odead>> /\ odead = "no" /\ odead' \in NotStopped
        /\ \/ oroom' = oroom
           \/ oroom' = [oroom EXCEPT ![c] = oroom[c] + 1]
        /\ \/ oend' = oend
           \/ oend[c] # "reset" /\ \E e \in Ends : oend' = [oend EXCEPT ![c] = e]
    BY <1>4, <1>1, Zenon DEF OldNext, OldClient, OldClientReads, NotStopped, Ends
  <2>2. oroom' \in [OldConns -> Nat]
    BY <1>1, <2>1
  <2>3. /\ oend' \in [OldConns -> Ends]
        /\ \A d \in OldConns : oend[d] = "reset" => oend'[d] = "reset"
    BY <1>1, <2>1, Zenon
  <2> QED BY <2>1, <2>2, <2>3, OldRestKeeps, Zenon
<1>5. CASE UNCHANGED oldVars
  <2>1. OldTypeOK'
    BY <1>5, Zenon DEF oldVars, OldInv, OldTypeOK, For
  <2>2. ASSUME NEW c \in OldConns PROVE OldAt(c)'
    BY <1>5, Zenon DEF oldVars, OldInv, OldAt, For
  <2> QED BY <1>5, <2>1, <2>2, Zenon DEF oldVars, OldInv, StopHasCause
<1> QED BY <1>2, <1>3, <1>4, <1>5, Zenon DEF OldNext

\* For any number of connections, any requests, response length and send buffer:
\* the server of async-old forgets no accepted connection, reports a response as
\* written only when all of it was handed to the kernel or the client has reset,
\* is never to write an empty buffer, and once it listens stops only by one of
\* the causes of StopHasCause or a failed accept.
THEOREM OldServerForgetsNone == OldSpec => []OldServerAnswers
BY OldStarts, OldSteps, OldInvAnswers, PTL DEF OldSpec

-----------------------------------------------------------------------------
(* OldConnection: the run list *)

\* f is an element of s.
Holds(s, f) == \E i \in DOMAIN s : s[i] = f

\* What is not the head of a list is left when the head is taken off.
LEMMA TailHolds ==
    ASSUME NEW S, NEW s \in Seq(S), s # << >>, NEW f, Holds(s, f), Head(s) # f
    PROVE  Holds(Tail(s), f)
<1>1. PICK i \in DOMAIN s : s[i] = f
  BY Zenon DEF Holds
<1>2. Len(s) \in Nat /\ Len(s) > 0 /\ Head(s) = s[1] /\ Tail(s) \in Seq(S)
      /\ Len(Tail(s)) = Len(s) - 1 /\ i \in 1..Len(s)
      /\ \A k \in 1..Len(Tail(s)) : Tail(s)[k] = s[k + 1]
  <2>1. /\ Tail(s) \in Seq(S) /\ Len(Tail(s)) = Len(s) - 1
        /\ \A k \in 1..Len(Tail(s)) : Tail(s)[k] = s[k + 1]
    BY HeadTailProperties, Zenon
  <2>2. Len(s) \in Nat /\ i \in 1..Len(s)
    BY <1>1, LenProperties, Zenon
  <2>3. Len(s) > 0
    BY <2>2
  <2>4. Head(s) = s[1]
    OBVIOUS
  <2> QED BY <2>1, <2>2, <2>3, <2>4, Zenon
<1>3. i - 1 \in 1..Len(Tail(s)) /\ Tail(s)[i - 1] = f
  BY <1>1, <1>2
<1> QED BY <1>2, <1>3, LenProperties, Zenon DEF Holds

\* A list that grows holds what it held, and what was added.
LEMMA AppendHolds ==
    ASSUME NEW S, NEW s \in Seq(S), NEW g \in S, NEW f, Holds(s, f) \/ f = g
    PROVE  Holds(Append(s, g), f)
<1>1. Append(s, g) \in Seq(S) /\ Len(Append(s, g)) = Len(s) + 1 /\ Len(s) \in Nat
      /\ (\A k \in 1..Len(s) : Append(s, g)[k] = s[k]) /\ Append(s, g)[Len(s) + 1] = g
      /\ DOMAIN s = 1..Len(s) /\ DOMAIN Append(s, g) = 1..(Len(s) + 1)
  <2>1. /\ Append(s, g) \in Seq(S) /\ Len(Append(s, g)) = Len(s) + 1
        /\ \A k \in 1..Len(s) : Append(s, g)[k] = s[k]
        /\ Append(s, g)[Len(s) + 1] = g
    BY AppendProperties, SMTT(30)
  <2>2. Len(s) \in Nat /\ DOMAIN s = 1..Len(s)
        /\ DOMAIN Append(s, g) = 1..Len(Append(s, g))
    BY <2>1, LenProperties, Zenon
  <2> QED BY <2>1, <2>2, Zenon
<1>2. CASE Holds(s, f)
  BY <1>1, <1>2 DEF Holds
<1>3. CASE f = g
  <2>1. Len(s) + 1 \in 1..(Len(s) + 1)
    BY <1>1
  <2> QED BY <1>1, <1>3, <2>1, Zenon DEF Holds
<1> QED BY <1>2, <1>3, Zenon

\* So does a list that is continued by another one.
LEMMA ConcatHolds ==
    ASSUME NEW S, NEW s \in Seq(S), NEW t \in Seq(S), NEW f, Holds(s, f) \/ Holds(t, f)
    PROVE  Holds(s \o t, f)
<1>1. s \o t \in Seq(S) /\ Len(s \o t) = Len(s) + Len(t) /\ Len(s) \in Nat /\ Len(t) \in Nat
      /\ (\A k \in 1..(Len(s) + Len(t)) :
              (s \o t)[k] = IF k <= Len(s) THEN s[k] ELSE t[k - Len(s)])
      /\ DOMAIN s = 1..Len(s) /\ DOMAIN t = 1..Len(t) /\ DOMAIN (s \o t) = 1..(Len(s) + Len(t))
  <2>1. /\ s \o t \in Seq(S) /\ Len(s \o t) = Len(s) + Len(t)
        /\ \A k \in 1..(Len(s) + Len(t)) :
              (s \o t)[k] = IF k <= Len(s) THEN s[k] ELSE t[k - Len(s)]
    BY ConcatProperties, Zenon
  <2>2. /\ Len(s) \in Nat /\ Len(t) \in Nat /\ DOMAIN s = 1..Len(s) /\ DOMAIN t = 1..Len(t)
        /\ DOMAIN (s \o t) = 1..Len(s \o t)
    BY <2>1, LenProperties, Zenon
  <2> QED BY <2>1, <2>2, Zenon
<1>2. CASE Holds(s, f)
  BY <1>1, <1>2 DEF Holds
<1>3. CASE Holds(t, f)
  <2>1. PICK i \in 1..Len(t) : t[i] = f
    BY <1>1, <1>3, Zenon DEF Holds
  <2>2. Len(s) + i \in 1..(Len(s) + Len(t)) /\ (s \o t)[Len(s) + i] = f
    BY <1>1, <2>1
  <2> QED BY <1>1, <2>2, Zenon DEF Holds
<1> QED BY <1>2, <1>3, Zenon

-----------------------------------------------------------------------------
(* OldConnection: the inductive invariant *)

Postable == {"reader", "writer", "write_call_cb", "cleanup"}

Inputs == {"req", "bad"}

OldConnTypeOK ==
    /\ csend \in Seq(Inputs)
    /\ unread_in \in Seq(Inputs) /\ Len(unread_in) <= InRoom
    /\ edges \subseteq {"in", "out"}
    /\ read_state \in {"IDLE", "ACTIVE", "EAGAINED", "STOP"}
    /\ write_state \in {"IDLE", "ACTIVE", "EAGAINED", "STOP"}
    /\ run_list \in Seq(Postable)
    /\ cleanups \in Nat

\* What makes the assertion of postable_writer fail later on.
NotIdleAfterShortSend == write_state \in {"ACTIVE", "EAGAINED"} => short_send

OldConnInv ==
    /\ OldConnTypeOK
    /\ NotIdleAfterShortSend
    /\ OldConnectionGoesOn

\* The reader is posted by async_connection_init.
LEMMA OldConnStarts == OldConnectionInit => OldConnInv
<1> SUFFICES ASSUME OldConnectionInit PROVE OldConnInv
  BY Zenon
<1> USE DEF OldConnectionInit
<1>1. OldConnTypeOK
  BY OldConnectionAssumption DEF OldConnTypeOK, Postable, Inputs
<1>2. ReadingNotLost
  <2>1. run_list = <<"reader">>
    BY Zenon
  <2>2. 1 \in DOMAIN run_list /\ run_list[1] = "reader"
    BY <2>1
  <2> QED BY <2>2, Zenon DEF ReadingNotLost, Posted
<1>3. NotIdleAfterShortSend /\ WriterEndsOnlyAfter /\ CleanUpOncePerSide
  BY DEF NotIdleAfterShortSend, WriterEndsOnlyAfter, CleanUpOncePerSide
<1> QED BY <1>1, <1>2, <1>3, Zenon DEF OldConnInv, OldConnectionGoesOn

\* The three ways a pass of the reader ends.
LEMMA ReaderEnds ==
    ASSUME NEW rest \in Seq(Postable), cleanups \in Nat,
           read_eagain(rest) \/ read_need_data(rest) \/ read_error(rest)
    PROVE  /\ run_list' \in Seq(Postable)
           /\ cleanups' \in Nat
           /\ \/ read_state' = "EAGAINED" /\ cleanups' = cleanups
              \/ read_state' = "IDLE" /\ cleanups' = cleanups /\ Holds(run_list', "reader")
              \/ read_state' = "STOP" /\ cleanups' = cleanups + 1
<1>1. "reader" \in Postable /\ "cleanup" \in Postable
  BY Zenon DEF Postable
<1>2. CASE read_eagain(rest)
  BY <1>2, Zenon DEF read_eagain
<1>3. CASE read_need_data(rest)
  <2>1. run_list' = Append(rest, "reader") /\ read_state' = "IDLE" /\ cleanups' = cleanups
    BY <1>3, Zenon DEF read_need_data
  <2>2. Append(rest, "reader") \in Seq(Postable)
    BY <1>1
  <2>3. Holds(Append(rest, "reader"), "reader")
    BY <1>1, AppendHolds, Zenon
  <2> QED BY <2>1, <2>2, <2>3, Zenon
<1>4. CASE read_error(rest)
  BY <1>1, <1>4 DEF read_error
<1> QED BY <1>2, <1>3, <1>4, Zenon

\* A step that runs no reader and takes no edge loses no input.
LEMMA ReadingKept ==
    ASSUME OldConnInv, cdead = "no", ~freed_conn,
           Holds(run_list, "reader") => Holds(run_list', "reader"),
           read_state' = read_state, unread_in' = unread_in, edges' = edges,
           cend' = cend, parked' = parked
    PROVE  ReadingNotLost'
BY Zenon DEF OldConnInv, OldConnectionGoesOn, ReadingNotLost, Posted, Holds

\* What recv leaves: input only when there was more than the buffer takes.
LEMMA RecvLeaves ==
    ASSUME OldConnTypeOK
    PROVE  LET left == SubSeq(unread_in, Len(Taken) + 1, Len(unread_in))
           IN  /\ left \in Seq(Inputs) /\ Len(left) <= InRoom
               /\ InRoom <= ReadBufferSize => left = << >>
<1> DEFINE left == SubSeq(unread_in, Len(Taken) + 1, Len(unread_in))
<1>1. /\ unread_in \in Seq(Inputs) /\ Len(unread_in) \in Nat /\ Len(unread_in) <= InRoom
      /\ InRoom \in Nat /\ ReadBufferSize \in Nat
  BY OldConnectionAssumption, LenProperties DEF OldConnTypeOK
<1>2. CASE Len(unread_in) <= ReadBufferSize
  <2>1. Taken = unread_in
    BY <1>2, Zenon DEF Taken
  <2>2. left = << >>
    BY <1>1, <2>1
  <2> QED BY <1>1, <2>2
<1>3. CASE ~(Len(unread_in) <= ReadBufferSize)
  <2>1. Taken = SubSeq(unread_in, 1, ReadBufferSize)
    BY <1>3, Zenon DEF Taken
  <2>2. Len(Taken) = ReadBufferSize
    BY <1>1, <1>3, <2>1
  <2>3. left \in Seq(Inputs) /\ Len(left) = Len(unread_in) - ReadBufferSize
    BY <1>1, <1>3, <2>2
  <2>4. ~(InRoom <= ReadBufferSize) /\ Len(left) <= InRoom
    BY <1>1, <1>3, <2>3
  <2> QED BY <2>3, <2>4, Zenon
<1> QED BY <1>2, <1>3, Zenon

\* recv, with input or without.
LEMMA ReaderRuns ==
    ASSUME OldConnInv, cdead = "no", run_list # << >>, ~freed_conn, Head(run_list) = "reader",
           postable_reader,
           UNCHANGED <<out_room, write_state, short_send, freed_conn, cdead, clientVars, edges>>
    PROVE  OldConnInv'
<1>1. run_list \in Seq(Postable) /\ Tail(run_list) \in Seq(Postable) /\ cleanups \in Nat
      /\ "writer" \in Postable
  BY HeadTailProperties, Zenon DEF OldConnInv, OldConnTypeOK, Postable
<1>2. UNCHANGED <<write_state, short_send, cdead, edges, freed_conn, csend, cend>>
  BY Zenon DEF clientVars
<1>3. CASE read_state = "STOP"
  <2>1. /\ run_list' = Tail(run_list) /\ UNCHANGED <<read_state, cleanups, unread_in>>
    BY <1>3, Zenon DEF postable_reader, readVars
  <2>2. OldConnTypeOK'
    BY <1>1, <1>2, <2>1, Zenon DEF OldConnInv, OldConnTypeOK
  <2> QED BY <1>2, <1>3, <2>1, <2>2
          DEF OldConnInv, OldConnectionGoesOn, ReadingNotLost, NotIdleAfterShortSend,
              WriterEndsOnlyAfter, CleanUpOncePerSide
<1>4. CASE read_state # "STOP"
  <2> DEFINE left == SubSeq(unread_in, Len(Taken) + 1, Len(unread_in))
  <2>1. /\ unread_in' = left \/ unread_in' = unread_in
        /\ \E rest \in Seq(Postable) :
             \/ read_eagain(rest) /\ parked' /\ unread_in' = left
             \/ read_eagain(rest) /\ unread_in' = << >> /\ cend = "open"
             \/ read_need_data(rest)
             \/ read_error(rest)
    <3>1. reader
      BY <1>4, Zenon DEF postable_reader
    <3>2. << >> \in Seq(Postable) /\ <<"writer">> \in Seq(Postable)
      BY <1>1
    <3>3. Tail(run_list) \o << >> \in Seq(Postable) /\ Tail(run_list) \o <<"writer">> \in Seq(Postable)
      BY <1>1, <3>2, ConcatProperties, Zenon
    <3>4. Tail(run_list) \in Seq(Postable)
      BY <1>1, Zenon
    <3> HIDE DEF left
    <3>5. CASE unread_in # << >>
      <4>1. PICK writes \in {<< >>, <<"writer">>} :
              /\ \/ read_eagain(Tail(run_list) \o writes) /\ parked' = TRUE
                 \/ read_need_data(Tail(run_list) \o writes)
                 \/ read_error(Tail(run_list) \o writes)
              /\ unread_in' = left
        BY <3>1, <3>5, ZenonT(30) DEF reader, left
      <4>2. Tail(run_list) \o writes \in Seq(Postable)
        BY <3>3, Zenon
      <4> QED BY <4>1, <4>2, Zenon
    <3>6. CASE unread_in = << >>
      <4>1. /\ unread_in' = unread_in
            /\ \/ read_eagain(Tail(run_list)) /\ cend = "open"
               \/ read_error(Tail(run_list))
        BY <3>1, <3>6, Zenon DEF reader
      <4> QED BY <3>4, <3>6, <4>1, Zenon
    <3> QED BY <3>5, <3>6, Zenon
  <2>2. /\ run_list' \in Seq(Postable)
        /\ cleanups' \in Nat
        /\ \/ read_state' = "EAGAINED" /\ cleanups' = cleanups
           \/ read_state' = "IDLE" /\ cleanups' = cleanups /\ Holds(run_list', "reader")
           \/ read_state' = "STOP" /\ cleanups' = cleanups + 1
    BY <1>1, <2>1, ReaderEnds, Zenon
  <2>6. /\ left \in Seq(Inputs) /\ Len(left) <= InRoom
        /\ InRoom <= ReadBufferSize => left = << >>
    BY RecvLeaves, Zenon DEF OldConnInv
  <2> HIDE DEF left
  <2>3. OldConnTypeOK'
    BY <1>2, <2>1, <2>2, <2>6, Zenon DEF OldConnInv, OldConnTypeOK
  <2>4. ReadingNotLost'
    <3>1. read_state' = "EAGAINED" =>
             \/ unread_in' = << >> /\ cend = "open"
             \/ parked' /\ unread_in' = left
      BY <2>1, Zenon DEF read_eagain, read_need_data, read_error
    <3> QED BY <1>2, <2>2, <2>6, <3>1, Zenon DEF ReadingNotLost, Posted, Holds
  <2>5. CleanUpOncePerSide'
    BY <1>1, <1>2, <1>4, <2>2 DEF OldConnInv, OldConnectionGoesOn, CleanUpOncePerSide
  <2> QED BY <1>2, <2>3, <2>4, <2>5
          DEF OldConnInv, OldConnectionGoesOn, NotIdleAfterShortSend, WriterEndsOnlyAfter
<1> QED BY <1>3, <1>4, Zenon

\* send, or the assertion that fails before it.
LEMMA WriterRuns ==
    ASSUME OldConnInv, cdead = "no", run_list # << >>, ~freed_conn, Head(run_list) = "writer",
           postable_writer,
           UNCHANGED <<unread_in, parked, read_state, to_write, freed_conn, clientVars, edges>>
    PROVE  OldConnInv'
<1>1. run_list \in Seq(Postable) /\ Tail(run_list) \in Seq(Postable) /\ cleanups \in Nat
      /\ {"writer", "write_call_cb", "cleanup"} \subseteq Postable
  BY HeadTailProperties, Zenon DEF OldConnInv, OldConnTypeOK, Postable
<1>2. UNCHANGED <<unread_in, parked, read_state, edges, freed_conn, csend, cend>>
  BY Zenon DEF clientVars
<1>3. Holds(run_list, "reader") => Holds(Tail(run_list), "reader")
  BY <1>1, TailHolds, Zenon
<1>4. write_state \in {"IDLE", "ACTIVE", "EAGAINED", "STOP"}
  BY Zenon DEF OldConnInv, OldConnTypeOK
<1>5. CASE write_state = "STOP"
  <2>1. run_list' = Tail(run_list) /\ UNCHANGED <<write_state, short_send, cleanups, cdead>>
    BY <1>5, Zenon DEF postable_writer
  <2>2. OldConnTypeOK'
    BY <1>1, <1>2, <2>1, Zenon DEF OldConnInv, OldConnTypeOK
  <2>3. ReadingNotLost'
    BY <1>2, <1>3, <2>1, ReadingKept, Zenon
  <2> QED BY <1>2, <2>1, <2>2, <2>3, Zenon
          DEF OldConnInv, OldConnectionGoesOn, NotIdleAfterShortSend,
              WriterEndsOnlyAfter, CleanUpOncePerSide
<1>6. CASE write_state \in {"ACTIVE", "EAGAINED"}
  <2>1. cdead' = "writer not idle" /\ UNCHANGED <<write_state, short_send, run_list, cleanups>>
    BY <1>6, Zenon DEF postable_writer, writeVars
  <2>2. OldConnTypeOK' /\ ReadingNotLost'
    BY <1>2, <2>1, Zenon DEF OldConnInv, OldConnTypeOK, ReadingNotLost
  <2> QED BY <1>2, <1>6, <2>1, <2>2, Zenon
          DEF OldConnInv, OldConnectionGoesOn, NotIdleAfterShortSend,
              WriterEndsOnlyAfter, CleanUpOncePerSide
<1>8. CASE /\ write_state = "IDLE" /\ SendRaisesSigpipe /\ cdead' = "SIGPIPE"
           /\ UNCHANGED <<writeVars, run_list, cleanups>>
  <2>1. UNCHANGED <<write_state, short_send, run_list, cleanups>>
    BY <1>8, Zenon DEF writeVars
  <2>2. OldConnTypeOK' /\ ReadingNotLost'
    BY <1>2, <1>8, <2>1, Zenon DEF OldConnInv, OldConnTypeOK, ReadingNotLost
  <2>3. WriterEndsOnlyAfter'
    BY <1>2, <1>8, Zenon DEF WriterEndsOnlyAfter, SendRaisesSigpipe
  <2> QED BY <1>2, <2>1, <2>2, <2>3, Zenon
          DEF OldConnInv, OldConnectionGoesOn, NotIdleAfterShortSend, CleanUpOncePerSide
<1>7. CASE write_state = "IDLE" /\ writer /\ UNCHANGED cdead
  <2>1. writer /\ cdead' = cdead
    BY <1>7, Zenon
  <2>2. \/ write_state' = "STOP" /\ cleanups' = cleanups + 1 /\ short_send' = short_send
           /\ run_list' = Append(Tail(run_list), "cleanup")
        \/ write_state' = "EAGAINED" /\ short_send' /\ run_list' = Tail(run_list)
           /\ cleanups' = cleanups
        \/ write_state' = "IDLE" /\ cleanups' = cleanups
           /\ run_list' = Append(Tail(run_list), "write_call_cb")
        \/ write_state' = "ACTIVE" /\ short_send' /\ cleanups' = cleanups
           /\ run_list' = Append(Tail(run_list), "writer")
    BY <2>1, ZenonT(60) DEF writer, write_error, WriteStateAfter
  <2>3. run_list' \in Seq(Postable) /\ (Holds(run_list, "reader") => Holds(run_list', "reader"))
    <3>1. ASSUME NEW g \in Postable, run_list' = Append(Tail(run_list), g)
          PROVE  run_list' \in Seq(Postable) /\ (Holds(run_list, "reader") => Holds(run_list', "reader"))
      <4>1. Append(Tail(run_list), g) \in Seq(Postable)
        BY <1>1
      <4> QED BY <1>1, <1>3, <3>1, <4>1, AppendHolds, Zenon
    <3> QED BY <1>1, <1>3, <2>2, <3>1, Zenon
  <2>4. OldConnTypeOK'
    BY <1>1, <1>2, <2>2, <2>3 DEF OldConnInv, OldConnTypeOK
  <2>5. ReadingNotLost'
    BY <1>2, <2>3, ReadingKept, Zenon
  <2>6. CleanUpOncePerSide'
    BY <1>1, <1>2, <1>7, <2>2 DEF OldConnInv, OldConnectionGoesOn, CleanUpOncePerSide
  <2>7. NotIdleAfterShortSend'
    BY <2>2, Zenon DEF NotIdleAfterShortSend
  <2> QED BY <2>1, <2>4, <2>5, <2>6, <2>7, Zenon
          DEF OldConnInv, OldConnectionGoesOn, WriterEndsOnlyAfter
<1> QED BY <1>4, <1>5, <1>6, <1>7, <1>8, Zenon DEF postable_writer

\* The handler writes its next response, or reads on.
LEMMA WriteCallbackRuns ==
    ASSUME OldConnInv, cdead = "no", run_list # << >>, ~freed_conn,
           Head(run_list) = "write_call_cb", write_call_cb,
           UNCHANGED <<unread_in, errno_stale, parked, out_room, write_state, short_send,
                       cleanups, freed_conn, cdead, clientVars, edges>>
    PROVE  OldConnInv'
<1>1. run_list \in Seq(Postable) /\ Tail(run_list) \in Seq(Postable) /\ cleanups \in Nat
      /\ {"writer", "reader"} \subseteq Postable
  BY HeadTailProperties, Zenon DEF OldConnInv, OldConnTypeOK, Postable
<1>2. UNCHANGED <<unread_in, parked, write_state, short_send, cleanups, cdead, edges,
                  freed_conn, csend, cend>>
  BY Zenon DEF clientVars
<1>3. Holds(run_list, "reader") => Holds(Tail(run_list), "reader")
  BY <1>1, TailHolds, Zenon
<1>4. \/ run_list' = Append(Tail(run_list), "writer") /\ read_state' = read_state
      \/ run_list' = Append(Tail(run_list), "reader") /\ read_state = "IDLE" /\ read_state' = "ACTIVE"
      \/ run_list' = Tail(run_list) /\ read_state' = read_state
  BY Zenon DEF write_call_cb, async_connection_read
<1>5. ASSUME NEW g \in Postable, run_list' = Append(Tail(run_list), g)
      PROVE  /\ run_list' \in Seq(Postable)
             /\ Holds(run_list', g)
             /\ Holds(run_list, "reader") => Holds(run_list', "reader")
  <2>1. Append(Tail(run_list), g) \in Seq(Postable)
    BY <1>1
  <2> QED BY <1>1, <1>3, <1>5, <2>1, AppendHolds, Zenon
<1>6. OldConnTypeOK'
  BY <1>1, <1>2, <1>4, <1>5, Zenon DEF OldConnInv, OldConnTypeOK
<1>7. ReadingNotLost'
  <2>1. CASE read_state' = read_state
    BY <1>1, <1>2, <1>3, <1>4, <1>5, <2>1, ReadingKept, Zenon
  <2>2. CASE read_state' # read_state
    <3>1. Holds(run_list', "reader")
      BY <1>1, <1>4, <1>5, <2>2, Zenon
    <3> QED BY <3>1, Zenon DEF ReadingNotLost, Posted, Holds
  <2> QED BY <2>1, <2>2, Zenon
<1>8. CleanUpOncePerSide'
  BY <1>1, <1>2, <1>4, Zenon DEF OldConnInv, OldConnectionGoesOn, CleanUpOncePerSide
<1> QED BY <1>2, <1>6, <1>7, <1>8
        DEF OldConnInv, OldConnectionGoesOn, NotIdleAfterShortSend, WriterEndsOnlyAfter

\* One turn of the run list; on a freed connection it ends the process.
LEMMA RunNextKeeps ==
    ASSUME OldConnInv, cdead = "no", RunNext
    PROVE  OldConnInv'
<1>1. CASE freed_conn
  <2>1. /\ cdead' = "used after free"
        /\ UNCHANGED <<read_state, write_state, short_send, run_list, cleanups, freed_conn, edges,
                       csend, unread_in>>
    BY <1>1, Zenon DEF RunNext, readVars, writeVars, clientVars
  <2> QED BY <1>1, <2>1, Zenon
          DEF OldConnInv, OldConnTypeOK, OldConnectionGoesOn, NotIdleAfterShortSend,
              ReadingNotLost, WriterEndsOnlyAfter, CleanUpOncePerSide
<1>2. CASE ~freed_conn /\ Head(run_list) = "cleanup"
  <2>1. /\ freed_conn' /\ run_list' = Tail(run_list) /\ run_list # << >>
        /\ UNCHANGED <<read_state, write_state, short_send, cleanups, cdead, edges,
                       csend, unread_in>>
    BY <1>2, Zenon DEF RunNext, postable_cleanup, readVars, writeVars, clientVars
  <2>2. run_list' \in Seq(Postable)
    BY <2>1, HeadTailProperties, Zenon DEF OldConnInv, OldConnTypeOK
  <2> QED BY <2>1, <2>2, Zenon
          DEF OldConnInv, OldConnTypeOK, OldConnectionGoesOn, NotIdleAfterShortSend,
              ReadingNotLost, WriterEndsOnlyAfter, CleanUpOncePerSide
<1>3. CASE ~freed_conn /\ Head(run_list) # "cleanup"
  BY <1>3, ReaderRuns, WriterRuns, WriteCallbackRuns, Zenon DEF RunNext
<1> QED BY <1>1, <1>2, <1>3, Zenon

\* An event resumes each side that waits for it.
LEMMA EventKeeps ==
    ASSUME OldConnInv, cdead = "no", event_handler
    PROVE  OldConnInv'
<1> DEFINE w == IF WriteResumed THEN <<"writer">> ELSE << >>
           r == IF ReadResumed THEN <<"reader">> ELSE << >>
<1>1. /\ run_list = << >> /\ ~freed_conn
      /\ edges' = {} /\ run_list' = w \o r
      /\ write_state' = IF WriteResumed THEN "ACTIVE" ELSE write_state
      /\ read_state' = IF ReadResumed THEN "ACTIVE" ELSE read_state
      /\ UNCHANGED <<unread_in, parked, short_send, cleanups, freed_conn, cdead, csend, cend>>
  BY Zenon DEF event_handler, clientVars
<1>2. w \in Seq(Postable) /\ r \in Seq(Postable)
  <2>1. <<"writer">> \in Seq(Postable) /\ <<"reader">> \in Seq(Postable) /\ << >> \in Seq(Postable)
    BY DEF Postable
  <2> QED BY <2>1, Zenon
<1>3. ReadResumed => Holds(r, "reader")
  <2> SUFFICES ASSUME ReadResumed PROVE Holds(r, "reader")
    BY Zenon
  <2>1. r = <<"reader">>
    BY Zenon
  <2>2. 1 \in DOMAIN r /\ r[1] = "reader"
    BY <2>1
  <2> QED BY <2>2, Zenon DEF Holds
<1> HIDE DEF w, r
<1>4. run_list' \in Seq(Postable) /\ (ReadResumed => Holds(run_list', "reader"))
  BY <1>1, <1>2, <1>3, ConcatHolds, ConcatProperties, Zenon
<1>5. OldConnTypeOK'
  BY <1>1, <1>4, Zenon DEF OldConnInv, OldConnTypeOK
<1>6. ReadingNotLost'
  <2>1. ~Holds(run_list, "reader")
    BY <1>1 DEF Holds
  <2>2. \/ read_state = "STOP"
        \/ /\ read_state = "EAGAINED"
           /\ \/ "in" \in edges
              \/ unread_in = << >> /\ cend = "open"
              \/ parked /\ (InRoom <= ReadBufferSize => unread_in = << >>)
    BY <1>1, <2>1, Zenon DEF OldConnInv, OldConnectionGoesOn, ReadingNotLost, Posted, Holds
  <2>3. CASE ReadResumed
    BY <1>4, <2>3, Zenon DEF ReadingNotLost, Posted, Holds
  <2>4. CASE ~ReadResumed
    BY <1>1, <2>2, <2>4, Zenon DEF ReadingNotLost, ReadResumed
  <2> QED BY <2>3, <2>4, Zenon
<1>7. NotIdleAfterShortSend'
  BY <1>1, Zenon DEF OldConnInv, NotIdleAfterShortSend, WriteResumed
<1>8. CleanUpOncePerSide' /\ WriterEndsOnlyAfter'
  BY <1>1, Zenon DEF OldConnInv, OldConnTypeOK, OldConnectionGoesOn, CleanUpOncePerSide,
              WriterEndsOnlyAfter, SendRaisesSigpipe, WriteResumed, ReadResumed
<1> QED BY <1>5, <1>6, <1>7, <1>8, Zenon DEF OldConnInv, OldConnectionGoesOn

\* Each step keeps the invariant.
LEMMA OldConnSteps == OldConnInv /\ [OldConnectionNext]_oconnVars => OldConnInv'
<1> SUFFICES ASSUME OldConnInv, [OldConnectionNext]_oconnVars
             PROVE  OldConnInv'
  BY Zenon
<1>1. CASE OldConnectionNext /\ RunNext
  BY <1>1, RunNextKeeps, Zenon DEF OldConnectionNext
<1>2. CASE OldConnectionNext /\ event_handler
  BY <1>2, EventKeeps, Zenon DEF OldConnectionNext
<1>3. CASE OldConnectionNext /\ ClientStep
  <2>1. /\ UNCHANGED <<read_state, write_state, short_send, run_list, cleanups, freed_conn, cdead>>
        /\ edges' \subseteq edges \cup {"in", "out"}
        /\ "in" \in edges => "in" \in edges'
        /\ \/ unread_in' = unread_in /\ cend' = cend /\ parked' = parked
           \/ "in" \in edges'
    BY <1>3, Zenon DEF ClientStep
  <2>4. /\ csend' \in Seq(Inputs) /\ unread_in' \in Seq(Inputs) /\ Len(unread_in') <= InRoom
    <3>1. /\ csend \in Seq(Inputs) /\ unread_in \in Seq(Inputs) /\ Len(unread_in) <= InRoom
          /\ InRoom \in Nat
      BY OldConnectionAssumption, Zenon DEF OldConnInv, OldConnTypeOK
    <3>2. CASE csend' = csend /\ unread_in' = unread_in
      BY <3>1, <3>2, Zenon
    <3>3. CASE /\ csend # << >> /\ Len(unread_in) < InRoom
               /\ unread_in' = Append(unread_in, Head(csend)) /\ csend' = Tail(csend)
      BY <3>1, <3>3, LenProperties
    <3> QED BY <1>3, <3>2, <3>3, Zenon DEF ClientStep
  <2>2. OldConnTypeOK'
    BY <2>1, <2>4, Zenon DEF OldConnInv, OldConnTypeOK
  <2>3. ReadingNotLost'
    <3>1. ReadingNotLost
      BY Zenon DEF OldConnInv, OldConnectionGoesOn
    <3>2. CASE "in" \in edges'
      BY <2>1, <3>1, <3>2, Zenon DEF ReadingNotLost, Posted
    <3>3. CASE /\ unread_in' = unread_in /\ cend' = cend /\ parked' = parked
               /\ "in" \notin edges'
      BY <2>1, <3>1, <3>3, Zenon DEF ReadingNotLost, Posted
    <3> QED BY <2>1, <3>2, <3>3, Zenon
  <2> QED BY <1>3, <2>1, <2>2, <2>3, Zenon
          DEF OldConnectionNext, OldConnInv, OldConnectionGoesOn, NotIdleAfterShortSend,
              WriterEndsOnlyAfter, CleanUpOncePerSide
<1>4. CASE UNCHANGED oconnVars
  BY <1>4, Zenon DEF oconnVars, OldConnInv, OldConnTypeOK, OldConnectionGoesOn, NotIdleAfterShortSend,
              ReadingNotLost, Posted, WriterEndsOnlyAfter, SendRaisesSigpipe, CleanUpOncePerSide
<1> QED BY <1>1, <1>2, <1>3, <1>4, Zenon DEF OldConnectionNext

\* For any client, response length, read buffer and socket buffers: the
\* connection of async_connection.c stops reading too early only when a stale
\* errno turns data into EAGAIN, and then leaves input behind only when the
\* socket may hold more than the read buffer; it fails the assertion of
\* postable_writer only after a short send, gets SIGPIPE only from a client that
\* reset, and posts one cleanup for each side that stops.
THEOREM OldConnectionStallsOnlyOnStaleErrno == OldConnectionSpec => []OldConnectionGoesOn
<1>1. OldConnInv => OldConnectionGoesOn
  BY Zenon DEF OldConnInv
<1> QED BY OldConnStarts, OldConnSteps, <1>1, PTL DEF OldConnectionSpec
=============================================================================
