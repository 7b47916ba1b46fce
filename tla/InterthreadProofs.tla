------------------------- MODULE InterthreadProofs -------------------------
(***************************************************************************)
(* The ring of functor_list.c is a FIFO for every capacity, and aborts     *)
(* only when capacity - 1 functors are waiting.  Posts to a run loop from  *)
(* any number of threads, which such a ring carries, run in the order      *)
(* posted, each at most once and with its own argument, and a wakeup never *)
(* finds the list empty.                                                   *)
(***************************************************************************)
EXTENDS InterthreadPost, ReadyList, SequenceTheorems, TLAPS

\* What (i + 1) % capacity is for an index of the ring.
LEMMA NextSlotWraps ==
    ASSUME NEW F, NEW N \in Nat, N > 1, NEW l \in RingType(F, N), NEW i \in 0..(N - 1)
    PROVE  /\ NextSlot(l, i) = IF i + 1 < N THEN i + 1 ELSE 0
           /\ NextSlot(l, i) \in 0..(N - 1)
<1>1. l.capacity = N
  BY Zenon DEF RingType
<1> QED BY <1>1 DEF NextSlot

\* What functor_list_size computes: the distance from tail_plus to head.
LEMMA SizeIsDistance ==
    ASSUME NEW F, NEW N \in Nat, N > 1, NEW l \in RingType(F, N)
    PROVE  /\ functor_list_size(l) = IF l.tail_plus <= l.head
                                     THEN l.head - l.tail_plus
                                     ELSE l.head + N - l.tail_plus
           /\ functor_list_size(l) \in 0..(N - 1)
<1>1. /\ l.capacity = N
      /\ l.head \in 0..(N - 1)
      /\ l.tail_plus \in 0..(N - 1)
  BY Zenon DEF RingType
<1>2. CASE l.tail_plus <= l.head
  BY <1>1, <1>2 DEF functor_list_size
<1>3. CASE ~(l.tail_plus <= l.head)
  BY <1>1, <1>3 DEF functor_list_size
<1> QED BY <1>2, <1>3, Zenon

\* The test of functor_list_add finds exactly the rings with one slot unused.
LEMMA FullIsCapacityLessOne ==
    ASSUME NEW F, NEW N \in Nat, N > 1, NEW l \in RingType(F, N)
    PROVE  functor_list_is_full(l) <=> functor_list_size(l) = N - 1
<1>1. /\ l.head \in 0..(N - 1)
      /\ l.tail_plus \in 0..(N - 1)
  BY Zenon DEF RingType
<1> QED BY <1>1, NextSlotWraps, SizeIsDistance
        DEF functor_list_is_full

\* A ring holds a sequence of functors, as long as its size.
LEMMA ContentsIsSequence ==
    ASSUME NEW F, NEW N \in Nat, N > 1, NEW l \in RingType(F, N)
    PROVE  /\ Contents(l) \in Seq(F \cup {NoFunctor})
           /\ Len(Contents(l)) = functor_list_size(l)
<1> DEFINE n == functor_list_size(l)
           t == l.tail_plus
<1>1. n \in 0..(N - 1)
  BY SizeIsDistance, Zenon
<1>2. /\ l.list \in [0..N -> F \cup {NoFunctor}]
      /\ l.capacity = N
      /\ t \in 0..(N - 1)
  BY Zenon DEF RingType
<1>3. ASSUME NEW i \in 1..n
      PROVE  SlotOf(l, i) = IF t + i < N THEN t + i ELSE t + i - N
  BY <1>2, Zenon DEF SlotOf
<1>4. Contents(l) = [i \in 1..n |-> l.list[SlotOf(l, i)]]
  BY Zenon DEF Contents
<1> HIDE DEF n, t
<1>5. ASSUME NEW i \in 1..n
      PROVE  l.list[SlotOf(l, i)] \in F \cup {NoFunctor}
  <2>1. i \in Int /\ i >= 1 /\ i < N /\ t \in Int /\ t >= 0 /\ t < N
    BY <1>1, <1>2
  <2>2. SlotOf(l, i) \in 0..N
    <3>1. CASE t + i < N
      BY <3>1, <1>3, <2>1
    <3>2. CASE ~(t + i < N)
      BY <3>2, <1>3, <2>1
    <3> QED BY <3>1, <3>2, Zenon
  <2> QED BY <2>2, <1>2, Zenon
<1>6. n \in Nat
  BY <1>1
<1> QED BY <1>4, <1>5, <1>6 DEF n

\* functor_list_add puts the functor behind all others.
LEMMA AddAppends ==
    ASSUME NEW F, NEW N \in Nat, N > 1, NEW l \in RingType(F, N), NEW f \in F,
           ~functor_list_is_full(l)
    PROVE  /\ functor_list_add(l, f) \in RingType(F, N)
           /\ Contents(functor_list_add(l, f)) = Append(Contents(l), f)
<1> DEFINE m == functor_list_add(l, f)
           h == l.head
           t == l.tail_plus
           slot == NextSlot(l, h)
           n == functor_list_size(l)
           k == functor_list_size(m)
<1>1. /\ l.capacity = N
      /\ l.list \in [0..N -> F \cup {NoFunctor}]
      /\ h \in 0..(N - 1)
      /\ t \in 0..(N - 1)
  BY Zenon DEF RingType
<1>2. /\ slot = IF h + 1 < N THEN h + 1 ELSE 0
      /\ slot \in 0..(N - 1)
      /\ slot # t
  BY <1>1, NextSlotWraps, ZenonT(30) DEF functor_list_is_full
<1>3. m \in RingType(F, N)
  BY <1>1, <1>2, ZenonT(30) DEF RingType, functor_list_add
<1>4. /\ m.capacity = N
      /\ m.head = slot
      /\ m.tail_plus = t
      /\ m.list = [l.list EXCEPT ![slot] = f]
  BY <1>1, Zenon DEF RingType, functor_list_add
<1>5. /\ n = IF t <= h THEN h - t ELSE h + N - t
      /\ n \in 0..(N - 1)
  BY SizeIsDistance, Zenon
<1>6. k = IF t <= slot THEN slot - t ELSE slot + N - t
  BY <1>3, <1>4, SizeIsDistance
<1>7. ASSUME NEW i \in Int
      PROVE  /\ SlotOf(l, i) = IF t + i < N THEN t + i ELSE t + i - N
             /\ SlotOf(m, i) = SlotOf(l, i)
  BY <1>1, <1>4, Zenon DEF SlotOf
<1>8. Contents(l) = [i \in 1..n |-> l.list[SlotOf(l, i)]]
  BY Zenon DEF Contents
<1>9. Contents(m) = [i \in 1..k |-> m.list[SlotOf(m, i)]]
  BY Zenon DEF Contents
<1> HIDE DEF m, h, t, slot, n, k
<1>0. N \in Nat /\ h \in Int /\ t \in Int /\ n \in Int
  BY <1>1, <1>5
<1>10. k = n + 1
  <2>1. CASE h + 1 < N
    <3>1. slot = h + 1
      BY <2>1, <1>2, Zenon
    <3> QED BY <3>1, <1>0, <1>2, <1>5, <1>6
  <2>2. CASE ~(h + 1 < N)
    <3>1. slot = 0 /\ h = N - 1
      BY <2>2, <1>0, <1>1, <1>2
    <3> QED BY <3>1, <1>0, <1>1, <1>2, <1>5, <1>6
  <2> QED BY <2>1, <2>2, Zenon
<1>11. SlotOf(m, n + 1) = slot
  <2>1. n + 1 \in Int
    BY <1>5
  <2>2. SlotOf(m, n + 1) = IF t + (n + 1) < N THEN t + (n + 1)
                                                     ELSE t + (n + 1) - N
    BY <2>1, <1>7, Zenon
  <2>3. h <= N - 1 /\ h >= 0 /\ t <= N - 1
    BY <1>0, <1>1
  <2>4. CASE t <= h
    <3>1. t + (n + 1) = h + 1
      BY <2>4, <1>0, <1>5
    <3>2. SlotOf(m, n + 1) = IF h + 1 < N THEN h + 1 ELSE h + 1 - N
      BY <3>1, <2>2, <1>0
    <3>3. CASE h + 1 < N
      BY <3>2, <3>3, <1>2, Zenon
    <3>4. CASE ~(h + 1 < N)
      <4>1. h + 1 - N = 0
        BY <3>4, <2>3, <1>0
      <4> QED BY <3>2, <3>4, <4>1, <1>2, Zenon
    <3> QED BY <3>3, <3>4, Zenon
  <2>5. CASE ~(t <= h)
    <3>1. /\ t + (n + 1) = h + 1 + N
          /\ ~(t + (n + 1) < N)
          /\ t + (n + 1) - N = h + 1
          /\ h + 1 < N
      BY <2>5, <2>3, <1>0, <1>5
    <3> QED BY <3>1, <2>2, <1>2, Zenon
  <2> QED BY <2>4, <2>5, Zenon
<1>12. ASSUME NEW i \in 1..n
       PROVE  m.list[SlotOf(m, i)] = l.list[SlotOf(l, i)]
  <2>1. SlotOf(l, i) \in 0..N /\ SlotOf(l, i) # slot
    BY <1>1, <1>2, <1>5, <1>7
  <2> QED BY <2>1, <1>1, <1>4, <1>5, <1>7
<1>13. m.list[SlotOf(m, n + 1)] = f
  BY <1>1, <1>2, <1>4, <1>11
<1>14. Contents(m) = [i \in 1..(n + 1) |-> IF i = n + 1 THEN f ELSE l.list[SlotOf(l, i)]]
  <2>1. ASSUME NEW i \in 1..(n + 1)
        PROVE  m.list[SlotOf(m, i)] = IF i = n + 1 THEN f ELSE l.list[SlotOf(l, i)]
    <3>1. CASE i = n + 1
      BY <3>1, <1>13, Zenon
    <3>2. CASE i # n + 1
      <4>1. i \in 1..n
        BY <3>2, <1>5
      <4> QED BY <3>2, <4>1, <1>12, Zenon
    <3> QED BY <3>1, <3>2, Zenon
  <2> QED BY <2>1, <1>9, <1>10, Zenon
<1>15. Append(Contents(l), f)
          = [i \in 1..(n + 1) |-> IF i = n + 1 THEN f ELSE l.list[SlotOf(l, i)]]
  BY <1>5, <1>8
<1> QED BY <1>3, <1>14, <1>15, Zenon DEF m

\* functor_list_remove takes the oldest functor.
LEMMA RemoveTakesFirst ==
    ASSUME NEW F, NEW N \in Nat, N > 1, NEW l \in RingType(F, N), functor_list_size(l) # 0
    PROVE  /\ functor_list_remove(l) \in RingType(F, N)
           /\ functor_list_front(l) \in F \cup {NoFunctor}
           /\ Contents(l) = <<functor_list_front(l)>> \o Contents(functor_list_remove(l))
<1> DEFINE m == functor_list_remove(l)
           h == l.head
           t == l.tail_plus
           slot == NextSlot(l, t)
           first == functor_list_front(l)
           n == functor_list_size(m)
           k == functor_list_size(l)
<1>1. /\ l.capacity = N
      /\ l.list \in [0..N -> F \cup {NoFunctor}]
      /\ h \in 0..(N - 1)
      /\ t \in 0..(N - 1)
  BY Zenon DEF RingType
<1>2. /\ slot = IF t + 1 < N THEN t + 1 ELSE 0
      /\ slot \in 0..(N - 1)
  BY <1>1, NextSlotWraps, ZenonT(30)
<1>3. m \in RingType(F, N)
  BY <1>1, <1>2, Zenon DEF RingType, functor_list_remove
<1>4. /\ m.capacity = N
      /\ m.head = h
      /\ m.tail_plus = slot
      /\ m.list = l.list
  BY <1>1, Zenon DEF RingType, functor_list_remove
<1>5. first = l.list[slot]
  BY Zenon DEF functor_list_front
<1>6. k = (IF t <= h THEN h - t ELSE h + N - t) /\ k # 0
  BY SizeIsDistance, Zenon
<1>7. /\ n = IF slot <= h THEN h - slot ELSE h + N - slot
      /\ n \in 0..(N - 1)
  BY <1>3, <1>4, SizeIsDistance, Zenon
<1>8. ASSUME NEW i \in Int
      PROVE  /\ SlotOf(l, i) = IF t + i < N THEN t + i ELSE t + i - N
             /\ SlotOf(m, i) = IF slot + i < N THEN slot + i ELSE slot + i - N
  BY <1>1, <1>4, Zenon DEF SlotOf
<1>9. Contents(l) = [i \in 1..k |-> l.list[SlotOf(l, i)]]
  BY Zenon DEF Contents
<1>10. Contents(m) = [i \in 1..n |-> l.list[SlotOf(m, i)]]
  BY <1>4, Zenon DEF Contents
<1> HIDE DEF m, h, t, slot, first, n, k
<1>11. k = n + 1
  BY <1>1, <1>2, <1>6, <1>7
<1>12. SlotOf(l, 1) = slot
  <2>1. SlotOf(l, 1) = IF t + 1 < N THEN t + 1 ELSE t + 1 - N
    BY <1>8
  <2>2. t \in Int /\ t < N
    BY <1>1
  <2> QED BY <2>1, <2>2, <1>2
<1>13. ASSUME NEW i \in 1..n
       PROVE  SlotOf(l, i + 1) = SlotOf(m, i)
  <2>1. i \in Int /\ i + 1 \in Int /\ i >= 1 /\ i < N
    BY <1>7
  <2>2. SlotOf(l, i + 1) = IF t + (i + 1) < N THEN t + (i + 1)
                                                     ELSE t + (i + 1) - N
    BY <2>1, <1>8, Zenon
  <2>3. SlotOf(m, i) = IF slot + i < N THEN slot + i ELSE slot + i - N
    BY <2>1, <1>8, Zenon
  <2>4. t \in Int /\ t >= 0 /\ t < N
    BY <1>1
  <2>5. CASE t + 1 < N
    <3>1. slot = t + 1
      BY <2>5, <1>2, Zenon
    <3> QED BY <3>1, <2>1, <2>2, <2>3, <2>4
  <2>6. CASE ~(t + 1 < N)
    <3>1. slot = 0 /\ t + 1 = N
      BY <2>4, <2>6, <1>2
    <3>2. SlotOf(l, i + 1) = i
      BY <3>1, <2>1, <2>2, <2>4
    <3>3. SlotOf(m, i) = i
      BY <3>1, <2>1, <2>3
    <3> QED BY <3>2, <3>3, Zenon
  <2> QED BY <2>5, <2>6, Zenon
<1>14. first \in F \cup {NoFunctor}
  BY <1>1, <1>2, <1>5
<1>15. Contents(l) = [i \in 1..(n + 1) |-> IF i = 1 THEN first ELSE l.list[SlotOf(m, i - 1)]]
  <2>1. ASSUME NEW i \in 1..(n + 1)
        PROVE  l.list[SlotOf(l, i)] = IF i = 1 THEN first ELSE l.list[SlotOf(m, i - 1)]
    <3>1. CASE i = 1
      BY <3>1, <1>5, <1>12, Zenon
    <3>2. CASE i # 1
      <4>1. i - 1 \in 1..n /\ (i - 1) + 1 = i
        BY <3>2, <1>7
      <4>2. SlotOf(l, (i - 1) + 1) = SlotOf(m, i - 1)
        BY <4>1, <1>13, Zenon
      <4> QED BY <3>2, <4>1, <4>2, Zenon
    <3> QED BY <3>1, <3>2, Zenon
  <2> QED BY <2>1, <1>9, <1>11, Zenon
<1>16. <<first>> \o Contents(m)
          = [i \in 1..(n + 1) |-> IF i = 1 THEN first ELSE l.list[SlotOf(m, i - 1)]]
  BY <1>7, <1>10
<1> QED BY <1>3, <1>14, <1>15, <1>16, Zenon DEF m, first

-----------------------------------------------------------------------------
(* ReadyList: the list driven by its caller *)

ReadyInv == ReadyTypeOK /\ AbortsOnlyWhenFull

\* The initial list is a ring, and empty.
LEMMA ReadyStarts == ReadyInit => ReadyInv
<1>1. functor_list_new(ReadyCapacity) \in RingType(Functors, ReadyCapacity)
  BY ReadyListAssumption DEF functor_list_new, RingType
<1> QED BY <1>1, ZenonT(30) DEF ReadyInit, ReadyInv, ReadyTypeOK, AbortsOnlyWhenFull

\* Posting and running keep the ring, and abort only a full one.
LEMMA ReadySteps == ReadyInv /\ [ReadyNext]_readyVars => ReadyInv'
<1> SUFFICES ASSUME ReadyInv, [ReadyNext]_readyVars
             PROVE  ReadyInv'
  BY Zenon
<1> USE DEF ReadyInv, ReadyTypeOK, AbortsOnlyWhenFull
<1>1. ASSUME NEW f \in Functors, Post(f)
      PROVE  ReadyInv'
  <2>1. CASE functor_list_is_full(lst)
    BY <1>1, <2>1, ReadyListAssumption, FullIsCapacityLessOne, ZenonT(30) DEF Post
  <2>2. CASE ~functor_list_is_full(lst)
    BY <1>1, <2>2, ReadyListAssumption, AddAppends, ZenonT(30) DEF Post
  <2> QED BY <2>1, <2>2, Zenon
<1>2. CASE RunOne
  BY <1>2, ReadyListAssumption, RemoveTakesFirst, ZenonT(30) DEF RunOne
<1>3. CASE UNCHANGED readyVars
  BY <1>3, Zenon DEF readyVars
<1> QED BY <1>1, <1>2, <1>3, Zenon DEF ReadyNext

\* The ring keeps its type, and so its indices their bounds, for every
\* capacity.
THEOREM ReadyListTypeOK == ReadySpec => []ReadyTypeOK
<1>1. ReadyInv => ReadyTypeOK
  BY Zenon DEF ReadyInv
<1> QED BY ReadyStarts, ReadySteps, <1>1, PTL DEF ReadySpec

\* The assertion of functor_list_add fails only for a list of capacity - 1
\* functors.
THEOREM ReadyListAborts == ReadySpec => []AbortsOnlyWhenFull
<1>1. ReadyInv => AbortsOnlyWhenFull
  BY Zenon DEF ReadyInv
<1> QED BY ReadyStarts, ReadySteps, <1>1, PTL DEF ReadySpec

\* rtor_reactor_post and the drain loop treat the ring as a FIFO.
THEOREM ReadyListIsFifo == ReadySpec => IsFifo
<1> DEFINE Step ==
       \/ \E f \in Functors : Contents(lst') = Append(Contents(lst), f) /\ func' = func
       \/ Contents(lst) = <<func'>> \o Contents(lst')
       \/ overrun' /\ Contents(lst') = Contents(lst)
<1>1. ReadyTypeOK /\ [ReadyNext]_readyVars => [Step]_readyVars
  <2> SUFFICES ASSUME ReadyTypeOK, ReadyNext
               PROVE  Step
    BY Zenon
  <2>1. ASSUME NEW f \in Functors, Post(f)
        PROVE  Step
    BY <2>1, ReadyListAssumption, AddAppends, Zenon DEF Post, ReadyTypeOK
  <2>2. CASE RunOne
    BY <2>2, ReadyListAssumption, RemoveTakesFirst, Zenon DEF RunOne, ReadyTypeOK
  <2> QED BY <2>1, <2>2, Zenon DEF ReadyNext
<1> QED BY ReadyListTypeOK, <1>1, PTL DEF ReadySpec, IsFifo

-----------------------------------------------------------------------------
(* Four sequences in a row, as in InOrder *)

Functor == Jobs \cup {NoFunctor}

InRow(a, b, c, d) == a \o b \o c \o d

\* The first of the last one can be counted to the one before it.
LEMMA TakenFromEnd ==
    ASSUME NEW a \in Seq(Functor), NEW b \in Seq(Functor), NEW d \in Seq(Functor), NEW e \in Functor
    PROVE  InRow(a, b, << >>, <<e>> \o d) = InRow(a, b, <<e>>, d)
<1> DEFINE ab == a \o b
<1>1. ab \in Seq(Functor) /\ <<e>> \in Seq(Functor) /\ << >> \in Seq(Functor)
  BY ConcatProperties
<1> HIDE DEF ab
<1>2. ab \o << >> = ab
  BY <1>1, ConcatEmptySeq, Zenon
<1>3. (ab \o <<e>>) \o d = ab \o (<<e>> \o d)
  BY <1>1, ConcatAssociative
<1> QED BY <1>2, <1>3, Zenon DEF ab, InRow

\* And from there to the second.
LEMMA HandedOver ==
    ASSUME NEW a \in Seq(Functor), NEW b \in Seq(Functor), NEW d \in Seq(Functor), NEW e \in Functor
    PROVE  InRow(a, b, <<e>>, d) = InRow(a, Append(b, e), << >>, d)
<1>1. <<e>> \in Seq(Functor) /\ << >> \in Seq(Functor) /\ a \o (b \o <<e>>) \in Seq(Functor)
  BY ConcatProperties
<1>2. Append(b, e) = b \o <<e>>
  BY AppendIsConcat, Zenon
<1>3. (a \o b) \o <<e>> = a \o (b \o <<e>>)
  BY <1>1, ConcatAssociative
<1>4. (a \o (b \o <<e>>)) \o << >> = a \o (b \o <<e>>)
  BY <1>1, ConcatEmptySeq, Zenon
<1> QED BY <1>2, <1>3, <1>4, Zenon DEF InRow

\* And from there to the first.
LEMMA RunFirst ==
    ASSUME NEW a \in Seq(Functor), NEW c \in Seq(Functor), NEW d \in Seq(Functor), NEW e \in Functor
    PROVE  InRow(a, <<e>>, c, d) = InRow(Append(a, e), << >>, c, d)
<1>1. <<e>> \in Seq(Functor) /\ << >> \in Seq(Functor) /\ a \o <<e>> \in Seq(Functor)
  BY ConcatProperties
<1>2. Append(a, e) = a \o <<e>>
  BY AppendIsConcat, Zenon
<1>3. (a \o <<e>>) \o << >> = a \o <<e>>
  BY <1>1, ConcatEmptySeq, Zenon
<1> QED BY <1>2, <1>3, Zenon DEF InRow

\* An element of a part is an element of the whole.
LEMMA PartOfWhole ==
    ASSUME NEW S, NEW J, NEW a \in Seq(S), NEW d \in Seq(S), NEW e \in S,
           a \o <<e>> \o d \in Seq(J)
    PROVE  e \in J
<1> DEFINE ae == a \o <<e>>
           n == Len(a) + 1
<1>1. <<e>> \in Seq(S) /\ Len(<<e>>) = 1 /\ <<e>>[1] = e /\ Len(a) \in Nat
  BY LenProperties
<1>2. /\ ae \in Seq(S) /\ Len(ae) = n
      /\ n \in 1..Len(a) + Len(<<e>>)
      /\ ae[n] = <<e>>[n - Len(a)]
  BY <1>1, ConcatProperties
<1>3. ae[n] = e
  BY <1>1, <1>2
<1> HIDE DEF ae
<1>4. Len(ae \o d) = Len(ae) + Len(d) /\ Len(d) \in Nat
  <2>1. ae \in Seq(S)
    BY <1>2, Zenon
  <2>2. Len(ae \o d) = Len(ae) + Len(d)
    BY <2>1, ConcatProperties, Zenon
  <2> QED BY <2>2, LenProperties, Zenon
<1>5. n \in 1..Len(ae) + Len(d) /\ n <= Len(ae)
  BY <1>1, <1>2, <1>4
<1>6. (ae \o d)[n] = ae[n]
  BY <1>2, <1>5, ConcatProperties, Zenon
<1>7. n \in 1..Len(ae \o d)
  BY <1>4, <1>5, Zenon
<1> QED BY <1>3, <1>6, <1>7, ElementOfSeq, Zenon DEF ae

-----------------------------------------------------------------------------
(* The invariant *)

\* queue_mutex is held by a thread between its add and its signal, and by the
\* loop between its take and its read of the eventfd.
Locked ==
    /\ \A p \in Posters : at[p] = "added" <=> mutex = p
    /\ loop = "remove" <=> mutex = Loop

\* Whatever will make the loop look into the list finds something there: the
\* counter of the eventfd, the event in the batch, a thread about to signal.
Announced ==
    functor_list_size(list) = 0 =>
        /\ eventfd = 0 \/ loop = "remove"
        /\ \A p \in Posters : at[p] # "added"
        /\ "queue" \notin batch

\* At most one functor waits in the ready list, with its argument in the
\* watcher, and none when the next one is taken.
OneAtATime ==
    /\ ready_list # << >> => ready_list = <<handler_arg>>
    /\ "queue" \in batch \/ loop \in {"top", "wait", "remove", "exited"} => ready_list = << >>
    /\ loop = "remove" => "queue" \notin batch /\ op \in Jobs

IInv ==
    /\ TypeOK
    /\ Locked
    /\ Announced
    /\ OneAtATime
    /\ InOrder
    /\ OwnArgument
    /\ NeverRemovesFromEmpty

\* The sequences of InOrder are sequences of functors.
LEMMA AreSequences ==
    ASSUME IInv
    PROVE  /\ RanJobs \in Seq(Functor) /\ Len(RanJobs) = Len(ran)
           /\ ready_list \in Seq(Functor)
           /\ Taken \in Seq(Functor)
           /\ Contents(list) \in Seq(Functor)
           /\ Len(Contents(list)) = functor_list_size(list)
           /\ functor_list_size(list) \in 0..(Capacity - 1)
<1> USE DEF IInv, TypeOK, Functor
<1>1. RanJobs \in Seq(Functor) /\ Len(RanJobs) = Len(ran)
  <2>1. Len(ran) \in Nat
    BY LenProperties, Zenon
  <2>2. ASSUME NEW i \in 1..Len(ran)
        PROVE  ran[i].f \in Functor
    <3>1. ran[i] \in [f : Jobs, arg : Jobs]
      BY ElementOfSeq, Zenon
    <3> QED BY <3>1, Zenon
  <2> QED BY <2>1, <2>2 DEF RanJobs
<1>2. ready_list \in Seq(Functor)
  BY SeqMonotonic, Zenon
<1>3. Taken \in Seq(Functor)
  <2>1. op \in Functor
    BY Zenon
  <2>2. <<op>> \in Seq(Functor) /\ << >> \in Seq(Functor)
    BY <2>1
  <2> QED BY <2>2, Zenon DEF Taken
<1>4. functor_list_size(list) \in 0..(Capacity - 1)
  BY SizeIsDistance, InterthreadAssumption, Zenon
<1>5. /\ Contents(list) \in Seq(Functor)
      /\ Len(Contents(list)) = functor_list_size(list)
  BY ContentsIsSequence, InterthreadAssumption, Zenon
<1> QED BY <1>1, <1>2, <1>3, <1>4, <1>5, Zenon

\* At first nothing is posted.
LEMMA InitIInv == Init => IInv
<1> SUFFICES ASSUME Init PROVE IInv
  BY Zenon
<1> USE DEF Init
<1>1. list \in RingType(Jobs, Capacity)
  BY InterthreadAssumption DEF functor_list_new, RingType
<1>2. functor_list_size(list) = 0
  BY InterthreadAssumption DEF functor_list_new, functor_list_size
<1>3. TypeOK
  <2>1. /\ mutex \in Posters \cup {NoThread, Loop}
        /\ eventfd \in Nat
        /\ at \in [Posters -> {"idle", "added"}]
        /\ count \in [Posters -> 0..MaxPosts]
        /\ loop \in LoopStates
    BY InterthreadAssumption DEF LoopStates
  <2>2. batch \subseteq {"queue", "other"} /\ other \in BOOLEAN
    BY Zenon
  <2>3. op \in Jobs \cup {NoFunctor} /\ handler_arg \in Jobs \cup {NoFunctor}
    BY Zenon
  <2>4. /\ ready_list \in Seq(Jobs) /\ posted \in Seq(Jobs)
        /\ ran \in Seq([f : Jobs, arg : Jobs])
    BY EmptySeq, Zenon
  <2> QED BY <1>1, <2>1, <2>2, <2>3, <2>4, Zenon DEF TypeOK
<1>4. Locked
  BY InterthreadAssumption, Zenon DEF Locked
<1>5. Announced /\ OneAtATime /\ OwnArgument /\ NeverRemovesFromEmpty
  BY DEF Announced, OneAtATime, OwnArgument, NeverRemovesFromEmpty
<1>6. InOrder
  <2>1. Contents(list) = << >>
    BY <1>2 DEF Contents
  <2>2. RanJobs = << >> /\ Taken = << >>
    BY DEF RanJobs, Taken
  <2> QED BY <2>1, <2>2 DEF InOrder
<1> QED BY <1>3, <1>4, <1>5, <1>6, Zenon DEF IInv

-----------------------------------------------------------------------------
(* One lemma for each step *)

\* The loop's own steps, which neither take nor run a functor.
LEMMA QuietSteps ==
    ASSUME IInv, Top \/ epoll_wait \/ OtherEvent \/ EndDispatch \/ EndDrain
    PROVE  IInv'
<1>1. /\ UNCHANGED <<list, mutex, eventfd, at, count, posted>>
      /\ UNCHANGED <<op, handler_arg, ready_list, ran>>
      /\ loop # "remove" /\ loop' # "remove"
      /\ loop' \in LoopStates /\ loop' # "aborted"
      /\ batch' \subseteq {"queue", "other"}
      /\ other' \in BOOLEAN
  <2>1. CASE Top
    BY <2>1, Zenon DEF IInv, TypeOK, Top, idle_queue, queue, threads, LoopStates
  <2>2. CASE epoll_wait
    BY <2>2, Zenon DEF IInv, TypeOK, epoll_wait, idle_queue, queue, threads, LoopStates
  <2>3. CASE OtherEvent
    BY <2>3, Zenon DEF IInv, TypeOK, OtherEvent, idle_queue, queue, threads, LoopStates
  <2>4. CASE EndDispatch
    BY <2>4, Zenon DEF IInv, TypeOK, EndDispatch, idle_queue, queue, threads, LoopStates
  <2>5. CASE EndDrain
    BY <2>5, Zenon DEF IInv, TypeOK, EndDrain, idle_queue, queue, threads, LoopStates
  <2> QED BY <2>1, <2>2, <2>3, <2>4, <2>5, Zenon
<1>2. TypeOK'
  BY <1>1, Zenon DEF IInv, TypeOK
<1>3. Locked'
  BY <1>1, Zenon DEF IInv, Locked
<1>4. "queue" \in batch' => "queue" \in batch \/ (loop = "wait" /\ eventfd > 0)
  BY Zenon DEF Top, epoll_wait, OtherEvent, EndDispatch, EndDrain
<1>5. Announced'
  BY <1>1, <1>4 DEF IInv, Announced, TypeOK
<1>6. OneAtATime'
  <2>1. loop' \in {"top", "wait", "exited"} => ready_list = << >>
    BY Zenon DEF IInv, OneAtATime, Top, epoll_wait, OtherEvent, EndDispatch, EndDrain
  <2> QED BY <1>1, <1>4, <2>1, Zenon DEF IInv, OneAtATime
<1>7. InOrder'
  BY <1>1, Zenon DEF IInv, InOrder, RanJobs, Taken
<1>8. OwnArgument' /\ NeverRemovesFromEmpty'
  BY <1>1, Zenon DEF IInv, OwnArgument, NeverRemovesFromEmpty
<1> QED BY <1>2, <1>3, <1>5, <1>6, <1>7, <1>8, Zenon DEF IInv

\* A thread that finds the list full ends the process and leaves all as it is.
LEMMA FullStep ==
    ASSUME IInv, NEW p \in Posters, AddToFull(p)
    PROVE  IInv'
<1>1. /\ UNCHANGED <<list, mutex, eventfd, at, count, posted>>
      /\ UNCHANGED <<batch, other, op, handler_arg, ready_list, ran>>
      /\ mutex = NoThread /\ loop' = "full"
  BY Zenon DEF AddToFull, MayPost, queue, threads
<1>2. loop # "remove"
  BY <1>1, InterthreadAssumption, Zenon DEF IInv, Locked
<1>3. TypeOK' /\ Locked'
  BY <1>1, <1>2, Zenon DEF IInv, TypeOK, Locked, LoopStates
<1>4. Announced' /\ OneAtATime'
  BY <1>1, <1>2, Zenon DEF IInv, Announced, OneAtATime
<1>5. InOrder' /\ OwnArgument' /\ NeverRemovesFromEmpty'
  BY <1>1, <1>2, Zenon DEF IInv, InOrder, RanJobs, Taken, OwnArgument, NeverRemovesFromEmpty
<1> QED BY <1>3, <1>4, <1>5, Zenon DEF IInv

\* A thread adds its functor: there is room, and it is the last in every sense.
LEMMA AddStep ==
    ASSUME IInv, NEW p \in Posters, Evfdq_add(p)
    PROVE  IInv'
<1> DEFINE job == <<p, count[p] + 1>>
           n == functor_list_size(list)
<1>1. /\ RanJobs \in Seq(Functor) /\ Len(RanJobs) = Len(ran)
      /\ ready_list \in Seq(Functor)
      /\ Taken \in Seq(Functor)
      /\ Contents(list) \in Seq(Functor)
      /\ Len(Contents(list)) = n
      /\ n \in 0..(Capacity - 1)
  BY AreSequences, Zenon
<1>2. /\ mutex = NoThread /\ mutex' = p
      /\ list' = functor_list_add(list, job)
      /\ count' = [count EXCEPT ![p] = @ + 1]
      /\ posted' = Append(posted, job)
      /\ at' = [at EXCEPT ![p] = "added"]
      /\ count[p] < MaxPosts
      /\ UNCHANGED <<eventfd, loop, batch, other, op, handler_arg, ready_list, ran>>
  BY Zenon DEF Evfdq_add, MayPost, reactor
<1>3. job \in Jobs /\ job \in Functor
  BY <1>2, InterthreadAssumption DEF IInv, TypeOK, Jobs, Functor
<1>4. /\ list \in RingType(Jobs, Capacity)
      /\ posted \in Seq(Jobs)
      /\ posted = RanJobs \o ready_list \o Taken \o Contents(list)
  BY Zenon DEF IInv, TypeOK, InOrder
<1> HIDE DEF job, n
<1>5. ~functor_list_is_full(list)
  BY Zenon DEF Evfdq_add
<1>6. /\ list' \in RingType(Jobs, Capacity)
      /\ Contents(list') = Append(Contents(list), job)
  <2>1. /\ functor_list_add(list, job) \in RingType(Jobs, Capacity)
        /\ Contents(functor_list_add(list, job)) = Append(Contents(list), job)
    BY <1>3, <1>4, <1>5, AddAppends, InterthreadAssumption
  <2> QED BY <1>2, <2>1, Zenon
<1>7. functor_list_size(list') # 0
  <2>1. functor_list_size(list') \in 0..(Capacity - 1)
    BY <1>6, SizeIsDistance, InterthreadAssumption, Zenon
  <2>2. Len(Contents(list')) = functor_list_size(list')
    BY <2>1, InterthreadAssumption DEF Contents
  <2>3. Len(Contents(list')) = n + 1
    <3>1. Len(Append(Contents(list), job)) = Len(Contents(list)) + 1
      BY <1>1, <1>3, AppendProperties, Zenon
    <3> QED BY <1>1, <1>6, <3>1, Zenon
  <2> QED BY <1>1, <2>2, <2>3
<1>8. TypeOK'
  <2>1. posted' \in Seq(Jobs)
    BY <1>2, <1>3, <1>4, AppendProperties, Zenon
  <2>2. count' \in [Posters -> 0..MaxPosts]
    BY <1>2, InterthreadAssumption DEF IInv, TypeOK
  <2>3. at' \in [Posters -> {"idle", "added"}] /\ mutex' \in Posters \cup {NoThread, Loop}
    BY <1>2, Zenon DEF IInv, TypeOK
  <2> QED BY <1>2, <1>6, <2>1, <2>2, <2>3, Zenon DEF IInv, TypeOK
<1>9. Locked'
  <2>1. \A q \in Posters : at[q] # "added" /\ q # NoThread /\ q # Loop
    BY <1>2, InterthreadAssumption, Zenon DEF IInv, Locked
  <2>2. loop # "remove"
    BY <1>2, InterthreadAssumption, Zenon DEF IInv, Locked
  <2>3. \A q \in Posters : at'[q] = IF q = p THEN "added" ELSE at[q]
    BY <1>2, Zenon DEF IInv, TypeOK
  <2> QED BY <1>2, <2>1, <2>2, <2>3, Zenon DEF Locked
<1>10. Announced'
  BY <1>7, Zenon DEF Announced
<1>11. OneAtATime' /\ OwnArgument' /\ NeverRemovesFromEmpty'
  BY <1>2, Zenon DEF IInv, OneAtATime, OwnArgument, NeverRemovesFromEmpty
<1>12. InOrder'
  <2>1. RanJobs' = RanJobs /\ Taken' = Taken
    BY <1>2, Zenon DEF RanJobs, Taken
  <2> DEFINE rrt == RanJobs \o ready_list \o Taken
             queued == Contents(list)
  <2>2. rrt \in Seq(Functor) /\ queued \in Seq(Functor) /\ <<job>> \in Seq(Functor)
    BY <1>1, <1>3, ConcatProperties
  <2>3. posted = rrt \o queued
    BY <1>4, Zenon
  <2>4. posted' = posted \o <<job>>
    BY <1>2, <1>3, <1>4, AppendIsConcat, Zenon
  <2>5. Contents(list') = queued \o <<job>>
    BY <1>1, <1>3, <1>6, AppendIsConcat, Zenon
  <2> HIDE DEF rrt, queued
  <2>6. (rrt \o queued) \o <<job>> = rrt \o (queued \o <<job>>)
    BY <2>2, ConcatAssociative
  <2>7. posted' = rrt \o Contents(list')
    BY <2>3, <2>4, <2>5, <2>6, Zenon
  <2> QED BY <1>2, <2>1, <2>7, Zenon DEF InOrder, rrt
<1> QED BY <1>8, <1>9, <1>10, <1>11, <1>12, Zenon DEF IInv

\* It signals: the list it added to has not been touched since.
LEMMA SignalStep ==
    ASSUME IInv, NEW p \in Posters, Signal(p)
    PROVE  IInv'
<1>1. /\ at[p] = "added"
      /\ eventfd' = eventfd + 1
      /\ mutex' = NoThread
      /\ at' = [at EXCEPT ![p] = "idle"]
      /\ UNCHANGED <<list, count, posted>>
      /\ UNCHANGED <<loop, batch, other, op, handler_arg, ready_list, ran>>
  BY Zenon DEF Signal, reactor
<1>2. TypeOK'
  <2>1. /\ eventfd' \in Nat
        /\ mutex' \in Posters \cup {NoThread, Loop}
        /\ at' \in [Posters -> {"idle", "added"}]
    BY <1>1 DEF IInv, TypeOK
  <2> QED BY <1>1, <2>1, Zenon DEF IInv, TypeOK
<1>3. \A q \in Posters : at'[q] = IF q = p THEN "idle" ELSE at[q]
  BY <1>1, Zenon DEF IInv, TypeOK
<1>4. mutex = p /\ p # Loop /\ loop # "remove"
  BY <1>1, InterthreadAssumption, Zenon DEF IInv, Locked
<1>5. Locked'
  BY <1>1, <1>3, <1>4, InterthreadAssumption DEF IInv, Locked
<1>6. functor_list_size(list) # 0
  BY <1>1, Zenon DEF IInv, Announced
<1>7. Announced'
  BY <1>1, <1>6, Zenon DEF Announced
<1>8. OneAtATime' /\ OwnArgument' /\ NeverRemovesFromEmpty'
  BY <1>1, Zenon DEF IInv, OneAtATime, OwnArgument, NeverRemovesFromEmpty
<1>9. InOrder'
  BY <1>1, Zenon DEF IInv, InOrder, RanJobs, Taken
<1> QED BY <1>2, <1>5, <1>7, <1>8, <1>9, Zenon DEF IInv

\* The loop takes a functor: there is one, and it is a job.
LEMMA RemoveStep ==
    ASSUME IInv, Evfdq_remove
    PROVE  IInv'
<1> DEFINE first == functor_list_front(list)
           rest == functor_list_remove(list)
<1>1. /\ RanJobs \in Seq(Functor)
      /\ ready_list \in Seq(Functor)
      /\ Contents(list) \in Seq(Functor)
  BY AreSequences, Zenon
<1>2. functor_list_size(list) # 0
  BY Zenon DEF Evfdq_remove, IInv, Announced
<1>3. /\ mutex = NoThread /\ mutex' = Loop
      /\ loop = "dispatch" /\ loop' = "remove"
      /\ "queue" \in batch /\ batch' = batch \ {"queue"}
      /\ op' = first /\ list' = rest
      /\ UNCHANGED <<eventfd, at, count, posted, other, handler_arg, ready_list, ran>>
  BY <1>2, Zenon DEF Evfdq_remove, threads
<1>4. list \in RingType(Jobs, Capacity)
  BY Zenon DEF IInv, TypeOK
<1>5. /\ rest \in RingType(Jobs, Capacity)
      /\ first \in Functor
      /\ Contents(list) = <<first>> \o Contents(rest)
  BY <1>2, <1>4, RemoveTakesFirst, InterthreadAssumption, Zenon DEF Functor
<1> HIDE DEF first, rest
<1>6. Contents(rest) \in Seq(Functor)
  BY <1>5, ContentsIsSequence, InterthreadAssumption, Zenon DEF Functor
<1>7. posted = RanJobs \o ready_list \o <<first>> \o Contents(rest)
  <2>1. Taken = << >>
    BY <1>3, Zenon DEF Taken
  <2>2. posted = RanJobs \o ready_list \o << >> \o (<<first>> \o Contents(rest))
    BY <1>5, <2>1, Zenon DEF IInv, InOrder
  <2>3. InRow(RanJobs, ready_list, << >>, <<first>> \o Contents(rest))
           = InRow(RanJobs, ready_list, <<first>>, Contents(rest))
    BY <1>1, <1>5, <1>6, TakenFromEnd
  <2> QED BY <2>2, <2>3, Zenon DEF InRow
<1>8. first \in Jobs
  <2>1. posted \in Seq(Jobs)
    BY Zenon DEF IInv, TypeOK
  <2>2. RanJobs \o ready_list \in Seq(Functor)
    BY <1>1, ConcatProperties, Zenon
  <2> QED BY <1>5, <1>6, <1>7, <2>1, <2>2, PartOfWhole, ZenonT(30)
<1>9. TypeOK'
  <2>1. op' \in Jobs \cup {NoFunctor} /\ mutex' \in Posters \cup {NoThread, Loop}
    BY <1>3, <1>8, Zenon
  <2>2. loop' \in LoopStates /\ batch' \subseteq {"queue", "other"}
    BY <1>3, Zenon DEF IInv, TypeOK, LoopStates
  <2> QED BY <1>3, <1>5, <2>1, <2>2, Zenon DEF IInv, TypeOK
<1>10. \A p \in Posters : at[p] # "added"
  BY <1>3, InterthreadAssumption, Zenon DEF IInv, Locked
<1>11. Locked'
  BY <1>3, <1>10, InterthreadAssumption, Zenon DEF Locked
<1>12. Announced'
  BY <1>3, <1>10, Zenon DEF Announced
<1>13. OneAtATime' /\ OwnArgument' /\ NeverRemovesFromEmpty'
  BY <1>3, <1>8, Zenon DEF IInv, OneAtATime, OwnArgument, NeverRemovesFromEmpty
<1>14. InOrder'
  <2>1. RanJobs' = RanJobs /\ Taken' = <<first>>
    BY <1>3, Zenon DEF RanJobs, Taken
  <2> QED BY <1>3, <1>7, <2>1, Zenon DEF InOrder
<1> QED BY <1>9, <1>11, <1>12, <1>13, <1>14, Zenon DEF IInv

\* It posts the functor, with its argument in the watcher.
LEMMA HandlerStep ==
    ASSUME IInv, interthread_queue_handler
    PROVE  IInv'
<1>1. /\ loop = "remove" /\ loop' = "dispatch"
      /\ eventfd' = 0
      /\ mutex' = NoThread
      /\ handler_arg' = op
      /\ ready_list' = Append(ready_list, op)
      /\ op' = NoFunctor
      /\ UNCHANGED <<list, at, count, posted, batch, other, ran>>
  BY Zenon DEF interthread_queue_handler, ReadEventfd, threads
<1>2. op \in Jobs /\ ready_list = << >> /\ "queue" \notin batch
  BY <1>1, Zenon DEF IInv, OneAtATime
<1>3. ready_list' = <<op>> /\ ready_list' \in Seq(Jobs)
  BY <1>1, <1>2
<1>4. TypeOK'
  <2>1. loop' \in LoopStates /\ eventfd' \in Nat
    BY <1>1, Zenon DEF LoopStates
  <2>2. op' \in Jobs \cup {NoFunctor} /\ handler_arg' \in Jobs \cup {NoFunctor}
    BY <1>1, <1>2, Zenon
  <2> QED BY <1>1, <1>3, <2>1, <2>2, Zenon DEF IInv, TypeOK
<1>5. Locked'
  BY <1>1, InterthreadAssumption, Zenon DEF IInv, Locked
<1>6. Announced'
  BY <1>1, Zenon DEF IInv, Announced
<1>7. OneAtATime'
  BY <1>1, <1>2, <1>3, Zenon DEF OneAtATime
<1>8. OwnArgument' /\ NeverRemovesFromEmpty'
  BY <1>1, Zenon DEF IInv, OwnArgument, NeverRemovesFromEmpty
<1>9. InOrder'
  <2>1. RanJobs' = RanJobs /\ Taken = <<op>> /\ Taken' = << >>
    BY <1>1, Zenon DEF RanJobs, Taken
  <2>2. /\ RanJobs \in Seq(Functor)
        /\ ready_list \in Seq(Functor)
        /\ Contents(list) \in Seq(Functor)
        /\ op \in Functor
    BY <1>2, AreSequences, Zenon DEF Functor
  <2>3. InRow(RanJobs, ready_list, <<op>>, Contents(list))
           = InRow(RanJobs, Append(ready_list, op), << >>, Contents(list))
    BY <2>2, HandedOver, Zenon
  <2> QED BY <1>1, <2>1, <2>3, Zenon DEF IInv, InOrder, InRow
<1> QED BY <1>4, <1>5, <1>6, <1>7, <1>8, <1>9, Zenon DEF IInv

\* The functor runs, and finds its argument.
LEMMA RunStep ==
    ASSUME IInv, RunFunctor
    PROVE  IInv'
<1> DEFINE job == handler_arg
           entry == [f |-> job, arg |-> job]
<1>1. /\ loop = "drain"
      /\ ready_list = <<job>>
      /\ job \in Jobs /\ job \in Functor
  <2>1. loop = "drain" /\ ready_list # << >>
    BY Zenon DEF RunFunctor
  <2>2. ready_list = <<job>>
    BY <2>1, Zenon DEF IInv, OneAtATime
  <2>3. ready_list \in Seq(Jobs)
    BY Zenon DEF IInv, TypeOK
  <2>4. job \in Jobs
    BY <2>2, <2>3
  <2> QED BY <2>1, <2>2, <2>4, Zenon DEF Functor
<1>2. /\ ready_list' = << >>
      /\ ran' = Append(ran, entry)
      /\ UNCHANGED <<loop, batch, other, op, handler_arg>>
      /\ UNCHANGED <<list, mutex, eventfd, at, count, posted>>
  BY <1>1 DEF RunFunctor, idle_queue, queue, threads
<1>3. ran \in Seq([f : Jobs, arg : Jobs]) /\ Len(ran) \in Nat
  BY LenProperties, Zenon DEF IInv, TypeOK
<1>4. entry \in [f : Jobs, arg : Jobs] /\ entry.f = job /\ entry.arg = job
  BY <1>1, Zenon
<1> HIDE DEF job, entry
<1>5. /\ ran' \in Seq([f : Jobs, arg : Jobs])
      /\ Len(ran') = Len(ran) + 1
      /\ \A i \in 1..Len(ran) : ran'[i] = ran[i]
      /\ ran'[Len(ran) + 1] = entry
  BY <1>2, <1>3, <1>4, AppendProperties
<1>6. TypeOK'
  BY <1>2, <1>5, EmptySeq, Zenon DEF IInv, TypeOK
<1>7. Locked' /\ Announced'
  BY <1>2, Zenon DEF IInv, Locked, Announced
<1>8. OneAtATime' /\ NeverRemovesFromEmpty'
  BY <1>2, Zenon DEF IInv, OneAtATime, NeverRemovesFromEmpty
<1>9. ASSUME NEW i \in 1..Len(ran')
      PROVE  i \in 1..Len(ran) \/ i = Len(ran) + 1
  BY <1>3, <1>5
<1>10. OwnArgument'
  BY <1>4, <1>5, <1>9, Zenon DEF IInv, OwnArgument
<1>11. InOrder'
  <2>1. /\ RanJobs \in Seq(Functor) /\ Len(RanJobs) = Len(ran)
        /\ Taken \in Seq(Functor)
        /\ Contents(list) \in Seq(Functor)
    BY AreSequences, Zenon
  <2>2. RanJobs' = [i \in 1..Len(ran) + 1 |-> IF i <= Len(ran) THEN ran[i].f ELSE job]
    <3>1. ASSUME NEW i \in 1..Len(ran')
          PROVE  ran'[i].f = IF i <= Len(ran) THEN ran[i].f ELSE job
      BY <1>3, <1>4, <1>5, <1>9
    <3> QED BY <1>5, <3>1, Zenon DEF RanJobs
  <2>3. Append(RanJobs, job) = [i \in 1..Len(ran) + 1 |-> IF i <= Len(ran) THEN ran[i].f ELSE job]
    BY <1>3, <2>1 DEF RanJobs
  <2>4. RanJobs' = Append(RanJobs, job) /\ Taken' = Taken
    BY <1>2, <2>2, <2>3, Zenon DEF Taken
  <2>5. InRow(RanJobs, <<job>>, Taken, Contents(list))
           = InRow(Append(RanJobs, job), << >>, Taken, Contents(list))
    BY <1>1, <2>1, RunFirst, Zenon
  <2> QED BY <1>1, <1>2, <2>4, <2>5, Zenon DEF IInv, InOrder, InRow
<1> QED BY <1>6, <1>7, <1>8, <1>10, <1>11, Zenon DEF IInv

-----------------------------------------------------------------------------
\* Every step of the loop and of the threads keeps the invariant.
LEMMA NextIInv == IInv /\ [Next]_vars => IInv'
<1> SUFFICES ASSUME IInv, [Next]_vars
             PROVE  IInv'
  BY Zenon
<1>1. CASE RunLoop
  BY <1>1, QuietSteps, RemoveStep, HandlerStep, RunStep, Zenon DEF RunLoop
<1>2. ASSUME NEW p \in Posters, Evfdq_add(p) \/ AddToFull(p) \/ Signal(p)
      PROVE  IInv'
  BY <1>2, AddStep, FullStep, SignalStep, Zenon
<1>3. CASE UNCHANGED vars
  <2>1. /\ UNCHANGED <<list, mutex, eventfd, at, count, posted>>
        /\ UNCHANGED <<loop, batch, other, op, handler_arg, ready_list, ran>>
    BY <1>3, Zenon DEF vars, queue, threads, reactor
  <2>2. TypeOK' /\ Locked' /\ Announced' /\ OneAtATime'
    BY <2>1, Zenon DEF IInv, TypeOK, Locked, Announced, OneAtATime
  <2>3. InOrder' /\ OwnArgument' /\ NeverRemovesFromEmpty'
    BY <2>1, Zenon DEF IInv, InOrder, RanJobs, Taken, OwnArgument, NeverRemovesFromEmpty
  <2> QED BY <2>2, <2>3, Zenon DEF IInv
<1> QED BY <1>1, <1>2, <1>3, Zenon DEF Next

\* The list, the mutex, the eventfd and the loop keep their types.
THEOREM InterthreadTypeOK == Spec => []TypeOK
<1>1. IInv => TypeOK
  BY Zenon DEF IInv
<1> QED BY InitIInv, NextIInv, <1>1, PTL DEF Spec

\* Callbacks posted by rtor_reactor_interthread_post from any number of threads
\* run at most once, in the order posted and with their own arguments, and
\* interthread_queue_handler never finds the list empty.
THEOREM InterthreadPostsInOrder == Spec => []PostsInOrder
<1>1. IInv => PostsInOrder
  BY Zenon DEF IInv, PostsInOrder
<1> QED BY InitIInv, NextIInv, <1>1, PTL DEF Spec
=============================================================================
