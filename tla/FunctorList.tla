---------------------------- MODULE FunctorList ----------------------------
(***************************************************************************)
(* http_in_c/runloop/functor_list.c: the ring of functors used as the      *)
(* ready list of a reactor and as the store of its inter-thread queue.     *)
(* head is the slot of the newest entry, tail_plus the slot before the     *)
(* oldest; one slot always stays unused, so that head = tail_plus means    *)
(* empty.                                                                  *)
(***************************************************************************)
EXTENDS Integers, Sequences

CONSTANT NoFunctor    \* the content of a slot that was never written

\* The code allocates capacity + 1 slots and uses capacity of them.
functor_list_new(capacity) ==
    [capacity |-> capacity, head |-> 0, tail_plus |-> 0,
     list |-> [i \in 0..capacity |-> NoFunctor]]

NextSlot(l, i) == (i + 1) % l.capacity

functor_list_size(l) == (l.head + l.capacity - l.tail_plus) % l.capacity

\* Faulty form of functor_list_is_full: no test.
functor_list_is_fullNever(l) == FALSE

\* The test before the assertion of functor_list_add.
functor_list_is_full(l) == NextSlot(l, l.head) = l.tail_plus

functor_list_add(l, f) ==
    [l EXCEPT !.head = NextSlot(l, l.head), !.list[NextSlot(l, l.head)] = f]

\* functor_list_remove returns a value and advances tail_plus.
functor_list_front(l) == l.list[NextSlot(l, l.tail_plus)]
functor_list_remove(l) == [l EXCEPT !.tail_plus = NextSlot(l, l.tail_plus)]

-----------------------------------------------------------------------------
(* What the ring stands for *)

\* The slot of the i-th oldest entry, 1 <= i <= functor_list_size(l).
SlotOf(l, i) == IF l.tail_plus + i < l.capacity THEN l.tail_plus + i
                                                ELSE l.tail_plus + i - l.capacity

\* The entries, oldest first.
Contents(l) == [i \in 1..functor_list_size(l) |-> l.list[SlotOf(l, i)]]

\* A ring of the given capacity that holds functors of the set F.
RingType(F, capacity) ==
    [capacity : {capacity}, head : 0..(capacity - 1), tail_plus : 0..(capacity - 1),
     list : [0..capacity -> F \cup {NoFunctor}]]
=============================================================================
