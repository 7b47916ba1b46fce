---------------------------- MODULE BoundedFifo ----------------------------
(***************************************************************************)
(* What http_in_c/common/queue.h promises of a Queue: "a queue of integers *)
(* (socket fd) with a fixed max size", from which every entry leaves       *)
(* once, in the order in which the calls of Queue_add took effect.         *)
(*                                                                         *)
(* A producer offers a value and the offer takes effect in one later step; *)
(* a consumer receives the head of the sequence in one step.  Mutex,       *)
(* condition variables and the ring of slots are absent here: Queue.tla    *)
(* is shown to implement this specification.                               *)
(***************************************************************************)
EXTENDS Naturals, Sequences

CONSTANTS Producers, Consumers, Values, NoValue, Capacity

VARIABLES items,    \* the entries of the queue, oldest first
          offer,    \* offer[p]: the value producer p is adding, if any
          got       \* got[c]: the value consumer c received last, if any

vars == <<items, offer, got>>

Init ==
    /\ items = << >>
    /\ offer = [p \in Producers |-> NoValue]
    /\ got = [c \in Consumers |-> NoValue]

Offer(p, v) ==
    /\ offer[p] = NoValue
    /\ offer' = [offer EXCEPT ![p] = v]
    /\ UNCHANGED <<items, got>>

Put(p) ==
    /\ offer[p] # NoValue
    /\ Len(items) < Capacity
    /\ items' = Append(items, offer[p])
    /\ offer' = [offer EXCEPT ![p] = NoValue]
    /\ UNCHANGED got

Take(c) ==
    /\ items # << >>
    /\ got' = [got EXCEPT ![c] = Head(items)]
    /\ items' = Tail(items)
    /\ UNCHANGED offer

Next ==
    \/ \E p \in Producers, v \in Values : Offer(p, v)
    \/ \E p \in Producers : Put(p)
    \/ \E c \in Consumers : Take(c)

Spec == Init /\ [][Next]_vars
=============================================================================
