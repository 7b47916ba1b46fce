----------------------------- MODULE ReadyList -----------------------------
(***************************************************************************)
(* A functor list driven by its caller, as rtor_reactor_post and the drain *)
(* loop of rtor_reactor_run drive the ready list: calls of                 *)
(* functor_list_add at any time, calls of functor_list_remove only after   *)
(* functor_list_size was seen to be positive.                              *)
(***************************************************************************)
EXTENDS FunctorList

CONSTANTS Functors, ReadyCapacity

\* RTOR_READY_LIST_MAX and RTOR_MAX_FDS are far above the two slots that a
\* ring with one unused slot needs.
ASSUME ReadyListAssumption ==
    /\ ReadyCapacity \in Nat
    /\ ReadyCapacity > 1
    /\ NoFunctor \notin Functors

VARIABLES lst,      \* the list
          func,     \* the result of the last functor_list_remove
          overrun   \* an assertion of functor_list.c has failed

readyVars == <<lst, func, overrun>>

ReadyInit ==
    /\ lst = functor_list_new(ReadyCapacity)
    /\ func = NoFunctor
    /\ overrun = FALSE

\* rtor_reactor_post
Post(f) ==
    /\ ~overrun
    /\ IF functor_list_is_full(lst)
       THEN overrun' = TRUE /\ UNCHANGED lst
       ELSE lst' = functor_list_add(lst, f) /\ UNCHANGED overrun
    /\ UNCHANGED func

\* One turn of the drain loop.
RunOne ==
    /\ ~overrun
    /\ functor_list_size(lst) # 0
    /\ func' = functor_list_front(lst)
    /\ lst' = functor_list_remove(lst)
    /\ UNCHANGED overrun

ReadyNext == RunOne \/ \E f \in Functors : Post(f)

ReadySpec == ReadyInit /\ [][ReadyNext]_readyVars

-----------------------------------------------------------------------------
(* Properties *)

ReadyTypeOK ==
    /\ lst \in RingType(Functors, ReadyCapacity)
    /\ func \in Functors \cup {NoFunctor}
    /\ overrun \in BOOLEAN

\* The ring is a FIFO of its contents: a step that does not abort appends one
\* functor at the end or takes the first one off and returns it, through every
\* wrap-around of the two indices.
IsFifo == [][\/ \E f \in Functors : Contents(lst') = Append(Contents(lst), f) /\ func' = func
             \/ Contents(lst) = <<func'>> \o Contents(lst')
             \/ overrun' /\ Contents(lst') = Contents(lst)]_readyVars

\* The list is full, and only then aborts the process, at capacity - 1
\* entries: the assertion of functor_list_add fails for no shorter list.
AbortsOnlyWhenFull == overrun => functor_list_size(lst) = ReadyCapacity - 1
=============================================================================
