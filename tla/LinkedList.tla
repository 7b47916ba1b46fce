---------------------------- MODULE LinkedList ----------------------------
(***************************************************************************)
(* http_in_c/common/list.c: the doubly linked list under the header lists, *)
(* the buffer chains and the lists of handlers and messages, as nodes with *)
(* addresses.  http_in_c/common/generics/dlist.c is the same code but for  *)
(* DList_destroy.                                                          *)
(*                                                                         *)
(* An operator of this module is the C function of the same name, from the *)
(* list to the list; the value a function also returns is an operator of   *)
(* its own.  A list holds, besides the fields of struct List_s, the nodes  *)
(* allocated for it (node) and the items given to dealloc (freed).         *)
(***************************************************************************)
EXTENDS Integers, Sequences, SequencesExt

CONSTANTS NULL,
          MaxNodes,     \* bound: nodes a list has at a time
          MaxItems      \* bound: items added in a run

VARIABLES list,         \* the list
          itr,          \* an iterator its user holds
          added,        \* items added so far; the items are 1, 2, 3, ...
          content,      \* history: the items that should be in the list, in order
          owed          \* history: the items as the calls of dealloc should take them

listVars == <<list, itr, added, content, owed>>

Nodes == 1..MaxNodes

\* What dealloc does to the pointer it is given: "nulls" sets it to NULL (as
\* IOBuffer_dispose and KVPair_dispose do), "keeps" leaves it.  "none": the
\* list was made without a dealloc.
List_new(dealloc) ==
    [count |-> 0, head |-> NULL, tail |-> NULL, dealloc |-> dealloc,
     node |-> << >>, freed |-> << >>]

List_init(l) == [l EXCEPT !.count = 0, !.head = NULL, !.tail = NULL]

\* The address ListNode_new returns for the next node.
NewNode(l) == CHOOSE n \in Nodes : n \notin DOMAIN l.node

ListNode_new(l, item, prev, next) ==
    [l EXCEPT !.node = [n \in DOMAIN @ \cup {NewNode(l)} |->
        IF n \in DOMAIN @ THEN @[n] ELSE [item |-> item, backward |-> prev, forward |-> next]]]

Dealloc(l, n) ==
    [l EXCEPT !.freed = Append(@, l.node[n].item),
              !.node[n].item = IF l.dealloc = "nulls" THEN NULL ELSE @]

ListNode_dispose(l, n) ==
    LET d == IF l.dealloc # "none" /\ l.node[n].item # NULL THEN Dealloc(l, n) ELSE l
    IN  [d EXCEPT !.node = [m \in DOMAIN @ \ {n} |-> @[m]]]

\* The nodes met from n on, following forward.
Following(l, n) ==
    LET met[i \in 1..(MaxNodes + 1)] == IF i = 1 THEN n
                                        ELSE IF met[i - 1] \notin DOMAIN l.node THEN NULL
                                        ELSE l.node[met[i - 1]].forward
    IN  SelectSeq([i \in 1..MaxNodes |-> met[i]], LAMBDA m : m \in DOMAIN l.node)

List_destroy(l) ==
    LET first(k, n) == IF k.dealloc # "none" THEN Dealloc(k, n) ELSE k
    IN  List_init(FoldLeft(LAMBDA k, n : ListNode_dispose(first(k, n), n), l, Following(l, l.head)))

DList_destroy(l) == List_init(FoldLeft(ListNode_dispose, l, Following(l, l.head)))

List_add_front(l, item) ==
    LET n == NewNode(l)
        k == ListNode_new(l, item, NULL, NULL)
    IN  IF l.count = 0
        THEN [k EXCEPT !.head = n, !.tail = n, !.count = @ + 1]
        ELSE [k EXCEPT !.node[n].forward = l.head, !.node[l.head].backward = n,
                       !.head = n, !.count = @ + 1]

List_add_back(l, item) ==
    LET n == NewNode(l)
        k == ListNode_new(l, item, NULL, l.head)
    IN  IF l.count = 0
        THEN [k EXCEPT !.head = n, !.tail = n, !.count = @ + 1]
        ELSE [k EXCEPT !.node[n].backward = l.tail, !.node[n].forward = NULL,
                       !.node[l.tail].forward = n, !.tail = n, !.count = @ + 1]

List_first(l) == IF l.head = NULL THEN NULL ELSE l.node[l.head].item
List_last(l) == IF l.tail = NULL THEN NULL ELSE l.node[l.tail].item

\* remove_first and remove_last of a list of one node.
RemoveOnly(l) ==
    [ListNode_dispose([l EXCEPT !.node[l.head].item = NULL], l.head)
        EXCEPT !.count = @ - 1, !.head = NULL, !.tail = NULL]

List_remove_first(l) ==
    LET second == l.node[l.head].forward
    IN  IF l.count = 0 THEN l
        ELSE IF l.count = 1 THEN RemoveOnly(l)
        ELSE [ListNode_dispose([l EXCEPT !.node[l.head].item = NULL], l.head)
                EXCEPT !.count = @ - 1, !.head = second, !.node[second].backward = NULL]

List_remove_last(l) ==
    LET previous == l.node[l.tail].backward
    IN  IF l.count = 0 THEN l
        ELSE IF l.count = 1 THEN RemoveOnly(l)
        ELSE [ListNode_dispose([l EXCEPT !.node[l.tail].item = NULL], l.tail)
                EXCEPT !.count = @ - 1, !.tail = previous, !.node[previous].forward = NULL]

List_itr_next(l, n) == l.node[n].forward

List_find(l, item) ==
    LET hits == SelectSeq(Following(l, l.head), LAMBDA n : l.node[n].item = item)
    IN  IF hits = << >> THEN NULL ELSE hits[1]

\* Faulty form of List_itr_remove: the last node is unlinked as an inner one is,
\* and tail stays.
List_itr_removeKeepsTail(l, n) ==
    LET back == l.node[n].backward
        next == l.node[n].forward
        headless == IF l.head = n THEN [l EXCEPT !.head = next]
                                  ELSE [l EXCEPT !.node[back].forward = next]
    IN  IF next = NULL THEN ListNode_dispose([headless EXCEPT !.count = @ - 1], n)
        ELSE ListNode_dispose([headless EXCEPT !.count = @ - 1, !.node[next].backward = back], n)

List_itr_remove(l, n) ==
    LET back == l.node[n].backward
        next == l.node[n].forward
        unlinked ==
            IF l.count = 1 THEN List_init(l)
            ELSE IF l.head = n
                 THEN [l EXCEPT !.node[next].backward = back, !.head = next, !.count = @ - 1]
            ELSE IF l.tail = n
                 THEN [l EXCEPT !.node[back].forward = next, !.tail = back, !.count = @ - 1]
            ELSE [l EXCEPT !.node[next].backward = back, !.node[back].forward = next,
                           !.count = @ - 1]
    IN  IF l.count = 0 THEN l ELSE ListNode_dispose(unlinked, n)

-----------------------------------------------------------------------------
(* A user of one list *)

\* Each item of s two times.
Twice(s) == FlattenSeq([i \in DOMAIN s |-> <<s[i], s[i]>>])

ListInit ==
    /\ list = List_new("none")
    /\ itr = NULL
    /\ added = 0
    /\ content = << >>
    /\ owed = << >>

NewList ==
    /\ added = 0
    /\ \E dealloc \in {"nulls", "keeps"} : list' = List_new(dealloc)
    /\ UNCHANGED <<itr, added, content, owed>>

Add(result, sequence) ==
    /\ added < MaxItems
    /\ list.count < MaxNodes
    /\ list' = result
    /\ content' = sequence
    /\ added' = added + 1
    /\ UNCHANGED <<itr, owed>>

AddFront == Add(List_add_front(list, added + 1), <<added + 1>> \o content)
AddBack == Add(List_add_back(list, added + 1), Append(content, added + 1))

\* The caller owns an item these two return.  An iterator is not used after a
\* call that may have freed its node.
TakeFirst ==
    /\ list' = List_remove_first(list)
    /\ content' = SelectSeq(content, LAMBDA x : x # List_first(list))
    /\ itr' = NULL
    /\ UNCHANGED <<added, owed>>

TakeLast ==
    /\ list' = List_remove_last(list)
    /\ content' = SelectSeq(content, LAMBDA x : x # List_last(list))
    /\ itr' = NULL
    /\ UNCHANGED <<added, owed>>

\* List_iterator, List_find and List_itr_next.
MoveIterator ==
    /\ itr' \in {list.head}
            \cup {List_find(list, item) : item \in 1..added}
            \cup (IF itr = NULL THEN {} ELSE {List_itr_next(list, itr)})
    /\ UNCHANGED <<list, added, content, owed>>

ItrRemove ==
    /\ itr # NULL
    /\ list' = List_itr_remove(list, itr)
    /\ content' = SelectSeq(content, LAMBDA x : x # list.node[itr].item)
    /\ owed' = Append(owed, list.node[itr].item)
    /\ itr' = NULL
    /\ UNCHANGED added

\* Leaves a list that can be used again.
Destroy ==
    /\ list' = List_destroy(list)
    /\ owed' = owed \o (IF list.dealloc = "keeps" THEN Twice(content) ELSE content)
    /\ content' = << >>
    /\ itr' = NULL
    /\ UNCHANGED added

DDestroy ==
    /\ list' = DList_destroy(list)
    /\ owed' = owed \o content
    /\ content' = << >>
    /\ itr' = NULL
    /\ UNCHANGED added

ListNext ==
    NewList \/ AddFront \/ AddBack \/ TakeFirst \/ TakeLast
        \/ MoveIterator \/ ItrRemove \/ Destroy \/ DDestroy

-----------------------------------------------------------------------------
(* Properties *)

\* The nodes met from n on, following backward.
Preceding(l, n) ==
    LET met[i \in 1..(MaxNodes + 1)] == IF i = 1 THEN n
                                        ELSE IF met[i - 1] \notin DOMAIN l.node THEN NULL
                                        ELSE l.node[met[i - 1]].backward
    IN  SelectSeq([i \in 1..MaxNodes |-> met[i]], LAMBDA m : m \in DOMAIN l.node)

\* After any sequence of calls of list.c the list reads the same in both
\* directions, holds what was added and not removed in the order the calls say,
\* counts it, and has no node that neither direction reaches.
ListWellLinked ==
    LET forward == Following(list, list.head)
        backward == Preceding(list, list.tail)
    IN  /\ content = [i \in 1..Len(forward) |-> list.node[forward[i]].item]
        /\ backward = Reverse(forward)
        /\ list.count = Len(forward)
        /\ DOMAIN list.node = ToSet(forward)

\* dealloc runs exactly once on every item that List_itr_remove, List_destroy or
\* DList_destroy takes out of the list, and never on one that remove_first or
\* remove_last returned to the caller; but twice on each item that List_destroy
\* finds in a list whose dealloc leaves the pointer as it is: it calls dealloc
\* itself and ListNode_dispose does so again (list.c:32-35, 75-79).  The one such
\* dealloc is that of the run list (functor.c:35-38, run_list.c:44).
DeallocatedAsOwed == list.freed = IF list.dealloc = "none" THEN << >> ELSE owed

\* After any sequence of calls of list.c the list is the one the calls say and
\* what was taken out of it was given to the caller or deallocated, once unless
\* List_destroy met a dealloc that does not null its pointer.
ListAsCalled == ListWellLinked /\ DeallocatedAsOwed
=============================================================================
