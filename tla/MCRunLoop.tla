---------------------------- MODULE MCRunLoop ----------------------------
(***************************************************************************)
(* The run loop with its watchers, and what the connections it serves      *)
(* allocate and free.  The two share nothing: in a behaviour either the    *)
(* loop runs or the connections come and go.                               *)
(***************************************************************************)
EXTENDS RunLoop, Ownership

CONSTANTS p1, p2

\* One and a half second; 0 stops a timer.
HalfSeconds == {0, 3}

Pairs == {pair \in SUBSET (Fds \ Queues) : Cardinality(pair) = 2}

\* One connection with two requests and their responses, or four requests; the
\* other one is there for its descriptor.
MCConns == {p1, p2}
MCMessages == [c \in MCConns |-> IF c = p1 THEN 4 ELSE 0]

Init ==
    /\ RunLoopInit
    /\ OwnershipInit
    /\ loop = "off" =>
          /\ used = CHOOSE pair \in Pairs : TRUE
          /\ rx = rtor_reactor_init
          /\ \A s \in Streams : stream[s].both = "null"
    /\ loop # "off" =>
          /\ server_kind = "async"
          /\ loop_of = CHOOSE f \in [OwnConns -> OwnLoops] : TRUE

Next ==
    \/ /\ RunLoopNext
       /\ UNCHANGED ownVars
    \/ /\ loop = "off"
       /\ OwnershipNext
       /\ UNCHANGED loopVars

Spec == Init /\ [][Next]_<<loopVars, ownVars>> /\ RunLoopFairness
=============================================================================
