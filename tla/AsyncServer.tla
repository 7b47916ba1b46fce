---------------------------- MODULE AsyncServer ----------------------------
(***************************************************************************)
(* The single-threaded event-driven server of async-server-app: the        *)
(* listener of http_in_c/async/async_server.c, the connections and their   *)
(* handlers (AsyncConnection), the run loop (Reactor) and the clients at   *)
(* the other end of the sockets (Sockets).                                 *)
(***************************************************************************)
EXTENDS AsyncConnection, FiniteSets

CONSTANTS MaxReqs,      \* bound: requests a client sends on one connection
          MaxParts,     \* bound: pieces of a request before its last
          Window,       \* bound: requests sent and not yet answered; 1 = no pipelining
          Closing,      \* may a request carry Connection: close?
          Malformed,    \* may a client send something that is not HTTP?
          Resets,       \* may a client reset the connection?
          AcceptErrors  \* may accept fail with another error than EAGAIN?

ASSUME AsyncAssumption ==
    /\ RcvCap \in Nat \ {0}
    /\ SndCap \in Nat \ {0}
    /\ RecvMax \in Nat \ {0}
    /\ RespLen \in Nat \ {0}
    /\ MaxReqs \in Nat
    /\ MaxParts \in Nat
    /\ Window \in Nat
    /\ {Closing, Malformed, Resets, AcceptErrors} \subseteq BOOLEAN
    /\ Listener \notin Conns

VARIABLES sent,     \* sent[c]: complete requests the client has sent
          parts,    \* parts[c]: pieces sent of the request after those
          asked     \* asked[c]: the client has sent Connection: close

client == <<sent, parts, asked>>
vars == <<sockets, reactor, connection, errno, handler_list, client>>

Init ==
    /\ SocketsInit
    /\ ReactorInit
    /\ ConnectionInit
    /\ sent = [c \in Conns |-> 0]
    /\ parts = [c \in Conns |-> 0]
    /\ asked = [c \in Conns |-> FALSE]

-----------------------------------------------------------------------------
(* The server *)

\* on_event_listening: accept one connection, create its handler, which
\* registers and arms the connection and starts to read at once, and only then
\* add the handler to the list.  Arming an edge-triggered watcher reports the
\* readiness the socket already has.
on_event_listening ==
    LET c == Head(backlog)
    IN  /\ Dispatch(Listener)
        /\ backlog # << >>
        /\ backlog' = Tail(backlog)
        /\ table' = table \cup {c}
        /\ edge' = [edge EXCEPT ![c] = TRUE]
        /\ async_connection_read(c, ready_list)
        /\ handler_list' = handler_list \cup {c}

\* on_event_listening when accept fails: no descriptor is left, or the client
\* has gone again.  The assertion ends the process.  (EAGAIN, after which the
\* handler returns, needs a second server on the socket: see AsyncApp.)
AcceptFails ==
    /\ AcceptErrors
    /\ loop = "dispatch"
    /\ Listener \in batch
    /\ loop' = "killed"
    /\ UNCHANGED <<batch, mask, ready_list, table>>

RunLoop ==
    \/ epoll_wait /\ UNCHANGED <<connection, errno, handler_list>>
    \/ EndDispatch /\ UNCHANGED <<sockets, connection, errno, handler_list>>
    \/ EndDrain /\ UNCHANGED <<sockets, connection, errno, handler_list>>
    \/ AcceptFails /\ UNCHANGED <<sockets, connection, errno, handler_list>>

ServerStep ==
    /\ \/ RunLoop
       \/ on_event_listening
       \/ \E c \in Conns :
             \/ async_event_handler(c)
             \/ postable_reader(c)
             \/ postable_handle_request(c)
             \/ async_postable_writer(c)
             \/ postable_write_complete(c)
    /\ UNCHANGED client

Close(c) ==
    /\ postable_close_connection(c)
    /\ sent' = [sent EXCEPT ![c] = 0]
    /\ parts' = [parts EXCEPT ![c] = 0]
    /\ asked' = [asked EXCEPT ![c] = FALSE]

Server == ServerStep \/ \E c \in Conns : Close(c)

-----------------------------------------------------------------------------
(* The clients *)

unserved == <<reactor, connection, errno, handler_list>>

MayRequest(c) == ~asked[c] /\ sent[c] < MaxReqs /\ sent[c] - answered[c] < Window

SendPart(c) ==
    /\ MayRequest(c)
    /\ parts[c] < MaxParts
    /\ Arrive(c, "part")
    /\ parts' = [parts EXCEPT ![c] = @ + 1]
    /\ UNCHANGED <<sent, asked>>

SendLast(c) ==
    /\ MayRequest(c)
    /\ \/ Arrive(c, "last") /\ UNCHANGED asked
       \/ Closing /\ Arrive(c, "close") /\ asked' = [asked EXCEPT ![c] = TRUE]
    /\ sent' = [sent EXCEPT ![c] = @ + 1]
    /\ parts' = [parts EXCEPT ![c] = 0]

SendBad(c) ==
    /\ Malformed
    /\ MayRequest(c)
    /\ parts[c] < MaxParts
    /\ Arrive(c, "bad")
    /\ parts' = [parts EXCEPT ![c] = @ + 1]
    /\ UNCHANGED <<sent, asked>>

\* With the process gone nothing that clients do matters.
Client(c) ==
    /\ loop # "killed"
    /\ \/ SendPart(c)
       \/ SendLast(c)
       \/ SendBad(c)
       \/ Connect(c) /\ UNCHANGED client
       \/ ShutDown(c) /\ UNCHANGED client
       \/ Resets /\ Reset(c) /\ UNCHANGED client
       \/ Receive(c) /\ UNCHANGED client
    /\ UNCHANGED unserved

Next == Server \/ \E c \in Conns : Client(c)

Spec == Init /\ [][Next]_vars

\* The run loop never blocks outside epoll_wait, and a client that waits for a
\* response reads it.
Fairness ==
    /\ WF_vars(Server)
    /\ \A c \in Conns : WF_vars(Receive(c) /\ UNCHANGED <<unserved, client>>)

FairSpec == Spec /\ Fairness

-----------------------------------------------------------------------------
(* Properties *)

ClientTypeOK ==
    /\ sent \in [Conns -> 0..MaxReqs]
    /\ parts \in [Conns -> 0..MaxParts]
    /\ asked \in [Conns -> BOOLEAN]

\* The type invariant: sockets, run loop, connections and clients.
TypeOK == SocketsTypeOK /\ ReactorTypeOK /\ ConnectionTypeOK /\ ClientTypeOK

\* The states of the two sides that go together.
HalfDuplexAt(c) ==
    /\ <<read_state[c], write_state[c]>> \in
          {<<"IDLE", "IDLE">>, <<"ACTIVE", "IDLE">>, <<"EAGAINED", "IDLE">>,
           <<"IDLE", "ACTIVE">>, <<"IDLE", "EAGAINED">>, <<"STOP", "STOP">>}
    /\ readside_posted[c] <=> read_state[c] = "ACTIVE"
    /\ scratch_request[c] => read_state[c] = "IDLE" /\ write_state[c] = "IDLE"
    /\ write_state[c] \in {"ACTIVE", "EAGAINED"} => output[c] > 0

\* Only one side of a connection is at work at a time: a read is not started
\* before the response is written, nor a write while a read is under way.
\* These are the conditions of the assertions in async_connection_read,
\* async_connection_write, postable_reader, async_postable_writer and
\* postable_handle_request.
HalfDuplex == \A c \in Conns : HalfDuplexAt(c)

\* What is on the ready list for an open connection in a given state; "none"
\* when it waits for an fd event instead.
Continuation(c) ==
    CASE read_state[c] = "STOP" -> "postable_close_connection"
      [] read_state[c] = "ACTIVE" -> "postable_reader"
      [] read_state[c] = "EAGAINED" -> "none"
      [] read_state[c] = "IDLE" /\ write_state[c] = "ACTIVE" -> "async_postable_writer"
      [] read_state[c] = "IDLE" /\ write_state[c] = "EAGAINED" -> "none"
      [] read_state[c] = "IDLE" /\ write_state[c] = "IDLE" ->
            IF scratch_request[c] THEN "postable_handle_request"
                                  ELSE "postable_write_complete"

\* An open connection always has exactly one way to go on: the one functor
\* its state calls for, or an fd event.  So it is never stuck with nothing
\* posted, nothing runs twice, and it is closed once; and the ready list never
\* holds more functors than there are connections.
OneContinuation ==
    /\ \A i \in 1..Len(ready_list) :
          ready_list[i].f = Continuation(ready_list[i].c)
    /\ \A i, j \in 1..Len(ready_list) : ready_list[i].c = ready_list[j].c => i = j
    /\ \A c \in table : Continuation(c) # "none" =>
          \E i \in 1..Len(ready_list) : ready_list[i].c = c

\* async_handler.c:130 "After this chain of disposes no activity should take
\* place with the connection, handler or runloop": no functor, no undispatched
\* event and no handler refers to a connection that is not registered, so
\* FdTable_lookup and the search of handler_list find what they look for.
NothingOutlivesConnection ==
    /\ \A i \in 1..Len(ready_list) : ready_list[i].c \in table
    /\ batch \subseteq table \cup {Listener}
    /\ handler_list = table

\* reactor.c:209 "All entries on the ready should be executed before we look
\* for more fd events", asserted before epoll_wait.
WaitsOnlyWhenDrained == loop = "wait" => ready_list = << >>

EventComing(c, e) == edge[c] \/ (c \in batch /\ e \in mask[c])

\* A connection that waits for input is told of the input it has: although
\* events are edge-triggered, and dropped when they find the connection busy,
\* no part of a request is left unread in the socket.  It holds when one recv
\* can take all that a client has outstanding (RcvCap <= RecvMax).
NoForgottenInput == \A c \in table :
    read_state[c] = "EAGAINED" /\ rx[c] # << >> => EventComing(c, "IN")

\* A connection that waits to send is told of the space it has.
NoForgottenOutput == \A c \in table :
    write_state[c] = "EAGAINED" /\ Writable(c) => EventComing(c, "OUT")

\* A connection that has read all there is and waits for the next request has
\* answered every request before it.
AllAnswered == \A c \in table :
    read_state[c] = "EAGAINED" /\ rx[c] = << >> /\ ~parser_error[c]
        => answered[c] = sent[c]

\* Every connection in the accept queue is accepted, and every request sent is
\* answered, or its connection closed.
RequestsAnswered == \A c \in Conns :
    /\ peer[c] # "none" ~> c \in table \/ peer[c] = "none"
    /\ \A n \in 1..MaxReqs : sent[c] >= n ~> answered[c] >= n \/ peer[c] = "none"

\* A client that goes away between two requests is forgotten: its handler and
\* its socket are freed.
ClosedWhenPeerCloses == \A c \in Conns :
    peer[c] # "up" /\ parts[c] = 0 ~> peer[c] = "none"

-----------------------------------------------------------------------------
(* What the repository says of the server and the code does not do. *)

\* connection_internal.h:40 a connection is EAGAINED after "nread > 0 and errno
\* == EAGAIN - which means a partial read but there is no more": nothing is
\* left to read, or an event is still to come.
EagainedIsDrained == \A c \in table :
    read_state[c] = "EAGAINED" /\ Readable(c) => EventComing(c, "IN")
=============================================================================
