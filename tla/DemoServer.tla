---------------------------- MODULE DemoServer ----------------------------
(***************************************************************************)
(* The server of the demo protocol: demo_connection.c, demo_handler.c and  *)
(* demo_server.c of http_in_c/demo_protocol, for one connection.           *)
(*                                                                         *)
(* The run loop calls event_handler when no functor is left, and the       *)
(* functors in the order they were posted.  The client sends one of Wires, *)
(* which arrives in pieces; it reads the replies, and may shut its side    *)
(* down or reset the connection at any time.  A reply is sent in units of  *)
(* which SndCap fit into the socket.                                       *)
(***************************************************************************)
EXTENDS DemoParser, FiniteSets

CONSTANTS Wires,     \* what a client may send
          Units,     \* units of a reply
          SndCap     \* units the socket takes before the client reads

\* A reply has at least its frame's bytes, and a message is never taken for NULL.
ASSUME DemoAssumption ==
    /\ Wires \subseteq Seq(Bytes)
    /\ NULL \notin Seq(Bytes)
    /\ Units \in Nat \ {0}
    /\ SndCap \in Nat \ {0}

VARIABLES wire,         \* the bytes this client sends
          arrived,      \* how many of them have arrived
          peer,         \* "up", "fin", "rst", or "pipe": the next send raises SIGPIPE
          unread,       \* units sent and not read by the client
          nospace,      \* a send found the socket full
          edge,         \* the socket became ready since the last event
          parser,       \* the connection's DemoParser
          taken,        \* bytes received into the input buffer
          parsed,       \* bytes consumed by the parser
          conn,         \* the DemoConnection
          handler,      \* the DemoHandler
          ready_list,   \* functors posted to the reactor
          server,       \* the server: "new", "listening", "serving" or, the handler freed,
                        \* "closed"; "off": the program does not run
          crash,        \* how the process ended; "" while it runs
          history       \* replies sent, and what went wrong on the way

demoSocket == <<wire, arrived, peer, unread, nospace, edge>>
demoInput == <<parser, taken, parsed>>
demoVars == <<demoSocket, demoInput, conn, handler, ready_list, server, crash, history>>

DemoInit ==
    /\ wire \in Wires
    /\ arrived = 0 /\ taken = 0 /\ parsed = 0 /\ unread = 0
    /\ peer = "up"
    /\ nospace = FALSE /\ edge = FALSE
    /\ parser = DemoParser_new
    /\ conn = [read_state |-> "idle", write_state |-> "idle", out |-> 0,
               on_read_cb |-> FALSE, on_write_cb |-> FALSE]
    /\ handler = [output_list |-> << >>, active_response |-> NULL]
    /\ ready_list = << >>
    /\ server \in {"new", "off"}
    /\ crash = ""
    /\ history = [sent |-> << >>, malformed |-> FALSE, cut |-> FALSE]

Alive == server = "serving" /\ crash = ""

-----------------------------------------------------------------------------
(* The client and the kernel *)

Connected == server \notin {"new", "off"} /\ crash = ""

KernelOnly == UNCHANGED <<wire, demoInput, conn, handler, ready_list, server, crash, history>>

Deliver ==
    /\ Connected /\ peer = "up"
    /\ arrived' \in (arrived + 1)..Len(wire)
    /\ edge' = TRUE
    /\ UNCHANGED <<peer, unread, nospace>>
    /\ KernelOnly

\* A reset that follows the peer's FIN makes the next send fail with EPIPE.
Leave ==
    /\ Connected
    /\ \/ peer = "up" /\ peer' \in {"fin", "rst"}
       \/ peer = "fin" /\ peer' = "pipe"
    /\ edge' = TRUE
    /\ UNCHANGED <<arrived, unread, nospace>>
    /\ KernelOnly

ClientReads ==
    /\ Connected /\ peer \in {"up", "fin"}
    /\ unread > 0
    /\ unread' = 0
    /\ nospace' = FALSE
    /\ edge' = (edge \/ nospace)
    /\ UNCHANGED <<arrived, peer>>
    /\ KernelOnly

-----------------------------------------------------------------------------

Crashes(how) ==
    /\ crash' = how
    /\ UNCHANGED <<demoSocket, demoInput, conn, handler, ready_list, server, history>>

\* create_listener_socket: the first of its calls that fails ends the process.
ListenerCalls == {"socket", "setsockopt", "bind", "listen"}
demo_create_listener_socket(failing) == IF failing = {} THEN "" ELSE "bind"

\* DemoServer_listen registers the listener and runs the loop.
DemoServer_listen ==
    /\ server' = "listening"
    /\ UNCHANGED <<demoSocket, demoInput, conn, handler, ready_list, crash, history>>

DemoServer_new ==
    /\ server = "new" /\ crash = ""
    /\ \E failing \in SUBSET ListenerCalls :
          IF demo_create_listener_socket(failing) = "" THEN DemoServer_listen
          ELSE Crashes(demo_create_listener_socket(failing))

\* democonnection_read, which handle_request is the callback of.
democonnection_read(c, posted) ==
    CASE c.read_state = "idle" ->
            [c |-> [c EXCEPT !.read_state = "active", !.on_read_cb = TRUE],
             posted |-> Append(posted, "reader")]
      [] c.read_state = "eagained" -> [c |-> [c EXCEPT !.on_read_cb = TRUE], posted |-> posted]
      [] c.read_state = "stop" -> [c |-> [c EXCEPT !.on_read_cb = FALSE], posted |-> posted]

\* demohandler_new: a new handler, whose new connection is registered and reads.
demohandler_new ==
    LET started == democonnection_read(conn, ready_list)
    IN  /\ handler' = [output_list |-> << >>, active_response |-> NULL]
        /\ conn' = started.c
        /\ ready_list' = started.posted
        /\ edge' = TRUE

\* A failed accept is only reported, and -1 cannot be registered.
demo_on_event_listening ==
    /\ server = "listening" /\ crash = ""
    /\ \/ /\ demohandler_new
          /\ server' = "serving"
          /\ UNCHANGED <<wire, arrived, peer, unread, nospace, demoInput, crash, history>>
       \/ Crashes("accept")

read_epollin(c) ==
    IF c.read_state = "eagained" THEN [c EXCEPT !.read_state = "active"] ELSE c
write_epollout(c) ==
    IF c.write_state = "eagained" THEN [c EXCEPT !.write_state = "active"] ELSE c

\* Faulty form of event_handler: an event that tells of both directions is taken
\* for the one to write.
event_handlerOneDirection ==
    LET readable == arrived > taken \/ peer # "up"
        writable == unread < SndCap \/ peer \in {"rst", "pipe"}
        after == IF writable THEN write_epollout(conn) ELSE IF readable THEN read_epollin(conn) ELSE conn
    IN  /\ Alive
        /\ ready_list = << >>
        /\ edge
        /\ edge' = FALSE
        /\ conn' = after
        /\ ready_list' = IF after = conn THEN << >> ELSE IF writable THEN <<"writer">> ELSE <<"reader">>
        /\ UNCHANGED <<wire, arrived, peer, unread, nospace, demoInput, handler, server, crash, history>>

\* event_handler: one event may tell of both directions.
event_handler ==
    LET readable == arrived > taken \/ peer # "up"
        writable == unread < SndCap \/ peer \in {"rst", "pipe"}
        written == IF writable THEN write_epollout(conn) ELSE conn
        both == IF readable THEN read_epollin(written) ELSE written
    IN  /\ Alive
        /\ ready_list = << >>
        /\ edge
        /\ edge' = FALSE
        /\ conn' = both
        /\ ready_list' = (IF written # conn THEN <<"writer">> ELSE << >>)
                            \o (IF both # written THEN <<"reader">> ELSE << >>)
        /\ UNCHANGED <<wire, arrived, peer, unread, nospace, demoInput, handler, server, crash, history>>

\* The functor f is taken from the ready list; rest is what is left of it.
Runs(f) ==
    /\ Alive
    /\ ready_list # << >>
    /\ Head(ready_list) = f

rest == Tail(ready_list)

-----------------------------------------------------------------------------
(* Reading *)

handler_postable_read_start ==
    LET started == democonnection_read(conn, rest)
    IN  /\ Runs("read_start")
        /\ IF conn.read_state = "active"
           THEN Crashes("assert")
           ELSE /\ conn' = started.c
                /\ ready_list' = started.posted
                /\ UNCHANGED <<demoSocket, demoInput, handler, server, crash, history>>

\* handle_request, called without an error.
handle_request(h, request) ==
    [h |-> [h EXCEPT !.output_list = Append(@, process_request(request))],
     posts |-> (IF h.output_list = << >> THEN <<"write_start">> ELSE << >>) \o <<"read_start">>]

\* The callback gets the error and does nothing but report it.  A reset has been
\* told now: the next send gets EPIPE.
read_error ==
    /\ conn' = [conn EXCEPT !.read_state = "stop", !.on_read_cb = FALSE]
    /\ ready_list' = Append(rest, "cleanup")
    /\ peer' = IF peer = "rst" THEN "pipe" ELSE peer
    /\ UNCHANGED <<demoInput, handler, history>>

\* Faulty form of on_read_complete: the state stays active.
on_read_completeActive(m) ==
    LET answered == handle_request(handler, m)
    IN  /\ conn' = [conn EXCEPT !.on_read_cb = FALSE]
        /\ IF m = NULL
           THEN ready_list' = rest /\ UNCHANGED <<handler, history>>
           ELSE /\ handler' = answered.h
                /\ ready_list' = rest \o answered.posts
                /\ UNCHANGED history

\* on_read_complete, called by the parser with a message, or with NULL for an error.
on_read_complete(m) ==
    LET answered == handle_request(handler, m)
    IN  /\ conn' = [conn EXCEPT !.read_state = "idle", !.on_read_cb = FALSE]
        /\ IF m = NULL
           THEN /\ ready_list' = rest
                /\ history' = [history EXCEPT !.malformed = TRUE]
                /\ UNCHANGED handler
           ELSE /\ handler' = answered.h
                /\ ready_list' = rest \o answered.posts
                /\ UNCHANGED history

\* What is left in the input buffer is parsed before more is received.
reader ==
    LET upto == IF parsed = taken THEN arrived ELSE taken
    IN  \/ /\ upto > parsed
           /\ taken' = upto
           /\ \E r \in {DemoParser_consume(parser, SubSeq(wire, parsed + 1, upto))} :
                 /\ parsed' = parsed + r.used
                 /\ parser' = r.p
                 /\ IF r.done THEN on_read_complete(r.message)
                    ELSE /\ ready_list' = Append(rest, "reader")
                         /\ UNCHANGED <<conn, handler, history>>
           /\ UNCHANGED peer
        \/ /\ upto = parsed /\ peer = "up"
           /\ conn' = [conn EXCEPT !.read_state = "eagained"]
           /\ ready_list' = rest
           /\ UNCHANGED <<peer, demoInput, handler, history>>
        \/ /\ upto = parsed /\ peer # "up"
           /\ read_error

postable_reader ==
    /\ Runs("reader")
    /\ IF conn.read_state = "stop"
       THEN Crashes("null")
       ELSE /\ reader
            /\ UNCHANGED <<wire, arrived, unread, nospace, edge, server, crash>>

-----------------------------------------------------------------------------
(* Writing *)

\* In democonnection_write the assignment of WRITE_STATE_ACTIVE is a comparison: the
\* state stays idle.
democonnection_write(c) == [c EXCEPT !.on_write_cb = TRUE, !.out = Units]

postable_write_start ==
    /\ Runs("write_start")
    /\ IF handler.active_response # NULL \/ handler.output_list = << >>
       THEN /\ ready_list' = rest
            /\ UNCHANGED <<demoSocket, demoInput, conn, handler, server, crash, history>>
       ELSE IF conn.write_state # "idle" THEN Crashes("assert")
       ELSE /\ handler' = [output_list |-> Tail(handler.output_list),
                           active_response |-> Head(handler.output_list)]
            /\ conn' = democonnection_write(conn)
            /\ ready_list' = Append(rest, "writer")
            /\ UNCHANGED <<demoSocket, demoInput, server, crash, history>>

\* The handler's on_write_complete_cb, whatever the status.
on_write_complete_cb(h) ==
    [h |-> [h EXCEPT !.active_response = NULL],
     posts |-> IF Len(h.output_list) = 1 THEN <<"write_start">> ELSE << >>]

write_error ==
    LET done == on_write_complete_cb(handler)
    IN  /\ conn' = [conn EXCEPT !.write_state = "stop", !.on_write_cb = FALSE]
        /\ handler' = done.h
        /\ ready_list' = rest \o done.posts \o <<"cleanup">>
        /\ peer' = "pipe"
        /\ UNCHANGED <<unread, nospace, history>>

\* A send is refused, takes part of what is left of the reply, or takes it all.
writer ==
    LET room == SndCap - unread
        n == IF conn.out < room THEN conn.out ELSE room
    IN  CASE peer = "rst" -> write_error
          [] peer # "rst" /\ n = 0 ->
                /\ conn' = [conn EXCEPT !.write_state = "eagained"]
                /\ nospace' = TRUE
                /\ ready_list' = rest
                /\ history' = [history EXCEPT !.cut = TRUE]
                /\ UNCHANGED <<peer, unread, handler>>
          [] peer # "rst" /\ n > 0 ->
                /\ unread' = unread + n
                /\ UNCHANGED <<peer, nospace, handler>>
                /\ IF n = conn.out
                   THEN /\ conn' = [conn EXCEPT !.write_state = "idle", !.out = 0]
                        /\ ready_list' = Append(rest, "write_call_cb")
                        /\ history' = [history EXCEPT !.sent = Append(@, handler.active_response)]
                   ELSE /\ conn' = [conn EXCEPT !.write_state = "active", !.out = @ - n]
                        /\ ready_list' = Append(rest, "writer")
                        /\ history' = [history EXCEPT !.cut = TRUE]

\* The state of a write that goes on is not idle, and the assertion fails.
postable_writer ==
    /\ Runs("writer")
    /\ IF conn.write_state = "stop" THEN Crashes("null")
       ELSE IF conn.write_state # "idle" THEN Crashes("assert")
       ELSE IF peer = "pipe" THEN Crashes("signal")
       ELSE /\ writer
            /\ UNCHANGED <<wire, arrived, edge, demoInput, server, crash>>

postable_write_call_cb ==
    LET done == on_write_complete_cb(handler)
    IN  /\ Runs("write_call_cb")
        /\ IF ~conn.on_write_cb THEN Crashes("assert")
           ELSE /\ handler' = done.h
                /\ ready_list' = rest \o done.posts
                /\ UNCHANGED <<demoSocket, demoInput, conn, server, crash, history>>

-----------------------------------------------------------------------------
(* postable_cleanup deregisters the watcher, and on_handler_completion_cb   *)
(* takes the handler from the server's list, which frees it with its       *)
(* connection.  A functor that is still in the ready list then runs on     *)
(* freed memory.                                                           *)

\* demohandler_free, of the handler and of its connection.
demohandler_free == server' = "closed"

\* on_handler_completion_cb removes the handler from the list, which owns it.
on_handler_completion_cb == demohandler_free

postable_cleanup ==
    /\ Runs("cleanup")
    /\ on_handler_completion_cb
    /\ ready_list' = rest
    /\ UNCHANGED <<demoSocket, demoInput, conn, handler, crash, history>>

RunFreed ==
    /\ server = "closed" /\ crash = ""
    /\ ready_list # << >>
    /\ Crashes("freed")

DemoStep ==
    \/ DemoServer_new
    \/ demo_on_event_listening
    \/ event_handler
    \/ handler_postable_read_start
    \/ postable_reader
    \/ postable_write_start
    \/ postable_writer
    \/ postable_write_call_cb
    \/ postable_cleanup
    \/ RunFreed

DemoNext == Deliver \/ Leave \/ ClientReads \/ DemoStep

\* The reactor's thread goes on, what was sent arrives, and the client reads.
DemoFairness ==
    /\ WF_demoVars(DemoStep)
    /\ WF_demoVars(Deliver)
    /\ WF_demoVars(ClientReads)

-----------------------------------------------------------------------------
(* Properties *)

\* The bodies of the frames in s, in the order of their first bytes: a reading of
\* the protocol that knows nothing of the parser's states.
FrameAt(s, i) ==
    \E j \in (i + 3)..(Len(s) - 1) :
        /\ s[i] = "SOH" /\ s[i + 1] \in {"Q", "R"} /\ s[i + 2] = "STX" /\ s[j] = "ETX"
        /\ \A k \in (i + 3)..(j - 1) : s[k] \in Printable

BodyAt(s, i) ==
    LET j == CHOOSE j \in (i + 3)..Len(s) :
                s[j] = "ETX" /\ \A k \in (i + 3)..(j - 1) : s[k] # "ETX"
    IN  SubSeq(s, i + 3, j - 1)

Frames(s) == {i \in 1..Len(s) : FrameAt(s, i)}

\* Nothing but frames, each followed by EOT.
WellFormed(s) ==
    \A i \in 1..Len(s) : (s[i] = "SOH" => i \in Frames(s)) /\ (i = 1 => s[i] = "SOH")

EndsWith(s, t) == Len(t) <= Len(s) /\ SubSeq(s, Len(s) - Len(t) + 1, Len(s)) = t

\* However the bytes are cut into pieces, each reply echoes a frame the client sent,
\* no two the same one, and in their order.  After a broken frame a reply may begin
\* with what the broken one left in m_current_message_ptr, which error recovery
\* keeps; the replies to well-formed input are exact (DemoParser_consume).
EchoInOrder ==
    \E f \in [1..Len(history.sent) -> Frames(wire)] :
        \A k \in 1..Len(history.sent) :
            /\ EndsWith(history.sent[k], BodyAt(wire, f[k]))
            /\ WellFormed(wire) => history.sent[k] = BodyAt(wire, f[k])
            /\ k > 1 => f[k - 1] < f[k]

\* When the loop has nothing to run, the connection waits for epoll in both
\* directions: it is reading, unless the parser reported an error (handle_request
\* then starts no other read), and no reply is left unless the socket is full
\* (democonnection_read, on_write_complete_cb).
NotStuck ==
    Alive /\ ready_list = << >> =>
        /\ conn.read_state = "eagained" \/ history.malformed
        /\ handler.output_list # << >> \/ handler.active_response # NULL => conn.write_state = "eagained"

\* The assertions of democonnection_read, democonnection_write, postable_writer and
\* postable_write_call_cb hold as long as every send takes a whole reply, and no
\* callback is called that is NULL.
AssertsOnlyAfterShortSend ==
    /\ crash = "assert" => history.cut
    /\ crash # "null"

\* "This must be the last democonnection function to run and it should only run
\* once": postable_cleanup is the last one unless a write has failed.
CleanUpIsLast == crash = "freed" => conn.write_state = "stop"

\* A client that stays, and whose frames are well-formed, gets an answer to each,
\* unless the server cannot start, accept fails or a send falls short of the reply
\* (the chain handle_request, postable_write_start, postable_writer,
\* postable_write_call_cb).
FramesAnswered ==
    WellFormed(wire) /\ [](peer = "up") =>
        <>(\/ Len(history.sent) = Cardinality(Frames(wire))
           \/ crash \in {"bind", "accept"} \/ history.cut \/ server = "off")

\* The connection goes on unless its client breaks the protocol, a send fails or
\* is short.
DemoGoesOn == NotStuck /\ AssertsOnlyAfterShortSend /\ CleanUpIsLast

DemoSpec == DemoInit /\ [][DemoNext]_demoVars
=============================================================================
