------------------------------ MODULE OldServer ------------------------------
(***************************************************************************)
(* http_in_c/async-old: the first asynchronous server, kept in the tree    *)
(* and not built.  A TcpConn reads one request with a level triggered      *)
(* handler, posts the message callback, and writes one response.  The      *)
(* connection is neither read again nor closed.                            *)
(*                                                                         *)
(* A request arrives as tokens: "blank" for empty lines before it, "part"  *)
(* for bytes that do not complete it, "end" for the ones that do, "bad"    *)
(* for bytes the parser rejects.  The parser of that time is that of       *)
(* saved/parser_old.c, around the http_parser library.  Responses are      *)
(* counted in units that the kernel may take one by one.                   *)
(***************************************************************************)
EXTENDS Naturals, Sequences, FiniteSetsExt

CONSTANTS OldConns,     \* connections clients make
          Requests,     \* what a client may send, as sequences of tokens
          ResponseLen,  \* units of a response
          OldRoom       \* units the kernel takes before the client reads

ASSUME OldServerAssumption ==
    /\ ResponseLen \in Nat \ {0}
    /\ OldRoom \in Nat \ {0}
    /\ \A r \in Requests : r \in Seq({"blank", "part", "end", "bad"})

VARIABLES olisten,      \* what was done to the listening socket
          tosend,       \* tosend[c]: what the client has not sent yet
          oarrived,     \* oarrived[c]: received, not read by the server
          oend,         \* oend[c]: the client's end: "open", "eof", "reset", or
                        \* "pipe": reset after its end of file
          tcp,          \* tcp[c]: the TcpConn, or its state before accept
          oroom,        \* oroom[c]: space in c's send buffer
          posted,       \* the reactor's run list: functions with their TcpConn
          odead         \* "no", or what ended or stopped the process

oldVars == <<olisten, tosend, oarrived, oend, tcp, oroom, posted, odead>>

NoTcp == [state |-> "none", read |-> FALSE, write |-> FALSE, msg |-> "none",
          iobuf |-> << >>, rc |-> "none", handler |-> FALSE, left |-> 0,
          reported |-> FALSE]

OldInit ==
    /\ olisten = {}
    /\ tosend \in [OldConns -> Requests]
    /\ oarrived = [c \in OldConns |-> << >>]
    /\ oend = [c \in OldConns |-> "open"]
    /\ tcp = [c \in OldConns |-> NoTcp]
    /\ oroom = [c \in OldConns |-> OldRoom]
    /\ posted = << >>
    /\ odead = "no"

\* The calls of create_listener_socket are asserted to succeed.
create_listener_socket == {"reuseaddr", "bound", "listening"}
set_non_blocking(s) == s \cup {"nonblocking"}

\* AsyncServer_listen up to the run loop; the port may be taken.
AsyncServer_listen ==
    /\ olisten = {}
    /\ \/ olisten' = set_non_blocking(create_listener_socket) /\ UNCHANGED odead
       \/ odead' = "listen" /\ UNCHANGED olisten
    /\ UNCHANGED <<tosend, oarrived, oend, tcp, oroom, posted>>

\* A connection with a message of its own.
TcpConn_new == [NoTcp EXCEPT !.state = "open", !.msg = "empty"]

free_req_message(t) == [t EXCEPT !.msg = "none"]

\* The parser starts on the given message, or on a new one.
TcpConn_prepare_read(t) == [t EXCEPT !.msg = "empty"]

\* TcpConn_read_msg: the given message replaces the connection's, and the watcher
\* is registered and armed to read.
TcpConn_read_msg(t) == [TcpConn_prepare_read(t) EXCEPT !.read = TRUE]

on_event_listening(c) ==
    /\ "listening" \in olisten
    /\ tcp[c].state = "none"
    /\ tcp' = [tcp EXCEPT ![c] = TcpConn_read_msg(TcpConn_new)]
    /\ UNCHANGED <<olisten, tosend, oarrived, oend, oroom, posted, odead>>

\* A failed accept is logged, and the watcher of descriptor -1 cannot be
\* registered.
AcceptFails ==
    /\ "listening" \in olisten
    /\ \E c \in OldConns : tcp[c].state = "none"
    /\ odead' = "accept"
    /\ UNCHANGED <<olisten, tosend, oarrived, oend, tcp, oroom, posted>>

-----------------------------------------------------------------------------
\* Where the bytes of the buffer and of the socket end a message.
Decisive(s) ==
    LET hits == {i \in DOMAIN s : s[i] \in {"end", "bad"}}
    IN  IF hits = {} THEN 0 ELSE Min(hits)

\* How far Parser_consume has got when it has taken the tokens s and none of
\* them ends the message.
Consumed(msg, s) ==
    IF msg = "started" \/ \E i \in DOMAIN s : s[i] = "part" THEN "started"
    ELSE IF s # << >> THEN "blank" ELSE msg

\* Parser_consume with no bytes, after the client has closed.  http_parser takes
\* it for the end of the input: a message without a length is complete, any
\* other is an error, for which it counts no byte or one as parsed; with one,
\* IOBuffer_consume is to take more than there is, and asserts.  Before the
\* first byte of a message nothing happens, and the loop of TcpConn_read does
\* not end.
Parser_consume_eof(t) ==
    IF t.msg = "blank" THEN {[t EXCEPT !.rc = "spin"]}
    ELSE { [t EXCEPT !.rc = "XRD_EOM", !.msg = "done"],
           [free_req_message(t) EXCEPT !.rc = "XRD_PERROR"],
           [t EXCEPT !.rc = "consume"] }

\* TcpConn_read, called until it returns something else than "more data": a
\* request is complete and what follows it stays in the buffer; the parser
\* rejects it; an I/O error; nothing more has arrived; or the client closed,
\* before a byte of it or later.  The set of what it may leave.
TcpConn_read(c) ==
    LET s == tcp[c].iobuf \o oarrived[c]
        d == Decisive(s)
        t == [tcp[c] EXCEPT !.msg = Consumed(@, s), !.iobuf = << >>]
    IN IF d > 0
       THEN IF s[d] = "end"
            THEN {[t EXCEPT !.rc = "XRD_EOM", !.msg = "done",
                            !.iobuf = SubSeq(s, d + 1, Len(s))]}
            ELSE {[free_req_message(t) EXCEPT !.rc = "XRD_PERROR"]}
       ELSE IF oend[c] = "open" THEN {[t EXCEPT !.rc = "XRD_EAGAIN"]}
       ELSE IF oend[c] = "reset"
       THEN {[free_req_message(t) EXCEPT !.rc = "XRD_ERROR"]}
       ELSE IF t.msg = "empty" THEN {[free_req_message(t) EXCEPT !.rc = "XRD_EOF"]}
       ELSE Parser_consume_eof(t)

\* What TcpConn_read does not return from.
Stops == {"spin", "consume"}

\* Faulty form: EAGAIN disarms the watcher as the other results do.
read_msg_handlerDisarms(c) ==
    /\ tcp[c].read
    /\ oarrived[c] # << >> \/ oend[c] # "open"
    /\ \E t \in TcpConn_read(c) :
          /\ oarrived' = [oarrived EXCEPT ![c] = << >>]
          /\ tcp' = [tcp EXCEPT ![c] = [t EXCEPT !.read = FALSE]]
          /\ posted' = IF t.rc \in {"XRD_EAGAIN"} \cup Stops THEN posted
                       ELSE Append(posted, <<"on_post_read_msg", c>>)
          /\ odead' = IF t.rc \in Stops THEN t.rc ELSE odead
    /\ UNCHANGED <<olisten, tosend, oend, oroom>>

\* read_msg_handler, on a readable socket: after EAGAIN the watcher stays
\* armed, after every other result it is disarmed and the callback is posted.
read_msg_handler(c) ==
    /\ tcp[c].read
    /\ oarrived[c] # << >> \/ oend[c] # "open"
    /\ \E t \in TcpConn_read(c) :
          /\ oarrived' = [oarrived EXCEPT ![c] = << >>]
          /\ tcp' = [tcp EXCEPT ![c] = [t EXCEPT !.read = t.rc = "XRD_EAGAIN"]]
          /\ posted' = IF t.rc \in {"XRD_EAGAIN"} \cup Stops THEN posted
                       ELSE Append(posted, <<"on_post_read_msg", c>>)
          /\ odead' = IF t.rc \in Stops THEN t.rc ELSE odead
    /\ UNCHANGED <<olisten, tosend, oend, oroom>>

\* The buffer to write is set and the watcher armed.
TcpConn_write(t, n) == [t EXCEPT !.left = n, !.write = TRUE]

\* XrSimpleHandler, and XrEchoHandler alike: the response is made, serialised
\* and written.
XrSimpleHandler(t) == TcpConn_write(t, ResponseLen)

XrHandler_function(t) == XrSimpleHandler([t EXCEPT !.handler = TRUE])

\* on_message ignores the status: after an end of file or an error the message
\* that it has serialised is NULL.
on_message(c) ==
    IF tcp[c].msg = "none" THEN odead' = "null message" /\ UNCHANGED tcp
    ELSE /\ tcp' = [tcp EXCEPT ![c] = XrHandler_function(@)]
         /\ UNCHANGED odead

\* write_complete_post_func always reports status 0 to on_write_cb, which
\* calls on_done.
write_complete_post_func(c) ==
    /\ tcp' = [tcp EXCEPT ![c].reported = TRUE]
    /\ UNCHANGED odead

\* on_post_read_msg and write_complete_post_func are taken from the run list.
RunPosted ==
    /\ posted # << >>
    /\ posted' = Tail(posted)
    /\ LET c == Head(posted)[2]
       IN IF Head(posted)[1] = "on_post_read_msg" THEN on_message(c)
                                                  ELSE write_complete_post_func(c)
    /\ UNCHANGED <<olisten, tosend, oarrived, oend, oroom>>

\* write_machine, on a writable socket: sends until the buffer is empty, the
\* kernel has no room (the watcher stays armed) or an error.
write_machine(c) ==
    /\ tcp[c].write
    /\ oroom[c] > 0 \/ oend[c] = "reset"
    /\ oend[c] # "pipe"
    /\ IF oend[c] = "reset"
       THEN /\ tcp' = [tcp EXCEPT ![c].write = FALSE]
            /\ posted' = Append(posted, <<"write_complete_post_func", c>>)
            /\ UNCHANGED oroom
       ELSE LET n == IF tcp[c].left < oroom[c] THEN tcp[c].left ELSE oroom[c]
                done == n = tcp[c].left
            IN /\ oroom' = [oroom EXCEPT ![c] = @ - n]
               /\ tcp' = [tcp EXCEPT ![c].left = @ - n, ![c].write = ~done]
               /\ posted' = IF done
                            THEN Append(posted, <<"write_complete_post_func", c>>)
                            ELSE posted
    /\ UNCHANGED <<olisten, tosend, oarrived, oend, odead>>

\* Its send finds that the client has closed and then reset: EPIPE, and without
\* MSG_NOSIGNAL the process gets SIGPIPE.
write_machine_sigpipe(c) ==
    /\ tcp[c].write
    /\ oend[c] = "pipe"
    /\ odead' = "SIGPIPE"
    /\ UNCHANGED <<olisten, tosend, oarrived, oend, tcp, oroom, posted>>

-----------------------------------------------------------------------------
\* The clients: send the next token, stop sending or reset, read.
OldClient(c) ==
    \/ /\ oend[c] = "open" /\ tosend[c] # << >>
       /\ oarrived' = [oarrived EXCEPT ![c] = Append(@, Head(tosend[c]))]
       /\ tosend' = [tosend EXCEPT ![c] = Tail(@)]
       /\ UNCHANGED <<olisten, oend, tcp, oroom, posted, odead>>
    \/ /\ \/ oend[c] = "open" /\ \E e \in {"eof", "reset"} : oend' = [oend EXCEPT ![c] = e]
          \/ oend[c] = "eof" /\ oend' = [oend EXCEPT ![c] = "pipe"]
       /\ UNCHANGED <<olisten, tosend, oarrived, tcp, oroom, posted, odead>>

OldClientReads(c) ==
    /\ oroom[c] < OldRoom
    /\ oroom' = [oroom EXCEPT ![c] = @ + 1]
    /\ UNCHANGED <<olisten, tosend, oarrived, oend, tcp, posted, odead>>

\* A posted function runs before the next event is waited for.
OldLoop ==
    \/ RunPosted
    \/ /\ posted = << >>
       /\ \E c \in OldConns :
             \/ on_event_listening(c) \/ read_msg_handler(c)
             \/ write_machine(c) \/ write_machine_sigpipe(c)

OldNext ==
    /\ odead = "no"
    /\ \/ OldLoop
       \/ AsyncServer_listen
       \/ posted = << >> /\ AcceptFails
       \/ \E c \in OldConns : OldClient(c) \/ OldClientReads(c)

OldSpec == OldInit /\ [][OldNext]_oldVars

-----------------------------------------------------------------------------
\* A completion that is reported for a connection that was not reset means
\* that the whole response was handed to the kernel, however often the kernel
\* had no room in between; and write_machine is never called for an empty
\* buffer, on which it asserts (tcp_conn_write.c:91-129).
ReportedMeansWritten ==
    \A c \in OldConns :
        /\ tcp[c].reported => tcp[c].left = 0 \/ oend[c] = "reset"
        /\ tcp[c].write => tcp[c].left # 0

\* Once it listens, one client can stop the server for all others, but only in
\* these ways: the handler is called without a message, after a connection
\* ended or was rejected before its request was complete (async_server.c:118);
\* the client closed after empty lines, or in the middle of a request
\* (tcp_conn_read_msg.c:244-278); or it closed and reset before the response
\* was written (tcp_conn_write.c:97).
StopHasCause ==
    /\ odead = "null message" =>
          \E c \in OldConns : tcp[c].rc \in {"XRD_EOF", "XRD_ERROR", "XRD_PERROR"}
    /\ odead = "spin" =>
          \E c \in OldConns : oend[c] \in {"eof", "pipe"} /\ tcp[c].msg = "blank"
    /\ odead = "consume" =>
          \E c \in OldConns : oend[c] \in {"eof", "pipe"} /\ tcp[c].msg = "started"
    /\ odead = "SIGPIPE" =>
          \E c \in OldConns : oend[c] = "pipe" /\ tcp[c].left # 0

\* An accepted connection is never forgotten: it is watched for what it waits
\* for, a function is posted for it, or its one response is reported; the
\* watcher that one event leaves armed and the next disarms is right for every
\* cut of the request into events and of the response into sends
\* (tcp_conn_read_msg.c:191-216, tcp_conn_write.c:101-127).
ConnectionNotForgotten ==
    odead = "no" =>
        \A c \in OldConns :
            \/ tcp[c].state = "none"
            \/ tcp[c].read \/ tcp[c].write
            \/ \E i \in DOMAIN posted : posted[i][2] = c
            \/ tcp[c].reported

\* An accepted connection gets its response reported, as written, or waits for
\* something that comes, unless a client has stopped the server in one of the
\* four ways above.
OldServerAnswers ==
    /\ ConnectionNotForgotten
    /\ ReportedMeansWritten
    /\ StopHasCause
=============================================================================
