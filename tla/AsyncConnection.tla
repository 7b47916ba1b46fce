-------------------------- MODULE AsyncConnection --------------------------
(***************************************************************************)
(* http_in_c/async: one connection of the event-driven server, with the    *)
(* handler that owns it (connection_*.c, async_handler.c).                 *)
(*                                                                         *)
(* A connection reads a request, has it handled, writes the response and   *)
(* reads again.  The functions that wait do so by returning: they leave    *)
(* a state (EAGAINED) that an fd event moves on, or a functor on the       *)
(* reactor's ready list.  Each operator below is one of these functions;   *)
(* rl is the ready list at the point of its call.                          *)
(*                                                                         *)
(* errno is the thread's: a successful recv leaves the value of the last   *)
(* call that failed, on whatever connection, and reader looks at it.       *)
(***************************************************************************)
EXTENDS Reactor

CONSTANTS RecvMax,    \* read_buffer_size: the most one recv returns
          RespLen     \* length of a serialized response

VARIABLES read_state,
          write_state,
          readside_posted,
          scratch_request,  \* scratch_request[c]: is a request held for the handler?
          output,           \* what is left of active_output_buffer_ref; 0 for NULL
          parser_error,     \* llhttp has failed: it fails again on every later call
          answered,         \* history: responses completely handed to the socket
          errno,
          handler_list      \* the handlers, and with them connections, of the server

connection == <<read_state, write_state, readside_posted, scratch_request,
                output, parser_error, answered>>

States == {"IDLE", "ACTIVE", "EAGAINED", "STOP"}

\* async_connection_init; a freed connection returns to these values.
ConnectionInit ==
    /\ read_state = [c \in Conns |-> "IDLE"]
    /\ write_state = [c \in Conns |-> "IDLE"]
    /\ readside_posted = [c \in Conns |-> FALSE]
    /\ scratch_request = [c \in Conns |-> FALSE]
    /\ output = [c \in Conns |-> 0]
    /\ parser_error = [c \in Conns |-> FALSE]
    /\ answered = [c \in Conns |-> 0]
    /\ errno = "other"
    /\ handler_list = {}

-----------------------------------------------------------------------------
(* The read side *)

\* The bytes that recv returns.
Received(c) == IF Len(rx[c]) <= RecvMax THEN rx[c] ELSE SubSeq(rx[c], 1, RecvMax)

\* async_on_read_message_complete is called during the parse.
HasMessage(c) ==
    /\ ~parser_error[c]
    /\ \E i \in 1..Len(Received(c)) :
          /\ Received(c)[i] \in {"last", "close"}
          /\ \A j \in 1..i : Received(c)[j] # "bad"

\* http_parser_consume returns something other than HPE_OK.
ParseFails(c) == parser_error[c] \/ \E i \in 1..Len(Received(c)) : Received(c)[i] = "bad"

Recv(c) ==
    /\ rx' = [rx EXCEPT ![c] = SubSeq(@, Len(Received(c)) + 1, Len(@))]
    /\ parser_error' = [parser_error EXCEPT ![c] = ParseFails(c)]

NothingReceived(c) ==
    /\ rx[c] = << >>
    /\ UNCHANGED <<rx, parser_error>>

\* Later messages of the same buffer overwrite input_message_ptr: one request
\* is handed on however many were completed.
read_new_message(c, rl) ==
    /\ HasMessage(c)
    /\ Recv(c)
    /\ read_state' = [read_state EXCEPT ![c] = "IDLE"]
    /\ scratch_request' = [scratch_request EXCEPT ![c] = TRUE]
    /\ readside_posted' = [readside_posted EXCEPT ![c] = FALSE]
    /\ ready_list' = Posted(rl, "postable_handle_request", c)
    /\ UNCHANGED <<errno, write_state>>

\* nread > 0 with a left-over EAGAIN, or nread < 0 with a fresh one.
read_eagain(c, rl) ==
    /\ \/ /\ rx[c] # << >>
          /\ ~HasMessage(c)
          /\ errno = "EAGAIN"
          /\ Recv(c)
          /\ UNCHANGED errno
       \/ /\ NothingReceived(c)
          /\ peer[c] = "up"
          /\ errno' = "EAGAIN"
    /\ read_state' = [read_state EXCEPT ![c] = "EAGAINED"]
    /\ readside_posted' = [readside_posted EXCEPT ![c] = FALSE]
    /\ ready_list' = rl
    /\ UNCHANGED <<write_state, scratch_request>>

read_need_data(c, rl) ==
    /\ rx[c] # << >>
    /\ ~HasMessage(c)
    /\ errno # "EAGAIN"
    /\ ~ParseFails(c)
    /\ Recv(c)
    /\ read_state' = [read_state EXCEPT ![c] = "ACTIVE"]
    /\ readside_posted' = [readside_posted EXCEPT ![c] = TRUE]
    /\ ready_list' = Posted(rl, "postable_reader", c)
    /\ UNCHANGED <<errno, write_state, scratch_request>>

\* Faulty form of read_error: the close is not posted.
read_errorUnposted(c, rl) ==
    /\ \/ /\ rx[c] # << >>
          /\ ~HasMessage(c)
          /\ errno # "EAGAIN"
          /\ ParseFails(c)
          /\ Recv(c)
          /\ UNCHANGED errno
       \/ /\ NothingReceived(c)
          /\ peer[c] # "up"
          /\ errno' = IF peer[c] = "rst" THEN "other" ELSE errno
    /\ read_state' = [read_state EXCEPT ![c] = "STOP"]
    /\ write_state' = [write_state EXCEPT ![c] = "STOP"]
    /\ readside_posted' = [readside_posted EXCEPT ![c] = FALSE]
    /\ ready_list' = rl
    /\ UNCHANGED scratch_request

\* A parse error, end of file (nread = 0) or a failed recv.
read_error(c, rl) ==
    /\ \/ /\ rx[c] # << >>
          /\ ~HasMessage(c)
          /\ errno # "EAGAIN"
          /\ ParseFails(c)
          /\ Recv(c)
          /\ UNCHANGED errno
       \/ /\ NothingReceived(c)
          /\ peer[c] # "up"
          /\ errno' = IF peer[c] = "rst" THEN "other" ELSE errno
    /\ read_state' = [read_state EXCEPT ![c] = "STOP"]
    /\ write_state' = [write_state EXCEPT ![c] = "STOP"]
    /\ readside_posted' = [readside_posted EXCEPT ![c] = FALSE]
    /\ ready_list' = Posted(rl, "postable_close_connection", c)
    /\ UNCHANGED scratch_request

\* reader: recv, parse, and what follows from the outcome.
reader(c, rl) ==
    /\ \/ read_new_message(c, rl)
       \/ read_eagain(c, rl)
       \/ read_need_data(c, rl)
       \/ read_error(c, rl)
    /\ UNCHANGED <<peer, tx, nospace, output, answered>>

\* async_connection_read: nothing can be posted on the read side of an IDLE
\* connection (HalfDuplex in AsyncServer), so the call always enters reader.
async_connection_read(c, rl) ==
    /\ ~readside_posted[c]
    /\ reader(c, rl)

postable_reader(c) ==
    /\ RunFunctor("postable_reader", c)
    /\ reader(c, Tail(ready_list))
    /\ UNCHANGED <<loop, table, edge, backlog, handler_list>>

-----------------------------------------------------------------------------
(* The handler: request in, response out *)

\* postable_handle_request, handle_request, the application's process_request
\* (which answers before it returns), async_handler_handle_response and
\* async_connection_write.  The Connection header of the request only selects
\* a header of the response.
postable_handle_request(c) ==
    /\ RunFunctor("postable_handle_request", c)
    /\ scratch_request' = [scratch_request EXCEPT ![c] = FALSE]
    /\ output' = [output EXCEPT ![c] = RespLen]
    /\ write_state' = [write_state EXCEPT ![c] = "ACTIVE"]
    /\ ready_list' = Posted(Tail(ready_list), "async_postable_writer", c)
    /\ UNCHANGED <<loop, table, sockets, read_state, readside_posted, parser_error,
                   answered, errno, handler_list>>

-----------------------------------------------------------------------------
(* The write side: async_postable_writer, writer *)

Space(c) == SndCap - tx[c]

\* send fails: nothing of the response is sent.
SendFails(c) == UNCHANGED <<tx, output, answered>>

write_complete(c) ==
    /\ peer[c] \in {"up", "fin"}
    /\ output[c] <= Space(c)
    /\ tx' = [tx EXCEPT ![c] = @ + output[c]]
    /\ output' = [output EXCEPT ![c] = 0]
    /\ write_state' = [write_state EXCEPT ![c] = "IDLE"]
    /\ answered' = [answered EXCEPT ![c] = @ + 1]
    /\ ready_list' = Posted(Tail(ready_list), "postable_write_complete", c)
    /\ UNCHANGED <<loop, nospace, errno, read_state>>

write_incomplete(c) ==
    /\ peer[c] \in {"up", "fin"}
    /\ Space(c) > 0
    /\ output[c] > Space(c)
    /\ tx' = [tx EXCEPT ![c] = SndCap]
    /\ nospace' = [nospace EXCEPT ![c] = TRUE]
    /\ output' = [output EXCEPT ![c] = @ - Space(c)]
    /\ ready_list' = Posted(Tail(ready_list), "async_postable_writer", c)
    /\ UNCHANGED <<loop, errno, answered, read_state, write_state>>

write_eagain(c) ==
    /\ peer[c] \in {"up", "fin"}
    /\ Space(c) = 0
    /\ nospace' = [nospace EXCEPT ![c] = TRUE]
    /\ errno' = "EAGAIN"
    /\ write_state' = [write_state EXCEPT ![c] = "EAGAINED"]
    /\ ready_list' = Tail(ready_list)
    /\ SendFails(c)
    /\ UNCHANGED <<loop, read_state>>

write_error(c) ==
    /\ peer[c] = "rst"
    /\ errno' = "other"
    /\ read_state' = [read_state EXCEPT ![c] = "STOP"]
    /\ write_state' = [write_state EXCEPT ![c] = "STOP"]
    /\ ready_list' = Posted(Tail(ready_list), "postable_close_connection", c)
    /\ SendFails(c)
    /\ UNCHANGED <<loop, nospace>>

\* send is called without MSG_NOSIGNAL and nothing ignores SIGPIPE.
sigpipe(c) ==
    /\ peer[c] = "pipe"
    /\ loop' = "killed"
    /\ SendFails(c)
    /\ UNCHANGED <<ready_list, nospace, errno, read_state, write_state>>

async_postable_writer(c) ==
    /\ RunFunctor("async_postable_writer", c)
    /\ \/ write_complete(c)
       \/ write_incomplete(c)
       \/ write_eagain(c)
       \/ write_error(c)
       \/ sigpipe(c)
    /\ UNCHANGED <<table, peer, rx, edge, backlog, readside_posted, scratch_request,
                   parser_error, handler_list>>

\* handle_write_complete starts the next read whatever the request asked for.
postable_write_complete(c) ==
    /\ RunFunctor("postable_write_complete", c)
    /\ async_connection_read(c, Tail(ready_list))
    /\ UNCHANGED <<loop, table, edge, backlog, handler_list>>

-----------------------------------------------------------------------------
(* Events and the end of a connection *)

WriteResumes(c) == "OUT" \in mask[c] /\ write_state[c] = "EAGAINED"
ReadResumes(c) == "IN" \in mask[c] /\ read_state[c] = "EAGAINED"

\* write_epollout if out, then read_epollin if in.
Resume(c, out, in) ==
    LET afterOut == IF out THEN Posted(ready_list, "async_postable_writer", c)
                    ELSE ready_list
    IN  /\ Dispatch(c)
        /\ write_state' = [write_state EXCEPT ![c] = IF out THEN "ACTIVE" ELSE @]
        /\ read_state' = [read_state EXCEPT ![c] = IF in THEN "ACTIVE" ELSE @]
        /\ readside_posted' = [readside_posted EXCEPT ![c] = in \/ @]
        /\ ready_list' = IF in THEN Posted(afterOut, "postable_reader", c) ELSE afterOut
        /\ UNCHANGED <<table, sockets, scratch_request, output, parser_error, answered,
                       errno, handler_list>>

\* Faulty forms of async_event_handler: only one of the two bits is looked at.
async_event_handlerOutElseIn(c) ==
    Resume(c, WriteResumes(c), "OUT" \notin mask[c] /\ ReadResumes(c))
async_event_handlerInElseOut(c) ==
    Resume(c, "IN" \notin mask[c] /\ WriteResumes(c), ReadResumes(c))

\* An event that finds its side in another state is dropped.
async_event_handler(c) == Resume(c, WriteResumes(c), ReadResumes(c))

\* Faulty form of postable_close_connection: the watcher stays registered.
postable_close_connectionRegistered(c) ==
    /\ RunFunctor("postable_close_connection", c)
    /\ ready_list' = Tail(ready_list)
    /\ handler_list' = handler_list \ {c}
    /\ errno' = "other"
    /\ read_state' = [read_state EXCEPT ![c] = "IDLE"]
    /\ write_state' = [write_state EXCEPT ![c] = "IDLE"]
    /\ readside_posted' = [readside_posted EXCEPT ![c] = FALSE]
    /\ scratch_request' = [scratch_request EXCEPT ![c] = FALSE]
    /\ output' = [output EXCEPT ![c] = 0]
    /\ parser_error' = [parser_error EXCEPT ![c] = FALSE]
    /\ answered' = [answered EXCEPT ![c] = 0]
    /\ peer' = [peer EXCEPT ![c] = "none"]
    /\ rx' = [rx EXCEPT ![c] = << >>]
    /\ tx' = [tx EXCEPT ![c] = 0]
    /\ nospace' = [nospace EXCEPT ![c] = FALSE]
    /\ edge' = [edge EXCEPT ![c] = FALSE]
    /\ UNCHANGED <<loop, table, backlog>>

\* postable_close_connection, handle_close_connection, on_handler_completion_cb,
\* which removes the handler from the list, and async_connection_destroy.  The
\* socket is closed twice; the second close fails and sets errno.
postable_close_connection(c) ==
    /\ RunFunctor("postable_close_connection", c)
    /\ ready_list' = Tail(ready_list)
    /\ handler_list' = handler_list \ {c}
    /\ table' = table \ {c}
    /\ errno' = "other"
    /\ read_state' = [read_state EXCEPT ![c] = "IDLE"]
    /\ write_state' = [write_state EXCEPT ![c] = "IDLE"]
    /\ readside_posted' = [readside_posted EXCEPT ![c] = FALSE]
    /\ scratch_request' = [scratch_request EXCEPT ![c] = FALSE]
    /\ output' = [output EXCEPT ![c] = 0]
    /\ parser_error' = [parser_error EXCEPT ![c] = FALSE]
    /\ answered' = [answered EXCEPT ![c] = 0]
    /\ peer' = [peer EXCEPT ![c] = "none"]
    /\ rx' = [rx EXCEPT ![c] = << >>]
    /\ tx' = [tx EXCEPT ![c] = 0]
    /\ nospace' = [nospace EXCEPT ![c] = FALSE]
    /\ edge' = [edge EXCEPT ![c] = FALSE]
    /\ UNCHANGED <<loop, backlog>>

-----------------------------------------------------------------------------

Functors == {"postable_reader", "postable_handle_request", "async_postable_writer",
             "postable_write_complete", "postable_close_connection"}

ConnectionTypeOK ==
    /\ ready_list \in Seq([f : Functors, c : Conns])
    /\ read_state \in [Conns -> States]
    /\ write_state \in [Conns -> States]
    /\ readside_posted \in [Conns -> BOOLEAN]
    /\ scratch_request \in [Conns -> BOOLEAN]
    /\ output \in [Conns -> 0..RespLen]
    /\ parser_error \in [Conns -> BOOLEAN]
    /\ answered \in [Conns -> Nat]
    /\ errno \in {"EAGAIN", "other"}
    /\ handler_list \subseteq Conns
=============================================================================
