---------------------------- MODULE OldConnection ----------------------------
(***************************************************************************)
(* http_in_c/async/async_connection.c: the connection of the asynchronous  *)
(* server before it was split into connection_api, connection_read,        *)
(* connection_write and connection_event.  The file is kept and not built; *)
(* the handler callbacks it uses (handle_request, handle_reader_stopped,   *)
(* handle_write_failed, handle_write_done, handle_connection_done) are     *)
(* modelled by what it expects of them: a request is answered by           *)
(* async_connection_write, one response at a time, and the end of the      *)
(* connection frees it.                                                    *)
(*                                                                         *)
(* A client sends whole requests ("req") or bytes that the parser rejects  *)
(* ("bad").  The stream is watched edge triggered in both directions.      *)
(***************************************************************************)
EXTENDS Naturals, Sequences, FiniteSetsExt

CONSTANTS ClientSends,  \* what the client may send, as sequences
          ReadBufferSize, \* read_buffer_size: the most one recv returns
          InRoom,       \* what the kernel holds before the server reads
          OutLen,       \* units of a serialised response
          OutRoom       \* units the kernel takes before the client reads

ASSUME OldConnectionAssumption ==
    /\ ReadBufferSize \in Nat \ {0} /\ InRoom \in Nat \ {0}
    /\ OutLen \in Nat \ {0} /\ OutRoom \in Nat \ {0}
    /\ \A s \in ClientSends : s \in Seq({"req", "bad"})

VARIABLES csend,        \* what the client has still to send
          unread_in,    \* received, not read
          cend,         \* the client's end: "open", "eof", "reset", or "pipe":
                        \* reset after its end of file
          out_room,     \* space in the send buffer
          edges,        \* events epoll has to report: "in", "out"
          errno_stale,  \* errno may still hold an earlier EAGAIN
          parked,       \* the last recv had data, and a stale EAGAIN parked it
          read_state,   \* IDLE, ACTIVE, EAGAINED or STOP
          write_state,  \* IDLE, ACTIVE, EAGAINED or STOP
          out_left,     \* units left in active_output_buffer_ref; 0: none
          to_write,     \* responses the handler holds back
          run_list,     \* posted functions
          cleanups,     \* cleanups posted so far
          freed_conn,   \* handle_connection_done has freed the connection
          short_send,   \* a send took less than it was given
          cdead         \* "no", or the assertion, access or signal that ended it

oconnVars == <<csend, unread_in, cend, out_room, edges, errno_stale, parked,
               read_state, write_state, out_left, to_write, run_list, cleanups,
               freed_conn, short_send, cdead>>

\* async_connection_init, and the handler's first async_connection_read.
OldConnectionInit ==
    /\ csend \in ClientSends
    /\ unread_in = << >>
    /\ cend = "open"
    /\ out_room = OutRoom
    /\ edges = {"out"}
    /\ errno_stale = FALSE
    /\ parked = FALSE
    /\ read_state = "ACTIVE"
    /\ write_state = "IDLE"
    /\ out_left = 0
    /\ to_write = 0
    /\ run_list = <<"reader">>
    /\ cleanups = 0
    /\ freed_conn = FALSE
    /\ short_send = FALSE
    /\ cdead = "no"

clientVars == <<csend, cend>>
readVars == <<unread_in, errno_stale, parked, read_state>>
writeVars == <<out_room, write_state, out_left, short_send>>

\* How a pass of the reader ends; rest is the run list it leaves.
\* read_eagain: the next edge resumes the reader.
read_eagain(rest) ==
    /\ read_state' = "EAGAINED"
    /\ run_list' = rest
    /\ UNCHANGED cleanups

\* read_need_data: the reader is posted again.
read_need_data(rest) ==
    /\ read_state' = "IDLE"
    /\ run_list' = Append(rest, "reader")
    /\ UNCHANGED cleanups

\* read_error: reading stops and the cleanup is posted.
read_error(rest) ==
    /\ read_state' = "STOP"
    /\ cleanups' = cleanups + 1
    /\ run_list' = Append(rest, "cleanup")

\* The requests that a received piece of the input completes.
Completed(s) == Len(SelectSeq(s, LAMBDA x : x = "req"))

\* on_read_message_complete hands each request to the handler, which writes
\* the response when none is being written and holds it back otherwise.
on_read_message_complete(n) == n > 0 /\ out_left = 0 /\ write_state = "IDLE"

\* What one recv returns of the input.
Taken == IF Len(unread_in) <= ReadBufferSize THEN unread_in
         ELSE SubSeq(unread_in, 1, ReadBufferSize)

\* reader: one recv, and what the parser makes of it.
reader ==
    \/ \* recv has data
       /\ unread_in # << >>
       /\ LET bads == {i \in DOMAIN Taken : Taken[i] = "bad"}
              bad == IF bads = {} THEN 0 ELSE Min(bads)
              n == Completed(IF bad = 0 THEN Taken ELSE SubSeq(Taken, 1, bad - 1))
              writes == IF on_read_message_complete(n) THEN <<"writer">> ELSE << >>
              rest == Tail(run_list) \o writes
          IN /\ out_left' = IF writes # << >> THEN OutLen ELSE out_left
             /\ to_write' = to_write + n - Len(writes)
             /\ \/ errno_stale /\ read_eagain(rest) /\ parked' = TRUE
                \/ bad = 0 /\ read_need_data(rest) /\ parked' = FALSE
                \/ bad # 0 /\ read_error(rest) /\ parked' = FALSE
       /\ unread_in' = SubSeq(unread_in, Len(Taken) + 1, Len(unread_in))
       /\ UNCHANGED errno_stale
    \/ \* recv would block
       /\ unread_in = << >> /\ cend = "open"
       /\ read_eagain(Tail(run_list))
       /\ errno_stale' = TRUE /\ parked' = FALSE
       /\ UNCHANGED <<unread_in, out_left, to_write>>
    \/ \* the client has closed, or an I/O error
       /\ unread_in = << >> /\ cend # "open"
       /\ read_error(Tail(run_list)) /\ parked' = FALSE
       /\ UNCHANGED <<unread_in, errno_stale, out_left, to_write>>

\* postable_reader: a stopped reader only tells the handler.
postable_reader ==
    IF read_state = "STOP"
    THEN /\ run_list' = Tail(run_list)
         /\ UNCHANGED <<readVars, out_left, to_write, cleanups>>
    ELSE reader

\* write_error: writing stops and the cleanup is posted.
write_error ==
    /\ write_state' = "STOP"
    /\ cleanups' = cleanups + 1
    /\ run_list' = Append(Tail(run_list), "cleanup")

\* The state a send that took something leaves.
WriteStateAfter(whole) == IF whole THEN "IDLE" ELSE "ACTIVE"

\* writer: one send.
writer ==
    \/ /\ cend = "reset"
       /\ write_error
       /\ UNCHANGED <<out_room, out_left, short_send, errno_stale>>
    \/ /\ cend \in {"open", "eof"} /\ out_room = 0
       /\ write_state' = "EAGAINED"
       /\ errno_stale' = TRUE
       /\ short_send' = TRUE
       /\ run_list' = Tail(run_list)
       /\ UNCHANGED <<out_room, out_left, cleanups>>
    \/ /\ cend \in {"open", "eof"} /\ out_room > 0
       /\ LET whole == out_left <= out_room
              n == IF whole THEN out_left ELSE out_room
          IN /\ out_room' = out_room - n
             /\ out_left' = out_left - n
             /\ write_state' = WriteStateAfter(whole)
             /\ short_send' = (short_send \/ ~whole)
             /\ run_list' = Append(Tail(run_list),
                                   IF whole THEN "write_call_cb" ELSE "writer")
       /\ UNCHANGED <<cleanups, errno_stale>>

\* Its send gets EPIPE, and with it SIGPIPE, which nothing ignores: the client
\* reset after its end of file, or the reader was already told of the reset.
SendRaisesSigpipe ==
    \/ cend = "pipe"
    \/ cend = "reset" /\ read_state = "STOP"

\* postable_writer asserts that write_state is IDLE.
postable_writer ==
    CASE write_state = "STOP" ->
           /\ run_list' = Tail(run_list)
           /\ out_left' = 0
           /\ UNCHANGED <<out_room, write_state, short_send, cleanups, cdead, errno_stale>>
      [] write_state = "IDLE" ->
           \/ writer /\ UNCHANGED cdead
           \/ /\ SendRaisesSigpipe
              /\ cdead' = "SIGPIPE"
              /\ UNCHANGED <<writeVars, run_list, cleanups, errno_stale>>
      [] OTHER ->
           /\ cdead' = "writer not idle"
           /\ UNCHANGED <<writeVars, run_list, cleanups, errno_stale>>

\* async_connection_read: a reader is posted only when no read is going on.
async_connection_read(list) ==
    IF read_state = "IDLE"
    THEN read_state' = "ACTIVE" /\ run_list' = Append(list, "reader")
    ELSE run_list' = list /\ UNCHANGED read_state

\* postable_write_call_cb: the handler writes the next response, if any, by
\* async_connection_write, or asks for more to read.
write_call_cb ==
    IF to_write > 0
    THEN /\ run_list' = Append(Tail(run_list), "writer")
         /\ out_left' = OutLen
         /\ to_write' = to_write - 1
         /\ UNCHANGED read_state
    ELSE /\ async_connection_read(Tail(run_list))
         /\ UNCHANGED <<out_left, to_write>>

\* postable_cleanup: the handler frees the connection; cleanup_done_flag,
\* which it asserts to be false, is never set.
postable_cleanup ==
    /\ freed_conn' = TRUE
    /\ run_list' = Tail(run_list)
    /\ UNCHANGED <<readVars, writeVars, to_write, cleanups, cdead>>

\* One turn of the run list.
RunNext ==
    /\ run_list # << >>
    /\ \/ /\ freed_conn
          /\ cdead' = "used after free"
          /\ UNCHANGED <<readVars, writeVars, to_write, run_list, cleanups, freed_conn>>
       \/ /\ ~freed_conn /\ Head(run_list) = "reader"
          /\ postable_reader
          /\ UNCHANGED <<out_room, write_state, short_send, freed_conn, cdead>>
       \/ /\ ~freed_conn /\ Head(run_list) = "writer"
          /\ postable_writer
          /\ UNCHANGED <<unread_in, parked, read_state, to_write, freed_conn>>
       \/ /\ ~freed_conn /\ Head(run_list) = "write_call_cb"
          /\ write_call_cb
          /\ UNCHANGED <<unread_in, errno_stale, parked, out_room, write_state,
                         short_send, cleanups, freed_conn, cdead>>
       \/ /\ ~freed_conn /\ Head(run_list) = "cleanup"
          /\ postable_cleanup
    /\ UNCHANGED <<clientVars, edges>>

\* write_epollout and read_epollin.
WriteResumed == "out" \in edges /\ write_state = "EAGAINED"
ReadResumed == "in" \in edges /\ read_state = "EAGAINED"

\* Faulty form of event_handler: EPOLLIN is looked at only without EPOLLOUT.
event_handlerElse ==
    /\ run_list = << >> /\ edges # {} /\ ~freed_conn
    /\ edges' = {}
    /\ write_state' = IF WriteResumed THEN "ACTIVE" ELSE write_state
    /\ read_state' = IF ReadResumed /\ "out" \notin edges THEN "ACTIVE" ELSE read_state
    /\ run_list' = (IF WriteResumed THEN <<"writer">> ELSE << >>) \o
                   (IF ReadResumed /\ "out" \notin edges THEN <<"reader">> ELSE << >>)
    /\ UNCHANGED <<clientVars, unread_in, errno_stale, parked, out_room, out_left,
                   short_send, to_write, cleanups, freed_conn, cdead>>

\* event_handler, called by the reactor between two runs of the list.
event_handler ==
    /\ run_list = << >> /\ edges # {} /\ ~freed_conn
    /\ edges' = {}
    /\ write_state' = IF WriteResumed THEN "ACTIVE" ELSE write_state
    /\ read_state' = IF ReadResumed THEN "ACTIVE" ELSE read_state
    /\ run_list' = (IF WriteResumed THEN <<"writer">> ELSE << >>) \o
                   (IF ReadResumed THEN <<"reader">> ELSE << >>)
    /\ UNCHANGED <<clientVars, unread_in, errno_stale, parked, out_room, out_left,
                   short_send, to_write, cleanups, freed_conn, cdead>>

-----------------------------------------------------------------------------
\* The client: sends, ends, reads.  Each raises an edge.
ClientStep ==
    /\ UNCHANGED <<errno_stale, parked, read_state, write_state, out_left, short_send,
                   to_write, run_list, cleanups, freed_conn, cdead>>
    /\ \/ /\ csend # << >> /\ cend = "open" /\ Len(unread_in) < InRoom
          /\ unread_in' = Append(unread_in, Head(csend))
          /\ csend' = Tail(csend)
          /\ edges' = edges \cup {"in"}
          /\ UNCHANGED <<cend, out_room>>
       \/ /\ \/ cend = "open" /\ \E e \in {"eof", "reset"} : cend' = e
             \/ cend = "eof" /\ cend' = "pipe"
          /\ edges' = edges \cup {"in", "out"}
          /\ UNCHANGED <<csend, unread_in, out_room>>
       \/ /\ out_room < OutRoom
          /\ out_room' = out_room + 1
          /\ edges' = edges \cup {"out"}
          /\ UNCHANGED <<csend, cend, unread_in>>

OldConnectionNext ==
    /\ cdead = "no"
    /\ RunNext \/ event_handler \/ ClientStep

OldConnectionSpec == OldConnectionInit /\ [][OldConnectionNext]_oconnVars

-----------------------------------------------------------------------------
Posted(f) == \E i \in DOMAIN run_list : run_list[i] = f

\* Until the connection is stopped, reading never comes to rest while there is
\* input or the client's end to be read: a reader is posted, or epoll will
\* report it.  The one exception is a stale errno that turns data into EAGAIN.
\* It loses the client's end, and input too when recv cannot take all that the
\* kernel holds (async_connection.c:137-145, 207, 219-256).
ReadingNotLost ==
    (cdead = "no" /\ read_state # "STOP" /\ ~freed_conn) =>
        \/ Posted("reader")
        \/ /\ read_state = "EAGAINED"
           /\ \/ "in" \in edges
              \/ unread_in = << >> /\ cend = "open"
              \/ parked /\ (InRoom <= ReadBufferSize => unread_in = << >>)

\* The assertion of postable_writer is only met after a send that the kernel
\* took in part or not at all (async_connection.c:349, 370, 376), and SIGPIPE
\* only after the client reset and a call before it, or its end of file, has
\* used up the error (async_connection.c:358).
WriterEndsOnlyAfter ==
    /\ cdead = "writer not idle" => short_send
    /\ cdead = "SIGPIPE" => SendRaisesSigpipe

\* Each direction posts the cleanup at most once, when it stops; the second
\* cleanup that both together can post is the one that "should only run once"
\* (async_connection.c:399-432).
CleanUpOncePerSide ==
    cleanups <= (IF read_state = "STOP" THEN 1 ELSE 0)
                  + (IF write_state = "STOP" THEN 1 ELSE 0)

\* The older connection stops reading by mistake only on a stale errno, is ended
\* only after a short send or a reset, and stops each of its sides once.
OldConnectionGoesOn ==
    /\ ReadingNotLost
    /\ WriterEndsOnlyAfter
    /\ CleanUpOncePerSide
=============================================================================
