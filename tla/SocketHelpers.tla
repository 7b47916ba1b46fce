---------------------------- MODULE SocketHelpers ----------------------------
(***************************************************************************)
(* http_in_c/socket_functions.c: calls on one blocking or non-blocking     *)
(* stream socket.  Every helper that meets an error calls                  *)
(* socket_throw_error, which asserts: the process ends, whatever the       *)
(* helper would have reported.                                             *)
(*                                                                         *)
(* Bytes are counted.  The peer sends, reads, and closes; the kernel has   *)
(* room for SendRoom bytes on the way out.                                 *)
(***************************************************************************)
EXTENDS Naturals, FiniteSets, FiniteSetsExt

CONSTANTS SendRoom,     \* bytes the kernel takes before the peer reads
          PeerBytes,    \* bytes the peer sends
          Lengths       \* buffer lengths callers pass

ASSUME SocketHelpersAssumption ==
    SendRoom \in Nat /\ PeerBytes \in Nat /\ Lengths \subseteq Nat \ {0}

VARIABLES sk,       \* the socket: open, flags, shut, timeout
          peer_end, \* the peer's end: "open", "fin" sent, or "reset"
          peer_left,\* bytes the peer still sends
          inq,      \* bytes received and not read
          room,     \* space in the send buffer
          taken_out,\* bytes the kernel took from socket_write_data
          claimed,  \* bytes of the calls that returned true
          rstatus,  \* what the last socket_read_data reported
          caught,   \* a signal is caught if the next call has to wait
          alive     \* no assertion has failed

socketVars == <<sk, peer_end, peer_left, inq, room, taken_out, claimed,
                rstatus, caught, alive>>

NoSocket == [open |-> FALSE, flags |-> {}, shut |-> {}, timeout |-> FALSE]

SocketHelpersInit ==
    /\ sk = NoSocket
    /\ peer_end = "open"
    /\ peer_left = PeerBytes
    /\ inq = 0
    /\ room = SendRoom
    /\ taken_out = 0
    /\ claimed = 0
    /\ rstatus = "NONE"
    /\ caught = FALSE
    /\ alive = TRUE

\* socket_throw_error.
socket_throw_error ==
    /\ alive' = FALSE
    /\ UNCHANGED <<sk, inq, room, taken_out, claimed, rstatus>>

OnlySocket(s) ==
    /\ sk' = s
    /\ UNCHANGED <<inq, room, taken_out, claimed, rstatus, alive>>

-----------------------------------------------------------------------------
\* With USE_IPV6: an IPv4 address of the host is preferred, then IPv6.
AddressFamily(found) ==
    IF "AF_INET" \in found THEN "AF_INET"
    ELSE IF "AF_INET6" \in found THEN "AF_INET6" ELSE "none"

\* socket_connect_host_port: an unknown host and a refused connection throw.
socket_connect_host_port(found, accepts) ==
    /\ ~sk.open
    /\ IF AddressFamily(found) # "none" /\ accepts
       THEN OnlySocket([NoSocket EXCEPT !.open = TRUE, !.flags = {"O_RDWR"}])
       ELSE socket_throw_error

socket_set_blocking ==
    sk.open /\ OnlySocket([sk EXCEPT !.flags = @ \ {"O_NONBLOCK"}])

socket_set_non_blocking ==
    sk.open /\ OnlySocket([sk EXCEPT !.flags = @ \cup {"O_NONBLOCK"}])

socket_is_blocking == "O_NONBLOCK" \notin sk.flags

\* Both of socket_shutdown_read and socket_shutdown_write shut the receiving
\* direction.
socket_shutdown_read == sk.open /\ OnlySocket([sk EXCEPT !.shut = @ \cup {"RD"}])
socket_shutdown_write == sk.open /\ OnlySocket([sk EXCEPT !.shut = @ \cup {"RD"}])

socket_set_recvtimeout == sk.open /\ OnlySocket([sk EXCEPT !.timeout = TRUE])

socket_close == sk.open /\ OnlySocket([sk EXCEPT !.open = FALSE])

-----------------------------------------------------------------------------
\* The receiving direction has come to its end.
Ended == peer_end = "fin" \/ "RD" \in sk.shut

\* write(2) of n bytes: as many as fit, and none is EAGAIN; a blocking socket
\* waits until there is room for all of them, unless a signal cuts it short
\* (none is EINTR then).  After a reset none is written, if SIGPIPE does not end
\* the process before.
Written(n) == IF peer_end = "reset" THEN 0 ELSE Min({n, room})

\* socket_write_data returns true for a whole write; everything else asserts.
socket_write_data(n) ==
    /\ sk.open
    /\ socket_is_blocking /\ peer_end # "reset" => room >= n \/ caught
    /\ taken_out' = taken_out + Written(n)
    /\ room' = room - Written(n)
    /\ IF Written(n) = n
       THEN claimed' = claimed + n /\ UNCHANGED alive
       ELSE alive' = FALSE /\ UNCHANGED claimed
    /\ UNCHANGED <<sk, inq, rstatus>>

\* Faulty form: less than asked for is taken for the end.
socket_read_dataShort(n) ==
    /\ sk.open
    /\ inq > 0 \/ Ended
    /\ inq' = inq - Min({n, inq})
    /\ rstatus' = IF inq < n THEN "EOF" ELSE "GOOD"
    /\ UNCHANGED <<sk, room, taken_out, claimed, alive>>

\* socket_read_data: what has been received is read first; then the end of
\* the stream is reported.  With nothing to read, a non-blocking socket, or
\* one whose receive timeout is over, throws before the status EAGAIN is set,
\* and any other one waits; a signal makes it throw too, although EINTR is not
\* counted as an error first.
socket_read_data(n) ==
    /\ sk.open
    /\ \/ /\ inq > 0
          /\ inq' = inq - Min({n, inq})
          /\ rstatus' = "GOOD"
          /\ UNCHANGED <<sk, room, taken_out, claimed, alive>>
       \/ /\ inq = 0
          /\ Ended
          /\ rstatus' = "EOF"
          /\ UNCHANGED <<sk, inq, room, taken_out, claimed, alive>>
       \/ /\ inq = 0
          /\ ~Ended
          /\ ~socket_is_blocking \/ sk.timeout \/ peer_end = "reset" \/ caught
          /\ socket_throw_error

-----------------------------------------------------------------------------
\* The peer.
PeerSends ==
    /\ sk.open /\ peer_end = "open" /\ peer_left > 0
    /\ inq' = inq + 1
    /\ peer_left' = peer_left - 1
    /\ UNCHANGED <<sk, peer_end, room, taken_out, claimed, rstatus, caught, alive>>

PeerReads ==
    /\ room < SendRoom /\ taken_out < 2 * SendRoom
    /\ room' = room + 1
    /\ UNCHANGED <<sk, peer_end, peer_left, inq, taken_out, claimed, rstatus, caught, alive>>

PeerCloses ==
    /\ sk.open /\ peer_end # "reset"
    /\ \E e \in {"fin", "reset"} : peer_end' = e
    /\ inq' = IF peer_end' = "reset" THEN 0 ELSE inq
    /\ UNCHANGED <<sk, peer_left, room, taken_out, claimed, rstatus, caught, alive>>

SignalCaught ==
    /\ sk.open /\ ~caught
    /\ caught' = TRUE
    /\ UNCHANGED <<sk, peer_end, peer_left, inq, room, taken_out, claimed, rstatus, alive>>

Call ==
    \/ \E f \in SUBSET {"AF_INET", "AF_INET6"}, a \in BOOLEAN :
          socket_connect_host_port(f, a)
    \/ socket_set_blocking \/ socket_set_non_blocking \/ socket_set_recvtimeout
    \/ socket_shutdown_read \/ socket_shutdown_write \/ socket_close
    \/ \E n \in Lengths : socket_write_data(n) \/ socket_read_data(n)

SocketHelpersNext ==
    /\ alive
    /\ \/ Call /\ caught' = FALSE /\ UNCHANGED <<peer_end, peer_left>>
       \/ PeerSends \/ PeerReads \/ PeerCloses \/ SignalCaught

-----------------------------------------------------------------------------
\* While no assertion has failed, every byte the kernel took belongs to a
\* socket_write_data that returned true: a short write on a non-blocking
\* socket is never reported as success (socket_functions.c:358-365).
WholeOrAbort == alive => claimed = taken_out

\* The end of the stream is only reported when nothing received is left and
\* the peer has closed or the receiving direction was shut, also by
\* socket_shutdown_write (socket_functions.c:279, 391-402).
EofMeansDrained ==
    [][rstatus' = "EOF" /\ rstatus # "EOF" => inq = 0 /\ Ended]_socketVars

\* A caller that leaves the socket blocking and without a receive timeout meets
\* the assertion only on a connection that was reset, or when a signal is caught
\* while the call waits (socket_functions.c:362, 388, 403).  The comment at
\* socket_functions.c:353, "assuming blocking write so that will not return until
\* all done", does not allow for the signal.
BlockingAssertsOnlyWhen ==
    [][~alive' /\ sk.open => ~socket_is_blocking \/ sk.timeout
                              \/ peer_end = "reset" \/ caught]_socketVars

\* What the helpers report is what the kernel did: for written bytes, for the end
\* of the stream, and for the blocking sockets they are written for.
HelpersReportTruly == []WholeOrAbort /\ EofMeansDrained /\ BlockingAssertsOnlyWhen
=============================================================================
