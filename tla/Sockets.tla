------------------------------ MODULE Sockets ------------------------------
(***************************************************************************)
(* The part of the Linux kernel that http_in_c/async and http_in_c/runloop *)
(* rely on (external to the repository): the accept queue, non-blocking    *)
(* stream sockets, and the edge-triggered readiness that                   *)
(* rtor_stream_arm_both asks epoll for.                                    *)
(*                                                                         *)
(* Bytes are abstracted to the places in a request that matter to the      *)
(* parser: "part" continues a request, "last" and "close" complete one     *)
(* ("close" carries Connection: close), "bad" is not HTTP.                 *)
(***************************************************************************)
EXTENDS Naturals, Sequences

CONSTANTS Conns,      \* client connections
          RcvCap,     \* capacity of a socket's receive buffer
          SndCap      \* capacity of a socket's send buffer

Tokens == {"part", "last", "close", "bad"}

VARIABLES peer,     \* peer[c]: what the other end has done to connection c
          rx,       \* rx[c]: received and not yet read by the server
          tx,       \* tx[c]: sent by the server and not yet read by the client
          nospace,  \* nospace[c]: a send found the buffer full (SOCK_NOSPACE)
          edge,     \* edge[c]: c became ready since epoll last reported it
          backlog   \* connections waiting for accept, oldest first

sockets == <<peer, rx, tx, nospace, edge, backlog>>

\* "pipe": a reset that follows the peer's FIN.  The next send then fails with
\* EPIPE and the process gets SIGPIPE; after "rst" it fails with ECONNRESET.
PeerStates == {"none", "up", "fin", "rst", "pipe"}

SocketsInit ==
    /\ peer = [c \in Conns |-> "none"]
    /\ rx = [c \in Conns |-> << >>]
    /\ tx = [c \in Conns |-> 0]
    /\ nospace = [c \in Conns |-> FALSE]
    /\ edge = [c \in Conns |-> FALSE]
    /\ backlog = << >>

Readable(c) == rx[c] # << >> \/ peer[c] # "up"
Writable(c) == tx[c] < SndCap \/ peer[c] \in {"rst", "pipe"}
EventMask(c) == {e \in {"IN", "OUT"} : \/ e = "IN" /\ Readable(c)
                                       \/ e = "OUT" /\ Writable(c)}

-----------------------------------------------------------------------------
(* What a client does *)

Connect(c) ==
    /\ peer[c] = "none"
    /\ peer' = [peer EXCEPT ![c] = "up"]
    /\ backlog' = Append(backlog, c)
    /\ UNCHANGED <<rx, tx, nospace, edge>>

Arrive(c, token) ==
    /\ peer[c] = "up"
    /\ Len(rx[c]) < RcvCap
    /\ rx' = [rx EXCEPT ![c] = Append(@, token)]
    /\ edge' = [edge EXCEPT ![c] = TRUE]
    /\ UNCHANGED <<peer, tx, nospace, backlog>>

ShutDown(c) ==
    /\ peer[c] = "up"
    /\ peer' = [peer EXCEPT ![c] = "fin"]
    /\ edge' = [edge EXCEPT ![c] = TRUE]
    /\ UNCHANGED <<rx, tx, nospace, backlog>>

Reset(c) ==
    /\ \/ peer[c] = "up" /\ peer' = [peer EXCEPT ![c] = "rst"]
       \/ peer[c] = "fin" /\ peer' = [peer EXCEPT ![c] = "pipe"]
    /\ tx' = [tx EXCEPT ![c] = 0]
    /\ nospace' = [nospace EXCEPT ![c] = FALSE]
    /\ edge' = [edge EXCEPT ![c] = TRUE]
    /\ UNCHANGED <<rx, backlog>>

\* The client reads what was sent; a sender that ran out of space is told.
Receive(c) ==
    /\ peer[c] \in {"up", "fin"}
    /\ tx[c] > 0
    /\ tx' = [tx EXCEPT ![c] = 0]
    /\ nospace' = [nospace EXCEPT ![c] = FALSE]
    /\ edge' = [edge EXCEPT ![c] = @ \/ nospace[c]]
    /\ UNCHANGED <<peer, rx, backlog>>

-----------------------------------------------------------------------------

SocketsTypeOK ==
    /\ peer \in [Conns -> PeerStates]
    /\ rx \in [Conns -> Seq(Tokens)]
    /\ \A c \in Conns : Len(rx[c]) <= RcvCap
    /\ tx \in [Conns -> 0..SndCap]
    /\ nospace \in [Conns -> BOOLEAN]
    /\ edge \in [Conns -> BOOLEAN]
    /\ backlog \in Seq(Conns)
=============================================================================
