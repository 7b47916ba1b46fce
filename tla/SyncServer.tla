---------------------------- MODULE SyncServer ----------------------------
(***************************************************************************)
(* The multi-threaded server of sync_server_app in its default build, in   *)
(* which every worker thread calls accept on the one listening socket      *)
(* (http_in_c/sync: worker.c, sync_connection.c, sync_server.c), and its   *)
(* clients.                                                                *)
(*                                                                         *)
(* A worker takes a connection, reads requests from it and answers them    *)
(* one by one until a request without Connection: keep-alive, and then     *)
(* takes the next connection.  sync_connection_read_message hands out the  *)
(* messages of input_list before it reads again.                           *)
(*                                                                         *)
(* Bytes are abstracted to tokens: "part" continues a request, "keep" and  *)
(* "close" complete one with or without keep-alive, "bad" is not HTTP; n   *)
(* numbers the requests of a connection.                                   *)
(***************************************************************************)
EXTENDS Naturals, Sequences, FiniteSets

CONSTANTS Workers, Conns, NoConn,
          MaxFds,       \* descriptors the process may have open for connections
          RcvCap,       \* capacity of a socket's receive buffer
          MaxReqs,      \* bound: requests a client sends on one connection
          MaxParts,     \* bound: pieces sent before the last of a request, in all
          MaxMisbehaved,\* bound: clients that misbehave
          Malformed,    \* may a client send something that is not HTTP?
          Leaving,      \* may a client close a connection it has not asked to close?
          Idling,       \* may a client be silent for longer than the 5 s of recv?
          BadLength     \* may the uninitialized addr_length hold a negative value?

ASSUME SyncAssumption ==
    /\ Workers # {} /\ NoConn \notin Conns
    /\ {MaxFds, RcvCap, MaxParts, MaxMisbehaved} \subseteq Nat /\ MaxReqs \in Nat \ {0}
    /\ {Malformed, Leaving, Idling, BadLength} \subseteq BOOLEAN

VARIABLES peer,         \* peer[c]: "none", "up", or "closed" by the client
          rx,           \* rx[c]: received and not yet read
          backlog,      \* connections waiting for accept, oldest first
          open,         \* connections whose socket the server has open
          status,       \* status[w]: where worker w is
          conn,         \* conn[w]: the connection it serves
          input_list,   \* input_list[w]: messages parsed and not yet handed out
          request,      \* request[w]: the message being answered
          answered,     \* history: answered[c], the requests answered on c
          process,      \* "up", or how it ended: by an assertion, a signal or itself
          sent, parts,  \* sent[c]: requests sent; parts: pieces before the last of one
          misbehaved    \* history: connections whose client sent something that is not
                        \* HTTP, left with a request open or fell silent

sockets == <<peer, rx, backlog, open>>
workers == <<status, conn, input_list, request>>
clients == <<sent, parts, misbehaved>>
vars == <<sockets, workers, answered, process, clients>>

Token(kind, n) == [kind |-> kind, n |-> n]
IsMessage(t) == t.kind \in {"keep", "close"}

\* The tokens of s that complete a message.
Messages(s) ==
    LET upTo[i \in 0..Len(s)] == IF i = 0 THEN << >>
                                 ELSE IF IsMessage(s[i]) THEN Append(upTo[i - 1], s[i])
                                 ELSE upTo[i - 1]
    IN  upTo[Len(s)]

NoRequest == Token("none", 0)

Init ==
    /\ peer = [c \in Conns |-> "none"]
    /\ rx = [c \in Conns |-> << >>]
    /\ backlog = << >>
    /\ open = {}
    /\ status = [w \in Workers |-> "accept"]
    /\ conn = [w \in Workers |-> NoConn]
    /\ input_list = [w \in Workers |-> << >>]
    /\ request = [w \in Workers |-> NoRequest]
    /\ answered = [c \in Conns |-> << >>]
    /\ process = "up"
    /\ sent = [c \in Conns |-> 0]
    /\ parts = 0
    /\ misbehaved = {}

-----------------------------------------------------------------------------
(* The worker *)

\* accept, and sync_connection_new.
Accept(w) ==
    /\ status[w] = "accept"
    /\ backlog # << >>
    /\ Cardinality(open) < MaxFds
    /\ backlog' = Tail(backlog)
    /\ open' = open \cup {Head(backlog)}
    /\ conn' = [conn EXCEPT ![w] = Head(backlog)]
    /\ input_list' = [input_list EXCEPT ![w] = << >>]
    /\ status' = [status EXCEPT ![w] = "read"]
    /\ UNCHANGED <<peer, rx, request, answered, process>>

\* accept returns -1, as there is no descriptor left, and the worker ends.
AcceptFails(w) ==
    /\ status[w] = "accept"
    /\ backlog # << >>
    /\ Cardinality(open) >= MaxFds
    /\ status' = [status EXCEPT ![w] = "ended"]
    /\ UNCHANGED <<sockets, conn, input_list, request, answered, process>>

\* accept gets the address of an uninitialized length.  If that is negative the
\* kernel drops the connection it has taken and returns -1.
AcceptLoses(w) ==
    /\ BadLength
    /\ status[w] = "accept"
    /\ backlog # << >>
    /\ Cardinality(open) < MaxFds
    /\ backlog' = Tail(backlog)
    /\ peer' = [peer EXCEPT ![Head(backlog)] = "reset"]
    /\ status' = [status EXCEPT ![w] = "ended"]
    /\ UNCHANGED <<rx, open, conn, input_list, request, answered, process>>

\* Faulty form of HandOut: the rest of the list is forgotten.
HandOutOnly(w, list) ==
    /\ request' = [request EXCEPT ![w] = Head(list)]
    /\ input_list' = [input_list EXCEPT ![w] = << >>]
    /\ status' = [status EXCEPT ![w] = "answer"]

\* Faulty form of HandOut: the newest message of the list.
HandOutLast(w, list) ==
    /\ request' = [request EXCEPT ![w] = list[Len(list)]]
    /\ input_list' = [input_list EXCEPT ![w] = SubSeq(list, 1, Len(list) - 1)]
    /\ status' = [status EXCEPT ![w] = "answer"]

\* List_remove_first: the oldest message of the list.
HandOut(w, list) ==
    /\ request' = [request EXCEPT ![w] = Head(list)]
    /\ input_list' = [input_list EXCEPT ![w] = Tail(list)]
    /\ status' = [status EXCEPT ![w] = "answer"]

\* sync_connection_read_message with a message left from the last read.
NextMessage(w) ==
    /\ status[w] = "read"
    /\ input_list[w] # << >>
    /\ HandOut(w, input_list[w])
    /\ UNCHANGED <<sockets, conn, answered, process>>

HasBad(s) == \E i \in 1..Len(s) : s[i].kind = "bad"

\* The messages the parser completes before it meets an error.
MessagesOf(s) ==
    LET good == CHOOSE n \in 0..Len(s) : ~HasBad(SubSeq(s, 1, n)) /\ (n < Len(s) => s[n + 1].kind = "bad")
    IN  Messages(SubSeq(s, 1, good))

\* Faulty form of ReadBuffer: a buffer that completes no message ends the read.
ReadBufferOnce(w) ==
    LET c == conn[w]
    IN  /\ status[w] = "read"
        /\ input_list[w] = << >>
        /\ rx[c] # << >>
        /\ ~HasBad(rx[c])
        /\ rx' = [rx EXCEPT ![c] = << >>]
        /\ IF MessagesOf(rx[c]) # << >>
           THEN HandOut(w, MessagesOf(rx[c])) /\ UNCHANGED process
           ELSE process' = "invariants failed" /\ UNCHANGED <<input_list, request, status>>
        /\ UNCHANGED <<peer, backlog, open, conn, answered>>

\* sync_connection_read_message with an empty input_list and a buffer without
\* error: it completes one or more messages, or none and the read is repeated.
ReadBuffer(w) ==
    LET c == conn[w]
    IN  /\ status[w] = "read"
        /\ input_list[w] = << >>
        /\ rx[c] # << >>
        /\ ~HasBad(rx[c])
        /\ rx' = [rx EXCEPT ![c] = << >>]
        /\ IF MessagesOf(rx[c]) # << >>
           THEN HandOut(w, MessagesOf(rx[c]))
           ELSE UNCHANGED <<input_list, request, status>>
        /\ UNCHANGED <<peer, backlog, open, conn, answered, process>>

\* A buffer with an error.  Without a message before it
\* sync_connection_read_message returns -1, which Worker_main takes for success
\* and then asserts that there is a request; with one before it the assertion of
\* the two invariants fails.
ParseError(w) ==
    LET c == conn[w]
    IN  /\ status[w] = "read"
        /\ input_list[w] = << >>
        /\ HasBad(rx[c])
        /\ rx' = [rx EXCEPT ![c] = << >>]
        /\ process' = IF MessagesOf(rx[c]) = << >> THEN "no request" ELSE "invariants failed"
        /\ UNCHANGED <<peer, backlog, open, workers, answered>>

\* read returns 0, or -1 after 5 seconds without input: -1 again.
ReadFails(w) ==
    /\ status[w] = "read"
    /\ input_list[w] = << >>
    /\ rx[conn[w]] = << >>
    /\ peer[conn[w]] \in {"closed", "reset", "idle"}
    /\ process' = "no request"
    /\ UNCHANGED <<sockets, workers, answered>>

\* app_handler and sync_connection_write, whose result is ignored; without
\* keep-alive also sync_connection_dispose, which leaves the socket open.  The
\* first write after the client has closed is answered by a reset, the next one
\* raises SIGPIPE.
Answer(w) ==
    LET c == conn[w]
    IN  /\ status[w] = "answer"
        /\ process' = IF peer[c] = "reset" THEN "killed" ELSE process
        /\ peer' = [peer EXCEPT ![c] = IF @ = "closed" THEN "reset" ELSE @]
        /\ answered' = [answered EXCEPT ![c] = Append(@, request[w].n)]
        /\ request' = [request EXCEPT ![w] = NoRequest]
        /\ IF request[w].kind = "keep"
           THEN /\ status' = [status EXCEPT ![w] = "read"]
                /\ UNCHANGED <<conn, input_list>>
           ELSE /\ status' = [status EXCEPT ![w] = "accept"]
                /\ conn' = [conn EXCEPT ![w] = NoConn]
                /\ input_list' = [input_list EXCEPT ![w] = << >>]
        /\ UNCHANGED <<rx, backlog, open>>

WorkerStep(w) ==
    /\ process = "up"
    /\ \/ Accept(w) \/ AcceptFails(w) \/ AcceptLoses(w)
       \/ NextMessage(w) \/ ReadBuffer(w) \/ ParseError(w) \/ ReadFails(w)
       \/ Answer(w)
    /\ UNCHANGED clients

\* sync_server_listen has joined every worker and returns to main.
Listen ==
    /\ process = "up"
    /\ \A w \in Workers : status[w] = "ended"
    /\ process' = "ended"
    /\ UNCHANGED <<sockets, workers, answered, clients>>

-----------------------------------------------------------------------------
(* The clients *)

Connect(c) ==
    /\ peer[c] = "none"
    /\ peer' = [peer EXCEPT ![c] = "up"]
    /\ backlog' = Append(backlog, c)
    /\ UNCHANGED <<rx, open, clients>>

Sending(c) == peer[c] = "up" /\ Len(rx[c]) < RcvCap

Arrive(c, kind) ==
    /\ rx' = [rx EXCEPT ![c] = Append(@, Token(kind, sent[c] + 1))]
    /\ UNCHANGED <<backlog, open>>

SendPart(c) ==
    /\ Sending(c)
    /\ parts < MaxParts
    /\ Arrive(c, "part")
    /\ parts' = parts + 1
    /\ UNCHANGED <<peer, sent, misbehaved>>

SendKeep(c) ==
    /\ Sending(c)
    /\ sent[c] + 1 < MaxReqs
    /\ Arrive(c, "keep")
    /\ sent' = [sent EXCEPT ![c] = @ + 1]
    /\ UNCHANGED <<peer, parts, misbehaved>>

\* A client that has sent a request without keep-alive sends no more.
SendClose(c) ==
    /\ Sending(c)
    /\ Arrive(c, "close")
    /\ peer' = [peer EXCEPT ![c] = "last"]
    /\ sent' = [sent EXCEPT ![c] = @ + 1]
    /\ UNCHANGED <<parts, misbehaved>>

Misbehave(c) ==
    /\ Cardinality(misbehaved) < MaxMisbehaved
    /\ misbehaved' = misbehaved \cup {c}

SendBad(c) ==
    /\ Malformed
    /\ Sending(c)
    /\ Arrive(c, "bad")
    /\ peer' = [peer EXCEPT ![c] = "last"]
    /\ Misbehave(c)
    /\ UNCHANGED <<sent, parts>>

\* A client closes once its last request is answered.
Close(c) ==
    /\ peer[c] = "last"
    /\ c \notin misbehaved
    /\ Len(answered[c]) = sent[c]
    /\ peer' = [peer EXCEPT ![c] = "closed"]
    /\ UNCHANGED <<rx, backlog, open, clients>>

\* A client closes when it likes.
Leave(c) ==
    /\ Leaving
    /\ \/ peer[c] = "up"
       \/ peer[c] = "last" /\ Len(answered[c]) < sent[c]
    /\ peer' = [peer EXCEPT ![c] = "closed"]
    /\ Misbehave(c)
    /\ UNCHANGED <<rx, backlog, open, sent, parts>>

\* A client that still owes a request is silent for longer than the timeout of recv.
FallSilent(c) ==
    /\ Idling
    /\ peer[c] = "up"
    /\ peer' = [peer EXCEPT ![c] = "idle"]
    /\ Misbehave(c)
    /\ UNCHANGED <<rx, backlog, open, sent, parts>>

ClientStep(c) ==
    /\ process = "up"
    /\ \/ Connect(c) \/ SendPart(c) \/ SendKeep(c) \/ SendClose(c) \/ SendBad(c)
       \/ Close(c) \/ Leave(c) \/ FallSilent(c)
    /\ UNCHANGED <<workers, answered, process>>

-----------------------------------------------------------------------------
Next ==
    \/ \E w \in Workers : WorkerStep(w)
    \/ Listen
    \/ \E c \in Conns : ClientStep(c)

Spec == Init /\ [][Next]_vars

\* Threads are scheduled, the main thread included, and a client that has connected
\* and does not leave or fall silent finishes with a request without keep-alive.
FairSpec ==
    /\ Spec
    /\ \A w \in Workers : WF_vars(WorkerStep(w))
    /\ WF_vars(Listen)
    /\ \A c \in Conns : WF_vars(process = "up" /\ SendClose(c) /\ UNCHANGED <<workers, answered, process>>)

-----------------------------------------------------------------------------
(* Properties *)

Requests == {Token(k, n) : k \in {"keep", "close"}, n \in 1..MaxReqs}

\* The type invariant.
TypeOK ==
    /\ peer \in [Conns -> {"none", "up", "last", "idle", "closed", "reset"}]
    /\ \A c \in Conns : /\ Len(rx[c]) <= RcvCap
                        /\ sent[c] \in 0..MaxReqs
    /\ parts \in 0..MaxParts
    /\ backlog \in Seq(Conns)
    /\ open \subseteq Conns
    /\ Cardinality(open) <= MaxFds
    /\ \A w \in Workers :
         \/ status[w] \in {"accept", "ended"} /\ conn[w] = NoConn /\ request[w] = NoRequest
         \/ status[w] = "read" /\ conn[w] \in open /\ request[w] = NoRequest
         \/ status[w] = "answer" /\ conn[w] \in open /\ request[w] \in Requests
    /\ process \in {"up", "no request", "invariants failed", "killed", "ended"}

Numbers(s) == [i \in 1..Len(s) |-> s[i].n]

\* What the worker of a connection, if it has one, has read and not yet answered.
InHand(c) ==
    LET ws == {w \in Workers : conn[w] = c}
    IN  IF ws = {} THEN << >>
        ELSE LET w == CHOOSE w \in ws : TRUE
             IN  Messages(<<request[w]>> \o input_list[w])

\* While the server runs, the requests answered on a connection, those its worker
\* holds and those still in the socket are together the requests sent, in the order
\* sent: pipelined requests that input_list keeps over several calls of
\* sync_connection_read_message are answered once each and in order, whichever
\* worker serves the connection, and none is left in the list of a connection that
\* is disposed of.
AnsweredInOrder ==
    process = "up" =>
        \A c \in Conns :
            /\ \A v, w \in Workers : conn[v] = c /\ conn[w] = c => v = w
            /\ answered[c] \o Numbers(InHand(c) \o Messages(rx[c])) = [i \in 1..sent[c] |-> i]

\* Requests are answered once each and in order, by workers that are where
\* Worker_main can be.
ServesInOrder == TypeOK /\ AnsweredInOrder

\* The process serves until it is told to stop: no assertion of
\* sync_connection_read_message or Worker_main fails, no signal kills it and
\* sync_server_listen does not return.
KeepsServing == process = "up"

\* No client that behaves can stop the server.  An assertion fails only for a worker
\* whose own client misbehaved, SIGPIPE needs a client that left with requests open,
\* and sync_server_listen returns only after accept failed in every worker: out of
\* descriptors, of which none is ever closed, or with a connection lost to the
\* uninitialized addr_length.
EndsOnlyForCause ==
    /\ process \in {"no request", "invariants failed"} => \E w \in Workers : conn[w] \in misbehaved
    /\ process = "killed" => \E c \in misbehaved : peer[c] = "reset"
    /\ process = "ended" => \/ Cardinality(open) = MaxFds
                           \/ \E c \in Conns \ open : peer[c] = "reset"

\* A client always comes to have every request it has sent answered, even with more
\* clients than workers, unless the process ends or accept loses the connection: no
\* worker waits for ever for one client while others wait for it.
RequestsAnswered ==
    \A c \in Conns : []<>(\/ Len(answered[c]) = sent[c]
                         \/ process # "up"
                         \/ peer[c] = "reset")
=============================================================================
