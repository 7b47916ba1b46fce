------------------------- MODULE AsyncServerProofs -------------------------
(***************************************************************************)
(* The event-driven server, for any number of connections and any buffer   *)
(* sizes: a connection has one continuation, half duplex is never broken,  *)
(* and nothing refers to a connection that has been freed.  And although   *)
(* an event is reported once, and dropped when it finds its side busy, a   *)
(* connection that waits to send is told of the space it has, and, if one  *)
(* recv can empty a receive buffer, one that waits to read of the input it *)
(* has.                                                                    *)
(***************************************************************************)
EXTENDS AsyncServer, SequenceTheorems, TLAPS

Entries == [f : Functors, c : Conns]

-----------------------------------------------------------------------------
(* Lemmas about sequences *)

\* Tail, element by element.
LEMMA TailIsShift ==
    ASSUME NEW S, NEW s \in Seq(S), s # << >>
    PROVE  /\ Head(s) \in S
           /\ Tail(s) \in Seq(S)
           /\ Len(s) \in Nat \ {0}
           /\ Head(s) = s[1]
           /\ Len(Tail(s)) = Len(s) - 1
           /\ \A i \in 1..(Len(s) - 1) : Tail(s)[i] = s[i + 1]
BY HeadTailProperties, LenProperties

\* What recv takes is a prefix of what was received.
LEMMA RecvType ==
    ASSUME NEW c \in Conns, SocketsTypeOK, RcvCap \in Nat, RecvMax \in Nat
    PROVE  /\ Received(c) \in Seq(Tokens)
           /\ SubSeq(rx[c], Len(Received(c)) + 1, Len(rx[c])) \in Seq(Tokens)
           /\ Len(SubSeq(rx[c], Len(Received(c)) + 1, Len(rx[c]))) <= RcvCap
<1>1. rx[c] \in Seq(Tokens) /\ Len(rx[c]) <= RcvCap /\ Len(rx[c]) \in Nat
  BY DEF SocketsTypeOK
<1>2. CASE Len(rx[c]) <= RecvMax
  BY <1>1, <1>2, SubSeqProperties DEF Received
<1>3. CASE ~(Len(rx[c]) <= RecvMax)
  BY <1>1, <1>3, SubSeqProperties DEF Received
<1> QED BY <1>2, <1>3, Zenon

\* A posted functor is an entry of the list.
LEMMA PostedType ==
    ASSUME NEW rl \in Seq(Entries), NEW f \in Functors, NEW c \in Conns
    PROVE  Posted(rl, f, c) \in Seq(Entries)
BY AppendProperties, Zenon DEF Posted, Entries

-----------------------------------------------------------------------------
(* The ready list as a set of continuations *)

\* cont gives for each connection the functor that is on the list rl for it,
\* or "none".
Matches(rl, cont) ==
    /\ \A i \in 1..Len(rl) : rl[i].f = cont[rl[i].c]
    /\ \A i, j \in 1..Len(rl) : rl[i].c = rl[j].c => i = j
    /\ \A c \in Conns : cont[c] # "none" => \E i \in 1..Len(rl) : rl[i].c = c

\* What is to be posted for each connection.
Cont == [c \in Conns |-> IF c \in table THEN Continuation(c) ELSE "none"]

\* rtor_reactor_post, for a connection that has nothing posted.
LEMMA PostedMatches ==
    ASSUME NEW rl \in Seq(Entries), NEW cont \in [Conns -> Functors \cup {"none"}],
           Matches(rl, cont),
           NEW f \in Functors, NEW c \in Conns, cont[c] = "none"
    PROVE  /\ Posted(rl, f, c) \in Seq(Entries)
           /\ Posted(rl, f, c) # << >>
           /\ Matches(Posted(rl, f, c), [cont EXCEPT ![c] = f])
<1> DEFINE e == [f |-> f, c |-> c]
           new == Posted(rl, f, c)
           n == Len(rl)
           cont1 == [cont EXCEPT ![c] = f]
<1>1. e \in Entries /\ e.f = f /\ e.c = c
  BY Zenon DEF Entries
<1>2. /\ new \in Seq(Entries)
      /\ n \in Nat
      /\ Len(new) = n + 1
      /\ new[n + 1] = e
      /\ \A i \in 1..n : new[i] = rl[i] /\ rl[i] \in Entries
  BY <1>1, LenProperties, ElementOfSeq, AppendProperties DEF Posted
<1>3. \A i \in 1..n : rl[i].f \in Functors /\ rl[i].c \in Conns
  BY <1>2, Zenon DEF Entries
<1>4. \A i \in 1..n : rl[i].c # c
  BY <1>3 DEF Matches, Functors
<1>5. cont1[c] = f /\ \A d \in Conns \ {c} : cont1[d] = cont[d]
  BY Zenon
<1> HIDE DEF new, e, n, cont1
<1>6. \A i \in 1..Len(new) : new[i].f = cont1[new[i].c]
  BY <1>1, <1>2, <1>3, <1>4, <1>5 DEF Matches, n
<1>7. \A i, j \in 1..Len(new) : new[i].c = new[j].c => i = j
  BY <1>1, <1>2, <1>4 DEF Matches, n
<1>8. ASSUME NEW d \in Conns, cont1[d] # "none"
      PROVE  \E i \in 1..Len(new) : new[i].c = d
  <2>1. CASE d = c
    <3>1. n + 1 \in 1..Len(new) /\ new[n + 1].c = c
      BY <1>1, <1>2
    <3> QED BY <2>1, <3>1, Zenon
  <2>2. CASE d # c
    <3>1. PICK i \in 1..n : rl[i].c = d
      BY <2>2, <1>5, <1>8, Zenon DEF Matches, n
    <3>2. i \in 1..Len(new) /\ new[i].c = d
      BY <3>1, <1>2
    <3> QED BY <3>2, Zenon
  <2> QED BY <2>1, <2>2, Zenon
<1>9. Matches(new, cont1)
  BY <1>6, <1>7, <1>8, Zenon DEF Matches
<1>10. new # << >>
  BY <1>2
<1> QED BY <1>2, <1>9, <1>10, Zenon DEF new, cont1

\* functor_list_remove, on a list that is not empty.
LEMMA RunMatches ==
    ASSUME NEW rl \in Seq(Entries), NEW cont \in [Conns -> Functors \cup {"none"}],
           Matches(rl, cont), rl # << >>,
           NEW f, NEW c, Head(rl) = [f |-> f, c |-> c]
    PROVE  /\ f \in Functors
           /\ c \in Conns
           /\ cont[c] = f
           /\ Tail(rl) \in Seq(Entries)
           /\ Matches(Tail(rl), [cont EXCEPT ![c] = "none"])
<1> DEFINE rest == Tail(rl)
           n == Len(rl)
           cont1 == [cont EXCEPT ![c] = "none"]
<1>1. /\ Head(rl) \in Entries
      /\ rest \in Seq(Entries)
      /\ n \in Nat \ {0}
      /\ Head(rl) = rl[1]
      /\ Len(rest) = n - 1
      /\ \A i \in 1..(n - 1) : rest[i] = rl[i + 1]
  BY TailIsShift, Zenon
<1>2. f \in Functors /\ c \in Conns /\ rl[1].f = f /\ rl[1].c = c
  BY <1>1 DEF Entries
<1>3. \A i \in 1..n : rl[i].c \in Conns
  <2>1. \A i \in 1..n : rl[i] \in Entries
    BY ElementOfSeq, Zenon
  <2> QED BY <2>1, Zenon DEF Entries
<1>4. cont1[c] = "none" /\ \A d \in Conns \ {c} : cont1[d] = cont[d]
  BY <1>2, Zenon
<1>5. cont[c] = f
  BY <1>1, <1>2 DEF Matches
<1> HIDE DEF rest, n, cont1
<1>6. \A i \in 1..n : i # 1 => rl[i].c # c
  BY <1>1, <1>2 DEF Matches, n
<1>7. \A i \in 1..Len(rest) : i + 1 \in 1..n /\ i + 1 # 1 /\ rest[i] = rl[i + 1]
  BY <1>1
<1>8. \A i \in 1..Len(rest) : rest[i].f = cont1[rest[i].c]
  BY <1>3, <1>4, <1>6, <1>7 DEF Matches, n
<1>9. ASSUME NEW i \in 1..Len(rest), NEW j \in 1..Len(rest), rest[i].c = rest[j].c
      PROVE  i = j
  <2>1. i + 1 = j + 1
    BY <1>7, <1>9 DEF Matches, n
  <2>2. i \in Int /\ j \in Int
    BY <1>1
  <2> QED BY <2>1, <2>2
<1>10. ASSUME NEW d \in Conns, cont1[d] # "none"
       PROVE  \E i \in 1..Len(rest) : rest[i].c = d
  <2>1. d # c /\ cont[d] # "none"
    BY <1>4, <1>10, Zenon
  <2>2. PICK i \in 1..n : rl[i].c = d
    BY <2>1, Zenon DEF Matches, n
  <2>3. i # 1
    BY <2>1, <2>2, <1>2, Zenon
  <2>4. i - 1 \in 1..Len(rest) /\ (i - 1) + 1 = i
    BY <2>3, <1>1
  <2> QED BY <2>2, <2>4, <1>7, ZenonT(60)
<1>11. Matches(rest, cont1)
  BY <1>8, <1>9, <1>10, Zenon DEF Matches
<1> QED BY <1>1, <1>2, <1>5, <1>11, Zenon DEF rest, cont1

-----------------------------------------------------------------------------
(* Type correctness *)

\* The state async_server_start leaves has the types.
LEMMA InitTypeOK == Init => TypeOK
BY AsyncAssumption
   DEF Init, SocketsInit, ReactorInit, ConnectionInit, TypeOK, SocketsTypeOK,
       ReactorTypeOK, ConnectionTypeOK, ClientTypeOK, PeerStates, LoopStates, States

\* reader keeps the types of what it assigns.
LEMMA ReaderType ==
    ASSUME TypeOK, NEW c \in Conns, NEW rl \in Seq(Entries), reader(c, rl)
    PROVE  /\ rx' \in [Conns -> Seq(Tokens)]
           /\ \A d \in Conns : Len(rx'[d]) <= RcvCap
           /\ UNCHANGED <<peer, tx, nospace, output, answered>>
           /\ ready_list' \in Seq(Entries)
           /\ read_state' \in [Conns -> States]
           /\ write_state' \in [Conns -> States]
           /\ readside_posted' \in [Conns -> BOOLEAN]
           /\ scratch_request' \in [Conns -> BOOLEAN]
           /\ parser_error' \in [Conns -> BOOLEAN]
           /\ errno' \in {"EAGAIN", "other"}
<1> USE DEF TypeOK, ConnectionTypeOK
<1>1. /\ rx' \in [Conns -> Seq(Tokens)]
      /\ \A d \in Conns : Len(rx'[d]) <= RcvCap
      /\ parser_error' \in [Conns -> BOOLEAN]
  <2>1. CASE Recv(c)
    <3>1. rx' \in [Conns -> Seq(Tokens)] /\ \A d \in Conns : Len(rx'[d]) <= RcvCap
      BY <2>1, RecvType, AsyncAssumption, Zenon DEF Recv, SocketsTypeOK
    <3>2. parser_error' \in [Conns -> BOOLEAN]
      BY <2>1, Zenon DEF Recv, ParseFails
    <3> QED BY <3>1, <3>2, Zenon
  <2>2. CASE NothingReceived(c)
    BY <2>2, Zenon DEF NothingReceived, SocketsTypeOK
  <2> QED BY <2>1, <2>2, Zenon DEF reader, read_new_message, read_eagain, read_need_data, read_error
<1>2. CASE read_new_message(c, rl)
  BY <1>1, <1>2, PostedType, ZenonT(60) DEF reader, read_new_message, Functors, States
<1>3. CASE read_eagain(c, rl)
  BY <1>1, <1>3, Zenon DEF reader, read_eagain, States
<1>4. CASE read_need_data(c, rl)
  BY <1>1, <1>4, PostedType, ZenonT(60) DEF reader, read_need_data, Functors, States
<1>5. CASE read_error(c, rl)
  BY <1>1, <1>5, PostedType, ZenonT(60) DEF reader, read_error, Functors, States
<1> QED BY <1>2, <1>3, <1>4, <1>5, Zenon DEF reader

\* Running a functor takes an entry off the list.
LEMMA RunFunctorType ==
    ASSUME ready_list \in Seq(Entries), NEW f, NEW c, RunFunctor(f, c)
    PROVE  /\ f \in Functors
           /\ c \in Conns
           /\ Tail(ready_list) \in Seq(Entries)
<1>1. Head(ready_list) \in Entries /\ Tail(ready_list) \in Seq(Entries)
  BY TailIsShift, Zenon DEF RunFunctor
<1> QED BY <1>1 DEF RunFunctor, Entries

\* Every action of the server and of the clients keeps the types.
LEMMA NextTypeOK == TypeOK /\ [Next]_vars => TypeOK'
<1> SUFFICES ASSUME TypeOK, [Next]_vars
             PROVE  TypeOK'
  BY Zenon
<1>0. ready_list \in Seq(Entries)
  BY Zenon DEF TypeOK, ConnectionTypeOK, Entries
<1> USE AsyncAssumption DEF TypeOK
<1>1. CASE RunLoop /\ UNCHANGED client
  <2>1. ClientTypeOK'
    BY <1>1, Zenon DEF client, ClientTypeOK
  <2>2. CASE epoll_wait /\ UNCHANGED <<connection, errno, handler_list>>
    <3>1. SocketsTypeOK'
      BY <2>2, Zenon DEF epoll_wait, SocketsTypeOK
    <3>2. ReactorTypeOK'
      BY <2>2, Zenon DEF epoll_wait, EpollReady, EventMask, LoopStates, ReactorTypeOK
    <3>3. ConnectionTypeOK'
      BY <2>2, Zenon DEF epoll_wait, ConnectionTypeOK, connection
    <3> QED BY <2>1, <3>1, <3>2, <3>3, Zenon
  <2>3. CASE (EndDispatch \/ EndDrain \/ AcceptFails)
             /\ UNCHANGED <<sockets, connection, errno, handler_list>>
    <3>1. SocketsTypeOK'
      BY <2>3, Zenon DEF sockets, SocketsTypeOK
    <3>2. ReactorTypeOK'
      BY <2>3, Zenon DEF EndDispatch, EndDrain, AcceptFails, LoopStates, ReactorTypeOK
    <3>3. ConnectionTypeOK'
      BY <2>3, Zenon DEF EndDispatch, EndDrain, AcceptFails, ConnectionTypeOK, connection
    <3> QED BY <2>1, <3>1, <3>2, <3>3, Zenon
  <2> QED BY <1>1, <2>2, <2>3, Zenon DEF RunLoop
<1>2. CASE on_event_listening /\ UNCHANGED client
  <2> DEFINE c == Head(backlog)
  <2>1. c \in Conns /\ Tail(backlog) \in Seq(Conns)
    BY <1>2, TailIsShift, Zenon DEF on_event_listening, SocketsTypeOK
  <2>2. reader(c, ready_list)
    BY <1>2, Zenon DEF on_event_listening, async_connection_read
  <2>3. SocketsTypeOK'
    BY <1>0, <1>2, <2>1, <2>2, ReaderType, Zenon DEF on_event_listening, SocketsTypeOK
  <2>4. ReactorTypeOK'
    BY <1>2, <2>1, Zenon DEF on_event_listening, Dispatch, ReactorTypeOK
  <2>5. ConnectionTypeOK'
    BY <1>0, <1>2, <2>1, <2>2, ReaderType, ZenonT(60)
       DEF on_event_listening, ConnectionTypeOK, Entries
  <2> QED BY <1>2, <2>3, <2>4, <2>5, Zenon DEF client, ClientTypeOK
<1>3. ASSUME NEW c \in Conns, async_event_handler(c), UNCHANGED client
      PROVE  TypeOK'
  <2>1. ready_list' \in Seq(Entries)
    BY <1>0, <1>3, PostedType, ZenonT(60) DEF async_event_handler, Resume, Functors
  <2>2. SocketsTypeOK' /\ ClientTypeOK'
    BY <1>3, Zenon DEF async_event_handler, Resume, sockets, SocketsTypeOK, client, ClientTypeOK
  <2>3. ReactorTypeOK'
    BY <1>3, Zenon DEF async_event_handler, Resume, Dispatch, ReactorTypeOK
  <2>4. ConnectionTypeOK'
    BY <1>3, <2>1, Zenon DEF async_event_handler, Resume, ReadResumes, WriteResumes,
                      ConnectionTypeOK, Entries, States
  <2> QED BY <2>2, <2>3, <2>4, Zenon
<1>4. ASSUME NEW c \in Conns, postable_reader(c) \/ postable_write_complete(c),
             UNCHANGED client
      PROVE  TypeOK'
  <2>1. Tail(ready_list) \in Seq(Entries) /\ reader(c, Tail(ready_list))
    BY <1>0, <1>4, RunFunctorType, Zenon
       DEF postable_reader, postable_write_complete, async_connection_read
  <2>2. /\ UNCHANGED <<loop, table, edge, backlog, handler_list>>
        /\ UNCHANGED <<batch, mask>>
    BY <1>4, Zenon DEF postable_reader, postable_write_complete, RunFunctor
  <2>3. SocketsTypeOK'
    BY <2>1, <2>2, ReaderType, ZenonT(60) DEF SocketsTypeOK
  <2>4. ReactorTypeOK'
    BY <2>2, Zenon DEF ReactorTypeOK
  <2>5. ConnectionTypeOK'
    BY <2>1, <2>2, ReaderType, ZenonT(60) DEF ConnectionTypeOK, Entries
  <2> QED BY <1>4, <2>3, <2>4, <2>5, Zenon DEF client, ClientTypeOK
<1>5. ASSUME NEW c \in Conns, postable_handle_request(c), UNCHANGED client
      PROVE  TypeOK'
  <2>1. ready_list' \in Seq(Entries)
    BY <1>0, <1>5, RunFunctorType, PostedType, ZenonT(60) DEF postable_handle_request, Functors
  <2>2. SocketsTypeOK' /\ ClientTypeOK'
    BY <1>5, Zenon DEF postable_handle_request, sockets, SocketsTypeOK, client, ClientTypeOK
  <2>3. ReactorTypeOK'
    BY <1>5, Zenon DEF postable_handle_request, RunFunctor, ReactorTypeOK
  <2>4. ConnectionTypeOK'
    BY <1>5, <2>1 DEF postable_handle_request, ConnectionTypeOK, Entries, States
  <2> QED BY <2>2, <2>3, <2>4, Zenon
<1>6. ASSUME NEW c \in Conns, async_postable_writer(c), UNCHANGED client
      PROVE  TypeOK'
  <2>1. Tail(ready_list) \in Seq(Entries)
    BY <1>0, <1>6, RunFunctorType, Zenon DEF async_postable_writer
  <2>2. \A f \in Functors : Posted(Tail(ready_list), f, c) \in Seq(Entries)
    BY <2>1, PostedType, ZenonT(60)
  <2>3. ready_list' \in Seq(Entries)
    BY <1>0, <1>6, <2>1, <2>2, ZenonT(60)
       DEF async_postable_writer, write_complete, write_incomplete, write_eagain,
           write_error, sigpipe, Functors
  <2>4. Space(c) \in Int /\ tx[c] \in 0..SndCap /\ output[c] \in 0..RespLen
    BY DEF Space, ConnectionTypeOK, SocketsTypeOK
  <2>5. UNCHANGED <<table, peer, rx, edge, backlog, readside_posted, scratch_request,
                    parser_error, handler_list, batch, mask>>
    BY <1>6, Zenon DEF async_postable_writer, RunFunctor
  <2>6. /\ tx' \in [Conns -> 0..SndCap]
        /\ nospace' \in [Conns -> BOOLEAN]
        /\ output' \in [Conns -> 0..RespLen]
        /\ answered' \in [Conns -> Nat]
    <3> USE DEF SocketsTypeOK, ConnectionTypeOK
    <3>1. CASE write_complete(c)
      <4>1. tx[c] + output[c] \in 0..SndCap
        BY <2>4, <3>1 DEF write_complete, Space
      <4> QED BY <3>1, <4>1 DEF write_complete
    <3>2. CASE write_incomplete(c)
      <4>1. output[c] - Space(c) \in 0..RespLen
        BY <2>4, <3>2 DEF write_incomplete
      <4> QED BY <3>2, <4>1 DEF write_incomplete
    <3>3. CASE write_eagain(c) \/ write_error(c) \/ sigpipe(c)
      BY <3>3, ZenonT(60) DEF write_eagain, write_error, sigpipe, SendFails
    <3> QED BY <1>6, <3>1, <3>2, <3>3, Zenon DEF async_postable_writer
  <2>7. ReactorTypeOK'
    BY <1>6, <2>5, Zenon
       DEF async_postable_writer, write_complete, write_incomplete, write_eagain,
           write_error, sigpipe, LoopStates, ReactorTypeOK
  <2>8. SocketsTypeOK'
    BY <2>5, <2>6, Zenon DEF SocketsTypeOK
  <2>9. /\ errno' \in {"EAGAIN", "other"}
        /\ read_state' \in [Conns -> States]
        /\ write_state' \in [Conns -> States]
    BY <1>6, ZenonT(60)
       DEF async_postable_writer, write_complete, write_incomplete, write_eagain,
           write_error, sigpipe, States, ConnectionTypeOK
  <2>10. ConnectionTypeOK'
    BY <2>3, <2>5, <2>6, <2>9, Zenon DEF ConnectionTypeOK, Entries
  <2> QED BY <1>6, <2>7, <2>8, <2>10, Zenon DEF client, ClientTypeOK
<1>7. ASSUME NEW c \in Conns, Close(c)
      PROVE  TypeOK'
  <2>1. Tail(ready_list) \in Seq(Entries)
    BY <1>0, <1>7, RunFunctorType, Zenon DEF Close, postable_close_connection
  <2>2. SocketsTypeOK'
    BY <1>7 DEF Close, postable_close_connection, PeerStates, SocketsTypeOK
  <2>3. ReactorTypeOK'
    BY <1>7, Zenon DEF Close, postable_close_connection, RunFunctor, ReactorTypeOK
  <2>4. ConnectionTypeOK'
    BY <1>7, <2>1 DEF Close, postable_close_connection, ConnectionTypeOK, Entries, States
  <2>5. ClientTypeOK'
    BY <1>7 DEF Close, ClientTypeOK
  <2> QED BY <2>2, <2>3, <2>4, <2>5, Zenon
<1>8. ASSUME NEW c \in Conns, Client(c)
      PROVE  TypeOK'
  <2>1. ReactorTypeOK' /\ ConnectionTypeOK'
    BY <1>8, Zenon DEF Client, unserved, reactor, connection, ReactorTypeOK, ConnectionTypeOK
  <2>2. ASSUME NEW token \in Tokens, Arrive(c, token)
        PROVE  SocketsTypeOK'
    <3>1. /\ Append(rx[c], token) \in Seq(Tokens)
          /\ Len(Append(rx[c], token)) = Len(rx[c]) + 1
          /\ Len(rx[c]) \in Nat
      BY AppendProperties, LenProperties DEF SocketsTypeOK
    <3> QED BY <2>2, <3>1 DEF Arrive, SocketsTypeOK
  <2>3. CASE SendPart(c) \/ SendBad(c)
    <3>1. SocketsTypeOK'
      BY <2>2, <2>3, Zenon DEF SendPart, SendBad, Tokens
    <3>2. ClientTypeOK'
      BY <2>3 DEF SendPart, SendBad, ClientTypeOK
    <3> QED BY <2>1, <3>1, <3>2, Zenon
  <2>4. CASE SendLast(c)
    <3>1. SocketsTypeOK'
      BY <2>2, <2>4, Zenon DEF SendLast, Tokens
    <3>2. sent[c] + 1 \in 0..MaxReqs
      BY <2>4 DEF SendLast, MayRequest, ClientTypeOK
    <3>3. ClientTypeOK'
      <4>1. sent' \in [Conns -> 0..MaxReqs] /\ parts' \in [Conns -> 0..MaxParts]
        BY <2>4, <3>2 DEF SendLast, ClientTypeOK
      <4>2. asked' \in [Conns -> BOOLEAN]
        BY <2>4, ZenonT(60) DEF SendLast, ClientTypeOK
      <4> QED BY <4>1, <4>2, Zenon DEF ClientTypeOK
    <3> QED BY <2>1, <3>1, <3>3, Zenon
  <2>5. CASE (Connect(c) \/ ShutDown(c) \/ Reset(c) \/ Receive(c)) /\ UNCHANGED client
    <3>1. SocketsTypeOK'
      <4>1. CASE Connect(c)
        BY <4>1, AppendProperties, Zenon DEF Connect, PeerStates, SocketsTypeOK
      <4>2. CASE ShutDown(c)
        BY <4>2, Zenon DEF ShutDown, PeerStates, SocketsTypeOK
      <4>3. CASE Reset(c)
        <5>1. peer' \in [Conns -> PeerStates]
          BY <4>3, ZenonT(60) DEF Reset, PeerStates, SocketsTypeOK
        <5> QED BY <4>3, <5>1 DEF Reset, SocketsTypeOK
      <4>4. CASE Receive(c)
        BY <4>4 DEF Receive, SocketsTypeOK
      <4> QED BY <2>5, <4>1, <4>2, <4>3, <4>4, Zenon
    <3> QED BY <2>1, <2>5, <3>1, Zenon DEF client, ClientTypeOK
  <2> QED BY <1>8, <2>3, <2>4, <2>5, Zenon DEF Client
<1>9. CASE UNCHANGED vars
  BY <1>9, Zenon DEF vars, sockets, reactor, connection, client, SocketsTypeOK, ReactorTypeOK,
              ConnectionTypeOK, ClientTypeOK
<1> QED BY <1>1, <1>2, <1>3, <1>4, <1>5, <1>6, <1>7, <1>8, <1>9, Zenon
        DEF Next, Server, ServerStep

\* Every variable keeps its type, and no buffer exceeds its capacity.
THEOREM AsyncServerTypeOK == Spec => []TypeOK
BY InitTypeOK, NextTypeOK, PTL DEF Spec

-----------------------------------------------------------------------------
(* The inductive invariant *)

\* What is registered, and when there may be events and functors.
Registered ==
    /\ handler_list = table
    /\ batch \subseteq table \cup {Listener}
    /\ loop \in {"wait", "drain"} => batch = {}
    /\ loop = "wait" => ready_list = << >>

\* A connection waits for accept at most once, and not when it is open.
BacklogFresh ==
    /\ \A i \in 1..Len(backlog) : backlog[i] \notin table /\ peer[backlog[i]] # "none"
    /\ \A i, j \in 1..Len(backlog) : backlog[i] = backlog[j] => i = j
    /\ \A c \in table : peer[c] # "none"

\* A connection that is not open is as async_connection_init will leave it.
Unregistered ==
    \A c \in Conns \ table : /\ read_state[c] = "IDLE"
                             /\ write_state[c] = "IDLE"
                             /\ ~readside_posted[c]
                             /\ ~scratch_request[c]

\* The inductive invariant: the half-duplex discipline, one functor for every
\* connection whose state calls for one, and the tables that go with it.
IInv ==
    /\ TypeOK
    /\ HalfDuplex
    /\ Matches(ready_list, Cont)
    /\ Registered
    /\ BacklogFresh
    /\ Unregistered

\* The states a continuation stands for.
LEMMA ContinuationStates ==
    ASSUME TypeOK, HalfDuplex, NEW c \in Conns
    PROVE  /\ Continuation(c) \in Functors \cup {"none"}
           /\ Continuation(c) = "postable_reader"
                => read_state[c] = "ACTIVE" /\ write_state[c] = "IDLE" /\ ~scratch_request[c]
           /\ Continuation(c) = "postable_handle_request"
                => read_state[c] = "IDLE" /\ write_state[c] = "IDLE" /\ scratch_request[c]
           /\ Continuation(c) = "async_postable_writer"
                => read_state[c] = "IDLE" /\ write_state[c] = "ACTIVE" /\ ~scratch_request[c]
           /\ Continuation(c) = "postable_write_complete"
                => read_state[c] = "IDLE" /\ write_state[c] = "IDLE" /\ ~scratch_request[c]
<1>1. HalfDuplexAt(c)
  BY Zenon DEF HalfDuplex
<1> QED BY <1>1, Zenon DEF HalfDuplexAt, Continuation, Functors

\* Cont is a function of the right type.
LEMMA ContType ==
    ASSUME TypeOK, HalfDuplex
    PROVE  Cont \in [Conns -> Functors \cup {"none"}]
BY ContinuationStates, Zenon DEF Cont

\* A step that concerns connection c alone changes Cont at c alone.
LEMMA ContFrame ==
    ASSUME NEW c \in Conns, NEW g,
           g = IF c \in table' THEN Continuation(c)' ELSE "none",
           \A d \in Conns \ {c} : /\ read_state'[d] = read_state[d]
                                  /\ write_state'[d] = write_state[d]
                                  /\ scratch_request'[d] = scratch_request[d]
                                  /\ d \in table' <=> d \in table
    PROVE  Cont' = [Cont EXCEPT ![c] = g]
<1>1. ASSUME NEW d \in Conns \ {c}
      PROVE  Continuation(d)' = Continuation(d)
  BY <1>1, ZenonT(60) DEF Continuation
<1> QED BY <1>1, ZenonT(60) DEF Cont

\* A functor that is posted in place of the one that ran.
LEMMA RepostMatches ==
    ASSUME TypeOK, HalfDuplex, NEW c \in Conns, NEW rl \in Seq(Entries), NEW g \in Functors,
           Matches(rl, [Cont EXCEPT ![c] = "none"]),
           Cont' = [Cont EXCEPT ![c] = g]
    PROVE  Matches(Posted(rl, g, c), Cont')
<1> DEFINE cont0 == [Cont EXCEPT ![c] = "none"]
<1>1. cont0 \in [Conns -> Functors \cup {"none"}] /\ cont0[c] = "none"
  BY ContType, Zenon
<1>2. Matches(Posted(rl, g, c), [cont0 EXCEPT ![c] = g])
  BY <1>1, PostedMatches, ZenonT(60)
<1>3. [cont0 EXCEPT ![c] = g] = [Cont EXCEPT ![c] = g]
  BY ZenonT(60) DEF Cont
<1> QED BY <1>2, <1>3, Zenon

\* reader, called for a connection with nothing posted.
LEMMA ReaderIInv ==
    ASSUME TypeOK, HalfDuplex, Unregistered,
           NEW c \in Conns, NEW rl \in Seq(Entries), reader(c, rl),
           write_state[c] = "IDLE", ~scratch_request[c], table' = table \cup {c},
           Matches(rl, [Cont EXCEPT ![c] = "none"])
    PROVE  HalfDuplex' /\ Unregistered' /\ Matches(ready_list', Cont')
<1>1. ASSUME NEW g \in Functors, ready_list' = Posted(rl, g, c), Cont' = [Cont EXCEPT ![c] = g]
      PROVE  Matches(ready_list', Cont')
  BY <1>1, RepostMatches, ZenonT(60)
<1>2. \A d \in Conns \ {c} : /\ read_state'[d] = read_state[d]
                             /\ write_state'[d] = write_state[d]
                             /\ readside_posted'[d] = readside_posted[d]
                             /\ scratch_request'[d] = scratch_request[d]
                             /\ output'[d] = output[d]
                             /\ d \in table' <=> d \in table
  BY ZenonT(60) DEF reader, read_new_message, read_eagain, read_need_data, read_error,
         TypeOK, ConnectionTypeOK
<1>3. Unregistered'
  BY <1>2, ZenonT(60) DEF Unregistered
<1>4. ASSUME HalfDuplexAt(c)'
      PROVE  HalfDuplex'
  BY <1>2, <1>4 DEF HalfDuplex, HalfDuplexAt
<1>5. CASE read_new_message(c, rl)
  <2>1. /\ read_state'[c] = "IDLE"
        /\ write_state'[c] = "IDLE"
        /\ ~readside_posted'[c]
        /\ scratch_request'[c]
        /\ ready_list' = Posted(rl, "postable_handle_request", c)
    BY <1>5, Zenon DEF read_new_message, TypeOK, ConnectionTypeOK
  <2>2. HalfDuplexAt(c)'
    BY <2>1, Zenon DEF HalfDuplexAt
  <2>3. Continuation(c)' = "postable_handle_request"
    BY <2>1, Zenon DEF Continuation
  <2>4. Cont' = [Cont EXCEPT ![c] = "postable_handle_request"]
    <3>1. "postable_handle_request" = IF c \in table' THEN Continuation(c)' ELSE "none"
      BY <2>3, Zenon
    <3> QED BY <1>2, <3>1, ContFrame
  <2>5. Matches(ready_list', Cont')
    BY <1>1, <2>1, <2>4, Zenon DEF Functors
  <2> QED BY <1>3, <1>4, <2>2, <2>5, Zenon
<1>6. CASE read_eagain(c, rl)
  <2>1. /\ read_state'[c] = "EAGAINED"
        /\ write_state'[c] = "IDLE"
        /\ ~readside_posted'[c]
        /\ ~scratch_request'[c]
        /\ ready_list' = rl
    BY <1>6, Zenon DEF read_eagain, TypeOK, ConnectionTypeOK
  <2>2. HalfDuplexAt(c)'
    BY <2>1, Zenon DEF HalfDuplexAt
  <2>3. Continuation(c)' = "none"
    BY <2>1, Zenon DEF Continuation
  <2>4. Cont' = [Cont EXCEPT ![c] = "none"]
    <3>1. "none" = IF c \in table' THEN Continuation(c)' ELSE "none"
      BY <2>3, Zenon
    <3> QED BY <1>2, <3>1, ContFrame
  <2> QED BY <1>3, <1>4, <2>1, <2>2, <2>4, Zenon
<1>7. CASE read_need_data(c, rl)
  <2>1. /\ read_state'[c] = "ACTIVE"
        /\ write_state'[c] = "IDLE"
        /\ readside_posted'[c]
        /\ ~scratch_request'[c]
        /\ ready_list' = Posted(rl, "postable_reader", c)
    BY <1>7, Zenon DEF read_need_data, TypeOK, ConnectionTypeOK
  <2>2. HalfDuplexAt(c)'
    BY <2>1, Zenon DEF HalfDuplexAt
  <2>3. Continuation(c)' = "postable_reader"
    BY <2>1, Zenon DEF Continuation
  <2>4. Cont' = [Cont EXCEPT ![c] = "postable_reader"]
    <3>1. "postable_reader" = IF c \in table' THEN Continuation(c)' ELSE "none"
      BY <2>3, Zenon
    <3> QED BY <1>2, <3>1, ContFrame
  <2>5. Matches(ready_list', Cont')
    BY <1>1, <2>1, <2>4, Zenon DEF Functors
  <2> QED BY <1>3, <1>4, <2>2, <2>5, Zenon
<1>8. CASE read_error(c, rl)
  <2>1. /\ read_state'[c] = "STOP"
        /\ write_state'[c] = "STOP"
        /\ ~readside_posted'[c]
        /\ ~scratch_request'[c]
        /\ ready_list' = Posted(rl, "postable_close_connection", c)
    BY <1>8, Zenon DEF read_error, TypeOK, ConnectionTypeOK
  <2>2. HalfDuplexAt(c)'
    BY <2>1, Zenon DEF HalfDuplexAt
  <2>3. Continuation(c)' = "postable_close_connection"
    BY <2>1, Zenon DEF Continuation
  <2>4. Cont' = [Cont EXCEPT ![c] = "postable_close_connection"]
    <3>1. "postable_close_connection" = IF c \in table' THEN Continuation(c)' ELSE "none"
      BY <2>3, Zenon
    <3> QED BY <1>2, <3>1, ContFrame
  <2>5. Matches(ready_list', Cont')
    BY <1>1, <2>1, <2>4, Zenon DEF Functors
  <2> QED BY <1>3, <1>4, <2>2, <2>5, Zenon
<1> QED BY <1>5, <1>6, <1>7, <1>8, Zenon DEF reader

\* Nothing is registered, posted or queued initially.
LEMMA InitIInv == Init => IInv
<1> SUFFICES ASSUME Init PROVE IInv
  BY Zenon
<1>1. TypeOK
  BY InitTypeOK, Zenon
<1> USE DEF Init, SocketsInit, ReactorInit, ConnectionInit
<1>2. HalfDuplex /\ Unregistered
  BY Zenon DEF HalfDuplex, HalfDuplexAt, Unregistered
<1>3. Matches(ready_list, Cont)
  BY DEF Matches, Cont
<1>4. Registered /\ BacklogFresh
  BY DEF Registered, BacklogFresh
<1> QED BY <1>1, <1>2, <1>3, <1>4, Zenon DEF IInv

\* A functor that runs is the continuation of an open connection.
LEMMA RunIInv ==
    ASSUME IInv, NEW f, NEW c, RunFunctor(f, c)
    PROVE  /\ c \in table
           /\ c \in Conns
           /\ f = Continuation(c)
           /\ batch = {}
           /\ loop = "drain"
           /\ Tail(ready_list) \in Seq(Entries)
           /\ Matches(Tail(ready_list), [Cont EXCEPT ![c] = "none"])
<1>1. ready_list \in Seq(Entries) /\ Cont \in [Conns -> Functors \cup {"none"}]
  BY ContType, Zenon DEF IInv, TypeOK, ConnectionTypeOK, Entries
<1>2. /\ f \in Functors
      /\ c \in Conns
      /\ Cont[c] = f
      /\ Tail(ready_list) \in Seq(Entries)
      /\ Matches(Tail(ready_list), [Cont EXCEPT ![c] = "none"])
  BY <1>1, RunMatches, ZenonT(60) DEF RunFunctor, IInv
<1>3. c \in table /\ f = Continuation(c)
  BY <1>2, ZenonT(60) DEF Cont, Functors
<1> QED BY <1>2, <1>3, Zenon DEF RunFunctor, IInv, Registered

\* The three phases of the run loop.
LEMMA RunLoopIInv ==
    ASSUME IInv, RunLoop, TypeOK'
    PROVE  IInv'
<1> USE DEF IInv
<1>1. UNCHANGED <<connection, handler_list, ready_list, table, peer, backlog>>
  BY Zenon DEF RunLoop, epoll_wait, EndDispatch, EndDrain, AcceptFails, sockets
<1>2. HalfDuplex' /\ Unregistered'
  BY <1>1, Zenon DEF connection, HalfDuplex, HalfDuplexAt, Unregistered
<1>3. Cont' = Cont
  BY <1>1 DEF connection, Cont, Continuation
<1>4. Matches(ready_list', Cont')
  BY <1>1, <1>3, Zenon
<1>5. BacklogFresh'
  BY <1>1, Zenon DEF BacklogFresh
<1>6. Registered'
  BY <1>1, Zenon DEF RunLoop, epoll_wait, EpollReady, EndDispatch, EndDrain, AcceptFails, Registered
<1> QED BY <1>2, <1>4, <1>5, <1>6, Zenon

\* Accepting a connection and starting to read it.
LEMMA ListeningIInv ==
    ASSUME IInv, on_event_listening, TypeOK'
    PROVE  IInv'
<1> USE DEF IInv
<1> DEFINE c == Head(backlog)
<1>1. /\ c \in Conns
      /\ c = backlog[1]
      /\ Len(backlog) \in Nat \ {0}
      /\ Len(Tail(backlog)) = Len(backlog) - 1
      /\ \A i \in 1..(Len(backlog) - 1) : Tail(backlog)[i] = backlog[i + 1]
  BY TailIsShift, Zenon DEF on_event_listening, TypeOK, SocketsTypeOK
<1>2. c \notin table /\ peer[c] # "none"
  BY <1>1 DEF BacklogFresh
<1>3. /\ backlog' = Tail(backlog)
      /\ table' = table \cup {c}
      /\ handler_list' = handler_list \cup {c}
      /\ reader(c, ready_list)
      /\ batch' \subseteq batch
      /\ loop' = loop
      /\ loop = "dispatch"
      /\ peer' = peer
  BY Zenon DEF on_event_listening, Dispatch, async_connection_read, reader
<1> HIDE DEF c
<1>4. ready_list \in Seq(Entries)
  BY Zenon DEF TypeOK, ConnectionTypeOK, Entries
<1>5. write_state[c] = "IDLE" /\ ~scratch_request[c]
  BY <1>1, <1>2, Zenon DEF Unregistered
<1>6. [Cont EXCEPT ![c] = "none"] = Cont
  BY <1>1, <1>2, Zenon DEF Cont
<1>7. HalfDuplex' /\ Unregistered' /\ Matches(ready_list', Cont')
  BY <1>1, <1>3, <1>4, <1>5, <1>6, ReaderIInv, ZenonT(60)
<1>8. Registered'
  BY <1>3, Zenon DEF Registered
<1>9. BacklogFresh'
  <2>1. \A i \in 1..Len(backlog') : /\ i + 1 \in 1..Len(backlog)
                                    /\ i + 1 # 1
                                    /\ backlog'[i] = backlog[i + 1]
    BY <1>1, <1>3
  <2>2. \A i \in 1..Len(backlog') : backlog'[i] \notin table' /\ peer'[backlog'[i]] # "none"
    <3> SUFFICES ASSUME NEW i \in 1..Len(backlog')
                 PROVE  backlog'[i] \notin table' /\ peer'[backlog'[i]] # "none"
      BY Zenon
    <3>1. i + 1 \in 1..Len(backlog) /\ i + 1 # 1 /\ backlog'[i] = backlog[i + 1]
      BY <2>1, Zenon
    <3>2. 1 \in 1..Len(backlog)
      BY <1>1
    <3>3. backlog[i + 1] \notin table /\ peer[backlog[i + 1]] # "none"
      BY <3>1, Zenon DEF BacklogFresh
    <3>4. backlog[i + 1] # c
      BY <1>1, <3>1, <3>2, Zenon DEF BacklogFresh
    <3> QED BY <1>3, <3>1, <3>3, <3>4, Zenon
  <2>3. ASSUME NEW i \in 1..Len(backlog'), NEW j \in 1..Len(backlog'),
               backlog'[i] = backlog'[j]
        PROVE  i = j
    <3>1. i + 1 = j + 1
      <4>1. /\ i + 1 \in 1..Len(backlog)
            /\ j + 1 \in 1..Len(backlog)
            /\ backlog[i + 1] = backlog[j + 1]
        BY <2>1, <2>3, Zenon
      <4> QED BY <4>1, Zenon DEF BacklogFresh
    <3>2. i \in Int /\ j \in Int
      BY <1>1, <1>3
    <3> QED BY <3>1, <3>2
  <2>4. \A d \in table' : peer'[d] # "none"
    BY <1>2, <1>3, Zenon DEF BacklogFresh
  <2> QED BY <2>2, <2>3, <2>4, Zenon DEF BacklogFresh
<1> QED BY <1>7, <1>8, <1>9, Zenon

\* An fd event for an open connection.
LEMMA EventIInv ==
    ASSUME IInv, NEW c \in Conns, async_event_handler(c), TypeOK'
    PROVE  IInv'
<1> USE DEF IInv
<1>1. /\ c \in table
      /\ UNCHANGED <<table, sockets, handler_list, loop, scratch_request, output>>
      /\ loop = "dispatch"
      /\ batch' \subseteq batch
  BY AsyncAssumption, Zenon DEF async_event_handler, Resume, Dispatch, Registered
<1>2. Registered' /\ BacklogFresh'
  BY <1>1, ZenonT(60) DEF Registered, BacklogFresh, sockets
<1>3. /\ \A d \in Conns \ {c} : /\ read_state'[d] = read_state[d]
                                /\ write_state'[d] = write_state[d]
                                /\ readside_posted'[d] = readside_posted[d]
                                /\ scratch_request'[d] = scratch_request[d]
                                /\ output'[d] = output[d]
                                /\ d \in table' <=> d \in table
  BY <1>1, ZenonT(60) DEF async_event_handler, Resume, TypeOK, ConnectionTypeOK
<1>4. Unregistered'
  BY <1>1, <1>3, ZenonT(60) DEF Unregistered
<1>5. ASSUME HalfDuplexAt(c)'
      PROVE  HalfDuplex'
  BY <1>3, <1>5 DEF HalfDuplex, HalfDuplexAt
<1>6. HalfDuplexAt(c)
  BY Zenon DEF HalfDuplex
<1>7. ready_list \in Seq(Entries) /\ Cont \in [Conns -> Functors \cup {"none"}]
  BY ContType, Zenon DEF TypeOK, ConnectionTypeOK, Entries
<1>8. CASE WriteResumes(c)
  <2>1. read_state[c] = "IDLE" /\ write_state[c] = "EAGAINED" /\ ~scratch_request[c]
    BY <1>6, <1>8, Zenon DEF WriteResumes, HalfDuplexAt
  <2>2. /\ read_state'[c] = "IDLE"
        /\ write_state'[c] = "ACTIVE"
        /\ readside_posted'[c] = readside_posted[c]
        /\ ready_list' = Posted(ready_list, "async_postable_writer", c)
    BY <1>8, <2>1, ZenonT(60) DEF async_event_handler, Resume, ReadResumes, TypeOK, ConnectionTypeOK
  <2>3. HalfDuplexAt(c)'
    BY <1>1, <1>6, <2>1, <2>2, Zenon DEF HalfDuplexAt
  <2>4. Continuation(c)' = "async_postable_writer" /\ Cont[c] = "none"
    BY <1>1, <2>1, <2>2, Zenon DEF Continuation, Cont
  <2>5. Cont' = [Cont EXCEPT ![c] = "async_postable_writer"]
    <3>1. "async_postable_writer" = IF c \in table' THEN Continuation(c)' ELSE "none"
      BY <1>1, <2>4, Zenon
    <3> QED BY <1>3, <3>1, ContFrame, Zenon
  <2>6. Matches(ready_list', Cont')
    BY <1>7, <2>2, <2>4, <2>5, PostedMatches, ZenonT(60) DEF Functors
  <2> QED BY <1>2, <1>4, <1>5, <2>3, <2>6, Zenon
<1>9. CASE ~WriteResumes(c) /\ ReadResumes(c)
  <2>1. read_state[c] = "EAGAINED" /\ write_state[c] = "IDLE" /\ ~scratch_request[c]
    BY <1>6, <1>9, Zenon DEF ReadResumes, HalfDuplexAt
  <2>2. /\ read_state'[c] = "ACTIVE"
        /\ write_state'[c] = "IDLE"
        /\ readside_posted'[c]
        /\ ready_list' = Posted(ready_list, "postable_reader", c)
    BY <1>9, <2>1, ZenonT(60) DEF async_event_handler, Resume, TypeOK, ConnectionTypeOK
  <2>3. HalfDuplexAt(c)'
    BY <1>1, <1>6, <2>1, <2>2, ZenonT(60) DEF HalfDuplexAt
  <2>4. Continuation(c)' = "postable_reader" /\ Cont[c] = "none"
    BY <1>1, <2>1, <2>2, Zenon DEF Continuation, Cont
  <2>5. Cont' = [Cont EXCEPT ![c] = "postable_reader"]
    <3>1. "postable_reader" = IF c \in table' THEN Continuation(c)' ELSE "none"
      BY <1>1, <2>4, Zenon
    <3> QED BY <1>3, <3>1, ContFrame, ZenonT(60)
  <2>6. Matches(ready_list', Cont')
    BY <1>7, <2>2, <2>4, <2>5, PostedMatches, ZenonT(60) DEF Functors
  <2> QED BY <1>2, <1>4, <1>5, <2>3, <2>6, Zenon
<1>10. CASE ~WriteResumes(c) /\ ~ReadResumes(c)
  <2>1. /\ read_state'[c] = read_state[c]
        /\ write_state'[c] = write_state[c]
        /\ readside_posted'[c] = readside_posted[c]
        /\ ready_list' = ready_list
    BY <1>10, ZenonT(60) DEF async_event_handler, Resume, TypeOK, ConnectionTypeOK
  <2>2. HalfDuplexAt(c)'
    BY <1>1, <1>6, <2>1, ZenonT(60) DEF HalfDuplexAt
  <2>3. Continuation(c)' = Continuation(c)
    BY <1>1, <2>1, Zenon DEF Continuation
  <2>4. Cont' = [Cont EXCEPT ![c] = Continuation(c)]
    BY <1>1, <1>3, <2>3, ContFrame, Zenon
  <2>5. Cont' = Cont
    BY <1>1, <2>4, Zenon DEF Cont
  <2> QED BY <1>2, <1>4, <1>5, <2>1, <2>2, <2>5, Zenon
<1> QED BY <1>8, <1>9, <1>10, Zenon

\* A read that goes on, and the read after a response.
LEMMA ReadStepIInv ==
    ASSUME IInv, NEW c \in Conns, postable_reader(c) \/ postable_write_complete(c), TypeOK'
    PROVE  IInv'
<1> USE DEF IInv
<1>1. PICK f \in {"postable_reader", "postable_write_complete"} : RunFunctor(f, c)
  BY Zenon DEF postable_reader, postable_write_complete
<1>2. /\ c \in table
      /\ f = Continuation(c)
      /\ batch = {}
      /\ loop = "drain"
      /\ Tail(ready_list) \in Seq(Entries)
      /\ Matches(Tail(ready_list), [Cont EXCEPT ![c] = "none"])
  BY <1>1, RunIInv, ZenonT(60)
<1>3. write_state[c] = "IDLE" /\ ~scratch_request[c]
  BY <1>1, <1>2, ContinuationStates, Zenon
<1>4. /\ reader(c, Tail(ready_list))
      /\ UNCHANGED <<loop, table, edge, backlog, handler_list, batch, peer>>
  BY Zenon DEF postable_reader, postable_write_complete, async_connection_read, RunFunctor, reader
<1>5. HalfDuplex' /\ Unregistered' /\ Matches(ready_list', Cont')
  BY <1>2, <1>3, <1>4, ReaderIInv, ZenonT(60)
<1>6. Registered' /\ BacklogFresh'
  BY <1>2, <1>4, ZenonT(60) DEF Registered, BacklogFresh
<1> QED BY <1>5, <1>6, Zenon

\* The handler answers a request.
LEMMA HandleIInv ==
    ASSUME IInv, NEW c \in Conns, postable_handle_request(c), TypeOK'
    PROVE  IInv'
<1> USE DEF IInv
<1>1. /\ c \in table
      /\ "postable_handle_request" = Continuation(c)
      /\ batch = {}
      /\ loop = "drain"
      /\ Tail(ready_list) \in Seq(Entries)
      /\ Matches(Tail(ready_list), [Cont EXCEPT ![c] = "none"])
  BY RunIInv, ZenonT(60) DEF postable_handle_request
<1>2. read_state[c] = "IDLE"
  BY <1>1, ContinuationStates, Zenon
<1>3. /\ UNCHANGED <<loop, table, sockets, read_state, readside_posted, handler_list, batch>>
      /\ write_state'[c] = "ACTIVE"
      /\ ~scratch_request'[c]
      /\ output'[c] = RespLen
      /\ ready_list' = Posted(Tail(ready_list), "async_postable_writer", c)
      /\ \A d \in Conns \ {c} : /\ write_state'[d] = write_state[d]
                                /\ scratch_request'[d] = scratch_request[d]
                                /\ output'[d] = output[d]
  BY ZenonT(60) DEF postable_handle_request, RunFunctor, TypeOK, ConnectionTypeOK
<1>4. HalfDuplex'
  <2>1. HalfDuplexAt(c)'
    <3>1. RespLen > 0
      BY AsyncAssumption
    <3>2. readside_posted[c] <=> read_state[c] = "ACTIVE"
      BY <1>1, Zenon DEF HalfDuplex, HalfDuplexAt
    <3> QED BY <1>2, <1>3, <3>1, <3>2, Zenon DEF HalfDuplexAt
  <2>2. ASSUME NEW d \in Conns \ {c} PROVE HalfDuplexAt(d)'
    BY <1>3, <2>2, ZenonT(60) DEF HalfDuplex, HalfDuplexAt
  <2> QED BY <2>1, <2>2, Zenon DEF HalfDuplex
<1>5. Unregistered'
  BY <1>1, <1>3, ZenonT(60) DEF Unregistered
<1>6. Continuation(c)' = "async_postable_writer"
  BY <1>2, <1>3, Zenon DEF Continuation
<1>7. Cont' = [Cont EXCEPT ![c] = "async_postable_writer"]
  <2>1. "async_postable_writer" = IF c \in table' THEN Continuation(c)' ELSE "none"
    BY <1>1, <1>3, <1>6, Zenon
  <2>2. \A d \in Conns \ {c} : /\ read_state'[d] = read_state[d]
                               /\ write_state'[d] = write_state[d]
                               /\ scratch_request'[d] = scratch_request[d]
                               /\ d \in table' <=> d \in table
    BY <1>3, Zenon
  <2> QED BY <2>1, <2>2, ContFrame, Zenon
<1>8. Matches(ready_list', Cont')
  BY <1>1, <1>3, <1>7, RepostMatches, ZenonT(60) DEF Functors
<1>9. Registered' /\ BacklogFresh'
  BY <1>1, <1>3, Zenon DEF Registered, BacklogFresh, sockets
<1> QED BY <1>4, <1>5, <1>8, <1>9, Zenon

\* The five outcomes of a write.
LEMMA WriterIInv ==
    ASSUME IInv, NEW c \in Conns, async_postable_writer(c), TypeOK'
    PROVE  IInv'
<1> USE DEF IInv
<1> DEFINE rest == Tail(ready_list)
<1>1. /\ c \in table
      /\ "async_postable_writer" = Continuation(c)
      /\ batch = {}
      /\ loop = "drain"
      /\ rest \in Seq(Entries)
      /\ Matches(rest, [Cont EXCEPT ![c] = "none"])
  BY RunIInv, ZenonT(60) DEF async_postable_writer
<1>2. read_state[c] = "IDLE" /\ write_state[c] = "ACTIVE" /\ ~scratch_request[c]
  BY <1>1, ContinuationStates, Zenon
<1>3. output[c] > 0 /\ ~readside_posted[c]
  BY <1>2, Zenon DEF HalfDuplex, HalfDuplexAt
<1>4. UNCHANGED <<table, peer, backlog, readside_posted, scratch_request, handler_list, batch>>
  BY Zenon DEF async_postable_writer, RunFunctor
<1>5. \A d \in Conns \ {c} : /\ read_state'[d] = read_state[d]
                             /\ write_state'[d] = write_state[d]
                             /\ output'[d] = output[d]
  BY ZenonT(60) DEF async_postable_writer, write_complete, write_incomplete, write_eagain,
         write_error, sigpipe, SendFails, TypeOK, ConnectionTypeOK
<1>6. loop' \in {"drain", "killed"}
  BY <1>1, Zenon DEF async_postable_writer, write_complete, write_incomplete, write_eagain,
              write_error, sigpipe
<1>7. Registered' /\ BacklogFresh' /\ Unregistered'
  BY <1>1, <1>4, <1>5, <1>6, ZenonT(60) DEF Registered, BacklogFresh, Unregistered
<1>8. ASSUME HalfDuplexAt(c)'
      PROVE  HalfDuplex'
  BY <1>4, <1>5, <1>8, ZenonT(60) DEF HalfDuplex, HalfDuplexAt
<1>9. Cont' = [Cont EXCEPT ![c] = Continuation(c)']
  BY <1>1, <1>4, <1>5, ContFrame, ZenonT(60)
<1>10. CASE write_complete(c)
  <2>1. /\ read_state'[c] = "IDLE"
        /\ write_state'[c] = "IDLE"
        /\ ready_list' = Posted(rest, "postable_write_complete", c)
    BY <1>2, <1>10, ZenonT(60) DEF write_complete, TypeOK, ConnectionTypeOK
  <2>2. HalfDuplexAt(c)' /\ Continuation(c)' = "postable_write_complete"
    BY <1>2, <1>3, <1>4, <2>1, Zenon DEF HalfDuplexAt, Continuation
  <2>3. Matches(ready_list', Cont')
    BY <1>1, <1>9, <2>1, <2>2, RepostMatches, ZenonT(60) DEF Functors
  <2> QED BY <1>7, <1>8, <2>2, <2>3, Zenon
<1>11. CASE write_incomplete(c)
  <2>1. /\ read_state'[c] = "IDLE"
        /\ write_state'[c] = "ACTIVE"
        /\ ready_list' = Posted(rest, "async_postable_writer", c)
    BY <1>2, <1>11, Zenon DEF write_incomplete
  <2>2. output'[c] > 0
    <3>1. output[c] \in Int /\ Space(c) \in Int
      BY AsyncAssumption DEF Space, TypeOK, ConnectionTypeOK, SocketsTypeOK
    <3>2. output'[c] = output[c] - Space(c) /\ output[c] > Space(c)
      BY <1>11, Zenon DEF write_incomplete, TypeOK, ConnectionTypeOK
    <3> QED BY <3>1, <3>2
  <2>3. HalfDuplexAt(c)' /\ Continuation(c)' = "async_postable_writer"
    BY <1>2, <1>3, <1>4, <2>1, <2>2, Zenon DEF HalfDuplexAt, Continuation
  <2>4. Matches(ready_list', Cont')
    BY <1>1, <1>9, <2>1, <2>3, RepostMatches, ZenonT(60) DEF Functors
  <2> QED BY <1>7, <1>8, <2>3, <2>4, Zenon
<1>12. CASE write_eagain(c)
  <2>1. /\ read_state'[c] = "IDLE"
        /\ write_state'[c] = "EAGAINED"
        /\ output'[c] = output[c]
        /\ ready_list' = rest
    BY <1>2, <1>12, Zenon DEF write_eagain, SendFails, TypeOK, ConnectionTypeOK
  <2>2. HalfDuplexAt(c)' /\ Continuation(c)' = "none"
    BY <1>2, <1>3, <1>4, <2>1, Zenon DEF HalfDuplexAt, Continuation
  <2>3. Matches(ready_list', Cont')
    BY <1>1, <1>9, <2>1, <2>2, ZenonT(60)
  <2> QED BY <1>7, <1>8, <2>2, <2>3, Zenon
<1>13. CASE write_error(c)
  <2>1. /\ read_state'[c] = "STOP"
        /\ write_state'[c] = "STOP"
        /\ ready_list' = Posted(rest, "postable_close_connection", c)
    BY <1>13, Zenon DEF write_error, TypeOK, ConnectionTypeOK
  <2>2. HalfDuplexAt(c)' /\ Continuation(c)' = "postable_close_connection"
    BY <1>2, <1>3, <1>4, <2>1, Zenon DEF HalfDuplexAt, Continuation
  <2>3. Matches(ready_list', Cont')
    BY <1>1, <1>9, <2>1, <2>2, RepostMatches, ZenonT(60) DEF Functors
  <2> QED BY <1>7, <1>8, <2>2, <2>3, Zenon
<1>14. CASE sigpipe(c)
  <2>1. UNCHANGED <<ready_list, read_state, write_state, output>>
    BY <1>14, Zenon DEF sigpipe, SendFails
  <2>2. HalfDuplexAt(c)'
    BY <1>4, <2>1, ZenonT(60) DEF HalfDuplex, HalfDuplexAt
  <2>3. Cont' = Cont
    BY <1>4, <2>1 DEF Cont, Continuation
  <2> QED BY <1>7, <1>8, <2>1, <2>2, <2>3, Zenon
<1> QED BY <1>10, <1>11, <1>12, <1>13, <1>14, Zenon DEF async_postable_writer

\* Closing a connection and freeing all that refers to it.
LEMMA CloseIInv ==
    ASSUME IInv, NEW c \in Conns, Close(c), TypeOK'
    PROVE  IInv'
<1> USE DEF IInv
<1>1. /\ c \in table
      /\ batch = {}
      /\ loop = "drain"
      /\ Matches(Tail(ready_list), [Cont EXCEPT ![c] = "none"])
  BY RunIInv, ZenonT(60) DEF Close, postable_close_connection
<1>2. /\ UNCHANGED <<loop, batch, backlog>>
      /\ table' = table \ {c}
      /\ handler_list' = handler_list \ {c}
      /\ ready_list' = Tail(ready_list)
      /\ read_state'[c] = "IDLE"
      /\ write_state'[c] = "IDLE"
      /\ ~readside_posted'[c]
      /\ ~scratch_request'[c]
  BY ZenonT(60) DEF Close, postable_close_connection, RunFunctor, TypeOK, ConnectionTypeOK
<1>3. \A d \in Conns \ {c} : /\ read_state'[d] = read_state[d]
                             /\ write_state'[d] = write_state[d]
                             /\ readside_posted'[d] = readside_posted[d]
                             /\ scratch_request'[d] = scratch_request[d]
                             /\ output'[d] = output[d]
                             /\ peer'[d] = peer[d]
                             /\ d \in table' <=> d \in table
  BY ZenonT(60) DEF Close, postable_close_connection, TypeOK, ConnectionTypeOK, SocketsTypeOK
<1>4. HalfDuplex'
  BY <1>2, <1>3 DEF HalfDuplex, HalfDuplexAt
<1>5. Unregistered'
  BY <1>2, <1>3, Zenon DEF Unregistered
<1>6. Cont' = [Cont EXCEPT ![c] = "none"]
  <2>1. "none" = IF c \in table' THEN Continuation(c)' ELSE "none"
    BY <1>2, ZenonT(60)
  <2> QED BY <1>3, <2>1, ContFrame, ZenonT(60)
<1>7. Registered'
  BY <1>1, <1>2, ZenonT(60) DEF Registered
<1>8. BacklogFresh'
  <2>1. \A i \in 1..Len(backlog) : backlog[i] \in Conns
    BY ElementOfSeq, Zenon DEF TypeOK, SocketsTypeOK
  <2>2. table \subseteq Conns
    BY Zenon DEF TypeOK, ReactorTypeOK
  <2>3. backlog' = backlog /\ table' = table \ {c} /\ c \in table
    BY <1>1, <1>2, Zenon
  <2>4. ASSUME NEW i \in 1..Len(backlog)
        PROVE  backlog[i] \notin table' /\ peer'[backlog[i]] # "none"
    <3>1. backlog[i] \notin table /\ backlog[i] \in Conns \ {c} /\ peer[backlog[i]] # "none"
      BY <2>1, <2>3, Zenon DEF BacklogFresh
    <3> QED BY <1>3, <2>3, <3>1, Zenon
  <2>5. \A d \in table' : peer'[d] # "none"
    BY <1>3, <2>2, <2>3, Zenon DEF BacklogFresh
  <2> QED BY <2>3, <2>4, <2>5, ZenonT(60) DEF BacklogFresh
<1> QED BY <1>1, <1>2, <1>4, <1>5, <1>6, <1>7, <1>8, Zenon

\* Clients touch the sockets only.
LEMMA ClientIInv ==
    ASSUME IInv, NEW c \in Conns, Client(c), TypeOK'
    PROVE  IInv'
<1> USE DEF IInv
<1>1. UNCHANGED <<loop, batch, ready_list, table, connection, handler_list>>
  BY Zenon DEF Client, unserved, reactor
<1>2. HalfDuplex' /\ Unregistered' /\ Registered'
  BY <1>1, ZenonT(60) DEF connection, HalfDuplex, HalfDuplexAt, Unregistered, Registered
<1>3. Cont' = Cont
  BY <1>1 DEF connection, Cont, Continuation
<1>4. BacklogFresh'
  <2>1. CASE Connect(c)
    <3>1. \A i \in 1..Len(backlog) : backlog[i] \in Conns /\ backlog[i] # c
      BY <2>1, ElementOfSeq, ZenonT(60) DEF Connect, BacklogFresh, TypeOK, SocketsTypeOK
    <3>2. c \notin table
      BY <2>1, Zenon DEF Connect, BacklogFresh
    <3>3. /\ Len(backlog) \in Nat
          /\ Len(backlog') = Len(backlog) + 1
          /\ backlog'[Len(backlog) + 1] = c
          /\ \A i \in 1..Len(backlog) : backlog'[i] = backlog[i]
      <4>1. backlog \in Seq(Conns) /\ backlog' = Append(backlog, c)
        BY <2>1, Zenon DEF Connect, TypeOK, SocketsTypeOK
      <4> HIDE DEF IInv
      <4> QED BY <4>1, AppendProperties, LenProperties
    <3>4. peer'[c] # "none" /\ \A d \in Conns \ {c} : peer'[d] = peer[d]
      BY <2>1, Zenon DEF Connect, TypeOK, SocketsTypeOK
    <3>5. \A i \in 1..Len(backlog') : backlog'[i] \notin table' /\ peer'[backlog'[i]] # "none"
      BY <1>1, <3>1, <3>2, <3>3, <3>4 DEF BacklogFresh
    <3>6. \A i, j \in 1..Len(backlog') : backlog'[i] = backlog'[j] => i = j
      <4> SUFFICES ASSUME NEW i \in 1..Len(backlog'), NEW j \in 1..Len(backlog'),
                          backlog'[i] = backlog'[j]
                   PROVE  i = j
        BY Zenon
      <4>1. CASE i \in 1..Len(backlog) /\ j \in 1..Len(backlog)
        BY <3>3, <4>1, Zenon DEF BacklogFresh
      <4>2. CASE i = Len(backlog) + 1 \/ j = Len(backlog) + 1
        BY <3>1, <3>3, <4>2
      <4>3. \A k \in 1..Len(backlog') : k \in 1..Len(backlog) \/ k = Len(backlog) + 1
        BY <3>3
      <4> QED BY <4>1, <4>2, <4>3, Zenon
    <3>7. \A d \in table' : peer'[d] # "none"
      BY <1>1, <3>2, <3>4, Zenon DEF BacklogFresh, TypeOK, ReactorTypeOK
    <3> QED BY <3>5, <3>6, <3>7, ZenonT(60) DEF BacklogFresh
  <2>2. CASE ~Connect(c)
    <3>1. /\ backlog' = backlog
          /\ \A d \in Conns : peer[d] # "none" => peer'[d] # "none"
      BY <2>2, ZenonT(60) DEF Client, SendPart, SendLast, SendBad, Arrive, ShutDown, Reset, Receive,
                  TypeOK, SocketsTypeOK
    <3>2. \A i \in 1..Len(backlog) : backlog[i] \in Conns
      BY ElementOfSeq, Zenon DEF TypeOK, SocketsTypeOK
    <3> QED BY <1>1, <3>1, <3>2, ZenonT(60) DEF BacklogFresh, TypeOK, ReactorTypeOK
  <2> QED BY <2>1, <2>2, Zenon
<1> QED BY <1>1, <1>2, <1>3, <1>4, Zenon

\* Every step preserves the invariant.
LEMMA NextIInv == IInv /\ [Next]_vars => IInv'
<1> SUFFICES ASSUME IInv, [Next]_vars
             PROVE  IInv'
  BY Zenon
<1>1. TypeOK'
  BY NextTypeOK, Zenon DEF IInv
<1>2. CASE ServerStep
  BY <1>1, <1>2, RunLoopIInv, ListeningIInv, EventIInv, ReadStepIInv, HandleIInv, WriterIInv, Zenon
     DEF ServerStep
<1>3. ASSUME NEW c \in Conns, Close(c)
      PROVE  IInv'
  BY <1>1, <1>3, CloseIInv, Zenon
<1>4. ASSUME NEW c \in Conns, Client(c)
      PROVE  IInv'
  BY <1>1, <1>4, ClientIInv, Zenon
<1>5. CASE UNCHANGED vars
  <2>1. UNCHANGED <<loop, batch, ready_list, table, connection, handler_list, backlog, peer>>
    BY <1>5, Zenon DEF vars, reactor, sockets
  <2>2. HalfDuplex'
    BY <2>1, Zenon DEF IInv, connection, HalfDuplex, HalfDuplexAt
  <2>a. Unregistered' /\ Registered'
    BY <2>1, Zenon DEF IInv, connection, Unregistered, Registered
  <2>b. BacklogFresh'
    BY <2>1, ZenonT(60) DEF IInv, BacklogFresh
  <2>3. Cont' = Cont
    BY <2>1 DEF connection, Cont, Continuation
  <2> QED BY <1>1, <2>1, <2>2, <2>a, <2>b, <2>3, Zenon DEF IInv
<1> QED BY <1>2, <1>3, <1>4, <1>5, Zenon DEF Next, Server

\* The invariant holds in every reachable state.
LEMMA SpecIInv == Spec => []IInv
BY InitIInv, NextIInv, PTL DEF Spec

-----------------------------------------------------------------------------
(* What follows from it *)

\* No assertion about the two sides of a connection can fail, for any number
\* of connections, any buffer sizes and whatever clients do.
THEOREM AsyncServerHalfDuplex == Spec => []HalfDuplex
<1>1. IInv => HalfDuplex
  BY Zenon DEF IInv
<1> QED BY SpecIInv, <1>1, PTL

\* An open connection has exactly the one functor posted that its state calls
\* for, or waits for an fd event.
THEOREM AsyncServerOneContinuation == Spec => []OneContinuation
<1>1. IInv => OneContinuation
  <2> SUFFICES ASSUME IInv PROVE OneContinuation
    BY Zenon
  <2>1. \A i \in 1..Len(ready_list) : ready_list[i] \in Entries
    BY ElementOfSeq, ZenonT(60) DEF IInv, TypeOK, ConnectionTypeOK, Entries
  <2>2. ASSUME NEW i \in 1..Len(ready_list)
        PROVE  ready_list[i].f = Continuation(ready_list[i].c)
    <3>1. ready_list[i].c \in Conns /\ ready_list[i].f \in Functors
      BY <2>1, Zenon DEF Entries
    <3>2. ready_list[i].f = Cont[ready_list[i].c]
      BY Zenon DEF IInv, Matches
    <3> QED BY <3>1, <3>2, Zenon DEF Cont, Functors
  <2>3. ASSUME NEW c \in table, Continuation(c) # "none"
        PROVE  \E i \in 1..Len(ready_list) : ready_list[i].c = c
    <3>1. c \in Conns
      BY Zenon DEF IInv, TypeOK, ReactorTypeOK
    <3>2. Cont[c] # "none"
      BY <2>3, <3>1, Zenon DEF Cont
    <3> QED BY <3>1, <3>2, Zenon DEF IInv, Matches
  <2> QED BY <2>2, <2>3, Zenon DEF OneContinuation, IInv, Matches
<1> QED BY SpecIInv, <1>1, PTL

\* No functor, event or handler refers to a connection that has been freed.
THEOREM AsyncServerNothingOutlives == Spec => []NothingOutlivesConnection
<1>1. IInv => NothingOutlivesConnection
  <2> SUFFICES ASSUME IInv PROVE NothingOutlivesConnection
    BY Zenon
  <2>1. \A i \in 1..Len(ready_list) : ready_list[i] \in Entries
    BY ElementOfSeq, ZenonT(60) DEF IInv, TypeOK, ConnectionTypeOK, Entries
  <2>2. ASSUME NEW i \in 1..Len(ready_list)
        PROVE  ready_list[i].c \in table
    <3>1. ready_list[i].c \in Conns /\ ready_list[i].f \in Functors
      BY <2>1, Zenon DEF Entries
    <3>2. ready_list[i].f = Cont[ready_list[i].c]
      BY Zenon DEF IInv, Matches
    <3> QED BY <3>1, <3>2, Zenon DEF Cont, Functors
  <2> QED BY <2>2, Zenon DEF NothingOutlivesConnection, IInv, Registered
<1> QED BY SpecIInv, <1>1, PTL

\* The assertion before epoll_wait holds.
THEOREM AsyncServerDrains == Spec => []WaitsOnlyWhenDrained
<1>1. IInv => WaitsOnlyWhenDrained
  BY Zenon DEF IInv, Registered, WaitsOnlyWhenDrained
<1> QED BY SpecIInv, <1>1, PTL

-----------------------------------------------------------------------------
(* Edge-triggered events: the two invariants, for one connection *)

\* NoForgottenOutput is not inductive: that the buffer is full does not yet say
\* that the kernel knows of a sender that waits for space.
OutputAt(c) ==
    write_state[c] = "EAGAINED" =>
        IF Writable(c) THEN EventComing(c, "OUT") ELSE nospace[c]

InputAt(c) ==
    RcvCap <= RecvMax /\ read_state[c] = "EAGAINED" /\ rx[c] # << >> => EventComing(c, "IN")

\* An event is not lost by a step that does not take it.
LEMMA EventStays ==
    ASSUME NEW d, NEW e, EventComing(d, e),
           edge[d] => edge'[d], d \in batch => d \in batch', mask'[d] = mask[d]
    PROVE  EventComing(d, e)'
BY Zenon DEF EventComing

\* A step that leaves a connection's socket and state alone and takes no event of
\* it preserves both.
LEMMA Undisturbed ==
    ASSUME NEW d, OutputAt(d), InputAt(d),
           write_state'[d] = write_state[d], read_state'[d] = read_state[d],
           peer'[d] = peer[d], tx'[d] = tx[d], nospace'[d] = nospace[d], rx'[d] = rx[d],
           edge[d] => edge'[d], d \in batch => d \in batch', mask'[d] = mask[d]
    PROVE  OutputAt(d)' /\ InputAt(d)'
BY EventStays, Zenon DEF OutputAt, InputAt, Writable

\* epoll_wait turns the edge of a waiting connection into an event with its bit.
LEMMA WaitKeepsEvents ==
    ASSUME IInv, NEW d \in table, epoll_wait, OutputAt(d), InputAt(d),
           UNCHANGED connection
    PROVE  OutputAt(d)' /\ InputAt(d)'
<1>1. d \in Conns /\ batch = {} /\ peer[d] # "none"
  BY Zenon DEF IInv, TypeOK, ReactorTypeOK, Registered, BacklogFresh, epoll_wait
<1>2. ASSUME NEW e \in {"IN", "OUT"}, e \in EventMask(d), EventComing(d, e)
      PROVE  EventComing(d, e)'
  <2>1. edge[d]
    BY <1>1, <1>2, Zenon DEF EventComing
  <2>2. d \in EpollReady
    BY <1>2, <2>1, Zenon DEF EpollReady
  <2> QED BY <1>1, <1>2, <2>2, Zenon DEF epoll_wait, EventComing
<1>3. OutputAt(d)'
  <2>1. CASE Writable(d)
    BY <1>2, <2>1, Zenon DEF OutputAt, EventMask, Writable, epoll_wait, connection
  <2>2. CASE ~Writable(d)
    BY <2>2, Zenon DEF OutputAt, Writable, epoll_wait, connection
  <2> QED BY <2>1, <2>2, Zenon
<1>4. InputAt(d)'
  BY <1>2, Zenon DEF InputAt, EventMask, Readable, epoll_wait, connection
<1> QED BY <1>3, <1>4, Zenon

\* async_event_handler drops an event only of a side that does not wait for it.
LEMMA HandlerKeepsEvents ==
    ASSUME IInv, NEW c \in Conns, NEW d \in table, async_event_handler(c),
           OutputAt(d), InputAt(d)
    PROVE  OutputAt(d)' /\ InputAt(d)'
<1>1. /\ d \in Conns
      /\ write_state \in [Conns -> States]
      /\ read_state \in [Conns -> States]
  BY Zenon DEF IInv, TypeOK, ReactorTypeOK, ConnectionTypeOK
<1>2. /\ UNCHANGED <<peer, rx, tx, nospace, edge, mask>>
      /\ batch' = batch \ {c}
      /\ write_state' = [write_state EXCEPT ![c] = IF WriteResumes(c) THEN "ACTIVE" ELSE @]
      /\ read_state' = [read_state EXCEPT ![c] = IF ReadResumes(c) THEN "ACTIVE" ELSE @]
  BY Zenon DEF async_event_handler, Resume, Dispatch, sockets
<1>3. CASE d # c
  <2>1. /\ write_state'[d] = write_state[d]
        /\ read_state'[d] = read_state[d]
        /\ d \in batch => d \in batch'
    BY <1>1, <1>2, <1>3, Zenon
  <2> QED BY <1>2, <2>1, Undisturbed, Zenon
<1>4. CASE d = c
  <2>1. OutputAt(d)'
    BY <1>1, <1>2, <1>4, Zenon DEF OutputAt, Writable, EventComing, WriteResumes
  <2>2. InputAt(d)'
    BY <1>1, <1>2, <1>4, Zenon DEF InputAt, EventComing, ReadResumes
  <2> QED BY <2>1, <2>2, Zenon
<1> QED BY <1>3, <1>4, Zenon

\* A recv that fills no more than the buffer it is given leaves nothing behind.
LEMMA RecvEmpties ==
    ASSUME RcvCap <= RecvMax, SocketsTypeOK, NEW c \in Conns, Recv(c)
    PROVE  rx'[c] = << >>
<1>1. /\ rx \in [Conns -> Seq(Tokens)]
      /\ rx[c] \in Seq(Tokens)
      /\ Len(rx[c]) <= RecvMax
      /\ Len(rx[c]) \in Nat
  BY AsyncAssumption DEF SocketsTypeOK
<1>2. Received(c) = rx[c]
  BY <1>1, Zenon DEF Received
<1>3. SubSeq(rx[c], Len(rx[c]) + 1, Len(rx[c])) = << >>
  BY <1>1, SubSeqProperties
<1> QED BY <1>1, <1>2, <1>3, Zenon DEF Recv

\* reader leaves its connection waiting for input only with an empty buffer, and
\* the write side of it not waiting.
LEMMA ReaderKeepsEvents ==
    ASSUME IInv, NEW c \in Conns, NEW d \in table', NEW rl,
           reader(c, rl), write_state[c] = "IDLE",
           d # c => OutputAt(d) /\ InputAt(d),
           edge[d] => edge'[d], d \in batch => d \in batch', mask'[d] = mask[d],
           d \in Conns
    PROVE  OutputAt(d)' /\ InputAt(d)'
<1>1. /\ write_state \in [Conns -> States]
      /\ read_state \in [Conns -> States]
      /\ rx \in [Conns -> Seq(Tokens)]
      /\ SocketsTypeOK
  BY Zenon DEF IInv, TypeOK, SocketsTypeOK, ConnectionTypeOK
<1>2. UNCHANGED <<peer, tx, nospace>>
  BY Zenon DEF reader
<1>3. CASE d # c
  <2>1. /\ write_state'[d] = write_state[d]
        /\ read_state'[d] = read_state[d]
        /\ rx'[d] = rx[d]
    BY <1>1, <1>3, Zenon DEF reader, read_new_message, read_eagain, read_need_data, read_error,
                      Recv, NothingReceived
  <2> QED BY <1>2, <1>3, <2>1, Undisturbed, Zenon
<1>4. CASE d = c
  <2>1. write_state'[c] # "EAGAINED"
    BY <1>1, Zenon DEF reader, read_new_message, read_eagain, read_need_data, read_error
  <2>2. RcvCap <= RecvMax /\ read_state'[c] = "EAGAINED" => rx'[c] = << >>
    BY <1>1, RecvEmpties, Zenon DEF reader, read_new_message, read_eagain, read_need_data, read_error,
                NothingReceived
  <2> QED BY <1>4, <2>1, <2>2, Zenon DEF OutputAt, InputAt
<1> QED BY <1>3, <1>4, Zenon

\* The invariant.
EInv == \A c \in table : OutputAt(c) /\ InputAt(c)

\* A connection enters the table with an edge to be reported.
LEMMA ListeningKeepsEvents ==
    ASSUME IInv, EInv, on_event_listening, table' \subseteq Conns
    PROVE  EInv'
<1> DEFINE c == Head(backlog)
<1>1. c \in Conns /\ c = backlog[1] /\ 1 \in 1..Len(backlog)
  BY TailIsShift DEF IInv, TypeOK, SocketsTypeOK, on_event_listening
<1>2. c \notin table
  BY <1>1, Zenon DEF IInv, BacklogFresh
<1>3. write_state[c] = "IDLE"
  BY <1>1, <1>2, Zenon DEF IInv, Unregistered
<1>4. /\ table' = table \cup {c}
      /\ edge' = [edge EXCEPT ![c] = TRUE]
      /\ reader(c, ready_list)
      /\ batch' = batch \ {Listener}
      /\ mask' = mask
  BY Zenon DEF on_event_listening, Dispatch, async_connection_read
<1>5. edge \in [Conns -> BOOLEAN]
  BY Zenon DEF IInv, TypeOK, SocketsTypeOK
<1> HIDE DEF c
<1> SUFFICES ASSUME NEW d \in table'
             PROVE  OutputAt(d)' /\ InputAt(d)'
  BY Zenon DEF EInv
<1>6. /\ d \in Conns
      /\ d # Listener
      /\ edge[d] => edge'[d]
      /\ d \in batch => d \in batch'
      /\ mask'[d] = mask[d]
      /\ d # c => OutputAt(d) /\ InputAt(d)
  BY <1>1, <1>4, <1>5, AsyncAssumption, Zenon DEF EInv
<1> QED BY <1>1, <1>3, <1>4, <1>6, ReaderKeepsEvents, Zenon

\* The functors that read.
LEMMA ReadStepKeepsEvents ==
    ASSUME IInv, EInv, table \subseteq Conns, NEW c \in Conns,
           postable_reader(c) \/ postable_write_complete(c)
    PROVE  EInv'
<1>1. PICK f \in {"postable_reader", "postable_write_complete"} : RunFunctor(f, c)
  BY Zenon DEF postable_reader, postable_write_complete
<1>2. f = Continuation(c)
  BY <1>1, RunIInv, Zenon
<1>3. write_state[c] = "IDLE"
  BY <1>1, <1>2, ContinuationStates, Zenon DEF IInv
<1>4. /\ reader(c, Tail(ready_list))
      /\ UNCHANGED <<table, edge, batch, mask>>
  BY Zenon DEF postable_reader, postable_write_complete, async_connection_read, RunFunctor
<1> SUFFICES ASSUME NEW d \in table'
             PROVE  OutputAt(d)' /\ InputAt(d)'
  BY Zenon DEF EInv
<1>5. d \in Conns /\ OutputAt(d) /\ InputAt(d)
  BY <1>4, Zenon DEF EInv
<1> QED BY <1>3, <1>4, <1>5, ReaderKeepsEvents, Zenon

\* The write side waits only for a buffer it has found full.
LEMMA WriterKeepsEvents ==
    ASSUME IInv, EInv, NEW c \in Conns, async_postable_writer(c)
    PROVE  EInv'
<1>1. /\ write_state \in [Conns -> States]
      /\ read_state \in [Conns -> States]
      /\ tx \in [Conns -> 0..SndCap]
      /\ nospace \in [Conns -> BOOLEAN]
      /\ table \subseteq Conns
  BY Zenon DEF IInv, TypeOK, SocketsTypeOK, ReactorTypeOK, ConnectionTypeOK
<1>2. read_state[c] = "IDLE"
  <2>1. Continuation(c) = "async_postable_writer"
    BY RunIInv, Zenon DEF async_postable_writer
  <2> QED BY <2>1, ContinuationStates, Zenon DEF IInv
<1>3. UNCHANGED <<table, peer, rx, edge, batch, mask>>
  BY Zenon DEF async_postable_writer, RunFunctor
<1>4. ASSUME NEW d \in Conns \ {c}
      PROVE  /\ write_state'[d] = write_state[d]
             /\ read_state'[d] = read_state[d]
             /\ tx'[d] = tx[d]
             /\ nospace'[d] = nospace[d]
  BY <1>1, Zenon DEF async_postable_writer, write_complete, write_incomplete, write_eagain, write_error,
              sigpipe, SendFails
<1>5. InputAt(c)'
  BY <1>1, <1>2, Zenon DEF InputAt, async_postable_writer, write_complete, write_incomplete,
              write_eagain, write_error, sigpipe
<1>6. ASSUME OutputAt(c)
      PROVE  OutputAt(c)'
  <2>1. CASE write_complete(c) \/ write_error(c)
    BY <1>1, <2>1, Zenon DEF OutputAt, write_complete, write_error
  <2>2. CASE write_incomplete(c) \/ write_eagain(c)
    <3>1. nospace'[c] /\ tx'[c] = SndCap /\ peer'[c] \in {"up", "fin"}
      BY <1>1, <1>3, <2>2, AsyncAssumption
         DEF write_incomplete, write_eagain, SendFails, Space
    <3>2. ~(SndCap < SndCap)
      BY AsyncAssumption
    <3>3. ~Writable(c)'
      BY <3>1, <3>2, ZenonT(60) DEF Writable
    <3> QED BY <3>1, <3>3, ZenonT(60) DEF OutputAt
  <2>3. CASE sigpipe(c)
    BY <1>3, <1>6, <2>3, Zenon DEF OutputAt, Writable, EventComing, sigpipe, SendFails
  <2> QED BY <2>1, <2>2, <2>3, Zenon DEF async_postable_writer
<1> SUFFICES ASSUME NEW d \in table'
             PROVE  OutputAt(d)' /\ InputAt(d)'
  BY Zenon DEF EInv
<1>7. d \in Conns /\ OutputAt(d) /\ InputAt(d)
  BY <1>1, <1>3, Zenon DEF EInv
<1>8. CASE d = c
  BY <1>5, <1>6, <1>7, <1>8, Zenon
<1>9. CASE d # c
  BY <1>3, <1>4, <1>7, <1>9, Undisturbed, Zenon
<1> QED BY <1>8, <1>9, Zenon

\* The handler starts a write, which does not wait.
LEMMA HandleKeepsEvents ==
    ASSUME IInv, EInv, NEW c \in Conns, postable_handle_request(c)
    PROVE  EInv'
<1>1. write_state \in [Conns -> States] /\ table \subseteq Conns
  BY Zenon DEF IInv, TypeOK, ReactorTypeOK, ConnectionTypeOK
<1>2. /\ UNCHANGED <<table, peer, rx, tx, nospace, edge, batch, mask, read_state>>
      /\ write_state' = [write_state EXCEPT ![c] = "ACTIVE"]
  BY Zenon DEF postable_handle_request, RunFunctor, sockets
<1> SUFFICES ASSUME NEW d \in table'
             PROVE  OutputAt(d)' /\ InputAt(d)'
  BY Zenon DEF EInv
<1>3. d \in Conns /\ OutputAt(d) /\ InputAt(d)
  BY <1>1, <1>2, Zenon DEF EInv
<1>4. CASE d = c
  BY <1>1, <1>2, <1>3, <1>4, Zenon DEF OutputAt, InputAt, EventComing
<1>5. CASE d # c
  <2>1. write_state'[d] = write_state[d]
    BY <1>1, <1>2, <1>3, <1>5, Zenon
  <2> QED BY <1>2, <1>3, <2>1, Undisturbed, Zenon
<1> QED BY <1>4, <1>5, Zenon

\* A connection that is closed leaves the table.
LEMMA CloseKeepsEvents ==
    ASSUME IInv, EInv, NEW c \in Conns, Close(c)
    PROVE  EInv'
<1>1. /\ write_state \in [Conns -> States]
      /\ read_state \in [Conns -> States]
      /\ table \subseteq Conns
      /\ peer \in [Conns -> PeerStates]
      /\ rx \in [Conns -> Seq(Tokens)]
      /\ tx \in [Conns -> 0..SndCap]
      /\ nospace \in [Conns -> BOOLEAN]
      /\ edge \in [Conns -> BOOLEAN]
  BY Zenon DEF IInv, TypeOK, SocketsTypeOK, ReactorTypeOK, ConnectionTypeOK
<1>2. table' = table \ {c} /\ UNCHANGED <<batch, mask>>
  BY Zenon DEF Close, postable_close_connection, RunFunctor
<1> SUFFICES ASSUME NEW d \in table'
             PROVE  OutputAt(d)' /\ InputAt(d)'
  BY Zenon DEF EInv
<1>3. d \in Conns /\ d # c /\ OutputAt(d) /\ InputAt(d)
  BY <1>1, <1>2, Zenon DEF EInv
<1>4. /\ write_state'[d] = write_state[d]
      /\ read_state'[d] = read_state[d]
      /\ peer'[d] = peer[d]
      /\ tx'[d] = tx[d]
      /\ nospace'[d] = nospace[d]
      /\ rx'[d] = rx[d]
      /\ edge'[d] = edge[d]
  BY <1>1, <1>3, Zenon DEF Close, postable_close_connection
<1> QED BY <1>2, <1>3, <1>4, Undisturbed, Zenon

\* What a client does to a socket that a waiting connection would want to know of
\* makes an edge.
LEMMA ClientKeepsEvents ==
    ASSUME IInv, EInv, NEW c \in Conns, Client(c)
    PROVE  EInv'
<1>1. /\ table \subseteq Conns
      /\ peer \in [Conns -> PeerStates]
      /\ rx \in [Conns -> Seq(Tokens)]
      /\ tx \in [Conns -> 0..SndCap]
      /\ nospace \in [Conns -> BOOLEAN]
      /\ edge \in [Conns -> BOOLEAN]
  BY Zenon DEF IInv, TypeOK, SocketsTypeOK, ReactorTypeOK
<1>2. UNCHANGED <<table, batch, mask, write_state, read_state>>
  BY Zenon DEF Client, unserved, reactor, connection
<1> SUFFICES ASSUME NEW d \in table'
             PROVE  OutputAt(d)' /\ InputAt(d)'
  BY Zenon DEF EInv
<1>3. d \in Conns /\ OutputAt(d) /\ InputAt(d)
  BY <1>1, <1>2, Zenon DEF EInv
<1>4. CASE d # c
  <2>1. /\ peer'[d] = peer[d]
        /\ tx'[d] = tx[d]
        /\ nospace'[d] = nospace[d]
        /\ rx'[d] = rx[d]
        /\ edge'[d] = edge[d]
    BY <1>1, <1>3, <1>4, Zenon DEF Client, SendPart, SendLast, SendBad, Arrive, Connect, ShutDown,
                            Reset, Receive
  <2> QED BY <1>2, <1>3, <2>1, Undisturbed, Zenon
<1>5. CASE d = c /\ Connect(c)
  <2>1. peer[c] = "none"
    BY <1>5, Zenon DEF Connect
  <2>2. c \in table
    BY <1>2, <1>5, Zenon
  <2> QED BY <2>1, <2>2, Zenon DEF IInv, BacklogFresh
<1>6. CASE d = c /\ edge'[c]
  <2>1. EventComing(d, "IN")' /\ EventComing(d, "OUT")'
    BY <1>6, Zenon DEF EventComing
  <2>2. CASE Writable(d)'
    BY <2>1, <2>2, Zenon DEF OutputAt, InputAt
  <2>3. CASE ~Writable(d)'
    <3>1. ~Writable(d) /\ nospace'[d] = nospace[d]
      <4>1. CASE Reset(c) \/ Receive(c)
        <5>1. tx'[c] = 0
          BY <1>1, <4>1, Zenon DEF Reset, Receive
        <5>2. 0 < SndCap
          BY AsyncAssumption
        <5> QED BY <1>6, <2>3, <5>1, <5>2, ZenonT(60) DEF Writable
      <4>2. CASE ~(Reset(c) \/ Receive(c))
        <5>1. /\ UNCHANGED <<tx, nospace>>
              /\ peer'[c] = peer[c] \/ peer[c] \in {"none", "up"}
          BY <1>1, <4>2, Zenon DEF Client, SendPart, SendLast, SendBad, Arrive, Connect, ShutDown
        <5> QED BY <1>6, <2>3, <5>1, ZenonT(60) DEF Writable
      <4> QED BY <4>1, <4>2, Zenon
    <3> QED BY <1>2, <1>3, <2>1, <2>3, <3>1, Zenon DEF OutputAt, InputAt
  <2> QED BY <2>2, <2>3, Zenon
<1>7. CASE d = c /\ Receive(c) /\ ~edge'[c]
  <2>1. /\ ~nospace[c]
        /\ edge[c] = FALSE
        /\ rx' = rx
    BY <1>1, <1>7, Zenon DEF Receive
  <2>2. OutputAt(d)'
    <3>1. Writable(d)'
      BY <1>1, <1>7, AsyncAssumption DEF Receive, Writable
    <3> QED BY <1>2, <1>3, <1>7, <2>1, <3>1, Zenon DEF OutputAt, EventComing
  <2>3. InputAt(d)'
    BY <1>2, <1>3, <1>7, <2>1, Zenon DEF InputAt, EventComing
  <2> QED BY <2>2, <2>3, Zenon
<1>8. edge'[c] \/ Connect(c) \/ Receive(c)
  BY <1>1, Zenon DEF Client, SendPart, SendLast, SendBad, Arrive, ShutDown, Reset
<1> QED BY <1>4, <1>5, <1>6, <1>7, <1>8, Zenon

-----------------------------------------------------------------------------

\* Every step preserves the invariant.
LEMMA NextEInv == IInv /\ EInv /\ [Next]_vars => EInv'
<1> SUFFICES ASSUME IInv, EInv, [Next]_vars
             PROVE  EInv'
  BY Zenon
<1>1. table \subseteq Conns /\ table' \subseteq Conns
  <2>1. TypeOK'
    BY NextTypeOK, Zenon DEF IInv
  <2> QED BY <2>1, Zenon DEF IInv, TypeOK, ReactorTypeOK
<1>2. CASE RunLoop
  <2>1. table' = table
    BY <1>2, Zenon DEF RunLoop, epoll_wait, EndDispatch, EndDrain, AcceptFails
  <2> SUFFICES ASSUME NEW d \in table
               PROVE  OutputAt(d)' /\ InputAt(d)'
    BY <2>1, Zenon DEF EInv
  <2>2. OutputAt(d) /\ InputAt(d)
    BY Zenon DEF EInv
  <2>3. CASE epoll_wait /\ UNCHANGED connection
    BY <2>2, <2>3, WaitKeepsEvents, Zenon
  <2>4. CASE UNCHANGED <<sockets, connection, batch, mask>>
    BY <2>2, <2>4, Undisturbed, Zenon DEF sockets, connection
  <2> QED BY <1>2, <2>3, <2>4, Zenon DEF RunLoop, EndDispatch, EndDrain, AcceptFails
<1>3. CASE on_event_listening
  BY <1>1, <1>3, ListeningKeepsEvents, Zenon
<1>4. ASSUME NEW c \in Conns, async_event_handler(c)
      PROVE  EInv'
  <2>1. table' = table
    BY <1>4, Zenon DEF async_event_handler, Resume
  <2> QED BY <1>4, <2>1, HandlerKeepsEvents, Zenon DEF EInv
<1>5. CASE ServerStep
  BY <1>1, <1>2, <1>3, <1>4, <1>5, ReadStepKeepsEvents, HandleKeepsEvents, WriterKeepsEvents, Zenon
     DEF ServerStep
<1>6. ASSUME NEW c \in Conns, Close(c) \/ Client(c)
      PROVE  EInv'
  BY <1>6, CloseKeepsEvents, ClientKeepsEvents, Zenon
<1>7. CASE UNCHANGED vars
  <2>1. UNCHANGED <<table, batch, mask, peer, rx, tx, nospace, edge, write_state, read_state>>
    BY <1>7, Zenon DEF vars, sockets, reactor, connection
  <2> QED BY <2>1, Undisturbed, Zenon DEF EInv
<1> QED BY <1>5, <1>6, <1>7, Zenon DEF Next, Server

\* The invariant holds in every reachable state.
LEMMA SpecEInv == Spec => []EInv
<1>1. Init => EInv
  BY Zenon DEF Init, ReactorInit, EInv
<1> QED BY <1>1, SpecIInv, NextEInv, PTL DEF Spec

\* A connection whose send found the socket full is woken when there is space, for
\* any number of connections, any buffer sizes and whatever clients do.
THEOREM AsyncServerOutputNotForgotten == Spec => []NoForgottenOutput
<1>1. EInv => NoForgottenOutput
  BY Zenon DEF EInv, OutputAt, NoForgottenOutput
<1> QED BY SpecEInv, <1>1, PTL

\* A connection that waits for input is woken for the input it has, for any number
\* of connections, provided that read_buffer_size is not less than what a socket
\* can hold for it.
THEOREM AsyncServerInputNotForgotten ==
    ASSUME RcvCap <= RecvMax
    PROVE  Spec => []NoForgottenInput
<1>1. EInv => NoForgottenInput
  BY Zenon DEF EInv, InputAt, NoForgottenInput
<1> QED BY SpecEInv, <1>1, PTL
=============================================================================
