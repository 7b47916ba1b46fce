-------------------------- MODULE OwnershipProofs --------------------------
(***************************************************************************)
(* What the connections of both servers allocate and free, for any number  *)
(* of connections, loops and messages: nothing is freed twice or before it *)
(* is allocated, a disposed asynchronous connection leaves parts of its    *)
(* messages and nothing else, and a second close hits the descriptor of    *)
(* another connection only across loops.                                   *)
(***************************************************************************)
EXTENDS Ownership, TLAPS

-----------------------------------------------------------------------------
(* Where blocks belong *)

\* What a message has from Message_new to Message_dispose, whatever it holds.
Kept(o) ==
    Structs(o, {"Message"}) \cup Blocks(o, "headers", {"List"})
        \cup Cbuffer_dispose(o, "target") \cup Cbuffer_dispose(o, "reason")

KeptOf(c, m) == IF m = 0 THEN {} ELSE Kept(<<c, m>>)

\* The structures and buffers of a connection of the asynchronous server.
Handler(o) ==
    Structs(o, {"AsyncHandler", "input_list", "output_list", "AsyncConnection", "RtorStream"})
        \cup http_parser_dispose(o) \cup IOBuffer_dispose(o, "active_input_buffer_ref")

\* A block carries the object and the field it was allocated for.
LEMMA BlocksAt ==
    ASSUME NEW o, NEW field, NEW parts, NEW b \in Blocks(o, field, parts)
    PROVE  b[1] = o /\ b[2] = field
BY Zenon DEF Blocks

\* The structures of an object are blocks of that object.
LEMMA StructsAt ==
    ASSUME NEW o, NEW names, NEW b \in Structs(o, names)
    PROVE  b[1] = o /\ b[2] \in names
BY Zenon DEF Structs

\* What a message always has carries the fields of a message.
LEMMA KeptAt ==
    ASSUME NEW o, NEW b \in Kept(o)
    PROVE  b[1] = o /\ b[2] \in {"Message", "headers", "target", "reason"}
BY BlocksAt, StructsAt DEF Kept, Cbuffer_dispose

\* An IOBuffer is allocated for one field of one object.
LEMMA BufferAt ==
    ASSUME NEW o, NEW field, NEW b \in IOBuffer_dispose(o, field)
    PROVE  b[1] = o /\ b[2] = field
BY BlocksAt, Zenon DEF IOBuffer_dispose

\* What a connection's handler has is not of a message.
LEMMA HandlerAt ==
    ASSUME NEW o, NEW b \in Handler(o)
    PROVE  b[1] = o /\ b[2] \notin MessageFields /\ b[2] # "active_output_buffer_ref"
<1> DEFINE names == {"AsyncHandler", "input_list", "output_list", "AsyncConnection", "RtorStream",
                     "http_parser_t", "m_llhttp_settings_ptr", "m_llhttp_ptr"}
<1>1. CASE b \in Structs(o, names)
  <2> HIDE DEF names
  <2>1. b[1] = o /\ b[2] \in names
    BY <1>1, StructsAt, Zenon
  <2> QED BY <2>1, Zenon DEF names, MessageFields
<1>2. ASSUME NEW p \in ParserBuffers, b \in Cbuffer_dispose(o, p)
      PROVE  b[1] = o /\ b[2] \notin MessageFields /\ b[2] # "active_output_buffer_ref"
  <2>1. b[1] = o /\ b[2] = p
    BY <1>2, BlocksAt, Zenon DEF Cbuffer_dispose
  <2> QED BY <2>1, Zenon DEF ParserBuffers, MessageFields
<1>3. CASE b \in IOBuffer_dispose(o, "active_input_buffer_ref")
  BY <1>3, BufferAt, Zenon DEF MessageFields
<1> QED BY <1>1, <1>2, <1>3, Zenon DEF Handler, http_parser_dispose, Structs

\* Message_dispose frees what the message always has and what it has gained.
LEMMA MessageDisposed ==
    ASSUME NEW o
    PROVE  /\ Message_new(o) = Kept(o)
           /\ Message_dispose(o) = Kept(o) \cup KVPair_dispose(o)
           /\ KVPair_dispose(o) \subseteq heap
           /\ \A b \in Message_dispose(o) :
                 b[1] = o /\ b[2] \in {"Message", "headers", "target", "reason"}
<1>1. Message_new(o) = Kept(o)
  BY Zenon DEF Message_new, Kept, HdrList_new, Cbuffer_new, Cbuffer_dispose
<1>2. Message_dispose(o) = Kept(o) \cup KVPair_dispose(o)
  BY Zenon DEF Message_dispose, Kept, HdrList_dispose
<1>3. KVPair_dispose(o) \subseteq heap
  BY Zenon DEF KVPair_dispose
<1>4. ASSUME NEW b \in KVPair_dispose(o)
      PROVE  b[1] = o /\ b[2] = "headers"
  BY BlocksAt, Zenon DEF KVPair_dispose
<1> QED BY <1>1, <1>2, <1>3, <1>4, KeptAt, Zenon

\* async_handler_free frees the handler, its connection, and the output being written.
LEMMA HandlerFreed ==
    ASSUME NEW c
    PROVE  async_handler_free(c) = Handler(<<c, 0>>) \cup ActiveOutput(c)
BY Zenon DEF async_handler_free, async_connection_destroy, Handler, Structs

\* async_handler_new allocates a handler and the first message of its parser.
LEMMA HandlerMade ==
    ASSUME NEW o
    PROVE  async_handler_new(o) = Handler(o) \cup Message_new(o)
<1>1. \A p : Cbuffer_new(o, p) = Cbuffer_dispose(o, p)
  BY Zenon DEF Cbuffer_new, Cbuffer_dispose
<1>2. UNION {Cbuffer_new(o, p) : p \in ParserBuffers}
        = UNION {Cbuffer_dispose(o, p) : p \in ParserBuffers}
  BY <1>1, Zenon
<1> QED BY <1>2, Zenon DEF async_handler_new, async_connection_new, http_parser_new, IOBuffer_new,
                    http_parser_initialize, Handler, http_parser_dispose, IOBuffer_dispose, Structs

-----------------------------------------------------------------------------
(* The inductive invariant *)

OwnTypeOK ==
    /\ server_kind \in {"async", "sync"}
    /\ life \in [OwnConns -> {"none", "open", "closing", "closed"}]
    /\ nmsgs \in [OwnConns -> Nat] /\ current \in [OwnConns -> Nat]
    /\ request_of \in [OwnConns -> Nat] /\ writing_of \in [OwnConns -> Nat]
    /\ fd_of \in [OwnConns -> Nat]
    /\ fd_table \in [Descriptors -> OwnConns \cup {"free"}]

Lives(c) == life[c] \in {"open", "closing"}

\* The messages of a connection are different ones.
MessagesApart ==
    \A c \in OwnConns :
        /\ current[c] <= nmsgs[c] /\ request_of[c] <= nmsgs[c] /\ writing_of[c] <= nmsgs[c]
        /\ request_of[c] # 0 => request_of[c] # current[c] /\ writing_of[c] = 0
        /\ life[c] = "none" => current[c] = 0 /\ request_of[c] = 0 /\ writing_of[c] = 0
        /\ life[c] = "closing" => server_kind = "async"

\* The blocks that something will free or read: the message being parsed, the
\* request to answer, and what the connection's disposal frees.
Disposal(c) ==
    IF server_kind = "async" THEN async_handler_free(c) ELSE sync_connection_dispose(<<c, 0>>)

Held(c) == KeptOf(c, current[c]) \cup KeptOf(c, request_of[c]) \cup Disposal(c)

HeldAreLive == \A c \in OwnConns : Lives(c) => Held(c) \subseteq heap

\* All but the parts of messages will be freed with a connection that lives.
RestIsHeld ==
    server_kind = "async" =>
        \A b \in heap : b[2] \notin MessageFields =>
            \E c \in OwnConns : Lives(c) /\ b \in async_handler_free(c)

\* Until a close has hit a descriptor of another loop, open connections have
\* theirs, and one that is between its two closes has lost its own to the
\* connections of other loops at most.
DescriptorsKept ==
    (\A p \in stolen : loop_of[p[1]] = loop_of[p[2]]) =>
        /\ stolen = {}
        /\ \A c \in OwnConns :
              /\ Lives(c) => fd_of[c] \in Descriptors
              /\ life[c] = "open" => fd_table[fd_of[c]] = c
              /\ life[c] = "closing" =>
                    \A d \in OwnConns : fd_table[fd_of[c]] = d => loop_of[d] # loop_of[c]

OwnershipInv ==
    /\ OwnTypeOK
    /\ MessagesApart
    /\ misuse = {}
    /\ HeldAreLive
    /\ RestIsHeld
    /\ DescriptorsKept

\* What async_handler_free frees belongs to its connection.
LEMMA FreedAt ==
    ASSUME NEW c, NEW b \in async_handler_free(c)
    PROVE  b[1][1] = c
<1>1. CASE b \in Handler(<<c, 0>>)
  <2>1. b[1] = <<c, 0>>
    BY <1>1, HandlerAt, Zenon
  <2> QED BY <2>1
<1>2. CASE b \in ActiveOutput(c)
  <2>1. b \in IOBuffer_dispose(<<c, writing_of[c]>>, "active_output_buffer_ref")
    BY <1>2, Zenon DEF ActiveOutput
  <2>2. b[1] = <<c, writing_of[c]>>
    BY <2>1, BufferAt, Zenon
  <2> QED BY <2>2
<1>3. b \in Handler(<<c, 0>>) \cup ActiveOutput(c)
  BY HandlerFreed, Zenon
<1> QED BY <1>1, <1>2, <1>3, Zenon

\* What a connection holds belongs to it.
LEMMA HeldAt ==
    ASSUME NEW c, NEW b \in Held(c)
    PROVE  b[1][1] = c
<1>1. ASSUME NEW m, b \in KeptOf(c, m)
      PROVE  b[1][1] = c
  <2>1. b[1] = <<c, m>>
    BY <1>1, KeptAt, Zenon DEF KeptOf
  <2> QED BY <2>1
<1>2. CASE b \in async_handler_free(c)
  BY <1>2, FreedAt, Zenon
<1>3. CASE b \in sync_connection_dispose(<<c, 0>>)
  <2>1. b[1] = <<c, 0>>
    BY <1>3, StructsAt, BufferAt, Zenon DEF sync_connection_dispose
  <2> QED BY <2>1
<1> QED BY <1>1, <1>2, <1>3, Zenon DEF Held, Disposal

\* A step of connection c that frees live blocks of c, and after which c has its
\* blocks, does nothing to the other connections.
LEMMA HeapOfOne ==
    ASSUME OwnershipInv, NEW c \in OwnConns,
           \A b : b[1][1] # c => (b \in heap' <=> b \in heap),
           UNCHANGED server_kind,
           \A d \in OwnConns \ {c} :
              /\ life'[d] = life[d] /\ current'[d] = current[d]
              /\ request_of'[d] = request_of[d] /\ writing_of'[d] = writing_of[d],
           Lives(c)' => Held(c)' \subseteq heap',
           server_kind = "async" =>
              \A b \in heap' : b[1][1] = c /\ b[2] \notin MessageFields =>
                  Lives(c)' /\ b \in async_handler_free(c)'
    PROVE  HeldAreLive' /\ RestIsHeld'
<1>1. ASSUME NEW d \in OwnConns \ {c}
      PROVE  /\ Held(d)' = Held(d) /\ async_handler_free(d)' = async_handler_free(d)
             /\ Lives(d)' = Lives(d)
  <2>1. ActiveOutput(d)' = ActiveOutput(d)
    BY Zenon DEF ActiveOutput
  <2>2. async_handler_free(d)' = async_handler_free(d)
    BY <2>1, Zenon DEF async_handler_free, async_connection_destroy
  <2>3. Held(d)' = Held(d)
    BY <2>2, Zenon DEF Held, Disposal
  <2>4. Lives(d)' = Lives(d)
    BY Zenon DEF Lives
  <2> QED BY <2>2, <2>3, <2>4, Zenon
<1>2. ASSUME NEW d \in OwnConns, Lives(d)'
      PROVE  Held(d)' \subseteq heap'
  <2>1. CASE d = c
    BY <1>2, <2>1, Zenon
  <2>2. CASE d # c
    <3>1. Held(d) \subseteq heap /\ Held(d)' = Held(d)
      BY <1>1, <1>2, <2>2, Zenon DEF OwnershipInv, HeldAreLive
    <3>2. \A b \in Held(d) : b[1][1] # c
      BY <2>2, HeldAt, Zenon
    <3> QED BY <3>1, <3>2, Zenon
  <2> QED BY <2>1, <2>2, Zenon
<1>3. ASSUME server_kind = "async", NEW b \in heap', b[2] \notin MessageFields
      PROVE  \E d \in OwnConns : Lives(d)' /\ b \in async_handler_free(d)'
  <2>1. CASE b[1][1] = c
    BY <1>3, <2>1, Zenon
  <2>2. CASE b[1][1] # c
    <3>1. b \in heap
      BY <1>3, <2>2, Zenon
    <3>2. PICK d \in OwnConns : Lives(d) /\ b \in async_handler_free(d)
      BY <1>3, <3>1, Zenon DEF OwnershipInv, RestIsHeld
    <3>3. d # c
      BY <2>2, <3>2, FreedAt, Zenon
    <3> QED BY <1>1, <3>2, <3>3, Zenon
  <2> QED BY <2>1, <2>2, Zenon
<1>4. HeldAreLive'
  BY <1>2, Zenon DEF HeldAreLive
<1>5. RestIsHeld'
  BY <1>3, Zenon DEF RestIsHeld
<1> QED BY <1>4, <1>5, Zenon

\* async_handler_free frees no part of a message.
LEMMA FreedField ==
    ASSUME NEW c, NEW b \in async_handler_free(c)
    PROVE  b[2] \notin MessageFields
<1>1. CASE b \in Handler(<<c, 0>>)
  BY <1>1, HandlerAt, Zenon
<1>2. CASE b \in ActiveOutput(c)
  <2>1. b \in IOBuffer_dispose(<<c, writing_of[c]>>, "active_output_buffer_ref")
    BY <1>2, Zenon DEF ActiveOutput
  <2>2. b[2] = "active_output_buffer_ref"
    BY <2>1, BufferAt
  <2> QED BY <2>2, Zenon DEF MessageFields
<1>3. b \in Handler(<<c, 0>>) \cup ActiveOutput(c)
  BY HandlerFreed, Zenon
<1> QED BY <1>1, <1>2, <1>3, Zenon

\* No disposal of a connection frees what every message has.
LEMMA DisposalField ==
    ASSUME NEW c, NEW b \in Disposal(c)
    PROVE  b[2] \notin {"Message", "headers", "target", "reason"}
<1>1. CASE server_kind = "async"
  BY <1>1, FreedField, Zenon DEF Disposal, MessageFields
<1>2. CASE server_kind # "async"
  <2>1. b \in Structs(<<c, 0>>, {"sync_connection_t"}) \/ b \in IOBuffer_dispose(<<c, 0>>, "m_iobuffer")
    BY <1>2, Zenon DEF Disposal, sync_connection_dispose
  <2>2. b[2] \in {"sync_connection_t", "m_iobuffer"}
    BY <2>1, StructsAt, BufferAt
  <2> QED BY <2>2, Zenon
<1> QED BY <1>1, <1>2, Zenon

\* What is left of a connection outside its messages belongs to one that lives.
LEMMA RestOfOne ==
    ASSUME OwnershipInv, server_kind = "async", NEW c, NEW b \in heap, b[1][1] = c,
           b[2] \notin MessageFields
    PROVE  Lives(c) /\ b \in async_handler_free(c)
<1>1. PICK d \in OwnConns : Lives(d) /\ b \in async_handler_free(d)
  BY Zenon DEF OwnershipInv, RestIsHeld
<1>2. d = c
  BY <1>1, FreedAt, Zenon
<1> QED BY <1>1, <1>2, Zenon

\* Descriptors do not change, and a connection is at most gone.
LEMMA SameDescriptors ==
    ASSUME OwnershipInv, UNCHANGED <<loop_of, fdVars>>,
           \A c \in OwnConns : life'[c] = life[c] \/ life'[c] = "closed"
    PROVE  DescriptorsKept'
<1>1. UNCHANGED <<fd_of, fd_table, stolen>>
  BY Zenon DEF fdVars
<1> QED BY <1>1, Zenon DEF OwnershipInv, DescriptorsKept, Lives

\* The parser disposes of the message it has and begins another.
LEMMA BeginInv ==
    ASSUME OwnershipInv, NEW c \in OwnConns, message_begin_cb(c)
    PROVE  OwnershipInv'
<1> DEFINE n == nmsgs[c] + 1
           freed == IF current[c] = 0 THEN {} ELSE Message_dispose(<<c, current[c]>>)
<1>1. /\ life[c] = "open" /\ writing_of[c] = 0
      /\ heap' = (heap \ freed) \cup Kept(<<c, n>>) /\ misuse' = misuse \cup (freed \ heap)
      /\ nmsgs' = [nmsgs EXCEPT ![c] = n] /\ current' = [current EXCEPT ![c] = n]
      /\ UNCHANGED <<server_kind, life, loop_of, request_of, writing_of, fdVars>>
  BY MessageDisposed, Zenon DEF message_begin_cb, Parses, Serves, HeapStep, NewMessage
<1>2. /\ OwnTypeOK /\ MessagesApart /\ misuse = {} /\ Held(c) \subseteq heap /\ n \in Nat
      /\ n # 0 /\ current[c] \in Nat /\ request_of[c] \in Nat /\ Lives(c)
  BY <1>1 DEF OwnershipInv, HeldAreLive, Lives, OwnTypeOK
<1>3. \A b \in freed : /\ b[1] = <<c, current[c]>> /\ current[c] # 0
                       /\ b[2] \in {"Message", "headers", "target", "reason"}
  BY MessageDisposed, Zenon
<1>4. freed \subseteq heap
  BY <1>2, MessageDisposed DEF Held, KeptOf
<1> HIDE DEF freed, n
<1>5. Kept(<<c, n>>) \subseteq heap'
  BY <1>1, Zenon
<1>6. KeptOf(c, request_of[c]) \subseteq heap'
  <2>1. ASSUME NEW b \in KeptOf(c, request_of[c])
        PROVE  b \notin freed
    <3>1. b[1] = <<c, request_of[c]>> /\ request_of[c] # 0
      BY KeptAt, Zenon DEF KeptOf
    <3>2. request_of[c] # current[c]
      BY <1>2, <3>1, Zenon DEF MessagesApart
    <3> QED BY <1>3, <3>1, <3>2
  <2> QED BY <1>1, <1>2, <2>1, Zenon DEF Held
<1>7. Disposal(c) \subseteq heap'
  <2>1. \A b \in Disposal(c) : b \notin freed
    BY <1>3, DisposalField, Zenon
  <2> QED BY <1>1, <1>2, <2>1, Zenon DEF Held
<1>8. Disposal(c)' = Disposal(c) /\ async_handler_free(c)' = async_handler_free(c)
  BY <1>1, Zenon DEF Disposal, async_handler_free, async_connection_destroy, ActiveOutput
<1>9. Held(c)' \subseteq heap'
  <2>1. current'[c] = n
    BY <1>1, <1>2, Zenon DEF OwnTypeOK
  <2>2. Held(c)' = KeptOf(c, n) \cup KeptOf(c, request_of[c]) \cup Disposal(c)
    BY <1>1, <1>8, <2>1, Zenon DEF Held
  <2>3. KeptOf(c, n) = Kept(<<c, n>>)
    BY <1>2, Zenon DEF KeptOf
  <2> QED BY <1>5, <1>6, <1>7, <2>2, <2>3, Zenon
<1>10. \A b : b[1][1] # c => (b \in heap' <=> b \in heap)
  <2>1. \A b \in Kept(<<c, n>>) : b[1] = <<c, n>>
    BY KeptAt, Zenon
  <2>2. \A b \in freed \cup Kept(<<c, n>>) : b[1][1] = c
    BY <1>3, <2>1
  <2> QED BY <1>1, <2>2, Zenon
<1>11. server_kind = "async" =>
          \A b \in heap' : b[1][1] = c /\ b[2] \notin MessageFields =>
              Lives(c)' /\ b \in async_handler_free(c)'
  <2>1. ASSUME server_kind = "async", NEW b \in heap', b[1][1] = c, b[2] \notin MessageFields
        PROVE  Lives(c)' /\ b \in async_handler_free(c)'
    <3>1. b \notin Kept(<<c, n>>)
      BY <2>1, KeptAt, Zenon DEF MessageFields
    <3>2. b \in heap
      BY <1>1, <2>1, <3>1, Zenon
    <3>3. Lives(c) /\ b \in async_handler_free(c)
      BY <2>1, <3>2, RestOfOne, Zenon
    <3> QED BY <1>1, <1>8, <3>3, Zenon DEF Lives
  <2> QED BY <2>1, Zenon
<1>12. HeldAreLive' /\ RestIsHeld'
  <2>1. \A d \in OwnConns \ {c} :
           /\ life'[d] = life[d] /\ current'[d] = current[d]
           /\ request_of'[d] = request_of[d] /\ writing_of'[d] = writing_of[d]
    BY <1>1, <1>2, Zenon DEF OwnTypeOK
  <2> QED BY <1>1, <1>9, <1>10, <1>11, <2>1, HeapOfOne, Zenon
<1>13. OwnTypeOK'
  BY <1>1, <1>2, Zenon DEF OwnTypeOK, fdVars
<1>14. MessagesApart'
  <2>1. n = nmsgs[c] + 1
    BY Zenon DEF n
  <2> QED BY <1>1, <1>2, <2>1 DEF OwnTypeOK, MessagesApart
<1>15. DescriptorsKept' /\ misuse' = {}
  BY <1>1, <1>2, <1>4, SameDescriptors, Zenon
<1> QED BY <1>12, <1>13, <1>14, <1>15, Zenon DEF OwnershipInv

\* A message grows by a block it did not have.
LEMMA GrowsInv ==
    ASSUME OwnershipInv, NEW c \in OwnConns, MessageGrows(c)
    PROVE  OwnershipInv'
<1> DEFINE m == <<c, current[c]>>
<1>1. PICK part \in {KVPair_new(m), BufferChain_new(m) \cup BufferChain_append(m)} : HeapStep(part, {})
  BY Zenon DEF MessageGrows
<1>2. /\ life[c] = "open" /\ heap' = heap \cup part /\ misuse' = misuse
      /\ UNCHANGED <<server_kind, life, loop_of, nmsgs, current, request_of, writing_of, fdVars>>
  BY <1>1, Zenon DEF MessageGrows, Parses, Serves, HeapStep, msgVars
<1>3. \A b \in part : b[1] = m /\ b[2] \in {"headers", "body"}
  BY BlocksAt DEF KVPair_new, BufferChain_new, BufferChain_append
<1>4. /\ OwnTypeOK /\ MessagesApart /\ misuse = {} /\ Held(c) \subseteq heap
  BY <1>2, Zenon DEF OwnershipInv, HeldAreLive, Lives
<1>5. Held(c)' = Held(c) /\ async_handler_free(c)' = async_handler_free(c) /\ Lives(c)' = Lives(c)
  BY <1>2, Zenon DEF Held, Disposal, async_handler_free, async_connection_destroy, ActiveOutput, Lives
<1>6. \A b : b[1][1] # c => (b \in heap' <=> b \in heap)
  <2>1. \A b \in part : b[1][1] = c
    BY <1>3
  <2> QED BY <1>2, <2>1, Zenon
<1>7. Held(c)' \subseteq heap'
  BY <1>2, <1>4, <1>5, Zenon
<1>8. server_kind = "async" =>
          \A b \in heap' : b[1][1] = c /\ b[2] \notin MessageFields =>
              Lives(c)' /\ b \in async_handler_free(c)'
  <2>1. ASSUME server_kind = "async", NEW b \in heap', b[1][1] = c, b[2] \notin MessageFields
        PROVE  Lives(c)' /\ b \in async_handler_free(c)'
    <3>1. b \notin part
      BY <1>3, <2>1, Zenon DEF MessageFields
    <3>2. b \in heap
      BY <1>2, <2>1, <3>1, Zenon
    <3> QED BY <1>5, <2>1, <3>2, RestOfOne
  <2> QED BY <2>1, Zenon
<1>9. HeldAreLive' /\ RestIsHeld'
  BY <1>2, <1>6, <1>7, <1>8, HeapOfOne, Zenon
<1>10. OwnTypeOK' /\ MessagesApart'
  BY <1>2, <1>4, Zenon DEF OwnTypeOK, MessagesApart, fdVars
<1>11. DescriptorsKept'
  BY <1>2, SameDescriptors, Zenon
<1> QED BY <1>2, <1>4, <1>9, <1>10, <1>11, Zenon DEF OwnershipInv

\* A complete message is handed over, and the parser has a new one.
LEMMA CompleteInv ==
    ASSUME OwnershipInv, NEW c \in OwnConns, message_complete_cb(c)
    PROVE  OwnershipInv'
<1> DEFINE n == nmsgs[c] + 1
<1>1. /\ life[c] = "open" /\ writing_of[c] = 0 /\ current[c] # 0
      /\ heap' = heap \cup Kept(<<c, n>>) /\ misuse' = misuse
      /\ nmsgs' = [nmsgs EXCEPT ![c] = n] /\ current' = [current EXCEPT ![c] = n]
      /\ request_of' = [request_of EXCEPT ![c] = current[c]]
      /\ UNCHANGED <<server_kind, life, loop_of, writing_of, fdVars>>
  BY MessageDisposed, Zenon DEF message_complete_cb, Parses, Serves, HeapStep, NewMessage
<1>2. /\ OwnTypeOK /\ MessagesApart /\ misuse = {} /\ Held(c) \subseteq heap /\ n \in Nat
      /\ n # 0 /\ n = nmsgs[c] + 1 /\ current[c] \in Nat /\ Lives(c)
  BY <1>1 DEF OwnershipInv, HeldAreLive, Lives, OwnTypeOK
<1> HIDE DEF n
<1>3. Disposal(c)' = Disposal(c) /\ async_handler_free(c)' = async_handler_free(c)
  BY <1>1, Zenon DEF Disposal, async_handler_free, async_connection_destroy, ActiveOutput
<1>4. Held(c)' \subseteq heap'
  <2>1. current'[c] = n /\ request_of'[c] = current[c]
    BY <1>1, <1>2, Zenon DEF OwnTypeOK
  <2>2. Held(c)' = KeptOf(c, n) \cup KeptOf(c, current[c]) \cup Disposal(c)
    BY <1>3, <2>1, Zenon DEF Held
  <2>3. KeptOf(c, n) = Kept(<<c, n>>)
    BY <1>2, Zenon DEF KeptOf
  <2>4. KeptOf(c, current[c]) \subseteq heap /\ Disposal(c) \subseteq heap
    BY <1>2, Zenon DEF Held
  <2> QED BY <1>1, <2>2, <2>3, <2>4, Zenon
<1>5. \A b : b[1][1] # c => (b \in heap' <=> b \in heap)
  <2>1. \A b \in Kept(<<c, n>>) : b[1] = <<c, n>>
    BY KeptAt, Zenon
  <2>2. \A b \in Kept(<<c, n>>) : b[1][1] = c
    BY <2>1
  <2> QED BY <1>1, <2>2, Zenon
<1>6. server_kind = "async" =>
          \A b \in heap' : b[1][1] = c /\ b[2] \notin MessageFields =>
              Lives(c)' /\ b \in async_handler_free(c)'
  <2>1. ASSUME server_kind = "async", NEW b \in heap', b[1][1] = c, b[2] \notin MessageFields
        PROVE  Lives(c)' /\ b \in async_handler_free(c)'
    <3>1. b \notin Kept(<<c, n>>)
      BY <2>1, KeptAt, Zenon DEF MessageFields
    <3>2. b \in heap
      BY <1>1, <2>1, <3>1, Zenon
    <3>3. Lives(c) /\ b \in async_handler_free(c)
      BY <2>1, <3>2, RestOfOne, Zenon
    <3> QED BY <1>1, <1>3, <3>3, Zenon DEF Lives
  <2> QED BY <2>1, Zenon
<1>7. HeldAreLive' /\ RestIsHeld'
  <2>1. \A d \in OwnConns \ {c} :
           /\ life'[d] = life[d] /\ current'[d] = current[d]
           /\ request_of'[d] = request_of[d] /\ writing_of'[d] = writing_of[d]
    BY <1>1, <1>2, Zenon DEF OwnTypeOK
  <2> QED BY <1>1, <1>4, <1>5, <1>6, <2>1, HeapOfOne, Zenon
<1>8. OwnTypeOK'
  BY <1>1, <1>2, Zenon DEF OwnTypeOK, fdVars
<1>9. MessagesApart'
  BY <1>1, <1>2 DEF OwnTypeOK, MessagesApart
<1>10. DescriptorsKept' /\ misuse' = {}
  BY <1>1, <1>2, SameDescriptors, Zenon
<1> QED BY <1>7, <1>8, <1>9, <1>10, Zenon DEF OwnershipInv

\* The blocks that the request handler and the serialisation add.
LEMMA AnswerAt ==
    ASSUME NEW c, NEW k, NEW n,
           NEW body \in {echo_body_buffer_chain(<<c, k>>, <<c, n>>), simple_response_body(<<c, n>>)},
           NEW b \in app_handler_example(<<c, k>>, <<c, n>>, body)
                        \cup IOBuffer_new(<<c, n>>, "active_output_buffer_ref")
    PROVE  /\ b[1][1] = c
           /\ \/ b[2] \in MessageFields
              \/ b \in IOBuffer_dispose(<<c, n>>, "active_output_buffer_ref")
<1>1. \/ b \in Kept(<<c, n>>) \/ b \in Blocks(<<c, n>>, "headers", {"KVPairs"})
      \/ b \in Blocks(<<c, k>>, "target copy", {"Cbuffer", "m_memPtr"})
      \/ b \in Blocks(<<c, k>>, "serialized", {"IOBuffer", "mem_p"})
      \/ b \in Blocks(<<c, n>>, "body", {"BufferChain", "m_chain"})
      \/ b \in Blocks(<<c, n>>, "body", {"ListNode", "IOBuffer", "mem_p"})
      \/ b \in IOBuffer_dispose(<<c, n>>, "active_output_buffer_ref")
  BY MessageDisposed, Zenon DEF app_handler_example, KVPair_new, Cbuffer_new, IOBuffer_new, IOBuffer_dispose,
     echo_body_buffer_chain, simple_response_body, BufferChain_new, BufferChain_append
<1>2. ASSUME NEW i, NEW field, NEW parts, b \in Blocks(<<c, i>>, field, parts)
      PROVE  b[1][1] = c /\ b[2] = field
  <2>1. b[1] = <<c, i>> /\ b[2] = field
    BY <1>2, BlocksAt, Zenon
  <2> QED BY <2>1
<1>3. CASE b \in Kept(<<c, n>>)
  <2>1. b[1] = <<c, n>> /\ b[2] \in {"Message", "headers", "target", "reason"}
    BY <1>3, KeptAt, Zenon
  <2>2. b[1][1] = c
    BY <2>1
  <2>3. b[2] \in MessageFields
    BY <2>1, Zenon DEF MessageFields
  <2> QED BY <2>2, <2>3, Zenon
<1>4. CASE b \in IOBuffer_dispose(<<c, n>>, "active_output_buffer_ref")
  <2>1. b[1] = <<c, n>>
    BY <1>4, BufferAt, Zenon
  <2> QED BY <1>4, <2>1
<1>5. CASE b[1][1] = c /\ b[2] \in {"headers", "target copy", "serialized", "body"}
  BY <1>5, Zenon DEF MessageFields
<1> QED BY <1>1, <1>2, <1>3, <1>4, <1>5, Zenon

\* Making a response reads the request, which is still allocated, and frees nothing.
LEMMA RequestInv ==
    ASSUME OwnershipInv, NEW c \in OwnConns, process_request(c)
    PROVE  OwnershipInv'
<1> DEFINE n == nmsgs[c] + 1
           m == <<c, request_of[c]>>
           r == <<c, n>>
<1>1. PICK body \in {echo_body_buffer_chain(m, r), simple_response_body(r)} :
         /\ heap' = heap \cup app_handler_example(m, r, body)
                         \cup IOBuffer_new(r, "active_output_buffer_ref")
         /\ misuse' = misuse \cup (Message_dispose(m) \ heap)
  BY Zenon DEF process_request, NewMessage
<1> DEFINE new == app_handler_example(m, r, body) \cup IOBuffer_new(r, "active_output_buffer_ref")
           out == IOBuffer_dispose(r, "active_output_buffer_ref")
<1>2. /\ life[c] = "open" /\ request_of[c] # 0
      /\ heap' = heap \cup new
      /\ nmsgs' = [nmsgs EXCEPT ![c] = n] /\ writing_of' = [writing_of EXCEPT ![c] = n]
      /\ request_of' = [request_of EXCEPT ![c] = 0]
      /\ UNCHANGED <<server_kind, life, loop_of, current, fdVars>>
  BY <1>1, Zenon DEF process_request, Serves, NewMessage
<1>3. /\ OwnTypeOK /\ MessagesApart /\ misuse = {} /\ Held(c) \subseteq heap /\ n \in Nat
      /\ n # 0 /\ n = nmsgs[c] + 1 /\ Lives(c) /\ writing_of[c] = 0
  BY <1>2 DEF OwnershipInv, HeldAreLive, Lives, OwnTypeOK, MessagesApart
<1>4. Message_dispose(m) \subseteq heap
  <2>1. Kept(m) \subseteq heap
    BY <1>2, <1>3, Zenon DEF Held, KeptOf
  <2> QED BY <2>1, MessageDisposed, Zenon
<1>5. \A b \in new : /\ b[1][1] = c
                     /\ b[2] \in MessageFields \/ b \in out
  BY AnswerAt, Zenon
<1>6. out \subseteq new
  BY Zenon DEF IOBuffer_new, IOBuffer_dispose
<1>7. async_handler_free(c) = Handler(<<c, 0>>) /\ async_handler_free(c)' = Handler(<<c, 0>>) \cup out
  <2>1. ActiveOutput(c) = {} /\ ActiveOutput(c)' = out
    BY <1>2, <1>3, Zenon DEF ActiveOutput, OwnTypeOK
  <2>2. async_handler_free(c)' = (Handler(<<c, 0>>) \cup ActiveOutput(c))'
    BY HandlerFreed, Zenon DEF async_handler_free, async_connection_destroy, Handler, Structs
  <2> QED BY <2>1, <2>2, HandlerFreed, Zenon
<1> HIDE DEF n, new, out
<1>8. Held(c)' \subseteq heap'
  <2>1. current'[c] = current[c] /\ request_of'[c] = 0
    BY <1>2, <1>3, Zenon DEF OwnTypeOK
  <2>2. Disposal(c)' \subseteq Disposal(c) \cup out
    BY <1>2, <1>7, Zenon DEF Disposal
  <2>3. Held(c)' = KeptOf(c, current[c]) \cup Disposal(c)'
    BY <2>1, Zenon DEF Held, KeptOf
  <2>4. KeptOf(c, current[c]) \subseteq heap /\ Disposal(c) \subseteq heap
    BY <1>3, Zenon DEF Held
  <2> QED BY <1>2, <1>6, <2>2, <2>3, <2>4, Zenon
<1>9. \A b : b[1][1] # c => (b \in heap' <=> b \in heap)
  BY <1>2, <1>5, Zenon
<1>10. server_kind = "async" =>
          \A b \in heap' : b[1][1] = c /\ b[2] \notin MessageFields =>
              Lives(c)' /\ b \in async_handler_free(c)'
  <2>1. ASSUME server_kind = "async", NEW b \in heap', b[1][1] = c, b[2] \notin MessageFields
        PROVE  Lives(c)' /\ b \in async_handler_free(c)'
    <3>1. CASE b \in new
      BY <1>2, <1>3, <1>5, <1>7, <2>1, <3>1, Zenon DEF Lives
    <3>2. CASE b \notin new
      <4>1. b \in heap
        BY <1>2, <2>1, <3>2, Zenon
      <4>2. b \in async_handler_free(c)
        BY <2>1, <4>1, RestOfOne, Zenon
      <4> QED BY <1>2, <1>3, <1>7, <4>2, Zenon DEF Lives
    <3> QED BY <3>1, <3>2, Zenon
  <2> QED BY <2>1, Zenon
<1>11. HeldAreLive' /\ RestIsHeld'
  <2>1. \A d \in OwnConns \ {c} :
           /\ life'[d] = life[d] /\ current'[d] = current[d]
           /\ request_of'[d] = request_of[d] /\ writing_of'[d] = writing_of[d]
    BY <1>2, <1>3, Zenon DEF OwnTypeOK
  <2> QED BY <1>2, <1>8, <1>9, <1>10, <2>1, HeapOfOne, Zenon
<1>12. OwnTypeOK'
  BY <1>2, <1>3, Zenon DEF OwnTypeOK, fdVars
<1>13. MessagesApart'
  BY <1>2, <1>3 DEF OwnTypeOK, MessagesApart
<1>14. DescriptorsKept' /\ misuse' = {}
  BY <1>1, <1>2, <1>3, <1>4, SameDescriptors, Zenon
<1> QED BY <1>11, <1>12, <1>13, <1>14, Zenon DEF OwnershipInv

\* When a response is written the asynchronous server frees its buffer.
LEMMA WrittenInv ==
    ASSUME OwnershipInv, NEW c \in OwnConns, Written(c)
    PROVE  OwnershipInv'
<1> DEFINE freed == IF server_kind = "async" THEN ActiveOutput(c) ELSE {}
<1>1. /\ life[c] = "open" /\ heap' = heap \ freed /\ misuse' = misuse \cup (freed \ heap)
      /\ writing_of' = [writing_of EXCEPT ![c] = 0]
      /\ UNCHANGED <<server_kind, life, loop_of, nmsgs, current, request_of, fdVars>>
  BY Zenon DEF Written, Serves, HeapStep
<1>2. /\ OwnTypeOK /\ MessagesApart /\ misuse = {} /\ Held(c) \subseteq heap /\ Lives(c)
  BY <1>1, Zenon DEF OwnershipInv, HeldAreLive, Lives
<1>3. \A b \in freed : b[1][1] = c /\ b[2] = "active_output_buffer_ref"
  <2>1. \A b \in freed : b[1] = <<c, writing_of[c]>> /\ b[2] = "active_output_buffer_ref"
    BY BufferAt DEF ActiveOutput
  <2> QED BY <2>1
<1>4. freed \subseteq heap
  BY <1>2, HandlerFreed, Zenon DEF Held, Disposal
<1>5. async_handler_free(c)' = Handler(<<c, 0>>)
  <2>1. ActiveOutput(c)' = {}
    BY <1>1, <1>2, Zenon DEF ActiveOutput, OwnTypeOK
  <2>2. async_handler_free(c)' = (Handler(<<c, 0>>) \cup ActiveOutput(c))'
    BY Zenon DEF async_handler_free, async_connection_destroy, Handler, Structs
  <2> QED BY <2>1, <2>2, Zenon
<1>6. server_kind = "async" => async_handler_free(c) \subseteq Handler(<<c, 0>>) \cup freed
  BY HandlerFreed, Zenon
<1>7. Handler(<<c, 0>>) \cap freed = {}
  BY <1>3, HandlerAt, Zenon
<1>8. server_kind = "async" => Handler(<<c, 0>>) \subseteq heap
  BY <1>2, HandlerFreed, Zenon DEF Held, Disposal
<1>9. server_kind # "async" => freed = {}
  BY Zenon
<1> HIDE DEF freed
<1>10. Held(c)' \subseteq heap'
  <2>1. KeptOf(c, current[c]) \subseteq heap /\ KeptOf(c, request_of[c]) \subseteq heap
    BY <1>2, Zenon DEF Held
  <2>2. \A b \in KeptOf(c, current[c]) \cup KeptOf(c, request_of[c]) : b \notin freed
    BY <1>3, KeptAt, Zenon DEF KeptOf
  <2>3. Disposal(c)' \subseteq heap'
    <3>1. CASE server_kind = "async"
      BY <1>1, <1>5, <1>7, <1>8, <3>1, Zenon DEF Disposal
    <3>2. CASE server_kind # "async"
      <4>1. Disposal(c)' = Disposal(c)
        BY <1>1, <3>2, Zenon DEF Disposal
      <4> QED BY <1>1, <1>2, <1>9, <3>2, <4>1, Zenon DEF Held
    <3> QED BY <3>1, <3>2, Zenon
  <2>4. Held(c)' = KeptOf(c, current[c]) \cup KeptOf(c, request_of[c]) \cup Disposal(c)'
    BY <1>1, Zenon DEF Held
  <2> QED BY <1>1, <2>1, <2>2, <2>3, <2>4, Zenon
<1>11. \A b : b[1][1] # c => (b \in heap' <=> b \in heap)
  BY <1>1, <1>3, Zenon
<1>12. server_kind = "async" =>
          \A b \in heap' : b[1][1] = c /\ b[2] \notin MessageFields =>
              Lives(c)' /\ b \in async_handler_free(c)'
  <2>1. ASSUME server_kind = "async", NEW b \in heap', b[1][1] = c, b[2] \notin MessageFields
        PROVE  Lives(c)' /\ b \in async_handler_free(c)'
    <3>1. b \in heap /\ b \notin freed
      BY <1>1, <2>1, Zenon
    <3>2. b \in async_handler_free(c)
      BY <2>1, <3>1, RestOfOne, Zenon
    <3>3. b \in async_handler_free(c)'
      BY <1>5, <1>6, <2>1, <3>1, <3>2, Zenon
    <3> QED BY <1>1, <1>2, <3>3, Zenon DEF Lives
  <2> QED BY <2>1, Zenon
<1>13. HeldAreLive' /\ RestIsHeld'
  <2>1. \A d \in OwnConns \ {c} :
           /\ life'[d] = life[d] /\ current'[d] = current[d]
           /\ request_of'[d] = request_of[d] /\ writing_of'[d] = writing_of[d]
    BY <1>1, <1>2, Zenon DEF OwnTypeOK
  <2> QED BY <1>1, <1>10, <1>11, <1>12, <2>1, HeapOfOne, Zenon
<1>14. OwnTypeOK'
  BY <1>1, <1>2, Zenon DEF OwnTypeOK, fdVars
<1>15. MessagesApart'
  BY <1>1, <1>2, Zenon DEF OwnTypeOK, MessagesApart
<1>16. DescriptorsKept' /\ misuse' = {}
  BY <1>1, <1>2, <1>4, SameDescriptors, Zenon
<1> QED BY <1>13, <1>14, <1>15, <1>16, Zenon DEF OwnershipInv

\* The first close: only the connection's own loop could have taken the
\* descriptor in between, and it is busy.
LEMMA FirstCloseInv ==
    ASSUME OwnershipInv, NEW c \in OwnConns, rtor_stream_free(c)
    PROVE  OwnershipInv'
<1>1. /\ server_kind = "async" /\ life[c] = "open" /\ life' = [life EXCEPT ![c] = "closing"]
      /\ fd_table' = [fd_table EXCEPT ![fd_of[c]] = "free"]
      /\ stolen' = (IF fd_table[fd_of[c]] \in {"free", c} THEN stolen
                    ELSE stolen \cup {<<c, fd_table[fd_of[c]]>>})
      /\ UNCHANGED <<fd_of, server_kind, heap, misuse, loop_of, nmsgs, current, request_of, writing_of>>
  BY Zenon DEF rtor_stream_free, Serves, close, msgVars
<1>2. OwnTypeOK /\ MessagesApart /\ misuse = {} /\ HeldAreLive /\ RestIsHeld /\ DescriptorsKept
  BY Zenon DEF OwnershipInv
<1>3. OwnTypeOK' /\ MessagesApart' /\ misuse' = {}
  BY <1>1, <1>2, Zenon DEF OwnTypeOK, MessagesApart
<1>4. \A d \in OwnConns : /\ Lives(d)' = Lives(d) /\ Held(d)' = Held(d)
                          /\ async_handler_free(d)' = async_handler_free(d)
  BY <1>1, <1>2 DEF OwnTypeOK, Lives, Held, Disposal, async_handler_free, async_connection_destroy,
                    ActiveOutput
<1>5. HeldAreLive' /\ RestIsHeld'
  BY <1>1, <1>2, <1>4, Zenon DEF HeldAreLive, RestIsHeld
<1>6. DescriptorsKept'
  <2>1. SUFFICES ASSUME \A p \in stolen' : loop_of[p[1]] = loop_of[p[2]]
                 PROVE  /\ stolen' = {}
                        /\ \A d \in OwnConns :
                              /\ Lives(d)' => fd_of[d] \in Descriptors
                              /\ life'[d] = "open" => fd_table'[fd_of[d]] = d
                              /\ life'[d] = "closing" =>
                                    \A e \in OwnConns : fd_table'[fd_of[d]] = e =>
                                        loop_of[e] # loop_of[d]
    BY <1>1 DEF DescriptorsKept
  <2>2. \A p \in stolen : loop_of[p[1]] = loop_of[p[2]]
    BY <1>1, <2>1, Zenon
  <2>3. /\ stolen = {}
        /\ \A d \in OwnConns :
              /\ Lives(d) => fd_of[d] \in Descriptors
              /\ life[d] = "open" => fd_table[fd_of[d]] = d
              /\ life[d] = "closing" =>
                    \A e \in OwnConns : fd_table[fd_of[d]] = e => loop_of[e] # loop_of[d]
    BY <1>2, <2>2, Zenon DEF DescriptorsKept
  <2>4. fd_table[fd_of[c]] = c /\ stolen' = {} /\ fd_of[c] \in Descriptors
    BY <1>1, <2>3, Zenon DEF Lives
  <2>5. ASSUME NEW d \in OwnConns
        PROVE  /\ Lives(d)' => fd_of[d] \in Descriptors
               /\ life'[d] = "open" => fd_table'[fd_of[d]] = d
               /\ life'[d] = "closing" =>
                     \A e \in OwnConns : fd_table'[fd_of[d]] = e => loop_of[e] # loop_of[d]
    <3>1. Lives(d)' => fd_of[d] \in Descriptors
      BY <1>4, <2>3, Zenon
    <3>2. life'[d] = "open" => fd_table'[fd_of[d]] = d
      <4>1. life'[d] = "open" => d # c /\ life[d] = "open"
        BY <1>1, <1>2, Zenon DEF OwnTypeOK
      <4>2. life'[d] = "open" => fd_of[d] # fd_of[c] /\ fd_of[d] \in Descriptors
        BY <2>3, <2>4, <4>1, Zenon DEF Lives
      <4> QED BY <1>1, <1>2, <2>3, <4>1, <4>2, Zenon DEF OwnTypeOK
    <3>3. ASSUME life'[d] = "closing", NEW e \in OwnConns, fd_table'[fd_of[d]] = e
          PROVE  loop_of[e] # loop_of[d]
      <4>1. fd_of[d] \in Descriptors /\ e # "free"
        BY <3>1, <3>3, OwnershipAssumption, Zenon DEF Lives
      <4>2. fd_of[d] # fd_of[c]
        BY <1>1, <1>2, <2>4, <3>3, <4>1, Zenon DEF OwnTypeOK
      <4>3. fd_table[fd_of[d]] = e /\ life[d] = "closing"
        BY <1>1, <1>2, <3>3, <4>1, <4>2, Zenon DEF OwnTypeOK
      <4> QED BY <2>3, <4>3, Zenon
    <3> QED BY <3>1, <3>2, <3>3, Zenon
  <2> QED BY <2>4, <2>5, Zenon
<1> QED BY <1>3, <1>5, <1>6, Zenon DEF OwnershipInv

\* A disposal frees exactly the rest of the connection, which is then gone.
LEMMA Disposed ==
    ASSUME OwnershipInv, NEW c \in OwnConns, Lives(c), HeapStep({}, Disposal(c)),
           life' = [life EXCEPT ![c] = "closed"],
           UNCHANGED <<server_kind, nmsgs, current, request_of, writing_of>>
    PROVE  MessagesApart' /\ misuse' = {} /\ HeldAreLive' /\ RestIsHeld'
<1>1. /\ OwnTypeOK /\ MessagesApart /\ misuse = {} /\ Held(c) \subseteq heap
      /\ heap' = heap \ Disposal(c) /\ misuse' = misuse \cup (Disposal(c) \ heap)
  BY Zenon DEF OwnershipInv, HeldAreLive, HeapStep
<1>2. misuse' = {}
  BY <1>1, Zenon DEF Held
<1>3. MessagesApart'
  BY <1>1, Zenon DEF OwnTypeOK, MessagesApart
<1>4. ~Lives(c)'
  BY <1>1, Zenon DEF OwnTypeOK, Lives
<1>5. \A b : b[1][1] # c => (b \in heap' <=> b \in heap)
  <2>1. \A b \in Disposal(c) : b[1][1] = c
    BY HeldAt, Zenon DEF Held
  <2> QED BY <1>1, <2>1, Zenon
<1>6. server_kind = "async" =>
          \A b \in heap' : b[1][1] = c /\ b[2] \notin MessageFields =>
              Lives(c)' /\ b \in async_handler_free(c)'
  <2>1. ASSUME server_kind = "async", NEW b \in heap', b[1][1] = c, b[2] \notin MessageFields
        PROVE  FALSE
    <3>1. b \in heap /\ b \notin async_handler_free(c)
      BY <1>1, <2>1, Zenon DEF Disposal
    <3> QED BY <2>1, <3>1, RestOfOne, Zenon
  <2> QED BY <2>1, Zenon
<1>7. \A d \in OwnConns \ {c} :
         /\ life'[d] = life[d] /\ current'[d] = current[d]
         /\ request_of'[d] = request_of[d] /\ writing_of'[d] = writing_of[d]
  BY <1>1, Zenon DEF OwnTypeOK
<1>8. HeldAreLive' /\ RestIsHeld'
  BY <1>4, <1>5, <1>6, <1>7, HeapOfOne, Zenon
<1> QED BY <1>2, <1>3, <1>8, Zenon

\* The second close finds the descriptor free, or one that another loop took.
LEMMA SecondCloseInv ==
    ASSUME OwnershipInv, NEW c \in OwnConns, async_connection_close(c)
    PROVE  OwnershipInv'
<1>1. /\ life[c] = "closing" /\ life' = [life EXCEPT ![c] = "closed"]
      /\ HeapStep({}, async_handler_free(c))
      /\ fd_table' = [fd_table EXCEPT ![fd_of[c]] = "free"]
      /\ stolen' = (IF fd_table[fd_of[c]] \in {"free", c} THEN stolen
                    ELSE stolen \cup {<<c, fd_table[fd_of[c]]>>})
      /\ UNCHANGED <<fd_of, server_kind, loop_of, nmsgs, current, request_of, writing_of>>
  BY Zenon DEF async_connection_close, close, msgVars
<1>2. OwnTypeOK /\ MessagesApart /\ DescriptorsKept /\ server_kind = "async" /\ Lives(c)
  BY <1>1, Zenon DEF OwnershipInv, MessagesApart, Lives
<1>3. OwnTypeOK'
  BY <1>1, <1>2, Zenon DEF OwnTypeOK
<1>4. MessagesApart' /\ misuse' = {} /\ HeldAreLive' /\ RestIsHeld'
  <2>1. Disposal(c) = async_handler_free(c)
    BY <1>2, Zenon DEF Disposal
  <2> QED BY <1>1, <1>2, <2>1, Disposed, Zenon
<1>5. DescriptorsKept'
  <2>1. SUFFICES ASSUME \A p \in stolen' : loop_of[p[1]] = loop_of[p[2]]
                 PROVE  /\ stolen' = {}
                        /\ \A d \in OwnConns :
                              /\ Lives(d)' => fd_of[d] \in Descriptors
                              /\ life'[d] = "open" => fd_table'[fd_of[d]] = d
                              /\ life'[d] = "closing" =>
                                    \A e \in OwnConns : fd_table'[fd_of[d]] = e =>
                                        loop_of[e] # loop_of[d]
    BY <1>1 DEF DescriptorsKept
  <2>2. \A p \in stolen : loop_of[p[1]] = loop_of[p[2]]
    BY <1>1, <2>1, Zenon
  <2>3. /\ stolen = {}
        /\ \A d \in OwnConns :
              /\ Lives(d) => fd_of[d] \in Descriptors
              /\ life[d] = "open" => fd_table[fd_of[d]] = d
              /\ life[d] = "closing" =>
                    \A e \in OwnConns : fd_table[fd_of[d]] = e => loop_of[e] # loop_of[d]
    BY <1>2, <2>2, Zenon DEF DescriptorsKept
  <2>4. fd_of[c] \in Descriptors /\ fd_table[fd_of[c]] \in OwnConns \cup {"free"}
    BY <1>2, <2>3, Zenon DEF OwnTypeOK
  <2>5. fd_table[fd_of[c]] = "free"
    <3>1. SUFFICES ASSUME fd_table[fd_of[c]] # "free" PROVE FALSE
      BY Zenon
    <3> DEFINE e == fd_table[fd_of[c]]
    <3>2. e \in OwnConns /\ loop_of[e] # loop_of[c]
      BY <1>1, <2>3, <2>4, <3>1, Zenon
    <3>3. e # c
      BY <3>2, Zenon
    <3>4. <<c, e>> \in stolen'
      BY <1>1, <3>1, <3>3, Zenon
    <3> HIDE DEF e
    <3>5. loop_of[c] = loop_of[e]
      BY <2>1, <3>4, Zenon
    <3> QED BY <3>2, <3>5, Zenon
  <2>6. stolen' = {} /\ fd_table' = fd_table
    BY <1>1, <1>2, <2>3, <2>4, <2>5 DEF OwnTypeOK
  <2>7. \A d \in OwnConns : life'[d] = life[d] \/ life'[d] = "closed"
    BY <1>1, <1>2, Zenon DEF OwnTypeOK
  <2> QED BY <2>3, <2>6, <2>7, Zenon DEF Lives
<1> QED BY <1>3, <1>4, <1>5, Zenon DEF OwnershipInv

\* A worker of the threaded server ends a connection.
LEMMA WorkerInv ==
    ASSUME OwnershipInv, NEW c \in OwnConns, WorkerDisposes(c)
    PROVE  OwnershipInv'
<1>1. /\ life[c] = "open" /\ server_kind = "sync" /\ life' = [life EXCEPT ![c] = "closed"]
      /\ HeapStep({}, sync_connection_dispose(<<c, 0>>))
      /\ UNCHANGED <<server_kind, loop_of, nmsgs, current, request_of, writing_of, fdVars>>
  BY Zenon DEF WorkerDisposes, Serves, msgVars
<1>2. OwnTypeOK /\ Lives(c)
  BY <1>1, Zenon DEF OwnershipInv, Lives
<1>3. OwnTypeOK'
  BY <1>1, <1>2, Zenon DEF OwnTypeOK, fdVars
<1>4. MessagesApart' /\ misuse' = {} /\ HeldAreLive' /\ RestIsHeld'
  <2>1. Disposal(c) = sync_connection_dispose(<<c, 0>>)
    BY <1>1, Zenon DEF Disposal
  <2> QED BY <1>1, <1>2, <2>1, Disposed, Zenon
<1>5. DescriptorsKept'
  <2>1. \A d \in OwnConns : life'[d] = life[d] \/ life'[d] = "closed"
    BY <1>1, <1>2, Zenon DEF OwnTypeOK
  <2> QED BY <1>1, <2>1, SameDescriptors, Zenon
<1> QED BY <1>3, <1>4, <1>5, Zenon DEF OwnershipInv

\* accept never gives a descriptor away that a connection of the same loop is
\* about to close a second time.
LEMMA AcceptInv ==
    ASSUME OwnershipInv, NEW c \in OwnConns, Accept(c)
    PROVE  OwnershipInv'
<1> DEFINE new == IF server_kind = "async" THEN async_handler_new(<<c, 0>>)
                                           ELSE sync_connection_new(<<c, 0>>)
<1>1. PICK f \in Descriptors :
         /\ fd_table[f] = "free"
         /\ fd_of' = [fd_of EXCEPT ![c] = f]
         /\ fd_table' = [fd_table EXCEPT ![f] = c]
  BY Zenon DEF Accept, Takes
<1>2. /\ life[c] = "none" /\ life' = [life EXCEPT ![c] = "open"]
      /\ heap' = heap \cup new /\ misuse' = misuse
      /\ \A d \in OwnConns : loop_of[d] = loop_of[c] => life[d] # "closing"
      /\ UNCHANGED <<server_kind, loop_of, nmsgs, current, request_of, writing_of, stolen>>
  BY Zenon DEF Accept, Takes, Idle, HeapStep, msgVars
<1>3. /\ OwnTypeOK /\ MessagesApart /\ misuse = {} /\ DescriptorsKept
      /\ current[c] = 0 /\ request_of[c] = 0 /\ writing_of[c] = 0
  BY <1>2, Zenon DEF OwnershipInv, MessagesApart
<1>4. \A b \in new : b[1] = <<c, 0>>
  <2>1. CASE server_kind = "async"
    BY <2>1, HandlerMade, MessageDisposed, HandlerAt, KeptAt
  <2>2. CASE server_kind # "async"
    <3> DEFINE o == <<c, 0>>
    <3>1. ASSUME NEW b \in sync_connection_new(o)
          PROVE  \/ b \in Structs(o, {"sync_connection_t", "input_list"})
                 \/ b \in async_handler_new(o)
                 \/ b \in Blocks(o, "m_iobuffer", {"IOBuffer", "mem_p"})
      BY Zenon DEF sync_connection_new, async_handler_new, async_connection_new, IOBuffer_new
    <3>2. \A b \in async_handler_new(o) : b[1] = o
      BY HandlerMade, MessageDisposed, HandlerAt, KeptAt
    <3>3. \A b \in sync_connection_new(o) : b[1] = o
      BY <3>1, <3>2, StructsAt, BlocksAt
    <3> QED BY <2>2, <3>3, Zenon
  <2> QED BY <2>1, <2>2, Zenon
<1>5. Disposal(c)' \subseteq new
  <2>1. CASE server_kind = "async"
    <3>1. Disposal(c)' = (Handler(<<c, 0>>) \cup ActiveOutput(c))'
      BY <1>2, <2>1, Zenon DEF Disposal, async_handler_free, async_connection_destroy, Handler, Structs
    <3>2. ActiveOutput(c)' = {}
      BY <1>2, <1>3, Zenon DEF ActiveOutput
    <3> QED BY <2>1, <3>1, <3>2, HandlerMade, Zenon
  <2>2. CASE server_kind # "async"
    BY <1>2, <2>2, Zenon DEF Disposal, sync_connection_dispose, sync_connection_new, IOBuffer_dispose,
                      IOBuffer_new, Structs
  <2> QED BY <2>1, <2>2, Zenon
<1>6. server_kind = "async" =>
          \A b \in new : b[2] \notin MessageFields => b \in async_handler_free(c)'
  <2>1. async_handler_free(c)' = (Handler(<<c, 0>>) \cup ActiveOutput(c))'
    BY Zenon DEF async_handler_free, async_connection_destroy, Handler, Structs
  <2>2. \A b \in Message_new(<<c, 0>>) : b[2] \in MessageFields
    <3>1. \A b \in Message_new(<<c, 0>>) : b[2] \in {"Message", "headers", "target", "reason"}
      BY MessageDisposed, KeptAt
    <3> QED BY <3>1, Zenon DEF MessageFields
  <2> QED BY <2>1, <2>2, HandlerMade, Zenon
<1> HIDE DEF new
<1>7. Lives(c)' /\ ~Lives(c)
  BY <1>2, <1>3, Zenon DEF OwnTypeOK, Lives
<1>8. Held(c)' \subseteq heap'
  <2>1. Held(c)' = Disposal(c)'
    BY <1>2, <1>3, Zenon DEF Held, KeptOf
  <2> QED BY <1>2, <1>5, <2>1, Zenon
<1>9. \A b : b[1][1] # c => (b \in heap' <=> b \in heap)
  <2>1. \A b \in new : b[1][1] = c
    BY <1>4
  <2> QED BY <1>2, <2>1, Zenon
<1>10. server_kind = "async" =>
          \A b \in heap' : b[1][1] = c /\ b[2] \notin MessageFields =>
              Lives(c)' /\ b \in async_handler_free(c)'
  <2>1. ASSUME server_kind = "async", NEW b \in heap', b[1][1] = c, b[2] \notin MessageFields
        PROVE  Lives(c)' /\ b \in async_handler_free(c)'
    <3>1. b \notin heap
      BY <1>7, <2>1, RestOfOne, Zenon
    <3>2. b \in new
      BY <1>2, <2>1, <3>1, Zenon
    <3> QED BY <1>6, <1>7, <2>1, <3>2, Zenon
  <2> QED BY <2>1, Zenon
<1>11. HeldAreLive' /\ RestIsHeld'
  <2>1. \A d \in OwnConns \ {c} :
           /\ life'[d] = life[d] /\ current'[d] = current[d]
           /\ request_of'[d] = request_of[d] /\ writing_of'[d] = writing_of[d]
    BY <1>2, <1>3, Zenon DEF OwnTypeOK
  <2> QED BY <1>2, <1>8, <1>9, <1>10, <2>1, HeapOfOne, Zenon
<1>12. OwnTypeOK' /\ MessagesApart'
  <2>1. f \in Nat
    BY DEF Descriptors
  <2>2. OwnTypeOK'
    BY <1>1, <1>2, <1>3, <2>1, Zenon DEF OwnTypeOK
  <2>3. MessagesApart'
    BY <1>2, <1>3, Zenon DEF OwnTypeOK, MessagesApart
  <2> QED BY <2>2, <2>3, Zenon
<1>13. DescriptorsKept'
  <2>1. SUFFICES ASSUME \A p \in stolen : loop_of[p[1]] = loop_of[p[2]], NEW d \in OwnConns
                 PROVE  /\ stolen = {}
                        /\ Lives(d)' => fd_of'[d] \in Descriptors
                        /\ life'[d] = "open" => fd_table'[fd_of'[d]] = d
                        /\ life'[d] = "closing" =>
                              \A e \in OwnConns : fd_table'[fd_of'[d]] = e =>
                                  loop_of[e] # loop_of[d]
    BY <1>2, Zenon DEF DescriptorsKept
  <2>2. /\ stolen = {}
        /\ Lives(d) => fd_of[d] \in Descriptors
        /\ life[d] = "open" => fd_table[fd_of[d]] = d
        /\ life[d] = "closing" =>
              \A e \in OwnConns : fd_table[fd_of[d]] = e => loop_of[e] # loop_of[d]
    BY <1>3, <2>1, Zenon DEF DescriptorsKept
  <2>3. CASE d = c
    BY <1>1, <1>2, <1>3, <2>2, <2>3, Zenon DEF OwnTypeOK
  <2>4. CASE d # c
    <3>1. fd_of'[d] = fd_of[d] /\ life'[d] = life[d] /\ Lives(d)' = Lives(d)
      BY <1>1, <1>2, <1>3, <2>4, Zenon DEF OwnTypeOK, Lives
    <3>2. life[d] = "open" => fd_table'[fd_of[d]] = d
      <4>1. life[d] = "open" => fd_of[d] \in Descriptors /\ fd_of[d] # f
        BY <1>1, <2>2, OwnershipAssumption, Zenon DEF Lives
      <4> QED BY <1>1, <1>3, <2>2, <4>1, Zenon DEF OwnTypeOK
    <3>3. ASSUME life[d] = "closing", NEW e \in OwnConns, fd_table'[fd_of[d]] = e
          PROVE  loop_of[e] # loop_of[d]
      <4>1. fd_of[d] \in Descriptors /\ loop_of[d] # loop_of[c]
        BY <1>2, <2>2, <3>3, Zenon DEF Lives
      <4>2. CASE fd_of[d] = f
        BY <1>1, <1>3, <3>3, <4>1, <4>2, Zenon DEF OwnTypeOK
      <4>3. CASE fd_of[d] # f
        BY <1>1, <1>3, <2>2, <3>3, <4>1, <4>3, Zenon DEF OwnTypeOK
      <4> QED BY <4>2, <4>3, Zenon
    <3> QED BY <2>2, <3>1, <3>2, <3>3, Zenon
  <2> QED BY <2>3, <2>4, Zenon
<1> QED BY <1>2, <1>3, <1>11, <1>12, <1>13, Zenon DEF OwnershipInv

\* Nothing is allocated at first.
LEMMA OwnershipStarts ==
    ASSUME OwnershipInit
    PROVE  OwnershipInv
<1>1. /\ server_kind \in {"async", "sync"} /\ heap = {} /\ misuse = {} /\ stolen = {}
      /\ life = [c \in OwnConns |-> "none"] /\ nmsgs = [c \in OwnConns |-> 0]
      /\ current = nmsgs /\ request_of = nmsgs /\ writing_of = nmsgs /\ fd_of = nmsgs
      /\ fd_table = [f \in Descriptors |-> "free"]
  BY Zenon DEF OwnershipInit
<1>2. OwnTypeOK /\ MessagesApart
  BY <1>1 DEF OwnTypeOK, MessagesApart
<1>3. \A c \in OwnConns : life[c] = "none"
  BY <1>1, Zenon
<1>4. HeldAreLive /\ RestIsHeld /\ DescriptorsKept
  BY <1>1, <1>3, Zenon DEF HeldAreLive, RestIsHeld, DescriptorsKept, Lives
<1> QED BY <1>1, <1>2, <1>4, Zenon DEF OwnershipInv

\* Every step of every connection keeps the invariant.
LEMMA OwnershipSteps ==
    ASSUME OwnershipInv, [OwnershipNext]_ownVars
    PROVE  OwnershipInv'
<1>1. CASE OwnershipNext
  BY <1>1, AcceptInv, BeginInv, GrowsInv, CompleteInv, RequestInv, WrittenInv, FirstCloseInv,
     SecondCloseInv, WorkerInv, Zenon DEF OwnershipNext
<1>2. CASE UNCHANGED ownVars
  <2>1. UNCHANGED <<server_kind, heap, misuse, life, loop_of, nmsgs, current, request_of,
                    writing_of, fd_of, fd_table, stolen>>
    BY <1>2, Zenon DEF ownVars, msgVars, fdVars
  <2>2. \A c \in OwnConns : /\ Lives(c)' = Lives(c) /\ Held(c)' = Held(c)
                            /\ async_handler_free(c)' = async_handler_free(c)
    BY <2>1, Zenon DEF Lives, Held, Disposal, async_handler_free, async_connection_destroy, ActiveOutput
  <2>3. OwnTypeOK' /\ MessagesApart' /\ misuse' = {}
    BY <2>1, Zenon DEF OwnershipInv, OwnTypeOK, MessagesApart
  <2>4. HeldAreLive' /\ RestIsHeld'
    BY <2>1, <2>2, Zenon DEF OwnershipInv, HeldAreLive, RestIsHeld
  <2>5. DescriptorsKept'
    BY <2>1, SameDescriptors, Zenon DEF fdVars
  <2> QED BY <2>3, <2>4, <2>5, Zenon DEF OwnershipInv
<1> QED BY <1>1, <1>2, Zenon

\* For any number of connections, loops and messages: no block is freed twice or
\* before it exists, the disposal of an asynchronous connection leaves parts of
\* messages only, and as long as no close hits a descriptor across loops none
\* hits a foreign one.
THEOREM ConnectionsOwnOnce == OwnershipSpec => []OwnedOnce
<1>1. OwnershipInv => OwnedOnce
  <2> SUFFICES ASSUME OwnershipInv PROVE OwnedOnce
    BY Zenon
  <2>1. NothingFreedTwice
    BY Zenon DEF OwnershipInv, NothingFreedTwice
  <2>2. ClosedLeavesMessagesOnly
    <3>1. ASSUME server_kind = "async", NEW b \in heap, life[b[1][1]] = "closed",
                 b[2] \notin MessageFields
          PROVE  FALSE
      <4>1. Lives(b[1][1])
        BY <3>1, RestOfOne, Zenon
      <4> QED BY <3>1, <4>1, Zenon DEF Lives
    <3> QED BY <3>1, Zenon DEF ClosedLeavesMessagesOnly
  <2>3. StolenOnlyAcrossLoops
    BY Zenon DEF OwnershipInv, DescriptorsKept, StolenOnlyAcrossLoops
  <2> QED BY <2>1, <2>2, <2>3, Zenon DEF OwnedOnce
<1> QED BY <1>1, OwnershipStarts, OwnershipSteps, PTL DEF OwnershipSpec
=============================================================================
