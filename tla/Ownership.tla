------------------------------ MODULE Ownership ------------------------------
(***************************************************************************)
(* Who allocates and who frees.  A connection of either server, from       *)
(* accept to its disposal, as the set of blocks it has on the heap and the *)
(* descriptor it holds: http/message.c, header_list.c, kvpair.c and        *)
(* parser.c, common/iobuffer.c, buffer_chain.c and cbuffer.c,              *)
(* async/async_handler.c and connection_api.c, sync/sync_connection.c, and *)
(* the two applications' request handlers.                                 *)
(*                                                                         *)
(* A block is <<owner, field, part>>, where the owner is <<c, 0>> for the  *)
(* connection c itself and <<c, m>> for its m-th message.  X_new is the    *)
(* set of blocks that a constructor allocates, X_dispose the set that the  *)
(* destructor frees.  The headers of a message are one block, "KVPairs".   *)
(* Blocks that a function allocates and frees itself are left out.         *)
(***************************************************************************)
EXTENDS Naturals, FiniteSets, FiniteSetsExt

CONSTANTS OwnConns,     \* connections
          OwnLoops,     \* run loops (async) or workers (sync)
          MaxMessages   \* bound: MaxMessages[c] messages are allocated on c

ASSUME OwnershipAssumption ==
    /\ MaxMessages \in [OwnConns -> Nat]
    /\ "free" \notin OwnConns

VARIABLES server_kind,  \* "async" or "sync"
          heap,         \* live blocks
          misuse,       \* blocks freed while not live
          life,         \* life[c]: "none", "open", "closing" or "closed"
          loop_of,      \* the loop or worker that serves c
          nmsgs,        \* nmsgs[c]: messages allocated so far
          current,      \* parser.current_message_ptr; 0: NULL
          request_of,   \* the request read and not yet answered; 0: none
          writing_of,   \* the response whose serialised form is being written
          fd_of,        \* the descriptor of c
          fd_table,     \* fd_table[f]: the connection that f is; "free" if none
          stolen        \* <<a, b>>: closing a closed the descriptor of b

msgVars == <<nmsgs, current, request_of, writing_of>>
fdVars == <<fd_of, fd_table, stolen>>
ownVars == <<server_kind, heap, misuse, life, loop_of, msgVars, fdVars>>

Descriptors == 1 .. Cardinality(OwnConns)

OwnershipInit ==
    /\ server_kind \in {"async", "sync"}
    /\ heap = {} /\ misuse = {} /\ stolen = {}
    /\ life = [c \in OwnConns |-> "none"]
    /\ loop_of \in [OwnConns -> OwnLoops]
    /\ nmsgs = [c \in OwnConns |-> 0]
    /\ current = nmsgs /\ request_of = nmsgs /\ writing_of = nmsgs /\ fd_of = nmsgs
    /\ fd_table = [f \in Descriptors |-> "free"]

-----------------------------------------------------------------------------
\* The library's constructors and destructors.
Blocks(o, field, parts) == {o} \X {field} \X parts

Structs(o, names) == {o} \X names \X {"struct"}

Cbuffer_new(o, field) == Blocks(o, field, {"Cbuffer", "m_memPtr"})

Cbuffer_dispose(o, field) == Blocks(o, field, {"Cbuffer", "m_memPtr"})

IOBuffer_new(o, field) == Blocks(o, field, {"IOBuffer", "mem_p"})

IOBuffer_dispose(o, field) == Blocks(o, field, {"IOBuffer", "mem_p"})

BufferChain_new(o) == Blocks(o, "body", {"BufferChain", "m_chain"})

BufferChain_append(o) == Blocks(o, "body", {"ListNode", "IOBuffer", "mem_p"})

HdrList_new(o) == Blocks(o, "headers", {"List"})

KVPair_new(o) == Blocks(o, "headers", {"KVPairs"})

\* KVPair_dispose, for the pairs there are.
KVPair_dispose(o) == heap \cap Blocks(o, "headers", {"KVPairs"})

HdrList_dispose(o) == Blocks(o, "headers", {"List"}) \cup KVPair_dispose(o)

Message_new(o) ==
    Structs(o, {"Message"}) \cup HdrList_new(o) \cup Cbuffer_new(o, "target")
        \cup Cbuffer_new(o, "reason")

\* Message_dispose leaves the body.
Message_dispose(o) ==
    Structs(o, {"Message"}) \cup HdrList_dispose(o) \cup Cbuffer_dispose(o, "target")
        \cup Cbuffer_dispose(o, "reason")

ParserBuffers == {"m_status_buf", "m_url_buf", "m_name_buf", "m_value_buf"}

\* http_parser_initialize: the message it makes is dropped at once.
http_parser_initialize(o) ==
    Structs(o, {"m_llhttp_settings_ptr", "m_llhttp_ptr"}) \cup Message_new(o)

http_parser_new(o) ==
    Structs(o, {"http_parser_t"}) \cup http_parser_initialize(o)
        \cup UNION {Cbuffer_new(o, b) : b \in ParserBuffers}

\* http_parser_dispose leaves current_message_ptr.
http_parser_dispose(o) ==
    Structs(o, {"http_parser_t", "m_llhttp_settings_ptr", "m_llhttp_ptr"})
        \cup UNION {Cbuffer_dispose(o, b) : b \in ParserBuffers}

-----------------------------------------------------------------------------
\* The connections of the two servers; o is <<c, 0>>.  The input buffer is
\* made by the first reader, which async_handler_init runs.
async_connection_new(o) ==
    Structs(o, {"AsyncConnection", "RtorStream"}) \cup http_parser_new(o)
        \cup IOBuffer_new(o, "active_input_buffer_ref")

async_handler_new(o) ==
    Structs(o, {"AsyncHandler", "input_list", "output_list"}) \cup async_connection_new(o)

\* The serialised response, if one is being written.
ActiveOutput(c) ==
    IF writing_of[c] = 0 THEN {}
    ELSE IOBuffer_dispose(<<c, writing_of[c]>>, "active_output_buffer_ref")

async_connection_destroy(c) ==
    Structs(<<c, 0>>, {"AsyncConnection", "RtorStream"}) \cup http_parser_dispose(<<c, 0>>)
        \cup ActiveOutput(c) \cup IOBuffer_dispose(<<c, 0>>, "active_input_buffer_ref")

async_handler_free(c) ==
    Structs(<<c, 0>>, {"AsyncHandler", "input_list", "output_list"})
        \cup async_connection_destroy(c)

sync_connection_new(o) ==
    Structs(o, {"sync_connection_t", "input_list"}) \cup http_parser_new(o)
        \cup IOBuffer_new(o, "m_iobuffer")

\* sync_connection_dispose frees neither the parser nor input_list.
sync_connection_dispose(o) ==
    Structs(o, {"sync_connection_t"}) \cup IOBuffer_dispose(o, "m_iobuffer")

-----------------------------------------------------------------------------
\* One step allocates some blocks and frees others.
HeapStep(new, freed) ==
    /\ heap' = (heap \ freed) \cup new
    /\ misuse' = misuse \cup (freed \ heap)

\* A loop that is in the middle of a disposal does nothing else.
Idle(t) == \A c \in OwnConns : loop_of[c] = t => life[c] # "closing"

Takes(c) ==
    /\ life[c] = "none"
    /\ \E f \in Descriptors :
          /\ fd_table[f] = "free"
          /\ \A g \in Descriptors : fd_table[g] = "free" => f <= g
          /\ fd_of' = [fd_of EXCEPT ![c] = f]
          /\ fd_table' = [fd_table EXCEPT ![f] = c]
    /\ life' = [life EXCEPT ![c] = "open"]
    /\ HeapStep(IF server_kind = "async" THEN async_handler_new(<<c, 0>>)
                                         ELSE sync_connection_new(<<c, 0>>), {})
    /\ UNCHANGED <<server_kind, loop_of, msgVars, stolen>>

\* accept gives the lowest free descriptor.
Accept(c) == Idle(loop_of[c]) /\ Takes(c)

Serves(c) == life[c] = "open" /\ Idle(loop_of[c])

\* The parser is run between a response and the next request; one buffer may
\* hold more than one message.
Parses(c) == Serves(c) /\ writing_of[c] = 0

NewMessage(c) == nmsgs[c] + 1

\* message_begin_cb: current_message_ptr is replaced.
message_begin_cb(c) ==
    /\ Parses(c)
    /\ nmsgs[c] < MaxMessages[c]
    /\ HeapStep(Message_new(<<c, NewMessage(c)>>),
                IF current[c] = 0 THEN {} ELSE Message_dispose(<<c, current[c]>>))
    /\ nmsgs' = [nmsgs EXCEPT ![c] = NewMessage(c)]
    /\ current' = [current EXCEPT ![c] = NewMessage(c)]
    /\ UNCHANGED <<server_kind, life, loop_of, request_of, writing_of, fdVars>>

\* Headers and body arrive: Message_add_header_cbuf, body_data_cb.
MessageGrows(c) ==
    /\ Parses(c) /\ current[c] # 0
    /\ LET m == <<c, current[c]>>
       IN \E part \in {KVPair_new(m), BufferChain_new(m) \cup BufferChain_append(m)} :
             /\ part \cap heap = {}
             /\ HeapStep(part, {})
    /\ UNCHANGED <<server_kind, life, loop_of, msgVars, fdVars>>

\* Faulty form of message_complete_cb: the parser keeps the message it hands
\* over and will dispose of it at the next message_begin_cb.
message_complete_cbShared(c) ==
    /\ Parses(c) /\ current[c] # 0
    /\ server_kind = "sync" => request_of[c] = 0
    /\ request_of' = [request_of EXCEPT ![c] = current[c]]
    /\ UNCHANGED <<server_kind, heap, misuse, life, loop_of, nmsgs, current,
                   writing_of, fdVars>>

\* message_complete_cb hands the message over and makes a new one.  The
\* asynchronous connection keeps the last message of a buffer, the synchronous
\* one keeps them in input_list, of which the model looks at one at a time.
message_complete_cb(c) ==
    /\ Parses(c) /\ current[c] # 0
    /\ server_kind = "sync" => request_of[c] = 0
    /\ nmsgs[c] < MaxMessages[c]
    /\ request_of' = [request_of EXCEPT ![c] = current[c]]
    /\ HeapStep(Message_new(<<c, NewMessage(c)>>), {})
    /\ nmsgs' = [nmsgs EXCEPT ![c] = NewMessage(c)]
    /\ current' = [current EXCEPT ![c] = NewMessage(c)]
    /\ UNCHANGED <<server_kind, life, loop_of, writing_of, fdVars>>

\* echo_body_buffer_chain: the serialised request, which is copied into the
\* echo, is not freed.
echo_body_buffer_chain(m, r) ==
    IOBuffer_new(m, "serialized") \cup BufferChain_new(r) \cup BufferChain_append(r)

simple_response_body(r) == BufferChain_new(r) \cup BufferChain_append(r)

\* app_handler_example: the response, and the copy of the target that
\* Message_get_target_cbuffer makes, which is not freed.
app_handler_example(m, r, body) ==
    Message_new(r) \cup KVPair_new(r) \cup Cbuffer_new(m, "target copy") \cup body

\* process_request (async) and the worker's loop (sync): the handler reads the
\* request, and the response is serialised and written.  Neither message is
\* disposed of.
process_request(c) ==
    /\ Serves(c) /\ request_of[c] # 0 /\ nmsgs[c] < MaxMessages[c]
    /\ LET m == <<c, request_of[c]>>
           r == <<c, NewMessage(c)>>
       IN \E body \in {echo_body_buffer_chain(m, r), simple_response_body(r)} :
             /\ heap' = heap \cup app_handler_example(m, r, body)
                             \cup IOBuffer_new(r, "active_output_buffer_ref")
             /\ misuse' = misuse \cup (Message_dispose(m) \ heap)
    /\ nmsgs' = [nmsgs EXCEPT ![c] = NewMessage(c)]
    /\ writing_of' = [writing_of EXCEPT ![c] = NewMessage(c)]
    /\ request_of' = [request_of EXCEPT ![c] = 0]
    /\ UNCHANGED <<server_kind, life, loop_of, current, fdVars>>

\* The last byte is written: the asynchronous writer disposes of the buffer,
\* sync_connection_write does not.
Written(c) ==
    /\ Serves(c) /\ writing_of[c] # 0
    /\ HeapStep({}, IF server_kind = "async" THEN ActiveOutput(c) ELSE {})
    /\ writing_of' = [writing_of EXCEPT ![c] = 0]
    /\ UNCHANGED <<server_kind, life, loop_of, nmsgs, current, request_of, fdVars>>

\* close(f) on behalf of connection c.
close(c, f) ==
    /\ fd_table' = [fd_table EXCEPT ![f] = "free"]
    /\ stolen' = IF fd_table[f] \in {"free", c} THEN stolen ELSE stolen \cup {<<c, fd_table[f]>>}
    /\ UNCHANGED fd_of

\* async_handler_free, first part: rtor_stream_free closes the descriptor.
rtor_stream_free(c) ==
    /\ server_kind = "async" /\ Serves(c)
    /\ close(c, fd_of[c])
    /\ life' = [life EXCEPT ![c] = "closing"]
    /\ UNCHANGED <<server_kind, heap, misuse, loop_of, msgVars>>

\* async_handler_free, second part: async_connection_close closes it again.
async_connection_close(c) ==
    /\ life[c] = "closing"
    /\ close(c, fd_of[c])
    /\ HeapStep({}, async_handler_free(c))
    /\ life' = [life EXCEPT ![c] = "closed"]
    /\ UNCHANGED <<server_kind, loop_of, msgVars>>

\* The worker disposes of its connection; the descriptor stays open.
WorkerDisposes(c) ==
    /\ server_kind = "sync" /\ Serves(c) /\ request_of[c] = 0
    /\ HeapStep({}, sync_connection_dispose(<<c, 0>>))
    /\ life' = [life EXCEPT ![c] = "closed"]
    /\ UNCHANGED <<server_kind, loop_of, msgVars, fdVars>>

OwnershipNext ==
    \E c \in OwnConns :
        Accept(c) \/ message_begin_cb(c) \/ MessageGrows(c) \/ message_complete_cb(c)
        \/ process_request(c) \/ Written(c) \/ rtor_stream_free(c)
        \/ async_connection_close(c) \/ WorkerDisposes(c)

OwnershipSpec == OwnershipInit /\ [][OwnershipNext]_ownVars

-----------------------------------------------------------------------------
\* No block is freed twice or before it exists, and a request handler only
\* reads messages that are live (message.c:80, parser.c:201-206, 394-396).
NothingFreedTwice == misuse = {}

\* What http_parser_new and the application leave of a message.
MessageFields == {"Message", "headers", "target", "reason", "body", "target copy", "serialized"}

\* A closed connection of the asynchronous server leaves messages, bodies and
\* their copies behind, and none of its own structures or buffers; every
\* path to the disposal frees them all (async_handler.c:65-74,
\* connection_api.c:48-68).
ClosedLeavesMessagesOnly ==
    server_kind = "async" =>
        \A b \in heap : life[b[1][1]] = "closed" => b[2] \in MessageFields

\* The descriptor is closed twice (w_stream.c:60, connection_api.c:76).  As
\* long as no loop has hit a descriptor that another loop accepted in between,
\* and so always in the build with a single loop, every open connection keeps
\* its descriptor and no close hits a foreign one.
StolenOnlyAcrossLoops ==
    (\A p \in stolen : loop_of[p[1]] = loop_of[p[2]]) =>
        /\ stolen = {}
        /\ \A c \in OwnConns : life[c] = "open" => fd_table[fd_of[c]] = c

\* Every block and every descriptor has one owner, which releases it once: what
\* remains of a closed connection is its messages, and a close hits a foreign
\* descriptor only across loops.
OwnedOnce ==
    /\ NothingFreedTwice
    /\ ClosedLeavesMessagesOnly
    /\ StolenOnlyAcrossLoops
=============================================================================
