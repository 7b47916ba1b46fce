---------------------------- MODULE HttpParser ----------------------------
(***************************************************************************)
(* http_in_c/http/parser.c: the callbacks that put a message together from *)
(* the pieces of it that llhttp finds in the buffers given to              *)
(* http_parser_consume.                                                    *)
(*                                                                         *)
(* llhttp is external (src/vendor) and modelled by the order in which it   *)
(* makes its callbacks: where a buffer ends is arbitrary, so any text may  *)
(* come in one or several pieces, and one buffer may hold several          *)
(* messages.  A piece is one letter here; the value of a header may be     *)
(* empty and comes as an empty piece then.                                 *)
(***************************************************************************)
EXTENDS Message

CONSTANTS MaxHeaders,   \* bound: headers and trailers of a message
          MaxPieces     \* bound: pieces of one text

VARIABLES llhttp,       \* where llhttp is in the message
          parser,       \* the http_parser_t
          delivered,    \* the message last given to on_message_handler
          aborted,      \* an assertion has failed
          sent          \* history: the message the peer is sending or has sent last

parserVars == <<llhttp, parser, delivered, aborted, sent>>

\* http_parser_new and http_parser_initialize.
http_parser_new ==
    [header_state |-> "nothing", status_buf |-> << >>, url_buf |-> << >>,
     name_buf |-> << >>, value_buf |-> << >>, message |-> NotSet]

HttpParserInit ==
    /\ llhttp = "idle"
    /\ parser = http_parser_new
    /\ delivered = NotSet
    /\ aborted = FALSE
    /\ sent = [request |-> TRUE, start |-> << >>, headers |-> << >>,
               body |-> << >>, trailers |-> << >>]

\* In header_field_data_cb and headers_complete_cb: a complete header is added.
AddPendingHeader(p) ==
    IF p.name_buf = << >> THEN p
    ELSE [p EXCEPT !.message = Message_add_header_cbuf(@, p.name_buf, p.value_buf),
                   !.name_buf = << >>, !.value_buf = << >>]

\* Faulty form of message_begin_cb: the buffers of the message before stay.
message_begin_cbUncleared == [parser EXCEPT !.message = Message_new]

\* header_state is left as it is.
message_begin_cb ==
    [http_parser_new EXCEPT !.header_state = parser.header_state, !.message = Message_new]

OnMessageBegin ==
    /\ llhttp = "idle"
    /\ llhttp' \in {"url", "status"}
    /\ parser' = message_begin_cb
    /\ sent' = [request |-> llhttp' = "url", start |-> << >>, headers |-> << >>,
                body |-> << >>, trailers |-> << >>]
    /\ delivered' = NotSet
    /\ UNCHANGED aborted

\* url_data_cb
OnUrl(c) ==
    /\ llhttp = "url"
    /\ Len(sent.start) < MaxPieces
    /\ parser' = [parser EXCEPT !.message = Message_set_is_request(@, TRUE),
                                !.url_buf = Append(@, c)]
    /\ sent' = [sent EXCEPT !.start = Append(@, c)]
    /\ UNCHANGED <<llhttp, delivered, aborted>>

\* status_data_cb: the text so far becomes the reason of the message.
OnStatus(c) ==
    LET buf == Append(parser.status_buf, c)
        message == Message_set_status(Message_set_is_request(parser.message, FALSE), 200)
    IN  /\ llhttp = "status"
        /\ Len(sent.start) < MaxPieces
        /\ aborted' = ~SetOnce(message.reason)
        /\ parser' = [parser EXCEPT !.status_buf = buf,
                                    !.message = Message_set_reason_cbuffer(message, buf)]
        /\ sent' = [sent EXCEPT !.start = Append(@, c)]
        /\ UNCHANGED <<llhttp, delivered>>

\* header_field_data_cb, for a header of the message or a trailer.
header_field_data_cb(c) ==
    LET p == IF parser.header_state = "field" THEN parser ELSE AddPendingHeader(parser)
    IN  [p EXCEPT !.name_buf = Append(@, c), !.header_state = "field"]

\* A name begins after the first line, after a value and, in a trailer, after a body.
OnHeaderField(c) ==
    LET list == IF llhttp \in {"trailer name", "trailer value", "body"}
                THEN "trailers" ELSE "headers"
        begins == llhttp \in {"url", "status", "value", "body", "trailer value"}
        sofar == sent[list]
    IN  /\ llhttp \in {"url", "status", "name", "value", "body", "trailer name", "trailer value"}
        /\ llhttp = "url" => sent.start # << >>
        /\ IF begins
           THEN /\ Len(sent.headers \o sent.trailers) < MaxHeaders
                /\ sent' = [sent EXCEPT ![list] = Append(@, <<<<c>>, << >>>>)]
           ELSE /\ Len(Last(sofar)[1]) < MaxPieces
                /\ sent' = [sent EXCEPT ![list][Len(sofar)][1] = Append(@, c)]
        /\ parser' = header_field_data_cb(c)
        /\ llhttp' = IF list = "headers" THEN "name" ELSE "trailer name"
        /\ UNCHANGED <<delivered, aborted>>

header_value_data_cb(piece) ==
    [parser EXCEPT !.value_buf = IF parser.header_state = "field" THEN piece ELSE @ \o piece,
                   !.header_state = "value"]

OnHeaderValue(piece) ==
    LET list == IF llhttp \in {"name", "value"} THEN "headers" ELSE "trailers"
        sofar == sent[list]
    IN  /\ llhttp \in {"name", "value", "trailer name", "trailer value"}
        /\ llhttp \in {"value", "trailer value"} => piece # << >> /\ Last(sofar)[2] # << >>
        /\ Len(Last(sofar)[2]) + Len(piece) <= MaxPieces
        /\ sent' = [sent EXCEPT ![list][Len(sofar)][2] = @ \o piece]
        /\ parser' = header_value_data_cb(piece)
        /\ llhttp' = IF list = "headers" THEN "value" ELSE "trailer value"
        /\ UNCHANGED <<delivered, aborted>>

headers_complete_cb ==
    LET p == AddPendingHeader(parser)
    IN  IF p.url_buf = << >> THEN p
        ELSE [p EXCEPT !.message = Message_set_target_cbuffer(@, p.url_buf)]

OnHeadersComplete ==
    /\ llhttp \in {"url", "status", "value"}
    /\ llhttp = "url" => sent.start # << >>
    /\ llhttp' = "body"
    /\ parser' = headers_complete_cb
    /\ UNCHANGED <<delivered, aborted, sent>>

\* body_data_cb
OnBody(c) ==
    /\ llhttp = "body"
    /\ Len(sent.body) < MaxPieces
    /\ parser' = [parser EXCEPT !.message.body = IF @ = NotSet THEN <<c>> ELSE Append(@, c)]
    /\ sent' = [sent EXCEPT !.body = Append(@, c)]
    /\ UNCHANGED <<llhttp, delivered, aborted>>

\* message_complete_cb: a new message takes the place of the one handed over.
OnMessageComplete ==
    /\ llhttp \in {"body", "trailer value"}
    /\ llhttp' = "idle"
    /\ delivered' = parser.message
    /\ parser' = [parser EXCEPT !.message = Message_new]
    /\ UNCHANGED <<aborted, sent>>

HttpParserNext ==
    /\ ~aborted
    /\ \/ OnMessageBegin
       \/ OnHeadersComplete
       \/ OnMessageComplete
       \/ \E c \in {"e", "a"} : OnUrl(c)
       \/ OnStatus("e")
       \/ OnBody("e")
       \/ \E c \in Letters : OnHeaderField(c)
       \/ \E piece \in {<< >>, <<"e">>} : OnHeaderValue(piece)

-----------------------------------------------------------------------------
(* Properties *)

\* What the parser makes of a message: the last trailer is never added.
Parsed(s) ==
    LET kept == s.headers \o (IF s.trailers = << >> THEN << >> ELSE Front(s.trailers))
    IN  [body |-> IF s.body = << >> THEN NotSet ELSE s.body,
         headers |-> [i \in DOMAIN kept |-> KVPair_new(kept[i][1], kept[i][2])],
         is_request |-> s.request, status_code |-> IF s.request THEN NotSet ELSE 200,
         reason |-> IF s.request THEN << >> ELSE s.start,
         target |-> IF s.request THEN s.start ELSE << >>]

\* The message handed over is the message sent, wherever its pieces were cut and
\* whatever came before it on the connection: nothing of an earlier message or
\* header stays in the buffers of the parser.  A response without a reason is
\* the exception: status_data_cb never runs, and is_request and status_code are
\* what Message_new found in memory.
DeliveredAsSent ==
    delivered # NotSet /\ (sent.request \/ sent.start # << >>) => delivered = Parsed(sent)

\* A header that was sent is found under its name in upper or lower case, with
\* the value of the first header of that name, which is what Message_cmp_header
\* compares; no other is found.
FoundInAnyCase ==
    delivered # NotSet => \A i \in DOMAIN sent.headers :
        LET name == sent.headers[i][1]
            same == SelectSeq(sent.headers, LAMBDA h : make_upper(h[1]) = make_upper(name))
        IN  /\ Message_get_header_value(delivered, name) = same[1][2]
            /\ Message_cmp_header(delivered, name, same[1][2]) = 1
            /\ Message_cmp_header(delivered, <<"?">>, same[1][2]) = -1

\* An assertion fails on no input but a reason that arrives in two pieces: each
\* piece makes status_data_cb set the reason, which may be set only once.
AbortsOnSplitReason == aborted => ~sent.request /\ Len(sent.start) > 1

\* The reply to a request announces the length of the body it carries, once, and
\* repeats the Echo-id of an echo request, so that the client can tell whose
\* reply it is.
ReplyMatchesRequest ==
    delivered # NotSet /\ sent.request =>
        LET reply == app_handler_example(delivered)
            announced == SelectSeq(reply.headers, LAMBDA kv : kv.label = make_upper(ContentLength))
        IN  /\ Len(announced) = 1 /\ announced[1].value = Len(reply.body)
            /\ delivered.target = EchoTarget =>
                    Message_get_header_value(reply, EchoId) = Message_get_header_value(delivered, EchoId)

\* Of several headers with one name, in any case, HdrList_remove takes out the
\* first and leaves everything else in order, HdrList_add_line puts one before
\* and HdrList_add_arr after the others, and Message_set_content_length ends with
\* the new length in the header that a lookup finds, without adding a second one.
HeaderEdits ==
    delivered # NotSet => \A key \in {EchoId, make_upper(<<"l">>), <<"l">>} :
        LET l == delivered.headers
            Of(list) == SelectSeq(list, LAMBDA kv : kv.label = make_upper(key))
            Others(list) == SelectSeq(list, LAMBDA kv : kv.label # make_upper(key))
            measured == Message_set_content_length(delivered, 7)
        IN  /\ Of(HdrList_remove(l, key)) = IF Of(l) = << >> THEN << >> ELSE Tail(Of(l))
            /\ Others(HdrList_remove(l, key)) = Others(l)
            /\ HdrList_find(HdrList_add_line(l, key, "new"), key).value = "new"
            /\ Of(HdrList_add_arr(l, <<<<key, "new">>, <<key, "newer">>>>))
                    = Of(l) \o <<KVPair_new(key, "new"), KVPair_new(key, "newer")>>
            /\ make_upper(key) = make_upper(ContentLength) =>
                    /\ Message_get_header_value(measured, key) = 7
                    /\ Len(Of(measured.headers)) = IF Of(l) = << >> THEN 1 ELSE Len(Of(l))
                    /\ Others(measured.headers) = Others(l)

\* Wherever a message was cut, the callbacks of parser.c hand over what was sent,
\* with headers that are found under their names, or fail for the one reason
\* they may.
MessageAsSent == DeliveredAsSent /\ FoundInAnyCase /\ AbortsOnSplitReason

\* The headers a handler edits say what it meant, and those of its reply say
\* what the reply carries.
HeadersAsMeant == HeaderEdits /\ ReplyMatchesRequest
=============================================================================
