------------------------------ MODULE Message ------------------------------
(***************************************************************************)
(* HTTP messages as values: http_in_c/http/kvpair.c (a header),            *)
(* header_list.c (the headers of a message, in order), message.c, and the  *)
(* request handler that both server applications use                       *)
(* (http_in_c/sync/sync_handler_example.c).                                *)
(*                                                                         *)
(* A text is a sequence of letters; upper and lower case are told apart,   *)
(* since header labels are stored in upper case.  A serialized message is  *)
(* a sequence of its parts.                                                *)
(***************************************************************************)
EXTENDS Integers, Sequences, SequencesExt

CONSTANT NotSet      \* NULL, or the value of a field nobody has set

Letters == {"e", "E", "l"}      \* the letters header names are made of
lower == <<"e", "l">>
upper == <<"E", "L">>

\* The names HEADER_ECHO_ID and "Content-length", and the target "/echo".
EchoId == <<"E">>
ContentLength == <<"L">>
EchoTarget == <<"e">>

toupper(c) == IF c \in ToSet(lower) THEN upper[CHOOSE i \in DOMAIN lower : lower[i] = c] ELSE c
make_upper(s) == [i \in DOMAIN s |-> toupper(s[i])]

-----------------------------------------------------------------------------
(* kvpair.c and header_list.c *)

KVPair_new(label, value) == [label |-> make_upper(label), value |-> value]
KVPair_set_value(kv, value) == [kv EXCEPT !.value = value]

HdrList_new == << >>
HdrList_add_back(l, kv) == Append(l, kv)
HdrList_add_front(l, kv) == <<kv>> \o l
HdrList_add_cbuf(l, key, value) == HdrList_add_back(l, KVPair_new(key, value))
HdrList_add_cstr(l, key, value) == HdrList_add_back(l, KVPair_new(key, value))
HdrList_add_line(l, key, value) == HdrList_add_front(l, KVPair_new(key, value))
HdrList_add_arr(l, pairs) == FoldLeft(LAMBDA h, p : HdrList_add_cstr(h, p[1], p[2]), l, pairs)

\* The position of the first header with the key, 0 when there is none.
HdrList_find_iter(l, key) == SelectInSeq(l, LAMBDA kv : kv.label = make_upper(key))

HdrList_find(l, key) ==
    IF HdrList_find_iter(l, key) = 0 THEN NotSet ELSE l[HdrList_find_iter(l, key)]

\* Faulty form of HdrList_remove: every header of that name.
HdrList_removeAll(l, key) == SelectSeq(l, LAMBDA kv : kv.label # make_upper(key))

HdrList_remove(l, key) ==
    IF HdrList_find_iter(l, key) = 0 THEN l ELSE RemoveAt(l, HdrList_find_iter(l, key))

-----------------------------------------------------------------------------
(* message.c *)

\* is_request and status_code are not initialized.
Message_new ==
    [body |-> NotSet, headers |-> HdrList_new, is_request |-> NotSet, status_code |-> NotSet,
     reason |-> << >>, target |-> << >>]

Message_new_response == [Message_new EXCEPT !.is_request = FALSE]

Message_set_is_request(m, yn) == [m EXCEPT !.is_request = yn]
Message_set_status(m, status) == [m EXCEPT !.status_code = status]
Message_add_header_cstring(m, key, value) ==
    [m EXCEPT !.headers = HdrList_add_cstr(@, key, value)]
Message_add_header_cbuf(m, key, value) ==
    [m EXCEPT !.headers = HdrList_add_cbuf(@, key, value)]
Message_set_body(m, body) == [m EXCEPT !.body = body]

\* The assertion of the setters of target and reason: set once only.
SetOnce(text) == text = << >>
Message_set_target_cbuffer(m, target) == [m EXCEPT !.target = @ \o target]
Message_set_reason_cbuffer(m, reason) == [m EXCEPT !.reason = @ \o reason]
Message_set_reason(m, reason) == [m EXCEPT !.reason = @ \o reason]

Message_get_header_value(m, key) ==
    IF HdrList_find(m.headers, key) = NotSet THEN NotSet ELSE HdrList_find(m.headers, key).value

\* 1, 0 or -1: equal in any case, different, no such header.
Message_cmp_header(m, key, value) ==
    IF HdrList_find(m.headers, key) = NotSet THEN -1
    ELSE IF make_upper(HdrList_find(m.headers, key).value) = make_upper(value) THEN 1 ELSE 0

Message_set_content_length(m, length) ==
    LET i == HdrList_find_iter(m.headers, ContentLength)
    IN  IF i = 0 THEN [m EXCEPT !.headers = HdrList_add_cstr(@, ContentLength, length)]
        ELSE [m EXCEPT !.headers[i] = KVPair_set_value(@, length)]

\* First line, header lines, empty line, body.
Message_serialize(m) ==
    <<IF m.is_request THEN <<"request", m.target>> ELSE <<"response", m.status_code, m.reason>> >>
        \o m.headers \o << "\r\n" >> \o (IF m.body = NotSet THEN << >> ELSE m.body)

-----------------------------------------------------------------------------
(* The request handler *)

SimpleBody == <<"simple">>      \* simple_response_body

echo_body_buffer_chain(request) == Message_serialize(request)

app_handler_example(request) ==
    LET echo == request.target = EchoTarget
        id == Message_get_header_value(request, EchoId)
        fresh == Message_new_response
        identified == IF echo /\ id # NotSet
                      THEN Message_add_header_cstring(fresh, EchoId, id) ELSE fresh
        body == IF echo THEN echo_body_buffer_chain(request) ELSE SimpleBody
        ok == Message_set_reason(Message_set_status(identified, 200), <<"O", "K">>)
        typed == Message_add_header_cstring(ok, <<"T", "y">>, <<"html">>)
    IN  Message_set_content_length(Message_set_body(typed, body), Len(body))
=============================================================================
