---------------------------- MODULE DemoParser ----------------------------
(***************************************************************************)
(* http_in_c/demo_protocol/demo_parser.c and demo_message.c: the frames of *)
(* the demo protocol,                                                      *)
(*     SOH ('Q' or 'R') STX body ETX LRC EOT                               *)
(* where EOT is skipped like anything else before the next SOH.            *)
(*                                                                         *)
(* "Q" and "R" are the letters; "x" and "y" are other printable bytes.  A  *)
(* message is its body: its opcode is stored, and looked at by nobody.     *)
(***************************************************************************)
EXTENDS Integers, Sequences

CONSTANT NULL

Printable == {"Q", "R", "x", "y"}
Bytes == Printable \cup {"SOH", "STX", "ETX", "EOT"}
ParserStates == {"idle", "opcode", "stx", "body", "lrc", "error"}

demo_message_new == << >>

demo_message_serialize(opcode, m) == <<"SOH", opcode, "STX">> \o m \o <<"ETX", "x", "EOT">>

\* demo_process_request.c: the reply is a response with the request's body.
process_request(request) == demo_message_new \o request

DemoParser_new == [state |-> "idle", message |-> demo_message_new]

\* Faulty form of NextState: the end of a message does not reset the state.
NextStateNotReset ==
    [s \in ParserStates, ch \in Bytes |->
        CASE s \in {"idle", "error"} -> IF ch = "SOH" THEN "opcode" ELSE s
          [] s = "opcode" -> IF ch \in {"Q", "R"} THEN "stx" ELSE "error"
          [] s = "stx" -> IF ch = "STX" THEN "body" ELSE "error"
          [] s = "body" -> IF ch \in Printable THEN "body" ELSE IF ch = "ETX" THEN "lrc" ELSE "error"
          [] s = "lrc" -> "lrc"]

\* The switch over m_state.
NextState ==
    [s \in ParserStates, ch \in Bytes |->
        CASE s \in {"idle", "error"} -> IF ch = "SOH" THEN "opcode" ELSE s
          [] s = "opcode" -> IF ch \in {"Q", "R"} THEN "stx" ELSE "error"
          [] s = "stx" -> IF ch = "STX" THEN "body" ELSE "error"
          [] s = "body" -> IF ch \in Printable THEN "body" ELSE IF ch = "ETX" THEN "lrc" ELSE "error"
          [] s = "lrc" -> "idle"]

\* m with the bytes at the places in body added to it.
Added(m, bytes, body) ==
    LET added[i \in 0..Len(bytes)] ==
            IF i = 0 THEN m ELSE IF i \in body THEN Append(added[i - 1], bytes[i]) ELSE added[i - 1]
    IN  added[Len(bytes)]

\* DemoParser_consume(p, bytes) reads bytes until a message is complete, until their
\* last one while it looks for SOH after an error, or until their end.  In the first
\* two cases on_message_complete is called (done), with the message or with NULL.
\* The next message then starts empty; one that error recovery found an SOH for
\* goes on where the broken one was left.
DemoParser_consume(p, bytes) ==
    LET length == Len(bytes)
        state[i \in 0..length] == IF i = 0 THEN p.state ELSE NextState[state[i - 1], bytes[i]]
        Stops(i) == state[i - 1] = "lrc" \/ (state[i - 1] = "error" /\ i = length)
        stops == {i \in 1..length : Stops(i)}
        used == IF stops = {} THEN length ELSE CHOOSE i \in stops : \A j \in stops : i <= j
        body == {i \in 1..used : state[i - 1] = "body" /\ bytes[i] \in Printable}
        message == Added(p.message, bytes, body)
        broken == stops # {} /\ state[used - 1] = "error"
    IN  [used |-> used,
         done |-> stops # {},
         message |-> IF stops = {} \/ broken THEN NULL ELSE message,
         p |-> [state |-> IF broken THEN "error" ELSE state[used],
                message |-> IF stops = {} THEN message ELSE demo_message_new]]
=============================================================================
