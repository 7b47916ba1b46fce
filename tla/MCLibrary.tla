---------------------------- MODULE MCLibrary ----------------------------
(***************************************************************************)
(* The library under the servers: each behaviour exercises one part of it, *)
(* while the others stay as they were made.  The parts are the data        *)
(* structures and parsers, and the code around sockets and connections     *)
(* that has no process of its own.                                         *)
(***************************************************************************)
EXTENDS LinkedList, BufferChain, Cbuffer, HttpParser, UrlParser,
        SocketHelpers, OldServer, OldConnection, InterthreadQueue, ReadyList

VARIABLE part

UrlBeginnings ==
    { <<"/">>, <<"a", ":", "1">>, <<"a", ":", "/", "/">>, <<"a", ":", "/", "/", "a", "@">>,
      <<"a", ":", "/", "/", "[", "a">>, <<"a", ":", "/", "/", "a", ":", "1">>, <<"/", "a", "?", "a", "#">>,
      <<"/">> \o [i \in 1..9 |-> "a"], <<"a", ":", "/", "/">> \o [i \in 1..7 |-> "g"] }

\* Whole requests, a request that breaks off, and one that is malformed.
MCRequests == { <<"blank", "part", "end">>, <<"part", "bad">>, <<"end", "part">> }
MCSends == { <<"req", "req", "req">>, <<"req", "bad">>, <<"bad", "req">> }

dataVars == <<listVars, iobVars, chainVars, cbufVars, parserVars, urlVars>>
connVars == <<socketVars, oldVars, oconnVars, itqVars, readyVars>>
libraryVars == <<dataVars, connVars, part>>

Init ==
    /\ part \in {"list", "iobuffer", "chain", "cbuffer", "parser", "url",
                 "socket", "server", "connection", "queue", "ready"}
    /\ ListInit /\ IOBufferInit /\ BufferChainInit /\ CbufferInit
    /\ HttpParserInit /\ UrlInit
    /\ SocketHelpersInit /\ OldInit /\ OldConnectionInit /\ InterthreadQueueInit /\ ReadyInit
    /\ part # "server" => tosend = [c \in OldConns |-> <<"part", "bad">>]
    /\ part # "connection" => csend = <<"req", "bad">>
    /\ part # "queue" => itq.queue_mutex = "free"

DataNext ==
    \/ /\ part = "list"
       /\ ListNext
       /\ UNCHANGED <<iobVars, chainVars, cbufVars, parserVars, urlVars>>
    \/ /\ part = "iobuffer"
       /\ IOBufferNext
       /\ UNCHANGED <<listVars, chainVars, cbufVars, parserVars, urlVars>>
    \/ /\ part = "chain"
       /\ BufferChainNext
       /\ UNCHANGED <<listVars, iobVars, cbufVars, parserVars, urlVars>>
    \/ /\ part = "cbuffer"
       /\ CbufferNext
       /\ UNCHANGED <<listVars, iobVars, chainVars, parserVars, urlVars>>
    \/ /\ part = "parser"
       /\ HttpParserNext
       /\ UNCHANGED <<listVars, iobVars, chainVars, cbufVars, urlVars>>
    \/ /\ part = "url"
       /\ UrlNext
       /\ UNCHANGED <<listVars, iobVars, chainVars, cbufVars, parserVars>>

ConnectionNext ==
    \/ /\ part = "socket"
       /\ SocketHelpersNext
       /\ UNCHANGED <<oldVars, oconnVars, itqVars, readyVars>>
    \/ /\ part = "server"
       /\ OldNext
       /\ UNCHANGED <<socketVars, oconnVars, itqVars, readyVars>>
    \/ /\ part = "connection"
       /\ OldConnectionNext
       /\ UNCHANGED <<socketVars, oldVars, itqVars, readyVars>>
    \/ /\ part = "queue"
       /\ InterthreadQueueNext
       /\ UNCHANGED <<socketVars, oldVars, oconnVars, readyVars>>
    \/ /\ part = "ready"
       /\ ReadyNext
       /\ UNCHANGED <<socketVars, oldVars, oconnVars, itqVars>>

Next ==
    \/ DataNext /\ UNCHANGED <<connVars, part>>
    \/ ConnectionNext /\ UNCHANGED <<dataVars, part>>

Spec == Init /\ [][Next]_libraryVars
=============================================================================
