------------------------------ MODULE Verifier ------------------------------
(***************************************************************************)
(* verifier/verify_app.c and sync/sync_client.c: the program that loads a  *)
(* server from several threads, each of which opens a number of            *)
(* connections one after the other and makes a number of request/response  *)
(* round trips on each, times them, and leaves the times to main, which    *)
(* joins the threads and reports the mean.                                 *)
(*                                                                         *)
(* A response time is the name of the round trip it was measured on,       *)
(* <<thread, connection, request>>, so that one can see whether the        *)
(* statistics use each of them once.  Memory that was never written holds  *)
(* Garbage.  The server is the environment: it may not listen yet, answer, *)
(* stay silent until the five seconds of the receive timeout are over, or  *)
(* close the connection.                                                   *)
(***************************************************************************)
EXTENDS Naturals, Sequences, FiniteSets, SequencesExt

CONSTANTS NbrThreads,       \* option -t
          NbrConnections,   \* option -c
          NbrRequests,      \* option -r
          NbrAddresses,     \* addresses getaddrinfo finds for the host
          Garbage           \* content of memory that was never written

ASSUME VerifierAssumption ==
    {NbrThreads, NbrConnections, NbrRequests, NbrAddresses} \subseteq Nat \ {0}

VARIABLES ctx,          \* ctx_table, with each thread's place in threadfn
          link,         \* each thread's connection, as the server sees it
          listens,      \* the addresses at which the server listens
          sent,         \* the uids that were sent
          nsent,        \* how many requests were sent
          all,          \* main's array all
          vmain,        \* "starting", "joining", "reporting" or "done"
          outcome       \* of the process: "running", "aborted", "killed"; "off": it does not run

verifierVars == <<ctx, link, listens, sent, nsent, all, vmain, outcome>>

Tids == 0..(NbrThreads - 1)
PerThread == NbrConnections * NbrRequests
Total == NbrThreads * PerThread

Up == [open |-> TRUE, asked |-> 0, replies |-> 0]
Down == [open |-> FALSE, asked |-> 0, replies |-> 0]

\* thread_context_init: resp_times comes from malloc.
thread_context_init(t) ==
    [pc |-> "connect", connection_index |-> 0, cycle_index |-> 0,
     time_index |-> 0, request |-> FALSE, response |-> FALSE,
     rp |-> 1, fds |-> 0, resp_times |-> [i \in 0..(PerThread - 1) |-> Garbage]]

VerifierInit ==
    /\ ctx = [t \in Tids |-> [thread_context_init(t) EXCEPT !.pc = "none"]]
    /\ link = [t \in Tids |-> Down]
    /\ listens \in SUBSET (1..NbrAddresses)
    /\ sent = {}
    /\ nsent = 0
    /\ all = [i \in 0..(Total - 1) |-> Garbage]
    /\ vmain = "starting"
    /\ outcome \in {"running", "off"}

At(t, place) == outcome = "running" /\ ctx[t].pc = place

\* main's first loop: the contexts are initialised and the threads created in
\* the order of their index, while the earlier ones already run.
CreateThread(t) ==
    /\ vmain = "starting"
    /\ At(t, "none")
    /\ \A u \in Tids : u < t => ctx[u].pc # "none"
    /\ ctx' = [ctx EXCEPT ![t] = thread_context_init(t)]
    /\ vmain' = IF t = NbrThreads - 1 THEN "joining" ELSE vmain
    /\ UNCHANGED <<link, listens, sent, nsent, all, outcome>>

-----------------------------------------------------------------------------
\* What the loop of connection_helper does to rp between two attempts: the
\* expression rp->ai_next has no effect.
NextAddress(rp) == rp

\* connection_helper: an address that refuses.
ConnectFails(t) ==
    /\ At(t, "connect")
    /\ ctx[t].rp \notin listens
    /\ ctx' = [ctx EXCEPT ![t].rp = NextAddress(@)]
    /\ UNCHANGED <<link, listens, sent, nsent, all, vmain, outcome>>

\* sync_client_new and sync_client_connect: a socket, the connection, and a
\* sync_connection for it.
sync_client_connect(t) ==
    /\ At(t, "connect")
    /\ ctx[t].rp \in listens
    /\ ctx' = [ctx EXCEPT ![t].pc = "request", ![t].cycle_index = 0,
                          ![t].fds = @ + 1]
    /\ link' = [link EXCEPT ![t] = Up]
    /\ UNCHANGED <<listens, sent, nsent, all, vmain, outcome>>

make_uid(t) == <<t, ctx[t].connection_index, ctx[t].cycle_index>>

\* make_request and sync_connection_write.
make_request(t) ==
    /\ At(t, "request")
    /\ ~ctx[t].response
    /\ ctx' = [ctx EXCEPT ![t].pc = "response", ![t].request = TRUE]
    /\ sent' = sent \cup {make_uid(t)}
    /\ nsent' = nsent + 1
    /\ link' = [link EXCEPT ![t].asked = @ + 1]
    /\ UNCHANGED <<listens, all, vmain, outcome>>

\* A write to a connection that the server has reset raises SIGPIPE.
WriteKills(t) ==
    /\ At(t, "request")
    /\ ~link[t].open
    /\ outcome' = "killed"
    /\ UNCHANGED <<ctx, link, listens, sent, nsent, all, vmain>>

\* The time of a round trip goes to the next slot of the thread's own array.
RecordTime(c, sample) ==
    [c EXCEPT !.time_index = @ + 1, !.resp_times[c.time_index] = sample]

\* sync_connection_read_message returns 1: the time is recorded,
\* verify_response accepts whatever it is given, and both messages go.
ReadMessage(t) ==
    /\ At(t, "response")
    /\ link[t].replies > 0
    /\ link' = [link EXCEPT ![t].replies = @ - 1]
    /\ LET last == ctx[t].cycle_index = NbrRequests - 1
       IN ctx' = [ctx EXCEPT ![t] =
                     [RecordTime(ctx[t], make_uid(t)) EXCEPT
                         !.pc = IF last THEN "close" ELSE "request",
                         !.cycle_index = IF last THEN @ ELSE @ + 1,
                         !.request = FALSE, !.response = FALSE]]
    /\ UNCHANGED <<listens, sent, nsent, all, vmain, outcome>>

\* Faulty form: no receive timeout, only a closed connection ends the read.
ReadFailsOnlyWhenClosed(t) ==
    /\ At(t, "response")
    /\ link[t].replies = 0
    /\ ~link[t].open
    /\ ctx' = [ctx EXCEPT ![t] = RecordTime(@, make_uid(t))]
    /\ outcome' = "aborted"
    /\ UNCHANGED <<link, listens, sent, nsent, all, vmain>>

\* sync_connection_read_message returns -1, because the connection is closed
\* or because the receive timeout is over.  The result is taken for a
\* success: the time is recorded, then the assertion on response_ptr fails.
ReadFails(t) ==
    /\ At(t, "response")
    /\ link[t].replies = 0
    /\ ctx' = [ctx EXCEPT ![t] = RecordTime(@, make_uid(t))]
    /\ outcome' = "aborted"
    /\ UNCHANGED <<link, listens, sent, nsent, all, vmain>>

\* sync_client_close: sync_connection_close closes the socket.
sync_client_close(c) == [c EXCEPT !.fds = @ - 1]

\* sync_client_dispose: with the client goes the place in the host's addresses.
sync_client_dispose(c) == [c EXCEPT !.rp = 1]

\* The end of a connection's loop; the next connection, if any.
EndConnection(t) ==
    /\ At(t, "close")
    /\ LET last == ctx[t].connection_index = NbrConnections - 1
       IN ctx' = [ctx EXCEPT ![t] =
                    [sync_client_dispose(sync_client_close(@)) EXCEPT
                        !.pc = IF last THEN "ended" ELSE "connect",
                        !.connection_index = IF last THEN @ ELSE @ + 1]]
    /\ link' = [link EXCEPT ![t] = Down]
    /\ UNCHANGED <<listens, sent, nsent, all, vmain, outcome>>

-----------------------------------------------------------------------------
\* The times of all threads one after the other, as many as each took.
combine_elapsed_times ==
    LET Taken(c) == [i \in 1..c.time_index |-> c.resp_times[i - 1]]
        times == FlattenSeq([i \in 1..NbrThreads |-> Taken(ctx[i - 1])])
    IN [k \in DOMAIN all |-> IF k < Len(times) THEN times[k + 1] ELSE all[k]]

\* Faulty form: the threads' arrays overlap.
combine_response_times_overlapping(a, t) ==
    [k \in DOMAIN a |->
       IF k \in t..(t + PerThread - 1) THEN ctx[t].resp_times[k - t] ELSE a[k]]

\* The whole array of thread t, at the place of thread t.
combine_response_times(a, t) ==
    [k \in DOMAIN a |->
       IF k \div PerThread = t THEN ctx[t].resp_times[k % PerThread] ELSE a[k]]

AllCombined[t \in 0..NbrThreads] ==
    IF t = 0 THEN combine_elapsed_times
             ELSE combine_response_times(AllCombined[t - 1], t - 1)

\* All threads are joined and the two combinations fill the array.
JoinThreads ==
    /\ outcome = "running"
    /\ vmain = "joining"
    /\ \A t \in Tids : ctx[t].pc = "ended"
    /\ all' = AllCombined[NbrThreads]
    /\ vmain' = "reporting"
    /\ UNCHANGED <<ctx, link, listens, sent, nsent, outcome>>

\* stat_analyse reads every entry of all; then the report is printed.
stat_analyse ==
    /\ outcome = "running"
    /\ vmain = "reporting"
    /\ vmain' = "done"
    /\ UNCHANGED <<ctx, link, listens, sent, nsent, all, outcome>>

-----------------------------------------------------------------------------
\* The server: starts to listen, answers a request, closes a connection.
ServerListens ==
    /\ outcome = "running"
    /\ \E a \in (1..NbrAddresses) \ listens : listens' = listens \cup {a}
    /\ UNCHANGED <<ctx, link, sent, nsent, all, vmain, outcome>>

ServerReplies(t) ==
    /\ outcome = "running"
    /\ link[t].open /\ link[t].asked > 0
    /\ link' = [link EXCEPT ![t].asked = @ - 1, ![t].replies = @ + 1]
    /\ UNCHANGED <<ctx, listens, sent, nsent, all, vmain, outcome>>

ServerCloses(t) ==
    /\ outcome = "running"
    /\ link[t].open
    /\ link' = [link EXCEPT ![t].open = FALSE]
    /\ UNCHANGED <<ctx, listens, sent, nsent, all, vmain, outcome>>

ThreadSteps(t) ==
    \/ sync_client_connect(t) \/ make_request(t) \/ WriteKills(t)
    \/ ReadMessage(t) \/ ReadFails(t) \/ EndConnection(t)

VerifierNext ==
    \/ JoinThreads \/ stat_analyse \/ ServerListens
    \/ \E t \in Tids : \/ CreateThread(t) \/ ConnectFails(t) \/ ThreadSteps(t)
                       \/ ServerReplies(t) \/ ServerCloses(t)

\* Threads run, and the receive timeout ends a read that is not answered.
\* Nothing is assumed of the server.
VerifierFairness ==
    /\ WF_verifierVars(JoinThreads) /\ WF_verifierVars(stat_analyse)
    /\ \A t \in Tids : /\ WF_verifierVars(CreateThread(t))
                       /\ WF_verifierVars(ConnectFails(t))
                       /\ WF_verifierVars(ThreadSteps(t))

-----------------------------------------------------------------------------
\* No two requests of a run carry the same Echo-id, whichever thread,
\* connection or round trip they come from (verify_app.c:388).
UidsDistinct == nsent = Cardinality(sent)

\* The reported mean and deviation are computed from the time of every round
\* trip, each once: no slot of `all` is overwritten by another thread's, left
\* out, or read uninitialised, although the array is filled twice in two
\* different ways (verify_app.c:197-209).
ReportsEveryRoundTrip ==
    vmain \in {"reporting", "done"} =>
        /\ {all[i] : i \in DOMAIN all} =
              Tids \X (0..(NbrConnections - 1)) \X (0..(NbrRequests - 1))
        /\ Cardinality({all[i] : i \in DOMAIN all}) = Total

\* However often a connect is refused, a thread holds one socket while it is
\* connected and none otherwise (sync_client.c:112-122, verify_app.c:341).
NoSocketLeaks ==
    \A t \in Tids : ctx[t].fds = (IF ctx[t].pc \in {"request", "response", "close"}
                                  THEN 1 ELSE 0)

\* Once the server listens at the first address of the host, the verifier
\* comes to an end: it reports, or an unanswered request aborts it
\* (verify_app.c:330).  The other addresses are never tried
\* (sync_client.c:112).
VerifierEnds == (1 \in listens) ~> (vmain = "done" \/ outcome # "running")

\* Each round trip has an id, a time and a socket of its own, and counts once.
RoundTripsCounted == UidsDistinct /\ ReportsEveryRoundTrip /\ NoSocketLeaks
=============================================================================
