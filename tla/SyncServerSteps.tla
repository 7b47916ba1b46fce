-------------------------- MODULE SyncServerSteps --------------------------
(***************************************************************************)
(* The synchronous server, for any number of workers, connections and      *)
(* requests: the invariant behind the theorems of SyncServerProofs, and    *)
(* one lemma for every action that it is kept.                             *)
(*                                                                         *)
(* SyncInv adds to the properties which worker has which connection and    *)
(* how the requests pending on a connection end.  What the steps need of   *)
(* Messages, a recursive function, and of Cardinality is collected in      *)
(* Laws; the lemmas have it as a hypothesis, and SyncServerProofs shows it *)
(* by induction.                                                           *)
(***************************************************************************)
EXTENDS SyncServer, TLAPS

-----------------------------------------------------------------------------
(* Sequences *)

\* The empty sequence, and one that is not empty.
LEMMA EmptyList ==
    ASSUME NEW S
    PROVE  << >> \in Seq(S) /\ Len(<< >>) = 0 /\ \A s \in Seq(S) : s # << >> => Len(s) \in Nat \ {0}
  OBVIOUS

\* The length of a sequence, and its elements.
LEMMA Length ==
    ASSUME NEW S, NEW s \in Seq(S)
    PROVE  Len(s) \in Nat /\ s \in [1..Len(s) -> S] /\ DOMAIN s = 1..Len(s)
  OBVIOUS

LEMMA Element ==
    ASSUME NEW S, NEW s \in Seq(S), NEW i \in 1..Len(s)
    PROVE  s[i] \in S
  OBVIOUS

\* A sequence over a set is one over a larger set.
LEMMA Within ==
    ASSUME NEW S, NEW T, S \subseteq T, NEW s \in Seq(S)
    PROVE  s \in Seq(T)
  OBVIOUS

\* Sequences are equal if their elements are.
LEMMA SameList ==
    ASSUME NEW S, NEW s \in Seq(S), NEW t \in Seq(S),
           Len(s) = Len(t), \A i \in 1..Len(s) : s[i] = t[i]
    PROVE  s = t
  OBVIOUS

\* What Append does.
LEMMA Appended ==
    ASSUME NEW S, NEW s \in Seq(S), NEW e \in S
    PROVE  /\ Append(s, e) \in Seq(S) /\ Append(s, e) # << >>
           /\ Len(Append(s, e)) = Len(s) + 1
           /\ \A i \in 1..Len(s) : Append(s, e)[i] = s[i]
           /\ Append(s, e)[Len(s) + 1] = e
  OBVIOUS

LEMMA AppendJoins ==
    ASSUME NEW S, NEW s \in Seq(S), NEW e \in S
    PROVE  Append(s, e) = s \o <<e>>
  OBVIOUS

\* What joining two sequences does.
LEMMA Joined ==
    ASSUME NEW S, NEW s \in Seq(S), NEW t \in Seq(S)
    PROVE  /\ s \o t \in Seq(S)
           /\ Len(s \o t) = Len(s) + Len(t)
           /\ \A i \in 1..(Len(s) + Len(t)) :
                 (s \o t)[i] = IF i <= Len(s) THEN s[i] ELSE t[i - Len(s)]
  OBVIOUS

LEMMA JoinEmpty ==
    ASSUME NEW S, NEW s \in Seq(S)
    PROVE  s \o << >> = s /\ << >> \o s = s
  OBVIOUS

LEMMA JoinNothing ==
    ASSUME NEW S, NEW s \in Seq(S), NEW t \in Seq(S)
    PROVE  /\ (s \o t = s) <=> (t = << >>)
           /\ (s \o t = t) <=> (s = << >>)
           /\ (s \o t = << >>) <=> (s = << >> /\ t = << >>)
  OBVIOUS

LEMMA JoinAssociates ==
    ASSUME NEW S, NEW s \in Seq(S), NEW t \in Seq(S), NEW u \in Seq(S)
    PROVE  (s \o t) \o u = s \o (t \o u)
  OBVIOUS

\* What Head and Tail give.
LEMMA HeadTail ==
    ASSUME NEW S, NEW s \in Seq(S), s # << >>
    PROVE  /\ Head(s) \in S /\ Tail(s) \in Seq(S)
           /\ Len(Tail(s)) = Len(s) - 1
           /\ \A i \in 1..Len(Tail(s)) : Tail(s)[i] = s[i + 1]
  OBVIOUS

-----------------------------------------------------------------------------
(* Requests in order *)

Tokens == [kind : {"part", "keep", "close", "bad"}, n : 1..MaxReqs]

\* A request is a token that completes a message.
LEMMA RequestsAre ==
    /\ Requests = [kind : {"keep", "close"}, n : 1..MaxReqs]
    /\ Requests \subseteq Tokens
    /\ \A t \in Tokens : IsMessage(t) <=> t \in Requests
    /\ NoRequest \notin Requests /\ ~IsMessage(NoRequest) /\ NoRequest.kind = "none"
<1>1. Requests = [kind : {"keep", "close"}, n : 1..MaxReqs]
  <2>1. ASSUME NEW t \in [kind : {"keep", "close"}, n : 1..MaxReqs] PROVE t \in Requests
    <3>1. t = [kind |-> t.kind, n |-> t.n] /\ t.kind \in {"keep", "close"} /\ t.n \in 1..MaxReqs
      BY Zenon
    <3>2. \E k \in {"keep", "close"}, n \in 1..MaxReqs : t = [kind |-> k, n |-> n]
      BY <3>1, Zenon
    <3> QED BY <3>2 DEF Requests, Token
  <2>2. ASSUME NEW t \in Requests PROVE t \in [kind : {"keep", "close"}, n : 1..MaxReqs]
    BY DEF Requests, Token
  <2> QED BY <2>1, <2>2, Zenon
<1> QED BY <1>1, Zenon DEF IsMessage, Tokens, NoRequest, Token

\* The answers a and the pending requests p are together the first n requests.
InOrder(a, p, n) ==
    /\ Len(a) + Len(p) = n
    /\ \A i \in 1..Len(a) : a[i] = i
    /\ \A i \in 1..Len(p) : p[i].n = Len(a) + i

\* A request without keep-alive is the last one.
CloseEnds(p) == \A i \in 1..Len(p) : p[i].kind = "close" => i = Len(p)

\* There is none without keep-alive.
AllKeep(p) == \A i \in 1..Len(p) : p[i].kind = "keep"

\* There is one.
EndsInClose(p) == Len(p) > 0 /\ p[Len(p)].kind = "close"

\* This is what AnsweredInOrder says.
LEMMA OrderMeans ==
    ASSUME NEW a \in Seq(Nat), NEW p \in Seq(Requests), NEW n \in Nat, InOrder(a, p, n)
    PROVE  a \o Numbers(p) = [i \in 1..n |-> i]
<1> DEFINE q == Numbers(p)
<1>1. /\ Len(a) \in Nat /\ Len(p) \in Nat /\ Len(a) + Len(p) = n
      /\ \A i \in 1..Len(a) : a[i] = i
      /\ \A i \in 1..Len(p) : p[i].n = Len(a) + i
  BY Length, Zenon DEF InOrder
<1>2. q \in Seq(Nat) /\ Len(q) = Len(p) /\ \A i \in 1..Len(p) : q[i] = Len(a) + i
  <2>1. q = [i \in 1..Len(p) |-> p[i].n]
    BY Zenon DEF Numbers
  <2>2. \A i \in 1..Len(p) : p[i].n \in Nat
    BY <1>1
  <2> HIDE DEF q
  <2> QED BY <1>1, <2>1, <2>2
<1> HIDE DEF q
<1>3. /\ a \o q \in Seq(Nat) /\ Len(a \o q) = n
      /\ \A i \in 1..n : (a \o q)[i] = IF i <= Len(a) THEN a[i] ELSE q[i - Len(a)]
  BY <1>1, <1>2, Joined
<1>4. ASSUME NEW i \in 1..n PROVE (a \o q)[i] = i
  <2>1. CASE i <= Len(a)
    BY <1>1, <1>3, <2>1
  <2>2. CASE ~(i <= Len(a))
    <3>1. i - Len(a) \in 1..Len(p) /\ Len(a) + (i - Len(a)) = i
      BY <1>1, <2>2
    <3> QED BY <1>2, <1>3, <2>2, <3>1, Zenon
  <2> QED BY <2>1, <2>2, Zenon
<1>5. [i \in 1..n |-> i] \in Seq(Nat) /\ Len([i \in 1..n |-> i]) = n
  OBVIOUS
<1>6. \A i \in 1..n : (a \o q)[i] = [j \in 1..n |-> j][i]
  BY <1>4, Zenon
<1>7. a \o q = [i \in 1..n |-> i]
  BY <1>3, <1>5, <1>6, SameList, Zenon
<1> QED BY <1>7, Zenon DEF q

\* The next request is sent.
LEMMA OneMore ==
    ASSUME NEW a \in Seq(Nat), NEW p \in Seq(Requests), NEW n \in Nat, InOrder(a, p, n),
           AllKeep(p), NEW t \in Requests, t.n = n + 1
    PROVE  /\ InOrder(a, Append(p, t), n + 1)
           /\ CloseEnds(Append(p, t))
           /\ t.kind = "keep" => AllKeep(Append(p, t))
           /\ t.kind = "close" => EndsInClose(Append(p, t))
<1> DEFINE q == Append(p, t)
<1>1. /\ Len(a) \in Nat /\ Len(p) \in Nat /\ Len(q) = Len(p) + 1 /\ q[Len(p) + 1] = t
      /\ \A i \in 1..Len(p) : q[i] = p[i]
  BY Length, Appended
<1> HIDE DEF q
<1>2. \A i \in 1..Len(q) : i \in 1..Len(p) \/ i = Len(p) + 1
  BY <1>1
<1>3. InOrder(a, q, n + 1)
  <2>1. /\ Len(a) + Len(p) = n /\ \A i \in 1..Len(a) : a[i] = i
        /\ \A i \in 1..Len(p) : p[i].n = Len(a) + i
    BY Zenon DEF InOrder
  <2>2. Len(a) + Len(q) = n + 1
    <3>1. Len(a) \in Nat /\ Len(p) \in Nat /\ Len(a) + Len(p) = n /\ Len(q) = Len(p) + 1
      BY <1>1, <2>1, Zenon
    <3> QED BY ONLY <3>1
  <2>3. ASSUME NEW i \in 1..Len(q) PROVE q[i].n = Len(a) + i
    <3>1. CASE i \in 1..Len(p)
      BY <1>1, <2>1, <3>1, Zenon
    <3>2. CASE i = Len(p) + 1
      <4>1. q[i] = t /\ t.n = n + 1 /\ Len(a) + Len(p) = n
        BY <1>1, <2>1, <3>2, Zenon
      <4>2. Len(a) \in Nat /\ Len(p) \in Nat
        BY <1>1, Zenon
      <4>3. Len(a) + i = n + 1
        BY ONLY <4>1, <4>2, <3>2
      <4> QED BY <4>1, <4>3, Zenon
    <3> QED BY <1>2, <3>1, <3>2, Zenon
  <2> QED BY <2>1, <2>2, <2>3, Zenon DEF InOrder
<1>4. \A i \in 1..Len(p) : q[i].kind = "keep"
  BY <1>1, Zenon DEF AllKeep
<1>5. CloseEnds(q)
  BY <1>1, <1>2, <1>4, Zenon DEF CloseEnds
<1>6. t.kind = "keep" => AllKeep(q)
  BY <1>1, <1>2, <1>4, Zenon DEF AllKeep
<1>7. t.kind = "close" => EndsInClose(q)
  BY <1>1 DEF EndsInClose
<1> QED BY <1>3, <1>5, <1>6, <1>7, Zenon DEF q

\* The oldest request is answered.
LEMMA OneAnswered ==
    ASSUME NEW a \in Seq(Nat), NEW r \in Requests, NEW q \in Seq(Requests), NEW n \in Nat,
           InOrder(a, <<r>> \o q, n), CloseEnds(<<r>> \o q)
    PROVE  /\ InOrder(Append(a, r.n), q, n)
           /\ CloseEnds(q)
           /\ AllKeep(<<r>> \o q) => AllKeep(q)
           /\ r.kind = "close" => q = << >>
           /\ r.kind = "keep" /\ EndsInClose(<<r>> \o q) => EndsInClose(q)
<1> DEFINE p == <<r>> \o q
           b == Append(a, r.n)
<1>1. /\ Len(a) \in Nat /\ Len(q) \in Nat /\ Len(p) = Len(q) + 1 /\ p[1] = r
      /\ \A i \in 1..Len(q) : p[i + 1] = q[i] /\ i + 1 \in 1..Len(p)
  <2>1. <<r>> \in Seq(Requests) /\ Len(<<r>>) = 1 /\ <<r>>[1] = r
    OBVIOUS
  <2>2. Len(a) \in Nat /\ Len(q) \in Nat
    BY Length, Zenon
  <2>3. /\ Len(p) = 1 + Len(q)
        /\ \A i \in 1..(1 + Len(q)) : p[i] = IF i <= 1 THEN <<r>>[i] ELSE q[i - 1]
    BY <2>1, Joined, Zenon
  <2> HIDE DEF p
  <2>4. ASSUME NEW i \in 1..Len(q) PROVE p[i + 1] = q[i] /\ i + 1 \in 1..Len(p)
    <3>1. i + 1 \in 1..(1 + Len(q)) /\ ~(i + 1 <= 1) /\ (i + 1) - 1 = i
      BY <2>2
    <3> QED BY <2>3, <3>1, Zenon
  <2> QED BY <2>1, <2>2, <2>3, <2>4
<1> HIDE DEF p
<1>2. /\ Len(a) + Len(p) = n /\ \A i \in 1..Len(a) : a[i] = i
      /\ \A i \in 1..Len(p) : p[i].n = Len(a) + i
  BY Zenon DEF InOrder, p
<1>3. 1 \in 1..Len(p) /\ r.n = Len(a) + 1 /\ r.n \in Nat
  BY <1>1, <1>2
<1>4. Len(b) = Len(a) + 1 /\ b[Len(a) + 1] = r.n /\ \A i \in 1..Len(a) : b[i] = a[i]
  BY <1>3, Appended
<1> HIDE DEF b
<1>5. InOrder(b, q, n)
  <2>1. Len(b) + Len(q) = n
    BY <1>1, <1>2, <1>4
  <2>2. ASSUME NEW i \in 1..Len(b) PROVE b[i] = i
    <3>1. i \in 1..Len(a) \/ i = Len(a) + 1
      BY <1>1, <1>4
    <3> QED BY <1>2, <1>3, <1>4, <3>1, Zenon
  <2>3. ASSUME NEW i \in 1..Len(q) PROVE q[i].n = Len(b) + i
    <3>1. q[i].n = Len(a) + (i + 1)
      BY <1>1, <1>2, Zenon
    <3> QED BY <1>1, <1>4, <3>1
  <2> QED BY <2>1, <2>2, <2>3, Zenon DEF InOrder
<1>6. CloseEnds(q)
  <2> SUFFICES ASSUME NEW i \in 1..Len(q), q[i].kind = "close" PROVE i = Len(q)
    BY Zenon DEF CloseEnds
  <2>1. i + 1 = Len(p)
    BY <1>1, Zenon DEF CloseEnds, p
  <2> QED BY <1>1, <2>1
<1>7. AllKeep(p) => AllKeep(q)
  BY <1>1, Zenon DEF AllKeep
<1>8. r.kind = "close" => q = << >>
  <2> SUFFICES ASSUME r.kind = "close" PROVE q = << >>
    BY Zenon
  <2>1. 1 = Len(p)
    BY <1>1, <1>3, Zenon DEF CloseEnds, p
  <2> QED BY <1>1, <2>1, EmptyList
<1>9. r.kind = "keep" /\ EndsInClose(p) => EndsInClose(q)
  <2> SUFFICES ASSUME r.kind = "keep", p[Len(p)].kind = "close" PROVE EndsInClose(q)
    BY Zenon DEF EndsInClose
  <2>1. Len(q) # 0
    BY <1>1
  <2>2. Len(q) \in 1..Len(q) /\ Len(q) + 1 = Len(p)
    BY <1>1, <2>1
  <2>3. q[Len(q)].kind = "close"
    BY <1>1, <2>2, Zenon
  <2> QED BY <1>1, <2>1, <2>3 DEF EndsInClose
<1> QED BY <1>5, <1>6, <1>7, <1>8, <1>9, Zenon DEF p, b

-----------------------------------------------------------------------------
(* What the steps need of Messages and Cardinality *)

Laws ==
    /\ Messages(<< >>) = << >>
    /\ \A s \in Seq(Tokens), t \in Tokens :
          Messages(Append(s, t)) = IF IsMessage(t) THEN Append(Messages(s), t) ELSE Messages(s)
    /\ \A s \in Seq(Tokens) : Messages(s) \in Seq(Requests)
    /\ \A l \in Seq(Requests), r \in Requests \cup {NoRequest} :
          Messages(<<r>> \o l) = IF r = NoRequest THEN l ELSE <<r>> \o l
    /\ \A s \in Seq(Tokens) : ~HasBad(s) => MessagesOf(s) = Messages(s)
    /\ IsFiniteSet({}) /\ Cardinality({}) = 0
    /\ \A S \in SUBSET Conns : IsFiniteSet(S) =>
          /\ Cardinality(S) \in Nat
          /\ \A c \in Conns \ S : IsFiniteSet(S \cup {c}) /\ Cardinality(S \cup {c}) = Cardinality(S) + 1

\* An empty buffer completes no message.
LEMMA LawEmpty == ASSUME Laws PROVE Messages(<< >>) = << >>
  BY Zenon DEF Laws

\* One more token completes at most one more message.
LEMMA LawAppend ==
    ASSUME Laws, NEW s \in Seq(Tokens), NEW t \in Tokens
    PROVE  Messages(Append(s, t)) = IF IsMessage(t) THEN Append(Messages(s), t) ELSE Messages(s)
  BY Zenon DEF Laws

\* What a buffer of tokens completes are requests.
LEMMA LawType ==
    ASSUME Laws, NEW s \in Seq(Tokens)
    PROVE  Messages(s) \in Seq(Requests)
  BY Zenon DEF Laws

\* A list of requests, with or without one before it, is a list of messages.
LEMMA LawList ==
    ASSUME Laws, NEW l \in Seq(Requests), NEW r \in Requests \cup {NoRequest}
    PROVE  Messages(<<r>> \o l) = IF r = NoRequest THEN l ELSE <<r>> \o l
  BY Zenon DEF Laws

\* Without an error the parser completes every message of the buffer.
LEMMA LawGood ==
    ASSUME Laws, NEW s \in Seq(Tokens), ~HasBad(s)
    PROVE  MessagesOf(s) = Messages(s)
  BY Zenon DEF Laws

\* Descriptors are counted one by one.
LEMMA LawCount ==
    ASSUME Laws
    PROVE  /\ IsFiniteSet({}) /\ Cardinality({}) = 0
           /\ \A S \in SUBSET Conns : IsFiniteSet(S) =>
                 /\ Cardinality(S) \in Nat
                 /\ \A c \in Conns \ S :
                       IsFiniteSet(S \cup {c}) /\ Cardinality(S \cup {c}) = Cardinality(S) + 1
  BY Zenon DEF Laws


-----------------------------------------------------------------------------
(* The invariant *)

\* The requests received on a connection and not yet answered.
Pending(c) == InHand(c) \o Messages(rx[c])

\* A connection that is served, or will be.
Waiting(c) == \/ \E w \in Workers : conn[w] = c
              \/ \E i \in 1..Len(backlog) : backlog[i] = c

\* The types of the variables.
SyncTypeOK ==
    /\ peer \in [Conns -> {"none", "up", "last", "idle", "closed", "reset"}]
    /\ rx \in [Conns -> Seq(Tokens)]
    /\ \A c \in Conns : Len(rx[c]) <= RcvCap
    /\ backlog \in Seq(Conns)
    /\ open \subseteq Conns /\ IsFiniteSet(open) /\ Cardinality(open) <= MaxFds
    /\ status \in [Workers -> {"accept", "read", "answer", "ended"}]
    /\ conn \in [Workers -> Conns \cup {NoConn}]
    /\ input_list \in [Workers -> Seq(Requests)]
    /\ request \in [Workers -> Requests \cup {NoRequest}]
    /\ answered \in [Conns -> Seq(Nat)]
    /\ process \in {"up", "no request", "invariants failed", "killed", "ended"}
    /\ sent \in [Conns -> 0..MaxReqs]
    /\ \A c \in Conns : peer[c] \in {"none", "up"} => sent[c] < MaxReqs
    /\ parts \in 0..MaxParts
    /\ misbehaved \subseteq Conns

\* A worker between connections holds nothing.
WorkerAt(w) ==
    \/ status[w] \in {"accept", "ended"} /\ conn[w] = NoConn /\ request[w] = NoRequest
         /\ input_list[w] = << >>
    \/ status[w] = "read" /\ conn[w] \in open /\ request[w] = NoRequest
    \/ status[w] = "answer" /\ conn[w] \in open /\ request[w] \in Requests

\* No two workers serve one connection.
Exclusive == \A v, w \in Workers : conn[v] = conn[w] /\ conn[w] \in Conns => v = w

\* A connection waits for accept once, and before it is open.
BacklogOK ==
    /\ \A i \in 1..Len(backlog) : backlog[i] \notin open /\ peer[backlog[i]] \notin {"none", "reset"}
    /\ \A i, j \in 1..Len(backlog) : backlog[i] = backlog[j] => i = j
    /\ \A c \in open : peer[c] # "none"

\* One connection: its requests are in order, and one without keep-alive is the
\* last; while the connection waits that one is still to come unless the client
\* misbehaved, and so is the end of the input.
At(c) ==
    /\ InOrder(answered[c], Pending(c), sent[c])
    /\ CloseEnds(Pending(c))
    /\ peer[c] \in {"none", "up", "idle"} => AllKeep(Pending(c))
    /\ Waiting(c) /\ peer[c] = "last" /\ c \notin misbehaved => EndsInClose(Pending(c))
    /\ Waiting(c) /\ peer[c] \in {"closed", "reset", "idle"} => c \in misbehaved
    /\ \A i \in 1..Len(rx[c]) : rx[c][i].kind = "bad" => c \in misbehaved

\* What made a worker end lasts.
Exhausted == \/ Cardinality(open) = MaxFds
             \/ \E c \in Conns \ open : peer[c] = "reset"

\* A worker that has ended had a reason.
EndedOK == \A w \in Workers : status[w] = "ended" => Exhausted

\* What holds while the process is up.
Serving ==
    /\ Exclusive
    /\ BacklogOK
    /\ \A c \in Conns : At(c)
    /\ EndedOK

\* The inductive invariant.
SyncInv ==
    /\ SyncTypeOK
    /\ \A w \in Workers : WorkerAt(w)
    /\ process = "up" => Serving
    /\ EndsOnlyForCause

\* In hand are requests.
LEMMA HandType ==
    ASSUME Laws, SyncTypeOK, NEW c
    PROVE  InHand(c) \in Seq(Requests)
<1> DEFINE ws == {w \in Workers : conn[w] = c}
<1>1. CASE ws = {}
  BY <1>1, EmptyList, Zenon DEF InHand
<1>2. CASE ws # {}
  <2>1. PICK w \in ws : w = CHOOSE v \in ws : TRUE
    BY <1>2, Zenon
  <2>2. /\ w \in Workers /\ request[w] \in Requests \cup {NoRequest}
        /\ input_list[w] \in Seq(Requests)
    BY Zenon DEF SyncTypeOK
  <2>3. InHand(c) = Messages(<<request[w]>> \o input_list[w])
    BY <1>2, <2>1, Zenon DEF InHand
  <2>4. InHand(c) = IF request[w] = NoRequest THEN input_list[w] ELSE <<request[w]>> \o input_list[w]
    BY <2>2, <2>3, LawList, Zenon
  <2>5. request[w] \in Requests => <<request[w]>> \in Seq(Requests)
    OBVIOUS
  <2>6. request[w] \in Requests => <<request[w]>> \o input_list[w] \in Seq(Requests)
    BY <2>2, <2>5, Joined, Zenon
  <2> QED BY <2>2, <2>4, <2>6, Zenon
<1> QED BY <1>1, <1>2, Zenon

\* Pending are requests.
LEMMA PendingType ==
    ASSUME Laws, SyncTypeOK, NEW c \in Conns
    PROVE  /\ Pending(c) \in Seq(Requests) /\ InHand(c) \in Seq(Requests)
           /\ Messages(rx[c]) \in Seq(Requests)
<1>1. rx[c] \in Seq(Tokens)
  BY Zenon DEF SyncTypeOK
<1>2. Messages(rx[c]) \in Seq(Requests)
  BY <1>1, LawType, Zenon
<1> QED BY <1>2, HandType, Joined, Zenon DEF Pending

-----------------------------------------------------------------------------
(* Steps of the workers *)

\* A connection of which a step changes nothing.
LEMMA Elsewhere ==
    ASSUME NEW d \in Conns, At(d), InHand(d)' = InHand(d),
           rx'[d] = rx[d], peer'[d] = peer[d], answered'[d] = answered[d], sent'[d] = sent[d],
           d \in misbehaved' <=> d \in misbehaved, Waiting(d)' => Waiting(d)
    PROVE  At(d)'
<1>1. Pending(d)' = Pending(d)
  BY Zenon DEF Pending
<1> QED BY <1>1, Zenon DEF At

\* A worker's step leaves other connections than its own alone.
LEMMA OthersInHand ==
    ASSUME NEW w \in Workers, NEW c \in Conns,
           \A v \in Workers : v # w => /\ conn'[v] = conn[v] /\ request'[v] = request[v]
                                       /\ input_list'[v] = input_list[v],
           conn[w] \in {c, NoConn}, conn'[w] \in {c, NoConn}, NEW d \in Conns, d # c
    PROVE  /\ InHand(d)' = InHand(d)
           /\ (\E v \in Workers : conn'[v] = d) => \E v \in Workers : conn[v] = d
<1>1. conn[w] # d /\ conn'[w] # d
  BY SyncAssumption
<1>2. \A v \in Workers : conn'[v] = d <=> conn[v] = d
  BY <1>1, Zenon
<1>3. \A v \in Workers : conn[v] = d => request'[v] = request[v] /\ input_list'[v] = input_list[v]
  BY <1>1, Zenon
<1> DEFINE ws == {v \in Workers : conn[v] = d}
<1>4. {v \in Workers : conn'[v] = d} = ws
  BY <1>2, Zenon
<1>5. CASE ws = {}
  BY <1>4, <1>5, Zenon DEF InHand
<1>6. CASE ws # {}
  <2>1. PICK u \in ws : u = CHOOSE v \in ws : TRUE
    BY <1>6, Zenon
  <2>2. request'[u] = request[u] /\ input_list'[u] = input_list[u]
    BY <1>3, Zenon
  <2>3. InHand(d) = Messages(<<request[u]>> \o input_list[u])
    BY <1>6, <2>1, Zenon DEF InHand
  <2>4. InHand(d)' = Messages(<<request'[u]>> \o input_list'[u])
    BY <1>4, <1>6, <2>1, Zenon DEF InHand
  <2> QED BY <1>2, <2>2, <2>3, <2>4, Zenon
<1> QED BY <1>2, <1>5, <1>6, Zenon

\* What the worker of c has in hand, before and after a step.
LEMMA NowInHand ==
    ASSUME Laws, NEW w \in Workers, NEW c, conn[w] = c, \A v \in Workers : conn[v] = c => v = w,
           input_list[w] \in Seq(Requests), request[w] \in Requests \cup {NoRequest}
    PROVE  /\ request[w] = NoRequest => InHand(c) = input_list[w]
           /\ request[w] # NoRequest => InHand(c) = <<request[w]>> \o input_list[w]
<1>1. {v \in Workers : conn[v] = c} = {w}
  BY Zenon
<1>2. InHand(c) = Messages(<<request[w]>> \o input_list[w])
  BY <1>1, Zenon DEF InHand
<1> QED BY <1>2, LawList, Zenon

\* The same after the step.
LEMMA NextInHand ==
    ASSUME Laws, NEW w \in Workers, NEW c, conn'[w] = c, \A v \in Workers : conn'[v] = c => v = w,
           input_list'[w] \in Seq(Requests), request'[w] \in Requests \cup {NoRequest}
    PROVE  /\ request'[w] = NoRequest => InHand(c)' = input_list'[w]
           /\ request'[w] # NoRequest => InHand(c)' = <<request'[w]>> \o input_list'[w]
<1>1. {v \in Workers : conn'[v] = c} = {w}
  BY Zenon
<1>2. InHand(c)' = Messages(<<request'[w]>> \o input_list'[w])
  BY <1>1, Zenon DEF InHand
<1> QED BY <1>2, LawList, Zenon

\* Nobody has anything in hand for a connection without a worker.
LEMMA NothingInHand ==
    ASSUME NEW c
    PROVE  /\ (\A v \in Workers : conn[v] # c) => InHand(c) = << >>
           /\ (\A v \in Workers : conn'[v] # c) => InHand(c)' = << >>
BY Zenon DEF InHand

\* The first connection of the backlog.
LEMMA FirstInLine ==
    ASSUME SyncTypeOK, BacklogOK, backlog # << >>, backlog' = Tail(backlog)
    PROVE  /\ Head(backlog) \in Conns \ open
           /\ peer[Head(backlog)] \notin {"none", "reset"}
           /\ Waiting(Head(backlog))
           /\ backlog' \in Seq(Conns)
           /\ \A i \in 1..Len(backlog') :
                /\ backlog'[i] # Head(backlog)
                /\ \E j \in 1..Len(backlog) : backlog'[i] = backlog[j]
           /\ \A i, j \in 1..Len(backlog') : backlog'[i] = backlog'[j] => i = j
<1>1. backlog \in Seq(Conns)
  BY Zenon DEF SyncTypeOK
<1>2. /\ Len(backlog) \in Nat \ {0} /\ Head(backlog) = backlog[1] /\ Head(backlog) \in Conns
      /\ backlog' \in Seq(Conns) /\ Len(backlog') = Len(backlog) - 1
      /\ \A i \in 1..Len(backlog') : backlog'[i] = backlog[i + 1]
  BY <1>1, EmptyList, HeadTail
<1>3. 1 \in 1..Len(backlog)
  BY <1>2
<1>4. \A i \in 1..Len(backlog') : i + 1 \in 1..Len(backlog) /\ i + 1 # 1 /\ i \in Nat
  BY <1>2
<1>5. \A i, j \in 1..Len(backlog) : backlog[i] = backlog[j] => i = j
  BY Zenon DEF BacklogOK
<1>6. \A i \in 1..Len(backlog') : backlog'[i] # Head(backlog)
  BY <1>2, <1>3, <1>4, <1>5, Zenon
<1>7. ASSUME NEW i \in 1..Len(backlog'), NEW j \in 1..Len(backlog'), backlog'[i] = backlog'[j]
      PROVE  i = j
  <2>1. i + 1 = j + 1
    BY <1>2, <1>4, <1>5, <1>7
  <2> QED BY <1>4, <2>1
<1>8. Waiting(Head(backlog))
  BY <1>2, <1>3, Zenon DEF Waiting
<1>9. Head(backlog) \notin open /\ peer[Head(backlog)] \notin {"none", "reset"}
  BY <1>2, <1>3, Zenon DEF BacklogOK
<1> QED BY <1>2, <1>4, <1>6, <1>7, <1>8, <1>9, Zenon

\* While the process is up.
LEMMA ServingNow ==
    ASSUME SyncInv, process = "up"
    PROVE  /\ SyncTypeOK /\ \A w \in Workers : WorkerAt(w)
           /\ Exclusive /\ BacklogOK /\ (\A c \in Conns : At(c)) /\ EndedOK
BY Zenon DEF SyncInv, Serving

\* A step after which the process is still up.
LEMMA StillUp ==
    ASSUME process' = "up", SyncTypeOK', \A w \in Workers : WorkerAt(w)',
           Exclusive', BacklogOK', \A c \in Conns : At(c)', EndedOK'
    PROVE  SyncInv'
BY Zenon DEF SyncInv, Serving, EndsOnlyForCause

\* A connection in the backlog has no worker.
LEMMA NoWorkerYet ==
    ASSUME SyncTypeOK, \A w \in Workers : WorkerAt(w), NEW c \in Conns \ open
    PROVE  \A w \in Workers : conn[w] # c
BY SyncAssumption, Zenon DEF WorkerAt

\* accept.
LEMMA AcceptKeeps ==
    ASSUME Laws, SyncInv, process = "up", NEW w \in Workers, Accept(w), UNCHANGED clients
    PROVE  SyncInv'
<1>1. /\ SyncTypeOK /\ \A v \in Workers : WorkerAt(v)
      /\ Exclusive /\ BacklogOK /\ (\A d \in Conns : At(d)) /\ EndedOK
  BY ServingNow, Zenon
<1> PICK c : c = Head(backlog)
  BY Zenon
<1>2. /\ status[w] = "accept" /\ backlog # << >> /\ Cardinality(open) < MaxFds
      /\ backlog' = Tail(backlog) /\ open' = open \cup {c}
      /\ conn' = [conn EXCEPT ![w] = c] /\ input_list' = [input_list EXCEPT ![w] = << >>]
      /\ status' = [status EXCEPT ![w] = "read"]
      /\ peer' = peer /\ rx' = rx /\ request' = request /\ answered' = answered
      /\ process' = process /\ sent' = sent /\ parts' = parts /\ misbehaved' = misbehaved
  BY Zenon DEF Accept, clients
<1>3. /\ c \in Conns \ open /\ peer[c] \notin {"none", "reset"} /\ Waiting(c)
      /\ backlog' \in Seq(Conns)
      /\ \A i \in 1..Len(backlog') : backlog'[i] # c /\ \E j \in 1..Len(backlog) : backlog'[i] = backlog[j]
      /\ \A i, j \in 1..Len(backlog') : backlog'[i] = backlog'[j] => i = j
  BY <1>1, <1>2, FirstInLine, Zenon
<1>4. /\ conn[w] = NoConn /\ request[w] = NoRequest
      /\ \A v \in Workers : conn[v] # c
  BY <1>1, <1>2, <1>3, NoWorkerYet, Zenon DEF WorkerAt
<1>5. conn'[w] = c /\ input_list'[w] = << >> /\ status'[w] = "read"
      /\ \A v \in Workers : v # w => /\ conn'[v] = conn[v] /\ input_list'[v] = input_list[v]
                                     /\ status'[v] = status[v]
  BY <1>1, <1>2, Zenon DEF SyncTypeOK
<1>6. SyncTypeOK'
  <2>1. IsFiniteSet(open') /\ Cardinality(open') = Cardinality(open) + 1 /\ Cardinality(open) \in Nat
    BY <1>1, <1>2, <1>3, LawCount, Zenon DEF SyncTypeOK
  <2>2. Cardinality(open') <= MaxFds
    BY <1>2, <2>1, SyncAssumption
  <2>3. conn' \in [Workers -> Conns \cup {NoConn}] /\ status' \in [Workers -> {"accept", "read", "answer", "ended"}]
    BY <1>1, <1>2, <1>3, Zenon DEF SyncTypeOK
  <2>4. input_list' \in [Workers -> Seq(Requests)]
    BY <1>1, <1>2, EmptyList, Zenon DEF SyncTypeOK
  <2>5. open' \subseteq Conns
    BY <1>1, <1>2, <1>3, Zenon DEF SyncTypeOK
  <2> QED BY <1>1, <1>2, <1>3, <2>1, <2>2, <2>3, <2>4, <2>5, Zenon DEF SyncTypeOK
<1>7. ASSUME NEW v \in Workers PROVE WorkerAt(v)'
  <2>1. CASE v = w
    BY <1>2, <1>4, <1>5, <2>1 DEF WorkerAt
  <2>2. CASE v # w
    BY <1>1, <1>2, <1>5, <2>2 DEF WorkerAt
  <2> QED BY <2>1, <2>2, Zenon
<1>8. Exclusive'
  BY <1>1, <1>4, <1>5 DEF Exclusive
<1>9. BacklogOK'
  <2>1. \A i \in 1..Len(backlog') : backlog'[i] \notin open' /\ peer'[backlog'[i]] \notin {"none", "reset"}
    BY <1>1, <1>2, <1>3, Zenon DEF BacklogOK
  <2>2. \A d \in open' : peer'[d] # "none"
    BY <1>1, <1>2, <1>3, Zenon DEF BacklogOK
  <2> QED BY <1>3, <2>1, <2>2, Zenon DEF BacklogOK
<1>10. ASSUME NEW d \in Conns PROVE At(d)'
  <2>1. InHand(d)' = InHand(d)
    <3>1. CASE d = c
      <4>1. InHand(c) = << >>
        BY <1>4, NothingInHand, Zenon
      <4>2. InHand(c)' = << >>
        <5>1. \A v \in Workers : conn'[v] = c => v = w
          BY <1>4, <1>5, Zenon
        <5>2. input_list'[w] \in Seq(Requests) /\ request'[w] = NoRequest
          BY <1>2, <1>4, <1>5, EmptyList, Zenon
        <5> QED BY <1>5, <5>1, <5>2, NextInHand, Zenon
      <4> QED BY <3>1, <4>1, <4>2, Zenon
    <3>2. CASE d # c
      BY <1>2, <1>3, <1>4, <1>5, <3>2, OthersInHand
    <3> QED BY <3>1, <3>2, Zenon
  <2>2. Waiting(d)' => Waiting(d)
    <3>1. CASE d = c
      BY <1>3, <3>1, Zenon
    <3>2. CASE d # c
      <4>1. (\E v \in Workers : conn'[v] = d) => \E v \in Workers : conn[v] = d
        BY <1>5, <3>2, Zenon
      <4> QED BY <1>3, <4>1 DEF Waiting
    <3> QED BY <3>1, <3>2, Zenon
  <2> QED BY <1>1, <1>2, <2>1, <2>2, Elsewhere, Zenon
<1>11. EndedOK'
  <2> SUFFICES ASSUME NEW v \in Workers, status'[v] = "ended" PROVE Exhausted'
    BY Zenon DEF EndedOK
  <2>1. v # w /\ status[v] = "ended"
    BY <1>5, Zenon
  <2>2. Exhausted
    BY <1>1, <2>1, Zenon DEF EndedOK
  <2>3. Cardinality(open) # MaxFds
    BY <1>1, <1>2, LawCount, SyncAssumption DEF SyncTypeOK
  <2>4. PICK d \in Conns \ open : peer[d] = "reset"
    BY <2>2, <2>3, Zenon DEF Exhausted
  <2> QED BY <1>2, <1>3, <2>4, Zenon DEF Exhausted
<1> QED BY <1>2, <1>6, <1>7, <1>8, <1>9, <1>10, <1>11, StillUp, Zenon

\* accept returns -1: there is no descriptor left.
LEMMA AcceptFailsKeeps ==
    ASSUME Laws, SyncInv, process = "up", NEW w \in Workers, AcceptFails(w), UNCHANGED clients
    PROVE  SyncInv'
<1>1. /\ SyncTypeOK /\ \A v \in Workers : WorkerAt(v)
      /\ Exclusive /\ BacklogOK /\ (\A d \in Conns : At(d)) /\ EndedOK
  BY ServingNow, Zenon
<1>2. /\ status[w] = "accept" /\ Cardinality(open) >= MaxFds
      /\ status' = [status EXCEPT ![w] = "ended"] /\ backlog' = backlog /\ open' = open
      /\ peer' = peer /\ rx' = rx /\ conn' = conn /\ input_list' = input_list /\ request' = request
      /\ answered' = answered /\ process' = process
      /\ sent' = sent /\ parts' = parts /\ misbehaved' = misbehaved
  BY Zenon DEF AcceptFails, clients, sockets
<1>3. status'[w] = "ended" /\ \A v \in Workers : v # w => status'[v] = status[v]
  BY <1>1, <1>2, Zenon DEF SyncTypeOK
<1>4. SyncTypeOK'
  <2>1. status' \in [Workers -> {"accept", "read", "answer", "ended"}]
    BY <1>1, <1>2, Zenon DEF SyncTypeOK
  <2> QED BY <1>1, <1>2, <2>1, Zenon DEF SyncTypeOK
<1>5. ASSUME NEW v \in Workers PROVE WorkerAt(v)'
  BY <1>1, <1>2, <1>3, Zenon DEF WorkerAt
<1>6. Exclusive' /\ BacklogOK'
  BY <1>1, <1>2, Zenon DEF Exclusive, BacklogOK
<1>7. ASSUME NEW d \in Conns PROVE At(d)'
  <2>1. InHand(d)' = InHand(d) /\ Waiting(d)' = Waiting(d)
    BY <1>2 DEF InHand, Waiting
  <2> QED BY <1>1, <1>2, <2>1, Elsewhere, Zenon
<1>8. Cardinality(open) = MaxFds
  <2>1. open \in SUBSET Conns /\ IsFiniteSet(open) /\ Cardinality(open) <= MaxFds
    BY <1>1, Zenon DEF SyncTypeOK
  <2>2. Cardinality(open) \in Nat
    BY <2>1, LawCount, Zenon
  <2>3. MaxFds \in Nat
    BY SyncAssumption, Zenon
  <2> QED BY <1>2, <2>1, <2>2, <2>3
<1>9. EndedOK'
  BY <1>2, <1>8, Zenon DEF EndedOK, Exhausted
<1> QED BY <1>2, <1>4, <1>5, <1>6, <1>7, <1>9, StillUp, Zenon

\* accept returns -1: the connection is lost to the uninitialized addr_length.
LEMMA AcceptLosesKeeps ==
    ASSUME SyncInv, process = "up", NEW w \in Workers, AcceptLoses(w), UNCHANGED clients
    PROVE  SyncInv'
<1>1. /\ SyncTypeOK /\ \A v \in Workers : WorkerAt(v)
      /\ Exclusive /\ BacklogOK /\ (\A d \in Conns : At(d)) /\ EndedOK
  BY ServingNow, Zenon
<1> PICK c : c = Head(backlog)
  BY Zenon
<1>2. /\ status[w] = "accept" /\ backlog # << >> /\ backlog' = Tail(backlog)
      /\ peer' = [peer EXCEPT ![c] = "reset"]
      /\ status' = [status EXCEPT ![w] = "ended"] /\ open' = open
      /\ rx' = rx /\ conn' = conn /\ input_list' = input_list /\ request' = request
      /\ answered' = answered /\ process' = process
      /\ sent' = sent /\ parts' = parts /\ misbehaved' = misbehaved
  BY Zenon DEF AcceptLoses, clients
<1>3. /\ c \in Conns \ open /\ peer[c] \notin {"none", "reset"} /\ Waiting(c)
      /\ backlog' \in Seq(Conns)
      /\ \A i \in 1..Len(backlog') : backlog'[i] # c /\ \E j \in 1..Len(backlog) : backlog'[i] = backlog[j]
      /\ \A i, j \in 1..Len(backlog') : backlog'[i] = backlog'[j] => i = j
  BY <1>1, <1>2, FirstInLine, Zenon
<1>4. \A v \in Workers : conn[v] # c
  BY <1>1, <1>3, NoWorkerYet, Zenon
<1>5. /\ peer'[c] = "reset" /\ \A d \in Conns : d # c => peer'[d] = peer[d]
      /\ status'[w] = "ended" /\ \A v \in Workers : v # w => status'[v] = status[v]
  BY <1>1, <1>2, <1>3, Zenon DEF SyncTypeOK
<1>6. SyncTypeOK'
  <2>1. status' \in [Workers -> {"accept", "read", "answer", "ended"}]
    BY <1>1, <1>2, Zenon DEF SyncTypeOK
  <2>2. peer' \in [Conns -> {"none", "up", "last", "idle", "closed", "reset"}]
    BY <1>1, <1>2, Zenon DEF SyncTypeOK
  <2>3. \A d \in Conns : peer'[d] \in {"none", "up"} => sent'[d] < MaxReqs
    BY <1>1, <1>2, <1>5, Zenon DEF SyncTypeOK
  <2> QED BY <1>1, <1>2, <1>3, <2>1, <2>2, <2>3, Zenon DEF SyncTypeOK
<1>7. ASSUME NEW v \in Workers PROVE WorkerAt(v)'
  BY <1>1, <1>2, <1>5, Zenon DEF WorkerAt
<1>8. Exclusive'
  BY <1>1, <1>2, Zenon DEF Exclusive
<1>9. BacklogOK'
  <2>1. ASSUME NEW i \in 1..Len(backlog')
        PROVE  backlog'[i] \notin open' /\ peer'[backlog'[i]] \notin {"none", "reset"}
    <3>1. backlog'[i] \in Conns /\ backlog'[i] # c
      BY <1>3, Element, Zenon
    <3> QED BY <1>1, <1>2, <1>3, <1>5, <3>1 DEF BacklogOK
  <2>2. \A d \in open' : peer'[d] # "none"
    BY <1>1, <1>2, <1>3, <1>5, Zenon DEF BacklogOK, SyncTypeOK
  <2> QED BY <1>3, <2>1, <2>2, Zenon DEF BacklogOK
<1>10. ASSUME NEW d \in Conns PROVE At(d)'
  <2>1. InHand(d)' = InHand(d) /\ Pending(d)' = Pending(d)
    BY <1>2 DEF InHand, Pending
  <2>2. CASE d = c
    <3>1. ~Waiting(d)'
      BY <1>2, <1>3, <1>4, <2>2, Zenon DEF Waiting
    <3> QED BY <1>1, <1>2, <1>5, <2>1, <2>2, <3>1, Zenon DEF At
  <2>3. CASE d # c
    <3>1. Waiting(d)' => Waiting(d)
      BY <1>2, <1>3 DEF Waiting
    <3> QED BY <1>1, <1>2, <1>5, <2>1, <2>3, <3>1, Elsewhere, Zenon
  <2> QED BY <2>2, <2>3, Zenon
<1>11. EndedOK'
  BY <1>2, <1>3, <1>5, Zenon DEF EndedOK, Exhausted
<1> QED BY <1>2, <1>6, <1>7, <1>8, <1>9, <1>10, <1>11, StillUp, Zenon

\* A read, or a message from the list, moves requests and loses none.
LEMMA MovedOnly ==
    ASSUME SyncInv, process = "up", NEW w \in Workers, NEW c \in Conns, conn[w] = c,
           SyncTypeOK', WorkerAt(w)',
           \A v \in Workers : v # w => /\ status'[v] = status[v] /\ request'[v] = request[v]
                                       /\ input_list'[v] = input_list[v],
           status'[w] # "ended", Pending(c)' = Pending(c),
           \A d \in Conns : d # c => rx'[d] = rx[d], rx'[c] = rx[c] \/ rx'[c] = << >>,
           UNCHANGED <<peer, backlog, open, conn, answered, process, clients>>
    PROVE  SyncInv'
<1>1. /\ SyncTypeOK /\ \A v \in Workers : WorkerAt(v)
      /\ Exclusive /\ BacklogOK /\ (\A d \in Conns : At(d)) /\ EndedOK
  BY ServingNow, Zenon
<1>2. /\ peer' = peer /\ backlog' = backlog /\ open' = open /\ conn' = conn /\ answered' = answered
      /\ process' = process /\ sent' = sent /\ parts' = parts /\ misbehaved' = misbehaved
  BY Zenon DEF clients
<1>3. ASSUME NEW v \in Workers PROVE WorkerAt(v)'
  <2>1. CASE v = w
    BY <2>1, Zenon
  <2>2. CASE v # w
    <3>1. WorkerAt(v) /\ status'[v] = status[v] /\ request'[v] = request[v] /\ input_list'[v] = input_list[v]
      BY <1>1, <2>2, Zenon
    <3> QED BY <1>2, <3>1, Zenon DEF WorkerAt
  <2> QED BY <2>1, <2>2, Zenon
<1>4. Exclusive' /\ BacklogOK'
  BY <1>1, <1>2 DEF Exclusive, BacklogOK
<1>5. ASSUME NEW d \in Conns PROVE At(d)'
  <2>1. Waiting(d)' = Waiting(d)
    BY <1>2, Zenon DEF Waiting
  <2>2. CASE d = c
    <3>1. \A i \in 1..Len(rx'[c]) : rx'[c][i].kind = "bad" => c \in misbehaved
      <4>1. CASE rx'[c] = rx[c]
        BY <1>1, <4>1, Zenon DEF At
      <4>2. CASE rx'[c] = << >>
        BY <4>2
      <4> QED BY <4>1, <4>2, Zenon
    <3>2. At(c)
      BY <1>1, Zenon
    <3>3. Pending(d)' = Pending(d)
      BY <2>2, Zenon
    <3> QED BY <1>2, <2>1, <2>2, <3>1, <3>2, <3>3, Zenon DEF At
  <2>3. CASE d # c
    <3>1. InHand(d)' = InHand(d)
      BY <1>2, <2>3, OthersInHand, Zenon
    <3> QED BY <1>1, <1>2, <2>1, <2>3, <3>1, Elsewhere, Zenon
  <2> QED BY <2>2, <2>3, Zenon
<1>6. EndedOK'
  BY <1>1, <1>2, Zenon DEF EndedOK, Exhausted
<1> QED BY <1>2, <1>3, <1>4, <1>5, <1>6, StillUp, Zenon

\* A list that is not empty is its first element and the rest.
LEMMA HeadAndTail ==
    ASSUME NEW S, NEW l \in Seq(S), l # << >>
    PROVE  /\ Head(l) \in S /\ Tail(l) \in Seq(S)
           /\ <<Head(l)>> \o Tail(l) = l
<1> DEFINE h == Head(l)
           t == Tail(l)
<1>1. /\ h \in S /\ t \in Seq(S) /\ Len(t) = Len(l) - 1 /\ h = l[1]
      /\ \A i \in 1..Len(t) : t[i] = l[i + 1]
  BY HeadTail
<1>2. Len(l) \in Nat \ {0}
  BY EmptyList, Zenon
<1> HIDE DEF h, t
<1>3. <<h>> \in Seq(S) /\ Len(<<h>>) = 1 /\ <<h>>[1] = h
  BY <1>1
<1>4. /\ <<h>> \o t \in Seq(S) /\ Len(<<h>> \o t) = 1 + Len(t)
      /\ \A i \in 1..(1 + Len(t)) : (<<h>> \o t)[i] = IF i <= 1 THEN <<h>>[i] ELSE t[i - 1]
  BY <1>1, <1>3, Joined
<1>5. 1 + Len(t) = Len(l)
  BY <1>1, <1>2
<1>6. ASSUME NEW i \in 1..Len(l) PROVE (<<h>> \o t)[i] = l[i]
  <2>1. CASE i <= 1
    <3>1. i = 1
      BY <1>2, <2>1
    <3> QED BY <1>1, <1>3, <1>4, <1>5, <3>1
  <2>2. CASE ~(i <= 1)
    <3>1. i - 1 \in 1..Len(t) /\ (i - 1) + 1 = i
      BY <1>1, <1>2, <2>2
    <3>2. t[i - 1] = l[i]
      BY <1>1, <3>1, Zenon
    <3> QED BY <1>4, <1>5, <2>2, <3>2, Zenon
  <2> QED BY <2>1, <2>2, Zenon
<1>7. <<h>> \o t = l
  BY <1>4, <1>5, <1>6, SameList, Zenon
<1> QED BY <1>1, <1>7, Zenon DEF h, t

\* sync_connection_read_message hands out the oldest message of a list.
LEMMA HandedOut ==
    ASSUME SyncTypeOK, NEW w \in Workers, NEW l \in Seq(Requests), l # << >>, HandOut(w, l)
    PROVE  /\ request'[w] \in Requests /\ input_list'[w] \in Seq(Requests)
           /\ status'[w] = "answer" /\ <<request'[w]>> \o input_list'[w] = l
           /\ \A v \in Workers : v # w => /\ status'[v] = status[v] /\ request'[v] = request[v]
                                          /\ input_list'[v] = input_list[v]
           /\ status' \in [Workers -> {"accept", "read", "answer", "ended"}]
           /\ request' \in [Workers -> Requests \cup {NoRequest}]
           /\ input_list' \in [Workers -> Seq(Requests)]
<1>1. Head(l) \in Requests /\ Tail(l) \in Seq(Requests) /\ <<Head(l)>> \o Tail(l) = l
  BY HeadAndTail, Zenon
<1>2. PICK h, t : h = Head(l) /\ t = Tail(l)
  BY Zenon
<1>3. /\ request' = [request EXCEPT ![w] = h] /\ input_list' = [input_list EXCEPT ![w] = t]
      /\ status' = [status EXCEPT ![w] = "answer"]
  BY <1>2, Zenon DEF HandOut
<1>4. h \in Requests /\ t \in Seq(Requests) /\ <<h>> \o t = l
  BY <1>1, <1>2, Zenon
<1>5. /\ status \in [Workers -> {"accept", "read", "answer", "ended"}]
      /\ request \in [Workers -> Requests \cup {NoRequest}]
      /\ input_list \in [Workers -> Seq(Requests)]
  BY Zenon DEF SyncTypeOK
<1>6. request'[w] = h /\ input_list'[w] = t /\ status'[w] = "answer"
  BY <1>3, <1>5, Zenon
<1> QED BY <1>3, <1>4, <1>5, <1>6, Zenon

\* The worker of a connection and its list.
LEMMA Reader ==
    ASSUME Laws, SyncInv, process = "up", NEW w \in Workers, status[w] = "read"
    PROVE  /\ conn[w] \in Conns /\ conn[w] \in open /\ request[w] = NoRequest
           /\ \A v \in Workers : conn[v] = conn[w] => v = w
           /\ InHand(conn[w]) = input_list[w] /\ input_list[w] \in Seq(Requests)
           /\ rx[conn[w]] \in Seq(Tokens) /\ Messages(rx[conn[w]]) \in Seq(Requests)
           /\ Waiting(conn[w])
<1>1. SyncTypeOK /\ WorkerAt(w) /\ Exclusive
  BY ServingNow, Zenon
<1>2. conn[w] \in open /\ request[w] = NoRequest /\ open \subseteq Conns
  BY <1>1, Zenon DEF WorkerAt, SyncTypeOK
<1>3. conn[w] \in Conns /\ input_list[w] \in Seq(Requests)
  BY <1>1, <1>2, Zenon DEF SyncTypeOK
<1>4. \A v \in Workers : conn[v] = conn[w] => v = w
  BY <1>1, <1>3, Zenon DEF Exclusive
<1>5. InHand(conn[w]) = input_list[w]
  <2>1. PICK c : c = conn[w]
    BY Zenon
  <2> QED BY <1>2, <1>3, <1>4, <2>1, NowInHand, Zenon
<1>6. rx[conn[w]] \in Seq(Tokens)
  BY <1>1, <1>3, Zenon DEF SyncTypeOK
<1> QED BY <1>2, <1>3, <1>4, <1>5, <1>6, LawType, Zenon DEF Waiting

\* A message left from the last read is handed out.
LEMMA NextMessageKeeps ==
    ASSUME Laws, SyncInv, process = "up", NEW w \in Workers, NextMessage(w), UNCHANGED clients
    PROVE  SyncInv'
<1>1. SyncTypeOK
  BY ServingNow, Zenon
<1>2. /\ status[w] = "read" /\ input_list[w] # << >> /\ HandOut(w, input_list[w])
      /\ peer' = peer /\ rx' = rx /\ backlog' = backlog /\ open' = open /\ conn' = conn
      /\ answered' = answered /\ process' = process
      /\ sent' = sent /\ parts' = parts /\ misbehaved' = misbehaved
  BY Zenon DEF NextMessage, sockets, clients
<1> PICK c : c = conn[w]
  BY Zenon
<1>3. /\ c \in Conns /\ c \in open /\ \A v \in Workers : conn[v] = c => v = w
      /\ InHand(c) = input_list[w] /\ input_list[w] \in Seq(Requests)
  BY <1>2, Reader, Zenon
<1>4. /\ request'[w] \in Requests /\ input_list'[w] \in Seq(Requests)
      /\ status'[w] = "answer" /\ <<request'[w]>> \o input_list'[w] = input_list[w]
      /\ \A v \in Workers : v # w => /\ status'[v] = status[v] /\ request'[v] = request[v]
                                     /\ input_list'[v] = input_list[v]
      /\ status' \in [Workers -> {"accept", "read", "answer", "ended"}]
      /\ request' \in [Workers -> Requests \cup {NoRequest}]
      /\ input_list' \in [Workers -> Seq(Requests)]
  BY <1>1, <1>2, <1>3, HandedOut, Zenon
<1>5. InHand(c)' = <<request'[w]>> \o input_list'[w]
  <2>1. /\ conn'[w] = c /\ (\A v \in Workers : conn'[v] = c => v = w)
        /\ request'[w] # NoRequest
    BY <1>2, <1>3, <1>4, RequestsAre, Zenon
  <2> QED BY <1>4, <2>1, NextInHand, Zenon
<1>6. Pending(c)' = Pending(c)
  BY <1>2, <1>3, <1>4, <1>5, Zenon DEF Pending
<1>7. SyncTypeOK'
  BY <1>1, <1>2, <1>4, Zenon DEF SyncTypeOK
<1>8. WorkerAt(w)'
  BY <1>2, <1>3, <1>4, Zenon DEF WorkerAt
<1> QED BY <1>2, <1>3, <1>4, <1>6, <1>7, <1>8, MovedOnly, Zenon DEF clients

\* A buffer is read.
LEMMA ReadBufferKeeps ==
    ASSUME Laws, SyncInv, process = "up", NEW w \in Workers, ReadBuffer(w), UNCHANGED clients
    PROVE  SyncInv'
<1>1. SyncTypeOK
  BY ServingNow, Zenon
<1> PICK c : c = conn[w]
  BY Zenon
<1> PICK m : m = MessagesOf(rx[c])
  BY Zenon
<1>2. /\ status[w] = "read" /\ input_list[w] = << >> /\ ~HasBad(rx[c])
      /\ rx' = [rx EXCEPT ![c] = << >>]
      /\ peer' = peer /\ backlog' = backlog /\ open' = open /\ conn' = conn
      /\ answered' = answered /\ process' = process
      /\ sent' = sent /\ parts' = parts /\ misbehaved' = misbehaved
  BY Zenon DEF ReadBuffer, clients
<1>3. \/ m # << >> /\ HandOut(w, m)
      \/ m = << >> /\ UNCHANGED <<input_list, request, status>>
  BY Zenon DEF ReadBuffer
<1>4. /\ c \in Conns /\ c \in open /\ request[w] = NoRequest
      /\ \A v \in Workers : conn[v] = c => v = w
      /\ InHand(c) = << >> /\ rx[c] \in Seq(Tokens) /\ Messages(rx[c]) \in Seq(Requests)
  BY <1>2, Reader, Zenon
<1>5. m = Messages(rx[c]) /\ m \in Seq(Requests)
  BY <1>2, <1>4, LawGood, Zenon
<1>6. rx'[c] = << >> /\ \A d \in Conns : d # c => rx'[d] = rx[d]
  BY <1>1, <1>2, <1>4, Zenon DEF SyncTypeOK
<1>7. Pending(c) = m
  BY <1>4, <1>5, JoinEmpty, Zenon DEF Pending
<1>8. rx' \in [Conns -> Seq(Tokens)] /\ \A d \in Conns : Len(rx'[d]) <= RcvCap
  <2>1. rx' \in [Conns -> Seq(Tokens)]
    BY <1>1, <1>2, EmptyList, Zenon DEF SyncTypeOK
  <2>2. Len(<< >>) <= RcvCap
    BY SyncAssumption
  <2> QED BY <1>1, <1>6, <2>1, <2>2, Zenon DEF SyncTypeOK
<1>9. CASE m # << >> /\ HandOut(w, m)
  <2>1. /\ request'[w] \in Requests /\ input_list'[w] \in Seq(Requests)
        /\ status'[w] = "answer" /\ <<request'[w]>> \o input_list'[w] = m
        /\ \A v \in Workers : v # w => /\ status'[v] = status[v] /\ request'[v] = request[v]
                                       /\ input_list'[v] = input_list[v]
        /\ status' \in [Workers -> {"accept", "read", "answer", "ended"}]
        /\ request' \in [Workers -> Requests \cup {NoRequest}]
        /\ input_list' \in [Workers -> Seq(Requests)]
    BY <1>1, <1>5, <1>9, HandedOut, Zenon
  <2>2. InHand(c)' = m
    <3>1. /\ conn'[w] = c /\ (\A v \in Workers : conn'[v] = c => v = w)
          /\ request'[w] # NoRequest
      BY <1>2, <1>4, <2>1, RequestsAre, Zenon
    <3>2. InHand(c)' = <<request'[w]>> \o input_list'[w]
      BY <2>1, <3>1, NextInHand, Zenon
    <3> QED BY <2>1, <3>2, Zenon
  <2>3. Pending(c)' = m
    BY <1>5, <1>6, <2>2, LawEmpty, JoinEmpty, Zenon DEF Pending
  <2>4. SyncTypeOK'
    BY <1>1, <1>2, <1>8, <2>1, Zenon DEF SyncTypeOK
  <2>5. WorkerAt(w)'
    BY <1>2, <1>4, <2>1, Zenon DEF WorkerAt
  <2> QED BY <1>2, <1>4, <1>6, <1>7, <2>1, <2>3, <2>4, <2>5, MovedOnly, Zenon DEF clients
<1>10. CASE m = << >> /\ UNCHANGED <<input_list, request, status>>
  <2>1. InHand(c)' = InHand(c)
    BY <1>2, <1>10 DEF InHand
  <2>2. Pending(c)' = << >>
    BY <1>4, <1>6, <2>1, LawEmpty DEF Pending
  <2>3. SyncTypeOK'
    BY <1>1, <1>2, <1>8, <1>10, Zenon DEF SyncTypeOK
  <2>4. WorkerAt(w)'
    BY <1>2, <1>4, <1>10, Zenon DEF WorkerAt
  <2> QED BY <1>2, <1>4, <1>6, <1>7, <1>10, <2>2, <2>3, <2>4, MovedOnly DEF clients
<1> QED BY <1>3, <1>9, <1>10, Zenon

\* A buffer with an error ends the process: its client sent it.
LEMMA ParseErrorKeeps ==
    ASSUME Laws, SyncInv, process = "up", NEW w \in Workers, ParseError(w), UNCHANGED clients
    PROVE  SyncInv'
<1>1. SyncTypeOK /\ (\A v \in Workers : WorkerAt(v)) /\ \A d \in Conns : At(d)
  BY ServingNow, Zenon
<1> PICK c : c = conn[w]
  BY Zenon
<1>2. /\ status[w] = "read" /\ HasBad(rx[c]) /\ rx' = [rx EXCEPT ![c] = << >>]
      /\ process' \in {"no request", "invariants failed"}
      /\ peer' = peer /\ backlog' = backlog /\ open' = open /\ conn' = conn /\ status' = status
      /\ input_list' = input_list /\ request' = request /\ answered' = answered
      /\ sent' = sent /\ parts' = parts /\ misbehaved' = misbehaved
  BY Zenon DEF ParseError, clients, workers
<1>3. c \in Conns
  BY <1>2, Reader, Zenon
<1>4. c \in misbehaved
  BY <1>1, <1>2, <1>3, Zenon DEF At, HasBad
<1>5. rx'[c] = << >> /\ \A d \in Conns : d # c => rx'[d] = rx[d]
  BY <1>1, <1>2, <1>3, Zenon DEF SyncTypeOK
<1>6. rx' \in [Conns -> Seq(Tokens)] /\ \A d \in Conns : Len(rx'[d]) <= RcvCap
  <2>1. rx' \in [Conns -> Seq(Tokens)]
    BY <1>1, <1>2, EmptyList, Zenon DEF SyncTypeOK
  <2>2. Len(<< >>) <= RcvCap
    BY SyncAssumption
  <2> QED BY <1>1, <1>5, <2>1, <2>2, Zenon DEF SyncTypeOK
<1>7. SyncTypeOK'
  BY <1>1, <1>2, <1>6, Zenon DEF SyncTypeOK
<1>8. \A v \in Workers : WorkerAt(v)'
  BY <1>1, <1>2, Zenon DEF WorkerAt
<1>9. EndsOnlyForCause'
  BY <1>2, <1>4, Zenon DEF EndsOnlyForCause
<1> QED BY <1>2, <1>7, <1>8, <1>9, Zenon DEF SyncInv

\* So does a client that left or fell silent.
LEMMA ReadFailsKeeps ==
    ASSUME Laws, SyncInv, process = "up", NEW w \in Workers, ReadFails(w), UNCHANGED clients
    PROVE  SyncInv'
<1>1. SyncTypeOK /\ (\A v \in Workers : WorkerAt(v)) /\ \A d \in Conns : At(d)
  BY ServingNow, Zenon
<1> PICK c : c = conn[w]
  BY Zenon
<1>2. /\ status[w] = "read" /\ peer[c] \in {"closed", "reset", "idle"}
      /\ process' = "no request" /\ rx' = rx
      /\ peer' = peer /\ backlog' = backlog /\ open' = open /\ conn' = conn /\ status' = status
      /\ input_list' = input_list /\ request' = request /\ answered' = answered
      /\ sent' = sent /\ parts' = parts /\ misbehaved' = misbehaved
  BY Zenon DEF ReadFails, clients, workers, sockets
<1>3. c \in Conns /\ Waiting(c)
  BY <1>2, Reader, Zenon
<1>4. c \in misbehaved
  BY <1>1, <1>2, <1>3, Zenon DEF At
<1>5. SyncTypeOK'
  BY <1>1, <1>2, Zenon DEF SyncTypeOK
<1>6. \A v \in Workers : WorkerAt(v)'
  BY <1>1, <1>2, Zenon DEF WorkerAt
<1>7. EndsOnlyForCause'
  BY <1>2, <1>4, Zenon DEF EndsOnlyForCause
<1> QED BY <1>2, <1>5, <1>6, <1>7, Zenon DEF SyncInv

\* sync_server_listen returns when every worker has ended.
LEMMA ListenKeeps == SyncInv /\ Listen => SyncInv'
<1> SUFFICES ASSUME SyncInv, Listen PROVE SyncInv'
  BY Zenon
<1>1. /\ process = "up" /\ (\A w \in Workers : status[w] = "ended") /\ process' = "ended"
      /\ rx' = rx /\ peer' = peer /\ backlog' = backlog /\ open' = open /\ conn' = conn
      /\ status' = status /\ input_list' = input_list /\ request' = request
      /\ answered' = answered /\ sent' = sent /\ parts' = parts /\ misbehaved' = misbehaved
  BY Zenon DEF Listen, clients, workers, sockets
<1>2. SyncTypeOK /\ (\A v \in Workers : WorkerAt(v)) /\ EndedOK
  BY <1>1, ServingNow, Zenon
<1>3. Exhausted
  BY <1>1, <1>2, SyncAssumption, Zenon DEF EndedOK
<1>4. SyncTypeOK'
  BY <1>1, <1>2, Zenon DEF SyncTypeOK
<1>5. \A v \in Workers : WorkerAt(v)'
  BY <1>1, <1>2, Zenon DEF WorkerAt
<1>6. EndsOnlyForCause'
  BY <1>1, <1>3, Zenon DEF EndsOnlyForCause, Exhausted
<1> QED BY <1>1, <1>4, <1>5, <1>6, Zenon DEF SyncInv

\* A request is answered; without keep-alive the connection is left.
LEMMA AnswerKeeps ==
    ASSUME Laws, SyncInv, process = "up", NEW w \in Workers, Answer(w), UNCHANGED clients
    PROVE  SyncInv'
<1>1. /\ SyncTypeOK /\ \A v \in Workers : WorkerAt(v)
      /\ Exclusive /\ BacklogOK /\ (\A d \in Conns : At(d)) /\ EndedOK
  BY ServingNow, Zenon
<1> PICK c : c = conn[w]
  BY Zenon
<1> PICK r : r = request[w]
  BY Zenon
<1> PICK l : l = input_list[w]
  BY Zenon
<1> PICK m : m = Messages(rx[c])
  BY Zenon
<1> PICK q : q = l \o m
  BY Zenon
<1> DEFINE next == IF peer[c] = "closed" THEN "reset" ELSE peer[c]
<1>2. /\ status[w] = "answer"
      /\ process' = IF peer[c] = "reset" THEN "killed" ELSE process
      /\ peer' = [peer EXCEPT ![c] = next]
      /\ answered' = [answered EXCEPT ![c] = Append(answered[c], r.n)]
      /\ request' = [request EXCEPT ![w] = NoRequest]
      /\ rx' = rx /\ backlog' = backlog /\ open' = open
      /\ sent' = sent /\ parts' = parts /\ misbehaved' = misbehaved
  BY Zenon DEF Answer, clients
<1>3. \/ /\ r.kind = "keep" /\ status' = [status EXCEPT ![w] = "read"]
         /\ conn' = conn /\ input_list' = input_list
      \/ /\ r.kind # "keep" /\ status' = [status EXCEPT ![w] = "accept"]
         /\ conn' = [conn EXCEPT ![w] = NoConn] /\ input_list' = [input_list EXCEPT ![w] = << >>]
  BY Zenon DEF Answer
<1>4. c \in open /\ c \in Conns /\ r \in Requests /\ l \in Seq(Requests) /\ Waiting(c)
  BY <1>1, <1>2, Zenon DEF WorkerAt, SyncTypeOK, Waiting
<1>5. m \in Seq(Requests) /\ q \in Seq(Requests)
  BY <1>1, <1>4, PendingType, Joined, Zenon
<1>6. r # NoRequest /\ r.n \in Nat /\ r.kind \in {"keep", "close"}
  BY <1>4, RequestsAre
<1>7. \A v \in Workers : conn[v] = c => v = w
  BY <1>1, <1>4, Zenon DEF Exclusive
<1>8. Pending(c) = <<r>> \o q
  <2>1. InHand(c) = <<r>> \o l
    BY <1>4, <1>6, <1>7, NowInHand, Zenon
  <2>2. <<r>> \in Seq(Requests)
    BY <1>4
  <2>3. (<<r>> \o l) \o m = <<r>> \o (l \o m)
    <3>1. PICK u : u = <<r>>
      BY Zenon
    <3>2. u \in Seq(Requests) /\ l \in Seq(Requests) /\ m \in Seq(Requests)
      BY <1>4, <1>5, <2>2, <3>1, Zenon
    <3>3. (u \o l) \o m = u \o (l \o m)
      BY ONLY <3>2, JoinAssociates
    <3> QED BY <3>1, <3>3, Zenon
  <2> QED BY <2>1, <2>3, Zenon DEF Pending
<1>9. /\ InOrder(Append(answered[c], r.n), q, sent[c]) /\ CloseEnds(q)
      /\ AllKeep(Pending(c)) => AllKeep(q)
      /\ r.kind = "close" => q = << >>
      /\ r.kind = "keep" /\ EndsInClose(Pending(c)) => EndsInClose(q)
  <2>1. answered[c] \in Seq(Nat) /\ sent[c] \in Nat
    BY <1>1, <1>4 DEF SyncTypeOK
  <2>2. InOrder(answered[c], <<r>> \o q, sent[c]) /\ CloseEnds(<<r>> \o q)
    BY <1>1, <1>4, <1>8, Zenon DEF At
  <2>3. PICK a, n : a = answered[c] /\ n = sent[c]
    BY Zenon
  <2>4. /\ InOrder(Append(a, r.n), q, n) /\ CloseEnds(q)
        /\ AllKeep(<<r>> \o q) => AllKeep(q)
        /\ r.kind = "close" => q = << >>
        /\ r.kind = "keep" /\ EndsInClose(<<r>> \o q) => EndsInClose(q)
    <3>1. a \in Seq(Nat) /\ n \in Nat /\ InOrder(a, <<r>> \o q, n) /\ CloseEnds(<<r>> \o q)
      BY <2>1, <2>2, <2>3, Zenon
    <3> QED BY ONLY <1>4, <1>5, <3>1, OneAnswered, Zenon
  <2> QED BY <1>8, <2>3, <2>4, Zenon
<1>10. /\ request'[w] = NoRequest /\ \A v \in Workers : v # w => request'[v] = request[v]
       /\ peer'[c] = next /\ \A d \in Conns : d # c => peer'[d] = peer[d]
       /\ answered'[c] = Append(answered[c], r.n)
       /\ \A d \in Conns : d # c => answered'[d] = answered[d]
  BY <1>1, <1>2, <1>4, Zenon DEF SyncTypeOK
<1>11. /\ conn'[w] \in {c, NoConn} /\ status'[w] \in {"read", "accept"}
       /\ r.kind = "keep" => conn'[w] = c /\ status'[w] = "read" /\ input_list'[w] = l
       /\ r.kind = "close" => conn'[w] = NoConn /\ status'[w] = "accept" /\ input_list'[w] = << >>
       /\ \A v \in Workers : v # w => /\ conn'[v] = conn[v] /\ status'[v] = status[v]
                                      /\ input_list'[v] = input_list[v]
  BY <1>1, <1>3, <1>6, Zenon DEF SyncTypeOK
<1>12. SyncTypeOK'
  <2>1. next \in {"none", "up", "last", "idle", "closed", "reset"}
    BY <1>1, <1>4, Zenon DEF SyncTypeOK
  <2>2. \A d \in Conns : peer'[d] \in {"none", "up"} => sent'[d] < MaxReqs
    BY <1>1, <1>2, <1>4, <1>10, Zenon DEF SyncTypeOK
  <2> HIDE DEF next
  <2>3. peer' \in [Conns -> {"none", "up", "last", "idle", "closed", "reset"}]
    BY <1>1, <1>2, <2>1, Zenon DEF SyncTypeOK
  <2>4. Append(answered[c], r.n) \in Seq(Nat)
    BY <1>1, <1>4, <1>6, Appended, Zenon DEF SyncTypeOK
  <2>5. answered' \in [Conns -> Seq(Nat)]
    BY <1>1, <1>2, <2>4, Zenon DEF SyncTypeOK
  <2>6. request' \in [Workers -> Requests \cup {NoRequest}]
    BY <1>1, <1>2, Zenon DEF SyncTypeOK
  <2>7. /\ status' \in [Workers -> {"accept", "read", "answer", "ended"}]
        /\ conn' \in [Workers -> Conns \cup {NoConn}]
        /\ input_list' \in [Workers -> Seq(Requests)]
    <3>1. /\ status \in [Workers -> {"accept", "read", "answer", "ended"}]
          /\ conn \in [Workers -> Conns \cup {NoConn}]
          /\ input_list \in [Workers -> Seq(Requests)]
      BY <1>1, Zenon DEF SyncTypeOK
    <3>2. << >> \in Seq(Requests)
      BY EmptyList, Zenon
    <3> QED BY <1>3, <3>1, <3>2, Zenon
  <2>8. process' \in {"up", "no request", "invariants failed", "killed", "ended"}
    BY <1>1, <1>2, Zenon DEF SyncTypeOK
  <2> QED BY <1>1, <1>2, <2>2, <2>3, <2>5, <2>6, <2>7, <2>8, Zenon DEF SyncTypeOK
<1>13. ASSUME NEW v \in Workers PROVE WorkerAt(v)'
  <2>1. CASE v = w
    BY <1>2, <1>4, <1>6, <1>10, <1>11, <2>1, Zenon DEF WorkerAt
  <2>2. CASE v # w
    BY <1>1, <1>2, <1>10, <1>11, <2>2 DEF WorkerAt
  <2> QED BY <2>1, <2>2, Zenon
<1>14. CASE peer[c] = "reset"
  <2>1. process' = "killed" /\ peer'[c] = "reset"
    BY <1>2, <1>10, <1>14, Zenon
  <2>2. c \in misbehaved'
    BY <1>1, <1>2, <1>4, <1>14, Zenon DEF At
  <2>3. EndsOnlyForCause'
    BY <2>1, <2>2, Zenon DEF EndsOnlyForCause
  <2> QED BY <1>12, <1>13, <2>1, <2>3, Zenon DEF SyncInv
<1>15. CASE peer[c] # "reset"
  <2>1. process' = "up"
    BY <1>2, <1>15, Zenon
  <2>2. Exclusive'
    BY <1>1, <1>7, <1>11, SyncAssumption DEF Exclusive
  <2>3. \A i \in 1..Len(backlog) : backlog[i] # c /\ backlog[i] \in Conns
    BY <1>1, <1>4, Element, Zenon DEF BacklogOK, SyncTypeOK
  <2>4. BacklogOK'
    <3>1. \A i \in 1..Len(backlog') : backlog'[i] \notin open' /\ peer'[backlog'[i]] \notin {"none", "reset"}
      BY <1>1, <1>2, <1>10, <2>3 DEF BacklogOK
    <3>2. \A d \in open' : peer'[d] # "none"
      BY <1>1, <1>2, <1>4, <1>10, Zenon DEF BacklogOK, SyncTypeOK
    <3> QED BY <1>1, <1>2, <3>1, <3>2, Zenon DEF BacklogOK
  <2>5. Pending(c)' = q
    <3>1. CASE r.kind = "keep"
      <4>1. conn'[w] = c /\ (\A v \in Workers : conn'[v] = c => v = w) /\ input_list'[w] = l
        BY <1>7, <1>11, <3>1, Zenon
      <4>2. InHand(c)' = l
        BY <1>4, <1>10, <4>1, NextInHand, Zenon
      <4> QED BY <1>2, <4>2, Zenon DEF Pending
    <3>2. CASE r.kind = "close"
      <4>1. \A v \in Workers : conn'[v] # c
        BY <1>4, <1>7, <1>11, <3>2, SyncAssumption, Zenon
      <4>2. InHand(c)' = << >>
        BY <4>1, NothingInHand, Zenon
      <4>3. q = << >> /\ l = << >> /\ m = << >>
        BY <1>4, <1>5, <1>9, <3>2, JoinNothing
      <4> QED BY <1>2, <4>2, <4>3, Zenon DEF Pending
    <3> QED BY <1>6, <3>1, <3>2, Zenon
  <2>6. Waiting(c)' => r.kind = "keep"
    <3> SUFFICES ASSUME r.kind = "close" PROVE ~Waiting(c)'
      BY <1>6, Zenon
    <3>1. \A v \in Workers : conn'[v] # c
      BY <1>4, <1>7, <1>11, SyncAssumption, Zenon
    <3> QED BY <1>2, <2>3, <3>1, Zenon DEF Waiting
  <2>7. At(c)'
    <3>1. At(c)
      BY <1>1, <1>4, Zenon
    <3>2. InOrder(answered'[c], Pending(c)', sent'[c]) /\ CloseEnds(Pending(c)')
      BY <1>2, <1>9, <1>10, <2>5, Zenon
    <3>3. peer'[c] \in {"none", "up", "idle"} => AllKeep(Pending(c)')
      BY <1>9, <1>10, <2>5, <3>1, Zenon DEF At
    <3>4. Waiting(c)' /\ peer'[c] = "last" /\ c \notin misbehaved' => EndsInClose(Pending(c)')
      BY <1>2, <1>4, <1>9, <1>10, <2>5, <2>6, <3>1, Zenon DEF At
    <3>5. Waiting(c)' /\ peer'[c] \in {"closed", "reset", "idle"} => c \in misbehaved'
      BY <1>2, <1>4, <1>10, <1>15, <3>1, Zenon DEF At
    <3>6. \A i \in 1..Len(rx'[c]) : rx'[c][i].kind = "bad" => c \in misbehaved'
      BY <1>2, <3>1, Zenon DEF At
    <3> HIDE DEF next
    <3> QED BY <3>2, <3>3, <3>4, <3>5, <3>6, Zenon DEF At
  <2>8. ASSUME NEW d \in Conns PROVE At(d)'
    <3>1. CASE d = c
      BY <2>7, <3>1, Zenon
    <3>2. CASE d # c
      <4>1. /\ InHand(d)' = InHand(d)
            /\ (\E v \in Workers : conn'[v] = d) => \E v \in Workers : conn[v] = d
        BY <1>4, <1>10, <1>11, <3>2, OthersInHand
      <4>2. Waiting(d)' => Waiting(d)
        BY <1>2, <4>1, Zenon DEF Waiting
      <4> QED BY <1>1, <1>2, <1>10, <3>2, <4>1, <4>2, Elsewhere, Zenon
    <3> QED BY <3>1, <3>2, Zenon
  <2>9. EndedOK'
    <3> SUFFICES ASSUME NEW v \in Workers, status'[v] = "ended" PROVE Exhausted'
      BY Zenon DEF EndedOK
    <3>1. status[v] = "ended"
      BY <1>11, Zenon
    <3>2. Exhausted
      BY <1>1, <3>1, Zenon DEF EndedOK
    <3> QED BY <1>2, <1>4, <1>10, <3>2, Zenon DEF Exhausted
  <2> QED BY <1>12, <1>13, <2>1, <2>2, <2>4, <2>8, <2>9, StillUp, Zenon
<1> QED BY <1>14, <1>15, Zenon

-----------------------------------------------------------------------------
(* Steps of the clients *)

\* A client's step leaves other connections than its own alone.
LEMMA ClientMoves ==
    ASSUME SyncInv, process = "up", NEW c \in Conns, SyncTypeOK', BacklogOK', At(c)',
           UNCHANGED <<workers, answered, process, open>>, peer[c] # "reset",
           \A d \in Conns : d # c => /\ rx'[d] = rx[d] /\ peer'[d] = peer[d] /\ sent'[d] = sent[d]
                                     /\ d \in misbehaved' <=> d \in misbehaved
                                     /\ Waiting(d)' => Waiting(d)
    PROVE  SyncInv'
<1>1. /\ SyncTypeOK /\ \A v \in Workers : WorkerAt(v)
      /\ Exclusive /\ BacklogOK /\ (\A d \in Conns : At(d)) /\ EndedOK
  BY ServingNow, Zenon
<1>2. /\ status' = status /\ conn' = conn /\ input_list' = input_list /\ request' = request
      /\ answered' = answered /\ process' = process /\ open' = open
  BY Zenon DEF workers
<1>3. (\A v \in Workers : WorkerAt(v)') /\ Exclusive'
  BY <1>1, <1>2, Zenon DEF WorkerAt, Exclusive
<1>4. ASSUME NEW d \in Conns PROVE At(d)'
  <2>1. CASE d = c
    BY <2>1, Zenon
  <2>2. CASE d # c
    <3>1. InHand(d)' = InHand(d)
      BY <1>2 DEF InHand
    <3> QED BY <1>1, <1>2, <2>2, <3>1, Elsewhere, Zenon
  <2> QED BY <2>1, <2>2, Zenon
<1>5. EndedOK'
  BY <1>1, <1>2, Zenon DEF EndedOK, Exhausted
<1> QED BY <1>2, <1>3, <1>4, <1>5, StillUp, Zenon

\* A connected client sends, leaves or falls silent.
LEMMA ConnectedMoves ==
    ASSUME SyncInv, process = "up", NEW c \in Conns, SyncTypeOK', At(c)',
           UNCHANGED <<workers, answered, process, backlog, open>>,
           peer[c] \notin {"none", "reset"}, peer'[c] \notin {"none", "reset"},
           \A d \in Conns : d # c => /\ rx'[d] = rx[d] /\ peer'[d] = peer[d] /\ sent'[d] = sent[d]
                                     /\ d \in misbehaved' <=> d \in misbehaved
    PROVE  SyncInv'
<1>1. SyncTypeOK /\ BacklogOK
  BY ServingNow, Zenon
<1>2. \A d \in Conns : peer'[d] \in {"none", "reset"} <=> peer[d] \in {"none", "reset"}
  BY Zenon
<1>3. \A d \in Conns : peer'[d] = "none" => peer[d] = "none"
  BY Zenon
<1>4. BacklogOK'
  <2>1. \A i \in 1..Len(backlog) : backlog[i] \in Conns
    BY <1>1, Element, Zenon DEF SyncTypeOK
  <2>2. \A i \in 1..Len(backlog') : backlog'[i] \notin open' /\ peer'[backlog'[i]] \notin {"none", "reset"}
    BY <1>1, <1>2, <2>1, Zenon DEF BacklogOK
  <2>3. \A d \in open' : peer'[d] # "none"
    BY <1>1, <1>3, Zenon DEF BacklogOK, SyncTypeOK
  <2> QED BY <1>1, <2>2, <2>3 DEF BacklogOK
<1>5. \A d \in Conns : Waiting(d)' => Waiting(d)
  BY Zenon DEF Waiting, workers
<1> QED BY <1>4, <1>5, ClientMoves, Zenon DEF workers

\* A token arrives.
LEMMA Arrived ==
    ASSUME Laws, SyncTypeOK, NEW c \in Conns, NEW kind \in {"part", "keep", "close", "bad"},
           Sending(c), Arrive(c, kind)
    PROVE  /\ peer[c] = "up" /\ sent[c] < MaxReqs /\ sent[c] \in Nat
           /\ Token(kind, sent[c] + 1) \in Tokens
           /\ rx' \in [Conns -> Seq(Tokens)] /\ (\A d \in Conns : Len(rx'[d]) <= RcvCap)
           /\ (\A d \in Conns : d # c => rx'[d] = rx[d])
           /\ Messages(rx'[c]) = IF kind \in {"keep", "close"}
                                 THEN Append(Messages(rx[c]), Token(kind, sent[c] + 1))
                                 ELSE Messages(rx[c])
           /\ (\E i \in 1..Len(rx'[c]) : rx'[c][i].kind = "bad")
                 => kind = "bad" \/ \E i \in 1..Len(rx[c]) : rx[c][i].kind = "bad"
           /\ backlog' = backlog /\ open' = open
<1> PICK t : t = Token(kind, sent[c] + 1)
  BY Zenon
<1>1. /\ peer[c] = "up" /\ Len(rx[c]) < RcvCap /\ rx[c] \in Seq(Tokens)
      /\ sent[c] < MaxReqs /\ sent[c] \in Nat /\ MaxReqs \in Nat /\ RcvCap \in Nat
  <2>1. peer[c] = "up" /\ Len(rx[c]) < RcvCap
    BY Zenon DEF Sending
  <2>2. rx[c] \in Seq(Tokens) /\ sent[c] \in 0..MaxReqs
    BY Zenon DEF SyncTypeOK
  <2>3. sent[c] < MaxReqs
    BY <2>1, Zenon DEF SyncTypeOK
  <2>4. MaxReqs \in Nat /\ RcvCap \in Nat
    BY SyncAssumption, Zenon
  <2> QED BY <2>1, <2>2, <2>3, <2>4
<1>2. sent[c] + 1 \in 1..MaxReqs
  BY <1>1
<1>3. t \in Tokens /\ t.kind = kind
  BY <1>2, Zenon DEF Tokens, Token
<1>4. rx' = [rx EXCEPT ![c] = Append(rx[c], t)] /\ backlog' = backlog /\ open' = open
  BY Zenon DEF Arrive
<1>5. /\ Append(rx[c], t) \in Seq(Tokens) /\ Len(Append(rx[c], t)) = Len(rx[c]) + 1
      /\ Append(rx[c], t)[Len(rx[c]) + 1] = t
      /\ \A i \in 1..Len(rx[c]) : Append(rx[c], t)[i] = rx[c][i]
      /\ Len(rx[c]) \in Nat
  BY <1>1, <1>3, Appended, Length
<1>6. rx'[c] = Append(rx[c], t) /\ (\A d \in Conns : d # c => rx'[d] = rx[d])
      /\ rx' \in [Conns -> Seq(Tokens)]
  BY <1>4, <1>5, Zenon DEF SyncTypeOK
<1>7. ASSUME NEW d \in Conns PROVE Len(rx'[d]) <= RcvCap
  <2>1. CASE d = c
    BY <1>1, <1>5, <1>6, <2>1
  <2>2. CASE d # c
    BY <1>6, <2>2, Zenon DEF SyncTypeOK
  <2> QED BY <2>1, <2>2, Zenon
<1>8. Messages(rx'[c]) = IF IsMessage(t) THEN Append(Messages(rx[c]), t) ELSE Messages(rx[c])
  <2>1. PICK s : s = rx[c]
    BY Zenon
  <2>2. s \in Seq(Tokens) /\ t \in Tokens
    BY <1>1, <1>3, <2>1, Zenon
  <2>3. Laws
    BY Zenon
  <2>4. Messages(Append(s, t)) = IF IsMessage(t) THEN Append(Messages(s), t) ELSE Messages(s)
    BY ONLY <2>2, <2>3, LawAppend, Zenon
  <2> QED BY <1>6, <2>1, <2>4, Zenon
<1>9. IsMessage(t) <=> kind \in {"keep", "close"}
  BY <1>3, Zenon DEF IsMessage
<1>10. ASSUME NEW i \in 1..Len(rx'[c]), rx'[c][i].kind = "bad"
       PROVE  kind = "bad" \/ \E j \in 1..Len(rx[c]) : rx[c][j].kind = "bad"
  <2>1. i \in 1..Len(rx[c]) \/ i = Len(rx[c]) + 1
    BY <1>5, <1>6
  <2> QED BY <1>3, <1>5, <1>6, <1>10, <2>1, Zenon
<1> QED BY <1>1, <1>3, <1>4, <1>6, <1>7, <1>8, <1>9, <1>10, Zenon

\* A request that arrives is the last of those pending.
LEMMA PendingAppend ==
    ASSUME Laws, SyncTypeOK, NEW c \in Conns, NEW t \in Requests, InHand(c)' = InHand(c),
           Messages(rx'[c]) = Append(Messages(rx[c]), t)
    PROVE  Pending(c)' = Append(Pending(c), t)
<1> PICK h, m : h = InHand(c) /\ m = Messages(rx[c])
  BY Zenon
<1>1. h \in Seq(Requests) /\ m \in Seq(Requests) /\ <<t>> \in Seq(Requests)
  BY PendingType
<1>2. h \o m \in Seq(Requests)
  BY <1>1, Joined, Zenon
<1>3. Append(m, t) = m \o <<t>> /\ Append(h \o m, t) = (h \o m) \o <<t>>
  BY <1>1, <1>2, AppendJoins, Zenon
<1>4. PICK u : u = <<t>>
  BY Zenon
<1>5. (h \o m) \o u = h \o (m \o u)
  <2>1. h \in Seq(Requests) /\ m \in Seq(Requests) /\ u \in Seq(Requests)
    BY <1>1, <1>4, Zenon
  <2> QED BY ONLY <2>1, JoinAssociates
<1> QED BY <1>3, <1>4, <1>5, Zenon DEF Pending

\* What the clients' steps leave in hand.
LEMMA HandStays ==
    ASSUME UNCHANGED workers, NEW d
    PROVE  InHand(d)' = InHand(d)
BY DEF workers, InHand

\* A piece before the last of a request completes no message.
LEMMA SendPartKeeps ==
    ASSUME Laws, SyncInv, process = "up", NEW c \in Conns, SendPart(c),
           UNCHANGED <<workers, answered, process>>
    PROVE  SyncInv'
<1>1. SyncTypeOK /\ At(c)
  BY ServingNow, Zenon
<1>2. /\ Sending(c) /\ Arrive(c, "part") /\ parts < MaxParts /\ parts' = parts + 1
      /\ peer' = peer /\ sent' = sent /\ misbehaved' = misbehaved
      /\ answered' = answered /\ process' = process
  BY Zenon DEF SendPart
<1>3. /\ peer[c] = "up"
      /\ rx' \in [Conns -> Seq(Tokens)] /\ (\A d \in Conns : Len(rx'[d]) <= RcvCap)
      /\ (\A d \in Conns : d # c => rx'[d] = rx[d])
      /\ Messages(rx'[c]) = Messages(rx[c])
      /\ (\E i \in 1..Len(rx'[c]) : rx'[c][i].kind = "bad")
            => \E i \in 1..Len(rx[c]) : rx[c][i].kind = "bad"
      /\ backlog' = backlog /\ open' = open
  BY <1>1, <1>2, Arrived, Zenon
<1>4. parts' \in 0..MaxParts
  BY <1>1, <1>2, SyncAssumption DEF SyncTypeOK
<1>5. SyncTypeOK'
  BY <1>1, <1>2, <1>3, <1>4, Zenon DEF SyncTypeOK, workers
<1>6. Pending(c)' = Pending(c)
  BY <1>3, HandStays, Zenon DEF Pending
<1>7. Waiting(c)' = Waiting(c)
  BY <1>3, Zenon DEF Waiting, workers
<1>8. At(c)'
  BY <1>1, <1>2, <1>3, <1>6, <1>7, Zenon DEF At
<1> QED BY <1>2, <1>3, <1>5, <1>8, ConnectedMoves, Zenon

\* A request arrives: what follows for its connection, whatever its kind.
LEMMA RequestArrives ==
    ASSUME Laws, SyncTypeOK, NEW c \in Conns, At(c), NEW kind \in {"keep", "close"},
           Sending(c), Arrive(c, kind), sent' = [sent EXCEPT ![c] = @ + 1],
           UNCHANGED <<workers, answered, process>>, misbehaved' = misbehaved
    PROVE  /\ InOrder(answered'[c], Pending(c)', sent'[c]) /\ CloseEnds(Pending(c)')
           /\ kind = "keep" => AllKeep(Pending(c)')
           /\ kind = "close" => EndsInClose(Pending(c)')
           /\ \A i \in 1..Len(rx'[c]) : rx'[c][i].kind = "bad" => c \in misbehaved'
           /\ sent' \in [Conns -> 0..MaxReqs] /\ \A d \in Conns : d # c => sent'[d] = sent[d]
<1> PICK t : t = Token(kind, sent[c] + 1)
  BY Zenon
<1>1. /\ peer[c] = "up" /\ sent[c] < MaxReqs /\ sent[c] \in Nat
      /\ Messages(rx'[c]) = Append(Messages(rx[c]), t)
      /\ (\E i \in 1..Len(rx'[c]) : rx'[c][i].kind = "bad")
            => \E i \in 1..Len(rx[c]) : rx[c][i].kind = "bad"
  BY Arrived, Zenon
<1>2. sent[c] + 1 \in 1..MaxReqs /\ sent[c] + 1 \in 0..MaxReqs
  BY <1>1, SyncAssumption
<1>3. t \in Requests /\ t.kind = kind /\ t.n = sent[c] + 1
  BY <1>2 DEF Requests, Token
<1>4. Pending(c)' = Append(Pending(c), t)
  BY <1>1, <1>3, HandStays, PendingAppend, Zenon
<1>5. sent'[c] = sent[c] + 1 /\ sent' \in [Conns -> 0..MaxReqs] /\ \A d \in Conns : d # c => sent'[d] = sent[d]
  BY <1>2, Zenon DEF SyncTypeOK
<1>6. answered[c] \in Seq(Nat) /\ Pending(c) \in Seq(Requests) /\ answered'[c] = answered[c]
  BY PendingType, Zenon DEF SyncTypeOK
<1>7. InOrder(answered[c], Pending(c), sent[c]) /\ AllKeep(Pending(c))
  BY <1>1, Zenon DEF At
<1>8. PICK a, p, n : a = answered[c] /\ p = Pending(c) /\ n = sent[c]
  BY Zenon
<1>9. /\ a \in Seq(Nat) /\ p \in Seq(Requests) /\ n \in Nat /\ InOrder(a, p, n) /\ AllKeep(p)
      /\ t \in Requests /\ t.n = n + 1
  BY <1>1, <1>3, <1>6, <1>7, <1>8, Zenon
<1>10. /\ InOrder(a, Append(p, t), n + 1) /\ CloseEnds(Append(p, t))
       /\ t.kind = "keep" => AllKeep(Append(p, t))
       /\ t.kind = "close" => EndsInClose(Append(p, t))
  BY ONLY <1>9, OneMore, Zenon
<1>11. \A i \in 1..Len(rx'[c]) : rx'[c][i].kind = "bad" => c \in misbehaved'
  BY <1>1, Zenon DEF At
<1> QED BY <1>3, <1>4, <1>5, <1>6, <1>8, <1>10, <1>11, Zenon

\* A request with keep-alive.
LEMMA SendKeepKeeps ==
    ASSUME Laws, SyncInv, process = "up", NEW c \in Conns, SendKeep(c),
           UNCHANGED <<workers, answered, process>>
    PROVE  SyncInv'
<1>1. SyncTypeOK /\ At(c)
  BY ServingNow, Zenon
<1>2. /\ Sending(c) /\ Arrive(c, "keep") /\ parts' = parts /\ sent[c] + 1 < MaxReqs
      /\ peer' = peer /\ sent' = [sent EXCEPT ![c] = @ + 1] /\ misbehaved' = misbehaved
      /\ answered' = answered /\ process' = process
  BY Zenon DEF SendKeep
<1>3. /\ peer[c] = "up"
      /\ rx' \in [Conns -> Seq(Tokens)] /\ (\A d \in Conns : Len(rx'[d]) <= RcvCap)
      /\ (\A d \in Conns : d # c => rx'[d] = rx[d])
      /\ backlog' = backlog /\ open' = open
  BY <1>1, <1>2, Arrived, Zenon
<1>4. /\ InOrder(answered'[c], Pending(c)', sent'[c]) /\ CloseEnds(Pending(c)')
      /\ AllKeep(Pending(c)')
      /\ \A i \in 1..Len(rx'[c]) : rx'[c][i].kind = "bad" => c \in misbehaved'
      /\ sent' \in [Conns -> 0..MaxReqs] /\ \A d \in Conns : d # c => sent'[d] = sent[d]
  BY <1>1, <1>2, RequestArrives, Zenon
<1>5. \A d \in Conns : peer'[d] \in {"none", "up"} => sent'[d] < MaxReqs
  BY <1>1, <1>2, <1>4, Zenon DEF SyncTypeOK
<1>6. SyncTypeOK'
  BY <1>1, <1>2, <1>3, <1>4, <1>5, Zenon DEF SyncTypeOK, workers
<1>7. peer'[c] = "up"
  BY <1>2, <1>3, Zenon
<1>8. At(c)'
  BY <1>4, <1>7, Zenon DEF At
<1> QED BY <1>2, <1>3, <1>4, <1>6, <1>8, ConnectedMoves, Zenon

\* A request without keep-alive: the client's last.
LEMMA SendCloseKeeps ==
    ASSUME Laws, SyncInv, process = "up", NEW c \in Conns, SendClose(c),
           UNCHANGED <<workers, answered, process>>
    PROVE  SyncInv'
<1>1. SyncTypeOK /\ At(c)
  BY ServingNow, Zenon
<1>2. /\ Sending(c) /\ Arrive(c, "close") /\ parts' = parts
      /\ peer' = [peer EXCEPT ![c] = "last"]
      /\ sent' = [sent EXCEPT ![c] = @ + 1] /\ misbehaved' = misbehaved
      /\ answered' = answered /\ process' = process
  BY Zenon DEF SendClose
<1>3. /\ peer[c] = "up"
      /\ rx' \in [Conns -> Seq(Tokens)] /\ (\A d \in Conns : Len(rx'[d]) <= RcvCap)
      /\ (\A d \in Conns : d # c => rx'[d] = rx[d])
      /\ backlog' = backlog /\ open' = open
  BY <1>1, <1>2, Arrived, Zenon
<1>4. /\ InOrder(answered'[c], Pending(c)', sent'[c]) /\ CloseEnds(Pending(c)')
      /\ EndsInClose(Pending(c)')
      /\ \A i \in 1..Len(rx'[c]) : rx'[c][i].kind = "bad" => c \in misbehaved'
      /\ sent' \in [Conns -> 0..MaxReqs] /\ \A d \in Conns : d # c => sent'[d] = sent[d]
  BY <1>1, <1>2, RequestArrives, Zenon
<1>5. /\ peer'[c] = "last" /\ (\A d \in Conns : d # c => peer'[d] = peer[d])
      /\ peer' \in [Conns -> {"none", "up", "last", "idle", "closed", "reset"}]
  BY <1>1, <1>2, Zenon DEF SyncTypeOK
<1>6. \A d \in Conns : peer'[d] \in {"none", "up"} => sent'[d] < MaxReqs
  BY <1>1, <1>4, <1>5, Zenon DEF SyncTypeOK
<1>7. SyncTypeOK'
  BY <1>1, <1>2, <1>3, <1>4, <1>5, <1>6, Zenon DEF SyncTypeOK, workers
<1>8. At(c)'
  BY <1>4, <1>5, Zenon DEF At
<1> QED BY <1>2, <1>3, <1>4, <1>5, <1>7, <1>8, ConnectedMoves, Zenon

\* Something that is not HTTP completes no message.
LEMMA SendBadKeeps ==
    ASSUME Laws, SyncInv, process = "up", NEW c \in Conns, SendBad(c),
           UNCHANGED <<workers, answered, process>>
    PROVE  SyncInv'
<1>1. SyncTypeOK /\ At(c)
  BY ServingNow, Zenon
<1>2. /\ Sending(c) /\ Arrive(c, "bad") /\ parts' = parts /\ sent' = sent
      /\ peer' = [peer EXCEPT ![c] = "last"] /\ misbehaved' = misbehaved \cup {c}
      /\ answered' = answered /\ process' = process
  BY Zenon DEF SendBad, Misbehave
<1>3. /\ peer[c] = "up"
      /\ rx' \in [Conns -> Seq(Tokens)] /\ (\A d \in Conns : Len(rx'[d]) <= RcvCap)
      /\ (\A d \in Conns : d # c => rx'[d] = rx[d])
      /\ Messages(rx'[c]) = Messages(rx[c])
      /\ backlog' = backlog /\ open' = open
  BY <1>1, <1>2, Arrived, Zenon
<1>4. /\ peer'[c] = "last" /\ (\A d \in Conns : d # c => peer'[d] = peer[d])
      /\ peer' \in [Conns -> {"none", "up", "last", "idle", "closed", "reset"}]
  BY <1>1, <1>2, Zenon DEF SyncTypeOK
<1>5. \A d \in Conns : peer'[d] \in {"none", "up"} => sent'[d] < MaxReqs
  BY <1>1, <1>2, <1>4, Zenon DEF SyncTypeOK
<1>6. SyncTypeOK'
  BY <1>1, <1>2, <1>3, <1>4, <1>5, Zenon DEF SyncTypeOK, workers
<1>7. Pending(c)' = Pending(c)
  BY <1>3, HandStays, Zenon DEF Pending
<1>8. At(c)'
  BY <1>1, <1>2, <1>4, <1>7, Zenon DEF At
<1> QED BY <1>2, <1>3, <1>4, <1>6, <1>8, ConnectedMoves, Zenon

\* What a client that leaves or falls silent changes.
LEMMA PeerMoves ==
    ASSUME SyncInv, process = "up", NEW c \in Conns, NEW p \in {"closed", "idle"},
           peer[c] \in {"up", "last"}, peer' = [peer EXCEPT ![c] = p],
           UNCHANGED <<rx, backlog, open, sent, parts>>,
           misbehaved' \subseteq Conns,
           \A d \in Conns : d # c => (d \in misbehaved' <=> d \in misbehaved),
           UNCHANGED <<workers, answered, process>>, At(c)'
    PROVE  SyncInv'
<1>1. SyncTypeOK /\ At(c)
  BY ServingNow, Zenon
<1>2. /\ peer'[c] = p /\ (\A d \in Conns : d # c => peer'[d] = peer[d])
      /\ peer' \in [Conns -> {"none", "up", "last", "idle", "closed", "reset"}]
  BY <1>1, Zenon DEF SyncTypeOK
<1>3. \A d \in Conns : peer'[d] \in {"none", "up"} => sent'[d] < MaxReqs
  BY <1>1, <1>2, Zenon DEF SyncTypeOK
<1>4. SyncTypeOK'
  BY <1>1, <1>2, <1>3, Zenon DEF SyncTypeOK, workers
<1> QED BY <1>2, <1>4, ConnectedMoves, Zenon

\* A client closes once it has its last answer: no worker waits for its input.
LEMMA CloseKeeps ==
    ASSUME Laws, SyncInv, process = "up", NEW c \in Conns, Close(c),
           UNCHANGED <<workers, answered, process>>
    PROVE  SyncInv'
<1>1. SyncTypeOK /\ At(c)
  BY ServingNow, Zenon
<1>2. /\ peer[c] = "last" /\ c \notin misbehaved /\ Len(answered[c]) = sent[c]
      /\ peer' = [peer EXCEPT ![c] = "closed"]
      /\ rx' = rx /\ backlog' = backlog /\ open' = open /\ sent' = sent /\ parts' = parts
      /\ misbehaved' = misbehaved /\ answered' = answered
  BY Zenon DEF Close, clients
<1>3. answered[c] \in Seq(Nat) /\ Pending(c) \in Seq(Requests)
  BY <1>1, PendingType, Zenon DEF SyncTypeOK
<1>4. Len(Pending(c)) = 0
  <2>1. Len(answered[c]) \in Nat /\ Len(Pending(c)) \in Nat
    BY <1>3, Length, Zenon
  <2>2. Len(answered[c]) + Len(Pending(c)) = sent[c]
    BY <1>1, Zenon DEF At, InOrder
  <2> QED BY <1>2, <2>1, <2>2
<1>5. ~Waiting(c)
  BY <1>1, <1>2, <1>4 DEF At, EndsInClose
<1>6. ~Waiting(c)'
  BY <1>2, <1>5, Zenon DEF Waiting, workers
<1>7. Pending(c)' = Pending(c) /\ peer'[c] = "closed"
  BY <1>1, <1>2, HandStays, Zenon DEF Pending, SyncTypeOK
<1>8. At(c)'
  BY <1>1, <1>2, <1>6, <1>7, Zenon DEF At
<1> QED BY <1>1, <1>2, <1>8, PeerMoves, Zenon DEF SyncTypeOK

\* A client leaves with requests open.
LEMMA LeaveKeeps ==
    ASSUME SyncInv, process = "up", NEW c \in Conns, Leave(c),
           UNCHANGED <<workers, answered, process>>
    PROVE  SyncInv'
<1>1. SyncTypeOK /\ At(c)
  BY ServingNow, Zenon
<1>2. /\ peer[c] \in {"up", "last"} /\ peer' = [peer EXCEPT ![c] = "closed"]
      /\ rx' = rx /\ backlog' = backlog /\ open' = open /\ sent' = sent /\ parts' = parts
      /\ misbehaved' = misbehaved \cup {c} /\ answered' = answered
  BY Zenon DEF Leave, Misbehave
<1>3. Pending(c)' = Pending(c) /\ peer'[c] = "closed"
  BY <1>1, <1>2, HandStays, Zenon DEF Pending, SyncTypeOK
<1>4. At(c)'
  BY <1>1, <1>2, <1>3, Zenon DEF At
<1> QED BY <1>1, <1>2, <1>4, PeerMoves, Zenon DEF SyncTypeOK

\* A client falls silent.
LEMMA FallSilentKeeps ==
    ASSUME SyncInv, process = "up", NEW c \in Conns, FallSilent(c),
           UNCHANGED <<workers, answered, process>>
    PROVE  SyncInv'
<1>1. SyncTypeOK /\ At(c)
  BY ServingNow, Zenon
<1>2. /\ peer[c] = "up" /\ peer' = [peer EXCEPT ![c] = "idle"]
      /\ rx' = rx /\ backlog' = backlog /\ open' = open /\ sent' = sent /\ parts' = parts
      /\ misbehaved' = misbehaved \cup {c} /\ answered' = answered
  BY Zenon DEF FallSilent, Misbehave
<1>3. Pending(c)' = Pending(c) /\ peer'[c] = "idle"
  BY <1>1, <1>2, HandStays, Zenon DEF Pending, SyncTypeOK
<1>4. At(c)'
  BY <1>1, <1>2, <1>3, Zenon DEF At
<1> QED BY <1>1, <1>2, <1>4, PeerMoves, Zenon DEF SyncTypeOK

\* A client connects.
LEMMA ConnectKeeps ==
    ASSUME SyncInv, process = "up", NEW c \in Conns, Connect(c),
           UNCHANGED <<workers, answered, process>>
    PROVE  SyncInv'
<1>1. SyncTypeOK /\ At(c) /\ BacklogOK
  BY ServingNow, Zenon
<1>2. /\ peer[c] = "none" /\ peer' = [peer EXCEPT ![c] = "up"]
      /\ backlog' = Append(backlog, c)
      /\ rx' = rx /\ open' = open /\ sent' = sent /\ parts' = parts
      /\ misbehaved' = misbehaved /\ answered' = answered /\ process' = process
  BY Zenon DEF Connect, clients
<1>3. /\ peer'[c] = "up" /\ (\A d \in Conns : d # c => peer'[d] = peer[d])
      /\ peer' \in [Conns -> {"none", "up", "last", "idle", "closed", "reset"}]
  BY <1>1, <1>2, Zenon DEF SyncTypeOK
<1>4. backlog \in Seq(Conns) /\ open \subseteq Conns
  BY <1>1, Zenon DEF SyncTypeOK
<1>5. /\ backlog' \in Seq(Conns) /\ Len(backlog') = Len(backlog) + 1 /\ Len(backlog) \in Nat
      /\ backlog'[Len(backlog) + 1] = c
      /\ \A i \in 1..Len(backlog) : backlog'[i] = backlog[i] /\ backlog[i] \in Conns
  BY <1>2, <1>4, Appended, Length, Element
<1>6. \A d \in Conns : peer'[d] \in {"none", "up"} => sent'[d] < MaxReqs
  BY <1>1, <1>2, <1>3, Zenon DEF SyncTypeOK
<1>7. SyncTypeOK'
  BY <1>1, <1>2, <1>3, <1>5, <1>6 DEF SyncTypeOK, workers
<1>8. \A i \in 1..Len(backlog') : i \in 1..Len(backlog) \/ i = Len(backlog) + 1
  BY <1>5
<1>9. c \notin open /\ \A i \in 1..Len(backlog) : backlog[i] # c
  BY <1>1, <1>2, Zenon DEF BacklogOK
<1>10. BacklogOK'
  <2>1. ASSUME NEW i \in 1..Len(backlog')
        PROVE  backlog'[i] \notin open' /\ peer'[backlog'[i]] \notin {"none", "reset"}
    <3>1. CASE i \in 1..Len(backlog)
      BY <1>1, <1>2, <1>3, <1>5, <1>9, <3>1, Zenon DEF BacklogOK
    <3>2. CASE i = Len(backlog) + 1
      BY <1>2, <1>3, <1>5, <1>9, <3>2, Zenon
    <3> QED BY <1>8, <3>1, <3>2, Zenon
  <2>2. \A i, j \in 1..Len(backlog') : backlog'[i] = backlog'[j] => i = j
    BY <1>1, <1>5, <1>8, <1>9 DEF BacklogOK
  <2>3. \A d \in open' : peer'[d] # "none"
    BY <1>1, <1>2, <1>3, <1>4, Zenon DEF BacklogOK
  <2> QED BY <2>1, <2>2, <2>3, Zenon DEF BacklogOK
<1>11. Pending(c)' = Pending(c)
  BY <1>2, HandStays, Zenon DEF Pending
<1>12. At(c)'
  BY <1>1, <1>2, <1>3, <1>11, Zenon DEF At
<1>13. ASSUME NEW d \in Conns, d # c, Waiting(d)' PROVE Waiting(d)
  BY <1>5, <1>8, <1>13, Zenon DEF Waiting, workers
<1> QED BY <1>2, <1>3, <1>7, <1>10, <1>12, <1>13, ClientMoves, Zenon

-----------------------------------------------------------------------------
(* The invariant holds *)

\* The server starts with nobody connected.
LEMMA SyncStarts == ASSUME Laws PROVE Init => SyncInv
<1> SUFFICES ASSUME Init PROVE SyncInv
  BY Zenon
<1>1. /\ MaxReqs \in Nat \ {0} /\ MaxFds \in Nat /\ RcvCap \in Nat /\ MaxParts \in Nat
      /\ NoConn \notin Conns
  BY SyncAssumption, Zenon
<1>2. IsFiniteSet({}) /\ Cardinality({}) = 0
  BY LawCount, Zenon
<1>3. Len(<< >>) = 0
  BY Zenon
<1>4. SyncTypeOK
  BY <1>1, <1>2, <1>3 DEF Init, SyncTypeOK
<1>5. (\A w \in Workers : WorkerAt(w)) /\ Exclusive
  BY <1>1, Zenon DEF Init, WorkerAt, Exclusive
<1>6. BacklogOK
  BY <1>3 DEF Init, BacklogOK
<1>7. ASSUME NEW c \in Conns PROVE At(c)
  <2>1. \A w \in Workers : conn[w] # c
    BY <1>1, Zenon DEF Init
  <2>2. Pending(c) = << >>
    BY <2>1, NothingInHand, LawEmpty DEF Pending, Init
  <2>3. peer[c] = "none" /\ rx[c] = << >> /\ answered[c] = << >> /\ sent[c] = 0
    BY Zenon DEF Init
  <2>4. InOrder(<< >>, << >>, 0) /\ CloseEnds(<< >>) /\ AllKeep(<< >>)
    BY <1>3 DEF InOrder, CloseEnds, AllKeep
  <2> QED BY <1>3, <2>2, <2>3, <2>4 DEF At
<1>8. EndedOK
  BY Zenon DEF Init, EndedOK
<1>9. process = "up"
  BY Zenon DEF Init
<1> QED BY <1>4, <1>5, <1>6, <1>7, <1>8, <1>9, Zenon DEF SyncInv, Serving, EndsOnlyForCause

\* Every step of a worker, of the main thread and of a client keeps the invariant.
LEMMA SyncSteps == ASSUME Laws PROVE SyncInv /\ [Next]_vars => SyncInv'
<1> SUFFICES ASSUME SyncInv, [Next]_vars PROVE SyncInv'
  BY Zenon
<1>1. ASSUME NEW w \in Workers, WorkerStep(w) PROVE SyncInv'
  <2>1. process = "up" /\ UNCHANGED clients
    BY <1>1, Zenon DEF WorkerStep
  <2>2. CASE Accept(w)
    BY <2>1, <2>2, AcceptKeeps, Zenon
  <2>3. CASE AcceptFails(w)
    BY <2>1, <2>3, AcceptFailsKeeps, Zenon
  <2>4. CASE AcceptLoses(w)
    BY <2>1, <2>4, AcceptLosesKeeps, Zenon
  <2>5. CASE NextMessage(w)
    BY <2>1, <2>5, NextMessageKeeps, Zenon
  <2>6. CASE ReadBuffer(w)
    BY <2>1, <2>6, ReadBufferKeeps, Zenon
  <2>7. CASE ParseError(w)
    BY <2>1, <2>7, ParseErrorKeeps, Zenon
  <2>8. CASE ReadFails(w)
    BY <2>1, <2>8, ReadFailsKeeps, Zenon
  <2>9. CASE Answer(w)
    BY <2>1, <2>9, AnswerKeeps, Zenon
  <2> QED BY <1>1, <2>2, <2>3, <2>4, <2>5, <2>6, <2>7, <2>8, <2>9, Zenon DEF WorkerStep
<1>2. CASE Listen
  BY <1>2, ListenKeeps, Zenon
<1>3. ASSUME NEW c \in Conns, ClientStep(c) PROVE SyncInv'
  <2>1. process = "up" /\ UNCHANGED <<workers, answered, process>>
    BY <1>3, Zenon DEF ClientStep
  <2>2. CASE Connect(c)
    BY <2>1, <2>2, ConnectKeeps, Zenon
  <2>3. CASE SendPart(c)
    BY <2>1, <2>3, SendPartKeeps, Zenon
  <2>4. CASE SendKeep(c)
    BY <2>1, <2>4, SendKeepKeeps, Zenon
  <2>5. CASE SendClose(c)
    BY <2>1, <2>5, SendCloseKeeps, Zenon
  <2>6. CASE SendBad(c)
    BY <2>1, <2>6, SendBadKeeps, Zenon
  <2>7. CASE Close(c)
    BY <2>1, <2>7, CloseKeeps, Zenon
  <2>8. CASE Leave(c)
    BY <2>1, <2>8, LeaveKeeps, Zenon
  <2>9. CASE FallSilent(c)
    BY <2>1, <2>9, FallSilentKeeps, Zenon
  <2> QED BY <1>3, <2>2, <2>3, <2>4, <2>5, <2>6, <2>7, <2>8, <2>9, Zenon DEF ClientStep
<1>4. CASE UNCHANGED vars
  <2>1. /\ peer' = peer /\ rx' = rx /\ backlog' = backlog /\ open' = open
        /\ status' = status /\ conn' = conn /\ input_list' = input_list /\ request' = request
        /\ answered' = answered /\ process' = process
        /\ sent' = sent /\ parts' = parts /\ misbehaved' = misbehaved
    BY <1>4, Zenon DEF vars, sockets, workers, clients
  <2>2. SyncTypeOK' = SyncTypeOK /\ EndsOnlyForCause' = EndsOnlyForCause
    BY <2>1, Zenon DEF SyncTypeOK, EndsOnlyForCause
  <2>3. (\A w \in Workers : WorkerAt(w)') <=> (\A w \in Workers : WorkerAt(w))
    BY <2>1, Zenon DEF WorkerAt
  <2>4. Exclusive' = Exclusive /\ BacklogOK' = BacklogOK /\ EndedOK' = EndedOK
    BY <2>1, Zenon DEF Exclusive, BacklogOK, EndedOK, Exhausted
  <2>5. ASSUME NEW c \in Conns, At(c) PROVE At(c)'
    <3>1. InHand(c)' = InHand(c) /\ Waiting(c)' = Waiting(c)
      BY <2>1 DEF InHand, Waiting
    <3> QED BY <2>1, <2>5, <3>1, Elsewhere, Zenon
  <2>6. Serving => Serving'
    BY <2>4, <2>5, Zenon DEF Serving
  <2> QED BY <2>1, <2>2, <2>3, <2>6, Zenon DEF SyncInv
<1> QED BY <1>1, <1>2, <1>3, <1>4, Zenon DEF Next

\* What the invariant says of the answers.
LEMMA SyncInvServes == ASSUME Laws PROVE SyncInv => ServesInOrder
<1> SUFFICES ASSUME SyncInv PROVE ServesInOrder
  BY Zenon
<1>1. SyncTypeOK /\ \A w \in Workers : WorkerAt(w)
  BY Zenon DEF SyncInv
<1>2. backlog \in Seq(Conns)
  BY <1>1, Zenon DEF SyncTypeOK
<1>3. \A w \in Workers :
        \/ status[w] \in {"accept", "ended"} /\ conn[w] = NoConn /\ request[w] = NoRequest
        \/ status[w] = "read" /\ conn[w] \in open /\ request[w] = NoRequest
        \/ status[w] = "answer" /\ conn[w] \in open /\ request[w] \in Requests
  BY <1>1, Zenon DEF WorkerAt
<1>4. \A c \in Conns : Len(rx[c]) <= RcvCap /\ sent[c] \in 0..MaxReqs
  BY <1>1, Zenon DEF SyncTypeOK
<1>5. TypeOK
  BY <1>1, <1>2, <1>3, <1>4, Zenon DEF SyncTypeOK, TypeOK
<1>6. ASSUME process = "up", NEW c \in Conns
      PROVE  /\ \A v, w \in Workers : conn[v] = c /\ conn[w] = c => v = w
             /\ answered[c] \o Numbers(InHand(c) \o Messages(rx[c])) = [i \in 1..sent[c] |-> i]
  <2>1. Exclusive /\ At(c)
    BY <1>6, ServingNow, Zenon
  <2>2. PICK a, p, n : a = answered[c] /\ p = Pending(c) /\ n = sent[c]
    BY Zenon
  <2>3. a \in Seq(Nat) /\ p \in Seq(Requests) /\ n \in Nat
    <3>1. answered[c] \in Seq(Nat) /\ sent[c] \in 0..MaxReqs
      BY <1>1, Zenon DEF SyncTypeOK
    <3>2. Pending(c) \in Seq(Requests)
      BY <1>1, PendingType, Zenon
    <3> QED BY <2>2, <3>1, <3>2
  <2>4. InOrder(a, p, n)
    BY <2>1, <2>2, Zenon DEF At
  <2>5. a \o Numbers(p) = [i \in 1..n |-> i]
    BY ONLY <2>3, <2>4, OrderMeans, Zenon
  <2>6. answered[c] \o Numbers(Pending(c)) = [i \in 1..sent[c] |-> i]
    BY <2>2, <2>5, Zenon
  <2> QED BY <2>1, <2>6, Zenon DEF Exclusive, Pending
<1> QED BY <1>5, <1>6, Zenon DEF ServesInOrder, AnsweredInOrder
=============================================================================
