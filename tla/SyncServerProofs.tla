------------------------- MODULE SyncServerProofs -------------------------
(***************************************************************************)
(* The synchronous server answers the requests of a connection once each   *)
(* and in order, and it ends only for a cause.                             *)
(*                                                                         *)
(* Messages is a recursive function, so what it does to a buffer that      *)
(* grows is shown by induction on its length.  With these laws the lemmas  *)
(* of SyncServerSteps make SyncInv an invariant.                           *)
(***************************************************************************)
EXTENDS SyncServerSteps, FiniteSetTheorems, WellFoundedInduction

-----------------------------------------------------------------------------
(* Induction over the natural numbers, with a set for the predicate *)

\* A set of natural numbers has a least element.
LEMMA LeastElement ==
    ASSUME NEW T, T \subseteq Nat, T # {}
    PROVE  \E x \in T : \A y \in T : x <= y
<1> DEFINE R == {ss \in Nat \X Nat : ss[1] < ss[2]}
<1>1. OpToRel(<, Nat) = R
  BY Zenon DEF OpToRel
<1>2. IsWellFoundedOn(R, Nat)
  BY <1>1, NatLessThanWellFounded, Zenon
<1> HIDE DEF R
<1>3. PICK x \in T : \A y \in T : ~(<<y, x>> \in R)
  BY <1>2, WFMin, Zenon
<1>4. ASSUME NEW y \in T PROVE x <= y
  <2>1. x \in Nat /\ y \in Nat
    BY Zenon
  <2>2. ~(y < x)
    BY <1>3, <2>1, Zenon DEF R
  <2> QED BY <2>1, <2>2
<1> QED BY <1>4, Zenon

\* What holds for 0, and for n + 1 if it holds for n, holds for every n.
LEMMA Induction ==
    ASSUME NEW T, T \subseteq Nat, 0 \in T, \A n \in T : n + 1 \in T
    PROVE  T = Nat
<1> SUFFICES ASSUME Nat \ T # {} PROVE FALSE
  BY Zenon
<1>1. PICK x \in Nat \ T : \A y \in Nat \ T : x <= y
  BY LeastElement, Zenon
<1>2. x # 0 /\ x \in Nat
  BY <1>1, Zenon
<1>3. x - 1 \in Nat
  BY <1>2
<1>4. x - 1 \in T
  BY <1>1, <1>2, <1>3
<1>5. (x - 1) + 1 = x
  BY <1>2
<1> QED BY <1>4, <1>5, Zenon

-----------------------------------------------------------------------------
(* The messages of a buffer *)

\* g[i] is what the first i tokens of s complete, for i up to n.
Completes(g, s, n) ==
    g = [i \in 0..n |-> IF i = 0 THEN << >>
                        ELSE IF IsMessage(s[i]) THEN Append(g[i - 1], s[i])
                        ELSE g[i - 1]]

\* There is such a function.
LEMMA CompletesExists ==
    ASSUME NEW s, NEW m \in Nat
    PROVE  \E g : Completes(g, s, m)
<1> DEFINE T == {n \in Nat : \E g : Completes(g, s, n)}
<1>1. 0 \in T
  <2> DEFINE g == [i \in 0..0 |-> << >>]
  <2>1. Completes(g, s, 0)
    BY DEF Completes
  <2> QED BY <2>1, Zenon
<1>2. ASSUME NEW n \in T PROVE n + 1 \in T
  <2>1. PICK g : Completes(g, s, n)
    BY <1>2, Zenon
  <2> DEFINE last == IF IsMessage(s[n + 1]) THEN Append(g[n], s[n + 1]) ELSE g[n]
             h == [i \in 0..(n + 1) |-> IF i = n + 1 THEN last ELSE g[i]]
  <2>2. n \in Nat
    BY Zenon
  <2>3. \A i \in 0..n : h[i] = g[i]
    BY <2>2
  <2>4. h[n + 1] = last
    BY <2>2
  <2>5. ASSUME NEW i \in 0..(n + 1)
        PROVE  h[i] = IF i = 0 THEN << >>
                      ELSE IF IsMessage(s[i]) THEN Append(h[i - 1], s[i]) ELSE h[i - 1]
    <3>1. CASE i = n + 1
      <4>1. i # 0 /\ i - 1 = n /\ h[i - 1] = g[n]
        BY <2>2, <2>3, <3>1
      <4> QED BY <2>4, <3>1, <4>1, Zenon
    <3>2. CASE i # n + 1
      <4>1. i \in 0..n /\ (i # 0 => i - 1 \in 0..n)
        BY <2>2, <3>2
      <4>2. g[i] = IF i = 0 THEN << >>
                   ELSE IF IsMessage(s[i]) THEN Append(g[i - 1], s[i]) ELSE g[i - 1]
        BY <2>1, <4>1, Zenon DEF Completes
      <4> QED BY <2>3, <4>1, <4>2, Zenon
    <3> QED BY <3>1, <3>2, Zenon
  <2>6. h = [i \in 0..(n + 1) |-> h[i]]
    BY Zenon
  <2> HIDE DEF h
  <2>7. Completes(h, s, n + 1)
    BY <2>5, <2>6, Zenon DEF Completes
  <2> QED BY <2>2, <2>7
<1>3. T \subseteq Nat
  BY Zenon
<1> HIDE DEF T
<1>4. T = Nat
  BY <1>1, <1>2, <1>3, Induction, Zenon
<1> QED BY <1>4, Zenon DEF T

\* It depends on the tokens only.
LEMMA CompletesUnique ==
    ASSUME NEW s, NEW t, NEW n \in Nat, NEW m \in Nat, n <= m,
           \A i \in 1..n : s[i] = t[i],
           NEW g, NEW h, Completes(g, s, n), Completes(h, t, m)
    PROVE  g[n] = h[n]
<1> DEFINE T == {i \in Nat : i <= n => g[i] = h[i]}
<1>1. 0 \in T
  <2>1. g[0] = << >> /\ h[0] = << >>
    BY DEF Completes
  <2> QED BY <2>1, Zenon
<1>2. ASSUME NEW i \in T PROVE i + 1 \in T
  <2> SUFFICES ASSUME i + 1 <= n PROVE g[i + 1] = h[i + 1]
    OBVIOUS
  <2>1. /\ i + 1 \in 0..n /\ i + 1 \in 0..m /\ i + 1 # 0 /\ (i + 1) - 1 = i
        /\ i + 1 \in 1..n
    OBVIOUS
  <2>2. g[i] = h[i] /\ s[i + 1] = t[i + 1]
    BY <2>1
  <2>3. g[i + 1] = IF IsMessage(s[i + 1]) THEN Append(g[i], s[i + 1]) ELSE g[i]
    BY <2>1, Zenon DEF Completes
  <2>4. h[i + 1] = IF IsMessage(t[i + 1]) THEN Append(h[i], t[i + 1]) ELSE h[i]
    BY <2>1, Zenon DEF Completes
  <2> QED BY <2>2, <2>3, <2>4
<1>3. T \subseteq Nat
  BY Zenon
<1> HIDE DEF T
<1>4. T = Nat
  BY <1>1, <1>2, <1>3, Induction, Zenon
<1> QED BY <1>4 DEF T

\* Messages is that function's last value.
LEMMA MessagesCompletes ==
    ASSUME NEW s, Len(s) \in Nat
    PROVE  \E g : Completes(g, s, Len(s)) /\ Messages(s) = g[Len(s)]
<1> DEFINE g == CHOOSE g : Completes(g, s, Len(s))
<1>1. Completes(g, s, Len(s))
  BY CompletesExists, Zenon
<1>2. Messages(s) = g[Len(s)]
  BY Zenon DEF Messages, Completes
<1> QED BY <1>1, <1>2, Zenon

\* An empty buffer completes no message.
LEMMA MessagesEmpty == Messages(<< >>) = << >>
<1>1. Len(<< >>) = 0
  BY Zenon
<1>2. PICK g : Completes(g, << >>, 0) /\ Messages(<< >>) = g[0]
  BY <1>1, MessagesCompletes, Zenon
<1> QED BY <1>2 DEF Completes

\* One more token completes one more message, or none.
LEMMA MessagesAppend ==
    ASSUME NEW S, NEW s \in Seq(S), NEW t \in S
    PROVE  Messages(Append(s, t)) = IF IsMessage(t) THEN Append(Messages(s), t) ELSE Messages(s)
<1> DEFINE u == Append(s, t)
           n == Len(s)
<1>1. n \in Nat /\ Len(u) = n + 1 /\ u[n + 1] = t /\ \A i \in 1..n : s[i] = u[i]
  BY Appended, Length
<1>2. PICK g : Completes(g, s, n) /\ Messages(s) = g[n]
  BY <1>1, MessagesCompletes, Zenon
<1>3. PICK h : Completes(h, u, n + 1) /\ Messages(u) = h[n + 1]
  <2> HIDE DEF u, n
  <2>1. Len(u) \in Nat
    BY <1>1
  <2>2. \E h : Completes(h, u, Len(u)) /\ Messages(u) = h[Len(u)]
    BY <2>1, MessagesCompletes, Zenon
  <2> QED BY <1>1, <2>2, Zenon
<1> HIDE DEF u, n
<1>4. n + 1 \in Nat /\ n <= n + 1
  BY <1>1
<1>5. g[n] = h[n]
  BY <1>1, <1>2, <1>3, <1>4, CompletesUnique
<1>6. n + 1 \in 0..(n + 1) /\ n + 1 # 0 /\ (n + 1) - 1 = n
  BY <1>1
<1>7. h[n + 1] = IF IsMessage(u[n + 1]) THEN Append(h[n], u[n + 1]) ELSE h[n]
  BY <1>3, <1>6, Zenon DEF Completes
<1> QED BY <1>1, <1>2, <1>3, <1>5, <1>7, Zenon DEF u

\* A sequence that is not empty is its front and its last element.
LEMMA FrontAndLast ==
    ASSUME NEW S, NEW k \in Nat, NEW s \in Seq(S), Len(s) = k + 1
    PROVE  \E f \in Seq(S), e \in S : s = Append(f, e) /\ Len(f) = k
<1>1. s # << >>
  OBVIOUS
<1>2. PICK f \in Seq(S), e \in S : s = Append(f, e)
  <2> DEFINE f == [i \in 1..k |-> s[i]]
  <2>1. f \in Seq(S) /\ s[k + 1] \in S /\ s = Append(f, s[k + 1])
    OBVIOUS
  <2> QED BY <2>1, Zenon
<1>3. Len(f) \in Nat /\ Len(s) = Len(f) + 1
  BY <1>2, Appended, Length, Zenon
<1> QED BY <1>2, <1>3

\* What a buffer of tokens completes are requests.
LEMMA MessagesType ==
    ASSUME NEW s \in Seq(Tokens)
    PROVE  Messages(s) \in Seq(Requests)
<1> DEFINE T == {k \in Nat : \A u \in Seq(Tokens) : Len(u) = k => Messages(u) \in Seq(Requests)}
<1>1. 0 \in T
  <2> SUFFICES ASSUME NEW u \in Seq(Tokens), Len(u) = 0 PROVE Messages(u) \in Seq(Requests)
    BY Zenon
  <2>1. u = << >>
    BY EmptyList, Zenon
  <2> QED BY <2>1, MessagesEmpty, EmptyList, Zenon
<1>2. ASSUME NEW k \in T PROVE k + 1 \in T
  <2> SUFFICES ASSUME NEW u \in Seq(Tokens), Len(u) = k + 1 PROVE Messages(u) \in Seq(Requests)
    OBVIOUS
  <2>1. PICK f \in Seq(Tokens), e \in Tokens : u = Append(f, e) /\ Len(f) = k
    BY FrontAndLast, Zenon
  <2>2. Messages(f) \in Seq(Requests)
    BY <2>1, Zenon
  <2>3. Messages(u) = IF IsMessage(e) THEN Append(Messages(f), e) ELSE Messages(f)
    BY <2>1, MessagesAppend, Zenon
  <2>4. IsMessage(e) => e \in Requests
    BY RequestsAre, Zenon
  <2>5. IsMessage(e) => Append(Messages(f), e) \in Seq(Requests)
    BY <2>2, <2>4, Appended, Zenon
  <2>6. CASE IsMessage(e)
    BY <2>3, <2>5, <2>6, Zenon
  <2>7. CASE ~IsMessage(e)
    BY <2>2, <2>3, <2>7, Zenon
  <2> QED BY <2>6, <2>7, Zenon
<1>3. T \subseteq Nat
  BY Zenon
<1> HIDE DEF T
<1>4. T = Nat
  BY <1>1, <1>2, <1>3, Induction, Zenon
<1> QED BY <1>4, Length, Zenon DEF T

\* A list of requests, with or without one before it, is a list of messages.
LEMMA MessagesOfList ==
    ASSUME NEW l \in Seq(Requests), NEW r \in Requests \cup {NoRequest}
    PROVE  Messages(<<r>> \o l) = IF r = NoRequest THEN l ELSE <<r>> \o l
<1> DEFINE P(u) == Messages(<<r>> \o u) = IF r = NoRequest THEN u ELSE <<r>> \o u
           T == {k \in Nat : \A u \in Seq(Requests) : Len(u) = k => P(u)}
           A == Requests \cup {NoRequest}
<1>0. <<r>> \in Seq(A) /\ \A u \in Seq(Requests) : u \in Seq(A)
  BY Within
<1>1. 0 \in T
  <2> SUFFICES ASSUME NEW u \in Seq(Requests), Len(u) = 0 PROVE P(u)
    BY Zenon
  <2>1. u = << >> /\ <<r>> \o u = <<r>>
    BY EmptyList, <1>0, JoinEmpty, Zenon
  <2>2. <<r>> = Append(<< >>, r) /\ << >> \in Seq(A)
    OBVIOUS
  <2>3. Messages(<<r>>) = IF IsMessage(r) THEN Append(<< >>, r) ELSE << >>
    <3> HIDE DEF A
    <3>1. Messages(Append(<< >>, r)) = IF IsMessage(r) THEN Append(Messages(<< >>), r)
                                                       ELSE Messages(<< >>)
      BY <2>2, MessagesAppend, Zenon DEF A
    <3> QED BY <2>2, <3>1, MessagesEmpty, Zenon
  <2>4. IsMessage(r) <=> r # NoRequest
    BY RequestsAre, Zenon
  <2> QED BY <2>1, <2>2, <2>3, <2>4, Zenon
<1>2. ASSUME NEW k \in T PROVE k + 1 \in T
  <2>1. ASSUME NEW u \in Seq(Requests), Len(u) = k + 1 PROVE P(u)
    <3>1. PICK f \in Seq(Requests), e \in Requests : u = Append(f, e) /\ Len(f) = k
      BY <2>1, FrontAndLast, Zenon
    <3>2. P(f)
      BY <3>1, Zenon
    <3>3. <<r>> \o f \in Seq(A) /\ e \in A /\ f \in Seq(A)
      BY <1>0, Joined, Zenon
    <3>4. <<r>> \o u = Append(<<r>> \o f, e)
      <4>1. <<e>> \in Seq(A) /\ u = f \o <<e>> /\ Append(<<r>> \o f, e) = (<<r>> \o f) \o <<e>>
        BY <3>1, <3>3, AppendJoins
      <4> QED BY <4>1, <3>3, <1>0, JoinAssociates
    <3>5. Messages(<<r>> \o u) = Append(Messages(<<r>> \o f), e)
      <4>1. IsMessage(e)
        BY RequestsAre, Zenon
      <4> QED BY <3>3, <3>4, <4>1, MessagesAppend, Zenon
    <3> HIDE DEF A
    <3>6. CASE r = NoRequest
      BY <3>1, <3>2, <3>5, <3>6, Zenon
    <3>7. CASE r # NoRequest
      BY <3>2, <3>4, <3>5, <3>7, Zenon
    <3> QED BY <3>6, <3>7, Zenon
  <2> HIDE DEF P
  <2>2. k + 1 \in Nat
    OBVIOUS
  <2> QED BY <2>1, <2>2, Zenon
<1>3. T \subseteq Nat
  BY Zenon
<1> HIDE DEF T, P
<1>4. T = Nat
  BY <1>1, <1>2, <1>3, Induction, Zenon
<1>5. P(l)
  BY <1>4, Length, Zenon DEF T
<1> QED BY <1>5, Zenon DEF P

\* Without an error the parser completes every message of the buffer.
LEMMA MessagesOfGood ==
    ASSUME NEW s \in Seq(Tokens), ~HasBad(s)
    PROVE  MessagesOf(s) = Messages(s)
<1> DEFINE G(n) == ~HasBad(SubSeq(s, 1, n)) /\ (n < Len(s) => s[n + 1].kind = "bad")
           good == CHOOSE n \in 0..Len(s) : G(n)
<1>1. SubSeq(s, 1, Len(s)) = s /\ Len(s) \in Nat
  OBVIOUS
<1>2. Len(s) \in 0..Len(s) /\ ~(Len(s) < Len(s))
  BY <1>1
<1>3. G(Len(s))
  BY <1>1, <1>2, Zenon
<1>4. \A n \in 0..Len(s) : G(n) => n = Len(s)
  <2> SUFFICES ASSUME NEW n \in 0..Len(s), G(n) PROVE n = Len(s)
    BY Zenon
  <2>1. n < Len(s) => s[n + 1].kind = "bad"
    BY Zenon
  <2> HIDE DEF G
  <2>2. n < Len(s) => n + 1 \in 1..Len(s)
    BY <1>1
  <2>3. ~(n < Len(s))
    BY <2>1, <2>2, Zenon DEF HasBad
  <2>4. \A m \in Nat : \A k \in 0..m : ~(k < m) => k = m
    OBVIOUS
  <2> QED BY <1>1, <2>3, <2>4, Zenon
<1> HIDE DEF G
<1>5. good = Len(s)
  BY <1>2, <1>3, <1>4, Zenon
<1>6. MessagesOf(s) = Messages(SubSeq(s, 1, good))
  BY Zenon DEF MessagesOf, G
<1> QED BY <1>1, <1>5, <1>6, Zenon

\* All that the steps need.
LEMMA LawsHold == Laws
<1>1. IsFiniteSet({}) /\ Cardinality({}) = 0
  BY FS_EmptySet, Zenon
<1>2. ASSUME NEW S \in SUBSET Conns, IsFiniteSet(S)
      PROVE  /\ Cardinality(S) \in Nat
             /\ \A c \in Conns \ S : IsFiniteSet(S \cup {c}) /\ Cardinality(S \cup {c}) = Cardinality(S) + 1
  BY <1>2, FS_CardinalityType, FS_AddElement, Zenon
<1>3. \A s \in Seq(Tokens), t \in Tokens :
        Messages(Append(s, t)) = IF IsMessage(t) THEN Append(Messages(s), t) ELSE Messages(s)
  BY MessagesAppend, Zenon
<1>4. \A s \in Seq(Tokens) : Messages(s) \in Seq(Requests)
  BY MessagesType, Zenon
<1>5. \A l \in Seq(Requests), r \in Requests \cup {NoRequest} :
        Messages(<<r>> \o l) = IF r = NoRequest THEN l ELSE <<r>> \o l
  BY MessagesOfList, Zenon
<1>6. \A s \in Seq(Tokens) : ~HasBad(s) => MessagesOf(s) = Messages(s)
  BY MessagesOfGood, Zenon
<1> QED BY <1>1, <1>2, <1>3, <1>4, <1>5, <1>6, MessagesEmpty, Zenon DEF Laws

-----------------------------------------------------------------------------
(* The theorems *)

\* The synchronous server answers the requests of every connection once each and in
\* the order sent, whichever of its workers serves the connection, for any number of
\* workers, connections and requests.
THEOREM SyncServerServesInOrder == Spec => []ServesInOrder
<1>1. Init => SyncInv
  BY LawsHold, SyncStarts, Zenon
<1>2. SyncInv /\ [Next]_vars => SyncInv'
  BY LawsHold, SyncSteps, Zenon
<1>3. SyncInv => ServesInOrder
  BY LawsHold, SyncInvServes
<1> QED BY <1>1, <1>2, <1>3, PTL DEF Spec

\* It never ends because of a client that behaves: an assertion that fails, a SIGPIPE
\* and the return of sync_server_listen each have one of the causes named.
THEOREM SyncServerEndsOnlyForCause == Spec => []EndsOnlyForCause
<1>1. Init => SyncInv
  BY LawsHold, SyncStarts, Zenon
<1>2. SyncInv /\ [Next]_vars => SyncInv'
  BY LawsHold, SyncSteps, Zenon
<1>3. SyncInv => EndsOnlyForCause
  BY Zenon DEF SyncInv
<1> QED BY <1>1, <1>2, <1>3, PTL DEF Spec
=============================================================================
