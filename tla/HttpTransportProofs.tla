------------------------- MODULE HttpTransportProofs -------------------------
(***************************************************************************)
(* The connections of net/http's Transport to one host, for any finite     *)
(* sets of requests and connections and any limits: the count per host is  *)
(* exact, a connection that is not closed is in one hand, and nobody waits *)
(* beside an idle connection or a free place.  The argument:               *)
(*   - what may have a connection is a request, a wantConn, the LRU, a     *)
(*     putOrCloseIdleConn or the readLoop about to put it back; each step  *)
(*     passes the connection from one to the next, so there is one at most *)
(*     (Unique), and it is lost only when it is closed or on the way to    *)
(*     being closed (Kept);                                                *)
(*   - a request that was answered and has not returned keeps the readLoop *)
(*     where it will reply to it, so the readLoop meets one request only   *)
(*     (ReqInv, AliveInv);                                                 *)
(*   - a wantConn is in the queues from the moment it waits, and once in   *)
(*     the queue for a place while it is not dialled for (NewInv,          *)
(*     QueueInv);                                                          *)
(*   - a cancellation closes a connection that was dialled, however late   *)
(*     it comes to it (AskInv).                                            *)
(***************************************************************************)
EXTENDS HttpTransport, FiniteSetTheorems, WellFoundedInduction, TLAPS

\* What may have a connection, and whether it has.
Req(r)  == <<"request", r>>
Want(w) == <<"want", w>>
LRU     == <<"idle", "lru">>
Home    == <<"put", "home">>
Putting == <<"put", "loop">>
Hands   == {Req(r) : r \in Requests} \cup {Want(w) : w \in Wants} \cup {LRU, Home, Putting}

Uses(r, p) ==
  /\ conn[r] = p
  /\ pc[r] \in {"got", "reading"} \/ (pc[r] = "sent" /\ r \notin answered)
Puts(p) == loop[p] \in {"read", "check", "put", "bodycheck", "bodyput"}

Has(h, p) == \/ \E r \in Requests : h = Req(r) /\ Uses(r, p)
             \/ \E w \in Wants : h = Want(w) /\ want[w] = p
             \/ h = LRU /\ p \in Range(idleLRU)
             \/ h = Home /\ home[p] # "none"
             \/ h = Putting /\ Puts(p)

Unique(p) == \A g, h \in Hands : Has(g, p) /\ Has(h, p) => g = h

Kept(p) == p \notin closed =>
  /\ loop[p] # "remove"
  /\ loop[p] = "none" => \A r \in Requests : conn[r] # p
  /\ (\E h \in Hands : Has(h, p)) <=> loop[p] \notin {"none", "dead", "exit"}

HandInv == \A p \in Conns : Unique(p) /\ Kept(p)

Replying == {"read", "check", "put", "alive", "dead"}

ReqInv ==
  \A r \in Requests :
    /\ conn[r] # None <=> pc[r] \in {"got", "sent", "reading"}
    /\ r \in answered => pc[r] \in {"sent", "reading", "done", "failed"}
    /\ r \in answered /\ pc[r] = "sent" => loop[conn[r]] \in Replying
    /\ pc[r] = "reading" => loop[conn[r]] = "body"

AliveInv ==
  \A p \in Conns \ closed : loop[p] \in {"read", "check", "put", "alive"} =>
    \E r \in answered : pc[r] = "sent" /\ conn[r] = p

\* The wantConns that are still to come, and those not yet queued for a place.
NewInv ==
  \A r \in Requests : \A a \in attempt[r]..MaxAttempts :
    /\ a > attempt[r] \/ pc[r] = "start" => want[<<r, a>>] = "new"
    /\ a > attempt[r] \/ pc[r] \in {"start", "queued"} =>
         dials[<<r, a>>] = "none" /\ <<r, a>> \notin Range(connsPerHostWait)

QueueInv ==
  /\ \A w \in Wants : Waiting(w) => w \in Range(idleConnWait)
  /\ IsInjective(connsPerHostWait)
  /\ \A w \in Range(connsPerHostWait) : dials[w] = "none"

\* Who is being cancelled is on a connection, and what an outside call is about to
\* close was dialled: it is closed or its readLoop runs.
AskInv ==
  /\ \A r \in canceling : pc[r] \in {"sent", "reading"}
  /\ \A p \in aborts : p \notin closed => loop[p] # "none"

\* The inductive invariant.
IInv == TypeOK /\ CountExact /\ HandInv /\ ReqInv /\ AliveInv /\ NewInv /\ QueueInv
          /\ AskInv /\ NobodyWaitsInVain

(***************************************************************************)
(* Facts about numbers and sequences.                                      *)
(***************************************************************************)
\* A set of numbers that is not empty has a least element.
LEMMA LeastOf ==
  ASSUME NEW S \in SUBSET Nat, S # {}
  PROVE  \E i \in S : \A j \in S : i <= j
<1> DEFINE R == OpToRel(<, Nat)
<1>1. IsWellFoundedOn(R, Nat)
  BY NatLessThanWellFounded
<1>2. \A i, j \in Nat : <<i, j>> \in R <=> i < j
  BY DEF OpToRel
<1> HIDE DEF R
<1>3. PICK i \in S : \A j \in S : ~(<<j, i>> \in R)
  BY <1>1, WFMin
<1>4. i \in Nat /\ \A j \in S : j \in Nat /\ ~(j < i)
  BY <1>2, <1>3
<1>5. \A j \in S : i <= j
  BY <1>4
<1> QED BY <1>5

LEMMA MinIn == ASSUME NEW S \in SUBSET Nat, S # {} PROVE Min(S) \in S
  BY LeastOf DEF Min

\* And a greatest, when it is bounded.
LEMMA MaxIn ==
  ASSUME NEW n \in Nat, NEW S \in SUBSET (1..n), S # {}
  PROVE  Max(S) \in S /\ \A j \in S : Max(S) >= j
<1> DEFINE T == {n - i : i \in S}
<1>0. \A i \in S : i \in 1..n /\ n - i \in Nat
  OBVIOUS
<1>1. T \in SUBSET Nat /\ T # {}
  BY <1>0
<1>2. PICK t \in T : \A j \in T : t <= j
  BY <1>1, LeastOf
<1>3. PICK i \in S : t = n - i
  BY <1>2
<1>4. \A j \in S : n - i <= n - j
  BY <1>2, <1>3
<1>5. \A j \in S : i >= j
  BY <1>0, <1>4
<1> QED BY <1>5 DEF Max

\* The elements of a sequence.
LEMMA RangeOf == ASSUME NEW S, NEW q \in Seq(S) PROVE Range(q) = {q[i] : i \in 1..Len(q)}
  BY DEF Range

LEMMA RangeIn == ASSUME NEW S, NEW q \in Seq(S) PROVE Range(q) \in SUBSET S
<1>1. Len(q) \in Nat /\ \A i \in 1..Len(q) : q[i] \in S
  OBVIOUS
<1> QED BY <1>1, RangeOf

\* Appending to, taking from and removing from a sequence without repetitions.
LEMMA AppendFacts ==
  ASSUME NEW S, NEW q \in Seq(S), IsInjective(q), NEW e \in S, e \notin Range(q)
  PROVE  /\ Append(q, e) \in Seq(S) /\ IsInjective(Append(q, e))
         /\ Range(Append(q, e)) = Range(q) \cup {e}
<1>1. /\ Append(q, e) \in Seq(S) /\ Len(Append(q, e)) = Len(q) + 1 /\ Len(q) \in Nat
      /\ \A i \in 1..Len(q) : Append(q, e)[i] = q[i]
      /\ Append(q, e)[Len(q) + 1] = e
  OBVIOUS
<1>2. Range(Append(q, e)) = {Append(q, e)[i] : i \in 1..(Len(q) + 1)} /\ Range(q) = {q[i] : i \in 1..Len(q)}
  BY <1>1, RangeOf
<1>3. Range(Append(q, e)) = Range(q) \cup {e}
  BY <1>1, <1>2
<1>4. IsInjective(Append(q, e))
  <2> SUFFICES ASSUME NEW i \in 1..(Len(q) + 1), NEW j \in 1..(Len(q) + 1),
                      Append(q, e)[i] = Append(q, e)[j]
               PROVE  i = j
    BY <1>1 DEF IsInjective
  <2>1. \A k \in 1..Len(q) : q[k] # e
    BY <1>2
  <2> QED BY <1>1, <2>1 DEF IsInjective
<1> QED BY <1>1, <1>3, <1>4

LEMMA TailFacts ==
  ASSUME NEW S, NEW q \in Seq(S), IsInjective(q), q # <<>>
  PROVE  /\ Head(q) \in S /\ Head(q) \in Range(q)
         /\ Tail(q) \in Seq(S) /\ IsInjective(Tail(q))
         /\ Range(Tail(q)) = Range(q) \ {Head(q)}
<1>1. /\ Len(q) \in Nat /\ Len(q) > 0 /\ Head(q) = q[1] /\ q[1] \in S
      /\ Tail(q) \in Seq(S) /\ Len(Tail(q)) = Len(q) - 1
      /\ \A i \in 1..(Len(q) - 1) : Tail(q)[i] = q[i + 1]
  OBVIOUS
<1>2. Range(Tail(q)) = {Tail(q)[i] : i \in 1..(Len(q) - 1)} /\ Range(q) = {q[i] : i \in 1..Len(q)}
  BY <1>1, RangeOf
<1>3. \A i, j \in 1..Len(q) : q[i] = q[j] => i = j
  BY DEF IsInjective
<1>4. IsInjective(Tail(q))
  BY <1>1, <1>3 DEF IsInjective
<1>5. Range(Tail(q)) \subseteq Range(q) \ {Head(q)}
  BY <1>1, <1>2, <1>3
<1>6. Range(q) \ {Head(q)} \subseteq Range(Tail(q))
  <2> SUFFICES ASSUME NEW i \in 1..Len(q), q[i] # q[1] PROVE q[i] \in Range(Tail(q))
    BY <1>1, <1>2
  <2>1. i - 1 \in 1..(Len(q) - 1) /\ Tail(q)[i - 1] = q[i]
    BY <1>1
  <2> QED BY <1>2, <2>1
<1> QED BY <1>1, <1>2, <1>4, <1>5, <1>6

LEMMA RemoveFacts ==
  ASSUME NEW T, NEW q \in Seq(T), IsInjective(q), NEW e
  PROVE  /\ RemoveFirst(q, e) \in Seq(T) /\ IsInjective(RemoveFirst(q, e))
         /\ Range(RemoveFirst(q, e)) = Range(q) \ {e}
<1>1. Len(q) \in Nat /\ Range(q) = {q[i] : i \in 1..Len(q)}
  BY RangeOf
<1>2. CASE ~\E i \in 1..Len(q) : q[i] = e
  BY <1>1, <1>2 DEF RemoveFirst
<1>3. CASE \E i \in 1..Len(q) : q[i] = e
  <2> DEFINE I == {i \in 1..Len(q) : q[i] = e}
  <2>1. I \in SUBSET Nat /\ I # {}
    BY <1>3
  <2>2. PICK k : k = Min(I)
    OBVIOUS
  <2>3. k \in 1..Len(q) /\ q[k] = e
    BY <2>1, <2>2, MinIn
  <2>4. RemoveFirst(q, e) = SubSeq(q, 1, k - 1) \o SubSeq(q, k + 1, Len(q))
    BY <1>3, <2>2 DEF RemoveFirst, SelectInSeq, RemoveAt
  <2> HIDE DEF I
  <2> DEFINE r == SubSeq(q, 1, k - 1) \o SubSeq(q, k + 1, Len(q))
  <2>5. /\ r \in Seq(T) /\ Len(r) = Len(q) - 1
        /\ \A i \in 1..(Len(q) - 1) : r[i] = IF i < k THEN q[i] ELSE q[i + 1]
    <3>1. /\ SubSeq(q, 1, k - 1) \in Seq(T) /\ Len(SubSeq(q, 1, k - 1)) = k - 1
          /\ \A i \in 1..(k - 1) : SubSeq(q, 1, k - 1)[i] = q[i]
      BY <1>1, <2>3
    <3>2. /\ SubSeq(q, k + 1, Len(q)) \in Seq(T) /\ Len(SubSeq(q, k + 1, Len(q))) = Len(q) - k
          /\ \A i \in 1..(Len(q) - k) : SubSeq(q, k + 1, Len(q))[i] = q[k + i]
      BY <1>1, <2>3
    <3> DEFINE a == SubSeq(q, 1, k - 1)
               b == SubSeq(q, k + 1, Len(q))
    <3> HIDE DEF a, b
    <3>3. a \in Seq(T) /\ b \in Seq(T) /\ Len(a) = k - 1 /\ Len(b) = Len(q) - k
      BY <3>1, <3>2 DEF a, b
    <3>4. a \o b \in Seq(T) /\ Len(a \o b) = Len(q) - 1
      BY <1>1, <2>3, <3>3
    <3>5. ASSUME NEW i \in 1..(Len(q) - 1) PROVE (a \o b)[i] = IF i < k THEN q[i] ELSE q[i + 1]
      <4>1. CASE i < k
        <5>1. i \in 1..Len(a)
          BY <2>3, <3>3, <4>1
        <5>2. (a \o b)[i] = a[i]
          BY <3>3, <5>1
        <5> QED BY <3>1, <3>3, <4>1, <5>1, <5>2 DEF a
      <4>2. CASE ~(i < k)
        <5>1. i - Len(a) \in 1..Len(b) /\ i - Len(a) = i - k + 1 /\ k + (i - k + 1) = i + 1
          BY <1>1, <2>3, <3>3, <4>2
        <5>2. (a \o b)[i] = b[i - Len(a)]
          BY <1>1, <3>3, <5>1
        <5>3. b[i - k + 1] = q[k + (i - k + 1)]
          BY <3>2, <3>3, <5>1 DEF b
        <5> QED BY <4>2, <5>1, <5>2, <5>3
      <4> QED BY <4>1, <4>2
    <3> QED BY <3>4, <3>5 DEF a, b
  <2> HIDE DEF r
  <2>6. \A i, j \in 1..Len(q) : q[i] = q[j] => i = j
    BY DEF IsInjective
  <2>7. IsInjective(r)
    <3> SUFFICES ASSUME NEW i \in 1..(Len(q) - 1), NEW j \in 1..(Len(q) - 1), r[i] = r[j]
                 PROVE  i = j
      BY <2>5 DEF IsInjective
    <3>1. i \in 1..Len(q) /\ j \in 1..Len(q) /\ i + 1 \in 1..Len(q) /\ j + 1 \in 1..Len(q)
      BY <1>1
    <3> QED BY <2>3, <2>5, <2>6, <3>1
  <2>8. Range(r) = {r[i] : i \in 1..(Len(q) - 1)}
    BY <2>5, RangeOf
  <2>9. Range(r) \subseteq Range(q) \ {e}
    <3> SUFFICES ASSUME NEW i \in 1..(Len(q) - 1) PROVE r[i] \in Range(q) /\ r[i] # e
      BY <2>8
    <3>1. i \in 1..Len(q) /\ i + 1 \in 1..Len(q)
      BY <1>1
    <3> QED BY <1>1, <2>3, <2>5, <2>6, <3>1
  <2>10. Range(q) \ {e} \subseteq Range(r)
    <3> SUFFICES ASSUME NEW i \in 1..Len(q), q[i] # e PROVE q[i] \in Range(r)
      BY <1>1
    <3>1. CASE i < k
      <4>1. i \in 1..(Len(q) - 1) /\ r[i] = q[i]
        BY <1>1, <2>3, <2>5, <3>1
      <4> QED BY <2>8, <4>1
    <3>2. CASE i > k
      <4>1. i - 1 \in 1..(Len(q) - 1) /\ r[i - 1] = q[i]
        BY <1>1, <2>3, <2>5, <3>2
      <4> QED BY <2>8, <4>1
    <3> QED BY <2>3, <3>1, <3>2
  <2> QED BY <2>4, <2>5, <2>7, <2>9, <2>10 DEF r
<1> QED BY <1>2, <1>3

LEMMA TailRange ==
  ASSUME NEW S, NEW q \in Seq(S), q # <<>>
  PROVE  Head(q) \in S /\ Tail(q) \in Seq(S) /\ Range(q) = Range(Tail(q)) \cup {Head(q)}
<1>1. /\ Len(q) \in Nat /\ Len(q) > 0 /\ Head(q) = q[1] /\ q[1] \in S
      /\ Tail(q) \in Seq(S) /\ Len(Tail(q)) = Len(q) - 1
      /\ \A i \in 1..(Len(q) - 1) : Tail(q)[i] = q[i + 1]
  OBVIOUS
<1>2. Range(Tail(q)) = {Tail(q)[i] : i \in 1..(Len(q) - 1)} /\ Range(q) = {q[i] : i \in 1..Len(q)}
  BY <1>1, RangeOf
<1>3. Range(Tail(q)) \cup {Head(q)} \subseteq Range(q)
  BY <1>1, <1>2
<1>4. Range(q) \subseteq Range(Tail(q)) \cup {Head(q)}
  <2> SUFFICES ASSUME NEW i \in 1..Len(q), i # 1 PROVE q[i] \in Range(Tail(q))
    BY <1>1, <1>2
  <2>1. i - 1 \in 1..(Len(q) - 1) /\ Tail(q)[i - 1] = q[i]
    BY <1>1
  <2> QED BY <1>2, <2>1
<1> QED BY <1>1, <1>3, <1>4

LEMMA AppendRange ==
  ASSUME NEW S, NEW q \in Seq(S), NEW e \in S
  PROVE  Append(q, e) \in Seq(S) /\ Range(Append(q, e)) = Range(q) \cup {e}
<1>1. /\ Append(q, e) \in Seq(S) /\ Len(Append(q, e)) = Len(q) + 1 /\ Len(q) \in Nat
      /\ \A i \in 1..Len(q) : Append(q, e)[i] = q[i]
      /\ Append(q, e)[Len(q) + 1] = e
  OBVIOUS
<1>2. Range(Append(q, e)) = {Append(q, e)[i] : i \in 1..(Len(q) + 1)} /\ Range(q) = {q[i] : i \in 1..Len(q)}
  BY <1>1, RangeOf
<1> QED BY <1>1, <1>2

\* A part of a sequence.
LEMMA PartFacts ==
  ASSUME NEW S, NEW q \in Seq(S), NEW m \in 1..(Len(q) + 1), NEW n \in 0..Len(q), m <= n + 1
  PROVE  LET b == SubSeq(q, m, n)
         IN /\ b \in Seq(S) /\ Len(b) = n - m + 1
            /\ \A i \in 1..(n - m + 1) : b[i] = q[m + i - 1]
            /\ Range(b) = {q[i] : i \in m..n}
            /\ IsInjective(q) => IsInjective(b)
<1> DEFINE b == SubSeq(q, m, n)
<1>1. /\ Len(q) \in Nat /\ b \in Seq(S) /\ Len(b) = n - m + 1
      /\ \A i \in 1..(n - m + 1) : b[i] = q[m + i - 1]
  OBVIOUS
<1>2. Range(b) = {b[i] : i \in 1..(n - m + 1)}
  BY <1>1, RangeOf
<1> HIDE DEF b
<1>3. Range(b) = {q[i] : i \in m..n}
  <2>1. \A i \in 1..(n - m + 1) : m + i - 1 \in m..n
    BY <1>1
  <2>2. Range(b) \subseteq {q[i] : i \in m..n}
    BY <1>1, <1>2, <2>1
  <2>3. ASSUME NEW i \in m..n PROVE q[i] \in Range(b)
    <3>1. i - m + 1 \in 1..(n - m + 1) /\ m + (i - m + 1) - 1 = i
      BY <1>1
    <3> QED BY <1>1, <1>2, <3>1
  <2> QED BY <2>2, <2>3
<1>4. ASSUME IsInjective(q) PROVE IsInjective(b)
  <2>1. \A i, j \in 1..Len(q) : q[i] = q[j] => i = j
    BY <1>4 DEF IsInjective
  <2> SUFFICES ASSUME NEW i \in 1..(n - m + 1), NEW j \in 1..(n - m + 1), b[i] = b[j]
               PROVE  i = j
    <3>1. DOMAIN b = 1..(n - m + 1)
      BY <1>1
    <3> QED BY <3>1 DEF IsInjective
  <2>2. m + i - 1 \in 1..Len(q) /\ m + j - 1 \in 1..Len(q) /\ q[m + i - 1] = q[m + j - 1]
    BY <1>1
  <2> QED BY <2>1, <2>2
<1> QED BY <1>1, <1>3, <1>4 DEF b

\* The last element, and what is before it.
LEMMA FrontFacts ==
  ASSUME NEW S, NEW q \in Seq(S), IsInjective(q), q # <<>>
  PROVE  /\ Last(q) \in S /\ Last(q) \in Range(q)
         /\ Front(q) \in Seq(S) /\ IsInjective(Front(q))
         /\ Range(Front(q)) = Range(q) \ {Last(q)}
<1>1. Len(q) \in Nat /\ Len(q) > 0 /\ q[Len(q)] \in S
  OBVIOUS
<1>2. /\ Front(q) \in Seq(S) /\ IsInjective(Front(q))
      /\ Range(Front(q)) = {q[i] : i \in 1..(Len(q) - 1)}
  <2>1. 1 \in 1..(Len(q) + 1) /\ Len(q) - 1 \in 0..Len(q) /\ 1 <= (Len(q) - 1) + 1
    BY <1>1
  <2> QED BY <2>1, PartFacts DEF Front
<1>3. Range(q) = {q[i] : i \in 1..Len(q)}
  BY RangeOf
<1>4. \A i, j \in 1..Len(q) : q[i] = q[j] => i = j
  BY DEF IsInjective
<1>5. Range(Front(q)) = Range(q) \ {q[Len(q)]}
  BY <1>1, <1>2, <1>3, <1>4
<1>6. Len(q) \in 1..Len(q)
  BY <1>1
<1> QED BY <1>1, <1>2, <1>3, <1>5, <1>6 DEF Last

\* A new first element.
LEMMA PushFacts ==
  ASSUME NEW S, NEW q \in Seq(S), IsInjective(q), NEW e \in S, e \notin Range(q)
  PROVE  LET b == <<e>> \o q
         IN /\ b \in Seq(S) /\ IsInjective(b) /\ b # <<>>
            /\ Range(b) = Range(q) \cup {e}
            /\ Len(b) = Len(q) + 1
            /\ Len(b) > 1 => Last(b) \in Range(q)
<1> DEFINE b == <<e>> \o q
<1>1. /\ b \in Seq(S) /\ Len(b) = Len(q) + 1 /\ Len(q) \in Nat
      /\ b[1] = e /\ \A i \in 1..Len(q) : b[i + 1] = q[i]
  OBVIOUS
<1>3. b # <<>>
  BY <1>1
<1> HIDE DEF b
<1>2. Range(b) = {b[i] : i \in 1..(Len(q) + 1)} /\ Range(q) = {q[i] : i \in 1..Len(q)}
  BY <1>1, RangeOf
<1>4. \A i \in 2..(Len(q) + 1) : i - 1 \in 1..Len(q) /\ b[i] = q[i - 1]
  <2> SUFFICES ASSUME NEW i \in 2..(Len(q) + 1) PROVE i - 1 \in 1..Len(q) /\ b[i] = q[i - 1]
    OBVIOUS
  <2>1. i - 1 \in 1..Len(q) /\ (i - 1) + 1 = i
    BY <1>1
  <2> QED BY <1>1, <2>1
<1>5. Range(b) = Range(q) \cup {e}
  <2>1. Range(b) \subseteq Range(q) \cup {e}
    BY <1>1, <1>2, <1>4
  <2>2. \A i \in 1..Len(q) : i + 1 \in 1..(Len(q) + 1) /\ 1 \in 1..(Len(q) + 1)
    BY <1>1
  <2>3. e \in Range(b)
    BY <1>1, <1>2
  <2> QED BY <1>1, <1>2, <2>1, <2>2, <2>3
<1>6. \A i, j \in 1..Len(q) : q[i] = q[j] => i = j
  BY DEF IsInjective
<1>7. IsInjective(b)
  <2> SUFFICES ASSUME NEW i \in 1..(Len(q) + 1), NEW j \in 1..(Len(q) + 1), b[i] = b[j]
               PROVE  i = j
    BY <1>1 DEF IsInjective
  <2>1. \A k \in 2..(Len(q) + 1) : b[k] # e
    BY <1>2, <1>4
  <2>2. i = 1 \/ i \in 2..(Len(q) + 1)
    BY <1>1
  <2>3. j = 1 \/ j \in 2..(Len(q) + 1)
    BY <1>1
  <2>4. CASE i = 1 \/ j = 1
    BY <1>1, <2>1, <2>2, <2>3, <2>4
  <2>5. CASE i \in 2..(Len(q) + 1) /\ j \in 2..(Len(q) + 1)
    <3>1. i - 1 \in 1..Len(q) /\ j - 1 \in 1..Len(q) /\ q[i - 1] = q[j - 1]
      BY <1>4, <2>5
    <3>2. i - 1 = j - 1
      BY <1>6, <3>1
    <3> QED BY <1>1, <3>2
  <2> QED BY <2>2, <2>3, <2>4, <2>5
<1>8. ASSUME Len(b) > 1 PROVE Last(b) \in Range(q)
  <2>1. Len(b) \in 2..(Len(q) + 1)
    BY <1>1, <1>8
  <2> QED BY <1>2, <1>4, <2>1 DEF Last
<1> QED BY <1>1, <1>3, <1>5, <1>7, <1>8 DEF b

-----------------------------------------------------------------------------
(* The queues and the idle list. *)

LEMMA WantsOK == ASSUME TypeOK, NEW r \in Requests PROVE W(r) \in Wants
  BY DEF TypeOK, W, Wants

\* cleanFront drops only what waits no longer, and ends before one that waits.
LEMMA CleanFrontFacts ==
  ASSUME NEW q \in Seq(Wants)
  PROVE  LET c == CleanFront(q)
         IN /\ c \in Seq(Wants) /\ Range(c) \subseteq Range(q)
            /\ \A w \in Range(q) : Waiting(w) => w \in Range(c)
            /\ c # <<>> => Waiting(Head(c))
            /\ c = <<>> => \A w \in Range(q) : ~Waiting(w)
            /\ IsInjective(q) => IsInjective(c)
<1> DEFINE c == CleanFront(q)
           live == {i \in 1..Len(q) : Waiting(q[i])}
<1>1. Len(q) \in Nat /\ Range(q) = {q[i] : i \in 1..Len(q)}
  BY RangeOf
<1>2. CASE live = {}
  <2>1. c = <<>>
    BY <1>2 DEF CleanFront
  <2>2. c \in Seq(Wants) /\ Range(c) = {} /\ IsInjective(c)
    BY <2>1 DEF Range, IsInjective
  <2> QED BY <1>1, <1>2, <2>1, <2>2
<1>3. CASE live # {}
  <2>1. live \in SUBSET Nat
    BY <1>1
  <2>2. PICK m : m = Min(live)
    OBVIOUS
  <2>3. m \in live /\ \A j \in live : m <= j
    BY <1>3, <2>1, <2>2, LeastOf DEF Min
  <2>4. c = SubSeq(q, m, Len(q))
    BY <1>3, <2>2 DEF CleanFront
  <2>5. m \in 1..Len(q) /\ Waiting(q[m])
    BY <2>3
  <2>6. \A i \in 1..Len(q) : Waiting(q[i]) => i \in m..Len(q)
    BY <1>1, <2>3
  <2> HIDE DEF c, live
  <2>7. /\ c \in Seq(Wants) /\ Len(c) = Len(q) - m + 1
        /\ \A i \in 1..(Len(q) - m + 1) : c[i] = q[m + i - 1]
        /\ Range(c) = {q[i] : i \in m..Len(q)}
        /\ IsInjective(q) => IsInjective(c)
    <3>1. m \in 1..(Len(q) + 1) /\ Len(q) \in 0..Len(q) /\ m <= Len(q) + 1
      BY <1>1, <2>5
    <3> QED BY <2>4, <3>1, PartFacts
  <2>8. c # <<>> /\ Head(c) = q[m]
    <3>1. 1 \in 1..(Len(q) - m + 1) /\ m + 1 - 1 = m
      BY <1>1, <2>5
    <3> QED BY <2>7, <3>1
  <2>9. Range(c) \subseteq Range(q)
    BY <1>1, <2>5, <2>7
  <2>10. \A w \in Range(q) : Waiting(w) => w \in Range(c)
    BY <1>1, <2>6, <2>7
  <2> QED BY <2>5, <2>7, <2>8, <2>9, <2>10 DEF c
<1> QED BY <1>2, <1>3

\* queueForIdleConn takes the last connection that is not broken; what is behind
\* it is closed.
LEMMA UsableFacts ==
  ASSUME NEW q \in Seq(Conns), IsInjective(q)
  PROVE  LET u == Usable(q)
         IN /\ u = <<>> => Range(q) \subseteq closed
            /\ u # <<>> =>
                 /\ Last(u) \in Range(q) \ closed
                 /\ Front(u) \in Seq(Conns) /\ IsInjective(Front(u))
                 /\ Range(Front(u)) \subseteq Range(q) \ {Last(u)}
                 /\ Range(q) \ (Range(Front(u)) \cup {Last(u)}) \subseteq closed
<1> DEFINE u == Usable(q)
           live == {i \in 1..Len(q) : q[i] \notin closed}
<1>1. Len(q) \in Nat /\ Range(q) = {q[i] : i \in 1..Len(q)}
  BY RangeOf
<1>2. CASE live = {}
  BY <1>1, <1>2 DEF Usable
<1>3. CASE live # {}
  <2>1. live \in SUBSET (1..Len(q))
    OBVIOUS
  <2>2. PICK m : m = Max(live)
    OBVIOUS
  <2>3. m \in live /\ \A j \in live : m >= j
    BY <1>1, <1>3, <2>1, <2>2, MaxIn
  <2>4. u = SubSeq(q, 1, m)
    BY <1>3, <2>2 DEF Usable
  <2>5. m \in 1..Len(q) /\ q[m] \notin closed
    BY <2>3
  <2>6. \A i \in 1..Len(q) : q[i] \notin closed => i \in 1..m
    BY <1>1, <2>3
  <2> HIDE DEF u, live
  <2>7. /\ u \in Seq(Conns) /\ Len(u) = m /\ IsInjective(u)
        /\ \A i \in 1..m : u[i] = q[i]
        /\ Range(u) = {q[i] : i \in 1..m}
    <3>1. 1 \in 1..(Len(q) + 1) /\ m \in 0..Len(q) /\ 1 <= m + 1
      BY <1>1, <2>5
    <3>2. /\ u \in Seq(Conns) /\ Len(u) = m - 1 + 1 /\ IsInjective(u)
          /\ \A i \in 1..(m - 1 + 1) : u[i] = q[1 + i - 1]
          /\ Range(u) = {q[i] : i \in 1..m}
      BY <2>4, <3>1, PartFacts
    <3> QED BY <2>5, <3>2
  <2>8. u # <<>> /\ Last(u) = q[m]
    BY <1>1, <2>5, <2>7 DEF Last
  <2>9. /\ Front(u) \in Seq(Conns) /\ IsInjective(Front(u))
        /\ Range(Front(u)) = Range(u) \ {Last(u)}
    BY <2>7, <2>8, FrontFacts
  <2>10. Range(u) \subseteq Range(q) /\ q[m] \in Range(q)
    BY <1>1, <2>5, <2>7
  <2>11. Range(q) \ Range(u) \subseteq closed
    BY <1>1, <2>6, <2>7
  <2> QED BY <2>5, <2>8, <2>9, <2>10, <2>11 DEF u
<1> QED BY <1>2, <1>3

-----------------------------------------------------------------------------
(* The count of connections, and the queue for a place. *)

Dialing == {w \in Wants : dials[w] = "dialing"}
Live    == {p \in Conns : loop[p] # "none" /\ p \notin closed}

LEMMA LimitsOK ==
  /\ MaxConnsPerHost \in Nat \ {0} /\ MaxIdleConnsPerHost \in Nat \ {0}
  /\ MaxIdleConns \in Nat \ {0} /\ MaxAttempts \in Nat \ {0}
  BY HttpTransportAssumption

LEMMA WantsFinite == IsFiniteSet(Wants)
<1>1. IsFiniteSet(1..MaxAttempts)
  <2>1. 1 \in Int /\ MaxAttempts \in Int
    BY LimitsOK
  <2> QED BY <2>1, FS_Interval
<1> QED BY <1>1, HttpTransportAssumption, FS_Product DEF Wants

LEMMA CountFacts ==
  /\ IsFiniteSet(Dialing) /\ IsFiniteSet(Live)
  /\ Cardinality(Dialing) \in Nat /\ Cardinality(Live) \in Nat
<1>1. Dialing \in SUBSET Wants /\ Live \in SUBSET Conns
  BY DEF Dialing, Live
<1>2. IsFiniteSet(Dialing) /\ IsFiniteSet(Live)
  BY <1>1, WantsFinite, HttpTransportAssumption, FS_Subset
<1> QED BY <1>2, FS_CardinalityType

LEMMA CountFactsNext ==
  /\ IsFiniteSet(Dialing') /\ IsFiniteSet(Live')
  /\ Cardinality(Dialing') \in Nat /\ Cardinality(Live') \in Nat
<1>1. Dialing' \in SUBSET Wants /\ Live' \in SUBSET Conns
  BY DEF Dialing, Live
<1>2. IsFiniteSet(Dialing') /\ IsFiniteSet(Live')
  BY <1>1, WantsFinite, HttpTransportAssumption, FS_Subset
<1> QED BY <1>2, FS_CardinalityType

\* What is counted can be taken off the count.
LEMMA Counted ==
  ASSUME TypeOK, CountExact, uncount > 0 \/ Live # {}
  PROVE  connsPerHost >= 1
<1>1. Live # {} => Cardinality(Live) # 0
  BY CountFacts, FS_EmptySet
<1>2. connsPerHost = uncount + Cardinality(Dialing) + Cardinality(Live) /\ uncount \in Nat
  BY DEF CountExact, Dialing, Live, TypeOK
<1> QED BY <1>1, <1>2, CountFacts

\* decConnsPerHost gives the place to h, the first that waits, ...
Granted(h) ==
  /\ h \in Range(connsPerHostWait) /\ h \in Wants /\ Waiting(h) /\ dials[h] = "none"
  /\ dials' = [dials EXCEPT ![h] = "dialing"] /\ connsPerHost' = connsPerHost
  /\ connsPerHostWait' \in Seq(Wants) /\ IsInjective(connsPerHostWait')
  /\ Range(connsPerHostWait') \subseteq Range(connsPerHostWait) \ {h}
  /\ \A w \in Range(connsPerHostWait) : Waiting(w) => w = h \/ w \in Range(connsPerHostWait')

\* ... or, when nobody waits, frees it.
Freed ==
  /\ connsPerHostWait' = <<>> /\ connsPerHost' = connsPerHost - 1 /\ dials' = dials
  /\ \A w \in Range(connsPerHostWait) : ~Waiting(w)

LEMMA DecFacts ==
  ASSUME TypeOK, QueueInv, DecConnsPerHost(1)
  PROVE  Freed \/ \E h \in Wants : Granted(h)
<1> DEFINE q == CleanFront(connsPerHostWait)
<1>0. connsPerHostWait \in Seq(Wants) /\ IsInjective(connsPerHostWait)
  BY DEF TypeOK, QueueInv
<1>1. /\ q \in Seq(Wants) /\ Range(q) \subseteq Range(connsPerHostWait)
      /\ \A w \in Range(connsPerHostWait) : Waiting(w) => w \in Range(q)
      /\ q # <<>> => Waiting(Head(q))
      /\ q = <<>> => \A w \in Range(connsPerHostWait) : ~Waiting(w)
      /\ IsInjective(q)
  BY <1>0, CleanFrontFacts
<1>2. CASE q = <<>>
  BY <1>1, <1>2 DEF DecConnsPerHost, Freed
<1>3. CASE q # <<>>
  <2>1. /\ connsPerHostWait' = Tail(q) /\ connsPerHost' = connsPerHost
        /\ dials' = [dials EXCEPT ![Head(q)] = "dialing"]
    BY <1>3 DEF DecConnsPerHost
  <2> HIDE DEF q
  <2>2. /\ Head(q) \in Wants /\ Head(q) \in Range(q)
        /\ Tail(q) \in Seq(Wants) /\ IsInjective(Tail(q))
        /\ Range(Tail(q)) = Range(q) \ {Head(q)}
    BY <1>1, <1>3, TailFacts
  <2>3. dials[Head(q)] = "none"
    BY <1>1, <2>2 DEF QueueInv
  <2> QED BY <1>1, <1>3, <2>1, <2>2, <2>3 DEF Granted
<1> QED BY <1>2, <1>3

\* The queue for a place loses nobody who waits and is not dialled for.
HostOK ==
  /\ connsPerHost' \in 0..MaxConnsPerHost
  /\ connsPerHostWait' \in Seq(Wants) /\ IsInjective(connsPerHostWait')
  /\ dials' \in [Wants -> {"none", "dialing"}]
  /\ \A w \in Range(connsPerHostWait') : dials'[w] = "none"
  /\ \A w \in Wants : dials[w] = "none" /\ w \notin Range(connsPerHostWait)
                        => dials'[w] = "none" /\ w \notin Range(connsPerHostWait')
  /\ \A w \in Wants : want'[w] = "waiting" /\ dials'[w] = "none" =>
       /\ dials[w] = "none"
       /\ w \in Range(connsPerHostWait)
            => connsPerHost' = connsPerHost /\ w \in Range(connsPerHostWait')

LEMMA HostSame ==
  ASSUME TypeOK, QueueInv, UNCHANGED <<hostVars, dials>>
  PROVE  HostOK
  BY DEF TypeOK, QueueInv, hostVars, HostOK

LEMMA DecOK ==
  ASSUME TypeOK, QueueInv, DecConnsPerHost(1), connsPerHost >= 1, want' = want
  PROVE  HostOK
<1>0. /\ dials \in [Wants -> {"none", "dialing"}] /\ connsPerHost \in 0..MaxConnsPerHost
      /\ MaxConnsPerHost \in Nat
      /\ \A w \in Range(connsPerHostWait) : dials[w] = "none"
  BY HttpTransportAssumption DEF TypeOK, QueueInv
<1>1. CASE Freed
  <2>1. connsPerHostWait' \in Seq(Wants) /\ IsInjective(connsPerHostWait') /\ Range(connsPerHostWait') = {}
    BY <1>1 DEF Freed, Range, IsInjective
  <2>2. connsPerHost' \in 0..MaxConnsPerHost
    BY <1>0, <1>1 DEF Freed
  <2> QED BY <1>0, <1>1, <2>1, <2>2 DEF Freed, HostOK, Waiting
<1>2. ASSUME NEW h \in Wants, Granted(h) PROVE HostOK
  BY <1>0, <1>2 DEF Granted, HostOK, Waiting
<1> QED BY <1>1, <1>2, DecFacts

LEMMA CloseOK ==
  ASSUME TypeOK, QueueInv, CountExact, NEW p \in Conns, Close(p), want' = want,
         p \notin closed => loop[p] # "none"
  PROVE  HostOK /\ closed' = closed \cup {p}
<1>1. CASE p \in closed
  BY <1>1, HostSame DEF Close, Counts, DecConnsPerHost
<1>2. CASE p \notin closed
  <2>1. p \in Live
    BY <1>2 DEF Live
  <2>2. DecConnsPerHost(1) /\ closed' = closed \cup {p}
    BY <1>2 DEF Close, Counts
  <2> QED BY <2>1, <2>2, Counted, DecOK
<1> QED BY <1>1, <1>2

\* The place of one dial or connection less goes to a new dial, or is free.
LEMMA DecCount ==
  ASSUME TypeOK, QueueInv, DecConnsPerHost(1)
  PROVE  connsPerHost' - Cardinality(Dialing') = connsPerHost - Cardinality(Dialing) - 1
<1>0. dials \in [Wants -> {"none", "dialing"}] /\ connsPerHost \in Nat
  BY HttpTransportAssumption DEF TypeOK
<1>1. CASE Freed
  <2>1. Dialing' = Dialing /\ connsPerHost' = connsPerHost - 1
    BY <1>1 DEF Freed, Dialing
  <2> QED BY <1>0, <2>1, CountFacts
<1>2. ASSUME NEW h \in Wants, Granted(h)
      PROVE  connsPerHost' - Cardinality(Dialing') = connsPerHost - Cardinality(Dialing) - 1
  <2>1. Dialing' = Dialing \cup {h} /\ h \notin Dialing /\ connsPerHost' = connsPerHost
    BY <1>0, <1>2 DEF Granted, Dialing
  <2>2. Cardinality(Dialing') = Cardinality(Dialing) + 1
    BY <2>1, CountFacts, FS_AddElement
  <2> QED BY <1>0, <2>1, <2>2, CountFacts
<1> QED BY <1>1, <1>2, DecFacts

LEMMA CountIs == CountExact <=> connsPerHost = uncount + Cardinality(Dialing) + Cardinality(Live)
  BY DEF CountExact, Dialing, Live

LEMMA CountIsNext ==
  CountExact' <=> connsPerHost' = uncount' + Cardinality(Dialing') + Cardinality(Live')
  BY DEF CountExact, Dialing, Live

LEMMA CountClose ==
  ASSUME TypeOK, QueueInv, CountExact, NEW p \in Conns, Close(p), uncount' = uncount,
         p \notin closed => loop[p] # "none",
         \A q \in Conns : loop'[q] = "none" <=> loop[q] = "none"
  PROVE  CountExact'
<1>0. uncount \in Nat /\ connsPerHost \in Nat
  BY HttpTransportAssumption DEF TypeOK
<1>1. closed' = closed \cup {p}
  BY DEF Close
<1>2. CASE p \in closed
  <2>1. connsPerHost' = connsPerHost /\ dials' = dials
    BY <1>2 DEF Close, Counts, DecConnsPerHost, hostVars
  <2>2. Live' = Live /\ Dialing' = Dialing
    BY <1>1, <1>2, <2>1 DEF Live, Dialing
  <2> QED BY <2>1, <2>2, CountIs, CountIsNext
<1>3. CASE p \notin closed
  <2>1. DecConnsPerHost(1)
    BY <1>3 DEF Close, Counts
  <2>2. p \in Live /\ Live' = Live \ {p}
    BY <1>1, <1>3 DEF Live
  <2>3. Cardinality(Live') = Cardinality(Live) - 1
    BY <2>2, CountFacts, FS_RemoveElement
  <2>4. connsPerHost' - Cardinality(Dialing') = connsPerHost - Cardinality(Dialing) - 1
    BY <2>1, DecCount
  <2>5. connsPerHost' \in Int
    BY <1>0, <2>1, DecFacts DEF Freed, Granted
  <2> QED BY <1>0, <2>3, <2>4, <2>5, CountFacts, CountFactsNext, CountIs, CountIsNext
<1> QED BY <1>2, <1>3

LEMMA CountSame ==
  ASSUME CountExact, UNCHANGED <<hostVars, dials, uncount, closed>>,
         \A q \in Conns : loop'[q] = "none" <=> loop[q] = "none"
  PROVE  CountExact'
<1>1. Live' = Live /\ Dialing' = Dialing /\ connsPerHost' = connsPerHost
  BY DEF Live, Dialing, hostVars
<1> QED BY <1>1, CountIs, CountIsNext

LEMMA CountUncounts ==
  ASSUME TypeOK, QueueInv, CountExact, DecConnsPerHost(1), uncount' = uncount - 1, Live' = Live
  PROVE  CountExact'
<1>0. uncount \in Nat /\ connsPerHost \in Nat
  BY LimitsOK DEF TypeOK
<1>1. connsPerHost' - Cardinality(Dialing') = connsPerHost - Cardinality(Dialing) - 1
  BY DecCount
<1>2. connsPerHost' \in Int
  BY <1>0, DecFacts DEF Freed, Granted
<1>3. connsPerHost = uncount + Cardinality(Dialing) + Cardinality(Live)
  BY CountIs
<1>4. Cardinality(Dialing') \in Nat /\ Cardinality(Dialing) \in Nat /\ Cardinality(Live) \in Nat
  BY CountFacts, CountFactsNext
<1>5. PICK c \in Int, u \in Int, b \in Int : c = connsPerHost /\ u = uncount /\ b = connsPerHost'
  BY <1>0, <1>2
<1>6. PICK d \in Int, e \in Int, k \in Int :
        d = Cardinality(Dialing) /\ e = Cardinality(Dialing') /\ k = Cardinality(Live)
  BY <1>4
<1>7. c = u + d + k
  BY <1>3, <1>5, <1>6
<1>8. b - e = c - d - 1
  BY <1>1, <1>5, <1>6
<1>9. b = (u - 1) + e + k
  BY <1>7, <1>8
<1>10. connsPerHost' = uncount' + Cardinality(Dialing') + Cardinality(Live')
  BY <1>5, <1>6, <1>9
<1> QED BY <1>10, CountIsNext

-----------------------------------------------------------------------------
(* Who has a connection. *)

LEMMA HandKinds ==
  /\ \A r \in Requests : Req(r) \in Hands
  /\ \A w \in Wants : Want(w) \in Hands
  /\ LRU \in Hands /\ Home \in Hands /\ Putting \in Hands
  /\ \A h \in Hands : \/ \E r \in Requests : h = Req(r)
                      \/ \E w \in Wants : h = Want(w)
                      \/ h \in {LRU, Home, Putting}
  BY DEF Hands

LEMMA HandsDiffer ==
  /\ \A r, s : Req(r) = Req(s) => r = s
  /\ \A v, w : Want(v) = Want(w) => v = w
  /\ \A r, w : Req(r) # Want(w)
  /\ \A r : Req(r) # LRU /\ Req(r) # Home /\ Req(r) # Putting
  /\ \A w : Want(w) # LRU /\ Want(w) # Home /\ Want(w) # Putting
  /\ LRU # Home /\ LRU # Putting /\ Home # Putting
<1>1. "request" # "want" /\ "request" # "idle" /\ "request" # "put" /\ "want" # "idle"
      /\ "want" # "put" /\ "idle" # "put" /\ "home" # "loop"
  OBVIOUS
<1> QED BY <1>1 DEF Req, Want, LRU, Home, Putting

LEMMA HasFacts ==
  ASSUME NEW p
  PROVE  /\ \A r \in Requests : Has(Req(r), p) <=> Uses(r, p)
         /\ \A w \in Wants : Has(Want(w), p) <=> want[w] = p
         /\ Has(LRU, p) <=> p \in Range(idleLRU)
         /\ Has(Home, p) <=> home[p] # "none"
         /\ Has(Putting, p) <=> Puts(p)
  BY HandsDiffer DEF Has

LEMMA HasFactsNext ==
  ASSUME NEW p
  PROVE  /\ \A r \in Requests : Has(Req(r), p)' <=> Uses(r, p)'
         /\ \A w \in Wants : Has(Want(w), p)' <=> want'[w] = p
         /\ Has(LRU, p)' <=> p \in Range(idleLRU')
         /\ Has(Home, p)' <=> home'[p] # "none"
         /\ Has(Putting, p)' <=> Puts(p)'
  BY HandsDiffer DEF Has

\* Only a, if anybody, has p.
Only(a, p) ==
  /\ \A r \in Requests : Uses(r, p) => a = Req(r)
  /\ \A w \in Wants : want[w] = p => a = Want(w)
  /\ p \in Range(idleLRU) => a = LRU
  /\ home[p] # "none" => a = Home
  /\ Puts(p) => a = Putting

Nobody(p) ==
  /\ \A r \in Requests : ~Uses(r, p)
  /\ \A w \in Wants : want[w] # p
  /\ p \notin Range(idleLRU) /\ home[p] = "none" /\ ~Puts(p)

LEMMA UniqueOnly ==
  ASSUME NEW p, Unique(p), NEW a \in Hands, Has(a, p)
  PROVE  Only(a, p)
<1>1. \A h \in Hands : Has(h, p) => a = h
  BY DEF Unique
<1> QED BY <1>1, HasFacts, HandKinds DEF Only

LEMMA OnlyUnique ==
  ASSUME NEW p, NEW a, Only(a, p)'
  PROVE  Unique(p)' /\ \A h \in Hands : Has(h, p)' => h = a
<1>1. ASSUME NEW h \in Hands, Has(h, p)' PROVE h = a
  <2>1. CASE \E r \in Requests : h = Req(r)
    BY <1>1, <2>1, HasFactsNext DEF Only
  <2>2. CASE \E w \in Wants : h = Want(w)
    BY <1>1, <2>2, HasFactsNext DEF Only
  <2>3. CASE h \in {LRU, Home, Putting}
    BY <1>1, <2>3, HasFactsNext DEF Only
  <2> QED BY <2>1, <2>2, <2>3, HandKinds
<1>2. Unique(p)'
  BY <1>1 DEF Unique
<1> QED BY <1>1, <1>2

\* Where a readLoop is, as far as Kept tells it apart.
Class(l) == IF l \in {"dead", "exit"} THEN "leaving" ELSE IF l \in {"none", "remove"} THEN l ELSE "live"

\* A step that passes p to b, ...
LEMMA MovedTo ==
  ASSUME NEW p, NEW b \in Hands, Only(b, p)',
         p \in closed' \/ (Class(loop'[p]) = "live" /\ Has(b, p)')
  PROVE  Unique(p)' /\ Kept(p)'
<1>1. Unique(p)'
  BY OnlyUnique
<1>2. Class(loop'[p]) = "live" => loop'[p] \notin {"none", "remove", "dead", "exit"}
  BY DEF Class
<1> QED BY <1>1, <1>2 DEF Kept

\* ... one that leaves it to the readLoop that ends, ...
LEMMA MovedOff ==
  ASSUME NEW p, Nobody(p)', p \in closed' \/ loop'[p] \in {"dead", "exit"}
  PROVE  Unique(p)' /\ Kept(p)'
<1>1. ASSUME NEW h \in Hands PROVE ~Has(h, p)'
  <2>1. CASE \E r \in Requests : h = Req(r)
    BY <2>1, HasFactsNext DEF Nobody
  <2>2. CASE \E w \in Wants : h = Want(w)
    BY <2>2, HasFactsNext DEF Nobody
  <2>3. CASE h \in {LRU, Home, Putting}
    BY <2>3, HasFactsNext DEF Nobody
  <2> QED BY <2>1, <2>2, <2>3, HandKinds
<1> QED BY <1>1 DEF Kept, Unique

\* ... and one that leaves it where it is, or closes it.
Calm(p) ==
  /\ \A r \in Requests : Uses(r, p)' => Uses(r, p)
  /\ \A w \in Wants : want'[w] = p => want[w] = p
  /\ p \in Range(idleLRU') => p \in Range(idleLRU)
  /\ home'[p] # "none" => home[p] # "none"
  /\ Puts(p)' => Puts(p)
  /\ \/ p \in closed'
     \/ /\ p \notin closed /\ Class(loop'[p]) = Class(loop[p])
        /\ \A r \in Requests : conn'[r] = p => conn[r] = p
        /\ \A r \in Requests : Uses(r, p) => Uses(r, p)'
        /\ \A w \in Wants : want[w] = p => want'[w] = p
        /\ p \in Range(idleLRU) => p \in Range(idleLRU')
        /\ home[p] # "none" => home'[p] # "none"
        /\ Puts(p) => Puts(p)'

LEMMA CalmOK ==
  ASSUME NEW p, Unique(p), Kept(p), Calm(p)
  PROVE  Unique(p)' /\ Kept(p)'
<1>1. ASSUME NEW h \in Hands, Has(h, p)' PROVE Has(h, p)
  <2>1. CASE \E r \in Requests : h = Req(r)
    BY <1>1, <2>1, HasFacts, HasFactsNext DEF Calm
  <2>2. CASE \E w \in Wants : h = Want(w)
    BY <1>1, <2>2, HasFacts, HasFactsNext DEF Calm
  <2>3. CASE h \in {LRU, Home, Putting}
    BY <1>1, <2>3, HasFacts, HasFactsNext DEF Calm
  <2> QED BY <2>1, <2>2, <2>3, HandKinds
<1>2. Unique(p)'
  BY <1>1 DEF Unique
<1>3. ASSUME p \notin closed' PROVE Kept(p)'
  <2>1. ASSUME NEW h \in Hands, Has(h, p) PROVE Has(h, p)'
    <3>1. CASE \E r \in Requests : h = Req(r)
      BY <1>3, <2>1, <3>1, HasFacts, HasFactsNext DEF Calm
    <3>2. CASE \E w \in Wants : h = Want(w)
      BY <1>3, <2>1, <3>2, HasFacts, HasFactsNext DEF Calm
    <3>3. CASE h \in {LRU, Home, Putting}
      BY <1>3, <2>1, <3>3, HasFacts, HasFactsNext DEF Calm
    <3> QED BY <3>1, <3>2, <3>3, HandKinds
  <2>2. p \notin closed /\ Class(loop'[p]) = Class(loop[p])
        /\ \A r \in Requests : conn'[r] = p => conn[r] = p
    BY <1>3 DEF Calm
  <2>3. /\ loop'[p] = "remove" <=> loop[p] = "remove"
        /\ loop'[p] = "none" <=> loop[p] = "none"
        /\ loop'[p] \in {"none", "dead", "exit"} <=> loop[p] \in {"none", "dead", "exit"}
    BY <2>2 DEF Class
  <2>4. (\E h \in Hands : Has(h, p)') <=> (\E h \in Hands : Has(h, p))
    BY <1>1, <2>1
  <2> QED BY <2>2, <2>3, <2>4 DEF Kept
<1>4. p \in closed' => Kept(p)'
  BY DEF Kept
<1> QED BY <1>2, <1>3, <1>4

\* A connection somebody has, or a request is with, has a readLoop unless it is closed.
LEMMA HasLoop ==
  ASSUME NEW p \in Conns, Kept(p), p \notin closed,
         (\E h \in Hands : Has(h, p)) \/ (\E r \in Requests : conn[r] = p)
  PROVE  loop[p] # "none"
  BY DEF Kept

-----------------------------------------------------------------------------
(* tryPutIdleConn. *)

LEMMA HandOverFacts ==
  ASSUME TypeOK, NEW p \in Conns, HandOver(p)
  PROVE  /\ \E h \in Wants :
              /\ Waiting(h) /\ want' = [want EXCEPT ![h] = p]
              /\ idleConnWait' \in Seq(Wants)
              /\ \A w \in Range(idleConnWait) : Waiting(w) => w = h \/ w \in Range(idleConnWait')
         /\ UNCHANGED <<idleConn, idleLRU, closeIdle, hostVars, dials, closed, timer>>
<1> DEFINE q == Takers(idleConnWait)
<1>0. idleConnWait \in Seq(Wants)
  BY DEF TypeOK
<1>1. /\ q \in Seq(Wants)
      /\ \A w \in Range(idleConnWait) : Waiting(w) => w \in Range(q)
      /\ q # <<>> => Waiting(Head(q))
  BY <1>0, CleanFrontFacts DEF Takers
<1>2. /\ q # <<>> /\ want' = [want EXCEPT ![Head(q)] = p] /\ idleConnWait' = Tail(q)
      /\ UNCHANGED <<idleConn, idleLRU, closeIdle, hostVars, dials, closed, timer>>
  BY DEF HandOver
<1> HIDE DEF q
<1>3. Head(q) \in Wants /\ Tail(q) \in Seq(Wants) /\ Range(q) = Range(Tail(q)) \cup {Head(q)}
  BY <1>1, <1>2, TailRange
<1> QED BY <1>1, <1>2, <1>3

\* What is evicted when p is kept: nothing, or one idle connection, which is closed.
Kicks(E, p) ==
  /\ \/ E = {} /\ UNCHANGED <<hostVars, dials, closed>>
     \/ \E e \in Range(idleLRU) : E = {e} /\ Close(e)
  /\ Range(idleLRU') = (Range(idleLRU) \ E) \cup {p}
  /\ Range(idleConn') = (Range(idleConn) \ E) \cup {p}

LEMMA KeepFacts ==
  ASSUME TypeOK, NEW p \in Conns, p \notin Range(idleLRU), Keep(p)
  PROVE  /\ \A w \in Range(idleConnWait) : ~Waiting(w)
         /\ idleConn' \in Seq(Conns) /\ IsInjective(idleConn')
         /\ idleLRU' \in Seq(Conns) /\ IsInjective(idleLRU')
         /\ timer' \subseteq Conns
         /\ idleConnWait' = <<>> /\ UNCHANGED <<want, closeIdle>>
         /\ \E E \in SUBSET Range(idleLRU) : Kicks(E, p)
<1> DEFINE lru == <<p>> \o idleLRU
           e   == Last(lru)
           q   == Append(idleConn, p)
<1>0. /\ idleConnWait \in Seq(Wants) /\ idleLRU \in Seq(Conns) /\ IsInjective(idleLRU)
      /\ idleConn \in Seq(Conns) /\ IsInjective(idleConn) /\ p \notin Range(idleConn)
      /\ Range(idleConn) \subseteq Range(idleLRU) /\ timer \subseteq Conns
  BY DEF TypeOK
<1>1. /\ \A w \in Range(idleConnWait) : ~Waiting(w)
      /\ idleConnWait' = <<>> /\ UNCHANGED <<want, closeIdle>>
  BY <1>0, CleanFrontFacts DEF Keep, Takers
<1>2. /\ lru \in Seq(Conns) /\ IsInjective(lru) /\ lru # <<>>
      /\ Range(lru) = Range(idleLRU) \cup {p} /\ Len(lru) = Len(idleLRU) + 1
      /\ Len(lru) > 1 => e \in Range(idleLRU)
  BY <1>0, PushFacts
<1>3. q \in Seq(Conns) /\ IsInjective(q) /\ Range(q) = Range(idleConn) \cup {p}
  BY <1>0, AppendFacts
<1>4. CASE Len(lru) <= MaxIdleConns
  <2>1. /\ idleConn' = q /\ idleLRU' = lru /\ timer' = timer \cup {p}
        /\ UNCHANGED <<hostVars, dials, closed>>
    <3>1. ~(Len(lru) > MaxIdleConns)
      BY <1>0, <1>2, <1>4, LimitsOK
    <3> QED BY <3>1 DEF Keep
  <2> HIDE DEF lru, q, e
  <2>2. Kicks({}, p)
    BY <1>2, <1>3, <2>1 DEF Kicks
  <2> QED BY <1>0, <1>1, <1>2, <1>3, <2>1, <2>2
<1>5. CASE Len(lru) > MaxIdleConns
  <2>1. /\ idleConn' = Evicted(q, e) /\ idleLRU' = Front(lru) /\ Close(e)
        /\ timer' = (timer \ {e}) \cup {p}
    <3>1. ~(Len(lru) <= MaxIdleConns)
      BY <1>0, <1>2, <1>5, LimitsOK
    <3> QED BY <3>1 DEF Keep
  <2>2. e \in Range(idleLRU) /\ e # p
    <3>1. Len(lru) > 1
      BY <1>0, <1>2, <1>5, LimitsOK
    <3> QED BY <1>2, <3>1
  <2> HIDE DEF lru, q
  <2>3. /\ Front(lru) \in Seq(Conns) /\ IsInjective(Front(lru))
        /\ Range(Front(lru)) = Range(lru) \ {e}
    BY <1>2, FrontFacts
  <2> HIDE DEF e
  <2>4. /\ Evicted(q, e) \in Seq(Conns) /\ IsInjective(Evicted(q, e))
        /\ Range(Evicted(q, e)) = Range(q) \ {e}
    BY <1>3, RemoveFacts DEF Evicted, Without
  <2>5. Kicks({e}, p)
    BY <1>2, <1>3, <2>1, <2>2, <2>3, <2>4 DEF Kicks
  <2> QED BY <1>0, <1>1, <2>1, <2>2, <2>3, <2>4, <2>5
<1>6. Len(lru) \in Nat
  BY <1>2
<1> QED BY <1>4, <1>5, <1>6, LimitsOK

-----------------------------------------------------------------------------
(* Closing, by whom it may be. *)

LEMMA ConnOK ==
  ASSUME IInv, NEW r \in Requests, pc[r] \in {"got", "sent", "reading"}
  PROVE  conn[r] \in Conns
  BY DEF IInv, TypeOK, ReqInv

LEMMA NotANone == None \notin Conns /\ \A p \in Conns : p \notin {"new", "waiting", "error", "canceled", "taken"}
  BY HttpTransportAssumption

\* p can be counted off, if it is not closed.
Closable(p) == \/ home[p] # "none" \/ p \in Range(idleLRU) \/ loop[p] # "none"
               \/ p \in aborts \/ \E r \in Requests : conn[r] = p

LEMMA ClosableFacts ==
  ASSUME IInv, NEW p \in Conns, Closable(p)
  PROVE  p \notin closed => loop[p] # "none"
<1>1. Kept(p)
  BY DEF IInv, HandInv
<1>2. (home[p] # "none" => Has(Home, p)) /\ (p \in Range(idleLRU) => Has(LRU, p))
  BY HasFacts
<1>3. p \in aborts /\ p \notin closed => loop[p] # "none"
  BY DEF IInv, AskInv
<1> QED BY <1>1, <1>2, <1>3, HasLoop, HandKinds DEF Closable

\* The connection of who is being cancelled.
LEMMA OwnConn ==
  ASSUME IInv, NEW r \in canceling
  PROVE  r \in Requests /\ pc[r] \in {"sent", "reading"} /\ conn[r] \in Conns
<1>1. r \in Requests /\ pc[r] \in {"sent", "reading"}
  BY DEF IInv, AskInv, TypeOK
<1> QED BY <1>1, ConnOK

LEMMA CloseFacts ==
  ASSUME IInv, NEW p \in Conns, Closable(p), Close(p), want' = want
  PROVE  HostOK /\ closed' = closed \cup {p}
  BY ClosableFacts, CloseOK DEF IInv

LEMMA CloseCount ==
  ASSUME IInv, NEW p \in Conns, Closable(p), Close(p), uncount' = uncount,
         \A q \in Conns : loop'[q] = "none" <=> loop[q] = "none"
  PROVE  CountExact'
  BY ClosableFacts, CountClose DEF IInv

\* Who puts a connection back has it: it is not in the LRU.
LEMMA PutterHas ==
  ASSUME IInv, NEW p \in Conns, home[p] # "none" \/ Puts(p)
  PROVE  /\ p \notin Range(idleLRU) /\ (\A r \in Requests : ~Uses(r, p)) /\ (\A w \in Wants : want[w] # p)
         /\ home[p] = "none" \/ ~Puts(p)
<1>1. Unique(p)
  BY DEF IInv, HandInv
<1>2. CASE home[p] # "none"
  <2>1. Only(Home, p)
    BY <1>1, <1>2, HasFacts, HandKinds, UniqueOnly
  <2> QED BY <2>1, HandsDiffer DEF Only
<1>3. CASE Puts(p)
  <2>1. Only(Putting, p)
    BY <1>1, <1>3, HasFacts, HandKinds, UniqueOnly
  <2> QED BY <2>1, HandsDiffer DEF Only
<1> QED BY <1>2, <1>3

LEMMA KicksFacts ==
  ASSUME IInv, NEW p, NEW E \in SUBSET Range(idleLRU), Kicks(E, p), want' = want
  PROVE  /\ HostOK /\ closed' = closed \cup E
         /\ uncount' = uncount /\ (\A q \in Conns : loop'[q] = "none" <=> loop[q] = "none")
              => CountExact'
<1>0. /\ TypeOK /\ QueueInv /\ CountExact
      /\ Range(idleLRU) \in SUBSET Conns
  BY RangeIn DEF IInv, TypeOK
<1>1. CASE E = {} /\ UNCHANGED <<hostVars, dials, closed>>
  BY <1>0, <1>1, HostSame, CountSame
<1>2. ASSUME NEW e \in Range(idleLRU), E = {e}, Close(e)
      PROVE  /\ HostOK /\ closed' = closed \cup E
             /\ uncount' = uncount /\ (\A q \in Conns : loop'[q] = "none" <=> loop[q] = "none")
                  => CountExact'
  <2>1. e \in Conns /\ Closable(e)
    BY <1>0 DEF Closable
  <2> QED BY <1>2, <2>1, CloseFacts, CloseCount
<1> QED BY <1>1, <1>2 DEF Kicks

\* The queue for a place keeps its own in every step but queueForDial.
LEMMA HostStep == ASSUME IInv, Next PROVE HostOK \/ \E r \in Requests : QueueForDial(r)
<1>a. TypeOK /\ QueueInv /\ CountExact
  BY DEF IInv
<1>b. ASSUME UNCHANGED <<hostVars, dials>> PROVE HostOK
  BY <1>a, <1>b, HostSame
<1>c. ASSUME NEW r \in Requests, pc[r] \in {"sent", "reading"}, Close(conn[r]), want' = want
      PROVE  HostOK
  <2>1. conn[r] \in Conns /\ Closable(conn[r])
    BY <1>c, ConnOK DEF Closable
  <2> QED BY <1>c, <2>1, CloseFacts
<1>d. ASSUME NEW p \in Conns, HandOver(p) PROVE HostOK
  BY <1>b, <1>d DEF HandOver
<1>e. ASSUME NEW p \in Conns, home[p] # "none" \/ Puts(p), Keep(p) PROVE HostOK
  <2>1. p \notin Range(idleLRU)
    BY <1>e, PutterHas
  <2>2. want' = want /\ \E E \in SUBSET Range(idleLRU) : Kicks(E, p)
    BY <1>a, <1>e, <2>1, KeepFacts
  <2> QED BY <2>2, KicksFacts
<1>f. ASSUME Refuse PROVE HostOK
  BY <1>b, <1>f DEF Refuse
<1>1. ASSUME NEW r \in Requests, Request(r) PROVE HostOK \/ QueueForDial(r)
  <2>1. CASE CtxDone(r)
    BY <1>b, <2>1 DEF CtxDone
  <2>2. CASE QueueForIdleConn(r)
    BY <1>b, <2>2 DEF QueueForIdleConn
  <2>3. CASE Ready(r)
    BY <1>b, <2>3 DEF Ready
  <2>4. CASE GetConnFails(r)
    BY <1>b, <2>4 DEF GetConnFails
  <2>5. CASE GiveBack(r)
    BY <1>b, <2>5 DEF GiveBack
  <2>6. CASE Send(r)
    BY <1>b, <2>6 DEF Send
  <2>7. CASE SeesDone(r)
    BY <1>b, <2>7 DEF SeesDone
  <2>8. CASE SeesClosed(r)
    BY <1>b, <2>8 DEF SeesClosed
  <2>9. CASE BodyRead(r)
    BY <1>b, <2>9 DEF BodyRead
  <2>10. CASE BodyClosed(r)
    BY <1>b, <2>10 DEF BodyClosed
  <2>11. CASE BodyDone(r)
    BY <1>b, <2>11 DEF BodyDone
  <2>12. CASE CancelsOwn(r)
    <3>1. pc[r] \in {"sent", "reading"} /\ Close(conn[r]) /\ want' = want
      BY <2>12, OwnConn DEF CancelsOwn, Cancel
    <3> QED BY <1>c, <3>1
  <2> QED BY <1>1, <2>1, <2>2, <2>3, <2>4, <2>5, <2>6, <2>7, <2>8, <2>9, <2>10, <2>11, <2>12 DEF Request
<1>2. ASSUME NEW r \in Requests, Breaks(r) PROVE HostOK
  BY <1>c, <1>2 DEF Breaks
<1>3. ASSUME NEW r \in Requests, ContextDone(r) PROVE HostOK
  BY <1>b, <1>3 DEF ContextDone
<1>4. ASSUME NEW r \in Requests, CancelRequest(r) PROVE HostOK
  BY <1>b, <1>4 DEF CancelRequest
<1>5. ASSUME NEW w \in Wants, DialDone(w) \/ DialFails(w) PROVE HostOK
  <2>1. /\ dials' = [dials EXCEPT ![w] = "none"] /\ UNCHANGED hostVars
        /\ \A v \in Wants : want'[v] = "waiting" => want[v] = "waiting"
        /\ want'[w] # "waiting"
    <3>1. CASE DialDone(w)
      <4>1. PICK p \in Conns : want' = IF Waiting(w) THEN [want EXCEPT ![w] = p] ELSE want
        BY <3>1 DEF DialDone, Fresh
      <4> QED BY <1>a, <3>1, <4>1, NotANone DEF DialDone, TypeOK, Waiting
    <3>2. CASE DialFails(w)
      BY <1>a, <3>2 DEF DialFails, TypeOK, Waiting
    <3> QED BY <1>5, <3>1, <3>2
  <2> QED BY <1>a, <2>1 DEF HostOK, TypeOK, QueueInv, hostVars
<1>6. ASSUME NEW p \in Conns, Loop(p) PROVE HostOK
  <2>1. CASE ReadFails(p)
    BY <1>b, <2>1 DEF ReadFails
  <2>2. CASE ReadResponse(p)
    BY <1>b, <2>2 DEF ReadResponse
  <2>3. CASE LoopCheck(p)
    BY <1>b, <2>3 DEF LoopCheck
  <2>4. CASE LoopPut(p)
    BY <1>d, <1>e, <1>f, <2>4 DEF LoopPut, Puts
  <2>5. CASE Reply(p)
    BY <1>b, <2>5 DEF Reply
  <2>6. CASE LoopExits(p)
    BY <2>6, CloseFacts DEF LoopExits, Closable
  <2>7. CASE RemoveIdleConn(p)
    BY <1>b, <2>7 DEF RemoveIdleConn
  <2>8. CASE DropCanceler(p)
    BY <1>b, <2>8 DEF DropCanceler
  <2> QED BY <1>6, <2>1, <2>2, <2>3, <2>4, <2>5, <2>6, <2>7, <2>8 DEF Loop
<1>7. ASSUME NEW p \in Conns, PeekFailsIdle(p) PROVE HostOK
  BY <1>7, CloseFacts DEF PeekFailsIdle, Closable
<1>8. ASSUME NEW p \in Conns, Homing(p) PROVE HostOK
  <2>1. CASE HomeCheck(p)
    BY <1>b, <2>1 DEF HomeCheck
  <2>2. CASE HomePut(p)
    BY <1>d, <1>e, <1>f, <2>2 DEF HomePut
  <2>3. CASE HomeClose(p)
    BY <2>3, CloseFacts DEF HomeClose, Closable
  <2> QED BY <1>8, <2>1, <2>2, <2>3 DEF Homing
<1>9. ASSUME NEW p \in Conns, IdleTimeout(p) PROVE HostOK
  BY <1>9, <1>b, CloseFacts DEF IdleTimeout, Closable
<1>10. CASE DialUncounts
  BY <1>a, <1>10, Counted, DecOK DEF DialUncounts
<1>11. CASE CloseIdleConnections
  BY <1>b, <1>11 DEF CloseIdleConnections
<1>12. ASSUME NEW p \in Conns, CancelsOutside(p) PROVE HostOK
  BY <1>12, CloseFacts DEF CancelsOutside, Cancel, Closable
<1> QED BY <1>1, <1>2, <1>3, <1>4, <1>5, <1>6, <1>7, <1>8, <1>9, <1>10, <1>11, <1>12 DEF Next, Dial

-----------------------------------------------------------------------------
(* The steps, in terms of who is in which list. *)

Found(r, p) ==
  /\ p \in Range(idleConn) \ closed
  /\ idleConn' \in Seq(Conns) /\ IsInjective(idleConn')
  /\ Range(idleConn') \subseteq Range(idleConn) \ {p}
  /\ Range(idleConn) \ (Range(idleConn') \cup {p}) \subseteq closed
  /\ idleLRU' \in Seq(Conns) /\ IsInjective(idleLRU') /\ Range(idleLRU') = Range(idleLRU) \ {p}
  /\ conn' = [conn EXCEPT ![r] = p] /\ want' = [want EXCEPT ![W(r)] = "taken"]
  /\ reqCanceler' = reqCanceler \cup {r} /\ Goto(r, "got") /\ UNCHANGED idleConnWait

InLine(r) ==
  /\ Range(idleConn) \subseteq closed /\ idleConn' = <<>>
  /\ idleConnWait' \in Seq(Wants) /\ W(r) \in Range(idleConnWait')
  /\ \A w \in Range(idleConnWait) : Waiting(w) => w \in Range(idleConnWait')
  /\ want' = [want EXCEPT ![W(r)] = "waiting"]
  /\ Goto(r, "queued") /\ UNCHANGED <<idleLRU, conn, reqCanceler>>

LEMMA QueueFacts ==
  ASSUME TypeOK, NEW r \in Requests, QueueForIdleConn(r)
  PROVE  InLine(r) \/ \E p \in Conns : Found(r, p)
<1> DEFINE list == Usable(idleConn)
           c    == CleanFront(idleConnWait)
<1>0. /\ idleConn \in Seq(Conns) /\ IsInjective(idleConn)
      /\ idleLRU \in Seq(Conns) /\ IsInjective(idleLRU) /\ idleConnWait \in Seq(Wants)
  BY DEF TypeOK
<1>1. CASE list # <<>>
  <2>1. /\ conn' = [conn EXCEPT ![r] = Last(list)]
        /\ idleConn' = Front(list) /\ idleLRU' = Without(idleLRU, Last(list))
        /\ want' = [want EXCEPT ![W(r)] = "taken"]
        /\ reqCanceler' = reqCanceler \cup {r} /\ Goto(r, "got") /\ UNCHANGED idleConnWait
    BY <1>1 DEF QueueForIdleConn
  <2>2. /\ Last(list) \in Range(idleConn) \ closed
        /\ Front(list) \in Seq(Conns) /\ IsInjective(Front(list))
        /\ Range(Front(list)) \subseteq Range(idleConn) \ {Last(list)}
        /\ Range(idleConn) \ (Range(Front(list)) \cup {Last(list)}) \subseteq closed
    BY <1>0, <1>1, UsableFacts
  <2>3. Last(list) \in Conns
    BY <1>0, <2>2, RangeIn
  <2> HIDE DEF list
  <2>4. PICK p : p = Last(list)
    OBVIOUS
  <2>5. /\ Without(idleLRU, p) \in Seq(Conns) /\ IsInjective(Without(idleLRU, p))
        /\ Range(Without(idleLRU, p)) = Range(idleLRU) \ {p}
    BY <1>0, RemoveFacts DEF Without
  <2> QED BY <2>1, <2>2, <2>3, <2>4, <2>5 DEF Found
<1>2. CASE list = <<>>
  <2>1. /\ idleConn' = <<>> /\ idleConnWait' = Append(c, W(r))
        /\ want' = [want EXCEPT ![W(r)] = "waiting"]
        /\ Goto(r, "queued") /\ UNCHANGED <<idleLRU, conn, reqCanceler>>
    BY <1>2 DEF QueueForIdleConn
  <2>2. Range(idleConn) \subseteq closed
    BY <1>0, <1>2, UsableFacts
  <2>3. c \in Seq(Wants) /\ \A w \in Range(idleConnWait) : Waiting(w) => w \in Range(c)
    BY <1>0, CleanFrontFacts
  <2> HIDE DEF c, list
  <2>4. Append(c, W(r)) \in Seq(Wants) /\ Range(Append(c, W(r))) = Range(c) \cup {W(r)}
    BY <2>3, WantsOK, AppendRange
  <2> QED BY <2>1, <2>2, <2>3, <2>4 DEF InLine
<1> QED BY <1>1, <1>2

\* dialConnFor has the new connection p.
Dialled(w, p) ==
  /\ p \in Fresh /\ dials[w] = "dialing" /\ dials' = [dials EXCEPT ![w] = "none"]
  /\ loop' = [loop EXCEPT ![p] = "peek"]
  /\ closed' = closed \ {p} /\ reused' = reused \ {p} /\ canceledErr' = canceledErr \ {p}
  /\ timer' = timer \ {p}
  /\ want' = IF Waiting(w) THEN [want EXCEPT ![w] = p] ELSE want
  /\ home' = IF Waiting(w) THEN home ELSE [home EXCEPT ![p] = "check"]
  /\ UNCHANGED <<idleVars, hostVars, uncount, pc, conn, attempt, cancVars, answered, faults>>

LEMMA DialFacts == ASSUME NEW w, DialDone(w) PROVE \E p \in Conns : Dialled(w, p)
<1> DEFINE p == CHOOSE p \in Fresh : TRUE
<1>1. p \in Fresh /\ p \in Conns
  BY DEF DialDone, Fresh
<1>2. Dialled(w, p)
  BY <1>1 DEF DialDone, Dialled
<1> QED BY <1>1, <1>2

\* removeIdleConnLocked.
LEMMA RemovedFacts ==
  ASSUME TypeOK, NEW p, idleConn' = Evicted(idleConn, p), idleLRU' = Without(idleLRU, p)
  PROVE  /\ idleConn' \in Seq(Conns) /\ IsInjective(idleConn') /\ Range(idleConn') = Range(idleConn) \ {p}
         /\ idleLRU' \in Seq(Conns) /\ IsInjective(idleLRU') /\ Range(idleLRU') = Range(idleLRU) \ {p}
  BY RemoveFacts DEF TypeOK, Evicted, Without

LEMMA FaultOK == ASSUME TypeOK, Fault PROVE faults' \in 0..MaxFaults
  BY HttpTransportAssumption DEF TypeOK, Fault

LEMMA EmptyFacts == ASSUME NEW S PROVE <<>> \in Seq(S) /\ IsInjective(<<>>) /\ Range(<<>>) = {}
  BY DEF IsInjective, Range

LEMMA RetryOK ==
  ASSUME TypeOK, NEW r \in Requests, Fails(r)
  PROVE  /\ pc' \in [Requests -> {"start", "queued", "wait", "got", "sent", "reading", "done", "failed"}]
         /\ conn' \in [Requests -> Conns \cup {None}] /\ attempt' \in [Requests -> 1..MaxAttempts]
         /\ reqCanceler' \subseteq Requests /\ answered' \subseteq Requests
         /\ conn' = [conn EXCEPT ![r] = None] /\ reqCanceler' = reqCanceler \ {r}
         /\ \/ pc' = [pc EXCEPT ![r] = "failed"] /\ attempt' = attempt /\ answered' = answered
            \/ /\ pc' = [pc EXCEPT ![r] = "start"] /\ attempt[r] + 1 \in 1..MaxAttempts
               /\ attempt' = [attempt EXCEPT ![r] = attempt[r] + 1]
               /\ answered' = answered \ {r}
<1>0. /\ attempt \in [Requests -> 1..MaxAttempts] /\ MaxAttempts \in Nat
      /\ conn' = [conn EXCEPT ![r] = None] /\ reqCanceler' = reqCanceler \ {r}
      /\ conn' \in [Requests -> Conns \cup {None}] /\ reqCanceler' \subseteq Requests
      /\ answered \subseteq Requests
  BY LimitsOK DEF TypeOK, Fails
<1>1. PICK retry \in Retries(r) :
        /\ pc' = [pc EXCEPT ![r] = IF retry THEN "start" ELSE "failed"]
        /\ attempt' = [attempt EXCEPT ![r] = IF retry THEN @ + 1 ELSE @]
        /\ answered' = IF retry THEN answered \ {r} ELSE answered
  BY DEF Fails
<1>2. retry => attempt[r] < MaxAttempts
  BY DEF Retries
<1>3. CASE retry
  <2>1. attempt[r] \in 1..MaxAttempts
    BY <1>0
  <2>2. attempt[r] + 1 \in 1..MaxAttempts
    BY <1>0, <1>2, <1>3, <2>1
  <2>3. /\ pc' = [pc EXCEPT ![r] = "start"] /\ attempt' = [attempt EXCEPT ![r] = attempt[r] + 1]
        /\ answered' = answered \ {r}
    BY <1>1, <1>3
  <2> QED BY <1>0, <2>2, <2>3 DEF TypeOK
<1>4. CASE ~retry
  <2>1. pc' = [pc EXCEPT ![r] = "failed"] /\ attempt' = attempt /\ answered' = answered
    BY <1>0, <1>1, <1>4
  <2> QED BY <1>0, <2>1 DEF TypeOK
<1> QED BY <1>3, <1>4

\* What a request that fails leaves to the others.
LEMMA FailsFacts ==
  ASSUME TypeOK, NEW r \in Requests, Fails(r)
  PROVE  /\ conn'[r] = None /\ pc'[r] \in {"start", "failed"}
         /\ \A s \in Requests \ {r} : pc'[s] = pc[s] /\ conn'[s] = conn[s]
         /\ \A s \in Requests \ {r} : s \in answered' <=> s \in answered
         /\ answered' \subseteq answered
         /\ r \in answered' => pc'[r] = "failed"
<1>1. /\ pc \in [Requests -> {"start", "queued", "wait", "got", "sent", "reading", "done", "failed"}]
      /\ conn \in [Requests -> Conns \cup {None}]
  BY DEF TypeOK
<1>2. /\ conn' = [conn EXCEPT ![r] = None]
      /\ \/ pc' = [pc EXCEPT ![r] = "failed"] /\ answered' = answered
         \/ pc' = [pc EXCEPT ![r] = "start"] /\ answered' = answered \ {r}
  BY RetryOK
<1> QED BY <1>1, <1>2

-----------------------------------------------------------------------------
(* Types. *)

LEMMA DialQueued ==
  ASSUME IInv, NEW r \in Requests, QueueForDial(r)
  PROVE  /\ W(r) \in Wants /\ dials[W(r)] = "none" /\ W(r) \notin Range(connsPerHostWait)
         /\ \/ /\ connsPerHost < MaxConnsPerHost /\ connsPerHost' = connsPerHost + 1
               /\ dials' = [dials EXCEPT ![W(r)] = "dialing"] /\ UNCHANGED connsPerHostWait
            \/ /\ connsPerHost = MaxConnsPerHost /\ UNCHANGED <<connsPerHost, dials>>
               /\ connsPerHostWait' \in Seq(Wants) /\ IsInjective(connsPerHostWait')
               /\ Range(connsPerHostWait') \subseteq Range(connsPerHostWait) \cup {W(r)}
               /\ W(r) \in Range(connsPerHostWait')
               /\ \A w \in Range(connsPerHostWait) : Waiting(w) => w \in Range(connsPerHostWait')
<1>a. TypeOK /\ QueueInv /\ NewInv
  BY DEF IInv
<1>1. W(r) \in Wants
  BY <1>a, WantsOK
<1>2. dials[W(r)] = "none" /\ W(r) \notin Range(connsPerHostWait)
  <2>1. attempt[r] \in attempt[r]..MaxAttempts /\ pc[r] = "queued"
    BY <1>a, LimitsOK DEF TypeOK, QueueForDial
  <2> QED BY <1>a, <2>1 DEF NewInv, W
<1>3. CASE connsPerHost < MaxConnsPerHost
  <2>1. ~(connsPerHost >= MaxConnsPerHost)
    BY <1>a, <1>3, LimitsOK DEF TypeOK
  <2> QED BY <1>1, <1>2, <1>3, <2>1 DEF QueueForDial
<1>4. CASE ~(connsPerHost < MaxConnsPerHost)
  <2> DEFINE c == CleanFront(connsPerHostWait)
  <2>1. connsPerHost = MaxConnsPerHost
    BY <1>a, <1>4, LimitsOK DEF TypeOK
  <2>2. connsPerHostWait' = Append(c, W(r)) /\ UNCHANGED <<connsPerHost, dials>>
    BY <1>4 DEF QueueForDial
  <2>3. connsPerHostWait \in Seq(Wants) /\ IsInjective(connsPerHostWait)
    BY <1>a DEF TypeOK, QueueInv
  <2>4. /\ c \in Seq(Wants) /\ Range(c) \subseteq Range(connsPerHostWait) /\ IsInjective(c)
        /\ \A w \in Range(connsPerHostWait) : Waiting(w) => w \in Range(c)
    BY <2>3, CleanFrontFacts
  <2> HIDE DEF c
  <2>5. /\ Append(c, W(r)) \in Seq(Wants) /\ IsInjective(Append(c, W(r)))
        /\ Range(Append(c, W(r))) = Range(c) \cup {W(r)}
    BY <1>1, <1>2, <2>4, AppendFacts
  <2> QED BY <1>1, <1>2, <2>1, <2>2, <2>4, <2>5
<1> QED BY <1>3, <1>4

LEMMA HostTypes ==
  ASSUME IInv, Next
  PROVE  /\ connsPerHost' \in 0..MaxConnsPerHost /\ connsPerHostWait' \in Seq(Wants)
         /\ dials' \in [Wants -> {"none", "dialing"}]
<1>a. TypeOK
  BY DEF IInv
<1>1. ASSUME NEW r \in Requests, QueueForDial(r)
      PROVE  /\ connsPerHost' \in 0..MaxConnsPerHost /\ connsPerHostWait' \in Seq(Wants)
             /\ dials' \in [Wants -> {"none", "dialing"}]
  <2>0. connsPerHost \in 0..MaxConnsPerHost /\ MaxConnsPerHost \in Nat
    BY <1>a, LimitsOK DEF TypeOK
  <2>2. \/ connsPerHost < MaxConnsPerHost /\ connsPerHost' = connsPerHost + 1
        \/ connsPerHost' = connsPerHost
    BY <1>1, DialQueued
  <2>1. connsPerHost' \in 0..MaxConnsPerHost
    BY <2>0, <2>2
  <2> QED BY <1>a, <1>1, <2>1, DialQueued DEF TypeOK
<1> QED BY <1>1, HostStep DEF HostOK

\* What tryPutIdleConn leaves.
LEMMA PutTypes ==
  ASSUME IInv, NEW p \in Conns, home[p] # "none" \/ Puts(p), HandOver(p) \/ Keep(p) \/ Refuse
  PROVE  /\ idleConn' \in Seq(Conns) /\ idleLRU' \in Seq(Conns)
         /\ IsInjective(idleConn') /\ IsInjective(idleLRU')
         /\ Range(idleConn') \subseteq Range(idleLRU')
         /\ Range(idleLRU') \ Range(idleConn') \subseteq closed'
         /\ idleConnWait' \in Seq(Wants) /\ closeIdle' \in BOOLEAN
         /\ want' \in [Wants -> Conns \cup {"new", "waiting", "error", "canceled", "taken"}]
         /\ closed' \subseteq Conns /\ timer' \subseteq Conns
<1>a. TypeOK /\ p \notin Range(idleLRU)
  BY PutterHas DEF IInv
<1>1. CASE HandOver(p)
  BY <1>a, <1>1, HandOverFacts DEF TypeOK
<1>2. CASE Keep(p)
  <2>1. PICK E \in SUBSET Range(idleLRU) : Kicks(E, p)
    BY <1>a, <1>2, KeepFacts
  <2>2. /\ idleConn' \in Seq(Conns) /\ IsInjective(idleConn')
        /\ idleLRU' \in Seq(Conns) /\ IsInjective(idleLRU')
        /\ timer' \subseteq Conns /\ idleConnWait' = <<>> /\ UNCHANGED <<want, closeIdle>>
    BY <1>a, <1>2, KeepFacts
  <2>3. closed' = closed \cup E
    BY <2>1, <2>2, KicksFacts
  <2>4. E \subseteq Conns
    BY <1>a, RangeIn DEF TypeOK
  <2> QED BY <1>a, <2>1, <2>2, <2>3, <2>4, EmptyFacts DEF TypeOK, Kicks
<1>3. CASE Refuse
  BY <1>a, <1>3, EmptyFacts DEF TypeOK, Refuse
<1> QED BY <1>1, <1>2, <1>3

LEMMA TypeStep == ASSUME IInv, Next PROVE TypeOK'
<1>a. TypeOK /\ Range(idleConn) \subseteq Conns /\ Range(idleLRU) \subseteq Conns
  BY RangeIn DEF IInv, TypeOK
<1>b. /\ connsPerHost' \in 0..MaxConnsPerHost /\ connsPerHostWait' \in Seq(Wants)
      /\ dials' \in [Wants -> {"none", "dialing"}]
  BY HostTypes
<1>c. ASSUME NEW r \in Requests PROVE W(r) \in Wants
  BY <1>a, WantsOK
<1>d. ASSUME NEW p \in Conns, Cancel(p), canceling' \subseteq canceling, aborts' \subseteq aborts
      PROVE  TypeOK'
  <2>1. closed' = closed \cup {p}
    BY <1>d DEF Cancel, Close
  <2>2. canceling' \subseteq Requests /\ aborts' \subseteq Conns
    BY <1>a, <1>d DEF TypeOK
  <2> QED BY <1>a, <1>b, <1>d, <2>1, <2>2 DEF Cancel, TypeOK, idleVars
<1> USE DEF idleVars, connVars, cancVars, askVars
<1>1. ASSUME NEW r \in Requests, CtxDone(r) PROVE TypeOK'
  BY <1>a, <1>b, <1>1 DEF CtxDone, Goto, TypeOK
<1>2. ASSUME NEW r \in Requests, QueueForIdleConn(r) PROVE TypeOK'
  <2>0. closeIdle' = FALSE /\ UNCHANGED <<hostVars, dials, uncount, connVars, loop, home, timer,
                                          attempt, askVars, answered, faults>>
    BY <1>2 DEF QueueForIdleConn
  <2>1. ASSUME NEW p \in Conns, Found(r, p) PROVE TypeOK'
    <3>1. /\ Range(idleConn') \subseteq Range(idleLRU')
          /\ Range(idleLRU') \ Range(idleConn') \subseteq closed'
      BY <1>a, <2>0, <2>1 DEF Found, TypeOK
    <3>2. /\ want' \in [Wants -> Conns \cup {"new", "waiting", "error", "canceled", "taken"}]
          /\ conn' \in [Requests -> Conns \cup {None}]
          /\ pc' \in [Requests -> {"start", "queued", "wait", "got", "sent", "reading", "done", "failed"}]
      BY <1>a, <1>c, <2>1 DEF Found, Goto, TypeOK
    <3>3. /\ idleConn' \in Seq(Conns) /\ IsInjective(idleConn') /\ idleConnWait' \in Seq(Wants)
          /\ idleLRU' \in Seq(Conns) /\ IsInjective(idleLRU')
          /\ reqCanceler' \subseteq Requests
      BY <1>a, <2>1 DEF Found, TypeOK
    <3>4. /\ closeIdle' \in BOOLEAN /\ uncount' \in Nat /\ faults' \in 0..MaxFaults
          /\ \A S \in {closed', reused', canceledErr', timer'} : S \subseteq Conns
          /\ loop' = loop /\ home' = home /\ attempt' = attempt
      BY <1>a, <2>0 DEF TypeOK
    <3>5. /\ \A S \in {reqCanceler', done', cancelc', canceling', answered'} : S \subseteq Requests
          /\ aborts' \subseteq Conns /\ rcReq' \in [Conns -> Requests \cup {None}]
      BY <1>a, <2>0, <3>3 DEF TypeOK
    <3> QED BY <1>a, <1>b, <3>1, <3>2, <3>3, <3>4, <3>5 DEF TypeOK
  <2>2. CASE InLine(r)
    BY <1>a, <1>b, <1>c, <2>0, <2>2, EmptyFacts DEF InLine, Goto, TypeOK
  <2> QED BY <1>a, <1>2, <2>1, <2>2, QueueFacts
<1>3. ASSUME NEW r \in Requests, QueueForDial(r) PROVE TypeOK'
  BY <1>a, <1>b, <1>3 DEF QueueForDial, Goto, TypeOK
<1>4. ASSUME NEW r \in Requests, Ready(r) PROVE TypeOK'
  BY <1>a, <1>b, <1>c, <1>4 DEF Ready, Goto, TypeOK
<1>5. ASSUME NEW r \in Requests, GetConnFails(r) PROVE TypeOK'
  BY <1>a, <1>b, <1>c, <1>5 DEF GetConnFails, Goto, TypeOK
<1>6. ASSUME NEW r \in Requests, GiveBack(r) PROVE TypeOK'
  BY <1>a, <1>b, <1>6 DEF GiveBack, Goto, TypeOK
<1>7. ASSUME NEW r \in Requests, Send(r) PROVE TypeOK'
  BY <1>a, <1>b, <1>7 DEF Send, Goto, TypeOK
<1>8. ASSUME NEW r \in Requests, SeesDone(r) PROVE TypeOK'
  BY <1>a, <1>b, <1>8 DEF SeesDone, TakesCanceler, TypeOK
<1>9. ASSUME NEW r \in Requests, SeesClosed(r) PROVE TypeOK'
  BY <1>a, <1>b, <1>9, RetryOK DEF SeesClosed, TypeOK
<1>10. ASSUME NEW r \in Requests, BodyRead(r) PROVE TypeOK'
  <2>1. PICK l \in {"bodycheck", "exit"} : LoopTo(conn[r], l)
    BY <1>10 DEF BodyRead
  <2>2. loop' \in [Conns -> {"none", "peek", "read", "check", "put", "alive", "dead", "body",
                             "bodycheck", "bodyput", "exit", "remove"}]
    BY <1>a, <2>1 DEF LoopTo, TypeOK
  <2> QED BY <1>a, <1>b, <1>10, <2>2 DEF BodyRead, Goto, TypeOK
<1>11. ASSUME NEW r \in Requests, BodyClosed(r) PROVE TypeOK'
  BY <1>a, <1>b, <1>11 DEF BodyClosed, LoopTo, Goto, TypeOK
<1>12. ASSUME NEW r \in Requests, BodyDone(r) PROVE TypeOK'
  BY <1>a, <1>b, <1>12 DEF BodyDone, TakesCanceler, TypeOK
<1>13. ASSUME NEW r \in Requests, Breaks(r) PROVE TypeOK'
  <2>1. closed' = closed \cup {conn[r]} /\ conn[r] \in Conns
    BY <1>13, ConnOK DEF Breaks, Close
  <2>2. faults' \in 0..MaxFaults
    BY <1>a, <1>13, FaultOK DEF Breaks
  <2> QED BY <1>a, <1>b, <1>13, <2>1, <2>2, RetryOK DEF Breaks, TypeOK
<1>14. ASSUME NEW r \in Requests, ContextDone(r) PROVE TypeOK'
  BY <1>a, <1>b, <1>14 DEF ContextDone, TypeOK
<1>15. ASSUME NEW r \in Requests, CancelRequest(r) PROVE TypeOK'
  <2>1. faults' \in 0..MaxFaults
    BY <1>a, <1>15, FaultOK DEF CancelRequest
  <2>2. reqCanceler' \subseteq Requests /\ cancelc' \subseteq Requests /\ aborts' \subseteq Conns
    BY <1>a, <1>15, ConnOK DEF CancelRequest, TakesCanceler, TypeOK
  <2> QED BY <1>a, <1>b, <1>15, <2>1, <2>2 DEF CancelRequest, TypeOK
<1>16. ASSUME NEW w \in Wants, DialDone(w) PROVE TypeOK'
  <2>1. PICK p \in Conns : Dialled(w, p)
    BY <1>16, DialFacts
  <2>2. p \notin Range(idleLRU)
    BY <2>1 DEF Dialled, Fresh
  <2> QED BY <1>a, <1>b, <2>1, <2>2 DEF Dialled, TypeOK
<1>17. ASSUME NEW w \in Wants, DialFails(w) PROVE TypeOK'
  <2>1. faults' \in 0..MaxFaults
    BY <1>a, <1>17, FaultOK DEF DialFails
  <2> QED BY <1>a, <1>b, <1>17, <2>1 DEF DialFails, TypeOK
<1>18. ASSUME DialUncounts PROVE TypeOK'
  <2>1. uncount' \in Nat
    BY <1>a, <1>18 DEF DialUncounts, TypeOK
  <2> QED BY <1>a, <1>b, <1>18, <2>1 DEF DialUncounts, TypeOK
<1>e. ASSUME NEW p \in Conns, HangsUp(p) PROVE faults' \in 0..MaxFaults
  BY <1>a, <1>e, FaultOK DEF HangsUp, TypeOK
<1>19. ASSUME NEW p \in Conns, ReadFails(p) PROVE TypeOK'
  <2>1. PICK r \in Requests : Fails(r)
    BY <1>19 DEF ReadFails, Rc
  <2> QED BY <1>a, <1>b, <1>e, <1>19, <2>1, RetryOK DEF ReadFails, LoopTo, TypeOK
<1>20. ASSUME NEW p \in Conns, ReadResponse(p) PROVE TypeOK'
  <2>1. Rc(p) \subseteq Requests
    BY DEF Rc
  <2>2. PICK r \in Rc(p), l \in {"body", "read"} :
          /\ loop' = [loop EXCEPT ![p] = l]
          /\ pc' = [pc EXCEPT ![r] = "reading"] \/ pc' = pc
          /\ rcReq' = [rcReq EXCEPT ![p] = r] \/ rcReq' = rcReq
    BY <1>20 DEF ReadResponse, Goto, LoopTo
  <2>3. /\ pc' \in [Requests -> {"start", "queued", "wait", "got", "sent", "reading", "done", "failed"}]
        /\ rcReq' \in [Conns -> Requests \cup {None}]
    BY <1>a, <2>1, <2>2 DEF TypeOK
  <2>4. loop' \in [Conns -> {"none", "peek", "read", "check", "put", "alive", "dead", "body",
                             "bodycheck", "bodyput", "exit", "remove"}]
    BY <1>a, <2>2 DEF TypeOK
  <2> QED BY <1>a, <1>b, <1>20, <2>1, <2>3, <2>4 DEF ReadResponse, TypeOK
<1>21. ASSUME NEW p \in Conns, LoopCheck(p) PROVE TypeOK'
  BY <1>a, <1>b, <1>21 DEF LoopCheck, LoopTo, TypeOK
<1>22. ASSUME NEW p \in Conns, LoopPut(p) PROVE TypeOK'
  <2>1. HandOver(p) \/ Keep(p) \/ Refuse
    BY <1>22 DEF LoopPut
  <2>2. Puts(p)
    BY <1>22 DEF LoopPut, Puts
  <2>5. PICK l \in {"alive", "peek", "dead", "exit"} : LoopTo(p, l)
    BY <1>22 DEF LoopPut
  <2>6. loop \in [Conns -> {"none", "peek", "read", "check", "put", "alive", "dead", "body",
                            "bodycheck", "bodyput", "exit", "remove"}]
    BY <1>a DEF TypeOK
  <2>3. loop' \in [Conns -> {"none", "peek", "read", "check", "put", "alive", "dead", "body",
                             "bodycheck", "bodyput", "exit", "remove"}]
    BY <2>5, <2>6 DEF LoopTo
  <2>4. UNCHANGED <<uncount, reused, canceledErr, home, pc, conn, attempt, cancVars, answered, faults>>
    BY <1>22 DEF LoopPut
  <2> QED BY <1>a, <1>b, <2>1, <2>2, <2>3, <2>4, PutTypes DEF TypeOK
<1>23. ASSUME NEW p \in Conns, Reply(p) PROVE TypeOK'
  BY <1>a, <1>b, <1>23 DEF Reply, LoopTo, TypeOK
<1>24. ASSUME NEW p \in Conns, LoopExits(p) PROVE TypeOK'
  BY <1>a, <1>b, <1>24 DEF LoopExits, LoopTo, Close, TypeOK
<1>25. ASSUME NEW p \in Conns, RemoveIdleConn(p) PROVE TypeOK'
  <2>1. /\ idleConn' \in Seq(Conns) /\ IsInjective(idleConn') /\ Range(idleConn') = Range(idleConn) \ {p}
        /\ idleLRU' \in Seq(Conns) /\ IsInjective(idleLRU') /\ Range(idleLRU') = Range(idleLRU) \ {p}
    BY <1>a, <1>25, RemovedFacts DEF RemoveIdleConn
  <2> QED BY <1>a, <1>b, <1>25, <2>1 DEF RemoveIdleConn, LoopTo, TypeOK
<1>26. ASSUME NEW p \in Conns, PeekFailsIdle(p) PROVE TypeOK'
  BY <1>a, <1>b, <1>e, <1>26 DEF PeekFailsIdle, LoopTo, Close, TypeOK
<1>27. ASSUME NEW p \in Conns, HomeCheck(p) PROVE TypeOK'
  BY <1>a, <1>b, <1>27 DEF HomeCheck, TypeOK
<1>28. ASSUME NEW p \in Conns, HomePut(p) PROVE TypeOK'
  <2>1. HandOver(p) \/ Keep(p) \/ Refuse
    BY <1>28 DEF HomePut
  <2>2. home[p] # "none" /\ home' \in [Conns -> {"none", "check", "put", "close"}]
    BY <1>a, <1>28 DEF HomePut, TypeOK
  <2>3. UNCHANGED <<uncount, reused, canceledErr, loop, pc, conn, attempt, cancVars, answered, faults>>
    BY <1>28 DEF HomePut
  <2> QED BY <1>a, <1>b, <2>1, <2>2, <2>3, PutTypes DEF TypeOK
<1>29. ASSUME NEW p \in Conns, HomeClose(p) PROVE TypeOK'
  BY <1>a, <1>b, <1>29 DEF HomeClose, Close, TypeOK
<1>30. ASSUME NEW p \in Conns, IdleTimeout(p) PROVE TypeOK'
  <2>1. CASE p \in Range(idleLRU)
    <3>1. /\ idleConn' \in Seq(Conns) /\ IsInjective(idleConn') /\ Range(idleConn') = Range(idleConn) \ {p}
          /\ idleLRU' \in Seq(Conns) /\ IsInjective(idleLRU') /\ Range(idleLRU') = Range(idleLRU) \ {p}
      BY <1>a, <1>30, <2>1, RemovedFacts DEF IdleTimeout
    <3>2. closed' = closed \cup {p}
      BY <1>30, <2>1 DEF IdleTimeout, Close
    <3> QED BY <1>a, <1>b, <1>30, <3>1, <3>2 DEF IdleTimeout, TypeOK
  <2>2. CASE p \notin Range(idleLRU)
    BY <1>a, <1>b, <1>30, <2>2 DEF IdleTimeout, TypeOK
  <2> QED BY <2>1, <2>2
<1>31. ASSUME CloseIdleConnections PROVE TypeOK'
  <2>1. faults' \in 0..MaxFaults
    BY <1>a, <1>31, FaultOK DEF CloseIdleConnections
  <2> QED BY <1>a, <1>b, <1>31, <2>1, EmptyFacts DEF CloseIdleConnections, TypeOK
<1>32. ASSUME NEW r \in Requests, CancelsOwn(r) PROVE TypeOK'
  BY <1>d, <1>32, OwnConn DEF CancelsOwn
<1>33. ASSUME NEW p \in Conns, CancelsOutside(p) PROVE TypeOK'
  BY <1>d, <1>33 DEF CancelsOutside
<1>34. ASSUME NEW p \in Conns, DropCanceler(p) PROVE TypeOK'
  <2>1. PICK l \in {"check", "dead"} : LoopTo(p, l)
    BY <1>34 DEF DropCanceler
  <2>2. loop' \in [Conns -> {"none", "peek", "read", "check", "put", "alive", "dead", "body",
                             "bodycheck", "bodyput", "exit", "remove"}]
    BY <1>a, <2>1 DEF LoopTo, TypeOK
  <2>3. rcReq' \in [Conns -> Requests \cup {None}] /\ reqCanceler' \subseteq Requests
    BY <1>a, <1>34 DEF DropCanceler, TypeOK
  <2> QED BY <1>a, <1>b, <1>34, <2>2, <2>3 DEF DropCanceler, TypeOK
<1> QED
  BY <1>1, <1>2, <1>3, <1>4, <1>5, <1>6, <1>7, <1>8, <1>9, <1>10, <1>11, <1>12, <1>13, <1>14,
     <1>15, <1>16, <1>17, <1>18, <1>19, <1>20, <1>21, <1>22, <1>23, <1>24, <1>25, <1>26, <1>27,
     <1>28, <1>29, <1>30, <1>31, <1>32, <1>33, <1>34
  DEF Next, Request, Dial, Loop, Homing

-----------------------------------------------------------------------------
(* The count per host. *)

LEMMA CountStep == ASSUME IInv, Next PROVE CountExact'
<1>a. /\ TypeOK /\ QueueInv /\ CountExact
      /\ connsPerHost = uncount + Cardinality(Dialing) + Cardinality(Live)
      /\ uncount \in Nat /\ connsPerHost \in Nat
  BY CountIs, LimitsOK DEF IInv, TypeOK
<1>b. ASSUME UNCHANGED <<hostVars, dials, uncount, closed>>,
             \A q \in Conns : loop'[q] = "none" <=> loop[q] = "none"
      PROVE  CountExact'
  BY <1>a, <1>b, CountSame
<1>c. ASSUME NEW r \in Requests, pc[r] \in {"sent", "reading"}, Close(conn[r]), UNCHANGED <<uncount, loop>>
      PROVE  CountExact'
  <2>1. conn[r] \in Conns /\ Closable(conn[r])
    BY <1>c, ConnOK DEF Closable
  <2> QED BY <1>c, <2>1, CloseCount
<1>d. ASSUME NEW p \in Conns, home[p] # "none" \/ Puts(p), HandOver(p) \/ Keep(p) \/ Refuse,
             uncount' = uncount, \A q \in Conns : loop'[q] = "none" <=> loop[q] = "none"
      PROVE  CountExact'
  <2>1. CASE HandOver(p)
    BY <1>b, <1>d, <2>1 DEF HandOver
  <2>2. CASE Refuse
    BY <1>b, <1>d, <2>2 DEF Refuse
  <2>3. CASE Keep(p)
    <3>1. p \notin Range(idleLRU)
      BY <1>d, PutterHas
    <3>2. want' = want /\ \E E \in SUBSET Range(idleLRU) : Kicks(E, p)
      BY <1>a, <2>3, <3>1, KeepFacts
    <3> QED BY <1>d, <3>2, KicksFacts
  <2> QED BY <1>d, <2>1, <2>2, <2>3
<1>e. ASSUME NEW p \in Conns, NEW l, loop' = [loop EXCEPT ![p] = l], loop[p] # "none", l # "none"
      PROVE  \A q \in Conns : loop'[q] = "none" <=> loop[q] = "none"
  BY <1>a, <1>e DEF TypeOK
<1>1. ASSUME NEW r \in Requests, Request(r) PROVE CountExact'
  <2>1. CASE CtxDone(r)
    BY <1>b, <2>1 DEF CtxDone, connVars
  <2>2. CASE QueueForIdleConn(r)
    BY <1>b, <2>2 DEF QueueForIdleConn, connVars
  <2>3. CASE Ready(r)
    BY <1>b, <2>3 DEF Ready, connVars
  <2>4. CASE GetConnFails(r)
    BY <1>b, <2>4 DEF GetConnFails, connVars
  <2>5. CASE GiveBack(r)
    BY <1>b, <2>5 DEF GiveBack, connVars
  <2>6. CASE Send(r)
    BY <1>b, <2>6 DEF Send, connVars
  <2>7. CASE SeesDone(r)
    BY <1>b, <2>7 DEF SeesDone, connVars
  <2>8. CASE SeesClosed(r)
    BY <1>b, <2>8 DEF SeesClosed, connVars
  <2>9. CASE BodyRead(r)
    <3>1. PICK l \in {"bodycheck", "exit"} : LoopTo(conn[r], l)
      BY <2>9 DEF BodyRead
    <3>2. conn[r] \in Conns /\ loop[conn[r]] = "body"
      BY <2>9, ConnOK DEF BodyRead
    <3>3. \A q \in Conns : loop'[q] = "none" <=> loop[q] = "none"
      BY <1>e, <3>1, <3>2 DEF LoopTo
    <3> QED BY <1>b, <2>9, <3>3 DEF BodyRead, connVars
  <2>10. CASE BodyClosed(r)
    <3>1. conn[r] \in Conns /\ loop[conn[r]] = "body"
      BY <2>10, ConnOK DEF BodyClosed, IInv, ReqInv
    <3>2. \A q \in Conns : loop'[q] = "none" <=> loop[q] = "none"
      BY <1>e, <2>10, <3>1 DEF BodyClosed, LoopTo
    <3> QED BY <1>b, <2>10, <3>2 DEF BodyClosed, connVars
  <2>11. CASE BodyDone(r)
    BY <1>b, <2>11 DEF BodyDone, connVars
  <2>12. CASE QueueForDial(r)
    <3>0. UNCHANGED <<uncount, closed, loop>> /\ dials \in [Wants -> {"none", "dialing"}]
      BY <1>a, <2>12 DEF QueueForDial, connVars, TypeOK
    <3>1. Live' = Live /\ uncount' = uncount
      BY <3>0 DEF Live
    <3>2. CASE UNCHANGED <<connsPerHost, dials>>
      <4>1. Dialing' = Dialing
        BY <3>2 DEF Dialing
      <4> QED BY <1>a, <3>1, <3>2, <4>1, CountIsNext
    <3>3. CASE connsPerHost' = connsPerHost + 1 /\ dials' = [dials EXCEPT ![W(r)] = "dialing"]
      <4>1. Dialing' = Dialing \cup {W(r)} /\ W(r) \notin Dialing
        BY <2>12, <3>0, <3>3, DialQueued DEF Dialing
      <4>2. Cardinality(Dialing') = Cardinality(Dialing) + 1
        BY <4>1, CountFacts, FS_AddElement
      <4> QED BY <1>a, <3>1, <3>3, <4>2, CountFacts, CountIsNext
    <3> QED BY <2>12, <3>2, <3>3, DialQueued
  <2>13. CASE CancelsOwn(r)
    <3>1. pc[r] \in {"sent", "reading"} /\ Close(conn[r]) /\ UNCHANGED <<uncount, loop>>
      BY <2>13, OwnConn DEF CancelsOwn, Cancel
    <3> QED BY <1>c, <3>1
  <2> QED BY <1>1, <2>1, <2>2, <2>3, <2>4, <2>5, <2>6, <2>7, <2>8, <2>9, <2>10, <2>11, <2>12, <2>13 DEF Request
<1>2. ASSUME NEW r \in Requests, Breaks(r) PROVE CountExact'
  BY <1>c, <1>2 DEF Breaks
<1>3. ASSUME NEW r \in Requests, ContextDone(r) PROVE CountExact'
  BY <1>b, <1>3 DEF ContextDone, connVars
<1>4. ASSUME NEW r \in Requests, CancelRequest(r) PROVE CountExact'
  BY <1>b, <1>4 DEF CancelRequest, connVars
<1>5. ASSUME NEW w \in Wants, DialDone(w) PROVE CountExact'
  <2>1. PICK p \in Conns : Dialled(w, p)
    BY <1>5, DialFacts
  <2>2. Dialing' = Dialing \ {w} /\ w \in Dialing /\ connsPerHost' = connsPerHost /\ uncount' = uncount
    BY <1>a, <2>1 DEF Dialled, Dialing, TypeOK, hostVars
  <2>3. Live' = Live \cup {p} /\ p \notin Live
    BY <1>a, <2>1 DEF Dialled, Live, TypeOK, Fresh
  <2>4. Cardinality(Dialing') = Cardinality(Dialing) - 1
    BY <2>2, CountFacts, FS_RemoveElement
  <2>5. Cardinality(Live') = Cardinality(Live) + 1
    BY <2>3, CountFacts, FS_AddElement
  <2> QED BY <1>a, <2>2, <2>4, <2>5, CountFacts, CountIsNext
<1>6. ASSUME NEW w \in Wants, DialFails(w) PROVE CountExact'
  <2>1. /\ Dialing' = Dialing \ {w} /\ w \in Dialing /\ Live' = Live
        /\ connsPerHost' = connsPerHost /\ uncount' = uncount + 1
    BY <1>a, <1>6 DEF DialFails, Dialing, Live, TypeOK, hostVars, connVars
  <2>2. Cardinality(Dialing') = Cardinality(Dialing) - 1
    BY <2>1, CountFacts, FS_RemoveElement
  <2> QED BY <1>a, <2>1, <2>2, CountFacts, CountIsNext
<1>7. ASSUME NEW p \in Conns, Loop(p) PROVE CountExact'
  <2>1. CASE ReadFails(p)
    <3>1. \A q \in Conns : loop'[q] = "none" <=> loop[q] = "none"
      BY <1>e, <2>1 DEF ReadFails, LoopTo
    <3> QED BY <1>b, <2>1, <3>1 DEF ReadFails, connVars
  <2>2. CASE ReadResponse(p)
    <3>1. PICK l \in {"body", "read"} : LoopTo(p, l)
      BY <2>2 DEF ReadResponse
    <3>2. \A q \in Conns : loop'[q] = "none" <=> loop[q] = "none"
      BY <1>e, <2>2, <3>1 DEF ReadResponse, LoopTo
    <3> QED BY <1>b, <2>2, <3>2 DEF ReadResponse, connVars
  <2>3. CASE LoopCheck(p)
    <3>1. PICK l \in {"put", "bodyput", "dead", "exit"} : LoopTo(p, l)
      BY <2>3 DEF LoopCheck
    <3>2. \A q \in Conns : loop'[q] = "none" <=> loop[q] = "none"
      BY <1>e, <2>3, <3>1 DEF LoopCheck, LoopTo
    <3> QED BY <1>b, <2>3, <3>2 DEF LoopCheck
  <2>4. CASE LoopPut(p)
    <3>1. PICK l \in {"alive", "peek", "dead", "exit"} : LoopTo(p, l)
      BY <2>4 DEF LoopPut
    <3>2. \A q \in Conns : loop'[q] = "none" <=> loop[q] = "none"
      BY <1>e, <2>4, <3>1 DEF LoopPut, LoopTo
    <3>3. (HandOver(p) \/ Keep(p) \/ Refuse) /\ Puts(p) /\ uncount' = uncount
      BY <2>4 DEF LoopPut, Puts
    <3> QED BY <1>d, <3>2, <3>3
  <2>5. CASE Reply(p)
    <3>1. PICK l \in {"peek", "exit"} : LoopTo(p, l)
      BY <2>5 DEF Reply
    <3>2. \A q \in Conns : loop'[q] = "none" <=> loop[q] = "none"
      BY <1>e, <2>5, <3>1 DEF Reply, LoopTo
    <3> QED BY <1>b, <2>5, <3>2 DEF Reply, connVars
  <2>6. CASE LoopExits(p)
    <3>1. \A q \in Conns : loop'[q] = "none" <=> loop[q] = "none"
      BY <1>e, <2>6 DEF LoopExits, LoopTo
    <3> QED BY <2>6, <3>1, CloseCount DEF LoopExits, Closable
  <2>7. CASE RemoveIdleConn(p)
    <3>1. p \in closed
      BY <2>7 DEF RemoveIdleConn, IInv, HandInv, Kept
    <3>2. Live' = Live
      BY <1>a, <2>7, <3>1 DEF RemoveIdleConn, LoopTo, Live, TypeOK, connVars
    <3>3. Dialing' = Dialing /\ connsPerHost' = connsPerHost /\ uncount' = uncount
      BY <2>7 DEF RemoveIdleConn, Dialing, hostVars
    <3> QED BY <1>a, <3>2, <3>3, CountIsNext
  <2>8. CASE DropCanceler(p)
    <3>1. PICK l \in {"check", "dead"} : LoopTo(p, l)
      BY <2>8 DEF DropCanceler
    <3>2. \A q \in Conns : loop'[q] = "none" <=> loop[q] = "none"
      BY <1>e, <2>8, <3>1 DEF DropCanceler, LoopTo
    <3> QED BY <1>b, <2>8, <3>2 DEF DropCanceler, connVars
  <2> QED BY <1>7, <2>1, <2>2, <2>3, <2>4, <2>5, <2>6, <2>7, <2>8 DEF Loop
<1>8. ASSUME NEW p \in Conns, PeekFailsIdle(p) PROVE CountExact'
  <2>1. \A q \in Conns : loop'[q] = "none" <=> loop[q] = "none"
    BY <1>e, <1>8 DEF PeekFailsIdle, LoopTo
  <2> QED BY <1>8, <2>1, CloseCount DEF PeekFailsIdle, Closable
<1>9. ASSUME NEW p \in Conns, Homing(p) PROVE CountExact'
  <2>1. CASE HomeCheck(p)
    BY <1>b, <2>1 DEF HomeCheck
  <2>2. CASE HomePut(p)
    <3>1. (HandOver(p) \/ Keep(p) \/ Refuse) /\ home[p] # "none" /\ uncount' = uncount /\ loop' = loop
      BY <2>2 DEF HomePut
    <3> QED BY <1>d, <3>1
  <2>3. CASE HomeClose(p)
    BY <2>3, CloseCount DEF HomeClose, Closable
  <2> QED BY <1>9, <2>1, <2>2, <2>3 DEF Homing
<1>10. ASSUME NEW p \in Conns, IdleTimeout(p) PROVE CountExact'
  BY <1>b, <1>10, CloseCount DEF IdleTimeout, Closable
<1>11. CASE DialUncounts
  <2>1. Live' = Live /\ uncount' = uncount - 1
    BY <1>11 DEF DialUncounts, Live, connVars
  <2> QED BY <1>a, <1>11, <2>1, CountUncounts DEF DialUncounts
<1>12. CASE CloseIdleConnections
  BY <1>b, <1>12 DEF CloseIdleConnections, connVars
<1>13. ASSUME NEW p \in Conns, CancelsOutside(p) PROVE CountExact'
  BY <1>13, CloseCount DEF CancelsOutside, Cancel, Closable
<1> QED
  BY <1>1, <1>2, <1>3, <1>4, <1>5, <1>6, <1>7, <1>8, <1>9, <1>10, <1>11, <1>12, <1>13 DEF Next, Dial

-----------------------------------------------------------------------------
(* Requests and the readLoops that will reply to them. *)

Answering == {"read", "check", "put", "alive"}

\* A readLoop moves among the places from where it replies, or it closes.
LoopsOn == \A p \in Conns :
  /\ loop[p] \in Replying => loop'[p] \in Replying
  /\ loop[p] = "body" => loop'[p] = "body"
  /\ loop'[p] \in Answering /\ p \notin closed' => loop[p] \in Answering /\ p \notin closed

LEMMA ReqSame ==
  ASSUME TypeOK, ReqInv, AliveInv, UNCHANGED <<pc, conn, answered>>, LoopsOn
  PROVE  ReqInv' /\ AliveInv'
<1>1. \A r \in Requests : pc[r] \in {"sent", "reading"} => conn[r] \in Conns
  BY DEF TypeOK, ReqInv
<1>2. ReqInv'
  BY <1>1 DEF ReqInv, LoopsOn
<1>3. AliveInv'
  BY DEF AliveInv, LoopsOn, Answering
<1> QED BY <1>2, <1>3

\* A request whose connection is not answering moves alone, the loops stay.
LEMMA ReqMove ==
  ASSUME TypeOK, ReqInv, AliveInv, NEW r \in Requests, UNCHANGED loop,
         \A s \in Requests \ {r} : pc'[s] = pc[s] /\ conn'[s] = conn[s],
         \A s \in Requests \ {r} : s \in answered' <=> s \in answered,
         conn'[r] # None <=> pc'[r] \in {"got", "sent", "reading"},
         r \in answered' => pc'[r] \in {"done", "failed"},
         pc'[r] # "reading",
         closed \subseteq closed',
         r \in answered /\ pc[r] = "sent" => conn[r] \in closed'
  PROVE  ReqInv' /\ AliveInv'
<1>1. ReqInv'
  BY DEF ReqInv
<1>2. AliveInv'
  <2> SUFFICES ASSUME NEW p \in Conns, p \notin closed', loop'[p] \in {"read", "check", "put", "alive"}
               PROVE  \E s \in answered' : pc'[s] = "sent" /\ conn'[s] = p
    BY DEF AliveInv
  <2>1. PICK s \in answered : pc[s] = "sent" /\ conn[s] = p
    BY DEF AliveInv
  <2>2. s # r /\ s \in Requests
    BY <2>1 DEF TypeOK
  <2>3. s \in answered' /\ pc'[s] = "sent" /\ conn'[s] = p
    BY <2>1, <2>2
  <2> QED BY <2>3
<1> QED BY <1>1, <1>2

\* Only one request uses a connection.
LEMMA OneUser ==
  ASSUME IInv, NEW p \in Conns, NEW r \in Requests, NEW s \in Requests, Uses(r, p), Uses(s, p)
  PROVE  r = s
<1>1. Unique(p) /\ Has(Req(r), p) /\ Has(Req(s), p)
  BY HasFacts DEF IInv, HandInv
<1> QED BY <1>1, HandKinds, HandsDiffer DEF Unique

LEMMA ReqStep == ASSUME IInv, Next PROVE ReqInv' /\ AliveInv'
<1>a. TypeOK /\ ReqInv /\ AliveInv
  BY DEF IInv
<1>b. ASSUME UNCHANGED <<pc, conn, answered, loop>>, closed \subseteq closed' PROVE ReqInv' /\ AliveInv'
  BY <1>a, <1>b, ReqSame DEF LoopsOn
<1>c. ASSUME NEW p \in Conns, NEW l, LoopTo(p, l), UNCHANGED <<pc, conn, answered>>, closed \subseteq closed',
             \/ loop[p] \notin Replying \cup {"body"} /\ l \notin Answering
             \/ loop[p] \in Answering /\ l \in Replying
             \/ loop[p] \in Replying /\ l \in Replying \ Answering
      PROVE  ReqInv' /\ AliveInv'
  <2>1. loop' = [loop EXCEPT ![p] = l] /\ \A q \in Conns : loop'[q] = IF q = p THEN l ELSE loop[q]
    BY <1>a, <1>c DEF LoopTo, TypeOK
  <2>2. LoopsOn
    BY <1>c, <2>1 DEF LoopsOn, Replying, Answering
  <2> QED BY <1>a, <1>c, <2>2, ReqSame
<1>d. ASSUME NEW r \in Requests, pc[r] = "sent", Fails(r), UNCHANGED loop,
             closed \subseteq closed', conn[r] \in closed'
      PROVE  ReqInv' /\ AliveInv'
  <2>1. /\ conn'[r] = None /\ pc'[r] \in {"start", "failed"}
        /\ \A s \in Requests \ {r} : pc'[s] = pc[s] /\ conn'[s] = conn[s]
        /\ \A s \in Requests \ {r} : s \in answered' <=> s \in answered
        /\ r \in answered' => pc'[r] = "failed"
    BY <1>a, <1>d, FailsFacts
  <2> QED BY <1>a, <1>d, <2>1, ReqMove
<1>e. ASSUME NEW p, Cancel(p) PROVE ReqInv' /\ AliveInv'
  BY <1>b, <1>e DEF Cancel, Close
<1>1. ASSUME NEW r \in Requests, Request(r) PROVE ReqInv' /\ AliveInv'
  <2>1. CASE CtxDone(r)
    BY <1>a, <2>1, ReqMove DEF CtxDone, Goto, TypeOK, ReqInv, connVars
  <2>2. CASE QueueForIdleConn(r)
    <3>0. pc[r] = "start" /\ UNCHANGED <<loop, answered, closed>>
      BY <2>2 DEF QueueForIdleConn, connVars
    <3>1. r \notin answered /\ conn[r] = None
      BY <1>a, <3>0 DEF ReqInv
    <3>2. ASSUME NEW p \in Conns, Found(r, p) PROVE ReqInv' /\ AliveInv'
      BY <1>a, <3>0, <3>1, <3>2, ReqMove, NotANone DEF Found, Goto, TypeOK
    <3>3. CASE InLine(r)
      BY <1>a, <3>0, <3>1, <3>3, ReqMove DEF InLine, Goto, TypeOK
    <3> QED BY <1>a, <2>2, <3>2, <3>3, QueueFacts
  <2>3. CASE QueueForDial(r)
    <3>1. r \notin answered /\ conn[r] = None
      BY <1>a, <2>3 DEF ReqInv, QueueForDial
    <3> QED BY <1>a, <2>3, <3>1, ReqMove DEF QueueForDial, Goto, TypeOK, connVars
  <2>4. CASE Ready(r)
    <3>1. r \notin answered
      BY <1>a, <2>4 DEF ReqInv, Ready
    <3> QED BY <1>a, <2>4, <3>1, ReqMove, NotANone DEF Ready, Goto, TypeOK, connVars
  <2>5. CASE GetConnFails(r)
    <3>1. r \notin answered /\ conn[r] = None
      BY <1>a, <2>5 DEF ReqInv, GetConnFails
    <3> QED BY <1>a, <2>5, <3>1, ReqMove DEF GetConnFails, Goto, TypeOK, connVars
  <2>6. CASE GiveBack(r)
    BY <1>a, <2>6, ReqMove DEF GiveBack, Goto, TypeOK, connVars
  <2>7. CASE Send(r)
    <3>1. r \notin answered /\ conn[r] # None
      BY <1>a, <2>7 DEF ReqInv, Send
    <3> QED BY <1>a, <2>7, <3>1, ReqMove DEF Send, Goto, TypeOK, connVars
  <2>8. CASE SeesDone(r)
    BY <1>b, <2>8 DEF SeesDone, connVars
  <2>9. CASE SeesClosed(r)
    BY <1>d, <2>9 DEF SeesClosed, connVars
  <2>10. CASE BodyRead(r) \/ BodyClosed(r)
    <3>1. pc[r] = "reading" /\ UNCHANGED <<answered, closed>> /\ pc' = [pc EXCEPT ![r] = "done"]
          /\ conn' = [conn EXCEPT ![r] = None]
      BY <2>10 DEF BodyRead, BodyClosed, Goto, connVars
    <3>2. loop[conn[r]] = "body" /\ conn[r] \in Conns
      BY <1>a, <3>1, ConnOK DEF ReqInv
    <3>3. PICK l \in {"bodycheck", "exit"} : LoopTo(conn[r], l)
      BY <2>10 DEF BodyRead, BodyClosed
    <3>4. \A q \in Conns : loop'[q] = IF q = conn[r] THEN l ELSE loop[q]
      BY <1>a, <3>2, <3>3 DEF LoopTo, TypeOK
    <3>5. ASSUME NEW s \in Requests \ {r}, pc[s] \in {"sent", "reading"}, conn[s] = conn[r]
          PROVE  pc[s] = "sent" /\ s \notin answered
      <4>1. pc[s] = "sent" => s \notin answered
        BY <1>a, <3>2, <3>5 DEF ReqInv, Replying
      <4>2. CASE pc[s] = "reading"
        <5>1. Uses(s, conn[r]) /\ Uses(r, conn[r])
          BY <3>1, <3>5, <4>2 DEF Uses
        <5> QED BY <3>2, <3>5, <5>1, OneUser
      <4> QED BY <3>5, <4>1, <4>2
    <3>6. ReqInv'
      <4> SUFFICES ASSUME NEW s \in Requests
                   PROVE  /\ conn'[s] # None <=> pc'[s] \in {"got", "sent", "reading"}
                          /\ s \in answered' => pc'[s] \in {"sent", "reading", "done", "failed"}
                          /\ s \in answered' /\ pc'[s] = "sent" => loop'[conn'[s]] \in Replying
                          /\ pc'[s] = "reading" => loop'[conn'[s]] = "body"
        BY DEF ReqInv
      <4>1. CASE s = r
        BY <1>a, <3>1, <4>1 DEF TypeOK
      <4>2. CASE s # r
        <5>1. pc'[s] = pc[s] /\ conn'[s] = conn[s]
          BY <1>a, <3>1, <4>2 DEF TypeOK
        <5>2. pc[s] \in {"sent", "reading"} => conn[s] \in Conns
          BY ConnOK
        <5> QED BY <1>a, <3>1, <3>4, <3>5, <4>2, <5>1, <5>2 DEF ReqInv
      <4> QED BY <4>1, <4>2
    <3>7. AliveInv'
      <4> SUFFICES ASSUME NEW p \in Conns, p \notin closed', loop'[p] \in {"read", "check", "put", "alive"}
                   PROVE  \E s \in answered' : pc'[s] = "sent" /\ conn'[s] = p
        BY DEF AliveInv
      <4>1. loop[p] \in {"read", "check", "put", "alive"} /\ p \notin closed
        BY <3>1, <3>4
      <4>2. PICK s \in answered : pc[s] = "sent" /\ conn[s] = p
        BY <1>a, <4>1 DEF AliveInv
      <4>3. s # r /\ s \in Requests
        BY <1>a, <3>1, <4>2 DEF TypeOK
      <4> QED BY <1>a, <3>1, <4>2, <4>3 DEF TypeOK
    <3> QED BY <3>6, <3>7
  <2>11. CASE BodyDone(r)
    BY <1>b, <2>11 DEF BodyDone, connVars
  <2>12. CASE CancelsOwn(r)
    BY <1>e, <2>12 DEF CancelsOwn
  <2> QED BY <1>1, <2>1, <2>2, <2>3, <2>4, <2>5, <2>6, <2>7, <2>8, <2>9, <2>10, <2>11, <2>12 DEF Request
<1>2. ASSUME NEW r \in Requests, Breaks(r) PROVE ReqInv' /\ AliveInv'
  BY <1>d, <1>2 DEF Breaks, Close
<1>3. ASSUME NEW r \in Requests, ContextDone(r) PROVE ReqInv' /\ AliveInv'
  BY <1>b, <1>3 DEF ContextDone, connVars
<1>4. ASSUME NEW r \in Requests, CancelRequest(r) PROVE ReqInv' /\ AliveInv'
  BY <1>b, <1>4 DEF CancelRequest, connVars
<1>5. ASSUME NEW w \in Wants, DialDone(w) PROVE ReqInv' /\ AliveInv'
  <2>1. PICK p \in Conns : Dialled(w, p)
    BY <1>5, DialFacts
  <2>2. /\ loop[p] = "none" /\ UNCHANGED <<pc, conn, answered>> /\ closed' = closed \ {p}
        /\ \A q \in Conns : loop'[q] = IF q = p THEN "peek" ELSE loop[q]
    BY <1>a, <2>1 DEF Dialled, Fresh, TypeOK
  <2>3. LoopsOn
    BY <2>2 DEF LoopsOn, Replying, Answering
  <2> QED BY <1>a, <2>2, <2>3, ReqSame
<1>6. ASSUME NEW w \in Wants, DialFails(w) PROVE ReqInv' /\ AliveInv'
  BY <1>b, <1>6 DEF DialFails, connVars
<1>7. ASSUME NEW p \in Conns, ReadFails(p) PROVE ReqInv' /\ AliveInv'
  <2>1. PICK r \in Rc(p) : Fails(r)
    BY <1>7 DEF ReadFails
  <2>2. r \in Requests /\ conn[r] = p /\ pc[r] = "sent"
    BY <2>1 DEF Rc
  <2>3. /\ loop[p] = "peek" /\ UNCHANGED closed
        /\ \A q \in Conns : loop'[q] = IF q = p THEN "exit" ELSE loop[q]
    BY <1>a, <1>7 DEF ReadFails, LoopTo, TypeOK, connVars
  <2>4. /\ conn'[r] = None /\ pc'[r] \in {"start", "failed"}
        /\ \A s \in Requests \ {r} : s \in answered' <=> s \in answered
        /\ answered' \subseteq answered
    BY <1>a, <2>1, <2>2, FailsFacts
  <2>5. r \notin answered /\ r \notin answered'
    BY <1>a, <2>2, <2>3, <2>4 DEF ReqInv, Replying
  <2>6. \A s \in Requests \ {r} : pc'[s] = pc[s] /\ conn'[s] = conn[s]
    BY <1>a, <2>1, <2>2, FailsFacts
  <2>7. answered' = answered
    BY <1>a, <2>4, <2>5 DEF TypeOK
  <2>8. ReqInv'
    <3> SUFFICES ASSUME NEW s \in Requests
                 PROVE  /\ conn'[s] # None <=> pc'[s] \in {"got", "sent", "reading"}
                        /\ s \in answered' => pc'[s] \in {"sent", "reading", "done", "failed"}
                        /\ s \in answered' /\ pc'[s] = "sent" => loop'[conn'[s]] \in Replying
                        /\ pc'[s] = "reading" => loop'[conn'[s]] = "body"
      BY DEF ReqInv
    <3>1. CASE s = r
      BY <2>4, <2>5, <3>1
    <3>2. CASE s # r
      <4>1. pc[s] \in {"sent", "reading"} => conn[s] \in Conns
        BY ConnOK
      <4> QED BY <1>a, <2>3, <2>6, <2>7, <3>2, <4>1 DEF ReqInv, Replying
    <3> QED BY <3>1, <3>2
  <2>9. AliveInv'
    <3> SUFFICES ASSUME NEW q \in Conns, q \notin closed', loop'[q] \in {"read", "check", "put", "alive"}
                 PROVE  \E s \in answered' : pc'[s] = "sent" /\ conn'[s] = q
      BY DEF AliveInv
    <3>1. PICK s \in answered : pc[s] = "sent" /\ conn[s] = q
      BY <1>a, <2>3 DEF AliveInv
    <3> QED BY <1>a, <2>3, <2>5, <2>6, <2>7, <3>1 DEF TypeOK
  <2> QED BY <2>8, <2>9
<1>8. ASSUME NEW p \in Conns, ReadResponse(p) PROVE ReqInv' /\ AliveInv'
  <2>0. loop[p] = "peek" /\ answered' = answered \cup Rc(p) /\ UNCHANGED <<conn, closed>>
    BY <1>8 DEF ReadResponse, connVars
  <2>1. PICK r \in Rc(p) : \/ r \in Bodies /\ Goto(r, "reading") /\ LoopTo(p, "body")
                           \/ LoopTo(p, "read") /\ UNCHANGED pc
    BY <1>8 DEF ReadResponse
  <2>2. r \in Requests /\ conn[r] = p /\ pc[r] = "sent"
    BY <2>1 DEF Rc
  <2>3. \A s \in Rc(p) : s \notin answered /\ Uses(s, p) /\ s \in Requests
    BY <1>a, <2>0 DEF ReqInv, Replying, Rc, Uses
  <2>4. Rc(p) = {r}
    BY <2>1, <2>3, OneUser
  <2>5. \A s \in Requests : conn[s] = p => pc[s] # "reading" /\ (pc[s] = "sent" => s = r)
    BY <1>a, <2>0, <2>4 DEF ReqInv, Rc
  <2>6. PICK l \in {"body", "read"} :
          /\ \A q \in Conns : loop'[q] = IF q = p THEN l ELSE loop[q]
          /\ pc'[r] = IF l = "body" THEN "reading" ELSE "sent"
          /\ \A s \in Requests \ {r} : pc'[s] = pc[s]
    BY <1>a, <2>1, <2>2 DEF LoopTo, Goto, TypeOK
  <2>7. ReqInv'
    <3> SUFFICES ASSUME NEW s \in Requests
                 PROVE  /\ conn'[s] # None <=> pc'[s] \in {"got", "sent", "reading"}
                        /\ s \in answered' => pc'[s] \in {"sent", "reading", "done", "failed"}
                        /\ s \in answered' /\ pc'[s] = "sent" => loop'[conn'[s]] \in Replying
                        /\ pc'[s] = "reading" => loop'[conn'[s]] = "body"
      BY DEF ReqInv
    <3>1. CASE s = r
      BY <1>a, <2>0, <2>2, <2>6, <3>1 DEF Replying, ReqInv
    <3>2. CASE s # r
      <4>1. pc[s] \in {"sent", "reading"} => conn[s] \in Conns
        BY ConnOK
      <4>2. s \in answered' <=> s \in answered
        BY <2>0, <2>4, <3>2
      <4> QED BY <1>a, <2>0, <2>5, <2>6, <3>2, <4>1, <4>2 DEF ReqInv
    <3> QED BY <3>1, <3>2
  <2>8. AliveInv'
    <3> SUFFICES ASSUME NEW q \in Conns, q \notin closed', loop'[q] \in {"read", "check", "put", "alive"}
                 PROVE  \E s \in answered' : pc'[s] = "sent" /\ conn'[s] = q
      BY DEF AliveInv
    <3>1. CASE q = p
      BY <2>0, <2>2, <2>4, <2>6, <3>1
    <3>2. CASE q # p
      <4>1. PICK s \in answered : pc[s] = "sent" /\ conn[s] = q
        BY <1>a, <2>0, <2>6, <3>2 DEF AliveInv
      <4> QED BY <1>a, <2>0, <2>2, <2>6, <3>2, <4>1 DEF TypeOK
    <3> QED BY <3>1, <3>2
  <2> QED BY <2>7, <2>8
<1>9. ASSUME NEW p \in Conns, LoopCheck(p) PROVE ReqInv' /\ AliveInv'
  <2>1. PICK l : /\ LoopTo(p, l)
                 /\ \/ loop[p] = "check" /\ l \in {"put", "dead"}
                    \/ loop[p] = "bodycheck" /\ l \in {"bodyput", "exit"}
    BY <1>9 DEF LoopCheck
  <2> QED BY <1>c, <1>9, <2>1 DEF LoopCheck, Replying, Answering
<1>10. ASSUME NEW p \in Conns, LoopPut(p) PROVE ReqInv' /\ AliveInv'
  <2>1. PICK l : /\ LoopTo(p, l)
                 /\ \/ loop[p] = "put" /\ l \in {"alive", "dead"}
                    \/ loop[p] = "bodyput" /\ l \in {"peek", "exit"}
    BY <1>10 DEF LoopPut
  <2>2. closed \subseteq closed'
    BY <1>10 DEF LoopPut, HandOver, Keep, Refuse, Close
  <2> QED BY <1>c, <1>10, <2>1, <2>2 DEF LoopPut, Replying, Answering
<1>11. ASSUME NEW p \in Conns, Reply(p) PROVE ReqInv' /\ AliveInv'
  <2>0. loop[p] \in {"alive", "dead"} /\ UNCHANGED <<answered, closed>>
    BY <1>11 DEF Reply, connVars
  <2>1. PICK l \in {"peek", "exit"} : \A q \in Conns : loop'[q] = IF q = p THEN l ELSE loop[q]
    BY <1>a, <1>11 DEF Reply, LoopTo, TypeOK
  <2>2. \A s \in Requests : IF conn[s] = p /\ pc[s] = "sent" /\ s \in answered
                            THEN pc'[s] = "done" /\ conn'[s] = None
                            ELSE pc'[s] = pc[s] /\ conn'[s] = conn[s]
    BY <1>11 DEF Reply, Rc
  <2>3. ReqInv'
    <3> SUFFICES ASSUME NEW s \in Requests
                 PROVE  /\ conn'[s] # None <=> pc'[s] \in {"got", "sent", "reading"}
                        /\ s \in answered' => pc'[s] \in {"sent", "reading", "done", "failed"}
                        /\ s \in answered' /\ pc'[s] = "sent" => loop'[conn'[s]] \in Replying
                        /\ pc'[s] = "reading" => loop'[conn'[s]] = "body"
      BY DEF ReqInv
    <3>1. CASE conn[s] = p /\ pc[s] = "sent" /\ s \in answered
      BY <2>0, <2>2, <3>1
    <3>2. CASE ~(conn[s] = p /\ pc[s] = "sent" /\ s \in answered)
      <4>1. pc[s] \in {"sent", "reading"} => conn[s] \in Conns
        BY ConnOK
      <4>2. pc'[s] = pc[s] /\ conn'[s] = conn[s] /\ answered' = answered
        BY <2>0, <2>2, <3>2
      <4> QED BY <1>a, <2>0, <2>1, <3>2, <4>1, <4>2 DEF ReqInv
    <3> QED BY <3>1, <3>2
  <2>4. AliveInv'
    <3> SUFFICES ASSUME NEW q \in Conns, q \notin closed', loop'[q] \in {"read", "check", "put", "alive"}
                 PROVE  \E s \in answered' : pc'[s] = "sent" /\ conn'[s] = q
      BY DEF AliveInv
    <3>1. q # p /\ loop[q] = loop'[q]
      BY <2>1
    <3>2. PICK s \in answered : pc[s] = "sent" /\ conn[s] = q
      BY <1>a, <2>0, <3>1 DEF AliveInv
    <3> QED BY <1>a, <2>0, <2>2, <3>1, <3>2 DEF TypeOK
  <2> QED BY <2>3, <2>4
<1>12. ASSUME NEW p \in Conns, LoopExits(p) PROVE ReqInv' /\ AliveInv'
  BY <1>c, <1>12 DEF LoopExits, Close, Replying, Answering
<1>13. ASSUME NEW p \in Conns, RemoveIdleConn(p) PROVE ReqInv' /\ AliveInv'
  BY <1>c, <1>13 DEF RemoveIdleConn, Replying, Answering, connVars
<1>14. ASSUME NEW p \in Conns, PeekFailsIdle(p) PROVE ReqInv' /\ AliveInv'
  BY <1>c, <1>14 DEF PeekFailsIdle, Close, Replying, Answering
<1>15. ASSUME NEW p \in Conns, Homing(p) PROVE ReqInv' /\ AliveInv'
  <2>1. UNCHANGED <<pc, conn, answered, loop>> /\ closed \subseteq closed'
    BY <1>15 DEF Homing, HomeCheck, HomePut, HomeClose, HandOver, Keep, Refuse, Close
  <2> QED BY <1>b, <2>1
<1>16. ASSUME NEW p \in Conns, IdleTimeout(p) PROVE ReqInv' /\ AliveInv'
  BY <1>b, <1>16 DEF IdleTimeout, Close
<1>17. CASE DialUncounts
  BY <1>b, <1>17 DEF DialUncounts, connVars
<1>18. CASE CloseIdleConnections
  BY <1>b, <1>18 DEF CloseIdleConnections, connVars
<1>19. ASSUME NEW p \in Conns, DropCanceler(p) PROVE ReqInv' /\ AliveInv'
  <2>1. PICK l \in {"check", "dead"} : LoopTo(p, l)
    BY <1>19 DEF DropCanceler
  <2> QED BY <1>c, <1>19, <2>1 DEF DropCanceler, Replying, Answering, connVars
<1>20. ASSUME NEW p \in Conns, CancelsOutside(p) PROVE ReqInv' /\ AliveInv'
  BY <1>e, <1>20 DEF CancelsOutside
<1> QED
  BY <1>1, <1>2, <1>3, <1>4, <1>5, <1>6, <1>7, <1>8, <1>9, <1>10, <1>11, <1>12, <1>13, <1>14,
     <1>15, <1>16, <1>17, <1>18, <1>19, <1>20
  DEF Next, Dial, Loop

-----------------------------------------------------------------------------
(* The wantConns in the queues. *)

\* A request goes on from getConn, or comes back for another turn.
Onward(r) ==
  \/ attempt'[r] = attempt[r] /\ (pc'[r] = pc[r] \/ pc'[r] \notin {"start", "queued", "wait"})
  \/ attempt'[r] = attempt[r] + 1 /\ pc'[r] = "start"

\* Nobody new waits, and who waits stays in line.
WaitsOn ==
  /\ idleConnWait' \in Seq(Wants)
  /\ \A w \in Wants : want[w] = "new" /\ (\A r \in Requests : pc[r] = "wait" => w # W(r))
                        => want'[w] = "new"
  /\ \A w \in Wants : want'[w] = "waiting" =>
       want[w] = "waiting" /\ (w \in Range(idleConnWait) => w \in Range(idleConnWait'))

\* No idle connection is added, unless nobody waits.
IdleOn == \/ Range(idleConn') \ closed' \subseteq Range(idleConn) \ closed
          \/ \A w \in Wants : want'[w] # "waiting"

LEMMA NewFrame ==
  ASSUME TypeOK, NewInv, HostOK, \A r \in Requests : Onward(r),
         \A w \in Wants : want[w] = "new" /\ (\A r \in Requests : pc[r] = "wait" => w # W(r))
                             => want'[w] = "new"
  PROVE  NewInv'
<1> SUFFICES ASSUME NEW r \in Requests, NEW a \in attempt'[r]..MaxAttempts
             PROVE  /\ a > attempt'[r] \/ pc'[r] = "start" => want'[<<r, a>>] = "new"
                    /\ a > attempt'[r] \/ pc'[r] \in {"start", "queued"} =>
                         dials'[<<r, a>>] = "none" /\ <<r, a>> \notin Range(connsPerHostWait')
  BY DEF NewInv
<1>0. attempt[r] \in 1..MaxAttempts /\ MaxAttempts \in Nat
  BY LimitsOK DEF TypeOK
<1>1. Onward(r)
  OBVIOUS
<1>2. a \in 1..MaxAttempts /\ a \in attempt[r]..MaxAttempts
      /\ (attempt'[r] = attempt[r] + 1 => a > attempt[r])
  BY <1>0, <1>1 DEF Onward
<1>3. <<r, a>> \in Wants
  BY <1>2 DEF Wants
<1>4. /\ a > attempt[r] \/ pc[r] = "start" => want[<<r, a>>] = "new"
      /\ a > attempt[r] \/ pc[r] \in {"start", "queued"} =>
           dials[<<r, a>>] = "none" /\ <<r, a>> \notin Range(connsPerHostWait)
  BY <1>2 DEF NewInv
<1>5. /\ a > attempt'[r] \/ pc'[r] = "start" => a > attempt[r] \/ pc[r] = "start"
      /\ a > attempt'[r] \/ pc'[r] \in {"start", "queued"} => a > attempt[r] \/ pc[r] \in {"start", "queued"}
  BY <1>1, <1>2 DEF Onward
<1>6. ASSUME a > attempt[r] \/ pc[r] = "start", NEW s \in Requests, pc[s] = "wait" PROVE <<r, a>> # W(s)
  <2>1. <<r, a>> = W(s) => s = r /\ a = attempt[r]
    BY DEF W
  <2> QED BY <1>0, <1>6, <2>1
<1> QED BY <1>3, <1>4, <1>5, <1>6 DEF HostOK

LEMMA QueueFrame ==
  ASSUME QueueInv, HostOK, WaitsOn
  PROVE  QueueInv'
  BY DEF QueueInv, HostOK, WaitsOn, Waiting

LEMMA VainFrame ==
  ASSUME TypeOK, NobodyWaitsInVain, HostOK, WaitsOn, IdleOn, \A r \in Requests : Onward(r)
  PROVE  NobodyWaitsInVain'
<1>1. IdleIsOffered'
  BY DEF NobodyWaitsInVain, IdleIsOffered, WaitsOn, IdleOn, Waiting
<1>2. PlaceIsOffered'
  <2> SUFFICES ASSUME NEW r \in Requests, pc'[r] = "wait", want'[<<r, attempt'[r]>>] = "waiting",
                      dials'[<<r, attempt'[r]>>] = "none"
               PROVE  connsPerHost' = MaxConnsPerHost /\ <<r, attempt'[r]>> \in Range(connsPerHostWait')
    BY DEF PlaceIsOffered, W, Waiting
  <2>1. pc[r] = "wait" /\ attempt'[r] = attempt[r]
    BY DEF Onward
  <2>2. W(r) \in Wants /\ W(r) = <<r, attempt'[r]>>
    BY <2>1, WantsOK DEF W
  <2>3. want[W(r)] = "waiting" /\ dials[W(r)] = "none"
    BY <2>2 DEF WaitsOn, HostOK
  <2>4. connsPerHost = MaxConnsPerHost /\ W(r) \in Range(connsPerHostWait)
    BY <2>1, <2>3 DEF NobodyWaitsInVain, PlaceIsOffered, Waiting
  <2> QED BY <2>2, <2>4 DEF HostOK
<1> QED BY <1>1, <1>2 DEF NobodyWaitsInVain

LineInv == NewInv /\ QueueInv /\ NobodyWaitsInVain

LEMMA LineFrame ==
  ASSUME IInv, HostOK, WaitsOn, IdleOn, \A r \in Requests : Onward(r)
  PROVE  LineInv'
  BY NewFrame, QueueFrame, VainFrame DEF IInv, LineInv, WaitsOn

LEMMA SameWaits ==
  ASSUME TypeOK, UNCHANGED <<idleConnWait, want>>
  PROVE  WaitsOn
  BY DEF TypeOK, WaitsOn

LEMMA SameIdle ==
  ASSUME UNCHANGED idleConn, closed \subseteq closed'
  PROVE  IdleOn
  BY DEF IdleOn

\* Every step but the two that queue a wantConn keeps its place in line.
LEMMA OnStep ==
  ASSUME IInv, Next
  PROVE  \/ WaitsOn /\ IdleOn /\ \A r \in Requests : Onward(r)
         \/ \E r \in Requests : QueueForIdleConn(r) \/ QueueForDial(r)
<1> DEFINE On == WaitsOn /\ IdleOn /\ \A r \in Requests : Onward(r)
<1>a. TypeOK
  BY DEF IInv
<1>b. ASSUME UNCHANGED <<pc, attempt>> PROVE \A r \in Requests : Onward(r)
  BY <1>b DEF Onward
<1>c. ASSUME NEW r \in Requests, NEW l, pc' = [pc EXCEPT ![r] = l], l \notin {"start", "queued", "wait"},
             attempt' = attempt
      PROVE  \A s \in Requests : Onward(s)
  BY <1>a, <1>c DEF Onward, TypeOK
<1>d. ASSUME NEW r \in Requests, Fails(r) PROVE \A s \in Requests : Onward(s)
  <2>1. /\ \/ pc' = [pc EXCEPT ![r] = "failed"] /\ attempt' = attempt
           \/ pc' = [pc EXCEPT ![r] = "start"] /\ attempt' = [attempt EXCEPT ![r] = attempt[r] + 1]
        /\ pc \in [Requests -> {"start", "queued", "wait", "got", "sent", "reading", "done", "failed"}]
        /\ attempt \in [Requests -> 1..MaxAttempts]
    BY <1>a, <1>d, RetryOK DEF TypeOK
  <2> QED BY <2>1 DEF Onward
<1>e. ASSUME NEW w \in Wants, NEW x, want[w] # "new" \/ \E r \in Requests : pc[r] = "wait" /\ w = W(r), x \notin {"new", "waiting"},
             want' = [want EXCEPT ![w] = x], UNCHANGED idleConnWait
      PROVE  WaitsOn
  BY <1>a, <1>e DEF TypeOK, WaitsOn
<1>f. ASSUME NEW r \in Requests PROVE W(r) \in Wants
  BY <1>a, WantsOK
<1>g. ASSUME NEW p, Cancel(p) PROVE On
  BY <1>a, <1>b, <1>g, SameWaits, SameIdle DEF Cancel, idleVars, Close
<1>h. ASSUME NEW p \in Conns, home[p] # "none" \/ Puts(p), HandOver(p) \/ Keep(p) \/ Refuse
      PROVE  WaitsOn /\ IdleOn
  <2>1. CASE HandOver(p)
    <3>1. PICK h \in Wants :
              /\ Waiting(h) /\ want' = [want EXCEPT ![h] = p]
              /\ idleConnWait' \in Seq(Wants)
              /\ \A w \in Range(idleConnWait) : Waiting(w) => w = h \/ w \in Range(idleConnWait')
      BY <1>a, <2>1, HandOverFacts
    <3>2. WaitsOn
      BY <1>a, <3>1, NotANone DEF WaitsOn, Waiting, TypeOK
    <3> QED BY <2>1, <3>2, SameIdle DEF HandOver
  <2>2. CASE Keep(p)
    <3>1. p \notin Range(idleLRU)
      BY <1>h, PutterHas
    <3>2. (\A w \in Range(idleConnWait) : ~Waiting(w)) /\ want' = want /\ idleConnWait' = <<>>
      BY <1>a, <2>2, <3>1, KeepFacts
    <3>3. \A w \in Wants : want'[w] # "waiting"
      BY <3>2 DEF IInv, QueueInv, Waiting
    <3> QED BY <3>2, <3>3, EmptyFacts DEF WaitsOn, IdleOn
  <2>3. CASE Refuse
    <3>1. \A w \in Range(idleConnWait) : ~Waiting(w)
      BY <1>a, <2>3, CleanFrontFacts DEF Refuse, Takers, TypeOK
    <3>2. want' = want /\ idleConnWait' = <<>>
      BY <2>3 DEF Refuse
    <3>3. \A w \in Wants : want'[w] # "waiting"
      BY <3>1, <3>2 DEF IInv, QueueInv, Waiting
    <3> QED BY <3>2, <3>3, EmptyFacts DEF WaitsOn, IdleOn
  <2> QED BY <1>h, <2>1, <2>2, <2>3
<1>1. ASSUME NEW r \in Requests, Request(r) PROVE On \/ QueueForIdleConn(r) \/ QueueForDial(r)
  <2>1. CASE CtxDone(r)
    BY <1>a, <1>c, <2>1, SameWaits, SameIdle DEF CtxDone, Goto, idleVars, connVars
  <2>2. CASE Ready(r)
    <3>1. WaitsOn
      BY <1>e, <1>f, <2>2, NotANone DEF Ready, idleVars
    <3> QED BY <1>c, <2>2, <3>1, SameIdle DEF Ready, Goto, idleVars, connVars
  <2>3. CASE GetConnFails(r)
    <3>2. WaitsOn
      BY <1>e, <1>f, <2>3 DEF GetConnFails, idleVars
    <3> QED BY <1>c, <2>3, <3>2, SameIdle DEF GetConnFails, Goto, idleVars, connVars
  <2>4. CASE GiveBack(r)
    BY <1>a, <1>c, <2>4, SameWaits, SameIdle DEF GiveBack, Goto, idleVars, connVars
  <2>5. CASE Send(r)
    BY <1>a, <1>c, <2>5, SameWaits, SameIdle DEF Send, Goto, idleVars, connVars
  <2>6. CASE SeesDone(r)
    BY <1>a, <1>b, <2>6, SameWaits, SameIdle DEF SeesDone, idleVars, connVars
  <2>7. CASE SeesClosed(r)
    BY <1>a, <1>d, <2>7, SameWaits, SameIdle DEF SeesClosed, idleVars, connVars
  <2>8. CASE BodyRead(r) \/ BodyClosed(r)
    BY <1>a, <1>c, <2>8, SameWaits, SameIdle DEF BodyRead, BodyClosed, Goto, idleVars, connVars
  <2>9. CASE BodyDone(r)
    BY <1>a, <1>b, <2>9, SameWaits, SameIdle DEF BodyDone, idleVars, connVars
  <2>10. CASE CancelsOwn(r)
    BY <1>g, <2>10 DEF CancelsOwn
  <2> QED BY <1>1, <2>1, <2>2, <2>3, <2>4, <2>5, <2>6, <2>7, <2>8, <2>9, <2>10 DEF Request
<1>2. ASSUME NEW r \in Requests, Breaks(r) PROVE On
  BY <1>a, <1>d, <1>2, SameWaits, SameIdle DEF Breaks, Close, idleVars
<1>3. ASSUME NEW r \in Requests, ContextDone(r) PROVE On
  BY <1>a, <1>b, <1>3, SameWaits, SameIdle DEF ContextDone, idleVars, connVars
<1>4. ASSUME NEW r \in Requests, CancelRequest(r) PROVE On
  BY <1>a, <1>b, <1>4, SameWaits, SameIdle DEF CancelRequest, idleVars, connVars
<1>5. ASSUME NEW w \in Wants, DialDone(w) PROVE On
  <2>1. PICK p \in Conns : Dialled(w, p)
    BY <1>5, DialFacts
  <2>2. WaitsOn
    BY <1>a, <2>1, NotANone DEF Dialled, TypeOK, WaitsOn, Waiting, idleVars
  <2>3. IdleOn
    BY <2>1 DEF Dialled, Fresh, IdleOn, idleVars
  <2> QED BY <1>b, <2>1, <2>2, <2>3 DEF Dialled
<1>6. ASSUME NEW w \in Wants, DialFails(w) PROVE On
  <2>1. WaitsOn
    BY <1>a, <1>6 DEF DialFails, TypeOK, WaitsOn, Waiting, idleVars
  <2> QED BY <1>b, <1>6, <2>1, SameIdle DEF DialFails, idleVars, connVars
<1>7. ASSUME NEW p \in Conns, Loop(p) PROVE On
  <2>1. CASE ReadFails(p)
    <3>1. \A r \in Requests : Onward(r)
      BY <1>d, <2>1 DEF ReadFails, Rc
    <3> QED BY <1>a, <2>1, <3>1, SameWaits, SameIdle DEF ReadFails, idleVars, connVars
  <2>2. CASE ReadResponse(p)
    <3>1. attempt' = attempt
          /\ \E r \in Requests : pc' = [pc EXCEPT ![r] = "reading"] \/ pc' = pc
      BY <2>2 DEF ReadResponse, Rc, Goto
    <3>2. \A r \in Requests : Onward(r)
      BY <1>b, <1>c, <3>1
    <3> QED BY <1>a, <2>2, <3>2, SameWaits, SameIdle DEF ReadResponse, idleVars, connVars
  <2>3. CASE LoopCheck(p)
    BY <1>a, <1>b, <2>3, SameWaits, SameIdle DEF LoopCheck, idleVars
  <2>4. CASE LoopPut(p)
    <3>1. (HandOver(p) \/ Keep(p) \/ Refuse) /\ Puts(p) /\ UNCHANGED <<pc, attempt>>
      BY <2>4 DEF LoopPut, Puts
    <3> QED BY <1>b, <1>h, <3>1
  <2>5. CASE Reply(p)
    <3>1. \A r \in Requests : Onward(r)
      BY <2>5 DEF Reply, Onward
    <3> QED BY <1>a, <2>5, <3>1, SameWaits, SameIdle DEF Reply, idleVars, connVars
  <2>6. CASE LoopExits(p)
    BY <1>a, <1>b, <2>6, SameWaits, SameIdle DEF LoopExits, Close, idleVars
  <2>7. CASE RemoveIdleConn(p)
    <3>1. Range(idleConn') = Range(idleConn) \ {p}
      BY <1>a, <2>7, RemovedFacts DEF RemoveIdleConn
    <3>2. IdleOn
      BY <2>7, <3>1 DEF RemoveIdleConn, IdleOn, connVars
    <3> QED BY <1>a, <1>b, <2>7, <3>2, SameWaits DEF RemoveIdleConn
  <2>8. CASE DropCanceler(p)
    BY <1>a, <1>b, <2>8, SameWaits, SameIdle DEF DropCanceler, idleVars, connVars
  <2> QED BY <1>7, <2>1, <2>2, <2>3, <2>4, <2>5, <2>6, <2>7, <2>8 DEF Loop
<1>8. ASSUME NEW p \in Conns, PeekFailsIdle(p) PROVE On
  BY <1>a, <1>b, <1>8, SameWaits, SameIdle DEF PeekFailsIdle, Close, idleVars
<1>9. ASSUME NEW p \in Conns, Homing(p) PROVE On
  <2>1. CASE HomeCheck(p)
    BY <1>a, <1>b, <2>1, SameWaits, SameIdle DEF HomeCheck, idleVars
  <2>2. CASE HomePut(p)
    <3>1. (HandOver(p) \/ Keep(p) \/ Refuse) /\ home[p] # "none" /\ UNCHANGED <<pc, attempt>>
      BY <2>2 DEF HomePut
    <3> QED BY <1>b, <1>h, <3>1
  <2>3. CASE HomeClose(p)
    BY <1>a, <1>b, <2>3, SameWaits, SameIdle DEF HomeClose, Close, idleVars
  <2> QED BY <1>9, <2>1, <2>2, <2>3 DEF Homing
<1>10. ASSUME NEW p \in Conns, IdleTimeout(p) PROVE On
  <2>1. IdleOn
    <3>1. CASE p \in Range(idleLRU)
      <4>1. Range(idleConn') = Range(idleConn) \ {p} /\ closed' = closed \cup {p}
        BY <1>a, <1>10, <3>1, RemovedFacts DEF IdleTimeout, Close
      <4> QED BY <4>1 DEF IdleOn
    <3>2. CASE p \notin Range(idleLRU)
      BY <1>10, <3>2, SameIdle DEF IdleTimeout
    <3> QED BY <3>1, <3>2
  <2> QED BY <1>a, <1>b, <1>10, <2>1, SameWaits DEF IdleTimeout
<1>11. CASE DialUncounts
  BY <1>a, <1>b, <1>11, SameWaits, SameIdle DEF DialUncounts, idleVars, connVars
<1>12. CASE CloseIdleConnections
  <2>1. IdleOn
    BY <1>12, EmptyFacts DEF CloseIdleConnections, IdleOn
  <2> QED BY <1>a, <1>b, <1>12, <2>1, SameWaits DEF CloseIdleConnections
<1>13. ASSUME NEW p \in Conns, CancelsOutside(p) PROVE On
  BY <1>g, <1>13 DEF CancelsOutside
<1> QED
  BY <1>1, <1>2, <1>3, <1>4, <1>5, <1>6, <1>7, <1>8, <1>9, <1>10, <1>11, <1>12, <1>13 DEF Next, Dial

LEMMA LineStep == ASSUME IInv, Next PROVE LineInv'
<1>a. TypeOK /\ NewInv /\ QueueInv /\ NobodyWaitsInVain
  BY DEF IInv
<1>b. ASSUME NEW r \in Requests PROVE W(r) \in Wants /\ W(r) = <<r, attempt[r]>>
  BY <1>a, WantsOK DEF W
<1>c. MaxAttempts \in Nat /\ \A r \in Requests : attempt[r] \in 1..MaxAttempts
  BY <1>a, LimitsOK DEF TypeOK
<1>1. ASSUME NEW r \in Requests, QueueForIdleConn(r) PROVE LineInv'
  <2>0. /\ pc[r] = "start" /\ UNCHANGED <<hostVars, dials, closed, attempt>>
    BY <1>1 DEF QueueForIdleConn, connVars
  <2>1. HostOK
    BY <1>a, <2>0, HostSame
  <2>2. PICK x \in {"taken", "waiting"}, l \in {"got", "queued"} :
          /\ want' = [want EXCEPT ![W(r)] = x] /\ pc' = [pc EXCEPT ![r] = l]
          /\ x = "waiting" => InLine(r) /\ l = "queued"
          /\ x = "taken" => UNCHANGED idleConnWait /\ Range(idleConn') \subseteq Range(idleConn)
                               /\ l = "got"
    BY <1>a, <1>1, QueueFacts DEF Found, InLine, Goto
  <2>3. /\ want'[W(r)] = x /\ \A w \in Wants \ {W(r)} : want'[w] = want[w]
        /\ pc'[r] = l /\ \A s \in Requests \ {r} : pc'[s] = pc[s]
    BY <1>a, <1>b, <2>2 DEF TypeOK
  <2>4. NewInv'
    <3> SUFFICES ASSUME NEW s \in Requests, NEW a \in attempt[s]..MaxAttempts
                 PROVE  /\ a > attempt[s] \/ pc'[s] = "start" => want'[<<s, a>>] = "new"
                        /\ a > attempt[s] \/ pc'[s] \in {"start", "queued"} =>
                             dials'[<<s, a>>] = "none" /\ <<s, a>> \notin Range(connsPerHostWait')
      BY <2>0 DEF NewInv
    <3>1. /\ a > attempt[s] \/ pc[s] = "start" => want[<<s, a>>] = "new"
          /\ a > attempt[s] \/ pc[s] \in {"start", "queued"} =>
               dials[<<s, a>>] = "none" /\ <<s, a>> \notin Range(connsPerHostWait)
      BY <1>a DEF NewInv
    <3>2. a \in 1..MaxAttempts /\ (a > attempt[s] => a # attempt[s])
      BY <1>c
    <3>3. <<s, a>> \in Wants /\ (a > attempt[s] \/ s # r => <<s, a>> # W(r))
      BY <1>b, <3>2 DEF Wants
    <3>4. dials' = dials /\ connsPerHostWait' = connsPerHostWait
      BY <2>0 DEF hostVars
    <3>5. CASE s = r
      BY <2>0, <2>2, <2>3, <3>1, <3>3, <3>4, <3>5
    <3>6. CASE s # r
      BY <2>3, <3>1, <3>3, <3>4, <3>6
    <3> QED BY <3>5, <3>6
  <2>5. QueueInv'
    <3>1. IsInjective(connsPerHostWait') /\ \A w \in Range(connsPerHostWait') : dials'[w] = "none"
      BY <2>1 DEF HostOK
    <3>2. ASSUME NEW w \in Wants, want'[w] = "waiting" PROVE w \in Range(idleConnWait')
      BY <1>a, <1>b, <2>2, <2>3, <3>2 DEF QueueInv, Waiting, InLine
    <3> QED BY <3>1, <3>2 DEF QueueInv, Waiting
  <2>6. IdleIsOffered'
    <3>1. CASE x = "waiting"
      BY <2>2, <3>1, EmptyFacts DEF InLine, IdleIsOffered
    <3>2. CASE x = "taken"
      <4>1. \A w \in Wants : want'[w] = "waiting" => want[w] = "waiting"
        BY <2>3, <3>2
      <4>2. Range(idleConn') \ closed' \subseteq Range(idleConn) \ closed
        BY <2>0, <2>2, <3>2
      <4> QED BY <1>a, <4>1, <4>2 DEF NobodyWaitsInVain, IdleIsOffered, Waiting
    <3> QED BY <3>1, <3>2
  <2>7. PlaceIsOffered'
    <3> SUFFICES ASSUME NEW s \in Requests, pc'[s] = "wait", want'[<<s, attempt[s]>>] = "waiting",
                        dials'[<<s, attempt[s]>>] = "none"
                 PROVE  connsPerHost' = MaxConnsPerHost /\ <<s, attempt[s]>> \in Range(connsPerHostWait')
      BY <2>0 DEF PlaceIsOffered, W, Waiting
    <3>1. s # r /\ pc[s] = "wait"
      BY <2>2, <2>3
    <3>2. W(s) # W(r) /\ W(s) \in Wants /\ W(s) = <<s, attempt[s]>>
      BY <1>b, <3>1 DEF W
    <3>3. want[W(s)] = "waiting"
      BY <2>3, <3>2
    <3> QED BY <1>a, <2>0, <3>1, <3>2, <3>3 DEF NobodyWaitsInVain, PlaceIsOffered, Waiting, hostVars
  <2> QED BY <2>4, <2>5, <2>6, <2>7 DEF LineInv, NobodyWaitsInVain
<1>2. ASSUME NEW r \in Requests, QueueForDial(r) PROVE LineInv'
  <2>0. /\ pc[r] = "queued" /\ UNCHANGED <<idleConn, idleConnWait, want, closed, attempt>>
        /\ pc'[r] = "wait" /\ \A s \in Requests \ {r} : pc'[s] = pc[s]
    BY <1>a, <1>2 DEF QueueForDial, connVars, idleVars, Goto, TypeOK
  <2>v. PICK v \in Wants : v = W(r)
    BY <1>b
  <2>1. /\ dials[v] = "none" /\ v \notin Range(connsPerHostWait)
        /\ \A w \in Wants \ {v} :
             /\ dials'[w] = dials[w]
             /\ w \in Range(connsPerHostWait') => w \in Range(connsPerHostWait)
             /\ w \in Range(connsPerHostWait) /\ Waiting(w) => w \in Range(connsPerHostWait')
        /\ connsPerHostWait' \in Seq(Wants) /\ IsInjective(connsPerHostWait')
        /\ dials'[v] = "none" => connsPerHost' = MaxConnsPerHost /\ v \in Range(connsPerHostWait')
        /\ v \in Range(connsPerHostWait') => dials'[v] = "none"
        /\ connsPerHost = MaxConnsPerHost => connsPerHost' = MaxConnsPerHost
    <3>0. dials \in [Wants -> {"none", "dialing"}] /\ connsPerHost \in 0..MaxConnsPerHost
          /\ connsPerHostWait \in Seq(Wants) /\ IsInjective(connsPerHostWait) /\ MaxConnsPerHost \in Nat
      BY <1>a, LimitsOK DEF TypeOK, QueueInv
    <3>1. connsPerHost < MaxConnsPerHost => connsPerHost # MaxConnsPerHost
      BY <3>0
    <3> QED BY <1>2, <2>v, <3>0, <3>1, DialQueued
  <2>2. NewInv'
    <3> SUFFICES ASSUME NEW s \in Requests, NEW a \in attempt[s]..MaxAttempts
                 PROVE  /\ a > attempt[s] \/ pc'[s] = "start" => want'[<<s, a>>] = "new"
                        /\ a > attempt[s] \/ pc'[s] \in {"start", "queued"} =>
                             dials'[<<s, a>>] = "none" /\ <<s, a>> \notin Range(connsPerHostWait')
      BY <2>0 DEF NewInv
    <3>1. /\ a > attempt[s] \/ pc[s] = "start" => want[<<s, a>>] = "new"
          /\ a > attempt[s] \/ pc[s] \in {"start", "queued"} =>
               dials[<<s, a>>] = "none" /\ <<s, a>> \notin Range(connsPerHostWait)
      BY <1>a DEF NewInv
    <3>2. a \in 1..MaxAttempts /\ (a > attempt[s] => a # attempt[s])
      BY <1>c
    <3>3. <<s, a>> \in Wants /\ (a > attempt[s] \/ s # r => <<s, a>> # v)
      BY <1>b, <2>v, <3>2 DEF Wants
    <3>4. CASE s = r
      BY <2>0, <2>1, <3>1, <3>3, <3>4
    <3>5. CASE s # r
      BY <2>0, <2>1, <3>1, <3>3, <3>5
    <3> QED BY <3>4, <3>5
  <2>3. QueueInv'
    <3>1. ASSUME NEW w \in Range(connsPerHostWait') PROVE dials'[w] = "none"
      <4>1. w \in Wants
        BY <2>1, <3>1, RangeIn
      <4> QED BY <1>a, <2>1, <3>1, <4>1 DEF QueueInv
    <3> QED BY <1>a, <2>0, <2>1, <3>1 DEF QueueInv, Waiting
  <2>4. IdleIsOffered'
    BY <1>a, <2>0 DEF NobodyWaitsInVain, IdleIsOffered, Waiting
  <2>5. PlaceIsOffered'
    <3> SUFFICES ASSUME NEW s \in Requests, pc'[s] = "wait", want'[<<s, attempt[s]>>] = "waiting",
                        dials'[<<s, attempt[s]>>] = "none"
                 PROVE  connsPerHost' = MaxConnsPerHost /\ <<s, attempt[s]>> \in Range(connsPerHostWait')
      BY <2>0 DEF PlaceIsOffered, W, Waiting
    <3>1. W(s) \in Wants /\ W(s) = <<s, attempt[s]>>
      BY <1>b
    <3>2. CASE s = r
      BY <2>1, <2>v, <3>1, <3>2
    <3>3. CASE s # r
      <4>1. W(s) # v /\ pc[s] = "wait"
        BY <2>0, <2>v, <3>3 DEF W
      <4>2. connsPerHost = MaxConnsPerHost /\ W(s) \in Range(connsPerHostWait) /\ Waiting(W(s))
        BY <1>a, <2>0, <2>1, <3>1, <4>1 DEF NobodyWaitsInVain, PlaceIsOffered, Waiting
      <4> QED BY <2>1, <3>1, <4>1, <4>2
    <3> QED BY <3>2, <3>3
  <2> QED BY <2>2, <2>3, <2>4, <2>5 DEF LineInv, NobodyWaitsInVain
<1>3. CASE ~\E r \in Requests : QueueForIdleConn(r) \/ QueueForDial(r)
  BY <1>3, OnStep, HostStep, LineFrame
<1> QED BY <1>1, <1>2, <1>3

-----------------------------------------------------------------------------
(* A connection passes from one to the next. *)

\* Who has a connection is alone with it.
LEMMA Sole ==
  ASSUME IInv, NEW p \in Conns
  PROVE  /\ \A r \in Requests : Uses(r, p) =>
              /\ \A s \in Requests : Uses(s, p) => s = r
              /\ \A w \in Wants : want[w] # p
              /\ p \notin Range(idleLRU) /\ home[p] = "none" /\ ~Puts(p)
         /\ \A w \in Wants : want[w] = p =>
              /\ \A s \in Requests : ~Uses(s, p)
              /\ \A v \in Wants : want[v] = p => v = w
              /\ p \notin Range(idleLRU) /\ home[p] = "none" /\ ~Puts(p)
         /\ p \in Range(idleLRU) =>
              /\ \A s \in Requests : ~Uses(s, p)
              /\ \A v \in Wants : want[v] # p
              /\ home[p] = "none" /\ ~Puts(p)
<1>1. Unique(p)
  BY DEF IInv, HandInv
<1>2. ASSUME NEW r \in Requests, Uses(r, p) PROVE Only(Req(r), p)
  BY <1>1, <1>2, HasFacts, HandKinds, UniqueOnly
<1>3. ASSUME NEW w \in Wants, want[w] = p PROVE Only(Want(w), p)
  BY <1>1, <1>3, HasFacts, HandKinds, UniqueOnly
<1>4. ASSUME p \in Range(idleLRU) PROVE Only(LRU, p)
  BY <1>1, <1>4, HasFacts, HandKinds, UniqueOnly
<1>5. ASSUME NEW r \in Requests, Uses(r, p)
      PROVE  /\ \A s \in Requests : Uses(s, p) => s = r
             /\ \A w \in Wants : want[w] # p
             /\ p \notin Range(idleLRU) /\ home[p] = "none" /\ ~Puts(p)
  BY <1>2, <1>5, HandsDiffer DEF Only
<1>6. ASSUME NEW w \in Wants, want[w] = p
      PROVE  /\ \A s \in Requests : ~Uses(s, p)
             /\ \A v \in Wants : want[v] = p => v = w
             /\ p \notin Range(idleLRU) /\ home[p] = "none" /\ ~Puts(p)
  BY <1>3, <1>6, HandsDiffer DEF Only
<1>7. ASSUME p \in Range(idleLRU)
      PROVE  /\ \A s \in Requests : ~Uses(s, p)
             /\ \A v \in Wants : want[v] # p
             /\ home[p] = "none" /\ ~Puts(p)
  BY <1>4, <1>7, HandsDiffer DEF Only
<1> QED BY <1>5, <1>6, <1>7

\* Its readLoop runs, unless it is closed.
LEMMA HeldLive ==
  ASSUME IInv, NEW p \in Conns, p \notin closed,
         \/ \E r \in Requests : Uses(r, p)
         \/ \E w \in Wants : want[w] = p
         \/ p \in Range(idleLRU) \/ home[p] # "none" \/ Puts(p)
  PROVE  Class(loop[p]) = "live"
<1>1. Kept(p)
  BY DEF IInv, HandInv
<1>2. \E h \in Hands : Has(h, p)
  BY HasFacts, HandKinds
<1>3. loop[p] \notin {"none", "dead", "exit", "remove"}
  BY <1>1, <1>2 DEF Kept
<1> QED BY <1>3 DEF Class

Fine(p) == Unique(p) /\ Kept(p)

LEMMA ToReq ==
  ASSUME NEW p, NEW r \in Requests, Uses(r, p)', \A s \in Requests : Uses(s, p)' => s = r,
         \A w \in Wants : want'[w] # p, p \notin Range(idleLRU'), home'[p] = "none", ~Puts(p)',
         p \in closed' \/ Class(loop'[p]) = "live"
  PROVE  Fine(p)'
<1>1. Only(Req(r), p)' /\ Has(Req(r), p)' /\ Req(r) \in Hands
  BY HandKinds, HasFactsNext DEF Only
<1> QED BY <1>1, MovedTo DEF Fine

LEMMA ToWant ==
  ASSUME NEW p, NEW w \in Wants, want'[w] = p, \A v \in Wants : want'[v] = p => v = w,
         \A s \in Requests : ~Uses(s, p)', p \notin Range(idleLRU'), home'[p] = "none", ~Puts(p)',
         p \in closed' \/ Class(loop'[p]) = "live"
  PROVE  Fine(p)'
<1>1. Only(Want(w), p)' /\ Has(Want(w), p)' /\ Want(w) \in Hands
  BY HandKinds, HasFactsNext DEF Only
<1> QED BY <1>1, MovedTo DEF Fine

LEMMA ToLRU ==
  ASSUME NEW p, p \in Range(idleLRU'), \A w \in Wants : want'[w] # p,
         \A s \in Requests : ~Uses(s, p)', home'[p] = "none", ~Puts(p)',
         p \in closed' \/ Class(loop'[p]) = "live"
  PROVE  Fine(p)'
<1>1. Only(LRU, p)' /\ Has(LRU, p)' /\ LRU \in Hands
  BY HandKinds, HasFactsNext DEF Only
<1> QED BY <1>1, MovedTo DEF Fine

LEMMA ToHome ==
  ASSUME NEW p, home'[p] # "none", \A w \in Wants : want'[w] # p,
         \A s \in Requests : ~Uses(s, p)', p \notin Range(idleLRU'), ~Puts(p)',
         p \in closed' \/ Class(loop'[p]) = "live"
  PROVE  Fine(p)'
<1>1. Only(Home, p)' /\ Has(Home, p)' /\ Home \in Hands
  BY HandKinds, HasFactsNext DEF Only
<1> QED BY <1>1, MovedTo DEF Fine

LEMMA ToPutting ==
  ASSUME NEW p, Puts(p)', \A w \in Wants : want'[w] # p,
         \A s \in Requests : ~Uses(s, p)', p \notin Range(idleLRU'), home'[p] = "none"
  PROVE  Fine(p)'
<1>1. Only(Putting, p)' /\ Has(Putting, p)' /\ Putting \in Hands
  BY HandKinds, HasFactsNext DEF Only
<1>2. Class(loop'[p]) = "live"
  BY DEF Puts, Class
<1> QED BY <1>1, <1>2, MovedTo DEF Fine

\* A step of request r that is not about p, or that closes it.
LEMMA CalmReq ==
  ASSUME IInv, NEW p \in Conns, NEW r \in Requests,
         \A s \in Requests \ {r} : s \in answered' <=> s \in answered,
         \A s \in Requests \ {r} : pc'[s] = pc[s] /\ conn'[s] = conn[s],
         \A w \in Wants : want'[w] = p <=> want[w] = p,
         p \in Range(idleLRU') <=> p \in Range(idleLRU), home'[p] = home[p],
         Uses(r, p)' => Uses(r, p),
         \/ p \in closed' /\ (Puts(p)' => Puts(p))
         \/ /\ p \notin closed /\ loop'[p] = loop[p]
            /\ conn'[r] = p => conn[r] = p
            /\ Uses(r, p) => Uses(r, p)'
  PROVE  Fine(p)'
<1>1. Unique(p) /\ Kept(p)
  BY DEF IInv, HandInv
<1>2. \A s \in Requests : s # r => (Uses(s, p)' <=> Uses(s, p)) /\ (conn'[s] = p <=> conn[s] = p)
  BY DEF Uses
<1>3. \A s \in Requests : Uses(s, p)' => Uses(s, p)
  BY <1>2
<1>4. CASE p \in closed' /\ (Puts(p)' => Puts(p))
  BY <1>1, <1>3, <1>4, CalmOK DEF Calm, Fine
<1>5. CASE /\ p \notin closed /\ loop'[p] = loop[p]
           /\ conn'[r] = p => conn[r] = p
           /\ Uses(r, p) => Uses(r, p)'
  <2>1. \A s \in Requests : (Uses(s, p) => Uses(s, p)') /\ (conn'[s] = p => conn[s] = p)
    BY <1>2, <1>5
  <2>2. Puts(p)' <=> Puts(p)
    BY <1>5 DEF Puts
  <2>3. Calm(p)
    BY <1>3, <1>5, <2>1, <2>2 DEF Calm
  <2> QED BY <1>1, <2>3, CalmOK DEF Fine
<1> QED BY <1>4, <1>5

\* A step of somebody else that is not about p, or that closes it.
LEMMA CalmSame ==
  ASSUME IInv, NEW p \in Conns, UNCHANGED <<pc, conn, answered>>,
         \A w \in Wants : want'[w] = p <=> want[w] = p,
         p \in Range(idleLRU') => p \in Range(idleLRU), home'[p] # "none" => home[p] # "none",
         Puts(p)' => Puts(p),
         \/ p \in closed'
         \/ /\ p \notin closed /\ Class(loop'[p]) = Class(loop[p]) /\ (Puts(p) => Puts(p)')
            /\ p \in Range(idleLRU) => p \in Range(idleLRU')
            /\ home[p] # "none" => home'[p] # "none"
  PROVE  Fine(p)'
<1>1. Unique(p) /\ Kept(p)
  BY DEF IInv, HandInv
<1>2. \A s \in Requests : (Uses(s, p)' <=> Uses(s, p)) /\ conn'[s] = conn[s]
  BY DEF Uses
<1>3. Calm(p)
  BY <1>2 DEF Calm
<1> QED BY <1>1, <1>3, CalmOK DEF Fine

LEMMA HandRequest ==
  ASSUME IInv, NEW r \in Requests, Request(r) \/ Breaks(r) \/ ContextDone(r) \/ CancelRequest(r),
         NEW q \in Conns
  PROVE  Fine(q)'
<1>a. TypeOK /\ ReqInv
  BY DEF IInv
<1>b. W(r) \in Wants /\ None \notin Conns
  BY <1>a, WantsOK, NotANone
<1>f. /\ pc[r] \in {"start", "queued", "wait"} => conn[r] = None
      /\ pc[r] \in {"start", "queued", "wait", "got"} => r \notin answered
  BY <1>a DEF ReqInv
<1>g. /\ pc \in [Requests -> {"start", "queued", "wait", "got", "sent", "reading", "done", "failed"}]
      /\ conn \in [Requests -> Conns \cup {None}]
  BY <1>a DEF TypeOK
<1>c. ASSUME NEW p, Cancel(p) PROVE Fine(q)'
  BY <1>c, CalmSame DEF Cancel, Close, idleVars, Puts
<1>d. ASSUME UNCHANGED <<pc, conn, answered, want, idleLRU, home, loop, closed>> PROVE Fine(q)'
  BY <1>d, CalmSame DEF Puts
<1>e. ASSUME pc[r] = "sent", Fails(r), UNCHANGED <<want, idleLRU, home, loop>>,
             closed \subseteq closed', conn[r] \in closed'
      PROVE  Fine(q)'
  <2>1. /\ conn'[r] = None
        /\ \A s \in Requests \ {r} : pc'[s] = pc[s] /\ conn'[s] = conn[s]
        /\ \A s \in Requests \ {r} : s \in answered' <=> s \in answered
    BY <1>a, <1>e, FailsFacts
  <2>2. ~Uses(r, q)' /\ conn'[r] # q /\ (Puts(q)' <=> Puts(q))
    BY <1>b, <1>e, <2>1 DEF Uses, Puts
  <2>3. conn[r] # q => ~Uses(r, q)
    BY DEF Uses
  <2> QED BY <1>e, <2>1, <2>2, <2>3, CalmReq
<1>1. CASE CtxDone(r)
  <2>1. conn[r] = None /\ UNCHANGED <<conn, answered, want, idleLRU, home, loop, closed>>
        /\ \A s \in Requests \ {r} : pc'[s] = pc[s]
    BY <1>f, <1>g, <1>1 DEF CtxDone, Goto, idleVars, connVars
  <2>2. ~Uses(r, q) /\ ~Uses(r, q)'
    BY <1>b, <2>1 DEF Uses
  <2> QED BY <2>1, <2>2, CalmReq DEF Puts
<1>2. CASE QueueForIdleConn(r)
  <2>0. pc[r] = "start" /\ UNCHANGED <<answered, home, loop, closed>>
    BY <1>2 DEF QueueForIdleConn, connVars
  <2>1. conn[r] = None /\ want[W(r)] = "new" /\ r \notin answered
    <3>1. conn[r] = None /\ r \notin answered
      BY <1>a, <2>0 DEF ReqInv
    <3>2. attempt[r] \in attempt[r]..MaxAttempts
      BY <1>a, LimitsOK DEF TypeOK
    <3> QED BY <2>0, <3>1, <3>2 DEF IInv, NewInv, W
  <2>2. ~Uses(r, q)
    BY <1>b, <2>1 DEF Uses
  <2>3. ASSUME NEW p \in Conns, Found(r, p) PROVE Fine(q)'
    <3>1. /\ conn'[r] = p /\ pc'[r] = "got"
          /\ \A s \in Requests \ {r} : pc'[s] = pc[s] /\ conn'[s] = conn[s]
          /\ \A w \in Wants : want'[w] = IF w = W(r) THEN "taken" ELSE want[w]
          /\ Range(idleLRU') = Range(idleLRU) \ {p}
          /\ p \in Range(idleLRU) /\ p \notin closed
      BY <1>a, <1>b, <2>3 DEF Found, Goto, TypeOK
    <3>2. \A w \in Wants : want'[w] = q <=> want[w] = q
      BY <1>b, <2>1, <3>1, NotANone
    <3>3. CASE q = p
      <4>1. /\ \A s \in Requests : ~Uses(s, p)
            /\ \A v \in Wants : want[v] # p
            /\ home[p] = "none" /\ ~Puts(p)
        BY <3>1, Sole
      <4>2. Class(loop[p]) = "live"
        BY <3>1, HeldLive
      <4>3. Uses(r, p)' /\ \A s \in Requests : Uses(s, p)' => s = r
        BY <2>0, <3>1, <4>1 DEF Uses
      <4> QED BY <2>0, <3>1, <3>2, <3>3, <4>1, <4>2, <4>3, ToReq DEF Puts
    <3>4. CASE q # p
      <4>1. ~Uses(r, q)' /\ conn'[r] # q
        BY <3>1, <3>4 DEF Uses
      <4> QED BY <2>0, <2>2, <3>1, <3>2, <3>4, <4>1, CalmReq DEF Puts
    <3> QED BY <3>3, <3>4
  <2>4. CASE InLine(r)
    <3>1. /\ UNCHANGED <<conn, idleLRU>>
          /\ \A s \in Requests \ {r} : pc'[s] = pc[s]
          /\ \A w \in Wants : want'[w] = IF w = W(r) THEN "waiting" ELSE want[w]
      BY <1>a, <1>b, <2>4 DEF InLine, Goto, TypeOK
    <3>2. \A w \in Wants : want'[w] = q <=> want[w] = q
      BY <1>b, <2>1, <3>1, NotANone
    <3>3. ~Uses(r, q)' /\ conn'[r] # q
      BY <1>b, <2>1, <3>1 DEF Uses
    <3> QED BY <2>0, <2>2, <3>1, <3>2, <3>3, CalmReq DEF Puts
  <2> QED BY <1>a, <1>2, <2>3, <2>4, QueueFacts
<1>3. CASE QueueForDial(r)
  <2>1. conn[r] = None /\ UNCHANGED <<conn, answered, want, idleLRU, home, loop, closed>>
        /\ \A s \in Requests \ {r} : pc'[s] = pc[s]
    BY <1>f, <1>g, <1>3 DEF QueueForDial, Goto, idleVars, connVars
  <2>2. ~Uses(r, q) /\ ~Uses(r, q)'
    BY <1>b, <2>1 DEF Uses
  <2> QED BY <2>1, <2>2, CalmReq DEF Puts
<1>4. CASE Ready(r)
  <2>0. PICK p \in Conns : p = want[W(r)]
    BY <1>4 DEF Ready
  <2>1. /\ conn[r] = None /\ r \notin answered /\ conn'[r] = p /\ pc'[r] = "got"
        /\ \A s \in Requests \ {r} : pc'[s] = pc[s] /\ conn'[s] = conn[s]
        /\ UNCHANGED <<answered, idleLRU, home, loop, closed>>
    BY <1>f, <1>g, <1>4, <2>0 DEF Ready, Goto, idleVars, connVars
  <2>2. \A w \in Wants : want'[w] = IF w = W(r) THEN "taken" ELSE want[w]
    BY <1>a, <1>b, <1>4 DEF Ready, TypeOK
  <2>3. ~Uses(r, q)
    BY <1>b, <2>1 DEF Uses
  <2>4. CASE q = p
    <3>1. /\ \A s \in Requests : ~Uses(s, p)
          /\ \A v \in Wants : want[v] = p => v = W(r)
          /\ p \notin Range(idleLRU) /\ home[p] = "none" /\ ~Puts(p)
      BY <1>b, <2>0, Sole
    <3>2. p \in closed \/ Class(loop[p]) = "live"
      BY <1>b, <2>0, HeldLive
    <3>3. Uses(r, p)' /\ \A s \in Requests : Uses(s, p)' => s = r
      BY <2>1, <3>1 DEF Uses
    <3>4. \A w \in Wants : want'[w] # p
      BY <2>2, <3>1, NotANone
    <3> QED BY <2>1, <2>4, <3>1, <3>2, <3>3, <3>4, ToReq DEF Puts
  <2>5. CASE q # p
    <3>1. ~Uses(r, q)' /\ conn'[r] # q
      BY <2>1, <2>5 DEF Uses
    <3>2. \A w \in Wants : want'[w] = q <=> want[w] = q
      BY <1>b, <2>0, <2>2, <2>5, NotANone
    <3> QED BY <2>1, <2>3, <3>1, <3>2, CalmReq DEF Puts
  <2> QED BY <2>4, <2>5
<1>5. CASE GetConnFails(r)
  <2>0. PICK p : p = want[W(r)]
    OBVIOUS
  <2>1. /\ conn[r] = None /\ \A s \in Requests \ {r} : pc'[s] = pc[s]
        /\ UNCHANGED <<answered, conn, idleLRU, loop, closed>>
    BY <1>f, <1>g, <1>5 DEF GetConnFails, Goto, idleVars, connVars
  <2>2. \A w \in Wants : want'[w] = IF w = W(r) THEN "canceled" ELSE want[w]
    BY <1>a, <1>b, <1>5 DEF GetConnFails, TypeOK
  <2>3. ~Uses(r, q) /\ ~Uses(r, q)' /\ conn'[r] # q
    BY <1>b, <2>1 DEF Uses
  <2>4. home'[q] = IF q = p THEN "check" ELSE home[q]
    BY <1>5, <2>0 DEF GetConnFails, Returned
  <2>5. CASE q = p
    <3>1. /\ \A s \in Requests : ~Uses(s, q)
          /\ \A v \in Wants : want[v] = q => v = W(r)
          /\ q \notin Range(idleLRU) /\ ~Puts(q)
      BY <1>b, <2>0, <2>5, Sole
    <3>2. q \in closed \/ Class(loop[q]) = "live"
      BY <1>b, <2>0, <2>5, HeldLive
    <3>3. \A s \in Requests : ~Uses(s, q)'
      <4>1. \A s \in Requests \ {r} : ~Uses(s, q)'
        BY <2>1, <3>1 DEF Uses
      <4> QED BY <2>3, <4>1
    <3>4. \A w \in Wants : want'[w] # q
      BY <2>2, <3>1, NotANone
    <3> QED BY <2>1, <2>4, <2>5, <3>1, <3>2, <3>3, <3>4, ToHome DEF Puts
  <2>6. CASE q # p
    <3>2. \A w \in Wants : want'[w] = q <=> want[w] = q
      BY <1>b, <2>0, <2>2, <2>6, NotANone
    <3> QED BY <2>1, <2>3, <2>4, <2>6, <3>2, CalmReq DEF Puts
  <2> QED BY <2>5, <2>6
<1>6. CASE GiveBack(r)
  <2>0. PICK p \in Conns : p = conn[r]
    BY <1>6, ConnOK DEF GiveBack
  <2>1. /\ pc[r] = "got" /\ conn'[r] = None /\ home'[q] = IF q = p THEN "check" ELSE home[q]
        /\ \A s \in Requests \ {r} : pc'[s] = pc[s] /\ conn'[s] = conn[s]
        /\ UNCHANGED <<answered, want, idleLRU, loop, closed>>
    BY <1>a, <1>6, <2>0 DEF GiveBack, TypeOK, Goto, idleVars, connVars
  <2>2. Uses(r, p) /\ ~Uses(r, q)' /\ conn'[r] # q /\ (q # p => ~Uses(r, q))
    BY <1>b, <2>0, <2>1 DEF Uses
  <2>3. CASE q = p
    <3>1. /\ \A s \in Requests : Uses(s, q) => s = r
          /\ \A v \in Wants : want[v] # q
          /\ q \notin Range(idleLRU) /\ ~Puts(q)
      BY <2>2, <2>3, Sole
    <3>2. q \in closed \/ Class(loop[q]) = "live"
      BY <2>2, <2>3, HeldLive
    <3>3. \A s \in Requests : ~Uses(s, q)'
      <4>1. \A s \in Requests \ {r} : ~Uses(s, q)'
        BY <2>1, <3>1 DEF Uses
      <4> QED BY <2>2, <4>1
    <3> QED BY <2>1, <2>3, <3>1, <3>2, <3>3, ToHome DEF Puts
  <2>4. CASE q # p
    BY <2>1, <2>2, <2>4, CalmReq DEF Puts
  <2> QED BY <2>3, <2>4
<1>7. CASE Send(r)
  <2>1. /\ UNCHANGED <<conn, answered, want, idleLRU, home, loop, closed>>
        /\ \A s \in Requests \ {r} : pc'[s] = pc[s]
        /\ pc[r] = "got" /\ pc'[r] = "sent" /\ r \notin answered
    BY <1>f, <1>g, <1>7 DEF Send, Goto, idleVars, connVars
  <2>2. Uses(r, q) <=> Uses(r, q)'
    BY <2>1 DEF Uses
  <2> QED BY <2>1, <2>2, CalmReq DEF Puts
<1>8. CASE SeesDone(r) \/ BodyDone(r)
  BY <1>d, <1>8 DEF SeesDone, BodyDone, idleVars, connVars
<1>9. CASE SeesClosed(r)
  BY <1>e, <1>9 DEF SeesClosed, idleVars, connVars
<1>10. CASE BodyRead(r) \/ BodyClosed(r)
  <2>0. pc[r] = "reading"
    BY <1>10 DEF BodyRead, BodyClosed
  <2>1. PICK p \in Conns : p = conn[r]
    BY <2>0, ConnOK
  <2>2. loop[p] = "body"
    BY <1>a, <2>0, <2>1 DEF ReqInv
  <2>3. PICK l \in {"bodycheck", "exit"} : LoopTo(p, l)
    BY <1>10, <2>1 DEF BodyRead, BodyClosed
  <2>4. /\ loop'[q] = IF q = p THEN l ELSE loop[q]
        /\ conn'[r] = None
        /\ \A s \in Requests \ {r} : pc'[s] = pc[s] /\ conn'[s] = conn[s]
        /\ UNCHANGED <<answered, want, idleLRU, home, closed>>
    BY <1>a, <1>10, <2>1, <2>3 DEF BodyRead, BodyClosed, LoopTo, TypeOK, Goto, idleVars, connVars
  <2>5. Uses(r, p) /\ ~Uses(r, q)' /\ conn'[r] # q /\ (q # p => ~Uses(r, q))
    BY <1>b, <2>0, <2>1, <2>4 DEF Uses
  <2>6. CASE q = p
    <3>1. /\ \A s \in Requests : Uses(s, q) => s = r
          /\ \A v \in Wants : want[v] # q
          /\ q \notin Range(idleLRU) /\ home[q] = "none"
      BY <2>5, <2>6, Sole
    <3>3. \A s \in Requests : ~Uses(s, q)'
      <4>1. \A s \in Requests \ {r} : ~Uses(s, q)'
        BY <2>4, <3>1 DEF Uses
      <4> QED BY <2>5, <4>1
    <3>4. CASE l = "bodycheck"
      BY <2>4, <2>6, <3>1, <3>3, <3>4, ToPutting DEF Puts
    <3>5. CASE l = "exit"
      <4>1. Nobody(q)'
        BY <2>4, <2>6, <3>1, <3>3, <3>5 DEF Nobody, Puts
      <4> QED BY <2>4, <2>6, <3>5, <4>1, MovedOff DEF Fine
    <3> QED BY <3>4, <3>5
  <2>7. CASE q # p
    BY <2>4, <2>5, <2>7, CalmReq DEF Puts
  <2> QED BY <2>6, <2>7
<1>11. CASE Breaks(r)
  BY <1>e, <1>11 DEF Breaks, Close, idleVars
<1>12. CASE ContextDone(r)
  BY <1>d, <1>12 DEF ContextDone, idleVars, connVars
<1>13. CASE CancelRequest(r)
  BY <1>d, <1>13 DEF CancelRequest, idleVars, connVars
<1>14. CASE CancelsOwn(r)
  BY <1>c, <1>14 DEF CancelsOwn
<1> QED
  BY <1>1, <1>2, <1>3, <1>4, <1>5, <1>6, <1>7, <1>8, <1>9, <1>10, <1>11, <1>12, <1>13, <1>14 DEF Request

\* tryPutIdleConn passes p on, or keeps it, and may close the oldest.
LEMMA PutPasses ==
  ASSUME IInv, NEW p \in Conns, home[p] # "none" \/ Puts(p), HandOver(p) \/ Keep(p),
         UNCHANGED <<pc, conn, answered>>, home'[p] = "none", ~Puts(p)',
         p \in closed \/ Class(loop'[p]) = "live",
         \A o \in Conns \ {p} : home'[o] = home[o] /\ loop'[o] = loop[o],
         NEW q \in Conns
  PROVE  Fine(q)'
<1>a. TypeOK
  BY DEF IInv
<1>b. /\ p \notin Range(idleLRU) /\ (\A r \in Requests : ~Uses(r, p))
      /\ \A w \in Wants : want[w] # p
  BY PutterHas
<1>c. \A r \in Requests : ~Uses(r, p)'
  BY <1>b DEF Uses
<1>d. q # p => home'[q] = home[q] /\ loop'[q] = loop[q] /\ (Puts(q)' <=> Puts(q))
  BY DEF Puts
<1>1. CASE HandOver(p)
  <2>1. PICK h \in Wants : Waiting(h) /\ want' = [want EXCEPT ![h] = p]
    BY <1>a, <1>1, HandOverFacts
  <2>2. UNCHANGED <<idleLRU, closed>>
    BY <1>1 DEF HandOver
  <2>3. \A w \in Wants : want'[w] = IF w = h THEN p ELSE want[w]
    BY <1>a, <2>1 DEF TypeOK
  <2>4. CASE q = p
    BY <1>b, <1>c, <2>2, <2>3, <2>4, ToWant
  <2>5. CASE q # p
    <3>1. \A w \in Wants : want'[w] = q <=> want[w] = q
      BY <2>1, <2>3, <2>5, NotANone DEF Waiting
    <3> QED BY <1>d, <2>2, <2>5, <3>1, CalmSame
  <2> QED BY <2>4, <2>5
<1>2. CASE Keep(p)
  <2>1. PICK E \in SUBSET Range(idleLRU) : Kicks(E, p)
    BY <1>a, <1>b, <1>2, KeepFacts
  <2>2. want' = want
    BY <1>2 DEF Keep
  <2>3. closed' = closed \cup E /\ Range(idleLRU') = (Range(idleLRU) \ E) \cup {p}
    BY <2>1, <2>2, KicksFacts DEF Kicks
  <2>4. CASE q = p
    BY <1>b, <1>c, <2>2, <2>3, <2>4, ToLRU
  <2>5. CASE q # p
    BY <1>d, <2>2, <2>3, <2>5, CalmSame
  <2> QED BY <2>4, <2>5
<1> QED BY <1>1, <1>2

LEMMA HandDial ==
  ASSUME IInv, NEW w \in Wants, Dial(w), NEW q \in Conns
  PROVE  Fine(q)'
<1>a. TypeOK
  BY DEF IInv
<1>1. CASE DialDone(w)
  <2>1. PICK p \in Conns : Dialled(w, p)
    BY <1>1, DialFacts
  <2>2. /\ loop[p] = "none" /\ home[p] = "none" /\ p \notin Range(idleLRU)
        /\ \A r \in Requests : conn[r] # p
        /\ \A v \in Wants : want[v] # p
    BY <2>1 DEF Dialled, Fresh
  <2>3. /\ UNCHANGED <<pc, conn, answered, idleLRU>> /\ closed' = closed \ {p}
        /\ \A o \in Conns : loop'[o] = IF o = p THEN "peek" ELSE loop[o]
    BY <1>a, <2>1 DEF Dialled, TypeOK, idleVars
  <2>4. IF want[w] = "waiting"
        THEN home' = home /\ \A v \in Wants : want'[v] = IF v = w THEN p ELSE want[v]
        ELSE want' = want /\ \A o \in Conns : home'[o] = IF o = p THEN "check" ELSE home[o]
    BY <1>a, <2>1 DEF Dialled, TypeOK, Waiting
  <2>5. CASE q = p
    <3>1. ~Puts(q)' /\ Class(loop'[q]) = "live" /\ \A r \in Requests : ~Uses(r, q)'
      BY <2>2, <2>3, <2>5 DEF Puts, Class, Uses
    <3>2. CASE want[w] = "waiting"
      BY <2>2, <2>3, <2>4, <2>5, <3>1, <3>2, ToWant
    <3>3. CASE want[w] # "waiting"
      BY <2>2, <2>3, <2>4, <2>5, <3>1, <3>3, ToHome
    <3> QED BY <3>2, <3>3
  <2>6. CASE q # p
    <3>1. (\A v \in Wants : want'[v] = q <=> want[v] = q) /\ home'[q] = home[q]
      BY <2>4, <2>6, NotANone
    <3>2. loop'[q] = loop[q] /\ (Puts(q)' <=> Puts(q)) /\ (q \in closed' <=> q \in closed)
      BY <2>3, <2>6 DEF Puts
    <3> QED BY <2>3, <3>1, <3>2, CalmSame
  <2> QED BY <2>5, <2>6
<1>2. CASE DialFails(w)
  <2>1. UNCHANGED <<pc, conn, answered, idleLRU, home, loop, closed>>
    BY <1>2 DEF DialFails, idleVars, connVars
  <2>2. \A v \in Wants : want'[v] = IF v = w /\ want[v] = "waiting" THEN "error" ELSE want[v]
    BY <1>a, <1>2 DEF DialFails, TypeOK, Waiting
  <2>3. \A v \in Wants : want'[v] = q <=> want[v] = q
    BY <2>2, NotANone
  <2> QED BY <2>1, <2>3, CalmSame DEF Puts
<1> QED BY <1>1, <1>2 DEF Dial

LEMMA HandLoop ==
  ASSUME IInv, NEW p \in Conns, Loop(p) \/ PeekFailsIdle(p), NEW q \in Conns
  PROVE  Fine(q)'
<1>a. TypeOK /\ ReqInv /\ AliveInv /\ Kept(p)
  BY DEF IInv, HandInv
<1>b. /\ loop \in [Conns -> {"none", "peek", "read", "check", "put", "alive", "dead", "body",
                             "bodycheck", "bodyput", "exit", "remove"}]
      /\ pc \in [Requests -> {"start", "queued", "wait", "got", "sent", "reading", "done", "failed"}]
      /\ conn \in [Requests -> Conns \cup {None}]
  BY <1>a DEF TypeOK
<1>1. CASE ReadFails(p)
  <2>1. PICK r \in Rc(p) : Fails(r)
    BY <1>1 DEF ReadFails
  <2>2. r \in Requests /\ conn[r] = p /\ pc[r] = "sent"
    BY <2>1 DEF Rc
  <2>3. /\ loop[p] = "peek" /\ UNCHANGED <<closed, want, idleLRU, home>>
        /\ loop'[q] = IF q = p THEN "exit" ELSE loop[q]
    BY <1>b, <1>1 DEF ReadFails, LoopTo, connVars, idleVars
  <2>4. \A s \in Requests \ {r} : s \in answered' <=> s \in answered
    BY <1>a, <2>1, <2>2, FailsFacts
  <2>5. conn'[r] = None /\ \A s \in Requests \ {r} : pc'[s] = pc[s] /\ conn'[s] = conn[s]
    BY <1>a, <2>1, <2>2, FailsFacts
  <2>6. r \notin answered
    BY <1>a, <2>2, <2>3 DEF ReqInv, Replying
  <2>7. Uses(r, p) /\ ~Uses(r, q)' /\ conn'[r] # q /\ (q # p => ~Uses(r, q))
    BY <2>2, <2>5, <2>6, NotANone DEF Uses
  <2>8. CASE q = p
    <3>1. /\ \A s \in Requests : Uses(s, q) => s = r
          /\ \A v \in Wants : want[v] # q
          /\ q \notin Range(idleLRU) /\ home[q] = "none"
      BY <2>2, <2>7, <2>8, Sole
    <3>2. \A s \in Requests : ~Uses(s, q)'
      <4>1. \A s \in Requests \ {r} : ~Uses(s, q)'
        BY <2>3, <2>4, <2>5, <3>1 DEF Uses
      <4> QED BY <2>7, <4>1
    <3>3. Nobody(q)'
      BY <2>3, <2>8, <3>1, <3>2 DEF Nobody, Puts
    <3> QED BY <2>3, <2>8, <3>3, MovedOff DEF Fine
  <2>9. CASE q # p
    BY <2>2, <2>3, <2>4, <2>5, <2>7, <2>9, CalmReq DEF Puts
  <2> QED BY <2>8, <2>9
<1>2. CASE ReadResponse(p)
  <2>0. /\ loop[p] = "peek" /\ answered' = answered \cup Rc(p)
        /\ UNCHANGED <<conn, closed, want, idleLRU, home>>
    BY <1>2 DEF ReadResponse, connVars, idleVars
  <2>1. PICK r \in Rc(p) : \/ Goto(r, "reading") /\ LoopTo(p, "body")
                           \/ LoopTo(p, "read") /\ UNCHANGED pc
    BY <1>2 DEF ReadResponse
  <2>2. r \in Requests /\ conn[r] = p /\ pc[r] = "sent"
    BY <2>1 DEF Rc
  <2>3. \A s \in Rc(p) : s \notin answered /\ Uses(s, p) /\ s \in Requests
    BY <1>a, <2>0 DEF ReqInv, Replying, Rc, Uses
  <2>4. Rc(p) = {r}
    BY <2>1, <2>3, OneUser
  <2>5. PICK l \in {"body", "read"} :
          /\ loop'[q] = IF q = p THEN l ELSE loop[q]
          /\ pc'[r] = IF l = "body" THEN "reading" ELSE "sent"
          /\ \A s \in Requests \ {r} : pc'[s] = pc[s]
    BY <1>b, <2>1, <2>2 DEF LoopTo, Goto
  <2>6. \A s \in Requests \ {r} : Uses(s, q)' <=> Uses(s, q)
    BY <2>0, <2>4, <2>5 DEF Uses
  <2>7. /\ Uses(r, p) /\ (q # p => ~Uses(r, q) /\ ~Uses(r, q)')
        /\ q = p => (Uses(r, q)' <=> l = "body")
    BY <2>0, <2>1, <2>2, <2>3, <2>4, <2>5 DEF Uses
  <2>8. CASE q # p \/ l = "body"
    <3>1. /\ \A s \in Requests : Uses(s, q)' <=> Uses(s, q)
          /\ Puts(q)' <=> Puts(q)
          /\ Class(loop'[q]) = Class(loop[q])
      BY <2>0, <2>5, <2>6, <2>7, <2>8 DEF Puts, Class
    <3>2. Unique(q) /\ Kept(q)
      BY DEF IInv, HandInv
    <3>3. Calm(q)
      BY <2>0, <3>1 DEF Calm
    <3> QED BY <3>2, <3>3, CalmOK DEF Fine
  <2>9. CASE q = p /\ l # "body"
    <3>1. /\ \A s \in Requests : Uses(s, q) => s = r
          /\ \A v \in Wants : want[v] # q
          /\ q \notin Range(idleLRU) /\ home[q] = "none"
      BY <2>2, <2>7, <2>9, Sole
    <3>2. \A s \in Requests : ~Uses(s, q)'
      BY <2>6, <2>7, <2>9, <3>1
    <3> QED BY <2>0, <2>5, <2>9, <3>1, <3>2, ToPutting DEF Puts
  <2> QED BY <2>8, <2>9
<1>3. CASE LoopCheck(p)
  <2>1. UNCHANGED <<pc, conn, answered, want, idleLRU, home, closed>>
    BY <1>3 DEF LoopCheck, idleVars
  <2>2. \/ q # p /\ loop'[q] = loop[q]
        \/ q = p /\ Puts(p) /\ Puts(p)' /\ Class(loop'[p]) = Class(loop[p])
        \/ q = p /\ Puts(p) /\ ~Puts(p)' /\ p \in closed
    BY <1>b, <1>3 DEF LoopCheck, LoopTo, Puts, Class
  <2> QED BY <2>1, <2>2, CalmSame DEF Puts
<1>4. CASE LoopPut(p)
  <2>0. UNCHANGED <<pc, conn, answered, home>> /\ Puts(p)
    BY <1>4 DEF LoopPut, Puts
  <2>1. /\ p \notin Range(idleLRU) /\ (\A r \in Requests : ~Uses(r, p))
        /\ (\A w \in Wants : want[w] # p) /\ home[p] = "none"
    BY <2>0, PutterHas
  <2>2. CASE (HandOver(p) \/ Keep(p)) /\ LoopTo(p, IF loop[p] = "put" THEN "alive" ELSE "peek")
    <3>1. loop'[p] \in {"alive", "peek"} /\ \A o \in Conns \ {p} : loop'[o] = loop[o]
      BY <1>b, <2>2 DEF LoopTo
    <3>2. ~Puts(p)' /\ Class(loop'[p]) = "live"
      BY <3>1 DEF Puts, Class
    <3> QED BY <2>0, <2>1, <2>2, <3>1, <3>2, PutPasses
  <2>3. CASE Refuse /\ LoopTo(p, IF loop[p] = "put" THEN "dead" ELSE "exit")
    <3>1. UNCHANGED <<want, idleLRU, closed>>
      BY <2>3 DEF Refuse
    <3>2. /\ loop'[p] \in {"dead", "exit"}
          /\ q # p => loop'[q] = loop[q]
      BY <1>b, <2>3 DEF LoopTo
    <3>3. CASE q = p
      <4>1. Nobody(q)'
        BY <2>0, <2>1, <3>1, <3>2, <3>3 DEF Nobody, Puts, Uses
      <4> QED BY <3>2, <3>3, <4>1, MovedOff DEF Fine
    <3>4. CASE q # p
      BY <2>0, <3>1, <3>2, <3>4, CalmSame DEF Puts
    <3> QED BY <3>3, <3>4
  <2> QED BY <1>4, <2>2, <2>3 DEF LoopPut
<1>5. CASE Reply(p)
  <2>0. loop[p] \in {"alive", "dead"} /\ UNCHANGED <<answered, closed, want, idleLRU, home>>
    BY <1>5 DEF Reply, connVars, idleVars
  <2>1. /\ loop'[q] \in {"peek", "exit"} \/ q # p
        /\ q # p => loop'[q] = loop[q]
        /\ loop[p] = "dead" => loop'[p] = "exit"
        /\ loop[p] = "alive" /\ Rc(p) \cap answered # {} => loop'[p] = "peek"
    BY <1>b, <1>5 DEF Reply, LoopTo
  <2>2. \A s \in Requests : IF conn[s] = p /\ pc[s] = "sent" /\ s \in answered
                            THEN pc'[s] = "done" /\ conn'[s] = None
                            ELSE pc'[s] = pc[s] /\ conn'[s] = conn[s]
    BY <1>5 DEF Reply, Rc
  <2>3. \A s \in Requests : (Uses(s, q)' <=> Uses(s, q)) /\ (conn'[s] = q => conn[s] = q)
    BY <2>0, <2>2, NotANone DEF Uses
  <2>4. loop[p] = "alive" /\ p \notin closed => Rc(p) \cap answered # {}
    BY <1>a DEF AliveInv, Rc, TypeOK
  <2>5. /\ Puts(q)' <=> Puts(q)
        /\ q \notin closed => Class(loop'[q]) = Class(loop[q])
    BY <2>0, <2>1, <2>4 DEF Puts, Class
  <2>6. Unique(q) /\ Kept(q)
    BY DEF IInv, HandInv
  <2>7. Calm(q)
    BY <2>0, <2>3, <2>5 DEF Calm
  <2> QED BY <2>6, <2>7, CalmOK DEF Fine
<1>6. CASE LoopExits(p) \/ PeekFailsIdle(p)
  <2>1. UNCHANGED <<pc, conn, answered, want, idleLRU, home>> /\ closed' = closed \cup {p}
    BY <1>6 DEF LoopExits, PeekFailsIdle, Close, idleVars
  <2>2. loop'[q] = IF q = p THEN loop'[p] ELSE loop[q]
    BY <1>b, <1>6 DEF LoopExits, PeekFailsIdle, LoopTo
  <2>3. loop'[p] \in {"exit", "remove"}
    BY <1>b, <1>6 DEF LoopExits, PeekFailsIdle, LoopTo
  <2> QED BY <2>1, <2>2, <2>3, CalmSame DEF Puts
<1>7. CASE RemoveIdleConn(p)
  <2>1. UNCHANGED <<pc, conn, answered, want, home, closed>> /\ Range(idleLRU') = Range(idleLRU) \ {p}
    BY <1>a, <1>7, RemovedFacts DEF RemoveIdleConn, connVars
  <2>2. p \in closed
    BY <1>a, <1>7 DEF RemoveIdleConn, Kept
  <2>3. loop'[q] = IF q = p THEN "none" ELSE loop[q]
    BY <1>b, <1>7 DEF RemoveIdleConn, LoopTo
  <2> QED BY <2>1, <2>2, <2>3, CalmSame DEF Puts
<1>8. CASE DropCanceler(p)
  <2>0. UNCHANGED <<pc, conn, answered, want, idleLRU, home, closed>> /\ Puts(p)
    BY <1>8 DEF DropCanceler, Puts, idleVars, connVars
  <2>1. PICK l \in {"check", "dead"} : loop' = [loop EXCEPT ![p] = l]
    BY <1>8 DEF DropCanceler, LoopTo
  <2>2. loop'[q] = IF q = p THEN l ELSE loop[q]
    BY <1>b, <2>1
  <2>3. CASE q # p
    BY <2>0, <2>2, <2>3, CalmSame DEF Puts
  <2>4. CASE q = p
    <3>1. /\ q \notin Range(idleLRU) /\ (\A r \in Requests : ~Uses(r, q))
          /\ (\A w \in Wants : want[w] # q) /\ home[q] = "none"
      BY <2>0, <2>4, PutterHas
    <3>2. \A r \in Requests : ~Uses(r, q)'
      BY <2>0, <3>1 DEF Uses
    <3>3. CASE l = "check"
      BY <2>0, <2>2, <2>4, <3>1, <3>2, <3>3, ToPutting DEF Puts
    <3>4. CASE l = "dead"
      <4>1. Nobody(q)'
        BY <2>0, <2>2, <2>4, <3>1, <3>2, <3>4 DEF Nobody, Puts
      <4> QED BY <2>2, <2>4, <3>4, <4>1, MovedOff DEF Fine
    <3> QED BY <3>3, <3>4
  <2> QED BY <2>3, <2>4
<1> QED BY <1>1, <1>2, <1>3, <1>4, <1>5, <1>6, <1>7, <1>8 DEF Loop

LEMMA HandHoming ==
  ASSUME IInv, NEW p \in Conns, Homing(p) \/ IdleTimeout(p), NEW q \in Conns
  PROVE  Fine(q)'
<1>a. TypeOK /\ home \in [Conns -> {"none", "check", "put", "close"}]
  BY DEF IInv, TypeOK
<1>1. CASE HomeCheck(p)
  <2>1. UNCHANGED <<pc, conn, answered, want, idleLRU, loop, closed>>
    BY <1>1 DEF HomeCheck, idleVars
  <2>2. home'[q] # "none" <=> home[q] # "none"
    BY <1>a, <1>1 DEF HomeCheck
  <2> QED BY <2>1, <2>2, CalmSame DEF Puts
<1>2. CASE HomePut(p)
  <2>0. home[p] = "put" /\ UNCHANGED <<pc, conn, answered, loop>>
    BY <1>2 DEF HomePut
  <2>1. CASE (HandOver(p) \/ Keep(p)) /\ home' = [home EXCEPT ![p] = "none"]
    <3>1. home'[p] = "none" /\ \A o \in Conns \ {p} : home'[o] = home[o]
      BY <1>a, <2>1
    <3>2. ~Puts(p) /\ ~Puts(p)'
      BY <2>0, PutterHas DEF Puts
    <3>3. p \in closed \/ Class(loop'[p]) = "live"
      BY <2>0, HeldLive
    <3> QED BY <2>0, <2>1, <3>1, <3>2, <3>3, PutPasses
  <2>2. CASE Refuse /\ home' = [home EXCEPT ![p] = "close"]
    <3>1. UNCHANGED <<want, idleLRU, closed>> /\ (home'[q] # "none" <=> home[q] # "none")
      BY <1>a, <2>0, <2>2 DEF Refuse
    <3> QED BY <2>0, <3>1, CalmSame DEF Puts
  <2> QED BY <1>2, <2>1, <2>2 DEF HomePut
<1>3. CASE HomeClose(p)
  <2>1. /\ UNCHANGED <<pc, conn, answered, want, idleLRU, loop>> /\ closed' = closed \cup {p}
        /\ home'[q] = IF q = p THEN "none" ELSE home[q]
    BY <1>a, <1>3 DEF HomeClose, Close, idleVars
  <2> QED BY <2>1, CalmSame DEF Puts
<1>4. CASE IdleTimeout(p)
  <2>0. UNCHANGED <<pc, conn, answered, want, loop, home>>
    BY <1>4 DEF IdleTimeout
  <2>1. CASE idleConn' = Evicted(idleConn, p) /\ idleLRU' = Without(idleLRU, p) /\ Close(p)
    <3>1. Range(idleLRU') = Range(idleLRU) \ {p} /\ closed' = closed \cup {p}
      BY <1>a, <2>1, RemovedFacts DEF Close
    <3> QED BY <2>0, <3>1, CalmSame DEF Puts
  <2>2. CASE UNCHANGED <<idleConn, idleLRU, closed, hostVars, dials>>
    BY <2>0, <2>2, CalmSame DEF Puts
  <2> QED BY <1>4, <2>1, <2>2 DEF IdleTimeout
<1> QED BY <1>1, <1>2, <1>3, <1>4 DEF Homing

LEMMA HandStep == ASSUME IInv, Next PROVE HandInv'
<1> SUFFICES ASSUME NEW q \in Conns PROVE Fine(q)'
  BY DEF HandInv, Fine
<1>1. CASE DialUncounts
  BY <1>1, CalmSame DEF DialUncounts, idleVars, connVars, Puts
<1>2. CASE CloseIdleConnections
  <2>1. /\ UNCHANGED <<pc, conn, answered, want, loop, closed>> /\ Range(idleLRU') = {}
        /\ home'[q] = IF q \in Range(idleConn) THEN "close" ELSE home[q]
    BY <1>2, EmptyFacts DEF CloseIdleConnections, connVars
  <2>2. /\ Range(idleConn) \subseteq Range(idleLRU)
        /\ Range(idleLRU) \ Range(idleConn) \subseteq closed
    BY DEF IInv, TypeOK
  <2>3. CASE q \in Range(idleConn)
    <3>1. /\ \A s \in Requests : ~Uses(s, q)
          /\ (\A v \in Wants : want[v] # q) /\ ~Puts(q)
      BY <2>2, <2>3, Sole
    <3>2. q \in closed \/ Class(loop[q]) = "live"
      BY <2>2, <2>3, HeldLive
    <3>3. (\A s \in Requests : ~Uses(s, q)') /\ ~Puts(q)'
      BY <2>1, <3>1 DEF Uses, Puts
    <3> QED BY <2>1, <2>3, <3>1, <3>2, <3>3, ToHome
  <2>4. CASE q \notin Range(idleConn)
    BY <2>1, <2>2, <2>4, CalmSame DEF Puts
  <2> QED BY <2>3, <2>4
<1>3. ASSUME NEW p \in Conns, CancelsOutside(p) PROVE Fine(q)'
  BY <1>3, CalmSame DEF CancelsOutside, Cancel, Close, idleVars, Puts
<1> QED BY <1>1, <1>2, <1>3, HandRequest, HandDial, HandLoop, HandHoming DEF Next

-----------------------------------------------------------------------------
(* Cancellations under way. *)

LEMMA AskStep == ASSUME IInv, Next PROVE AskInv'
<1>a. /\ TypeOK /\ AskInv /\ canceling \subseteq Requests /\ aborts \subseteq Conns
      /\ pc \in [Requests -> {"start", "queued", "wait", "got", "sent", "reading", "done", "failed"}]
      /\ loop \in [Conns -> {"none", "peek", "read", "check", "put", "alive", "dead", "body",
                             "bodycheck", "bodyput", "exit", "remove"}]
  BY DEF IInv, TypeOK
<1>b. ASSUME canceling' \subseteq canceling, aborts' \subseteq aborts, closed \subseteq closed',
             \A s \in canceling' : pc'[s] \in {pc[s], "sent", "reading"},
             \A p \in Conns : loop'[p] = "none" => loop[p] = "none" \/ p \in closed
      PROVE  AskInv'
  BY <1>a, <1>b DEF AskInv
<1>c. ASSUME NEW r \in Requests, r \notin canceling, NEW l, pc' = [pc EXCEPT ![r] = l]
      PROVE  \A s \in canceling : pc'[s] = pc[s]
  BY <1>a, <1>c
<1>d. ASSUME NEW r \in Requests, pc[r] \notin {"sent", "reading"} PROVE r \notin canceling
  BY <1>a, <1>d DEF AskInv
<1>e. ASSUME NEW p \in Conns, NEW l, LoopTo(p, l), l # "none"
      PROVE  \A q \in Conns : loop'[q] = "none" => loop[q] = "none" \/ q \in closed
  BY <1>a, <1>e DEF LoopTo
<1>f. ASSUME NEW r \in Requests, Fails(r), r \notin canceling PROVE \A s \in canceling : pc'[s] = pc[s]
  BY <1>a, <1>f, FailsFacts
<1> USE DEF connVars, cancVars, askVars
<1>1. ASSUME NEW r \in Requests, Request(r) PROVE AskInv'
  <2>1. CASE CtxDone(r)
    BY <1>b, <1>c, <1>d, <2>1 DEF CtxDone, Goto
  <2>2. CASE QueueForIdleConn(r)
    <3>1. UNCHANGED <<canceling, aborts, closed, loop>> /\ r \notin canceling
      BY <1>d, <2>2 DEF QueueForIdleConn
    <3>2. PICK l : pc' = [pc EXCEPT ![r] = l]
      BY <2>2 DEF QueueForIdleConn, Goto
    <3> QED BY <1>b, <1>c, <3>1, <3>2
  <2>3. CASE QueueForDial(r)
    BY <1>b, <1>c, <1>d, <2>3 DEF QueueForDial, Goto
  <2>4. CASE Ready(r)
    BY <1>b, <1>c, <1>d, <2>4 DEF Ready, Goto
  <2>5. CASE GetConnFails(r)
    BY <1>b, <1>c, <1>d, <2>5 DEF GetConnFails, Goto
  <2>6. CASE GiveBack(r)
    BY <1>b, <1>c, <1>d, <2>6 DEF GiveBack, Goto
  <2>7. CASE Send(r)
    BY <1>b, <1>c, <1>d, <2>7 DEF Send, Goto
  <2>8. CASE SeesDone(r) \/ BodyDone(r)
    <3>1. /\ canceling' = canceling \cup {r} /\ pc[r] \in {"sent", "reading"}
          /\ UNCHANGED <<aborts, closed, loop, pc>>
      BY <2>8 DEF SeesDone, BodyDone
    <3> QED BY <1>a, <3>1 DEF AskInv
  <2>9. CASE SeesClosed(r)
    BY <1>b, <1>f, <2>9 DEF SeesClosed
  <2>10. CASE BodyRead(r) \/ BodyClosed(r)
    <3>1. /\ r \notin canceling /\ pc' = [pc EXCEPT ![r] = "done"]
          /\ UNCHANGED <<canceling, aborts, closed>> /\ pc[r] = "reading"
      BY <2>10 DEF BodyRead, BodyClosed, Goto
    <3>2. PICK l \in {"bodycheck", "exit"} : LoopTo(conn[r], l)
      BY <2>10 DEF BodyRead, BodyClosed
    <3>3. conn[r] \in Conns
      BY <3>1, ConnOK
    <3>4. \A q \in Conns : loop'[q] = "none" => loop[q] = "none" \/ q \in closed
      BY <1>e, <3>2, <3>3
    <3> QED BY <1>b, <1>c, <3>1, <3>4
  <2>11. CASE CancelsOwn(r)
    BY <1>b, <2>11 DEF CancelsOwn, Cancel, Close
  <2> QED BY <1>1, <2>1, <2>2, <2>3, <2>4, <2>5, <2>6, <2>7, <2>8, <2>9, <2>10, <2>11 DEF Request
<1>2. ASSUME NEW r \in Requests, Breaks(r) PROVE AskInv'
  BY <1>b, <1>f, <1>2 DEF Breaks, Close
<1>3. ASSUME NEW r \in Requests, ContextDone(r) PROVE AskInv'
  BY <1>b, <1>3 DEF ContextDone
<1>4. ASSUME NEW r \in Requests, CancelRequest(r) PROVE AskInv'
  <2>1. UNCHANGED <<canceling, closed, loop, pc>>
    BY <1>4 DEF CancelRequest
  <2>2. CASE aborts' = aborts
    BY <1>b, <2>1, <2>2
  <2>3. CASE pc[r] \in {"sent", "reading"} /\ aborts' = aborts \cup {conn[r]}
    <3>1. conn[r] \in Conns /\ Closable(conn[r])
      BY <2>3, ConnOK DEF Closable
    <3>2. conn[r] \notin closed => loop[conn[r]] # "none"
      BY <3>1, ClosableFacts
    <3> QED BY <1>a, <2>1, <2>3, <3>2 DEF AskInv
  <2> QED BY <1>4, <2>2, <2>3 DEF CancelRequest
<1>5. ASSUME NEW w \in Wants, DialDone(w) PROVE AskInv'
  <2>1. PICK p \in Conns : Dialled(w, p)
    BY <1>5, DialFacts
  <2>2. /\ p \notin aborts /\ UNCHANGED <<canceling, aborts, pc>> /\ closed' = closed \ {p}
        /\ loop' = [loop EXCEPT ![p] = "peek"]
    BY <2>1 DEF Dialled, Fresh
  <2> QED BY <1>a, <2>2 DEF AskInv
<1>6. ASSUME NEW w \in Wants, DialFails(w) PROVE AskInv'
  BY <1>b, <1>6 DEF DialFails
<1>7. ASSUME NEW p \in Conns, Loop(p) \/ PeekFailsIdle(p) PROVE AskInv'
  <2>1. CASE ReadFails(p)
    <3>1. PICK r \in Rc(p) \ canceling : Fails(r)
      BY <2>1 DEF ReadFails
    <3>2. \A s \in canceling : pc'[s] = pc[s]
      BY <1>f, <3>1 DEF Rc
    <3> QED BY <1>b, <1>e, <2>1, <3>2 DEF ReadFails
  <2>2. CASE ReadResponse(p)
    <3>1. UNCHANGED <<canceling, aborts, closed>>
      BY <2>2 DEF ReadResponse
    <3>2. PICK r \in Rc(p), l \in {"body", "read"} :
            /\ LoopTo(p, l)
            /\ pc' = [pc EXCEPT ![r] = "reading"] \/ pc' = pc
      BY <2>2 DEF ReadResponse, Goto
    <3>3. \A s \in canceling' : pc'[s] \in {pc[s], "sent", "reading"}
      BY <1>a, <3>1, <3>2
    <3> QED BY <1>b, <1>e, <3>1, <3>2, <3>3
  <2>3. CASE DropCanceler(p)
    <3>1. PICK l \in {"check", "dead"} : LoopTo(p, l)
      BY <2>3 DEF DropCanceler
    <3> QED BY <1>b, <1>e, <2>3, <3>1 DEF DropCanceler
  <2>4. CASE LoopCheck(p)
    <3>1. PICK l \in {"put", "bodyput", "dead", "exit"} : LoopTo(p, l)
      BY <2>4 DEF LoopCheck
    <3> QED BY <1>b, <1>e, <2>4, <3>1 DEF LoopCheck
  <2>5. CASE LoopPut(p)
    <3>1. PICK l \in {"alive", "peek", "dead", "exit"} : LoopTo(p, l)
      BY <2>5 DEF LoopPut
    <3>2. closed \subseteq closed' /\ UNCHANGED <<canceling, aborts, pc>>
      BY <2>5 DEF LoopPut, HandOver, Keep, Refuse, Close
    <3> QED BY <1>b, <1>e, <3>1, <3>2
  <2>6. CASE Reply(p)
    <3>1. PICK l \in {"peek", "exit"} : LoopTo(p, l)
      BY <2>6 DEF Reply
    <3>2. UNCHANGED <<canceling, aborts, closed>> /\ \A s \in canceling : pc'[s] = pc[s]
      BY <1>a, <2>6 DEF Reply
    <3> QED BY <1>b, <1>e, <3>1, <3>2
  <2>7. CASE LoopExits(p) \/ PeekFailsIdle(p)
    <3>1. PICK l \in {"exit", "remove"} : LoopTo(p, l)
      BY <2>7 DEF LoopExits, PeekFailsIdle
    <3>2. closed \subseteq closed' /\ UNCHANGED <<canceling, aborts, pc>>
      BY <2>7 DEF LoopExits, PeekFailsIdle, Close
    <3> QED BY <1>b, <1>e, <3>1, <3>2
  <2>8. CASE RemoveIdleConn(p)
    <3>1. p \in closed
      BY <2>8 DEF RemoveIdleConn, IInv, HandInv, Kept
    <3>2. loop' = [loop EXCEPT ![p] = "none"] /\ UNCHANGED <<canceling, aborts, pc, closed>>
      BY <2>8 DEF RemoveIdleConn, LoopTo
    <3>3. \A q \in Conns : loop'[q] = "none" => loop[q] = "none" \/ q \in closed
      BY <1>a, <3>1, <3>2
    <3> QED BY <1>b, <3>2, <3>3
  <2> QED BY <1>7, <2>1, <2>2, <2>3, <2>4, <2>5, <2>6, <2>7, <2>8 DEF Loop
<1>8. ASSUME NEW p \in Conns, Homing(p) PROVE AskInv'
  <2>1. UNCHANGED <<pc, loop, canceling, aborts>> /\ closed \subseteq closed'
    BY <1>8 DEF Homing, HomeCheck, HomePut, HomeClose, HandOver, Keep, Refuse, Close
  <2> QED BY <1>b, <2>1
<1>9. ASSUME NEW p \in Conns, IdleTimeout(p) PROVE AskInv'
  BY <1>b, <1>9 DEF IdleTimeout, Close
<1>10. ASSUME NEW p \in Conns, CancelsOutside(p) PROVE AskInv'
  BY <1>b, <1>10 DEF CancelsOutside, Cancel, Close
<1>11. CASE DialUncounts
  BY <1>b, <1>11 DEF DialUncounts
<1>12. CASE CloseIdleConnections
  BY <1>b, <1>12 DEF CloseIdleConnections
<1> QED
  BY <1>1, <1>2, <1>3, <1>4, <1>5, <1>6, <1>7, <1>8, <1>9, <1>10, <1>11, <1>12 DEF Next, Dial

-----------------------------------------------------------------------------
(* The theorems. *)

LEMMA InitOK == Init => IInv
<1> SUFFICES ASSUME Init PROVE IInv
  OBVIOUS
<1>0. /\ MaxFaults \in Nat /\ None \notin Conns
      /\ \A p \in Conns : p \notin {"new", "waiting", "error", "canceled", "taken"}
  BY LimitsOK, NotANone, HttpTransportAssumption
<1>1. /\ \A S : <<>> \in Seq(S)
      /\ IsInjective(<<>>) /\ Range(<<>>) = {}
  BY EmptyFacts
<1>2. TypeOK
  <2>1. /\ idleConn \in Seq(Conns) /\ idleLRU \in Seq(Conns)
        /\ IsInjective(idleConn) /\ IsInjective(idleLRU)
        /\ Range(idleConn) \subseteq Range(idleLRU)
        /\ Range(idleLRU) \ Range(idleConn) \subseteq closed
        /\ idleConnWait \in Seq(Wants) /\ connsPerHostWait \in Seq(Wants)
    BY <1>1 DEF Init
  <2>2. /\ connsPerHost \in 0..MaxConnsPerHost /\ uncount \in Nat /\ faults \in 0..MaxFaults
        /\ attempt \in [Requests -> 1..MaxAttempts]
    BY <1>0, LimitsOK DEF Init
  <2> QED BY <2>1, <2>2 DEF Init, TypeOK
<1>3. CountExact
  <2>1. Dialing = {} /\ Live = {}
    BY DEF Init, Dialing, Live
  <2>2. connsPerHost = uncount + Cardinality({}) + Cardinality({})
    BY FS_EmptySet DEF Init
  <2> QED BY <2>1, <2>2, CountIs
<1>4. HandInv
  <2> SUFFICES ASSUME NEW p \in Conns PROVE Unique(p) /\ Kept(p)
    BY DEF HandInv
  <2>1. /\ \A r \in Requests : conn[r] # p /\ ~Uses(r, p)
        /\ \A w \in Wants : want[w] # p
        /\ p \notin Range(idleLRU) /\ home[p] = "none" /\ loop[p] = "none" /\ ~Puts(p)
    BY <1>0, <1>1 DEF Init, Uses, Puts
  <2>2. ~\E h \in Hands : Has(h, p)
    BY <2>1 DEF Has
  <2> QED BY <2>1, <2>2 DEF Unique, Kept
<1>5. ReqInv /\ AliveInv
  BY DEF Init, ReqInv, AliveInv
<1>6. NewInv
  <2> SUFFICES ASSUME NEW r \in Requests, NEW a \in attempt[r]..MaxAttempts
               PROVE  want[<<r, a>>] = "new" /\ dials[<<r, a>>] = "none" /\ <<r, a>> \notin Range(connsPerHostWait)
    BY DEF NewInv
  <2>1. a \in 1..MaxAttempts
    BY DEF Init
  <2>2. <<r, a>> \in Wants
    BY <2>1 DEF Wants
  <2> QED BY <1>1, <2>2 DEF Init
<1>7. QueueInv /\ NobodyWaitsInVain
  BY <1>1 DEF Init, QueueInv, NobodyWaitsInVain, IdleIsOffered, PlaceIsOffered, Waiting
<1>8. AskInv
  BY DEF Init, AskInv
<1> QED BY <1>2, <1>3, <1>4, <1>5, <1>6, <1>7, <1>8 DEF IInv

LEMMA StutterOK == IInv /\ UNCHANGED vars => IInv'
<1> SUFFICES ASSUME IInv, UNCHANGED vars PROVE IInv'
  OBVIOUS
<1>0. UNCHANGED <<idleConn, idleLRU, idleConnWait, closeIdle, connsPerHost, connsPerHostWait, want,
                  dials, uncount, closed, reused, canceledErr, loop, home, timer, pc, conn, attempt,
                  reqCanceler, done, cancelc, canceling, aborts, rcReq, answered, faults>>
  BY DEF vars, idleVars, hostVars, connVars, cancVars, askVars
<1>1. TypeOK'
  BY <1>0 DEF IInv, TypeOK
<1>2. CountExact'
  BY <1>0, CountSame DEF IInv, hostVars
<1>3. HandInv'
  BY <1>0, CalmSame DEF HandInv, Fine, Puts
<1>4. ReqInv' /\ AliveInv'
  BY <1>0 DEF IInv, ReqInv, AliveInv
<1>5. NewInv' /\ QueueInv'
  BY <1>0 DEF IInv, NewInv, QueueInv, Waiting
<1>6. NobodyWaitsInVain'
  BY <1>0 DEF IInv, NobodyWaitsInVain, IdleIsOffered, PlaceIsOffered, Waiting, W
<1>7. AskInv'
  BY <1>0 DEF IInv, AskInv
<1> QED BY <1>1, <1>2, <1>3, <1>4, <1>5, <1>6, <1>7 DEF IInv

LEMMA Invariance == Spec => []IInv
<1>1. IInv /\ Next => IInv'
  <2> SUFFICES ASSUME IInv, Next PROVE IInv'
    OBVIOUS
  <2>1. LineInv'
    BY LineStep
  <2> QED BY <2>1, TypeStep, CountStep, HandStep, ReqStep, AskStep DEF IInv, LineInv
<1>2. IInv /\ [Next]_vars => IInv'
  BY <1>1, StutterOK
<1> QED BY <1>2, InitOK, PTL DEF Spec

(***************************************************************************)
(* The types, and the count: connsPerHost is the number of dials and of    *)
(* connections that are not closed, so decConnsPerHost never finds it zero *)
(* and queueForDial never exceeds MaxConnsPerHost.  Each pc.close counts   *)
(* once, and only a connection that was dialled is closed (Kept).          *)
(***************************************************************************)
THEOREM CountIsExact == Spec => []Inv
<1>1. IInv => Inv
  BY DEF IInv, Inv
<1> QED BY <1>1, Invariance, PTL

(***************************************************************************)
(* A connection that is not closed is with one request, wantConn, idle     *)
(* list, putOrCloseIdleConn or readLoop: tryDeliver, w.cancel and          *)
(* tryPutIdleConn pass it on and neither share nor lose it.                *)
(***************************************************************************)
THEOREM OneHolderAlways == Spec => []OneHolder
<1>1. ASSUME IInv, NEW p \in Conns, loop[p] # "none", p \notin closed
      PROVE  Cardinality(Holders(p)) = 1
  <2>1. Kept(p) /\ Range(idleConn) \subseteq Range(idleLRU)
        /\ (p \in Range(idleLRU) => p \in Range(idleConn))
    BY <1>1 DEF IInv, HandInv, TypeOK
  <2>2. \/ \E r \in Requests : Uses(r, p)
        \/ \E w \in Wants : want[w] = p
        \/ p \in Range(idleLRU) \/ home[p] # "none" \/ Puts(p)
        \/ loop[p] \in {"dead", "exit"}
    BY <1>1, <2>1 DEF Kept, Has
  <2>3. Class(loop[p]) = "live" => loop[p] \notin {"dead", "exit"}
    BY DEF Class
  <2>4. \A x : x \in Holders(p) <=>
              \/ x \in Requests /\ Uses(x, p)
              \/ x \in Wants /\ want[x] = p
              \/ x = "idle" /\ p \in Range(idleLRU)
              \/ x = "home" /\ home[p] # "none"
              \/ x = "loop" /\ (Puts(p) \/ loop[p] \in {"dead", "exit"})
    BY <2>1 DEF Holders, Uses, Puts
  <2>5. ASSUME NEW r \in Requests, Uses(r, p) PROVE \A x : x \in Holders(p) <=> x = r
    BY <1>1, <2>3, <2>4, <2>5, Sole, HeldLive
  <2>6. ASSUME NEW w \in Wants, want[w] = p PROVE \A x : x \in Holders(p) <=> x = w
    BY <1>1, <2>3, <2>4, <2>6, Sole, HeldLive
  <2>7. ASSUME p \in Range(idleLRU) PROVE \A x : x \in Holders(p) <=> x = "idle"
    BY <1>1, <2>3, <2>4, <2>7, Sole, HeldLive
  <2>8. ASSUME home[p] # "none" PROVE \A x : x \in Holders(p) <=> x = "home"
    BY <1>1, <2>3, <2>4, <2>8, PutterHas, HeldLive
  <2>9. ASSUME Puts(p) PROVE \A x : x \in Holders(p) <=> x = "loop"
    BY <1>1, <2>3, <2>4, <2>9, PutterHas, HeldLive
  <2>10. ASSUME loop[p] \in {"dead", "exit"} PROVE \A x : x \in Holders(p) <=> x = "loop"
    BY <1>1, <2>3, <2>4, <2>10, HeldLive
  <2>11. PICK y : \A x : x \in Holders(p) <=> x = y
    BY <2>2, <2>5, <2>6, <2>7, <2>8, <2>9, <2>10
  <2>12. Holders(p) = {y}
    BY <2>11
  <2> QED BY <2>12, FS_Singleton
<1>2. IInv => OneHolder
  BY <1>1 DEF OneHolder
<1> QED BY <1>2, Invariance, PTL

(***************************************************************************)
(* No wantConn waits beside an idle connection, and none that is not       *)
(* dialled for beside a free place: it is in the queue of the places from  *)
(* queueForDial until decConnsPerHost grants it one.                       *)
(***************************************************************************)
THEOREM NobodyWaitsInVainAlways == Spec => []NobodyWaitsInVain
<1>1. IInv => NobodyWaitsInVain
  BY DEF IInv
<1> QED BY <1>1, Invariance, PTL
=============================================================================
