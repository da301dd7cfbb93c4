---------------------------- MODULE SqlPoolProofs ----------------------------
(***************************************************************************)
(* The connection pool of database/sql, for any finite number of clients   *)
(* and connections and any limits: the open count is exact, no connection  *)
(* is asked for beyond the limit, every open connection is in one hand and *)
(* is reset before it serves again, and nobody waits beside an idle one.   *)
(* The argument:                                                           *)
(*   - a client or a request that holds a connection is the only one, and  *)
(*     the connection is open and not idle (HoldInv); a request that is    *)
(*     queued has nothing sent to it yet (RequestInv);                     *)
(*   - the lock that putConn takes for the reset has one owner at a time:  *)
(*     the client about to send, a place in resetterCh or the resetter     *)
(*     (LockInv); so a used connection stays locked, or is marked bad,     *)
(*     until ResetSession returned for it (DirtyInv);                      *)
(*   - numOpen is the number of connections that exist, are being opened   *)
(*     or were asked for; on a closed DB it may be more (CountInv).        *)
(***************************************************************************)
EXTENDS SqlPool, FiniteSetTheorems, TLAPS

InHand == {"cached", "use", "giveback"}

\* Client x has connection dc, or it was sent to x.
Holding(x, dc) == (conn[x] = dc /\ pc[x] \in InHand) \/ reply[x] = dc

Idle(dc) == /\ dc \in Range(freeConn) /\ phase[dc] = "open" /\ dc \notin inUse
            /\ \A x \in Clients : ~Holding(x, dc)
Held(dc) == /\ dc \notin Range(freeConn) /\ phase[dc] = "open" /\ dc \in inUse
            /\ \E r \in Clients : \A x \in Clients : Holding(x, dc) <=> x = r
Gone(dc) == /\ dc \notin Range(freeConn) /\ phase[dc] # "open"
            /\ \A x \in Clients : ~Holding(x, dc)

HoldInv ==
  /\ \A dc \in Conns : Idle(dc) \/ Held(dc) \/ Gone(dc)
  /\ \A x \in Clients : pc[x] \in InHand => conn[x] \in Conns

RequestInv ==
  /\ closer \in {"idle", "locked"} <=> ~closed
  /\ \A x \in Clients :
       /\ reply[x] \in Conns => pc[x] \in {"wait", "giveup"}
       /\ ~closed /\ x \in connRequests => pc[x] = "wait" /\ reply[x] = None

\* Client x is about to hand dc over to the resetter.
Resetting(x, dc) == pc[x] = "reset" /\ conn[x] = dc

LockInv ==
  /\ \A dc \in locked : phase[dc] \in {"open", "doomed"}
  /\ IsInjective(resetterCh)
  /\ resetter \in Conns => resetter \in locked \ Range(resetterCh)
  /\ \A x \in Clients : pc[x] = "reset" =>
       /\ conn[x] \in locked \ Range(resetterCh) /\ conn[x] # resetter
       /\ \A y \in Clients : Resetting(y, conn[x]) => y = x

DirtyInv ==
  \A dc \in dirty :
    /\ phase[dc] # "none"
    /\ sessionResetter => dc \in locked \cup badErr \cup unreset \/ resetter = "exited"

Connects == {x \in Clients : pc[x] = "connect"}
Exist    == {c \in Conns : phase[c] # "none"}
Total    == openerCh + Connecting + Cardinality(Exist)

CountInv ==
  /\ ~closed => numOpen = Total
  /\ numOpen >= Total

\* The inductive invariant.
IInv == /\ TypeOK /\ HoldInv /\ RequestInv /\ LockInv /\ DirtyInv /\ CountInv
        /\ ResetBeforeReuse /\ NoneIdleWhileWaiting

(***************************************************************************)
(* Facts about the helpers.                                                *)
(***************************************************************************)
LEMMA DoomEffect ==
  ASSUME TypeOK, NEW S, Doom(S)
  PROVE  /\ phase' \in [Conns -> {"none", "open", "doomed", "final"}]
         /\ \A c \in Conns : phase'[c] = IF c \in S THEN "doomed" ELSE phase[c]
  BY DEF TypeOK, Doom

\* The new connection did not exist before.
LEMMA FreshOK == Left => Fresh \in Conns /\ phase[Fresh] = "none"
  BY DEF Left, Fresh

\* The elements of a sequence.
LEMMA RangeOf == ASSUME NEW S, NEW q \in Seq(S) PROVE Range(q) = {q[i] : i \in 1..Len(q)}
  BY DEF Range

LEMMA RangeIn == ASSUME NEW S, NEW q \in Seq(S) PROVE Range(q) \in SUBSET S
<1>1. Len(q) \in Nat /\ \A i \in 1..Len(q) : q[i] \in S
  OBVIOUS
<1> QED BY <1>1, RangeOf

\* The requests are finitely many, and so are the connections asked for.
LEMMA CanOpenOK ==
  ASSUME TypeOK, NEW n \in Int, NEW R \in SUBSET Clients
  PROVE  /\ CanOpen(n, R) \in Nat
         /\ maxOpen > 0 /\ CanOpen(n, R) > 0 => n + CanOpen(n, R) <= maxOpen
<1>1. IsFiniteSet(R)
  BY SqlPoolAssumption, FS_Subset
<1>2. Cardinality(R) \in Nat /\ maxOpen \in Nat
  BY <1>1, FS_CardinalityType DEF TypeOK
<1> QED BY <1>2 DEF CanOpen, Least

LEMMA MaybeOpenOK ==
  ASSUME TypeOK, NEW n \in Int, NEW R \in SUBSET Clients, MaybeOpenNewConnections(n, R)
  PROVE  \E k \in Nat :
           /\ numOpen' = n + k /\ openerCh' \in Nat
           /\ IF closed THEN openerCh' = openerCh ELSE openerCh' = openerCh + k
           /\ maxOpen > 0 /\ k > 0 => n + k <= maxOpen
<1>1. /\ CanOpen(n, R) \in Nat /\ openerCh \in Nat
      /\ maxOpen > 0 /\ CanOpen(n, R) > 0 => n + CanOpen(n, R) <= maxOpen
      /\ maxOpen \in Nat
  BY CanOpenOK DEF TypeOK
<1>2. CASE closed
  <2> DEFINE k == Least(CanOpen(n, R), 1)
  <2>1. k \in Nat /\ k <= CanOpen(n, R)
    BY <1>1 DEF Least
  <2>2. numOpen' = n + k /\ openerCh' = openerCh
    BY <1>2 DEF MaybeOpenNewConnections
  <2> HIDE DEF k
  <2>3. maxOpen > 0 /\ k > 0 => n + k <= maxOpen
    BY <1>1, <2>1
  <2> QED BY <1>1, <1>2, <2>1, <2>2, <2>3
<1>3. CASE ~closed
  <2>1. numOpen' = n + CanOpen(n, R) /\ openerCh' = openerCh + CanOpen(n, R)
    BY <1>3 DEF MaybeOpenNewConnections
  <2> QED BY <1>1, <1>3, <2>1
<1> QED BY <1>2, <1>3

\* Appending to, and taking from, a sequence without repetitions.
LEMMA AppendFacts ==
  ASSUME NEW S, NEW q \in Seq(S), IsInjective(q), NEW e \in S, e \notin Range(q)
  PROVE  /\ Append(q, e) \in Seq(S) /\ IsInjective(Append(q, e))
         /\ Range(Append(q, e)) = Range(q) \cup {e}
<1>1. /\ Append(q, e) \in Seq(S) /\ Len(Append(q, e)) = Len(q) + 1 /\ Len(q) \in Nat
      /\ \A i \in 1..Len(q) : Append(q, e)[i] = q[i]
      /\ Append(q, e)[Len(q) + 1] = e
  OBVIOUS
<1>2. Range(Append(q, e)) = {Append(q, e)[i] : i \in 1..(Len(q) + 1)} /\ Range(q) = {q[i] : i \in 1..Len(q)}
  BY <1>1, RangeOf
<1>3. Range(Append(q, e)) = Range(q) \cup {e}
  BY <1>1, <1>2
<1>4. IsInjective(Append(q, e))
  <2> SUFFICES ASSUME NEW i \in 1..(Len(q) + 1), NEW j \in 1..(Len(q) + 1),
                      Append(q, e)[i] = Append(q, e)[j]
               PROVE  i = j
    BY <1>1 DEF IsInjective
  <2>1. \A k \in 1..Len(q) : q[k] # e
    BY <1>2
  <2> QED BY <1>1, <2>1 DEF IsInjective
<1> QED BY <1>1, <1>3, <1>4

LEMMA TailFacts ==
  ASSUME NEW S, NEW q \in Seq(S), IsInjective(q), q # <<>>
  PROVE  /\ Head(q) \in S /\ Head(q) \in Range(q)
         /\ Tail(q) \in Seq(S) /\ IsInjective(Tail(q))
         /\ Range(Tail(q)) = Range(q) \ {Head(q)}
<1>1. /\ Len(q) \in Nat /\ Len(q) > 0 /\ Head(q) = q[1] /\ q[1] \in S
      /\ Tail(q) \in Seq(S) /\ Len(Tail(q)) = Len(q) - 1
      /\ \A i \in 1..(Len(q) - 1) : Tail(q)[i] = q[i + 1]
  OBVIOUS
<1>2. Range(Tail(q)) = {Tail(q)[i] : i \in 1..(Len(q) - 1)} /\ Range(q) = {q[i] : i \in 1..Len(q)}
  BY <1>1, RangeOf
<1>3. \A i, j \in 1..Len(q) : q[i] = q[j] => i = j
  BY DEF IsInjective
<1>4. IsInjective(Tail(q))
  BY <1>1, <1>3 DEF IsInjective
<1>5. Range(Tail(q)) \subseteq Range(q) \ {Head(q)}
  BY <1>1, <1>2, <1>3
<1>6. Range(q) \ {Head(q)} \subseteq Range(Tail(q))
  <2> SUFFICES ASSUME NEW i \in 1..Len(q), q[i] # q[1] PROVE q[i] \in Range(Tail(q))
    BY <1>1, <1>2
  <2>1. i - 1 \in 1..(Len(q) - 1) /\ Tail(q)[i - 1] = q[i]
    BY <1>1
  <2> QED BY <1>2, <2>1
<1> QED BY <1>1, <1>2, <1>4, <1>5, <1>6

LEMMA CutFacts ==
  ASSUME NEW S, NEW q \in Seq(S), IsInjective(q), NEW k \in 0..Len(q)
  PROVE  LET a == SubSeq(q, 1, k)
             b == SubSeq(q, k + 1, Len(q))
         IN /\ a \in Seq(S) /\ IsInjective(a)
            /\ Range(a) \cap Range(b) = {} /\ Range(a) \cup Range(b) = Range(q)
<1> DEFINE a == SubSeq(q, 1, k)
           b == SubSeq(q, k + 1, Len(q))
<1>1. /\ Len(q) \in Nat /\ a \in Seq(S) /\ b \in Seq(S) /\ Len(a) = k /\ Len(b) = Len(q) - k
      /\ \A i \in 1..k : a[i] = q[i]
      /\ \A i \in 1..(Len(q) - k) : b[i] = q[i + k]
  OBVIOUS
<1>2. /\ Range(a) = {a[i] : i \in 1..k} /\ Range(b) = {b[i] : i \in 1..(Len(q) - k)}
      /\ Range(q) = {q[i] : i \in 1..Len(q)}
  BY <1>1, RangeOf
<1>3. \A i, j \in 1..Len(q) : q[i] = q[j] => i = j
  BY DEF IsInjective
<1> HIDE DEF a, b
<1>4. IsInjective(a)
  BY <1>1, <1>3 DEF IsInjective
<1>5. Range(a) \cap Range(b) = {}
  BY <1>1, <1>2, <1>3
<1>6. Range(a) \cup Range(b) \subseteq Range(q)
  <2>1. \A i \in 1..k : i \in 1..Len(q)
    BY <1>1
  <2>2. \A i \in 1..(Len(q) - k) : i + k \in 1..Len(q)
    BY <1>1
  <2> QED BY <1>1, <1>2, <2>1, <2>2
<1>7. Range(q) \subseteq Range(a) \cup Range(b)
  <2> SUFFICES ASSUME NEW i \in 1..Len(q) PROVE q[i] \in Range(a) \cup Range(b)
    BY <1>2
  <2>1. CASE i <= k
    BY <1>1, <1>2, <2>1
  <2>2. CASE i > k
    <3>1. i - k \in 1..(Len(q) - k) /\ b[i - k] = q[i]
      BY <1>1, <2>2
    <3> QED BY <1>2, <3>1
  <2> QED BY <1>1, <2>1, <2>2
<1> QED BY <1>1, <1>4, <1>5, <1>6, <1>7 DEF a, b

\* An order of a finite set lists all of it, once.
LEMMA OrderFacts ==
  ASSUME NEW S, IsFiniteSet(S), NEW q \in SetToSeqs(S)
  PROVE  q \in Seq(S) /\ IsInjective(q) /\ Range(q) = S
<1> DEFINE D == 1..Cardinality(S)
<1>1. Cardinality(S) \in Nat
  BY FS_CardinalityType
<1>2. q \in [D -> S] /\ \A i, j \in D : i # j => q[i] # q[j]
  BY DEF SetToSeqs
<1>3. q \in Seq(S) /\ IsInjective(q)
  BY <1>1, <1>2 DEF IsInjective
<1>4. Cardinality(D) = Cardinality(S) /\ IsFiniteSet(D)
  BY <1>1, FS_Interval
<1>5. q \in Injection(D, S)
  BY <1>2 DEF Injection, IsInjective
<1>6. q \in Surjection(D, S)
  BY <1>4, <1>5, FS_Injection
<1>7. Range(q) = S
  BY <1>2, <1>6 DEF Surjection, Range
<1> QED BY <1>3, <1>7

\* The counted sets are finite; what is counted in numOpen can be taken off it.
LEMMA CountFacts ==
  ASSUME TypeOK
  PROVE  /\ IsFiniteSet(Connects) /\ IsFiniteSet(Exist)
         /\ Cardinality(Connects) \in Nat /\ Cardinality(Exist) \in Nat
         /\ Connecting = Cardinality(Connects) + (IF opener = "connect" THEN 1 ELSE 0)
         /\ Total \in Nat
<1>1. Connects \in SUBSET Clients /\ Exist \in SUBSET Conns
  BY DEF Connects, Exist
<1>2. IsFiniteSet(Connects) /\ IsFiniteSet(Exist)
  BY <1>1, SqlPoolAssumption, FS_Subset
<1>3. Cardinality(Connects) \in Nat /\ Cardinality(Exist) \in Nat
  BY <1>2, FS_CardinalityType
<1>4. Connecting = Cardinality(Connects) + (IF opener = "connect" THEN 1 ELSE 0)
  BY DEF Connecting, Connects
<1> QED BY <1>2, <1>3, <1>4 DEF Total, TypeOK

LEMMA Counted ==
  ASSUME TypeOK, CountInv,
         \/ opener = "connect"
         \/ \E x \in Clients : pc[x] = "connect"
         \/ \E dc \in Conns : phase[dc] # "none"
  PROVE  numOpen >= 1
<1>1. numOpen >= Total /\ openerCh \in Nat /\ numOpen \in Nat
  BY DEF CountInv, TypeOK
<1>2. \A x \in Connects : Cardinality(Connects) # 0
  BY CountFacts, FS_EmptySet
<1>3. \A c \in Exist : Cardinality(Exist) # 0
  BY CountFacts, FS_EmptySet
<1>4. opener = "connect" \/ Cardinality(Connects) # 0 \/ Cardinality(Exist) # 0
  BY <1>2, <1>3 DEF Connects, Exist
<1> QED BY <1>1, <1>4, CountFacts DEF Total

LEMMA FaultOK == ASSUME TypeOK, Fault PROVE faults' \in 0..MaxFaults
  BY SqlPoolAssumption DEF TypeOK, Fault

\* A sequence over a set avoids what it does not list.
LEMMA Narrow ==
  ASSUME NEW S, NEW q \in Seq(S), NEW e, e \notin Range(q)
  PROVE  q \in Seq(S \ {e})
<1>1. Len(q) \in Nat /\ q \in [1..Len(q) -> S] /\ \A i \in 1..Len(q) : q[i] # e
  BY RangeOf
<1> QED BY <1>1

\* Where putConnDBLocked puts an accepted connection.
LEMMA PutTypes ==
  ASSUME TypeOK, NEW dc \in Conns, dc \notin Range(freeConn), Deliver(dc) \/ Keep(dc)
  PROVE  /\ freeConn' \in Seq(Conns) /\ IsInjective(freeConn')
         /\ connRequests' \subseteq Clients /\ inUse' \subseteq Conns
         /\ reply' \in [Clients -> Conns \cup {None, "error", "closed"}]
         /\ cleaner' \in BOOLEAN
<1>1. CASE Deliver(dc)
  BY <1>1 DEF TypeOK, Deliver
<1>2. CASE Keep(dc)
  BY <1>2, AppendFacts DEF TypeOK, Keep
<1> QED BY <1>1, <1>2

-----------------------------------------------------------------------------
(* Types. *)

\* An attempt that ends in an error of Connect leaves the call or starts over.
LEMMA FailsOK ==
  ASSUME TypeOK, NEW x \in Clients, Fails(x)
  PROVE  /\ \E l \in {"conn", "failed"} : pc' = [pc EXCEPT ![x] = l]
         /\ \E n \in 0..maxBadConnRetries : attempt' = [attempt EXCEPT ![x] = n]
<1>1. attempt \in [Clients -> 0..2] /\ maxBadConnRetries = 2
  BY DEF TypeOK, maxBadConnRetries
<1>2. attempt' = [attempt EXCEPT ![x] = attempt[x]] \/ attempt' = [attempt EXCEPT ![x] = Retry(x).n]
  BY <1>1 DEF Fails
<1>3. Retry(x).n \in 0..2 /\ Retry(x).pc \in {"conn", "failed"}
  BY <1>1 DEF Retry
<1> QED BY <1>1, <1>2, <1>3 DEF Fails, Goto

LEMMA FailsGoto ==
  ASSUME TypeOK, NEW x \in Clients, Fails(x)
  PROVE  \E l \in {"conn", "failed"} : Goto(x, l)
BY FailsOK DEF Goto

LEMMA TypeStep == ASSUME IInv, Next PROVE TypeOK'
<1>a. TypeOK /\ HoldInv /\ RequestInv /\ LockInv /\ CountInv
  BY DEF IInv
<1>b. Range(freeConn) \subseteq Conns /\ IsFiniteSet(Range(freeConn))
  <2>1. Range(freeConn) \in SUBSET Conns
    BY <1>a, RangeIn DEF TypeOK
  <2> QED BY <2>1, SqlPoolAssumption, FS_Subset
<1> USE DEF TypeOK, dbVars, poolVars, openVars, sessVars, connVars, callVars, bgVars, vars, maxBadConnRetries
<1>1. ASSUME NEW x \in Clients, ConnRefuse(x) PROVE TypeOK'
  BY <1>a, <1>b, <1>1 DEF ConnRefuse, Goto
<1>2. ASSUME NEW x \in Clients, ConnCached(x) PROVE TypeOK'
  BY <1>a, <1>b, <1>2, TailFacts DEF ConnCached, Goto, Cached
<1>3. ASSUME NEW x \in Clients, ConnRequest(x) PROVE TypeOK'
  BY <1>a, <1>b, <1>3 DEF ConnRequest, Goto
<1>4. ASSUME NEW x \in Clients, ConnOpen(x) PROVE TypeOK'
  BY <1>a, <1>b, <1>4 DEF ConnOpen, Goto
<1>5. ASSUME NEW x \in Clients, ConnectFails(x) PROVE TypeOK'
  <2>1. numOpen - 1 \in Nat /\ connRequests \in SUBSET Clients
    BY <1>a, <1>5, Counted DEF ConnectFails
  <2>2. numOpen' \in Nat /\ openerCh' \in Nat
    BY <1>a, <1>5, <2>1, MaybeOpenOK DEF ConnectFails
  <2>3. faults' \in 0..MaxFaults
    BY <1>a, <1>5, FaultOK DEF ConnectFails
  <2>4. Fails(x) /\ UNCHANGED <<dbVars, poolVars, connVars, conn, expired, bgVars, fate>>
    BY <1>5 DEF ConnectFails
  <2>5. PICK l \in {"conn", "failed"}, n \in 0..2 :
          pc' = [pc EXCEPT ![x] = l] /\ attempt' = [attempt EXCEPT ![x] = n]
    BY <1>a, <2>4, FailsOK
  <2> QED BY <1>a, <2>2, <2>3, <2>4, <2>5
<1>6. ASSUME NEW x \in Clients, Connected(x) PROVE TypeOK'
  BY <1>a, <1>b, <1>6, FreshOK DEF Connected, Goto, Create
<1>7. ASSUME NEW x \in Clients, Receive(x) PROVE TypeOK'
  <2>1. PICK l \in {"cached", "conn", "failed"}, n \in 0..2 :
          pc' = [pc EXCEPT ![x] = l] /\ attempt' = [attempt EXCEPT ![x] = n]
    <3>1. CASE UNCHANGED attempt
      BY <1>a, <1>7, <3>1 DEF Receive, Goto, Fails, Retry
    <3>2. CASE Fails(x)
      BY <1>a, <3>2, FailsOK
    <3> QED BY <1>7, <3>1, <3>2 DEF Receive
  <2>2. /\ reply' = [reply EXCEPT ![x] = None] /\ \E c \in Conns \cup {None} : conn' = [conn EXCEPT ![x] = c]
        /\ UNCHANGED <<dbVars, freeConn, connRequests, inUse, openVars, connVars, expired, bgVars, fate, faults>>
    BY <1>7 DEF Receive
  <2>3. reply' \in [Clients -> Conns \cup {None, "error", "closed"}] /\ conn' \in [Clients -> Conns \cup {None}]
    BY <1>a, <2>2
  <2> QED BY <1>a, <2>1, <2>2, <2>3
<1>8. ASSUME NEW x \in Clients, GiveUp(x) PROVE TypeOK'
  BY <1>a, <1>b, <1>8 DEF GiveUp, Goto
<1>9. ASSUME NEW x \in Clients, LastLook(x) PROVE TypeOK'
  BY <1>a, <1>b, <1>9 DEF LastLook, Goto
<1>10. ASSUME NEW x \in Clients, Check(x) PROVE TypeOK'
  BY <1>a, <1>b, <1>10 DEF Check, Goto, Doom
<1>11. ASSUME NEW x \in Clients, PutBad(x) PROVE TypeOK'
  <2>1. numOpen' \in Nat /\ openerCh' \in Nat
    BY <1>a, <1>11, MaybeOpenOK DEF PutBad
  <2>2. faults' \in 0..MaxFaults
    BY <1>a, <1>11, FaultOK DEF PutBad
  <2> QED BY <1>a, <1>11, <2>1, <2>2, DoomEffect DEF PutBad, Goto
<1>12. ASSUME NEW x \in Clients, PutTaken(x) PROVE TypeOK'
  <2>1. conn[x] \in Conns /\ conn[x] \notin Range(freeConn)
    BY <1>a, <1>12 DEF PutTaken, HoldInv, Idle, Held, Gone, Holding, InHand
  <2>2. /\ freeConn' \in Seq(Conns) /\ IsInjective(freeConn')
        /\ connRequests' \subseteq Clients /\ inUse' \subseteq Conns
        /\ reply' \in [Clients -> Conns \cup {None, "error", "closed"}]
        /\ cleaner' \in BOOLEAN
    BY <1>a, <1>12, <2>1, PutTypes DEF PutTaken, PutConnDBLocked
  <2>3. locked' \subseteq Conns /\ resetterCh' \in Seq(locked')
    BY <1>a, <1>12, <2>1 DEF PutTaken
  <2>4. dirty' \subseteq Conns /\ unreset' \subseteq Conns
    BY <1>a, <1>12, <2>1 DEF PutTaken
  <2>5. PICK l \in {"failed", "reset", "done"}, e \in {conn[x], None} :
          pc' = [pc EXCEPT ![x] = l] /\ conn' = [conn EXCEPT ![x] = e]
    BY <1>12 DEF PutTaken, Goto
  <2>6. UNCHANGED <<dbVars, openVars, phase, badErr, old, attempt, expired, opener,
                    resetter, resetterCh, admin, closer, closing, fate, faults>>
    BY <1>12 DEF PutTaken
  <2> QED BY <1>a, <2>1, <2>2, <2>3, <2>4, <2>5, <2>6
<1>13. ASSUME NEW x \in Clients, PutRefused(x) PROVE TypeOK'
  BY <1>a, <1>b, <1>13, DoomEffect DEF PutRefused, Goto
<1>14. ASSUME NEW x \in Clients, SendReset(x) PROVE TypeOK'
  <2>1. conn[x] \in locked /\ conn[x] \notin Range(resetterCh)
    BY <1>a, <1>14 DEF SendReset, LockInv
  <2>2. resetterCh' \in Seq(locked') /\ locked' \subseteq Conns
    <3>1. resetterCh \in Seq(locked \ {conn[x]}) /\ Append(resetterCh, conn[x]) \in Seq(locked)
      BY <1>a, <2>1, Narrow
    <3> QED BY <1>a, <1>14, <3>1 DEF SendReset, Queue
  <2>3. badErr' \subseteq Conns /\ fate' \in {"runs", "panic"}
    BY <1>a, <1>14, <2>1 DEF SendReset
  <2>4. /\ UNCHANGED pc \/ pc' = [pc EXCEPT ![x] = "done"]
        /\ UNCHANGED conn \/ conn' = [conn EXCEPT ![x] = None]
    BY <1>14 DEF SendReset, Goto
  <2>5. UNCHANGED <<dbVars, poolVars, openVars, phase, old, sessVars, attempt, expired,
                    opener, resetter, cleaner, admin, closer, closing, faults>>
    BY <1>14 DEF SendReset
  <2> QED BY <1>a, <2>2, <2>3, <2>4, <2>5
<1>15. ASSUME NEW dc \in Conns, CloseConn(dc) PROVE TypeOK'
  BY <1>a, <1>b, <1>15 DEF CloseConn
<1>16. ASSUME NEW dc \in Conns, FinalClose(dc) PROVE TypeOK'
  BY <1>a, <1>b, <1>16, MaybeOpenOK, Counted DEF FinalClose, CountAfterClose, Retry
<1>17. ASSUME NEW dc \in Conns, Ages(dc) PROVE TypeOK'
  BY <1>a, <1>17, FaultOK DEF Ages
<1>18. ASSUME OpenerTakes PROVE TypeOK'
  BY <1>a, <1>b, <1>18 DEF OpenerTakes
<1>19. ASSUME OpenerTooLate PROVE TypeOK'
  BY <1>a, <1>b, <1>19, Counted DEF OpenerTooLate
<1>20. ASSUME OpenerFails PROVE TypeOK'
  <2>1. numOpen - 1 \in Nat
    BY <1>a, <1>20, Counted DEF OpenerFails
  <2>2. /\ connRequests' \subseteq Clients /\ inUse' = inUse /\ freeConn' = freeConn
        /\ reply' \in [Clients -> Conns \cup {None, "error", "closed"}]
        /\ cleaner' = cleaner
    BY <1>a, <1>20, SqlPoolAssumption DEF OpenerFails, Deliver
  <2>3. numOpen' \in Nat /\ openerCh' \in Nat
    <3>1. PICK R \in SUBSET Clients : R = connRequests'
      BY <2>2
    <3>2. MaybeOpenNewConnections(numOpen - 1, R)
      BY <1>20, <3>1 DEF OpenerFails
    <3> QED BY <1>a, <2>1, <3>2, MaybeOpenOK
  <2>4. faults' \in 0..MaxFaults
    BY <1>a, <1>20, FaultOK DEF OpenerFails
  <2> QED BY <1>a, <1>20, <2>1, <2>2, <2>3, <2>4 DEF OpenerFails
<1>21. ASSUME OpenerConnected PROVE TypeOK'
  <2>1. CASE Left /\ PutConnDBLocked(Fresh, numOpen) /\ Create(Fresh) /\ UNCHANGED openVars
    <3>1. PICK dc \in Conns : dc = Fresh /\ phase[dc] = "none"
      BY <2>1, FreshOK
    <3>2. dc \notin Range(freeConn)
      BY <1>a, <3>1 DEF HoldInv, Idle, Held, Gone
    <3>3. /\ freeConn' \in Seq(Conns) /\ IsInjective(freeConn')
          /\ connRequests' \subseteq Clients /\ inUse' \subseteq Conns
          /\ reply' \in [Clients -> Conns \cup {None, "error", "closed"}]
          /\ cleaner' \in BOOLEAN
      BY <1>a, <2>1, <3>1, <3>2, PutTypes DEF PutConnDBLocked
    <3>4. phase' \in [Conns -> {"none", "open", "doomed", "final"}]
      BY <1>a, <2>1, <3>1 DEF Create
    <3>5. /\ UNCHANGED <<dbVars, callVars, openVars, resetter, resetterCh, admin, closer, closing,
                        fate, faults, locked, badErr, old, sessVars>>
          /\ opener' = "select"
      BY <1>21, <2>1 DEF OpenerConnected, Create
    <3> QED BY <1>a, <3>3, <3>4, <3>5
  <2>2. CASE Refused(numOpen) /\ numOpen' = numOpen - 1
             /\ UNCHANGED <<poolVars, openerCh, connVars, cleaner>>
    <3>1. numOpen - 1 \in Nat
      BY <1>a, <1>21, Counted DEF OpenerConnected
    <3> QED BY <1>a, <1>21, <2>2, <3>1 DEF OpenerConnected
  <2> QED BY <1>21, <2>1, <2>2 DEF OpenerConnected
<1>22. ASSUME OpenerExits PROVE TypeOK'
  BY <1>a, <1>b, <1>22 DEF OpenerExits
<1>23. ASSUME ResetterTakes PROVE TypeOK'
  BY <1>a, <1>b, <1>23 DEF ResetterTakes
<1>24. ASSUME ResetSession PROVE TypeOK'
  <2>1. resetter \in locked /\ resetter \notin Range(resetterCh)
    BY <1>a, <1>24 DEF ResetSession, LockInv
  <2>2. resetterCh' \in Seq(locked') /\ locked' \subseteq Conns
    BY <1>a, <1>24, <2>1, Narrow DEF ResetSession
  <2>3. faults' \in 0..MaxFaults
    BY <1>a, <1>24, FaultOK DEF ResetSession
  <2>4. badErr' \subseteq Conns /\ dirty' \subseteq Conns /\ unreset' \subseteq Conns
    BY <1>a, <1>24 DEF ResetSession
  <2> QED BY <1>a, <1>24, <2>2, <2>3, <2>4 DEF ResetSession
<1>25. ASSUME ResetterExits PROVE TypeOK'
  BY <1>a, <1>b, <1>25 DEF ResetterExits
<1>26. ASSUME CloseDB PROVE TypeOK'
  <2>1. freeConn' \in Seq(Conns) /\ IsInjective(freeConn')
    BY <1>26 DEF CloseDB, IsInjective
  <2> QED BY <1>a, <1>b, <1>26, <2>1, DoomEffect DEF CloseDB
<1>27. ASSUME CloseStops PROVE TypeOK'
  BY <1>a, <1>b, <1>27 DEF CloseStops
<1>28. ASSUME CloseLocks PROVE TypeOK'
  BY <1>a, <1>b, <1>28 DEF CloseLocks
<1>29. ASSUME Admin PROVE TypeOK'
  <2>1. ASSUME NEW n \in Nat, SetMaxIdleConns(n) PROVE TypeOK'
    <3>1. maxIdle' \in Nat /\ Least(maxIdle', Len(freeConn)) \in 0..Len(freeConn)
      BY <1>a, <2>1 DEF SetMaxIdleConns, Least
    <3>2. PICK k \in 0..Len(freeConn) : k = Least(maxIdle', Len(freeConn))
      BY <3>1
    <3>3. freeConn' = SubSeq(freeConn, 1, k) /\ Doom(Range(SubSeq(freeConn, k + 1, Len(freeConn))))
      BY <2>1, <3>2 DEF SetMaxIdleConns
    <3>4. freeConn' \in Seq(Conns) /\ IsInjective(freeConn')
      BY <1>a, <3>3, CutFacts
    <3>5. phase' \in [Conns -> {"none", "open", "doomed", "final"}]
      BY <1>a, <3>3, DoomEffect
    <3> QED BY <1>a, <2>1, <3>1, <3>4, <3>5 DEF SetMaxIdleConns
  <2>2. ASSUME NEW n \in Limits, SetMaxOpenConns(n) PROVE TypeOK'
    BY <1>a, <2>2, SqlPoolAssumption DEF SetMaxOpenConns
  <2> QED BY <1>a, <1>29, <2>1, <2>2, SqlPoolAssumption DEF Admin
<1>30. ASSUME Clean PROVE TypeOK'
  <2> DEFINE gone == Range(freeConn) \cap old
  <2>1. cleaner' \in BOOLEAN
    BY <1>30 DEF Clean
  <2>2. CASE UNCHANGED <<freeConn, phase>>
    BY <1>a, <1>30, <2>1, <2>2 DEF Clean
  <2>3. ASSUME NEW q \in SetToSeqs(Range(freeConn) \ gone), freeConn' = q, Doom(gone) PROVE TypeOK'
    <3>1. Range(freeConn) \ gone \in SUBSET Conns /\ IsFiniteSet(Range(freeConn) \ gone)
      <4>1. Range(freeConn) \ gone \in SUBSET Conns
        BY <1>b
      <4> QED BY <4>1, SqlPoolAssumption, FS_Subset
    <3>2. q \in Seq(Range(freeConn) \ gone) /\ IsInjective(q)
      BY <3>1, OrderFacts
    <3>3. freeConn' \in Seq(Conns) /\ IsInjective(freeConn')
      BY <2>3, <3>1, <3>2
    <3> QED BY <1>a, <1>30, <2>1, <2>3, <3>3, DoomEffect DEF Clean
  <2> QED BY <1>30, <2>2, <2>3 DEF Clean
<1>31. ASSUME NEW x \in Clients, CtxExpires(x) PROVE TypeOK'
  BY <1>a, <1>31, SqlPoolAssumption DEF CtxExpires
<1> QED BY <1>1, <1>2, <1>3, <1>4, <1>5, <1>6, <1>7, <1>8, <1>9, <1>10, <1>11, <1>12, <1>13, <1>14, <1>15, <1>16, <1>17, <1>18, <1>19, <1>20, <1>21, <1>22, <1>23, <1>24, <1>25, <1>26, <1>27, <1>28, <1>29, <1>30, <1>31 DEF Next, Client, Closing, Opener, Resetter, CloseGoesOn, World

-----------------------------------------------------------------------------
(* Every open connection is in one hand. *)

\* No connection changes hands.
LEMMA HoldSame ==
  ASSUME HoldInv, UNCHANGED <<freeConn, inUse>>,
         \A c \in Conns : phase'[c] = "open" <=> phase[c] = "open",
         \A c \in Conns, x \in Clients : Holding(x, c)' <=> Holding(x, c),
         \A x \in Clients : pc'[x] \in InHand => conn'[x] \in Conns
  PROVE  HoldInv'
<1> SUFFICES ASSUME NEW c \in Conns PROVE (Idle(c) \/ Held(c) \/ Gone(c))'
  BY DEF HoldInv
<1>1. Idle(c) \/ Held(c) \/ Gone(c)
  BY DEF HoldInv
<1>2. Idle(c) => Idle(c)'
  BY DEF Idle
<1>3. Held(c) => Held(c)'
  BY DEF Held
<1>4. Gone(c) => Gone(c)'
  BY DEF Gone
<1> QED BY <1>1, <1>2, <1>3, <1>4

\* Connection dc changes hands, and no other.
LEMMA HoldMove ==
  ASSUME HoldInv, NEW dc \in Conns, (Idle(dc) \/ Held(dc) \/ Gone(dc))',
         \A c \in Conns \ {dc} :
           /\ c \in Range(freeConn') <=> c \in Range(freeConn)
           /\ c \in inUse' <=> c \in inUse
           /\ phase'[c] = "open" <=> phase[c] = "open"
           /\ \A x \in Clients : Holding(x, c)' <=> Holding(x, c),
         \A x \in Clients : pc'[x] \in InHand => conn'[x] \in Conns
  PROVE  HoldInv'
<1> SUFFICES ASSUME NEW c \in Conns \ {dc} PROVE (Idle(c) \/ Held(c) \/ Gone(c))'
  BY DEF HoldInv
<1>1. Idle(c) \/ Held(c) \/ Gone(c)
  BY DEF HoldInv
<1>2. Idle(c) => Idle(c)'
  BY DEF Idle
<1>3. Held(c) => Held(c)'
  BY DEF Held
<1>4. Gone(c) => Gone(c)'
  BY DEF Gone
<1> QED BY <1>1, <1>2, <1>3, <1>4

\* The connections of S are taken from the free list to be closed.
LEMMA HoldDoom ==
  ASSUME TypeOK, HoldInv, NEW S \in SUBSET Range(freeConn), Doom(S),
         Range(freeConn') = Range(freeConn) \ S, UNCHANGED <<inUse, pc, conn>>,
         \A c \in Conns, x \in Clients : reply'[x] = c <=> reply[x] = c
  PROVE  HoldInv'
<1> SUFFICES ASSUME NEW c \in Conns PROVE (Idle(c) \/ Held(c) \/ Gone(c))'
  BY DEF HoldInv
<1>1. Idle(c) \/ Held(c) \/ Gone(c)
  BY DEF HoldInv
<1>2. \A x \in Clients : Holding(x, c)' <=> Holding(x, c)
  BY DEF Holding
<1>3. phase'[c] = IF c \in S THEN "doomed" ELSE phase[c]
  BY DoomEffect
<1>4. CASE c \in S
  BY <1>1, <1>2, <1>3, <1>4 DEF Idle, Held, Gone
<1>5. CASE c \notin S
  BY <1>1, <1>2, <1>3, <1>5 DEF Idle, Held, Gone
<1> QED BY <1>4, <1>5

\* Client x lets go of connection dc, which is closed.
LEMMA HoldDrop ==
  ASSUME IInv, TypeOK', NEW x \in Clients, NEW dc \in Conns, dc = conn[x], pc[x] \in InHand, Doom({dc}),
         UNCHANGED <<freeConn, conn, reply>>, inUse' = inUse \/ inUse' = inUse \ {dc},
         NEW l, l \notin InHand, pc' = [pc EXCEPT ![x] = l]
  PROVE  HoldInv'
<1>1. TypeOK /\ HoldInv
  BY DEF IInv
<1>2. /\ \A c \in Conns : phase'[c] = IF c = dc THEN "doomed" ELSE phase[c]
      /\ \A y \in Clients : pc'[y] = IF y = x THEN l ELSE pc[y]
  BY <1>1, DoomEffect DEF TypeOK
<1>3. Holding(x, dc)
  BY DEF Holding
<1>4. Held(dc) /\ \A y \in Clients : Holding(y, dc) => y = x
  BY <1>1, <1>3 DEF HoldInv, Idle, Held, Gone
<1>5. reply[x] \notin Conns
  BY DEF IInv, RequestInv, InHand
<1>6. Gone(dc)'
  BY <1>2, <1>3, <1>4, <1>5 DEF Held, Gone, Holding
<1>7. \A c \in Conns \ {dc} :
        /\ c \in inUse' <=> c \in inUse
        /\ phase'[c] = "open" <=> phase[c] = "open"
        /\ \A y \in Clients : Holding(y, c)' <=> Holding(y, c)
  BY <1>2, <1>5 DEF Holding
<1>8. \A y \in Clients : pc'[y] \in InHand => conn'[y] \in Conns
  BY <1>1, <1>2 DEF HoldInv
<1> QED BY <1>1, <1>6, <1>7, <1>8, HoldMove

\* Connection dc, which is not idle and held by x if it is open, is accepted by
\* putConnDBLocked; nobody holds it otherwise.
LEMMA HoldPut ==
  ASSUME IInv, TypeOK', NEW dc \in Conns, dc \notin Range(freeConn), ~closed,
         Deliver(dc) \/ Keep(dc), phase'[dc] = "open",
         \A c \in Conns \ {dc} : phase'[c] = phase[c],
         \A y \in Clients : ~(conn'[y] = dc /\ pc'[y] \in InHand) /\ reply[y] # dc,
         \A c \in Conns \ {dc}, y \in Clients :
           (conn'[y] = c /\ pc'[y] \in InHand) <=> (conn[y] = c /\ pc[y] \in InHand),
         \A y \in Clients : pc'[y] \in InHand => conn'[y] \in Conns
  PROVE  HoldInv'
<1>1. TypeOK /\ HoldInv /\ RequestInv
  BY DEF IInv
<1>2. CASE Deliver(dc)
  <2>1. PICK r \in connRequests : reply' = [reply EXCEPT ![r] = dc]
    BY <1>2 DEF Deliver
  <2>2. r \in Clients /\ reply[r] = None
    BY <1>1, <2>1 DEF RequestInv, TypeOK
  <2>3. \A y \in Clients : reply'[y] = IF y = r THEN dc ELSE reply[y]
    BY <1>1, <2>1 DEF TypeOK
  <2>4. freeConn' = freeConn /\ inUse' = inUse \cup {dc}
    BY <1>2 DEF Deliver
  <2>5. Held(dc)'
    BY <2>2, <2>3, <2>4 DEF Held, Holding
  <2>6. \A c \in Conns \ {dc}, y \in Clients : Holding(y, c)' <=> Holding(y, c)
    BY <2>2, <2>3, SqlPoolAssumption DEF Holding
  <2> QED BY <1>1, <2>4, <2>5, <2>6, HoldMove
<1>3. CASE Keep(dc)
  <2>1. reply' = reply /\ inUse' = inUse \ {dc} /\ Range(freeConn') = Range(freeConn) \cup {dc}
    BY <1>1, <1>3, AppendFacts DEF Keep, TypeOK
  <2>2. Idle(dc)'
    BY <2>1 DEF Idle, Holding
  <2>3. \A c \in Conns \ {dc}, y \in Clients : Holding(y, c)' <=> Holding(y, c)
    BY <2>1 DEF Holding
  <2> QED BY <1>1, <2>1, <2>2, <2>3, HoldMove
<1> QED BY <1>2, <1>3

LEMMA HoldStep == ASSUME IInv, TypeOK', Next PROVE HoldInv'
<1>a. TypeOK /\ HoldInv /\ RequestInv
  BY DEF IInv
<1>b. \A x \in Clients : pc[x] \in InHand => conn[x] \in Conns
  BY <1>a DEF HoldInv
<1> USE DEF dbVars, poolVars, openVars, sessVars, connVars, callVars, bgVars, vars
<1>1. CASE \/ \E x \in Clients : CtxExpires(x) \/ SendReset(x)
           \/ \E dc \in Conns : Ages(dc)
           \/ OpenerTakes \/ OpenerTooLate \/ OpenerExits \/ Resetter \/ CloseStops \/ CloseLocks
  <2>1. UNCHANGED <<freeConn, inUse, reply, phase>>
    BY <1>1 DEF CtxExpires, SendReset, Ages, OpenerTakes, OpenerTooLate, OpenerExits, Resetter,
                ResetterTakes, ResetSession, ResetterExits, CloseStops, CloseLocks
  <2>2. /\ \A x \in Clients : pc'[x] \in InHand <=> pc[x] \in InHand
        /\ \A x \in Clients : pc[x] \in InHand => conn'[x] = conn[x]
    BY <1>a, <1>1 DEF CtxExpires, SendReset, Ages, OpenerTakes, OpenerTooLate, OpenerExits, Resetter,
                ResetterTakes, ResetSession, ResetterExits, CloseStops, CloseLocks, Goto, TypeOK, InHand
  <2> QED BY <1>a, <1>b, <2>1, <2>2, HoldSame DEF Holding
<1>2. ASSUME NEW x \in Clients, ConnRefuse(x) \/ ConnOpen(x) \/ ConnectFails(x) \/ GiveUp(x) PROVE HoldInv'
  <2>1. /\ UNCHANGED <<freeConn, inUse, reply, phase, conn>> /\ pc[x] \notin InHand
        /\ \E l : l \notin InHand /\ pc' = [pc EXCEPT ![x] = l]
    BY <1>a, <1>2, FailsOK DEF ConnRefuse, ConnOpen, ConnectFails, GiveUp, Goto, InHand
  <2>2. \A y \in Clients : pc'[y] \in InHand <=> pc[y] \in InHand
    BY <1>a, <2>1 DEF TypeOK
  <2> QED BY <1>a, <1>b, <2>1, <2>2, HoldSame DEF Holding
<1>3. ASSUME NEW x \in Clients, ConnRequest(x) PROVE HoldInv'
  <2>1. /\ \A y \in Clients : pc'[y] = IF y = x THEN "wait" ELSE pc[y]
        /\ \A y \in Clients : reply'[y] = IF y = x THEN None ELSE reply[y]
        /\ UNCHANGED <<freeConn, inUse, phase, conn>> /\ pc[x] = "conn"
    BY <1>a, <1>3 DEF ConnRequest, Goto, TypeOK
  <2>2. reply[x] \notin Conns /\ None \notin Conns
    BY <1>a, <2>1, SqlPoolAssumption DEF RequestInv
  <2>3. \A c \in Conns, y \in Clients : Holding(y, c)' <=> Holding(y, c)
    BY <2>1, <2>2 DEF Holding, InHand
  <2>4. \A y \in Clients : pc'[y] \in InHand => conn'[y] \in Conns
    BY <1>b, <2>1 DEF InHand
  <2> QED BY <1>a, <2>1, <2>3, <2>4, HoldSame
<1>4. ASSUME NEW x \in Clients, ConnCached(x) PROVE HoldInv'
  <2>1. PICK dc \in Conns : /\ dc = Head(freeConn) /\ dc \in Range(freeConn)
                            /\ Range(Tail(freeConn)) = Range(freeConn) \ {dc}
    BY <1>a, <1>4, TailFacts DEF ConnCached, Cached, TypeOK
  <2>2. /\ \A y \in Clients : pc'[y] = IF y = x THEN "cached" ELSE pc[y]
        /\ \A y \in Clients : conn'[y] = IF y = x THEN dc ELSE conn[y]
        /\ UNCHANGED <<phase, reply>> /\ pc[x] = "conn"
        /\ inUse' = inUse \cup {dc} /\ Range(freeConn') = Range(freeConn) \ {dc}
    BY <1>a, <1>4, <2>1 DEF ConnCached, Goto, TypeOK
  <2>3. Idle(dc)
    BY <1>a, <2>1 DEF HoldInv, Held, Gone
  <2>4. Held(dc)'
    BY <2>2, <2>3 DEF Idle, Held, Holding, InHand
  <2>5. \A c \in Conns \ {dc}, y \in Clients : Holding(y, c)' <=> Holding(y, c)
    BY <2>2 DEF Holding, InHand
  <2>6. \A y \in Clients : pc'[y] \in InHand => conn'[y] \in Conns
    BY <1>b, <2>2
  <2> QED BY <1>a, <2>2, <2>4, <2>5, <2>6, HoldMove
<1>5. ASSUME NEW x \in Clients, Connected(x) PROVE HoldInv'
  <2>1. PICK dc \in Conns : dc = Fresh /\ phase[dc] = "none"
    BY <1>5, FreshOK DEF Connected
  <2>2. /\ \A y \in Clients : pc'[y] = IF y = x THEN "use" ELSE pc[y]
        /\ \A y \in Clients : conn'[y] = IF y = x THEN dc ELSE conn[y]
        /\ \A c \in Conns : phase'[c] = IF c = dc THEN "open" ELSE phase[c]
        /\ UNCHANGED <<freeConn, reply>> /\ pc[x] = "connect" /\ inUse' = inUse \cup {dc}
    BY <1>a, <1>5, <2>1 DEF Connected, Create, Goto, TypeOK
  <2>3. Gone(dc)
    BY <1>a, <2>1 DEF HoldInv, Idle, Held
  <2>4. Held(dc)'
    BY <2>2, <2>3 DEF Gone, Held, Holding, InHand
  <2>5. \A c \in Conns \ {dc}, y \in Clients : Holding(y, c)' <=> Holding(y, c)
    BY <2>2 DEF Holding, InHand
  <2>6. \A y \in Clients : pc'[y] \in InHand => conn'[y] \in Conns
    BY <1>b, <2>2
  <2> QED BY <1>a, <2>2, <2>4, <2>5, <2>6, HoldMove
<1>6. ASSUME NEW x \in Clients, Receive(x) \/ LastLook(x) PROVE HoldInv'
  <2>1. PICK l \in InHand, k \in {"conn", "failed"} :
        /\ \A y \in Clients : pc'[y] = IF y = x THEN IF reply[x] \in Conns THEN l ELSE k ELSE pc[y]
        /\ \A y \in Clients : conn'[y] = IF y = x THEN IF reply[x] \in Conns THEN reply[x] ELSE None ELSE conn[y]
        /\ \A y \in Clients : reply'[y] = IF y = x THEN None ELSE reply[y]
        /\ UNCHANGED <<freeConn, inUse, phase>> /\ pc[x] \in {"wait", "giveup"}
    <3>1. DOMAIN pc = Clients /\ DOMAIN conn = Clients /\ DOMAIN reply = Clients
          /\ pc = [y \in Clients |-> pc[y]] /\ conn = [y \in Clients |-> conn[y]]
          /\ reply = [y \in Clients |-> reply[y]]
          /\ "error" \notin Conns /\ "closed" \notin Conns
      BY <1>a, SqlPoolAssumption DEF TypeOK
    <3>2. CASE Receive(x)
      <4>1. reply[x] \in Conns => Goto(x, "cached")
        BY <3>1, <3>2 DEF Receive
      <4>2. reply[x] \notin Conns => \E k \in {"conn", "failed"} : Goto(x, k)
        BY <1>a, <3>1, <3>2, FailsOK DEF Receive, Goto
      <4> QED BY <3>1, <3>2, <4>1, <4>2 DEF Receive, Goto, InHand
    <3>3. CASE LastLook(x)
      BY <3>1, <3>3 DEF LastLook, Goto, InHand
    <3> QED BY <1>6, <3>2, <3>3
  <2>2. \A c \in Conns, y \in Clients : Holding(y, c)' <=> Holding(y, c)
    BY <2>1, SqlPoolAssumption DEF Holding, InHand
  <2>3. \A y \in Clients : pc'[y] \in InHand => conn'[y] \in Conns
    BY <1>b, <2>1 DEF InHand
  <2> QED BY <1>a, <2>1, <2>2, <2>3, HoldSame
<1>7. ASSUME NEW x \in Clients, Check(x) PROVE HoldInv'
  <2>1. pc[x] = "cached" /\ UNCHANGED <<freeConn, inUse, conn, reply>>
    BY <1>7 DEF Check
  <2>2. conn[x] \in Conns
    BY <1>b, <2>1 DEF InHand
  <2>3. CASE Doom({conn[x]}) /\ Goto(x, "discard")
    BY <2>1, <2>2, <2>3, HoldDrop DEF Goto, InHand
  <2>4. CASE Goto(x, "use") /\ UNCHANGED phase
    <3>1. \A y \in Clients : pc'[y] \in InHand <=> pc[y] \in InHand
      BY <1>a, <2>1, <2>4 DEF Goto, TypeOK, InHand
    <3> QED BY <1>a, <1>b, <2>1, <2>4, <3>1, HoldSame DEF Holding
  <2> QED BY <1>7, <2>3, <2>4 DEF Check
<1>8. ASSUME NEW x \in Clients, PutBad(x) \/ PutRefused(x) PROVE HoldInv'
  <2>1. /\ pc[x] \in InHand /\ UNCHANGED <<freeConn, conn, reply>> /\ inUse' = inUse \ {conn[x]}
        /\ Doom({conn[x]})
        /\ \E l \in {"discard", "closing", "dropping"} : pc' = [pc EXCEPT ![x] = l]
    BY <1>8 DEF PutBad, PutRefused, Goto, InHand
  <2>2. conn[x] \in Conns
    BY <1>b, <2>1
  <2> QED BY <2>1, <2>2, HoldDrop DEF InHand
<1>9. ASSUME NEW x \in Clients, PutTaken(x) PROVE HoldInv'
  <2>1. PICK dc \in Conns : dc = conn[x]
    BY <1>b, <1>9 DEF PutTaken, InHand
  <2>2. PICK l \in {"done", "failed", "reset"}, e \in {dc, None} :
        /\ \A y \in Clients : pc'[y] = IF y = x THEN l ELSE pc[y]
        /\ \A y \in Clients : conn'[y] = IF y = x THEN e ELSE conn[y]
        /\ UNCHANGED phase /\ pc[x] \in InHand /\ ~closed /\ (Deliver(dc) \/ Keep(dc))
    BY <1>a, <1>9, <2>1 DEF PutTaken, PutConnDBLocked, Accepts, Resets, Goto, TypeOK, InHand
  <2>3. Holding(x, dc)
    BY <2>1, <2>2 DEF Holding
  <2>4. Held(dc) /\ \A y \in Clients : Holding(y, dc) => y = x
    BY <1>a, <2>3 DEF HoldInv, Idle, Held, Gone
  <2>5. reply[x] \notin Conns
    BY <1>a, <2>2 DEF RequestInv, InHand
  <2>6. \A y \in Clients : ~(conn'[y] = dc /\ pc'[y] \in InHand) /\ reply[y] # dc
    BY <2>2, <2>4, <2>5 DEF Holding, InHand
  <2>7. \A c \in Conns \ {dc}, y \in Clients :
           (conn'[y] = c /\ pc'[y] \in InHand) <=> (conn[y] = c /\ pc[y] \in InHand)
    BY <2>1, <2>2 DEF InHand
  <2>8. \A y \in Clients : pc'[y] \in InHand => conn'[y] \in Conns
    BY <1>b, <2>2 DEF InHand
  <2> QED BY <2>2, <2>4, <2>6, <2>7, <2>8, HoldPut DEF Held
<1>10. ASSUME NEW dc \in Conns, CloseConn(dc) PROVE HoldInv'
  <2>1. /\ \A c \in Conns : phase'[c] = "open" <=> phase[c] = "open"
        /\ UNCHANGED <<freeConn, inUse, reply, pc, conn>>
    BY <1>a, <1>10 DEF CloseConn, TypeOK
  <2> QED BY <1>a, <1>b, <2>1, HoldSame DEF Holding
<1>11. ASSUME NEW dc \in Conns, FinalClose(dc) PROVE HoldInv'
  <2>1. /\ \A c \in Conns : phase'[c] = "open" <=> phase[c] = "open"
        /\ UNCHANGED <<freeConn, inUse, reply>>
    BY <1>a, <1>11 DEF FinalClose, TypeOK
  <2>2. \A y \in Clients : IF pc[y] \in InHand THEN pc'[y] = pc[y] /\ conn'[y] = conn[y] ELSE pc'[y] \notin InHand
    BY <1>11 DEF FinalClose, Retry, InHand
  <2> QED BY <1>a, <1>b, <2>1, <2>2, HoldSame DEF Holding
<1>12. ASSUME OpenerFails PROVE HoldInv'
  <2>1. UNCHANGED <<freeConn, inUse, pc, conn, phase>>
    BY <1>12, SqlPoolAssumption DEF OpenerFails, Deliver
  <2>2. \A c \in Conns, y \in Clients : reply'[y] = c <=> reply[y] = c
    <3>1. CASE Accepts(numOpen - 1) /\ Deliver("error")
      <4>1. PICK r \in connRequests : reply' = [reply EXCEPT ![r] = "error"]
        BY <3>1 DEF Deliver
      <4>2. r \in Clients /\ reply[r] = None
        BY <1>a, <3>1, <4>1 DEF RequestInv, TypeOK, Accepts
      <4>3. \A y \in Clients : reply'[y] = IF y = r THEN "error" ELSE reply[y]
        BY <1>a, <4>1 DEF TypeOK
      <4> QED BY <4>2, <4>3, SqlPoolAssumption
    <3> QED BY <1>12, <3>1 DEF OpenerFails
  <2> QED BY <1>a, <1>b, <2>1, <2>2, HoldSame DEF Holding
<1>13. ASSUME OpenerConnected PROVE HoldInv'
  <2>1. CASE Left /\ PutConnDBLocked(Fresh, numOpen) /\ Create(Fresh)
    <3>1. PICK dc \in Conns : dc = Fresh /\ phase[dc] = "none"
      BY <2>1, FreshOK
    <3>2. UNCHANGED <<pc, conn>> /\ ~closed /\ (Deliver(dc) \/ Keep(dc))
      BY <1>13, <2>1, <3>1 DEF OpenerConnected, PutConnDBLocked
    <3>3. \A c \in Conns : phase'[c] = IF c = dc THEN "open" ELSE phase[c]
      BY <1>a, <2>1, <3>1 DEF Create, TypeOK
    <3>4. Gone(dc)
      BY <1>a, <3>1 DEF HoldInv, Idle, Held
    <3>5. \A y \in Clients : ~(conn[y] = dc /\ pc[y] \in InHand) /\ reply[y] # dc
      BY <3>4 DEF Gone, Holding
    <3> QED BY <1>b, <3>2, <3>3, <3>4, <3>5, HoldPut DEF Gone
  <2>2. CASE UNCHANGED <<poolVars, connVars>>
    <3>1. UNCHANGED <<pc, conn>>
      BY <1>13 DEF OpenerConnected
    <3> QED BY <1>a, <1>b, <2>2, <3>1, HoldSame DEF Holding
  <2> QED BY <1>13, <2>1, <2>2 DEF OpenerConnected
<1>14. ASSUME CloseDB PROVE HoldInv'
  <2>1. /\ UNCHANGED <<inUse, pc, conn>> /\ Doom(Range(freeConn)) /\ freeConn' = <<>> /\ ~closed
        /\ reply' = [x \in Clients |-> IF x \in connRequests THEN "closed" ELSE reply[x]]
    BY <1>a, <1>14 DEF CloseDB, RequestInv
  <2>2. Range(freeConn') = Range(freeConn) \ Range(freeConn)
    BY <2>1 DEF Range
  <2>3. \A c \in Conns, x \in Clients : reply'[x] = c <=> reply[x] = c
    BY <1>a, <2>1, SqlPoolAssumption DEF RequestInv
  <2>4. PICK S : S = Range(freeConn)
    OBVIOUS
  <2> QED BY <1>a, <2>1, <2>2, <2>3, <2>4, HoldDoom
<1>15. ASSUME Admin PROVE HoldInv'
  <2>1. ASSUME NEW n \in Nat, SetMaxIdleConns(n) PROVE HoldInv'
    <3>1. PICK k \in 0..Len(freeConn) :
            freeConn' = SubSeq(freeConn, 1, k) /\ Doom(Range(SubSeq(freeConn, k + 1, Len(freeConn))))
      <4>1. Least(maxIdle', Len(freeConn)) \in 0..Len(freeConn)
        BY <1>a, <2>1 DEF SetMaxIdleConns, Least, TypeOK
      <4>2. PICK k \in 0..Len(freeConn) : k = Least(maxIdle', Len(freeConn))
        BY <4>1
      <4> QED BY <2>1, <4>2 DEF SetMaxIdleConns
    <3>2. PICK S : S = Range(SubSeq(freeConn, k + 1, Len(freeConn)))
      OBVIOUS
    <3>3. Doom(S) /\ S \in SUBSET Range(freeConn) /\ Range(freeConn') = Range(freeConn) \ S
      <4>1. LET a == SubSeq(freeConn, 1, k)
                b == SubSeq(freeConn, k + 1, Len(freeConn))
            IN Range(a) \cap Range(b) = {} /\ Range(a) \cup Range(b) = Range(freeConn)
        BY <1>a, CutFacts DEF TypeOK
      <4> QED BY <3>1, <3>2, <4>1
    <3>4. UNCHANGED <<inUse, pc, conn, reply>>
      BY <2>1 DEF SetMaxIdleConns
    <3> QED BY <1>a, <3>3, <3>4, HoldDoom
  <2>2. ASSUME NEW n \in Limits, SetMaxOpenConns(n) PROVE HoldInv'
    <3>1. UNCHANGED <<freeConn, inUse, pc, conn, reply, phase>>
      BY <2>2 DEF SetMaxOpenConns
    <3> QED BY <1>a, <1>b, <3>1, HoldSame DEF Holding
  <2> QED BY <1>a, <1>15, <2>1, <2>2, SqlPoolAssumption DEF Admin, TypeOK
<1>16. ASSUME Clean PROVE HoldInv'
  <2>1. UNCHANGED <<inUse, pc, conn, reply>>
    BY <1>16 DEF Clean
  <2>2. CASE UNCHANGED <<freeConn, phase>>
    BY <1>a, <1>b, <2>1, <2>2, HoldSame DEF Holding
  <2>3. ASSUME NEW S, S = Range(freeConn) \cap old, Doom(S),
               NEW q \in SetToSeqs(Range(freeConn) \ S), freeConn' = q
        PROVE  HoldInv'
    <3>1. Range(freeConn) \ S \in SUBSET Conns
      BY <1>a, RangeIn DEF TypeOK
    <3>2. IsFiniteSet(Range(freeConn) \ S)
      BY <3>1, SqlPoolAssumption, FS_Subset
    <3>3. Range(freeConn') = Range(freeConn) \ S
      BY <2>3, <3>2, OrderFacts
    <3> QED BY <1>a, <2>1, <2>3, <3>3, HoldDoom
  <2> QED BY <1>16, <2>2, <2>3 DEF Clean
<1> QED
  BY <1>1, <1>2, <1>3, <1>4, <1>5, <1>6, <1>7, <1>8, <1>9, <1>10, <1>11, <1>12, <1>13, <1>14, <1>15, <1>16
  DEF Next, Client, Closing, Opener, CloseGoesOn, World

-----------------------------------------------------------------------------
(* The requests. *)

\* Nothing is sent and nobody joins or leaves the line.
LEMMA RequestSame ==
  ASSUME RequestInv, UNCHANGED <<closed, connRequests, reply>>,
         closer' \in {"idle", "locked"} <=> closer \in {"idle", "locked"},
         \A y \in Clients : pc[y] \in {"wait", "giveup"} => pc'[y] = pc[y]
  PROVE  RequestInv'
  BY DEF RequestInv

\* Connection or error e is sent to a request.
LEMMA RequestServed ==
  ASSUME TypeOK, RequestInv, UNCHANGED <<closed, closer>>, NEW e, Deliver(e), ~closed,
         \A y \in Clients : pc[y] \in {"wait", "giveup"} => pc'[y] = pc[y]
  PROVE  RequestInv'
<1>1. PICK r \in connRequests : connRequests' = connRequests \ {r} /\ reply' = [reply EXCEPT ![r] = e]
  BY DEF Deliver
<1>2. \A y \in Clients : reply'[y] = IF y = r THEN e ELSE reply[y]
  BY <1>1 DEF TypeOK
<1> QED BY <1>1, <1>2 DEF RequestInv, TypeOK

LEMMA RequestStep == ASSUME IInv, TypeOK', Next PROVE RequestInv'
<1>a. TypeOK /\ RequestInv
  BY DEF IInv
<1> USE DEF dbVars, poolVars, openVars, sessVars, connVars, callVars, bgVars, vars
<1>1. CASE \/ \E x \in Clients : CtxExpires(x) \/ SendReset(x)
           \/ \E dc \in Conns : Ages(dc) \/ CloseConn(dc) \/ FinalClose(dc)
           \/ OpenerTakes \/ OpenerTooLate \/ OpenerExits \/ Resetter \/ Clean \/ Admin
  <2>1. UNCHANGED <<closed, connRequests, reply, closer>>
    BY <1>1 DEF CtxExpires, SendReset, Ages, CloseConn, FinalClose, OpenerTakes, OpenerTooLate, OpenerExits,
                Resetter, ResetterTakes, ResetSession, ResetterExits, Clean, Admin, SetMaxIdleConns, SetMaxOpenConns
  <2>2. pc' = pc \/ (\E x \in Clients : SendReset(x)) \/ (\E dc \in Conns : FinalClose(dc))
    BY <1>1 DEF CtxExpires, Ages, CloseConn, OpenerTakes, OpenerTooLate, OpenerExits, Resetter,
                ResetterTakes, ResetSession, ResetterExits, Clean, Admin, SetMaxIdleConns, SetMaxOpenConns
  <2>3. \A y \in Clients : pc[y] \in {"wait", "giveup"} => pc'[y] = pc[y]
    <3>1. ASSUME NEW dc \in Conns, FinalClose(dc), NEW y \in Clients, pc[y] \in {"wait", "giveup"}
          PROVE  pc'[y] = pc[y]
      BY <3>1 DEF FinalClose
    <3>2. ASSUME NEW x \in Clients, SendReset(x), NEW y \in Clients, pc[y] \in {"wait", "giveup"}
          PROVE  pc'[y] = pc[y]
      BY <1>a, <3>2 DEF SendReset, Goto, TypeOK
    <3> QED BY <2>2, <3>1, <3>2
  <2> QED BY <1>a, <2>1, <2>3, RequestSame
<1>2. ASSUME NEW x \in Clients,
             \/ ConnRefuse(x) \/ ConnCached(x) \/ ConnOpen(x) \/ ConnectFails(x) \/ Connected(x)
             \/ Check(x) \/ PutBad(x) \/ PutRefused(x)
      PROVE  RequestInv'
  <2>1. /\ UNCHANGED <<closed, connRequests, reply, closer>> /\ pc[x] \notin {"wait", "giveup"}
        /\ \E l : Goto(x, l)
    BY <1>a, <1>2, FailsGoto
    DEF ConnRefuse, ConnCached, ConnOpen, ConnectFails, Connected, Check, PutBad, PutRefused
  <2> QED BY <1>a, <2>1, RequestSame DEF Goto, TypeOK
<1>3. ASSUME NEW x \in Clients, ConnRequest(x) PROVE RequestInv'
  <2>1. /\ \A y \in Clients : pc'[y] = IF y = x THEN "wait" ELSE pc[y]
        /\ \A y \in Clients : reply'[y] = IF y = x THEN None ELSE reply[y]
    BY <1>a, <1>3 DEF ConnRequest, Goto, TypeOK
  <2>2. connRequests' = connRequests \cup {x} /\ UNCHANGED <<closed, closer>>
    BY <1>3 DEF ConnRequest
  <2> QED BY <1>a, <2>1, <2>2, SqlPoolAssumption DEF RequestInv
<1>4. ASSUME NEW x \in Clients, Receive(x) \/ LastLook(x) PROVE RequestInv'
  <2>1. /\ \A y \in Clients : y # x => pc'[y] = pc[y]
        /\ \A y \in Clients : reply'[y] = IF y = x THEN None ELSE reply[y]
        /\ UNCHANGED <<connRequests, closed, closer>>
    <3>1. (\E l : Goto(x, l)) /\ reply' = [reply EXCEPT ![x] = None]
          /\ UNCHANGED <<connRequests, closed, closer>>
      BY <1>a, <1>4, FailsGoto DEF Receive, LastLook
    <3> QED BY <1>a, <3>1 DEF Goto, TypeOK
  <2>2. ~closed => x \notin connRequests
    BY <1>a, <1>4 DEF Receive, LastLook, RequestInv
  <2> QED BY <1>a, <2>1, <2>2, SqlPoolAssumption DEF RequestInv
<1>5. ASSUME NEW x \in Clients, GiveUp(x) PROVE RequestInv'
  <2>1. /\ \A y \in Clients : pc'[y] = IF y = x THEN "giveup" ELSE pc[y]
        /\ connRequests' = connRequests \ {x}
        /\ UNCHANGED <<reply, closed, closer>>
    BY <1>a, <1>5 DEF GiveUp, Goto, TypeOK
  <2> QED BY <1>a, <2>1 DEF RequestInv
<1>6. ASSUME NEW x \in Clients, PutTaken(x) PROVE RequestInv'
  <2>1. /\ UNCHANGED <<closed, closer>> /\ ~closed
        /\ \A y \in Clients : pc[y] \in {"wait", "giveup"} => pc'[y] = pc[y]
    BY <1>a, <1>6 DEF PutTaken, PutConnDBLocked, Accepts, Goto, TypeOK
  <2>2. CASE Deliver(conn[x])
    BY <1>a, <2>1, <2>2, RequestServed
  <2>3. CASE Keep(conn[x])
    BY <1>a, <2>1, <2>3, RequestSame DEF Keep
  <2> QED BY <1>6, <2>2, <2>3 DEF PutTaken, PutConnDBLocked
<1>7. ASSUME OpenerFails \/ OpenerConnected PROVE RequestInv'
  <2>1. UNCHANGED <<closed, closer, pc>> /\ ~closed
    BY <1>7 DEF OpenerFails, OpenerConnected
  <2>2. ASSUME NEW e, Deliver(e) PROVE RequestInv'
    BY <1>a, <2>1, <2>2, RequestServed
  <2>3. ASSUME NEW e, Keep(e) PROVE RequestInv'
    BY <1>a, <2>1, <2>3, RequestSame DEF Keep
  <2>4. CASE UNCHANGED poolVars
    BY <1>a, <2>1, <2>4, RequestSame
  <2> QED BY <1>7, <2>2, <2>3, <2>4 DEF OpenerFails, OpenerConnected, PutConnDBLocked
<1>8. ASSUME CloseDB PROVE RequestInv'
  <2>1. /\ UNCHANGED <<pc, connRequests>> /\ closed' = TRUE /\ closer' = "closing"
        /\ reply' = [x \in Clients |-> IF x \in connRequests THEN "closed" ELSE reply[x]]
    BY <1>8 DEF CloseDB
  <2> QED BY <1>a, <2>1, SqlPoolAssumption DEF RequestInv
<1>9. ASSUME CloseStops \/ CloseLocks PROVE RequestInv'
  <2>1. /\ UNCHANGED <<closed, connRequests, reply, pc>>
        /\ closer' \in {"idle", "locked"} <=> closer \in {"idle", "locked"}
    BY <1>9 DEF CloseStops, CloseLocks
  <2> QED BY <1>a, <2>1, RequestSame
<1> QED
  BY <1>1, <1>2, <1>3, <1>4, <1>5, <1>6, <1>7, <1>8, <1>9
  DEF Next, Client, Closing, Opener, CloseGoesOn, World

\* Nobody joins the line and nothing becomes idle.
LEMMA IdleSame ==
  ASSUME NoneIdleWhileWaiting, TypeOK, connRequests' \subseteq connRequests, closed => closed',
         freeConn = <<>> => freeConn' = <<>>,
         \A y \in Clients : ~closed /\ y \in connRequests => attempt'[y] = attempt[y]
  PROVE  NoneIdleWhileWaiting'
  BY DEF NoneIdleWhileWaiting, TypeOK

\* A connection becomes idle only when there is no request.
LEMMA IdlePut ==
  ASSUME NoneIdleWhileWaiting, TypeOK, NEW e, Deliver(e) \/ Keep(e), UNCHANGED <<closed, attempt>>
  PROVE  NoneIdleWhileWaiting'
<1>1. CASE Deliver(e)
  BY <1>1, IdleSame DEF Deliver
<1>2. CASE Keep(e)
  BY <1>2 DEF Keep, NoneIdleWhileWaiting
<1> QED BY <1>1, <1>2

LEMMA IdleStep == ASSUME IInv, TypeOK', Next PROVE NoneIdleWhileWaiting'
<1>a. TypeOK /\ RequestInv /\ NoneIdleWhileWaiting
  BY DEF IInv
<1> USE DEF dbVars, poolVars, openVars, sessVars, connVars, callVars, bgVars, vars
<1>1. CASE \/ \E x \in Clients : CtxExpires(x) \/ SendReset(x)
           \/ \E dc \in Conns : Ages(dc) \/ CloseConn(dc)
           \/ OpenerTakes \/ OpenerTooLate \/ OpenerExits \/ Resetter \/ CloseStops \/ CloseLocks
  <2>1. UNCHANGED <<closed, connRequests, freeConn, attempt>>
    BY <1>1 DEF CtxExpires, SendReset, Ages, CloseConn, OpenerTakes, OpenerTooLate, OpenerExits,
                Resetter, ResetterTakes, ResetSession, ResetterExits, CloseStops, CloseLocks
  <2> QED BY <1>a, <2>1, IdleSame
<1>2. ASSUME NEW x \in Clients,
             \/ ConnRefuse(x) \/ ConnOpen(x) \/ ConnectFails(x) \/ Connected(x) \/ Receive(x) \/ GiveUp(x)
             \/ LastLook(x) \/ Check(x) \/ PutBad(x) \/ PutRefused(x)
      PROVE  NoneIdleWhileWaiting'
  <2>1. UNCHANGED <<closed, freeConn>> /\ connRequests' \subseteq connRequests
    BY <1>2 DEF ConnRefuse, ConnOpen, ConnectFails, Connected, Receive, GiveUp, LastLook, Check, PutBad, PutRefused
  <2>2. CASE UNCHANGED attempt
    BY <1>a, <2>1, <2>2, IdleSame
  <2>3. CASE Fails(x) /\ (pc[x] = "connect" \/ reply[x] # None)
    <3>1. ~closed => x \notin connRequests
      BY <1>a, <2>3 DEF RequestInv
    <3>2. \A y \in Clients : y # x => attempt'[y] = attempt[y]
      BY <1>a, <2>3, FailsOK DEF TypeOK
    <3> QED BY <1>a, <2>1, <3>1, <3>2, IdleSame
  <2> QED BY <1>2, <2>2, <2>3 DEF ConnRefuse, ConnOpen, ConnectFails, Connected, Receive, GiveUp,
                                  LastLook, Check, PutBad, PutRefused
<1>3. ASSUME NEW x \in Clients, ConnCached(x) PROVE NoneIdleWhileWaiting'
  BY <1>a, <1>3 DEF ConnCached, Cached, NoneIdleWhileWaiting
<1>4. ASSUME NEW x \in Clients, ConnRequest(x) PROVE NoneIdleWhileWaiting'
  <2>1. attempt[x] \in 0..maxBadConnRetries /\ maxBadConnRetries \in Nat
    BY <1>a DEF TypeOK, maxBadConnRetries
  <2>2. attempt[x] = maxBadConnRetries \/ freeConn = <<>>
    BY <1>4, <2>1 DEF ConnRequest, Cached
  <2>3. connRequests' = connRequests \cup {x} /\ UNCHANGED <<closed, freeConn, attempt>>
    BY <1>4 DEF ConnRequest
  <2> QED BY <1>a, <2>2, <2>3 DEF NoneIdleWhileWaiting
<1>5. ASSUME NEW x \in Clients, PutTaken(x) PROVE NoneIdleWhileWaiting'
  BY <1>a, <1>5, IdlePut DEF PutTaken, PutConnDBLocked
<1>6. ASSUME NEW dc \in Conns, FinalClose(dc) PROVE NoneIdleWhileWaiting'
  <2>1. UNCHANGED <<closed, connRequests, freeConn>>
    BY <1>6 DEF FinalClose
  <2>2. \A y \in Clients : ~closed /\ y \in connRequests => attempt'[y] = attempt[y]
    BY <1>a, <1>6 DEF FinalClose, RequestInv
  <2> QED BY <1>a, <2>1, <2>2, IdleSame
<1>7. ASSUME OpenerFails \/ OpenerConnected PROVE NoneIdleWhileWaiting'
  <2>1. UNCHANGED <<closed, attempt>>
    BY <1>7 DEF OpenerFails, OpenerConnected
  <2>2. ASSUME NEW e, Deliver(e) \/ Keep(e) PROVE NoneIdleWhileWaiting'
    BY <1>a, <2>1, <2>2, IdlePut
  <2>3. CASE UNCHANGED poolVars
    BY <1>a, <2>1, <2>3, IdleSame
  <2> QED BY <1>7, <2>2, <2>3 DEF OpenerFails, OpenerConnected, PutConnDBLocked
<1>8. ASSUME CloseDB PROVE NoneIdleWhileWaiting'
  BY <1>8 DEF CloseDB, NoneIdleWhileWaiting
<1>9. ASSUME Admin PROVE NoneIdleWhileWaiting'
  <2>1. UNCHANGED <<closed, connRequests, attempt>>
    BY <1>9 DEF Admin, SetMaxIdleConns, SetMaxOpenConns
  <2>2. freeConn = <<>> => freeConn' = <<>>
    <3>1. ASSUME NEW n \in Nat, SetMaxIdleConns(n), freeConn = <<>> PROVE freeConn' = <<>>
      <4>1. Len(freeConn) = 0 /\ maxOpen \in Nat
        BY <1>a, <3>1 DEF TypeOK
      <4>2. PICK k \in Nat : k = Least(maxIdle', 0) /\ maxIdle' \in Nat
        BY <3>1, <4>1 DEF SetMaxIdleConns, Least
      <4>3. k = 0
        BY <4>2 DEF Least
      <4>4. freeConn' = SubSeq(freeConn, 1, k)
        BY <3>1, <4>1, <4>2 DEF SetMaxIdleConns
      <4> QED BY <1>a, <3>1, <4>3, <4>4
    <3> QED BY <1>a, <1>9, <3>1, SqlPoolAssumption DEF Admin, SetMaxOpenConns, TypeOK
  <2> QED BY <1>a, <2>1, <2>2, IdleSame
<1>10. ASSUME Clean PROVE NoneIdleWhileWaiting'
  <2>1. UNCHANGED <<closed, connRequests, attempt>>
    BY <1>10 DEF Clean
  <2>2. freeConn = <<>> => Range(freeConn) = {}
    BY DEF Range
  <2>3. freeConn = <<>> => freeConn' = <<>>
    BY <1>10, <2>2 DEF Clean
  <2> QED BY <1>a, <2>1, <2>3, IdleSame
<1> QED
  BY <1>1, <1>2, <1>3, <1>4, <1>5, <1>6, <1>7, <1>8, <1>9, <1>10
  DEF Next, Client, Closing, Opener, CloseGoesOn, World

-----------------------------------------------------------------------------
(* The lock for the reset, and used connections. *)

LEMMA LockSame ==
  ASSUME LockInv, UNCHANGED <<locked, resetterCh, resetter>>,
         \A c \in locked : phase[c] \in {"open", "doomed"} => phase'[c] \in {"open", "doomed"},
         \A y \in Clients : pc'[y] = "reset" => pc[y] = "reset" /\ conn'[y] = conn[y]
  PROVE  LockInv'
  BY DEF LockInv, Resetting

LEMMA LockStep == ASSUME IInv, TypeOK', Next PROVE LockInv'
<1>a. TypeOK /\ LockInv /\ HoldInv
  BY DEF IInv
<1>b. Range(resetterCh) \in SUBSET locked /\ locked \in SUBSET Conns
  BY <1>a, RangeIn DEF TypeOK
<1> USE DEF dbVars, poolVars, openVars, sessVars, connVars, callVars, bgVars, vars
<1>1. CASE \/ \E x \in Clients : CtxExpires(x)
           \/ \E dc \in Conns : Ages(dc)
           \/ OpenerTakes \/ OpenerTooLate \/ OpenerExits \/ OpenerFails \/ CloseStops \/ CloseLocks
  <2>1. UNCHANGED <<locked, resetterCh, resetter, phase, pc, conn>>
    BY <1>1 DEF CtxExpires, Ages, OpenerTakes, OpenerTooLate, OpenerExits, OpenerFails, CloseStops, CloseLocks
  <2> QED BY <1>a, <2>1, LockSame
<1>2. ASSUME NEW x \in Clients,
             \/ ConnRefuse(x) \/ ConnCached(x) \/ ConnRequest(x) \/ ConnOpen(x) \/ ConnectFails(x)
             \/ Receive(x) \/ GiveUp(x) \/ LastLook(x)
      PROVE  LockInv'
  <2>1. UNCHANGED <<locked, resetterCh, resetter, phase>>
    BY <1>2 DEF ConnRefuse, ConnCached, ConnRequest, ConnOpen, ConnectFails, Receive, GiveUp, LastLook
  <2>2. /\ \E l : l # "reset" /\ Goto(x, l)
        /\ conn' = conn \/ \E e : conn' = [conn EXCEPT ![x] = e]
    BY <1>a, <1>2, FailsGoto
    DEF ConnRefuse, ConnCached, ConnRequest, ConnOpen, ConnectFails, Receive, GiveUp, LastLook
  <2>3. \A y \in Clients : pc'[y] = "reset" => pc[y] = "reset" /\ conn'[y] = conn[y]
    BY <1>a, <2>2 DEF Goto, TypeOK
  <2> QED BY <1>a, <2>1, <2>3, LockSame
<1>3. ASSUME NEW x \in Clients, Connected(x) PROVE LockInv'
  <2>1. PICK dc \in Conns : dc = Fresh /\ phase[dc] = "none"
    BY <1>3, FreshOK DEF Connected
  <2>2. /\ \A c \in Conns : phase'[c] = IF c = dc THEN "open" ELSE phase[c]
        /\ \A y \in Clients : pc'[y] = IF y = x THEN "use" ELSE pc[y]
        /\ \A y \in Clients : y # x => conn'[y] = conn[y]
        /\ UNCHANGED <<locked, resetterCh, resetter>>
    BY <1>a, <1>3, <2>1 DEF Connected, Create, Goto, TypeOK
  <2> QED BY <1>a, <1>b, <2>2, LockSame
<1>4. ASSUME NEW x \in Clients, Check(x) \/ PutBad(x) \/ PutRefused(x) PROVE LockInv'
  <2>1. /\ UNCHANGED <<locked, resetterCh, resetter, conn>>
        /\ \E l : l # "reset" /\ Goto(x, l)
        /\ UNCHANGED phase \/ Doom({conn[x]})
    BY <1>4 DEF Check, PutBad, PutRefused
  <2>2. \A y \in Clients : pc'[y] = "reset" => pc[y] = "reset"
    BY <1>a, <2>1 DEF Goto, TypeOK
  <2>3. \A c \in Conns : phase'[c] \in {phase[c], "doomed"}
    BY <1>a, <2>1, DoomEffect
  <2> QED BY <1>a, <1>b, <2>1, <2>2, <2>3, LockSame
<1>5. ASSUME NEW x \in Clients, PutTaken(x) PROVE LockInv'
  <2>1. PICK dc \in Conns : dc = conn[x] /\ phase[dc] = "open"
    BY <1>a, <1>5 DEF PutTaken, HoldInv, Idle, Held, Gone, Holding, InHand
  <2>2. UNCHANGED <<phase, resetterCh, resetter>> /\ ~closed /\ pc[x] \in {"use", "giveback"}
    BY <1>5 DEF PutTaken, PutConnDBLocked, Accepts
  <2>3. CASE pc[x] = "use" /\ sessionResetter
    <3>1. /\ \A y \in Clients : pc'[y] = IF y = x THEN "reset" ELSE pc[y]
          /\ \A y \in Clients : conn'[y] = IF y = x THEN dc ELSE conn[y]
          /\ locked' = locked \cup {dc} /\ dc \notin locked
      BY <1>a, <1>5, <2>1, <2>2, <2>3 DEF PutTaken, Resets, Goto, TypeOK
    <3>2. \A c \in locked' : phase'[c] \in {"open", "doomed"}
      BY <1>a, <2>1, <2>2, <3>1 DEF LockInv
    <3>3. resetter \in Conns => resetter \in locked \ Range(resetterCh)
      BY <1>a DEF LockInv
    <3>4. ASSUME NEW y \in Clients, pc'[y] = "reset"
          PROVE  /\ conn'[y] \in locked' \ Range(resetterCh) /\ conn'[y] # resetter
                 /\ \A z \in Clients : Resetting(z, conn[y])' => z = y
      <4>1. CASE y = x
        <5>1. \A z \in Clients : Resetting(z, conn[y])' => z = y
          BY <1>a, <3>1, <4>1 DEF Resetting, LockInv
        <5> QED BY <1>b, <2>1, <3>1, <3>3, <4>1, <5>1
      <4>2. CASE y # x
        <5>1. pc[y] = "reset" /\ conn'[y] = conn[y] /\ conn[y] \in locked
          BY <1>a, <3>1, <3>4, <4>2 DEF LockInv
        <5>2. conn[y] \in locked \ Range(resetterCh) /\ conn[y] # resetter
              /\ \A z \in Clients : Resetting(z, conn[y]) => z = y
          BY <1>a, <5>1 DEF LockInv
        <5>3. \A z \in Clients : Resetting(z, conn[y])' => z = y
          BY <3>1, <5>1, <5>2 DEF Resetting
        <5> QED BY <3>1, <5>1, <5>2, <5>3
      <4> QED BY <4>1, <4>2
    <3> QED BY <1>a, <2>2, <3>1, <3>2, <3>3, <3>4 DEF LockInv
  <2>4. CASE pc[x] = "giveback" \/ ~sessionResetter
    <3>1. /\ \A y \in Clients : y # x => pc'[y] = pc[y] /\ conn'[y] = conn[y]
          /\ pc'[x] \in {"done", "failed"} /\ locked' = locked
      <4>1. ~Resets(x)
        BY <2>4 DEF Resets
      <4>2. \E l \in {"done", "failed"} : Goto(x, l)
        BY <1>5, <4>1 DEF PutTaken
      <4> QED BY <1>a, <1>5, <4>1, <4>2 DEF PutTaken, Goto, TypeOK
    <3> QED BY <1>a, <2>2, <3>1, LockSame
  <2> QED BY <2>2, <2>3, <2>4
<1>6. ASSUME NEW x \in Clients, SendReset(x) PROVE LockInv'
  <2>1. PICK dc \in Conns : dc = conn[x] /\ dc \in locked \ Range(resetterCh) /\ dc # resetter
    BY <1>a, <1>b, <1>6 DEF SendReset, LockInv
  <2>2. UNCHANGED <<phase, resetter>> /\ pc[x] = "reset"
    BY <1>6 DEF SendReset
  <2>3. CASE UNCHANGED <<resetterCh, locked, pc, conn>>
    BY <1>a, <2>2, <2>3, LockSame
  <2>4. CASE Goto(x, "done") /\ conn' = [conn EXCEPT ![x] = None]
    <3>1. /\ \A y \in Clients : pc'[y] = IF y = x THEN "done" ELSE pc[y]
          /\ \A y \in Clients : y # x => conn'[y] = conn[y]
      BY <1>a, <2>4 DEF Goto, TypeOK
    <3>2. ASSUME NEW y \in Clients, pc'[y] = "reset"
          PROVE  /\ conn'[y] = conn[y] /\ conn[y] \in locked \ Range(resetterCh) /\ conn[y] # resetter
                 /\ conn[y] # dc
                 /\ \A z \in Clients : Resetting(z, conn[y])' => z = y
      <4>1. y # x /\ pc[y] = "reset" /\ conn'[y] = conn[y]
        BY <3>1, <3>2
      <4>2. /\ conn[y] \in locked \ Range(resetterCh) /\ conn[y] # resetter
            /\ \A z \in Clients : Resetting(z, conn[y]) => z = y
        BY <1>a, <4>1 DEF LockInv
      <4>3. conn[y] # dc
        BY <2>1, <2>2, <4>1, <4>2 DEF Resetting
      <4>4. \A z \in Clients : Resetting(z, conn[y])' => z = y
        BY <3>1, <4>1, <4>2 DEF Resetting
      <4> QED BY <4>1, <4>2, <4>3, <4>4
    <3>3. resetter \in Conns => resetter \in locked \ Range(resetterCh)
      BY <1>a DEF LockInv
    <3>4. CASE Queue(dc)
      <4>1. /\ IsInjective(resetterCh') /\ Range(resetterCh') = Range(resetterCh) \cup {dc}
            /\ locked' = locked
        BY <1>a, <2>1, <3>4, AppendFacts DEF Queue, LockInv, TypeOK
      <4>2. \A c \in locked : phase[c] \in {"open", "doomed"}
        BY <1>a DEF LockInv
      <4> QED BY <2>1, <2>2, <3>2, <3>3, <4>1, <4>2 DEF LockInv
    <3>5. CASE locked' = locked \ {dc} /\ UNCHANGED resetterCh
      <4>1. IsInjective(resetterCh) /\ \A c \in locked : phase[c] \in {"open", "doomed"}
        BY <1>a DEF LockInv
      <4> QED BY <2>1, <2>2, <3>2, <3>3, <3>5, <4>1 DEF LockInv
    <3>6. Queue(dc) \/ (locked' = locked \ {dc} /\ UNCHANGED resetterCh) \/ UNCHANGED <<resetterCh, locked, pc, conn>>
      BY <1>6, <2>1 DEF SendReset
    <3> QED BY <2>3, <3>4, <3>5, <3>6
  <2> QED BY <1>6, <2>3, <2>4 DEF SendReset
<1>7. ASSUME NEW dc \in Conns, CloseConn(dc) PROVE LockInv'
  <2>1. /\ \A c \in Conns : c # dc => phase'[c] = phase[c]
        /\ dc \notin locked /\ UNCHANGED <<locked, resetterCh, resetter, pc, conn>>
    BY <1>a, <1>7 DEF CloseConn, TypeOK
  <2> QED BY <1>a, <1>b, <2>1, LockSame
<1>8. ASSUME NEW dc \in Conns, FinalClose(dc) PROVE LockInv'
  <2>1. /\ \A c \in Conns : c # dc => phase'[c] = phase[c]
        /\ phase[dc] = "final" /\ UNCHANGED <<locked, resetterCh, resetter>>
    BY <1>a, <1>8 DEF FinalClose, TypeOK
  <2>2. \A y \in Clients : pc'[y] = "reset" => pc[y] = "reset" /\ conn'[y] = conn[y]
    BY <1>8 DEF FinalClose, Retry
  <2> QED BY <1>a, <1>b, <2>1, <2>2, LockSame
<1>9. ASSUME OpenerConnected PROVE LockInv'
  <2>1. UNCHANGED <<pc, conn, locked, resetterCh, resetter>>
    BY <1>9 DEF OpenerConnected, Create
  <2>2. \A c \in Conns : phase[c] # "none" => phase'[c] = phase[c]
    <3>1. CASE Left /\ Create(Fresh)
      BY <1>a, <3>1, FreshOK DEF Create, TypeOK
    <3> QED BY <1>9, <3>1 DEF OpenerConnected
  <2> QED BY <1>a, <1>b, <2>1, <2>2, LockSame
<1>10. ASSUME CloseDB \/ Admin \/ Clean PROVE LockInv'
  <2>1. UNCHANGED <<pc, conn, locked, resetterCh, resetter>> /\ (UNCHANGED phase \/ \E S : Doom(S))
    BY <1>10 DEF CloseDB, Admin, SetMaxIdleConns, SetMaxOpenConns, Clean
  <2>2. \A c \in Conns : phase'[c] \in {phase[c], "doomed"}
    BY <1>a, <2>1, DoomEffect
  <2> QED BY <1>a, <1>b, <2>1, <2>2, LockSame
<1>11. ASSUME ResetterTakes PROVE LockInv'
  <2>1. /\ resetter' \in Range(resetterCh) /\ resetter' \in locked
        /\ IsInjective(resetterCh') /\ Range(resetterCh') = Range(resetterCh) \ {resetter'}
    BY <1>a, <1>b, <1>11, TailFacts DEF ResetterTakes, LockInv, TypeOK
  <2>2. UNCHANGED <<locked, phase, pc, conn>>
    BY <1>11 DEF ResetterTakes
  <2> QED BY <1>a, <2>1, <2>2 DEF LockInv, Resetting
<1>12. ASSUME ResetSession PROVE LockInv'
  <2>1. UNCHANGED <<resetterCh, phase, pc, conn>> /\ locked' = locked \ {resetter} /\ resetter' = "select"
    BY <1>12 DEF ResetSession
  <2>2. "select" \notin Conns
    BY SqlPoolAssumption
  <2> QED BY <1>a, <1>b, <2>1, <2>2 DEF LockInv, Resetting
<1>13. ASSUME ResetterExits PROVE LockInv'
  <2>1. /\ UNCHANGED <<phase, pc, conn>> /\ locked' = locked \ Range(resetterCh) /\ resetter' = "exited"
        /\ resetterCh' = <<>> /\ Range(resetterCh') = {} /\ IsInjective(resetterCh')
    BY <1>13 DEF ResetterExits, Range, IsInjective
  <2>2. "exited" \notin Conns
    BY SqlPoolAssumption
  <2> QED BY <1>a, <1>b, <2>1, <2>2 DEF LockInv, Resetting
<1> QED
  BY <1>1, <1>2, <1>3, <1>4, <1>5, <1>6, <1>7, <1>8, <1>9, <1>10, <1>11, <1>12, <1>13
  DEF Next, Client, Closing, Opener, Resetter, CloseGoesOn, World

LEMMA DirtySame ==
  ASSUME TypeOK, DirtyInv, UNCHANGED <<locked, badErr, sessVars, resetter, sessionResetter>>,
         \A c \in Conns : phase[c] # "none" => phase'[c] # "none"
  PROVE  DirtyInv'
  BY DEF DirtyInv, TypeOK, sessVars

LEMMA DirtyStep == ASSUME IInv, TypeOK', Next PROVE DirtyInv'
<1>a. TypeOK /\ DirtyInv /\ HoldInv /\ LockInv
  BY DEF IInv
<1>b. dirty \in SUBSET Conns
  BY <1>a DEF TypeOK
<1> USE DEF dbVars, poolVars, openVars, sessVars, connVars, callVars, bgVars, vars
<1>1. CASE \/ \E x \in Clients : CtxExpires(x) \/ ConnRefuse(x) \/ ConnCached(x) \/ ConnRequest(x) \/ ConnOpen(x)
                                 \/ ConnectFails(x) \/ Receive(x) \/ GiveUp(x) \/ LastLook(x)
           \/ \E dc \in Conns : Ages(dc)
           \/ OpenerTakes \/ OpenerTooLate \/ OpenerExits \/ OpenerFails \/ CloseStops \/ CloseLocks
  <2>1. UNCHANGED <<locked, badErr, sessVars, resetter, sessionResetter, phase>>
    BY <1>1 DEF CtxExpires, ConnRefuse, ConnCached, ConnRequest, ConnOpen, ConnectFails, Receive, GiveUp, LastLook,
                Ages, OpenerTakes, OpenerTooLate, OpenerExits, OpenerFails, CloseStops, CloseLocks
  <2> QED BY <1>a, <2>1, DirtySame
<1>2. CASE \/ \E x \in Clients : Check(x) \/ PutBad(x) \/ PutRefused(x)
           \/ CloseDB \/ Admin \/ Clean
  <2>1. UNCHANGED <<locked, badErr, sessVars, resetter, sessionResetter>> /\ (UNCHANGED phase \/ \E S : Doom(S))
    BY <1>2 DEF Check, PutBad, PutRefused, CloseDB, Admin, SetMaxIdleConns, SetMaxOpenConns, Clean
  <2>2. \A c \in Conns : phase'[c] \in {phase[c], "doomed"}
    BY <1>a, <2>1, DoomEffect
  <2> QED BY <1>a, <2>1, <2>2, DirtySame
<1>3. CASE OpenerConnected \/ (\E x \in Clients : Connected(x)) \/ (\E dc \in Conns : CloseConn(dc))
  <2>1. UNCHANGED <<locked, badErr, sessVars, resetter, sessionResetter>>
    BY <1>3 DEF OpenerConnected, Connected, Create, CloseConn
  <2>2. \A c \in Conns : phase[c] # "none" => phase'[c] # "none"
    <3>1. CASE Left /\ Create(Fresh)
      BY <1>a, <3>1, FreshOK DEF Create, TypeOK
    <3>2. CASE \E dc \in Conns : CloseConn(dc)
      BY <1>a, <3>2 DEF CloseConn, TypeOK
    <3> QED BY <1>3, <3>1, <3>2 DEF OpenerConnected, Connected
  <2> QED BY <1>a, <2>1, <2>2, DirtySame
<1>4. ASSUME NEW x \in Clients, PutTaken(x) PROVE DirtyInv'
  <2>1. PICK dc \in Conns : dc = conn[x] /\ phase[dc] = "open"
    BY <1>a, <1>4 DEF PutTaken, HoldInv, Idle, Held, Gone, Holding, InHand
  <2>2. /\ UNCHANGED <<phase, resetter, badErr, sessionResetter>> /\ dirty' \subseteq dirty \cup {dc}
        /\ locked \subseteq locked' /\ unreset \ {dc} \subseteq unreset'
        /\ (dc \in dirty /\ (dc \in unreset => dc \in unreset')) \/ (sessionResetter => dc \in locked')
           \/ dc \notin dirty'
    BY <1>4, <2>1 DEF PutTaken, PutConnDBLocked, Accepts, Resets
  <2> QED BY <1>a, <2>1, <2>2 DEF DirtyInv
<1>5. ASSUME NEW x \in Clients, SendReset(x) PROVE DirtyInv'
  <2>1. UNCHANGED <<phase, resetter, sessVars, sessionResetter>> /\ locked \cup badErr \subseteq locked' \cup badErr'
    BY <1>5 DEF SendReset, Queue
  <2> QED BY <1>a, <2>1 DEF DirtyInv
<1>6. ASSUME NEW dc \in Conns, FinalClose(dc) PROVE DirtyInv'
  <2>1. /\ UNCHANGED <<locked, resetter, sessionResetter>> /\ dirty' = dirty \ {dc}
        /\ badErr' = badErr \ {dc} /\ unreset' = unreset \ {dc}
        /\ \A c \in Conns : c # dc => phase'[c] = phase[c]
    BY <1>a, <1>6 DEF FinalClose, TypeOK
  <2> QED BY <1>a, <1>b, <2>1 DEF DirtyInv
<1>7. ASSUME ResetterTakes PROVE DirtyInv'
  <2>1. UNCHANGED <<phase, locked, badErr, sessVars, sessionResetter>> /\ resetter # "exited"
    BY <1>7 DEF ResetterTakes
  <2> QED BY <1>a, <2>1 DEF DirtyInv
<1>8. ASSUME ResetSession PROVE DirtyInv'
  <2>1. /\ UNCHANGED <<phase, sessionResetter>> /\ resetter # "exited" /\ dirty' \subseteq dirty
        /\ locked' = locked \ {resetter} /\ unreset \subseteq unreset'
        /\ badErr \ {resetter} \subseteq badErr'
        /\ resetter \notin dirty' \/ resetter \in badErr' \cup unreset'
    BY <1>8, SqlPoolAssumption DEF ResetSession
  <2> QED BY <1>a, <2>1 DEF DirtyInv
<1>9. ASSUME ResetterExits PROVE DirtyInv'
  BY <1>a, <1>9 DEF ResetterExits, DirtyInv
<1> QED
  BY <1>1, <1>2, <1>3, <1>4, <1>5, <1>6, <1>7, <1>8, <1>9
  DEF Next, Client, Closing, Opener, Resetter, CloseGoesOn, World

LEMMA UseSame ==
  ASSUME ResetBeforeReuse, dirty' \subseteq dirty, dirty' \cap unreset \subseteq unreset',
         UNCHANGED sessionResetter, resetter = "exited" => resetter' = "exited",
         \A y \in Clients : pc'[y] = "use" => pc[y] = "use" /\ conn'[y] = conn[y]
  PROVE  ResetBeforeReuse'
  BY DEF ResetBeforeReuse

LEMMA UseStep == ASSUME IInv, TypeOK', Next PROVE ResetBeforeReuse'
<1>a. TypeOK /\ DirtyInv /\ HoldInv /\ ResetBeforeReuse
  BY DEF IInv
<1> USE DEF dbVars, poolVars, openVars, sessVars, connVars, callVars, bgVars, vars
<1>1. CASE \/ \E x \in Clients : CtxExpires(x)
           \/ \E dc \in Conns : Ages(dc) \/ CloseConn(dc)
           \/ Opener \/ Resetter \/ CloseGoesOn \/ CloseLocks \/ Admin \/ Clean
  <2>1. UNCHANGED <<pc, conn, sessionResetter>> /\ dirty' \subseteq dirty /\ unreset \subseteq unreset'
    BY <1>1 DEF CtxExpires, Ages, CloseConn, Opener, OpenerTakes, OpenerTooLate, OpenerFails, OpenerConnected,
                Create, OpenerExits, Resetter, ResetterTakes, ResetSession, ResetterExits, CloseGoesOn, CloseDB,
                CloseStops, CloseLocks, Admin, SetMaxIdleConns, SetMaxOpenConns, Clean
  <2>2. resetter = "exited" => resetter' = "exited"
    BY <1>1, SqlPoolAssumption
            DEF CtxExpires, Ages, CloseConn, Opener, OpenerTakes, OpenerTooLate, OpenerFails, OpenerConnected,
                OpenerExits, Resetter, ResetterTakes, ResetSession, ResetterExits, CloseGoesOn, CloseDB,
                CloseStops, CloseLocks, Admin, SetMaxIdleConns, SetMaxOpenConns, Clean
  <2> QED BY <1>a, <2>1, <2>2, UseSame
<1>2. ASSUME NEW x \in Clients,
             \/ ConnRefuse(x) \/ ConnCached(x) \/ ConnRequest(x) \/ ConnOpen(x) \/ ConnectFails(x)
             \/ Receive(x) \/ GiveUp(x) \/ LastLook(x) \/ PutBad(x) \/ PutRefused(x)
      PROVE  ResetBeforeReuse'
  <2>1. UNCHANGED <<sessVars, resetter, sessionResetter>>
    BY <1>2 DEF ConnRefuse, ConnCached, ConnRequest, ConnOpen, ConnectFails, Receive, GiveUp, LastLook,
                PutBad, PutRefused
  <2>2. /\ \E l : l # "use" /\ Goto(x, l)
        /\ conn' = conn \/ \E e : conn' = [conn EXCEPT ![x] = e]
    BY <1>a, <1>2, FailsGoto DEF ConnRefuse, ConnCached, ConnRequest, ConnOpen, ConnectFails, Receive, GiveUp, LastLook,
                PutBad, PutRefused
  <2>3. \A y \in Clients : pc'[y] = "use" => pc[y] = "use" /\ conn'[y] = conn[y]
    BY <1>a, <2>2 DEF Goto, TypeOK
  <2> QED BY <1>a, <2>1, <2>3, UseSame
<1>3. ASSUME NEW x \in Clients, Connected(x) PROVE ResetBeforeReuse'
  <2>1. PICK dc \in Conns : dc = Fresh /\ phase[dc] = "none"
    BY <1>3, FreshOK DEF Connected
  <2>2. /\ \A y \in Clients : pc'[y] = IF y = x THEN "use" ELSE pc[y]
        /\ \A y \in Clients : conn'[y] = IF y = x THEN dc ELSE conn[y]
        /\ UNCHANGED <<sessVars, resetter, sessionResetter>>
    BY <1>a, <1>3, <2>1 DEF Connected, Create, Goto, TypeOK
  <2>3. dc \notin dirty
    BY <1>a, <2>1 DEF DirtyInv
  <2> QED BY <1>a, <2>2, <2>3 DEF ResetBeforeReuse
<1>4. ASSUME NEW x \in Clients, Check(x) PROVE ResetBeforeReuse'
  <2>1. UNCHANGED <<sessVars, resetter, sessionResetter, conn>> /\ (Goto(x, "discard") \/ Goto(x, "use"))
    BY <1>4 DEF Check
  <2>2. Goto(x, "use") => conn[x] \notin locked \cup badErr
    BY <1>a, <1>4 DEF Check, Goto, TypeOK
  <2>3. \A y \in Clients : pc'[y] = "use" => pc[y] = "use" \/ (y = x /\ Goto(x, "use"))
    BY <1>a, <2>1 DEF Goto, TypeOK
  <2> QED BY <1>a, <2>1, <2>2, <2>3 DEF ResetBeforeReuse, DirtyInv
<1>5. ASSUME NEW x \in Clients, PutTaken(x) PROVE ResetBeforeReuse'
  <2>1. PICK dc \in Conns : dc = conn[x] /\ pc[x] \in InHand
    BY <1>a, <1>5 DEF PutTaken, HoldInv, InHand
  <2>2. /\ \A y \in Clients : pc'[y] = "use" => pc[y] = "use" /\ conn'[y] = conn[y] /\ y # x
        /\ dirty' \subseteq dirty \cup {dc} /\ unreset \ {dc} \subseteq unreset'
        /\ UNCHANGED <<resetter, sessionResetter>>
    BY <1>a, <1>5, <2>1 DEF PutTaken, Goto, TypeOK
  <2>3. \A y \in Clients : y # x /\ pc[y] = "use" => conn[y] # dc
    BY <1>a, <2>1 DEF HoldInv, Idle, Held, Gone, Holding, InHand
  <2> QED BY <1>a, <2>2, <2>3 DEF ResetBeforeReuse
<1>6. ASSUME NEW x \in Clients, SendReset(x) PROVE ResetBeforeReuse'
  <2>1. /\ \A y \in Clients : pc'[y] = "use" => pc[y] = "use" /\ conn'[y] = conn[y]
        /\ UNCHANGED <<sessVars, resetter, sessionResetter>>
    BY <1>a, <1>6 DEF SendReset, Goto, TypeOK
  <2> QED BY <1>a, <2>1, UseSame
<1>7. ASSUME NEW dc \in Conns, FinalClose(dc) PROVE ResetBeforeReuse'
  <2>1. /\ UNCHANGED <<resetter, sessionResetter>> /\ dirty' = dirty \ {dc}
        /\ unreset' = unreset \ {dc}
    BY <1>7 DEF FinalClose
  <2>2. \A y \in Clients : pc'[y] = "use" => pc[y] = "use" /\ conn'[y] = conn[y]
    BY <1>7 DEF FinalClose, Retry
  <2> QED BY <1>a, <2>1, <2>2, UseSame
<1> QED
  BY <1>1, <1>2, <1>3, <1>4, <1>5, <1>6, <1>7
  DEF Next, Client, Closing, CloseGoesOn, World

-----------------------------------------------------------------------------
(* The open count. *)

LEMMA ConnectsSame ==
  ASSUME \A y \in Clients : pc'[y] = "connect" <=> pc[y] = "connect"
  PROVE  Connects' = Connects
  BY DEF Connects

LEMMA ConnectsEnter ==
  ASSUME TypeOK, NEW x \in Clients, pc[x] # "connect", Goto(x, "connect")
  PROVE  Cardinality(Connects') = Cardinality(Connects) + 1
<1>1. Connects' = Connects \cup {x} /\ x \notin Connects
  BY DEF Connects, Goto, TypeOK
<1> QED BY <1>1, CountFacts, FS_AddElement

LEMMA ConnectsLeave ==
  ASSUME TypeOK, NEW x \in Clients, pc[x] = "connect", NEW l, l # "connect", Goto(x, l)
  PROVE  Cardinality(Connects') = Cardinality(Connects) - 1
<1>1. Connects' = Connects \ {x} /\ x \in Connects
  BY DEF Connects, Goto, TypeOK
<1> QED BY <1>1, CountFacts, FS_RemoveElement

LEMMA ExistSame ==
  ASSUME \A c \in Conns : phase'[c] = "none" <=> phase[c] = "none"
  PROVE  Exist' = Exist
  BY DEF Exist

LEMMA ExistNew ==
  ASSUME TypeOK, NEW dc \in Conns, phase[dc] = "none", phase' = [phase EXCEPT ![dc] = "open"]
  PROVE  Cardinality(Exist') = Cardinality(Exist) + 1
<1>1. Exist' = Exist \cup {dc} /\ dc \notin Exist
  BY DEF Exist, TypeOK
<1> QED BY <1>1, CountFacts, FS_AddElement

LEMMA ExistGone ==
  ASSUME TypeOK, NEW dc \in Conns, phase[dc] # "none", phase' = [phase EXCEPT ![dc] = "none"]
  PROVE  Cardinality(Exist') = Cardinality(Exist) - 1
<1>1. Exist' = Exist \ {dc} /\ dc \in Exist
  BY DEF Exist, TypeOK
<1> QED BY <1>1, CountFacts, FS_RemoveElement

\* Total, before and after a step.
LEMMA TotalIs ==
  /\ Total = openerCh + (Cardinality(Connects) + (IF opener = "connect" THEN 1 ELSE 0)) + Cardinality(Exist)
  /\ Total' = openerCh' + (Cardinality(Connects') + (IF opener' = "connect" THEN 1 ELSE 0)) + Cardinality(Exist')
  BY DEF Total, Connecting, Connects, Exist

LEMMA CountSame ==
  ASSUME CountInv, UNCHANGED <<numOpen, openerCh>>, closed => closed',
         opener' = "connect" <=> opener = "connect",
         Connects' = Connects, Exist' = Exist
  PROVE  CountInv'
<1>1. Total' = Total
  BY TotalIs
<1> QED BY <1>1 DEF CountInv

\* The Set functions close only what is idle.
LEMMA AdminDooms ==
  ASSUME TypeOK, Admin PROVE UNCHANGED phase \/ \E S \in SUBSET Range(freeConn) : Doom(S)
<1>1. \A k \in 0..Len(freeConn) : Range(SubSeq(freeConn, k + 1, Len(freeConn))) \subseteq Range(freeConn)
  BY CutFacts DEF TypeOK
<1>2. ASSUME NEW n \in Nat, SetMaxIdleConns(n) PROVE \E S \in SUBSET Range(freeConn) : Doom(S)
  <2>1. Least(maxIdle', Len(freeConn)) \in 0..Len(freeConn)
    BY <1>2 DEF SetMaxIdleConns, Least, TypeOK
  <2>2. PICK k \in 0..Len(freeConn) : k = Least(maxIdle', Len(freeConn))
    BY <2>1
  <2> QED BY <1>1, <1>2, <2>2 DEF SetMaxIdleConns
<1>3. ASSUME NEW n \in Limits, SetMaxOpenConns(n) PROVE UNCHANGED phase
  BY <1>3 DEF SetMaxOpenConns, connVars
<1>4. maxOpen \in Nat /\ Limits \subseteq Nat
  BY SqlPoolAssumption DEF TypeOK
<1> QED BY <1>2, <1>3, <1>4 DEF Admin

LEMMA CountStep == ASSUME IInv, TypeOK', Next PROVE CountInv'
<1>a. TypeOK /\ CountInv /\ HoldInv /\ RequestInv
  BY DEF IInv
<1>b. /\ numOpen \in Nat /\ openerCh \in Nat /\ Cardinality(Connects) \in Nat /\ Cardinality(Exist) \in Nat
      /\ closed \in BOOLEAN /\ connRequests \in SUBSET Clients
      /\ numOpen >= Total /\ Total \in Nat
      /\ ~closed => numOpen = Total
  BY <1>a, CountFacts DEF TypeOK, CountInv
<1>c. \A x \in Clients : pc[x] \in InHand => conn[x] \in Conns /\ phase[conn[x]] = "open"
  BY <1>a DEF HoldInv, Idle, Held, Gone, Holding
<1> USE DEF dbVars, poolVars, openVars, sessVars, connVars, callVars, bgVars, vars
<1>1. CASE \/ \E x \in Clients : CtxExpires(x)
           \/ \E dc \in Conns : Ages(dc)
           \/ OpenerExits \/ Resetter \/ CloseStops \/ CloseLocks
  <2>1. UNCHANGED <<numOpen, openerCh, closed, phase, pc>> /\ (opener' = "connect" <=> opener = "connect")
    BY <1>1 DEF CtxExpires, Ages, OpenerExits, Resetter, ResetterTakes, ResetSession, ResetterExits,
                CloseStops, CloseLocks
  <2> QED BY <1>a, <2>1, CountSame, ConnectsSame, ExistSame
<1>2. ASSUME NEW x \in Clients,
             \/ ConnRefuse(x) \/ ConnCached(x) \/ ConnRequest(x) \/ Receive(x) \/ GiveUp(x) \/ LastLook(x)
             \/ PutTaken(x) \/ SendReset(x)
      PROVE  CountInv'
  <2>1. UNCHANGED <<numOpen, openerCh, closed, opener, phase>> /\ pc[x] # "connect"
    BY <1>2 DEF ConnRefuse, ConnCached, ConnRequest, Receive, GiveUp, LastLook, PutTaken, SendReset
  <2>2. UNCHANGED pc \/ \E l : l # "connect" /\ Goto(x, l)
    BY <1>a, <1>2, FailsGoto
    DEF ConnRefuse, ConnCached, ConnRequest, Receive, GiveUp, LastLook, PutTaken, SendReset
  <2>3. \A y \in Clients : pc'[y] = "connect" <=> pc[y] = "connect"
    BY <1>a, <2>1, <2>2 DEF Goto, TypeOK
  <2> QED BY <1>a, <2>1, <2>3, CountSame, ConnectsSame, ExistSame
<1>3. ASSUME NEW x \in Clients, ConnOpen(x) PROVE CountInv'
  <2>1. UNCHANGED <<openerCh, closed, opener, phase>> /\ numOpen' = numOpen + 1
    BY <1>3 DEF ConnOpen
  <2>2. Cardinality(Connects') = Cardinality(Connects) + 1 /\ Exist' = Exist
    BY <1>a, <1>3, ConnectsEnter, ExistSame DEF ConnOpen
  <2>3. Total' = Total + 1
    BY <1>b, <2>1, <2>2, TotalIs
  <2> QED BY <1>b, <2>1, <2>3 DEF CountInv
<1>4. ASSUME NEW x \in Clients, ConnectFails(x) PROVE CountInv'
  <2>1. UNCHANGED <<closed, opener, phase>> /\ MaybeOpenNewConnections(numOpen - 1, connRequests)
    BY <1>4 DEF ConnectFails
  <2>2. Cardinality(Connects') = Cardinality(Connects) - 1 /\ Exist' = Exist
    <3>1. PICK l \in {"conn", "failed"} : Goto(x, l)
      BY <1>a, <1>4, FailsGoto DEF ConnectFails
    <3> QED BY <1>a, <1>4, <2>1, <3>1, ConnectsLeave, ExistSame DEF ConnectFails
  <2>3. PICK k \in Nat : /\ numOpen' = numOpen - 1 + k
                         /\ IF closed THEN openerCh' = openerCh ELSE openerCh' = openerCh + k
    BY <1>a, <1>b, <2>1, MaybeOpenOK
  <2>4. Total' = IF closed THEN Total - 1 ELSE Total - 1 + k
    BY <1>b, <2>1, <2>2, <2>3, TotalIs
  <2> QED BY <1>b, <2>1, <2>3, <2>4, CountFacts, <1>a DEF CountInv
<1>5. ASSUME NEW x \in Clients, Connected(x) PROVE CountInv'
  <2>1. UNCHANGED <<closed, opener, openerCh, numOpen>>
    BY <1>5 DEF Connected
  <2>2. Cardinality(Connects') = Cardinality(Connects) - 1
    BY <1>a, <1>5, ConnectsLeave DEF Connected
  <2>3. Cardinality(Exist') = Cardinality(Exist) + 1
    BY <1>a, <1>5, FreshOK, ExistNew DEF Connected, Create
  <2>4. Total' = Total
    BY <1>b, <2>1, <2>2, <2>3, TotalIs
  <2> QED BY <1>b, <2>1, <2>4 DEF CountInv
<1>6. ASSUME NEW x \in Clients, Check(x) \/ PutRefused(x) PROVE CountInv'
  <2>1. /\ UNCHANGED <<closed, opener, openerCh, numOpen>> /\ pc[x] \in InHand
        /\ \E l : l # "connect" /\ Goto(x, l)
        /\ UNCHANGED phase \/ Doom({conn[x]})
    BY <1>6 DEF Check, PutRefused, InHand
  <2>2. \A y \in Clients : pc'[y] = "connect" <=> pc[y] = "connect"
    BY <1>a, <2>1 DEF Goto, TypeOK, InHand
  <2>3. \A c \in Conns : phase'[c] = "none" <=> phase[c] = "none"
    BY <1>a, <1>c, <2>1, DoomEffect
  <2> QED BY <1>a, <2>1, <2>2, <2>3, CountSame, ConnectsSame, ExistSame
<1>7. ASSUME NEW x \in Clients, PutBad(x) PROVE CountInv'
  <2>1. UNCHANGED <<closed, opener>> /\ MaybeOpenNewConnections(numOpen, connRequests) /\ pc[x] \in InHand
    BY <1>7 DEF PutBad, InHand
  <2>2. \A y \in Clients : pc'[y] = "connect" <=> pc[y] = "connect"
    BY <1>a, <1>7 DEF PutBad, Goto, TypeOK
  <2>3. \A c \in Conns : phase'[c] = "none" <=> phase[c] = "none"
    BY <1>a, <1>c, <1>7, <2>1, DoomEffect DEF PutBad
  <2>4. PICK k \in Nat : /\ numOpen' = numOpen + k
                         /\ IF closed THEN openerCh' = openerCh ELSE openerCh' = openerCh + k
    BY <1>a, <1>b, <2>1, MaybeOpenOK
  <2>5. Total' = IF closed THEN Total ELSE Total + k
    BY <1>b, <2>1, <2>2, <2>3, <2>4, TotalIs, ConnectsSame, ExistSame
  <2> QED BY <1>a, <1>b, <2>1, <2>4, <2>5, CountFacts DEF CountInv
<1>8. ASSUME NEW dc \in Conns, CloseConn(dc) PROVE CountInv'
  <2>1. UNCHANGED <<closed, opener, openerCh, numOpen, pc>>
    BY <1>8 DEF CloseConn
  <2>2. \A c \in Conns : phase'[c] = "none" <=> phase[c] = "none"
    BY <1>a, <1>8 DEF CloseConn, TypeOK
  <2> QED BY <1>a, <2>1, <2>2, CountSame, ConnectsSame, ExistSame
<1>9. ASSUME NEW dc \in Conns, FinalClose(dc) PROVE CountInv'
  <2>1. UNCHANGED <<closed, opener>> /\ MaybeOpenNewConnections(numOpen - 1, connRequests)
    BY <1>9 DEF FinalClose, CountAfterClose
  <2>2. \A y \in Clients : pc'[y] = "connect" <=> pc[y] = "connect"
    BY <1>9 DEF FinalClose, Retry
  <2>3. Cardinality(Exist') = Cardinality(Exist) - 1
    BY <1>a, <1>9, ExistGone DEF FinalClose
  <2>4. PICK k \in Nat : /\ numOpen' = numOpen - 1 + k
                         /\ IF closed THEN openerCh' = openerCh ELSE openerCh' = openerCh + k
    BY <1>a, <1>b, <2>1, MaybeOpenOK
  <2>5. Total' = IF closed THEN Total - 1 ELSE Total - 1 + k
    BY <1>b, <2>1, <2>2, <2>3, <2>4, TotalIs, ConnectsSame
  <2> QED BY <1>a, <1>b, <2>1, <2>4, <2>5, CountFacts DEF CountInv
<1>10. ASSUME OpenerTakes PROVE CountInv'
  <2>1. /\ UNCHANGED <<closed, numOpen, pc, phase>> /\ openerCh' = openerCh - 1
        /\ opener = "select" /\ opener' = "connect"
    BY <1>10 DEF OpenerTakes
  <2>2. Total' = Total
    BY <1>b, <2>1, TotalIs, ConnectsSame, ExistSame
  <2> QED BY <1>b, <2>1, <2>2 DEF CountInv
<1>11. ASSUME OpenerTooLate PROVE CountInv'
  <2>1. /\ UNCHANGED <<closed, openerCh, pc, phase>> /\ numOpen' = numOpen - 1
        /\ opener = "connect" /\ opener' = "select"
    BY <1>11 DEF OpenerTooLate
  <2>2. Total' = Total - 1
    BY <1>b, <2>1, TotalIs, ConnectsSame, ExistSame
  <2> QED BY <1>a, <1>b, <2>1, <2>2, CountFacts DEF CountInv
<1>12. ASSUME OpenerFails PROVE CountInv'
  <2>1. /\ UNCHANGED <<closed, pc, phase>> /\ opener = "connect" /\ opener' = "select"
    BY <1>12 DEF OpenerFails
  <2>2. PICK R \in SUBSET Clients : MaybeOpenNewConnections(numOpen - 1, R)
    BY <1>12 DEF OpenerFails, TypeOK
  <2>3. PICK k \in Nat : /\ numOpen' = numOpen - 1 + k
                         /\ IF closed THEN openerCh' = openerCh ELSE openerCh' = openerCh + k
    BY <1>a, <1>b, <2>2, MaybeOpenOK
  <2>4. Total' = IF closed THEN Total - 1 ELSE Total - 1 + k
    BY <1>b, <2>1, <2>3, TotalIs, ConnectsSame, ExistSame
  <2> QED BY <1>a, <1>b, <2>1, <2>3, <2>4, CountFacts DEF CountInv
<1>13. ASSUME OpenerConnected PROVE CountInv'
  <2>1. UNCHANGED <<closed, pc>> /\ opener = "connect" /\ opener' = "select"
    BY <1>13 DEF OpenerConnected
  <2>2. CASE Left /\ Create(Fresh) /\ UNCHANGED openVars
    <3>1. Cardinality(Exist') = Cardinality(Exist) + 1
      BY <1>a, <2>2, FreshOK, ExistNew DEF Create
    <3>2. Total' = Total
      BY <1>b, <2>1, <2>2, <3>1, TotalIs, ConnectsSame
    <3> QED BY <1>b, <2>1, <2>2, <3>2 DEF CountInv
  <2>3. CASE numOpen' = numOpen - 1 /\ UNCHANGED <<openerCh, connVars>>
    <3>1. Total' = Total - 1
      BY <1>b, <2>1, <2>3, TotalIs, ConnectsSame, ExistSame
    <3> QED BY <1>a, <1>b, <2>1, <2>3, <3>1, CountFacts DEF CountInv
  <2> QED BY <1>13, <2>2, <2>3 DEF OpenerConnected
<1>14. ASSUME CloseDB \/ Admin \/ Clean PROVE CountInv'
  <2>1. /\ UNCHANGED <<pc, opener, numOpen, openerCh>> /\ (closed => closed')
        /\ UNCHANGED phase \/ \E S \in SUBSET Range(freeConn) : Doom(S)
    <3>1. CASE Admin
      BY <1>a, <3>1, AdminDooms DEF Admin, SetMaxIdleConns, SetMaxOpenConns
    <3>2. CASE Clean \/ CloseDB
      BY <1>a, <3>2 DEF Clean, CloseDB
    <3> QED BY <1>14, <3>1, <3>2
  <2>2. \A c \in Conns : phase'[c] = "none" <=> phase[c] = "none"
    <3>1. \A c \in Conns : c \in Range(freeConn) => phase[c] = "open"
      BY <1>a DEF HoldInv, Idle, Held, Gone
    <3> QED BY <1>a, <2>1, <3>1, DoomEffect
  <2> QED BY <1>a, <2>1, <2>2, CountSame, ConnectsSame, ExistSame
<1> QED
  BY <1>1, <1>2, <1>3, <1>4, <1>5, <1>6, <1>7, <1>8, <1>9, <1>10, <1>11, <1>12, <1>13, <1>14
  DEF Next, Client, Closing, Opener, CloseGoesOn, World

-----------------------------------------------------------------------------
(* The connections that are open or asked for. *)

Alive == {c \in Conns : phase[c] \in {"open", "doomed"}}

\* Live, before and after a step.
LEMMA LiveIs ==
  /\ Live = openerCh + (Cardinality(Connects) + (IF opener = "connect" THEN 1 ELSE 0)) + Cardinality(Alive)
  /\ Live' = openerCh' + (Cardinality(Connects') + (IF opener' = "connect" THEN 1 ELSE 0)) + Cardinality(Alive')
  BY DEF Live, Connecting, Connects, Alive

LEMMA AliveFacts == /\ IsFiniteSet(Alive) /\ Cardinality(Alive) \in Nat
                    /\ IsFiniteSet(Alive') /\ Cardinality(Alive') \in Nat
<1>1. Alive \in SUBSET Conns /\ Alive' \in SUBSET Conns
  BY DEF Alive
<1>2. IsFiniteSet(Alive) /\ IsFiniteSet(Alive')
  BY <1>1, SqlPoolAssumption, FS_Subset
<1> QED BY <1>2, FS_CardinalityType

\* No connection comes to life.
LEMMA AliveLess ==
  ASSUME \A c \in Conns : phase'[c] \in {"open", "doomed"} => phase[c] \in {"open", "doomed"}
  PROVE  Cardinality(Alive') <= Cardinality(Alive)
<1>1. Alive' \in SUBSET Alive
  BY DEF Alive
<1> QED BY <1>1, AliveFacts, FS_Subset

LEMMA AliveNew ==
  ASSUME TypeOK, NEW dc \in Conns, phase[dc] = "none", phase' = [phase EXCEPT ![dc] = "open"]
  PROVE  Cardinality(Alive') = Cardinality(Alive) + 1
<1>1. Alive' = Alive \cup {dc} /\ dc \notin Alive
  BY DEF Alive, TypeOK
<1> QED BY <1>1, AliveFacts, FS_AddElement

\* What is open or asked for is counted in numOpen.
LEMMA LiveCounted == ASSUME TypeOK', CountInv' PROVE Live' <= numOpen'
<1>1. Alive' \in SUBSET Exist' /\ Exist' \in SUBSET Conns /\ Connects' \in SUBSET Clients
  BY DEF Alive, Exist, Connects
<1>2. IsFiniteSet(Exist') /\ IsFiniteSet(Connects')
  BY <1>1, SqlPoolAssumption, FS_Subset
<1>3. Cardinality(Alive') <= Cardinality(Exist')
  BY <1>1, <1>2, FS_Subset
<1>4. Cardinality(Exist') \in Nat /\ Cardinality(Connects') \in Nat /\ openerCh' \in Nat /\ numOpen' \in Nat
  BY <1>2, FS_CardinalityType DEF TypeOK
<1>5. Live' <= Total'
  BY <1>3, <1>4, LiveIs, TotalIs, AliveFacts
<1>6. numOpen' >= Total' /\ Total' \in Nat /\ Live' \in Nat
  BY <1>4, TotalIs, LiveIs, AliveFacts DEF CountInv
<1> QED BY <1>4, <1>5, <1>6

LEMMA GrowStep ==
  ASSUME IInv, TypeOK', Next, ~closed, maxOpen > 0
  PROVE  Live' <= Live \/ numOpen' <= maxOpen
<1>a. TypeOK /\ CountInv /\ HoldInv
  BY DEF IInv
<1>b. /\ numOpen \in Nat /\ openerCh \in Nat /\ Cardinality(Connects) \in Nat /\ maxOpen \in Nat
      /\ Cardinality(Alive) \in Nat /\ Cardinality(Alive') \in Nat /\ connRequests \in SUBSET Clients
  BY <1>a, CountFacts, AliveFacts DEF TypeOK
<1>c. ASSUME NEW n \in Int, NEW R \in SUBSET Clients, MaybeOpenNewConnections(n, R)
      PROVE  openerCh' = openerCh \/ numOpen' <= maxOpen
  <2>1. PICK k \in Nat : /\ numOpen' = n + k /\ openerCh' = openerCh + k
                         /\ k > 0 => n + k <= maxOpen
    BY <1>a, <1>c, MaybeOpenOK
  <2> QED BY <1>b, <2>1
<1> USE DEF dbVars, poolVars, openVars, sessVars, connVars, callVars, bgVars, vars
<1>1. CASE \/ \E x \in Clients : CtxExpires(x)
           \/ \E dc \in Conns : Ages(dc) \/ CloseConn(dc)
           \/ OpenerExits \/ OpenerTooLate \/ OpenerTakes \/ Resetter \/ CloseStops \/ CloseLocks \/ CloseDB \/ Admin \/ Clean
  <2>1. /\ UNCHANGED pc
        /\ \/ openerCh' = openerCh /\ (opener' = "connect" => opener = "connect")
           \/ openerCh' = openerCh - 1 /\ opener = "select" /\ opener' = "connect"
    BY <1>1 DEF CtxExpires, Ages, CloseConn, OpenerExits, OpenerTooLate, OpenerTakes, Resetter, ResetterTakes,
                ResetSession, ResetterExits, CloseStops, CloseLocks, CloseDB, Admin, SetMaxIdleConns,
                SetMaxOpenConns, Clean
  <2>2. \A c \in Conns : phase'[c] \in {"open", "doomed"} => phase[c] \in {"open", "doomed"}
    <3>1. ASSUME NEW S \in SUBSET Range(freeConn), Doom(S), NEW c \in Conns, phase'[c] \in {"open", "doomed"}
          PROVE  phase[c] \in {"open", "doomed"}
      <4>1. c \in Range(freeConn) => phase[c] = "open"
        BY <1>a DEF HoldInv, Idle, Held, Gone
      <4> QED BY <1>a, <3>1, <4>1, DoomEffect
    <3>2. CASE \E dc \in Conns : CloseConn(dc)
      BY <1>a, <3>2 DEF CloseConn, TypeOK
    <3>3. CASE Admin
      <4>1. UNCHANGED phase \/ \E S \in SUBSET Range(freeConn) : Doom(S)
        BY <1>a, <3>3, AdminDooms
      <4> QED BY <3>1, <4>1
    <3>4. CASE CloseDB \/ Clean
      <4>1. UNCHANGED phase \/ \E S \in SUBSET Range(freeConn) : Doom(S)
        BY <3>4 DEF CloseDB, Clean
      <4> QED BY <3>1, <4>1
    <3>5. CASE UNCHANGED phase
      BY <3>5
    <3> QED BY <1>1, <3>2, <3>3, <3>4, <3>5
            DEF CtxExpires, Ages, OpenerExits, OpenerTooLate, OpenerTakes, Resetter, ResetterTakes,
                ResetSession, ResetterExits, CloseStops, CloseLocks
  <2>3. Connects' = Connects /\ Cardinality(Alive') <= Cardinality(Alive)
    BY <2>1, <2>2, ConnectsSame, AliveLess
  <2> QED BY <1>b, <2>1, <2>3, LiveIs
<1>2. ASSUME NEW x \in Clients,
             \/ ConnRefuse(x) \/ ConnCached(x) \/ ConnRequest(x) \/ Receive(x) \/ GiveUp(x) \/ LastLook(x)
             \/ PutTaken(x) \/ SendReset(x) \/ Check(x) \/ PutRefused(x)
      PROVE  Live' <= Live
  <2>1. /\ UNCHANGED <<openerCh, opener>> /\ pc[x] # "connect"
        /\ UNCHANGED pc \/ \E l : l # "connect" /\ Goto(x, l)
    BY <1>a, <1>2, FailsGoto
    DEF ConnRefuse, ConnCached, ConnRequest, Receive, GiveUp, LastLook, PutTaken, SendReset, Check, PutRefused
  <2>2. \A y \in Clients : pc'[y] = "connect" <=> pc[y] = "connect"
    BY <1>a, <2>1 DEF Goto, TypeOK
  <2>3. UNCHANGED phase \/ (Doom({conn[x]}) /\ pc[x] \in InHand)
    BY <1>2 DEF ConnRefuse, ConnCached, ConnRequest, Receive, GiveUp, LastLook, PutTaken, SendReset, Check,
                PutRefused, InHand
  <2>4. \A c \in Conns : phase'[c] \in {"open", "doomed"} => phase[c] \in {"open", "doomed"}
    BY <1>a, <2>3, DoomEffect DEF HoldInv, Idle, Held, Gone, Holding
  <2> QED BY <1>b, <2>1, <2>2, <2>4, ConnectsSame, AliveLess, LiveIs
<1>3. ASSUME NEW x \in Clients, ConnOpen(x) PROVE numOpen' <= maxOpen
  BY <1>b, <1>3 DEF ConnOpen
<1>4. ASSUME NEW x \in Clients, ConnectFails(x) PROVE Live' <= Live \/ numOpen' <= maxOpen
  <2>1. UNCHANGED <<opener, phase>> /\ MaybeOpenNewConnections(numOpen - 1, connRequests)
    BY <1>4 DEF ConnectFails
  <2>2. Cardinality(Connects') = Cardinality(Connects) - 1
    <3>1. PICK l \in {"conn", "failed"} : Goto(x, l)
      BY <1>a, <1>4, FailsGoto DEF ConnectFails
    <3> QED BY <1>a, <1>4, <3>1, ConnectsLeave DEF ConnectFails
  <2>3. openerCh' = openerCh \/ numOpen' <= maxOpen
    BY <1>b, <1>c, <2>1
  <2>4. Cardinality(Alive') <= Cardinality(Alive)
    BY <2>1, AliveLess
  <2> QED BY <1>b, <2>1, <2>2, <2>3, <2>4, LiveIs
<1>5. ASSUME NEW x \in Clients, Connected(x) PROVE Live' <= Live
  <2>1. UNCHANGED <<opener, openerCh>>
    BY <1>5 DEF Connected
  <2>2. Cardinality(Connects') = Cardinality(Connects) - 1
    BY <1>a, <1>5, ConnectsLeave DEF Connected
  <2>3. Cardinality(Alive') = Cardinality(Alive) + 1
    BY <1>a, <1>5, FreshOK, AliveNew DEF Connected, Create
  <2> QED BY <1>b, <2>1, <2>2, <2>3, LiveIs
<1>6. ASSUME NEW x \in Clients, PutBad(x) PROVE Live' <= Live \/ numOpen' <= maxOpen
  <2>1. /\ UNCHANGED opener /\ MaybeOpenNewConnections(numOpen, connRequests) /\ pc[x] \in InHand
        /\ Doom({conn[x]})
    BY <1>6 DEF PutBad, InHand
  <2>2. \A y \in Clients : pc'[y] = "connect" <=> pc[y] = "connect"
    BY <1>a, <1>6 DEF PutBad, Goto, TypeOK
  <2>3. \A c \in Conns : phase'[c] \in {"open", "doomed"} => phase[c] \in {"open", "doomed"}
    BY <1>a, <2>1, DoomEffect DEF HoldInv, Idle, Held, Gone, Holding
  <2>4. openerCh' = openerCh \/ numOpen' <= maxOpen
    BY <1>b, <1>c, <2>1
  <2> QED BY <1>b, <2>1, <2>2, <2>3, <2>4, ConnectsSame, AliveLess, LiveIs
<1>7. ASSUME NEW dc \in Conns, FinalClose(dc) PROVE Live' <= Live \/ numOpen' <= maxOpen
  <2>1. UNCHANGED opener /\ MaybeOpenNewConnections(numOpen - 1, connRequests)
    BY <1>7 DEF FinalClose, CountAfterClose
  <2>2. \A y \in Clients : pc'[y] = "connect" <=> pc[y] = "connect"
    BY <1>7 DEF FinalClose, Retry
  <2>3. \A c \in Conns : phase'[c] \in {"open", "doomed"} => phase[c] \in {"open", "doomed"}
    BY <1>a, <1>7 DEF FinalClose, TypeOK
  <2>4. openerCh' = openerCh \/ numOpen' <= maxOpen
    BY <1>b, <1>c, <2>1
  <2> QED BY <1>b, <2>1, <2>2, <2>3, <2>4, ConnectsSame, AliveLess, LiveIs
<1>8. ASSUME OpenerFails PROVE Live' <= Live \/ numOpen' <= maxOpen
  <2>1. UNCHANGED <<pc, phase>> /\ opener = "connect" /\ opener' = "select"
    BY <1>8 DEF OpenerFails
  <2>2. PICK R \in SUBSET Clients : MaybeOpenNewConnections(numOpen - 1, R)
    BY <1>8 DEF OpenerFails, TypeOK
  <2>3. openerCh' = openerCh \/ numOpen' <= maxOpen
    BY <1>b, <1>c, <2>2
  <2> QED BY <1>b, <2>1, <2>3, ConnectsSame, AliveLess, LiveIs
<1>9. ASSUME OpenerConnected PROVE Live' <= Live
  <2>1. UNCHANGED <<pc, openerCh>> /\ opener = "connect" /\ opener' = "select"
    BY <1>9 DEF OpenerConnected
  <2>2. Cardinality(Alive') <= Cardinality(Alive) + 1
    <3>1. CASE Left /\ Create(Fresh)
      <4>1. Cardinality(Alive') = Cardinality(Alive) + 1
        BY <1>a, <3>1, FreshOK, AliveNew DEF Create
      <4> QED BY <1>b, <4>1
    <3>2. CASE UNCHANGED phase
      BY <1>b, <3>2, AliveLess
    <3> QED BY <1>9, <3>1, <3>2 DEF OpenerConnected
  <2> QED BY <1>b, <2>1, <2>2, ConnectsSame, LiveIs
<1> QED
  BY <1>1, <1>2, <1>3, <1>4, <1>5, <1>6, <1>7, <1>8, <1>9
  DEF Next, Client, Closing, Opener, CloseGoesOn, World

-----------------------------------------------------------------------------
(* The theorems. *)

LEMMA InitIInv == Init => IInv
<1> SUFFICES ASSUME Init PROVE IInv
  OBVIOUS
<1>1. freeConn = <<>> /\ Range(freeConn) = {} /\ resetterCh = <<>> /\ Range(resetterCh) = {}
      /\ IsInjective(freeConn) /\ IsInjective(resetterCh)
  BY DEF Init, Range, IsInjective
<1>2. TypeOK
  <2>1. maxOpen \in Nat /\ maxIdle \in Nat /\ numOpen \in Nat /\ openerCh \in Nat /\ faults \in 0..MaxFaults
    BY SqlPoolAssumption DEF Init
  <2>2. freeConn \in Seq(Conns) /\ resetterCh \in Seq(locked)
    BY <1>1
  <2>3. attempt \in [Clients -> 0..maxBadConnRetries]
    BY DEF Init, maxBadConnRetries
  <2>4. sessionResetter \in BOOLEAN
    BY SqlPoolAssumption DEF Init
  <2> QED BY <1>1, <2>1, <2>2, <2>3, <2>4 DEF Init, TypeOK
<1>3. HoldInv
  BY <1>1, SqlPoolAssumption DEF Init, HoldInv, Idle, Held, Gone, Holding, InHand
<1>4. RequestInv /\ DirtyInv /\ ResetBeforeReuse /\ NoneIdleWhileWaiting
  BY SqlPoolAssumption DEF Init, RequestInv, DirtyInv, ResetBeforeReuse, NoneIdleWhileWaiting
<1>5. LockInv
  <2>1. locked = {} /\ resetter \notin Conns /\ \A x \in Clients : pc[x] # "reset"
    BY SqlPoolAssumption DEF Init
  <2> QED BY <1>1, <2>1 DEF LockInv
<1>6. CountInv
  <2>1. Connects = {} /\ Exist = {}
    BY DEF Init, Connects, Exist
  <2>2. Cardinality(Connects) = 0 /\ Cardinality(Exist) = 0
    BY <2>1, FS_EmptySet
  <2>3. Total = 0
    BY <2>2, TotalIs DEF Init
  <2> QED BY <2>3 DEF Init, CountInv
<1> QED BY <1>2, <1>3, <1>4, <1>5, <1>6 DEF IInv

LEMMA StepIInv == IInv /\ [Next]_vars => IInv'
<1>1. ASSUME IInv, Next PROVE IInv'
  <2>1. TypeOK'
    BY <1>1, TypeStep
  <2> QED BY <1>1, <2>1, HoldStep, RequestStep, IdleStep, LockStep, DirtyStep, UseStep, CountStep DEF IInv
<1>2. ASSUME IInv, UNCHANGED vars PROVE IInv'
  <2> USE <1>2 DEF IInv, vars, dbVars, poolVars, openVars, sessVars, connVars, callVars, bgVars
  <2>1. TypeOK'
    BY DEF TypeOK
  <2>2. HoldInv'
    BY HoldSame DEF Holding, HoldInv
  <2>3. RequestInv' /\ LockInv'
    BY RequestSame, LockSame
  <2>4. DirtyInv' /\ ResetBeforeReuse' /\ NoneIdleWhileWaiting'
    BY DirtySame, UseSame, IdleSame
  <2>5. CountInv'
    BY CountSame, ConnectsSame, ExistSame
  <2> QED BY <2>1, <2>2, <2>3, <2>4, <2>5
<1> QED BY <1>1, <1>2

LEMMA Invariance == Spec => []IInv
  BY InitIInv, StepIInv, PTL DEF Spec

(***************************************************************************)
(* numOpen, which conn, connectionOpener, finalClose and                   *)
(* maybeOpenNewConnections raise and lower, is exact until Close, and the  *)
(* types hold: no connection is idle twice, and what is queued for its     *)
(* reset is locked.                                                        *)
(***************************************************************************)
THEOREM OpenCountExact == Spec => []Inv
<1>1. IInv => Inv
  <2> SUFFICES ASSUME IInv PROVE Inv
    OBVIOUS
  <2>1. Exist = {c \in Conns : phase[c] # "none"}
    BY DEF Exist
  <2> QED BY <2>1 DEF IInv, Inv, NumOpenExact, CountInv, Total
<1> QED BY <1>1, Invariance, PTL

(***************************************************************************)
(* An open connection is idle, with one client or on its way to one: conn, *)
(* putConn and the second select of a client that gives up neither share   *)
(* nor lose a connection.                                                  *)
(***************************************************************************)
THEOREM NeverSharedNorLost == Spec => []OneHolder
<1>1. IInv => OneHolder
  <2> SUFFICES ASSUME IInv, NEW dc \in Conns
               PROVE  IF dc \in Range(freeConn) THEN phase[dc] = "open" /\ Holders(dc) = {} /\ dc \notin inUse
                      ELSE phase[dc] = "open" => Cardinality(Holders(dc)) = 1 /\ dc \in inUse
    BY DEF OneHolder
  <2>1. Holders(dc) = {x \in Clients : Holding(x, dc)}
    BY DEF Holders, Holding, InHand
  <2>2. CASE Idle(dc) \/ Gone(dc)
    BY <2>1, <2>2 DEF Idle, Gone
  <2>3. CASE Held(dc)
    <3>1. \E r : Holders(dc) = {r}
      BY <2>1, <2>3 DEF Held
    <3>2. Cardinality(Holders(dc)) = 1
      BY <3>1, FS_Singleton
    <3> QED BY <2>3, <3>2 DEF Held
  <2> QED BY <2>2, <2>3 DEF IInv, HoldInv
<1> QED BY <1>1, Invariance, PTL

(***************************************************************************)
(* putConn keeps a used connection of a driver that can reset it locked    *)
(* until resetSession has run, or marks it bad: while the resetter lives,  *)
(* no client uses it before ResetSession returned for it, and what it uses *)
(* is reset unless the driver's ResetSession failed with an error that the *)
(* code discards.                                                          *)
(***************************************************************************)
THEOREM UsedOnlyWhenReset == Spec => []ResetBeforeReuse
<1>1. IInv => ResetBeforeReuse
  BY DEF IInv
<1> QED BY <1>1, Invariance, PTL

(***************************************************************************)
(* putConnDBLocked serves the requests before it fills freeConn, and conn  *)
(* queues only when freeConn is empty or on the last attempt: nobody else  *)
(* waits beside an idle connection.                                        *)
(***************************************************************************)
THEOREM IdleOnlyWhenServed == Spec => []NoneIdleWhileWaiting
<1>1. IInv => NoneIdleWhileWaiting
  BY DEF IInv
<1> QED BY <1>1, Invariance, PTL

(***************************************************************************)
(* conn opens only below maxOpen and maybeOpenNewConnections asks for no   *)
(* more than is left of it, so the connections that are open, being opened *)
(* or asked for grow only within the limit of that moment.                 *)
(***************************************************************************)
THEOREM WithinLimit == Spec => GrowsWithinLimit
<1>1. IInv /\ IInv' /\ [Next]_vars => [(~closed /\ maxOpen > 0 /\ Live' > Live) => Live' <= maxOpen]_vars
  <2> SUFFICES ASSUME IInv, IInv', Next, ~closed, maxOpen > 0, Live' > Live PROVE Live' <= maxOpen
    OBVIOUS
  <2>1. TypeOK /\ TypeOK' /\ CountInv'
    BY DEF IInv
  <2>2. Live' <= Live \/ numOpen' <= maxOpen
    BY <2>1, GrowStep
  <2>3. Live' <= numOpen'
    BY <2>1, LiveCounted
  <2>4. Live \in Nat /\ Live' \in Nat
    <3>1. Connects \in SUBSET Clients /\ Connects' \in SUBSET Clients
      BY DEF Connects
    <3>2. IsFiniteSet(Connects) /\ IsFiniteSet(Connects')
      BY <3>1, SqlPoolAssumption, FS_Subset
    <3>3. Cardinality(Connects) \in Nat /\ Cardinality(Connects') \in Nat /\ openerCh \in Nat /\ openerCh' \in Nat
      BY <2>1, <3>2, FS_CardinalityType DEF TypeOK
    <3> QED BY <3>3, LiveIs, AliveFacts
  <2>5. maxOpen \in Nat /\ numOpen' \in Nat
    BY <2>1 DEF TypeOK
  <2> QED BY <2>2, <2>3, <2>4, <2>5
<1>2. IInv /\ [Next]_vars => IInv'
  BY StepIInv
<1> QED BY <1>1, <1>2, Invariance, PTL DEF Spec, GrowsWithinLimit
=============================================================================
