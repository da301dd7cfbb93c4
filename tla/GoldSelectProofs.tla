--------------------------- MODULE GoldSelectProofs ---------------------------
(***************************************************************************)
(* Channel_Select, for any channels, capacities, selects with any cases,   *)
(* plain calls and closings: a blocking select that returned left nothing  *)
(* in its channels but the case it returned, and one that only receives    *)
(* took the value of that case and no other.  The argument:                *)
(*   - a handle is queued once, on its own channel, after its case was     *)
(*     started, and never if it is nil (QueueInv); so a Cancel that        *)
(*     removes one occurrence removes the handle;                          *)
(*   - while a select cancels, what it has queued is still to be cancelled *)
(*     or is the case it returns (LeftInv);                                *)
(*   - a select holds lLock while it starts its cases, and nobody records  *)
(*     a completed case meanwhile (LockInv); from the first one recorded   *)
(*     on all its receives refuse (FireInv).                               *)
(***************************************************************************)
EXTENDS GoldSelect, FiniteSetTheorems, WellFoundedInduction, TLAPS

InQueue(h) == h \in ToSet(fData[Ch(h)]) \cup ToSet(fWaiting[Ch(h)])

QueueInv ==
  /\ \A c \in Chans : /\ IsInjective(fData[c]) /\ IsInjective(fWaiting[c])
                      /\ \A h \in ToSet(fData[c]) \cup ToSet(fWaiting[c]) : Ch(h) = c
  /\ \A p \in Procs : \A i \in Indices(p) : InQueue(<<p, i>>) =>
       /\ i \notin nilH[p]
       /\ i < idx[p] \/ (i = idx[p] /\ pc[p] \notin {"idle", "start", "enter"})
  /\ \A p \in Procs : /\ pc[p] \in {"enter", "scan"} => idx[p] \in Indices(p) \ nilH[p]
                      /\ pc[p] = "idle" => idx[p] = 1

LeftInv ==
  /\ \A p \in Selects :
       /\ pc[p] \in {"cancel", "canceling", "returned"} =>
            \A i \in Indices(p) : InQueue(<<p, i>>) => i \in todo[p] \cup {ret[p]}
       /\ pc[p] \notin {"cancel", "canceling"} => todo[p] = {}
  /\ \A p \in Procs : pc[p] = "canceling" => todo[p] # {}

LockInv ==
  \A p \in Selects :
    /\ pc[p] \in {"start", "enter", "scan"} => lLock[p] = p
    /\ pc[p] \in {"idle", "start", "enter", "scan"} \/ AllNil(p) => lDone[p] = 0

FireInv ==
  \A p \in Selects : OnlyReceives(p) =>
    /\ fired[p] \subseteq {lDone[p]}
    /\ pc[p] \in {"cancel", "canceling", "returned"} =>
         AllNil(p) \/ (lDone[p] # 0 /\ ret[p] = lDone[p])

\* The inductive invariant.
IInv == TypeOK /\ QueueInv /\ LeftInv /\ LockInv /\ FireInv

(***************************************************************************)
(* Facts about numbers, sequences and handles.                             *)
(***************************************************************************)
\* A set of numbers that is not empty has a least element.
LEMMA LeastOf ==
  ASSUME NEW S \in SUBSET Nat, S # {}
  PROVE  \E i \in S : \A j \in S : i <= j
<1> DEFINE R == OpToRel(<, Nat)
<1>1. IsWellFoundedOn(R, Nat)
  BY NatLessThanWellFounded
<1>2. \A i, j \in Nat : <<i, j>> \in R <=> i < j
  BY DEF OpToRel
<1> HIDE DEF R
<1>3. PICK i \in S : \A j \in S : ~(<<j, i>> \in R)
  BY <1>1, WFMin
<1>4. i \in Nat /\ \A j \in S : j \in Nat /\ ~(j < i)
  BY <1>2, <1>3
<1>5. \A j \in S : i <= j
  BY <1>4
<1> QED BY <1>5

LEMMA MinIn == ASSUME NEW S \in SUBSET Nat, S # {} PROVE Min(S) \in S
  BY LeastOf DEF Min

LEMMA SeqElement == ASSUME NEW T, NEW q \in Seq(T), NEW i \in 1..Len(q) PROVE q[i] \in T
  OBVIOUS

LEMMA ToSetOf ==
  ASSUME NEW T, NEW q \in Seq(T)
  PROVE  ToSet(q) = {q[i] : i \in 1..Len(q)} /\ ToSet(q) \subseteq T
<1>1. DOMAIN q = 1..Len(q) /\ \A i \in 1..Len(q) : q[i] \in T
  OBVIOUS
<1> QED BY <1>1 DEF ToSet

\* Joining a queue.
LEMMA AppendFacts ==
  ASSUME NEW T, NEW q \in Seq(T), IsInjective(q), NEW e \in T, e \notin ToSet(q)
  PROVE  /\ Append(q, e) \in Seq(T) /\ IsInjective(Append(q, e))
         /\ ToSet(Append(q, e)) = ToSet(q) \cup {e}
<1>1. /\ Append(q, e) \in Seq(T) /\ Len(Append(q, e)) = Len(q) + 1 /\ Len(q) \in Nat
      /\ \A i \in 1..Len(q) : Append(q, e)[i] = q[i]
      /\ Append(q, e)[Len(q) + 1] = e
  OBVIOUS
<1>2. ToSet(Append(q, e)) = {Append(q, e)[i] : i \in 1..(Len(q) + 1)} /\ ToSet(q) = {q[i] : i \in 1..Len(q)}
  BY <1>1, ToSetOf
<1>3. ToSet(Append(q, e)) = ToSet(q) \cup {e}
  BY <1>1, <1>2
<1>4. IsInjective(Append(q, e))
  <2> SUFFICES ASSUME NEW i \in 1..(Len(q) + 1), NEW j \in 1..(Len(q) + 1),
                      Append(q, e)[i] = Append(q, e)[j]
               PROVE  i = j
    BY <1>1 DEF IsInjective
  <2>1. \A k \in 1..Len(q) : q[k] # e
    BY <1>2
  <2> QED BY <1>1, <2>1 DEF IsInjective
<1> QED BY <1>1, <1>3, <1>4

\* Leaving a queue: one occurrence is removed, and there is no other.
LEMMA RemoveFacts ==
  ASSUME NEW T, NEW q \in Seq(T), IsInjective(q), NEW e
  PROVE  /\ RemoveFirst(q, e) \in Seq(T) /\ IsInjective(RemoveFirst(q, e))
         /\ ToSet(RemoveFirst(q, e)) = ToSet(q) \ {e}
<1>1. Len(q) \in Nat /\ ToSet(q) = {q[i] : i \in 1..Len(q)}
  BY ToSetOf
<1>2. CASE ~\E i \in 1..Len(q) : q[i] = e
  BY <1>1, <1>2 DEF RemoveFirst
<1>3. CASE \E i \in 1..Len(q) : q[i] = e
  <2> DEFINE I == {i \in 1..Len(q) : q[i] = e}
  <2>1. I \in SUBSET Nat /\ I # {}
    BY <1>3
  <2>2. PICK k : k = Min(I)
    OBVIOUS
  <2>3. k \in 1..Len(q) /\ q[k] = e
    BY <2>1, <2>2, MinIn
  <2>4. RemoveFirst(q, e) = SubSeq(q, 1, k - 1) \o SubSeq(q, k + 1, Len(q))
    BY <1>3, <2>2 DEF RemoveFirst, SelectInSeq, RemoveAt
  <2> HIDE DEF I
  <2> DEFINE r == SubSeq(q, 1, k - 1) \o SubSeq(q, k + 1, Len(q))
  <2>5. /\ r \in Seq(T) /\ Len(r) = Len(q) - 1
        /\ \A i \in 1..(Len(q) - 1) : r[i] = IF i < k THEN q[i] ELSE q[i + 1]
    <3>1. /\ SubSeq(q, 1, k - 1) \in Seq(T) /\ Len(SubSeq(q, 1, k - 1)) = k - 1
          /\ \A i \in 1..(k - 1) : SubSeq(q, 1, k - 1)[i] = q[i]
      BY <1>1, <2>3
    <3>2. /\ SubSeq(q, k + 1, Len(q)) \in Seq(T) /\ Len(SubSeq(q, k + 1, Len(q))) = Len(q) - k
          /\ \A i \in 1..(Len(q) - k) : SubSeq(q, k + 1, Len(q))[i] = q[k + i]
      BY <1>1, <2>3
    <3> DEFINE a == SubSeq(q, 1, k - 1)
               b == SubSeq(q, k + 1, Len(q))
    <3> HIDE DEF a, b
    <3>3. a \in Seq(T) /\ b \in Seq(T) /\ Len(a) = k - 1 /\ Len(b) = Len(q) - k
      BY <3>1, <3>2 DEF a, b
    <3>4. a \o b \in Seq(T) /\ Len(a \o b) = Len(q) - 1
      BY <1>1, <2>3, <3>3
    <3>5. ASSUME NEW i \in 1..(Len(q) - 1) PROVE (a \o b)[i] = IF i < k THEN q[i] ELSE q[i + 1]
      <4>1. CASE i < k
        <5>1. i \in 1..Len(a)
          BY <2>3, <3>3, <4>1
        <5>2. (a \o b)[i] = a[i]
          BY <3>3, <5>1
        <5> QED BY <3>1, <3>3, <4>1, <5>1, <5>2 DEF a
      <4>2. CASE ~(i < k)
        <5>1. i - Len(a) \in 1..Len(b) /\ i - Len(a) = i - k + 1 /\ k + (i - k + 1) = i + 1
          BY <1>1, <2>3, <3>3, <4>2
        <5>2. (a \o b)[i] = b[i - Len(a)]
          BY <1>1, <3>3, <5>1
        <5>3. b[i - k + 1] = q[k + (i - k + 1)]
          BY <3>2, <3>3, <5>1 DEF b
        <5> QED BY <4>2, <5>1, <5>2, <5>3
      <4> QED BY <4>1, <4>2
    <3> QED BY <3>4, <3>5 DEF a, b
  <2> HIDE DEF r
  <2>6. \A i, j \in 1..Len(q) : q[i] = q[j] => i = j
    BY DEF IsInjective
  <2>7. IsInjective(r)
    <3> SUFFICES ASSUME NEW i \in 1..(Len(q) - 1), NEW j \in 1..(Len(q) - 1), r[i] = r[j]
                 PROVE  i = j
      BY <2>5 DEF IsInjective
    <3>1. i \in 1..Len(q) /\ j \in 1..Len(q) /\ i + 1 \in 1..Len(q) /\ j + 1 \in 1..Len(q)
      BY <1>1
    <3> QED BY <2>3, <2>5, <2>6, <3>1
  <2>8. ToSet(r) = {r[i] : i \in 1..(Len(q) - 1)}
    BY <2>5, ToSetOf
  <2>9. ToSet(r) \subseteq ToSet(q) \ {e}
    <3> SUFFICES ASSUME NEW i \in 1..(Len(q) - 1) PROVE r[i] \in ToSet(q) /\ r[i] # e
      BY <2>8
    <3>1. i \in 1..Len(q) /\ i + 1 \in 1..Len(q)
      BY <1>1
    <3> QED BY <1>1, <2>3, <2>5, <2>6, <3>1
  <2>10. ToSet(q) \ {e} \subseteq ToSet(r)
    <3> SUFFICES ASSUME NEW i \in 1..Len(q), q[i] # e PROVE q[i] \in ToSet(r)
      BY <1>1
    <3>1. CASE i < k
      <4>1. i \in 1..(Len(q) - 1) /\ r[i] = q[i]
        BY <1>1, <2>3, <2>5, <3>1
      <4> QED BY <2>8, <4>1
    <3>2. CASE i > k
      <4>1. i - 1 \in 1..(Len(q) - 1) /\ r[i - 1] = q[i]
        BY <1>1, <2>3, <2>5, <3>2
      <4> QED BY <2>8, <4>1
    <3> QED BY <2>3, <3>1, <3>2
  <2> QED BY <2>4, <2>5, <2>7, <2>9, <2>10 DEF r
<1> QED BY <1>2, <1>3

\* What a handle is.
LEMMA HandleFacts ==
  ASSUME NEW h \in Handles
  PROVE  /\ h[1] \in Procs /\ h[2] \in Indices(h[1]) /\ h = <<h[1], h[2]>>
         /\ Ch(h) \in Chans /\ Dir(h) \in {"send", "recv"}
<1>0. PICK p \in Procs : \E i \in Indices(p) : h = <<p, i>>
  BY DEF Handles
<1>1. PICK i \in Indices(p) : h = <<p, i>>
  BY <1>0
<1>2. Cases[p] \in Seq([ch : Chans, dir : {"send", "recv"}])
  BY SelectAssumption
<1>3. Cases[p][i] \in [ch : Chans, dir : {"send", "recv"}]
  <2>1. i \in 1..Len(Cases[p])
    BY DEF Indices
  <2> QED BY <1>2, <2>1, SeqElement
<1>4. h[1] = p /\ h[2] = i
  BY <1>1
<1> QED BY <1>1, <1>3, <1>4 DEF Ch, Dir

LEMMA IsHandle ==
  ASSUME NEW p \in Procs, NEW i \in Indices(p)
  PROVE  <<p, i>> \in Handles /\ i \in Nat /\ i # 0 /\ Len(Cases[p]) \in Nat /\ i <= Len(Cases[p])
<1>1. Cases[p] \in Seq([ch : Chans, dir : {"send", "recv"}])
  BY SelectAssumption
<1> QED BY <1>1 DEF Handles, Indices

-----------------------------------------------------------------------------
(* The queues, and the exchange of a value. *)

SendHandles == {h \in Handles : Dir(h) = "send"}
RecvHandles == {h \in Handles : Dir(h) = "recv"}

\* In the step no handle joins a queue.
NobodyJoins ==
  /\ fData' \in [Chans -> Seq(SendHandles)] /\ fWaiting' \in [Chans -> Seq(RecvHandles)]
  /\ \A c \in Chans : /\ IsInjective(fData'[c]) /\ IsInjective(fWaiting'[c])
                      /\ ToSet(fData'[c]) \subseteq ToSet(fData[c])
                      /\ ToSet(fWaiting'[c]) \subseteq ToSet(fWaiting[c])

LEMMA SameQueues == ASSUME TypeOK, QueueInv, UNCHANGED <<fData, fWaiting>> PROVE NobodyJoins
  BY DEF TypeOK, QueueInv, NobodyJoins, SendHandles, RecvHandles

LEMMA Removal ==
  ASSUME TypeOK, QueueInv, NEW c \in Chans, NEW e,
         fData' \in {fData, [fData EXCEPT ![c] = RemoveFirst(fData[c], e)]}, NEW g,
         fWaiting' \in {fWaiting, [fWaiting EXCEPT ![c] = RemoveFirst(fWaiting[c], g)]}
  PROVE  NobodyJoins
<1>1. /\ fData \in [Chans -> Seq(SendHandles)] /\ fWaiting \in [Chans -> Seq(RecvHandles)]
      /\ \A d \in Chans : IsInjective(fData[d]) /\ IsInjective(fWaiting[d])
  BY DEF TypeOK, QueueInv, SendHandles, RecvHandles
<1>2. /\ RemoveFirst(fData[c], e) \in Seq(SendHandles) /\ IsInjective(RemoveFirst(fData[c], e))
      /\ ToSet(RemoveFirst(fData[c], e)) \subseteq ToSet(fData[c])
  BY <1>1, RemoveFacts
<1>3. /\ RemoveFirst(fWaiting[c], g) \in Seq(RecvHandles) /\ IsInjective(RemoveFirst(fWaiting[c], g))
      /\ ToSet(RemoveFirst(fWaiting[c], g)) \subseteq ToSet(fWaiting[c])
  BY <1>1, RemoveFacts
<1> QED BY <1>1, <1>2, <1>3 DEF NobodyJoins

\* Nobody joins the queue of a handle.
LEMMA StaysOut ==
  ASSUME NobodyJoins, NEW h \in Handles, InQueue(h)' PROVE InQueue(h)
  BY HandleFacts DEF NobodyJoins, InQueue

\* Who exchanges a value in ScanExchange: process p, which scans, and the owner
\* of a queued handle g that is not locked by another and does not refuse.
LEMMA ExchangeFacts ==
  ASSUME IInv, NEW p \in Procs, ScanExchange(p)
  PROVE  \E snd, rcv, g \in Handles :
           /\ (snd = <<p, idx[p]>> /\ rcv = g) \/ (snd = g /\ rcv = <<p, idx[p]>>)
           /\ Dir(snd) = "send" /\ Dir(rcv) = "recv"
           /\ InQueue(g) /\ CanLock(p, g) /\ ~Refuses(g)
           /\ NobodyJoins
           /\ \A q \in Procs : /\ lDone'[q] = IF q = snd[1] /\ Live(snd) THEN snd[2]
                                              ELSE IF q = rcv[1] THEN rcv[2] ELSE lDone[q]
                               /\ fired'[q] = fired[q] \cup {i \in {rcv[2]} : q = rcv[1]}
                                                       \cup {i \in {snd[2]} : q = snd[1]}
           /\ lDone' \in [Procs -> Nat] /\ fired' \in [Procs -> SUBSET Nat]
<1>1. TypeOK /\ QueueInv
  BY DEF IInv
<1>2. PICK h \in Handles : h = <<p, idx[p]>>
  <2>1. idx[p] \in Indices(p)
    BY <1>1 DEF ScanExchange, QueueInv
  <2> QED BY <2>1, IsHandle
<1>3. PICK c \in Chans : c = Ch(h)
  BY HandleFacts
<1>4. PICK g : g = Partners(h)[pos[p]]
  OBVIOUS
<1>5. pos[p] \in 1..Len(Partners(h)) /\ CanLock(p, g) /\ ~Refuses(g)
  BY <1>1, <1>2, <1>4 DEF ScanExchange, TypeOK
<1>6. fData[c] \in Seq(SendHandles) /\ fWaiting[c] \in Seq(RecvHandles)
  BY <1>1 DEF TypeOK, SendHandles, RecvHandles
<1>7. IF Dir(h) = "recv" THEN g \in SendHandles /\ g \in ToSet(fData[c])
                         ELSE g \in RecvHandles /\ g \in ToSet(fWaiting[c])
  <2>1. CASE Dir(h) = "recv"
    BY <1>3, <1>4, <1>5, <1>6, <2>1, SeqElement, ToSetOf DEF Partners
  <2>2. CASE Dir(h) # "recv"
    BY <1>3, <1>4, <1>5, <1>6, <2>2, SeqElement, ToSetOf DEF Partners
  <2> QED BY <2>1, <2>2
<1>8. g \in Handles /\ Ch(g) = c
  BY <1>1, <1>7 DEF QueueInv, SendHandles, RecvHandles
<1>9. InQueue(g)
  BY <1>7, <1>8 DEF InQueue
<1>10. PICK snd, rcv \in Handles :
         /\ snd = IF Dir(h) = "send" THEN h ELSE g
         /\ rcv = IF Dir(h) = "send" THEN g ELSE h
         /\ Dir(snd) = "send" /\ Dir(rcv) = "recv"
  BY <1>7, <1>8, HandleFacts DEF SendHandles, RecvHandles
<1>11. /\ RemoveMessage(p, c, snd)
       /\ fWaiting' = [fWaiting EXCEPT ![c] = RemoveFirst(fWaiting[c], rcv)]
       /\ lDone' = [lDone EXCEPT ![rcv[1]] = rcv[2], ![snd[1]] = IF Live(snd) THEN snd[2] ELSE @]
       /\ fired' = [fired EXCEPT ![rcv[1]] = @ \cup {rcv[2]}, ![snd[1]] = @ \cup {snd[2]}]
  BY <1>2, <1>3, <1>4, <1>6, <1>10 DEF ScanExchange
<1>12. NobodyJoins
  <2>1. fData' \in {fData, [fData EXCEPT ![c] = RemoveFirst(fData[c], snd)]}
    BY <1>11 DEF RemoveMessage
  <2>2. fWaiting' \in {fWaiting, [fWaiting EXCEPT ![c] = RemoveFirst(fWaiting[c], rcv)]}
    BY <1>11
  <2> QED BY <1>1, <2>1, <2>2, Removal
<1>13. /\ rcv[1] \in Procs /\ snd[1] \in Procs /\ rcv[2] \in Nat /\ snd[2] \in Nat
       /\ lDone \in [Procs -> Nat] /\ fired \in [Procs -> SUBSET Nat]
  BY <1>1, HandleFacts, IsHandle DEF TypeOK
<1>14. \A q \in Procs : lDone'[q] = IF q = snd[1] /\ Live(snd) THEN snd[2]
                                    ELSE IF q = rcv[1] THEN rcv[2] ELSE lDone[q]
  BY <1>11, <1>13
<1>15. \A q \in Procs : fired'[q] = fired[q] \cup {i \in {rcv[2]} : q = rcv[1]} \cup {i \in {snd[2]} : q = snd[1]}
  BY <1>11, <1>13
<1>16. lDone' \in [Procs -> Nat] /\ fired' \in [Procs -> SUBSET Nat]
  BY <1>11, <1>13
<1>17. (snd = <<p, idx[p]>> /\ rcv = g) \/ (snd = g /\ rcv = <<p, idx[p]>>)
  BY <1>2, <1>10
<1>18. WITNESS snd \in Handles, rcv \in Handles, g \in Handles
<1> QED BY <1>5, <1>8, <1>9, <1>10, <1>12, <1>14, <1>15, <1>16, <1>17

\* What Close meets in a channel is queued there.
LEMMA MetFacts ==
  ASSUME TypeOK, QueueInv, NEW c \in Chans, NEW i \in 1..Len(Met(c))
  PROVE  Met(c)[i] \in Handles /\ InQueue(Met(c)[i])
<1>1. fData[c] \in Seq(SendHandles) /\ fWaiting[c] \in Seq(RecvHandles)
  BY DEF TypeOK, SendHandles, RecvHandles
<1>2. PICK u, v : u = fData[c] /\ v = fWaiting[c]
  OBVIOUS
<1>3. u \in Seq(Handles) /\ v \in Seq(Handles)
  BY <1>1, <1>2 DEF SendHandles, RecvHandles
<1>4. Met(c)[i] \in ToSet(u) \cup ToSet(v)
  <2>1. i \in 1..(Len(u) + Len(v)) /\ Len(u) \in Nat /\ Len(v) \in Nat
    <3>1. Met(c) = u \o v
      BY <1>2 DEF Met
    <3>2. Len(u \o v) = Len(u) + Len(v) /\ Len(u) \in Nat /\ Len(v) \in Nat
      BY <1>3
    <3> QED BY <3>1, <3>2
  <2>2. CASE i <= Len(u)
    <3>1. i \in 1..Len(u) /\ (u \o v)[i] = u[i]
      BY <1>3, <2>1, <2>2
    <3>2. u[i] \in ToSet(u)
      BY <1>3, <3>1, ToSetOf
    <3> QED BY <1>2, <3>1, <3>2 DEF Met
  <2>3. CASE ~(i <= Len(u))
    <3>1. i - Len(u) \in 1..Len(v) /\ (u \o v)[i] = v[i - Len(u)]
      BY <1>3, <2>1, <2>3
    <3>2. v[i - Len(u)] \in ToSet(v)
      BY <1>3, <3>1, ToSetOf
    <3> QED BY <1>2, <3>1, <3>2 DEF Met
  <2> QED BY <2>2, <2>3
<1>5. Met(c)[i] \in Handles
  BY <1>3, <1>4, ToSetOf
<1>6. Ch(Met(c)[i]) = c
  BY <1>2, <1>4 DEF QueueInv
<1> QED BY <1>2, <1>4, <1>5, <1>6 DEF InQueue

LEMMA CloseFacts ==
  ASSUME TypeOK, QueueInv, NEW c \in Chans, NEW p \in Procs, CloseNotify(c)
  PROVE  /\ NobodyJoins
         /\ lDone'[p] # lDone[p] =>
              \E i \in Indices(p) : /\ lDone[p] = 0 /\ lDone'[p] = i /\ InQueue(<<p, i>>)
                                    /\ p \in Selects => lLock[p] \in {None, c}
<1>1. NobodyJoins
  BY SameQueues DEF CloseNotify
<1>2. ASSUME lDone'[p] # lDone[p]
      PROVE  \E i \in Indices(p) : /\ lDone[p] = 0 /\ lDone'[p] = i /\ InQueue(<<p, i>>)
                                   /\ p \in Selects => lLock[p] \in {None, c}
  <2>1. lDone[p] = 0 /\ Queued(c, p) # {} /\ lDone'[p] = Met(c)[Min(Queued(c, p))][2]
    BY <1>2 DEF CloseNotify
  <2>2. PICK k : k = Min(Queued(c, p))
    OBVIOUS
  <2>3. k \in Queued(c, p)
    <3>1. Queued(c, p) \in SUBSET Nat
      BY DEF Queued
    <3> QED BY <2>1, <2>2, <3>1, MinIn
  <2>4. k \in 1..Len(Met(c)) /\ Met(c)[k][1] = p /\ Live(Met(c)[k])
    BY <2>3 DEF Queued
  <2>5. PICK h : h = Met(c)[k]
    OBVIOUS
  <2>6. h \in Handles /\ InQueue(h) /\ h[1] = p /\ Live(h) /\ CanLock(c, h)
    BY <2>4, <2>5, MetFacts DEF CloseNotify
  <2>7. h[2] \in Indices(p) /\ h = <<p, h[2]>>
    BY <2>6, HandleFacts
  <2>8. p \in Selects => lLock[p] \in {None, c}
    BY <2>6 DEF CanLock, Guarded
  <2>9. lDone'[p] = h[2]
    BY <2>1, <2>2, <2>5
  <2>10. InQueue(<<p, h[2]>>)
    BY <2>6, <2>7
  <2> QED BY <2>1, <2>7, <2>8, <2>9, <2>10
<1> QED BY <1>1, <1>2

-----------------------------------------------------------------------------
(* Types. *)

\* The types of what the end of a Start assigns.
Started(p) ==
  /\ ret' \in [Procs -> Nat] /\ \A q \in Procs : ret'[q] \in Indices(q) \cup {0}
  /\ todo' \in [Procs -> SUBSET Nat] /\ \A q \in Procs : todo'[q] \subseteq Indices(q)
  /\ idx' \in [Procs -> Nat] /\ \A q \in Procs : idx'[q] \in 1..Len(Cases[q]) + 1
  /\ pc' \in [Procs -> {"idle", "start", "enter", "scan", "wait", "cancel", "canceling",
                        "returned", "default", "raised"}]

LEMMA TrueTypes ==
  ASSUME TypeOK, NEW p \in Procs, idx[p] \in Indices(p), StartTrue(p), Len(Cases[p]) \in Nat
  PROVE  Started(p)
<1>1. Indices(p) = 1..Len(Cases[p])
  BY DEF Indices
<1>2. ret' \in [Procs -> Nat] /\ \A q \in Procs : ret'[q] \in Indices(q) \cup {0}
  BY <1>1 DEF TypeOK, StartTrue
<1>3. todo' \in [Procs -> SUBSET Nat] /\ \A q \in Procs : todo'[q] \subseteq Indices(q)
  BY <1>1 DEF TypeOK, StartTrue
<1> QED BY <1>2, <1>3 DEF TypeOK, StartTrue, Started

LEMMA FalseTypes ==
  ASSUME TypeOK, NEW p \in Procs, idx[p] \in Indices(p), StartFalse(p), Len(Cases[p]) \in Nat
  PROVE  Started(p)
<1>1. Indices(p) = 1..Len(Cases[p])
  BY DEF Indices
<1> QED BY <1>1 DEF TypeOK, StartFalse, Started

\* Cancel takes the handle out of its channel.
LEMMA CancelFacts ==
  ASSUME TypeOK, QueueInv, NEW p \in Procs, todo[p] # {}, CancelRemove(p)
  PROVE  /\ NobodyJoins /\ fNotifier' \subseteq fNotifier
         /\ \E k \in Indices(p) : k = NextCancel(p) /\ ~InQueue(<<p, k>>)'
<1>1. PICK k : k = NextCancel(p)
  OBVIOUS
<1>2. k \in Indices(p)
  <2>1. todo[p] \in SUBSET Nat /\ todo[p] \subseteq Indices(p)
    BY DEF TypeOK
  <2> QED BY <1>1, <2>1, MinIn DEF NextCancel
<1>3. PICK h \in Handles : h = <<p, k>>
  BY <1>2, IsHandle
<1>4. PICK c \in Chans : c = Ch(h)
  BY HandleFacts
<1>5. \/ /\ h \in ToSet(fData[c]) /\ RemoveMessage(p, c, h) /\ UNCHANGED fWaiting
      \/ /\ h \notin ToSet(fData[c]) /\ UNCHANGED <<fData, fNotifier>>
         /\ fWaiting' = [fWaiting EXCEPT ![c] = RemoveFirst(fWaiting[c], h)]
  BY <1>1, <1>3, <1>4 DEF CancelRemove
<1>6. \/ /\ h \in ToSet(fData[c]) /\ UNCHANGED fWaiting
         /\ fData' = [fData EXCEPT ![c] = RemoveFirst(fData[c], h)]
      \/ /\ h \notin ToSet(fData[c]) /\ UNCHANGED fData
         /\ fWaiting' = [fWaiting EXCEPT ![c] = RemoveFirst(fWaiting[c], h)]
  BY <1>5 DEF RemoveMessage
<1>7. fNotifier' \subseteq fNotifier
  BY <1>5 DEF RemoveMessage
<1>8. NobodyJoins
  <2>1. /\ fData' \in {fData, [fData EXCEPT ![c] = RemoveFirst(fData[c], h)]}
        /\ fWaiting' \in {fWaiting, [fWaiting EXCEPT ![c] = RemoveFirst(fWaiting[c], h)]}
    BY <1>6
  <2> QED BY <2>1, Removal
<1>9. h \notin ToSet(fData'[c]) \cup ToSet(fWaiting'[c])
  <2>1. /\ fData \in [Chans -> Seq(SendHandles)] /\ fWaiting \in [Chans -> Seq(RecvHandles)]
        /\ IsInjective(fData[c]) /\ IsInjective(fWaiting[c])
    BY DEF TypeOK, QueueInv, SendHandles, RecvHandles
  <2>2. CASE h \in ToSet(fData[c])
    <3>1. fData'[c] = RemoveFirst(fData[c], h) /\ fWaiting'[c] = fWaiting[c]
      BY <1>6, <2>1, <2>2
    <3>2. h \notin ToSet(RemoveFirst(fData[c], h))
      BY <2>1, RemoveFacts
    <3>3. ToSet(fData[c]) \subseteq SendHandles /\ ToSet(fWaiting[c]) \subseteq RecvHandles
      BY <2>1, ToSetOf
    <3>4. h \notin ToSet(fWaiting[c])
      BY <2>2, <3>3 DEF SendHandles, RecvHandles
    <3> QED BY <3>1, <3>2, <3>4
  <2>3. CASE h \notin ToSet(fData[c])
    <3>1. fWaiting'[c] = RemoveFirst(fWaiting[c], h) /\ fData'[c] = fData[c]
      BY <1>6, <2>1, <2>3
    <3>2. h \notin ToSet(RemoveFirst(fWaiting[c], h))
      BY <2>1, RemoveFacts
    <3> QED BY <2>3, <3>1, <3>2
  <2> QED BY <2>2, <2>3
<1>10. ~InQueue(h)'
  BY <1>4, <1>9 DEF InQueue
<1>11. ~InQueue(<<p, k>>)'
  BY <1>3, <1>10
<1> QED BY <1>1, <1>2, <1>7, <1>8, <1>11

LEMMA TypeStep ==
  ASSUME IInv, NEW p \in Procs, Step(p)
  PROVE  TypeOK'
<1>1. TypeOK /\ QueueInv /\ LeftInv
  BY DEF IInv
<1>2. Len(Cases[p]) \in Nat /\ Indices(p) = 1..Len(Cases[p]) /\ idx[p] \in 1..(Len(Cases[p]) + 1)
  <2>1. Cases[p] \in Seq([ch : Chans, dir : {"send", "recv"}])
    BY SelectAssumption
  <2> QED BY <1>1, <2>1 DEF Indices, TypeOK
<1>3. CASE Begin(p)
  BY <1>1, <1>2, <1>3 DEF TypeOK, Begin, Procs
<1>4. CASE StartCase(p)
  BY <1>1, <1>2, <1>4 DEF TypeOK, StartCase, Unlocked
<1>5. CASE SkipNil(p)
  BY <1>1, <1>2, <1>5 DEF TypeOK, SkipNil, locks
<1>6. CASE Enter(p)
  <2> USE <1>6
  <2>1. PICK h : h = <<p, idx[p]>>
    OBVIOUS
  <2>2. h \in Handles /\ Ch(h) \in Chans
    <3>1. idx[p] \in Indices(p)
      BY <1>1 DEF Enter, QueueInv
    <3> QED BY <2>1, <3>1, IsHandle, HandleFacts
  <2>3. fData' \in [Chans -> Seq(SendHandles)] /\ fWaiting' \in [Chans -> Seq(RecvHandles)]
    <3>1. fData \in [Chans -> Seq(SendHandles)] /\ fWaiting \in [Chans -> Seq(RecvHandles)]
      BY <1>1 DEF TypeOK, SendHandles, RecvHandles
    <3>2. CASE /\ h \in SendHandles
               /\ fData' = [fData EXCEPT ![Ch(h)] = Append(fData[Ch(h)], h)] /\ fWaiting' = fWaiting
      BY <2>2, <3>1, <3>2
    <3>3. CASE /\ h \in RecvHandles
               /\ fWaiting' = [fWaiting EXCEPT ![Ch(h)] = Append(fWaiting[Ch(h)], h)] /\ fData' = fData
      BY <2>2, <3>1, <3>3
    <3> QED BY <2>1, <2>2, <3>2, <3>3 DEF Enter, SendHandles, RecvHandles
  <2>4. fLock' \in [Chans -> Procs \cup Chans \cup {None}]
    BY <1>1 DEF TypeOK, Enter
  <2>5. fNotifier' \subseteq Handles
    BY <1>1, <2>1, <2>2 DEF TypeOK, Enter
  <2>6. pc' \in [Procs -> {"idle", "start", "enter", "scan", "wait", "cancel", "canceling",
                          "returned", "default", "raised"}] /\ pos' \in [Procs -> Nat \ {0}]
    BY <1>1 DEF TypeOK, Enter
  <2> QED BY <1>1, <2>3, <2>4, <2>5, <2>6 DEF TypeOK, Enter, SendHandles, RecvHandles
<1>7. CASE ScanRefused(p)
  BY <1>1, <1>2, <1>7 DEF TypeOK, ScanRefused, locks
<1>8. CASE ScanExchange(p)
  <2> USE <1>8
  <2>1. PICK snd, rcv, g \in Handles :
          /\ NobodyJoins
          /\ \A q \in Procs : /\ lDone'[q] = IF q = snd[1] /\ Live(snd) THEN snd[2]
                                             ELSE IF q = rcv[1] THEN rcv[2] ELSE lDone[q]
                              /\ fired'[q] = fired[q] \cup {i \in {rcv[2]} : q = rcv[1]}
                                                      \cup {i \in {snd[2]} : q = snd[1]}
          /\ lDone' \in [Procs -> Nat] /\ fired' \in [Procs -> SUBSET Nat]
    BY ExchangeFacts
  <2>2. snd[2] \in Indices(snd[1]) /\ rcv[2] \in Indices(rcv[1])
    BY HandleFacts
  <2>3. \A q \in Procs : lDone'[q] \in Indices(q) \cup {0} /\ fired'[q] \subseteq Indices(q)
    <3> SUFFICES ASSUME NEW q \in Procs
                 PROVE  lDone'[q] \in Indices(q) \cup {0} /\ fired'[q] \subseteq Indices(q)
      OBVIOUS
    <3>1. lDone[q] \in Indices(q) \cup {0} /\ fired[q] \subseteq Indices(q)
      BY <1>1 DEF TypeOK
    <3> QED BY <2>1, <2>2, <3>1
  <2>4. fLock' \in [Chans -> Procs \cup Chans \cup {None}]
    BY <1>1 DEF TypeOK, ScanExchange, Release
  <2>5. fNotifier' \subseteq Handles
    BY <1>1 DEF TypeOK, ScanExchange, RemoveMessage
  <2>6. /\ Started(p)
        /\ UNCHANGED <<fClosed, lLock, nilH, pos, closer>>
    <3>1. StartTrue(p) /\ UNCHANGED <<fClosed, lLock, nilH, pos, closer>> /\ idx[p] \in Indices(p)
      BY <1>1 DEF ScanExchange, QueueInv
    <3> QED BY <1>1, <1>2, <3>1, TrueTypes
  <2> QED BY <1>1, <2>1, <2>3, <2>4, <2>5, <2>6
          DEF TypeOK, Started, NobodyJoins, SendHandles, RecvHandles
<1>9. CASE ScanEnd(p)
  <2> USE <1>9
  <2>1. Started(p)
    <3>1. StartTrue(p) \/ StartFalse(p)
      BY DEF ScanEnd
    <3>2. idx[p] \in Indices(p)
      BY <1>1 DEF ScanEnd, QueueInv
    <3> QED BY <1>1, <1>2, <3>1, <3>2, TrueTypes, FalseTypes
  <2>2. fLock' \in [Chans -> Procs \cup Chans \cup {None}]
    BY <1>1 DEF TypeOK, ScanEnd, Release
  <2> QED BY <1>1, <2>1, <2>2 DEF TypeOK, ScanEnd, Started
<1>10. CASE AllStarted(p)
  <2> USE <1>10
  <2>1. ret' \in [Procs -> Nat] /\ \A q \in Procs : ret'[q] \in Indices(q) \cup {0}
    <3>1. ret \in [Procs -> Nat] /\ \A q \in Procs : ret[q] \in Indices(q) \cup {0}
      BY <1>1 DEF TypeOK
    <3>2. CASE ret' = ret
      BY <3>1, <3>2
    <3>3. CASE \E i \in 1..Len(Cases[p]) : ret' = [ret EXCEPT ![p] = i]
      BY <1>2, <3>1, <3>3
    <3> QED BY <3>2, <3>3 DEF AllStarted, Random
  <2>2. lLock' \in [Selects -> Selects \cup {None}]
    BY <1>1 DEF TypeOK, AllStarted, Unlocked
  <2>3. pc' \in [Procs -> {"idle", "start", "enter", "scan", "wait", "cancel", "canceling",
                          "returned", "default", "raised"}]
    BY <1>1 DEF TypeOK, AllStarted
  <2> QED BY <1>1, <2>1, <2>2, <2>3 DEF TypeOK, AllStarted
<1>11. CASE Wake(p)
  BY <1>1, <1>2, <1>11 DEF TypeOK, Wake, locks
<1>12. CASE CancelEnter(p)
  BY <1>1, <1>2, <1>12 DEF TypeOK, CancelEnter
<1>13. CASE CancelRemove(p)
  <2> USE <1>13
  <2>1. NobodyJoins /\ fNotifier' \subseteq fNotifier
    <3>1. todo[p] # {}
      BY <1>1 DEF LeftInv, CancelRemove
    <3> QED BY <1>1, <3>1, CancelFacts
  <2>2. fLock' \in [Chans -> Procs \cup Chans \cup {None}]
    BY <1>1 DEF TypeOK, CancelRemove, Release
  <2>3. /\ todo' = [todo EXCEPT ![p] = @ \ {NextCancel(p)}] /\ pc' = [pc EXCEPT ![p] = "cancel"]
        /\ UNCHANGED <<fClosed, lLock, lDone, nilH, idx, pos, ret, fired, closer>>
    BY DEF CancelRemove
  <2> QED BY <1>1, <2>1, <2>2, <2>3 DEF TypeOK, NobodyJoins, SendHandles, RecvHandles
<1>14. CASE CancelEnd(p)
  BY <1>1, <1>2, <1>14 DEF TypeOK, CancelEnd, Unlocked
<1> QED BY <1>3, <1>4, <1>5, <1>6, <1>7, <1>8, <1>9, <1>10, <1>11, <1>12, <1>13, <1>14 DEF Step

LEMMA TypeClose ==
  ASSUME IInv, NEW c \in Chans, CloseStep(c)
  PROVE  TypeOK'
<1>1. TypeOK /\ QueueInv
  BY DEF IInv
<1>2. CASE CloseWrite(c)
  BY <1>1, <1>2 DEF TypeOK, CloseWrite, locks
<1>3. CASE CloseEnter(c)
  BY <1>1, <1>3 DEF TypeOK, CloseEnter
<1>4. CASE CloseNotify(c)
  <2>1. \A p \in Procs : lDone'[p] \in Indices(p) \cup {0}
    <3> SUFFICES ASSUME NEW p \in Procs PROVE lDone'[p] \in Indices(p) \cup {0}
      OBVIOUS
    <3>1. CASE lDone'[p] = lDone[p]
      BY <1>1, <3>1 DEF TypeOK
    <3>2. CASE lDone'[p] # lDone[p]
      BY <1>1, <1>4, <3>2, CloseFacts
    <3> QED BY <3>1, <3>2
  <2>2. lDone' \in [Procs -> Nat]
    <3>1. ASSUME NEW p \in Procs, NEW i \in Indices(p) \cup {0} PROVE i \in Nat
      <4>1. CASE i \in Indices(p)
        BY <4>1, IsHandle
      <4> QED BY <4>1
    <3>2. \A p \in Procs : lDone'[p] \in Nat
      BY <2>1, <3>1
    <3>3. lDone' = [p \in Procs |-> lDone'[p]]
      BY <1>4 DEF CloseNotify
    <3> QED BY <3>2, <3>3
  <2>3. fLock' \in [Chans -> Procs \cup Chans \cup {None}] /\ closer' \in [Chans -> {"none", "open", "enter", "notify", "closed"}]
    BY <1>1, <1>4 DEF TypeOK, CloseNotify, Release
  <2>4. UNCHANGED <<fClosed, fData, fWaiting, lLock, fNotifier, nilH, pc, idx, pos, todo, ret, fired>>
    BY <1>4 DEF CloseNotify
  <2> QED BY <1>1, <2>1, <2>2, <2>3, <2>4 DEF TypeOK
<1> QED BY <1>2, <1>3, <1>4 DEF CloseStep

-----------------------------------------------------------------------------
(* What a step of p leaves alone, and what it queues. *)

OthersStay(p) ==
  \A q \in Procs \ {p} :
    /\ pc'[q] = pc[q] /\ idx'[q] = idx[q] /\ nilH'[q] = nilH[q]
    /\ todo'[q] = todo[q] /\ ret'[q] = ret[q]
    /\ q \in Selects => lLock'[q] = lLock[q]

LEMMA Others == ASSUME TypeOK, NEW p \in Procs, Step(p) PROVE OthersStay(p)
<1>3. CASE Begin(p)
  BY <1>3 DEF TypeOK, OthersStay, Begin
<1>4. CASE StartCase(p)
  BY <1>4 DEF TypeOK, OthersStay, StartCase, Unlocked
<1>5. CASE SkipNil(p)
  BY <1>5 DEF TypeOK, OthersStay, SkipNil, locks
<1>6. CASE Enter(p)
  BY <1>6 DEF TypeOK, OthersStay, Enter
<1>7. CASE ScanRefused(p)
  BY <1>7 DEF TypeOK, OthersStay, ScanRefused, locks
<1>8. CASE ScanExchange(p)
  BY <1>8 DEF TypeOK, OthersStay, ScanExchange, StartTrue
<1>9. CASE ScanEnd(p)
  BY <1>9 DEF TypeOK, OthersStay, ScanEnd, StartTrue, StartFalse
<1>10. CASE AllStarted(p)
  BY <1>10 DEF TypeOK, OthersStay, AllStarted, Unlocked
<1>11. CASE Wake(p)
  BY <1>11 DEF TypeOK, OthersStay, Wake, locks
<1>12. CASE CancelEnter(p)
  BY <1>12 DEF TypeOK, OthersStay, CancelEnter
<1>13. CASE CancelRemove(p)
  BY <1>13 DEF TypeOK, OthersStay, CancelRemove
<1>14. CASE CancelEnd(p)
  BY <1>14 DEF TypeOK, OthersStay, CancelEnd, Unlocked
<1> QED BY <1>3, <1>4, <1>5, <1>6, <1>7, <1>8, <1>9, <1>10, <1>11, <1>12, <1>13, <1>14 DEF Step

\* Only Enter queues a handle.
LEMMA WhoJoins ==
  ASSUME IInv, NEW p \in Procs, Step(p), ~Enter(p) PROVE NobodyJoins
<1>1. TypeOK /\ QueueInv /\ LeftInv
  BY DEF IInv
<1>2. CASE ScanExchange(p)
  BY <1>2, ExchangeFacts
<1>3. CASE CancelRemove(p)
  <2>1. todo[p] # {}
    BY <1>1, <1>3 DEF LeftInv, CancelRemove
  <2> QED BY <1>1, <1>3, <2>1, CancelFacts
<1>4. CASE ~ScanExchange(p) /\ ~CancelRemove(p)
  <2>1. UNCHANGED <<fData, fWaiting>>
    BY <1>4 DEF Step, Begin, StartCase, SkipNil, ScanRefused, ScanEnd, AllStarted, Wake, CancelEnter, CancelEnd
  <2> QED BY <1>1, <2>1, SameQueues
<1> QED BY <1>2, <1>3, <1>4

LEMMA EnterFacts ==
  ASSUME IInv, NEW p \in Procs, Enter(p)
  PROVE  /\ \A c \in Chans : /\ IsInjective(fData'[c]) /\ IsInjective(fWaiting'[c])
                             /\ \A h \in ToSet(fData'[c]) \cup ToSet(fWaiting'[c]) : Ch(h) = c
         /\ \A h \in Handles : InQueue(h)' => InQueue(h) \/ h = <<p, idx[p]>>
<1>1. TypeOK /\ QueueInv
  BY DEF IInv
<1>2. idx[p] \in Indices(p) /\ pc[p] = "enter"
  BY <1>1 DEF Enter, QueueInv
<1>3. PICK h \in Handles : h = <<p, idx[p]>>
  BY <1>2, IsHandle
<1>4. PICK c \in Chans : c = Ch(h)
  BY HandleFacts
<1>5. ~InQueue(h)
  <2>1. idx[p] \in Nat
    BY <1>1 DEF TypeOK
  <2>2. ~(idx[p] < idx[p])
    BY <2>1
  <2> QED BY <1>1, <1>2, <1>3, <2>2 DEF QueueInv
<1>6. h \notin ToSet(fData[c]) /\ h \notin ToSet(fWaiting[c])
  BY <1>4, <1>5 DEF InQueue
<1>7. /\ fData \in [Chans -> Seq(SendHandles)] /\ fWaiting \in [Chans -> Seq(RecvHandles)]
      /\ \A d \in Chans : /\ IsInjective(fData[d]) /\ IsInjective(fWaiting[d])
                          /\ \A e \in ToSet(fData[d]) \cup ToSet(fWaiting[d]) : Ch(e) = d
  BY <1>1 DEF TypeOK, QueueInv, SendHandles, RecvHandles
<1>8. \/ /\ h \in SendHandles /\ fData' = [fData EXCEPT ![c] = Append(fData[c], h)] /\ fWaiting' = fWaiting
      \/ /\ h \in RecvHandles /\ fWaiting' = [fWaiting EXCEPT ![c] = Append(fWaiting[c], h)] /\ fData' = fData
  BY <1>3, <1>4 DEF Enter, SendHandles, RecvHandles
<1>9. \A d \in Chans : /\ IsInjective(fData'[d]) /\ IsInjective(fWaiting'[d])
                       /\ ToSet(fData'[d]) \cup ToSet(fWaiting'[d]) \subseteq
                            ToSet(fData[d]) \cup ToSet(fWaiting[d]) \cup {e \in {h} : d = c}
  <2> SUFFICES ASSUME NEW d \in Chans
               PROVE  /\ IsInjective(fData'[d]) /\ IsInjective(fWaiting'[d])
                      /\ ToSet(fData'[d]) \cup ToSet(fWaiting'[d]) \subseteq
                           ToSet(fData[d]) \cup ToSet(fWaiting[d]) \cup {e \in {h} : d = c}
    OBVIOUS
  <2>1. CASE d # c
    <3>1. fData'[d] = fData[d] /\ fWaiting'[d] = fWaiting[d]
      BY <1>7, <1>8, <2>1
    <3> QED BY <1>7, <3>1
  <2>2. CASE d = c /\ h \in SendHandles /\ fData' = [fData EXCEPT ![c] = Append(fData[c], h)] /\ fWaiting' = fWaiting
    <3>1. fData'[d] = Append(fData[c], h) /\ fWaiting'[d] = fWaiting[d]
      BY <1>7, <2>2
    <3>2. IsInjective(Append(fData[c], h)) /\ ToSet(Append(fData[c], h)) = ToSet(fData[c]) \cup {h}
      BY <1>6, <1>7, <2>2, AppendFacts
    <3> QED BY <1>7, <2>2, <3>1, <3>2
  <2>3. CASE d = c /\ h \in RecvHandles /\ fWaiting' = [fWaiting EXCEPT ![c] = Append(fWaiting[c], h)] /\ fData' = fData
    <3>1. fWaiting'[d] = Append(fWaiting[c], h) /\ fData'[d] = fData[d]
      BY <1>7, <2>3
    <3>2. IsInjective(Append(fWaiting[c], h)) /\ ToSet(Append(fWaiting[c], h)) = ToSet(fWaiting[c]) \cup {h}
      BY <1>6, <1>7, <2>3, AppendFacts
    <3> QED BY <1>7, <2>3, <3>1, <3>2
  <2> QED BY <1>8, <2>1, <2>2, <2>3
<1>10. \A d \in Chans : \A e \in ToSet(fData'[d]) \cup ToSet(fWaiting'[d]) : Ch(e) = d
  BY <1>4, <1>7, <1>9
<1>11. ASSUME NEW e \in Handles, InQueue(e)' PROVE InQueue(e) \/ e = <<p, idx[p]>>
  <2>1. PICK d \in Chans : d = Ch(e)
    BY HandleFacts
  <2>2. e \in ToSet(fData'[d]) \cup ToSet(fWaiting'[d])
    BY <1>11, <2>1 DEF InQueue
  <2>3. e \in ToSet(fData[d]) \cup ToSet(fWaiting[d]) \/ e = h
    BY <1>9, <2>2
  <2> QED BY <1>3, <2>1, <2>3 DEF InQueue
<1> QED BY <1>9, <1>10, <1>11

\* The channels keep what QueueInv says of them when nobody joins.
LEMMA ChannelsKeep ==
  ASSUME QueueInv, NobodyJoins
  PROVE  \A c \in Chans : /\ IsInjective(fData'[c]) /\ IsInjective(fWaiting'[c])
                          /\ \A h \in ToSet(fData'[c]) \cup ToSet(fWaiting'[c]) : Ch(h) = c
  BY DEF QueueInv, NobodyJoins

LEMMA QueueStep ==
  ASSUME IInv, NEW p \in Procs, Step(p) PROVE QueueInv'
<1>1. TypeOK /\ QueueInv
  BY DEF IInv
<1>2. OthersStay(p)
  BY <1>1, Others
<1>3. \A c \in Chans : /\ IsInjective(fData'[c]) /\ IsInjective(fWaiting'[c])
                       /\ \A h \in ToSet(fData'[c]) \cup ToSet(fWaiting'[c]) : Ch(h) = c
  BY <1>1, EnterFacts, WhoJoins, ChannelsKeep
<1>4. \A h \in Handles : InQueue(h)' => InQueue(h) \/ (Enter(p) /\ h = <<p, idx[p]>>)
  <2>1. CASE Enter(p)
    BY <2>1, EnterFacts
  <2>2. CASE ~Enter(p)
    <3>1. NobodyJoins
      BY <2>2, WhoJoins
    <3> QED BY <3>1, StaysOut
  <2> QED BY <2>1, <2>2
<1>5. /\ pc'[p] \in {"enter", "scan"} => idx'[p] \in Indices(p) \ nilH'[p]
      /\ pc'[p] = "idle" => idx'[p] = 1
      /\ idx'[p] \in {idx[p], idx[p] + 1}
      /\ pc[p] = "idle" => idx'[p] = idx[p]
      /\ pc[p] # "idle" => nilH'[p] = nilH[p]
      /\ idx'[p] = idx[p] /\ pc[p] \notin {"idle", "start", "enter"} => pc'[p] \notin {"idle", "start", "enter"}
      /\ Enter(p) => pc[p] = "enter" /\ pc'[p] = "scan" /\ idx'[p] = idx[p]
  <2> USE <1>1 DEF TypeOK, QueueInv
  <2>3. CASE Begin(p)
    BY <2>3 DEF Begin, Enter
  <2>4. CASE StartCase(p)
    BY <2>4 DEF StartCase, Enter
  <2>5. CASE SkipNil(p)
    BY <2>5 DEF SkipNil, Enter
  <2>6. CASE Enter(p)
    BY <2>6 DEF Enter
  <2>7. CASE ScanRefused(p)
    BY <2>7 DEF ScanRefused, Enter
  <2>8. CASE ScanExchange(p)
    BY <2>8 DEF ScanExchange, StartTrue, Enter
  <2>9. CASE ScanEnd(p)
    BY <2>9 DEF ScanEnd, StartTrue, StartFalse, Enter
  <2>10. CASE AllStarted(p)
    BY <2>10 DEF AllStarted, Enter
  <2>11. CASE Wake(p)
    BY <2>11 DEF Wake, Enter
  <2>12. CASE CancelEnter(p)
    BY <2>12 DEF CancelEnter, Enter
  <2>13. CASE CancelRemove(p)
    BY <2>13 DEF CancelRemove, Enter
  <2>14. CASE CancelEnd(p)
    BY <2>14 DEF CancelEnd, Enter
  <2> QED BY <2>3, <2>4, <2>5, <2>6, <2>7, <2>8, <2>9, <2>10, <2>11, <2>12, <2>13, <2>14 DEF Step
<1>6. ASSUME NEW q \in Procs, NEW i \in Indices(q), InQueue(<<q, i>>)'
      PROVE  /\ i \notin nilH'[q]
             /\ i < idx'[q] \/ (i = idx'[q] /\ pc'[q] \notin {"idle", "start", "enter"})
  <2>1. i \in Nat /\ idx[q] \in Nat /\ <<q, i>> \in Handles
    BY <1>1, IsHandle DEF TypeOK
  <2>2. InQueue(<<q, i>>) \/ (Enter(p) /\ q = p /\ i = idx[p])
    BY <1>4, <1>6, <2>1
  <2>3. InQueue(<<q, i>>) =>
          /\ i \notin nilH[q]
          /\ i < idx[q] \/ (i = idx[q] /\ pc[q] \notin {"idle", "start", "enter"})
    BY <1>1 DEF QueueInv
  <2>4. CASE q # p
    BY <1>2, <2>2, <2>3, <2>4 DEF OthersStay
  <2>5. CASE q = p /\ InQueue(<<q, i>>)
    <3>1. pc[p] # "idle"
      BY <1>1, <2>1, <2>3, <2>5, IsHandle DEF QueueInv
    <3> QED BY <1>5, <2>1, <2>3, <2>5, <3>1
  <2>6. CASE q = p /\ Enter(p) /\ i = idx[p]
    BY <1>5, <2>6
  <2> QED BY <2>2, <2>4, <2>5, <2>6
<1>7. ASSUME NEW q \in Procs
      PROVE  /\ pc'[q] \in {"enter", "scan"} => idx'[q] \in Indices(q) \ nilH'[q]
             /\ pc'[q] = "idle" => idx'[q] = 1
  <2>1. CASE q = p
    BY <1>5, <2>1
  <2>2. CASE q # p
    BY <1>1, <1>2, <2>2 DEF OthersStay, QueueInv
  <2> QED BY <2>1, <2>2
<1> QED BY <1>3, <1>6, <1>7 DEF QueueInv

\* Close moves nobody.
LEMMA CloseStays ==
  ASSUME IInv, NEW c \in Chans, CloseStep(c)
  PROVE  NobodyJoins /\ UNCHANGED <<pc, idx, nilH, todo, ret, lLock, fired>>
<1>1. TypeOK /\ QueueInv
  BY DEF IInv
<1>2. UNCHANGED <<fData, fWaiting>>
  BY DEF CloseStep, CloseWrite, CloseEnter, CloseNotify
<1>3. UNCHANGED <<pc, idx, nilH, todo, ret, lLock, fired>>
  BY DEF CloseStep, CloseWrite, CloseEnter, CloseNotify, locks
<1> QED BY <1>1, <1>2, <1>3, SameQueues

LEMMA QueueClose ==
  ASSUME IInv, NEW c \in Chans, CloseStep(c) PROVE QueueInv'
<1>1. TypeOK /\ QueueInv /\ NobodyJoins /\ UNCHANGED <<pc, idx, nilH>>
  BY CloseStays DEF IInv
<1>2. \A d \in Chans : /\ IsInjective(fData'[d]) /\ IsInjective(fWaiting'[d])
                       /\ \A h \in ToSet(fData'[d]) \cup ToSet(fWaiting'[d]) : Ch(h) = d
  BY <1>1, ChannelsKeep
<1>3. \A q \in Procs : \A i \in Indices(q) : InQueue(<<q, i>>)' => InQueue(<<q, i>>)
  BY <1>1, IsHandle, StaysOut
<1> QED BY <1>1, <1>2, <1>3 DEF QueueInv

-----------------------------------------------------------------------------
(* What a returning select leaves behind. *)

LEMMA LeftStep ==
  ASSUME IInv, NEW p \in Procs, Step(p) PROVE LeftInv'
<1>1. TypeOK /\ QueueInv /\ LeftInv
  BY DEF IInv
<1>2. OthersStay(p)
  BY <1>1, Others
<1>3. pc'[p] = "canceling" => todo'[p] # {}
  <2> USE <1>1 DEF TypeOK, LeftInv
  <2>1. CASE CancelEnter(p)
    BY <2>1 DEF CancelEnter
  <2>2. CASE ~CancelEnter(p)
    <3>1. pc'[p] # "canceling" \/ (pc'[p] = pc[p] /\ todo'[p] = todo[p])
      BY <2>2 DEF Step, Begin, StartCase, SkipNil, Enter, ScanRefused, ScanExchange, ScanEnd,
                  StartTrue, StartFalse, AllStarted, Wake, CancelRemove, CancelEnd
    <3> QED BY <3>1
  <2> QED BY <2>1, <2>2
<1>4. ASSUME p \in Selects, pc'[p] \notin {"cancel", "canceling"} PROVE todo'[p] = {}
  <2> USE <1>1, <1>4 DEF TypeOK, LeftInv
  <2>1. CASE StartTrue(p)
    BY <2>1, SelectAssumption DEF StartTrue
  <2>2. CASE Wake(p)
    BY <2>2, SelectAssumption DEF Wake
  <2>3. CASE CancelRemove(p)
    BY <2>3 DEF CancelRemove
  <2>4. CASE ~StartTrue(p) /\ ~Wake(p) /\ ~CancelRemove(p)
    <3>1. /\ todo'[p] = todo[p]
          /\ pc[p] \notin {"cancel", "canceling"} \/ todo[p] = {}
      BY <2>4 DEF Step, Begin, StartCase, SkipNil, Enter, ScanRefused, ScanExchange, ScanEnd,
                  StartFalse, AllStarted, CancelEnter, CancelEnd
    <3> QED BY <3>1
  <2> QED BY <2>1, <2>2, <2>3, <2>4
<1>5. ASSUME p \in Selects, pc'[p] \in {"cancel", "canceling", "returned"},
             NEW i \in Indices(p), InQueue(<<p, i>>)'
      PROVE  i \in todo'[p] \cup {ret'[p]}
  <2>1. ~Enter(p)
    BY <1>1, <1>5 DEF Enter, TypeOK
  <2>2. InQueue(<<p, i>>)
    BY <1>5, <2>1, WhoJoins, StaysOut, IsHandle
  <2>3. /\ i \notin nilH[p]
        /\ i < idx[p] \/ (i = idx[p] /\ pc[p] \notin {"idle", "start", "enter"})
    BY <1>1, <2>2 DEF QueueInv
  <2>4. CASE StartTrue(p)
    <3>1. ret'[p] = idx[p] /\ todo'[p] = {j \in Indices(p) \ nilH[p] : j < idx[p]}
      BY <1>1, <2>4 DEF StartTrue, TypeOK
    <3> QED BY <2>3, <3>1
  <2>5. CASE Wake(p)
    <3>1. ret'[p] = lDone[p] /\ todo'[p] = Indices(p) \ (nilH[p] \cup {lDone[p]})
      BY <1>1, <2>5 DEF Wake, TypeOK
    <3> QED BY <2>3, <3>1
  <2>6. CASE AllStarted(p)
    <3>1. AllNil(p)
      BY <1>1, <1>5, <2>6 DEF AllStarted, TypeOK
    <3> QED BY <2>3, <3>1 DEF AllNil
  <2>7. CASE CancelRemove(p)
    <3>1. todo[p] # {} /\ pc[p] = "canceling"
      BY <1>1, <2>7 DEF LeftInv, CancelRemove
    <3>2. PICK k \in Indices(p) : k = NextCancel(p) /\ ~InQueue(<<p, k>>)'
      BY <1>1, <2>7, <3>1, CancelFacts
    <3>3. i # k
      BY <1>5, <3>2
    <3>4. todo'[p] = todo[p] \ {k} /\ ret'[p] = ret[p]
      BY <1>1, <2>7, <3>2 DEF CancelRemove, TypeOK
    <3>5. i \in todo[p] \cup {ret[p]}
      BY <1>1, <1>5, <2>2, <3>1 DEF LeftInv
    <3> QED BY <3>3, <3>4, <3>5
  <2>8. CASE ~StartTrue(p) /\ ~Wake(p) /\ ~AllStarted(p) /\ ~CancelRemove(p)
    <3>1. /\ todo'[p] = todo[p] /\ ret'[p] = ret[p]
          /\ pc[p] \in {"cancel", "canceling", "returned"}
      BY <1>1, <1>5, <2>1, <2>8, SelectAssumption
         DEF TypeOK, Step, Begin, StartCase, SkipNil, ScanRefused, ScanExchange, ScanEnd,
             StartFalse, CancelEnter, CancelEnd
    <3> QED BY <1>1, <1>5, <2>2, <3>1 DEF LeftInv
  <2> QED BY <2>4, <2>5, <2>6, <2>7, <2>8
<1>6. ASSUME NEW q \in Selects, q # p
      PROVE  /\ pc'[q] \in {"cancel", "canceling", "returned"} =>
                  \A i \in Indices(q) : InQueue(<<q, i>>)' => i \in todo'[q] \cup {ret'[q]}
             /\ pc'[q] \notin {"cancel", "canceling"} => todo'[q] = {}
  <2>0. q \in Procs
    BY DEF Procs
  <2>1. pc'[q] = pc[q] /\ todo'[q] = todo[q] /\ ret'[q] = ret[q]
    BY <1>2, <1>6, <2>0 DEF OthersStay
  <2>2. ASSUME NEW i \in Indices(q), InQueue(<<q, i>>)' PROVE InQueue(<<q, i>>)
    <3>1. <<q, i>> \in Handles /\ <<q, i>> # <<p, idx[p]>>
      BY <1>6, <2>0, IsHandle
    <3>2. CASE Enter(p)
      BY <2>2, <3>1, <3>2, EnterFacts
    <3>3. CASE ~Enter(p)
      BY <2>2, <3>1, <3>3, WhoJoins, StaysOut
    <3> QED BY <3>2, <3>3
  <2> QED BY <1>1, <2>1, <2>2 DEF LeftInv
<1>7. \A q \in Procs : pc'[q] = "canceling" => todo'[q] # {}
  BY <1>1, <1>2, <1>3 DEF OthersStay, LeftInv
<1>8. ASSUME NEW q \in Selects
      PROVE  /\ pc'[q] \in {"cancel", "canceling", "returned"} =>
                  \A i \in Indices(q) : InQueue(<<q, i>>)' => i \in todo'[q] \cup {ret'[q]}
             /\ pc'[q] \notin {"cancel", "canceling"} => todo'[q] = {}
  <2>1. CASE q = p
    BY <1>4, <1>5, <2>1
  <2>2. CASE q # p
    BY <1>6, <2>2
  <2> QED BY <2>1, <2>2
<1> QED BY <1>7, <1>8 DEF LeftInv

LEMMA LeftClose ==
  ASSUME IInv, NEW c \in Chans, CloseStep(c) PROVE LeftInv'
<1>1. LeftInv /\ NobodyJoins /\ UNCHANGED <<pc, todo, ret>>
  BY CloseStays DEF IInv
<1>2. \A q \in Selects : \A i \in Indices(q) : InQueue(<<q, i>>)' => InQueue(<<q, i>>)
  BY <1>1, IsHandle, StaysOut DEF Procs
<1> QED BY <1>1, <1>2 DEF LeftInv

-----------------------------------------------------------------------------
(* Who records a completed case, and when. *)

\* Another process, or Close, records a case of the select q only while q does
\* not hold its lLock and has that case queued.
Told(q) == lLock[q] # q /\ \E i \in Indices(q) : InQueue(<<q, i>>)

LEMMA WhoTells ==
  ASSUME IInv, NEW p \in Procs, Step(p), NEW q \in Selects, q # p, lDone'[q] # lDone[q]
  PROVE  Told(q) /\ ScanExchange(p)
<1>1. TypeOK /\ q \in Procs
  BY DEF IInv, Procs
<1>2. ScanExchange(p)
  BY DEF Step, Begin, StartCase, SkipNil, Enter, ScanRefused, ScanEnd, AllStarted, Wake,
         CancelEnter, CancelRemove, CancelEnd
<1>3. PICK snd, rcv, g \in Handles :
        /\ (snd = <<p, idx[p]>> /\ rcv = g) \/ (snd = g /\ rcv = <<p, idx[p]>>)
        /\ Dir(snd) = "send" /\ Dir(rcv) = "recv"
        /\ InQueue(g) /\ CanLock(p, g)
        /\ lDone'[q] = IF q = snd[1] /\ Live(snd) THEN snd[2]
                       ELSE IF q = rcv[1] THEN rcv[2] ELSE lDone[q]
  BY <1>1, <1>2, ExchangeFacts
<1>4. g[1] = q /\ Live(g)
  <2>1. <<p, idx[p]>>[1] = p
    OBVIOUS
  <2> QED BY <1>3, <2>1 DEF Live
<1>5. lLock[q] \in {None, p}
  BY <1>3, <1>4 DEF CanLock, Guarded
<1>6. lLock[q] # q
  BY <1>1, <1>5, SelectAssumption
<1>7. g[2] \in Indices(q) /\ g = <<q, g[2]>>
  BY <1>4, HandleFacts
<1>8. InQueue(<<q, g[2]>>)
  BY <1>3, <1>7
<1> QED BY <1>2, <1>6, <1>7, <1>8 DEF Told

LEMMA WhoTellsClose ==
  ASSUME IInv, NEW c \in Chans, CloseStep(c), NEW q \in Selects, lDone'[q] # lDone[q]
  PROVE  Told(q) /\ lDone[q] = 0
<1>1. TypeOK /\ QueueInv /\ q \in Procs
  BY DEF IInv, Procs
<1>2. CloseNotify(c)
  BY DEF CloseStep, CloseWrite, CloseEnter
<1>3. PICK i \in Indices(q) : /\ lDone[q] = 0 /\ InQueue(<<q, i>>)
                              /\ lLock[q] \in {None, c}
  BY <1>1, <1>2, CloseFacts
<1>4. lLock[q] # q
  BY <1>1, <1>3, SelectAssumption
<1> QED BY <1>3, <1>4 DEF Told

\* Nobody is told before it has queued a case, nor with nil handles only.
LEMMA NotTold ==
  ASSUME IInv, NEW q \in Selects, Told(q)
  PROVE  pc[q] \notin {"idle", "start", "enter", "scan"} /\ ~AllNil(q)
<1>1. TypeOK /\ QueueInv /\ LockInv /\ q \in Procs
  BY DEF IInv, Procs
<1>2. PICK i \in Indices(q) : InQueue(<<q, i>>)
  BY DEF Told
<1>3. /\ i \notin nilH[q]
      /\ i < idx[q] \/ (i = idx[q] /\ pc[q] \notin {"idle", "start", "enter"})
  BY <1>1, <1>2 DEF QueueInv
<1>4. pc[q] # "idle"
  <2>1. i \in Nat /\ i # 0
    BY <1>1, IsHandle
  <2>2. pc[q] = "idle" => idx[q] = 1
    BY <1>1 DEF QueueInv
  <2> QED BY <1>3, <2>1, <2>2
<1>5. pc[q] \notin {"start", "enter", "scan"}
  BY <1>1 DEF LockInv, Told
<1> QED BY <1>3, <1>4, <1>5 DEF AllNil

LEMMA LockStep ==
  ASSUME IInv, NEW p \in Procs, Step(p) PROVE LockInv'
<1>1. TypeOK /\ QueueInv /\ LockInv
  BY DEF IInv
<1>2. OthersStay(p)
  BY <1>1, Others
<1>3. ASSUME NEW q \in Selects, q # p
      PROVE  /\ pc'[q] \in {"start", "enter", "scan"} => lLock'[q] = q
             /\ pc'[q] \in {"idle", "start", "enter", "scan"} \/ AllNil(q)' => lDone'[q] = 0
  <2>1. q \in Procs
    BY DEF Procs
  <2>2. pc'[q] = pc[q] /\ nilH'[q] = nilH[q] /\ lLock'[q] = lLock[q]
    BY <1>2, <1>3, <2>1 DEF OthersStay
  <2>3. lDone'[q] # lDone[q] => pc[q] \notin {"idle", "start", "enter", "scan"} /\ ~AllNil(q)
    BY <1>3, WhoTells, NotTold
  <2> QED BY <1>1, <2>2, <2>3 DEF LockInv, AllNil
<1>4. ASSUME p \in Selects
      PROVE  /\ pc'[p] \in {"start", "enter", "scan"} => lLock'[p] = p
             /\ pc'[p] \in {"idle", "start", "enter", "scan"} \/ AllNil(p)' => lDone'[p] = 0
  <2>0. /\ pc[p] \in {"start", "enter", "scan"} => lLock[p] = p
        /\ pc[p] \in {"idle", "start", "enter", "scan"} \/ AllNil(p) => lDone[p] = 0
    BY <1>1, <1>4 DEF LockInv
  <2>1. CASE Begin(p)
    BY <1>1, <1>4, <2>0, <2>1 DEF Begin, TypeOK
  <2>2. CASE ScanExchange(p)
    <3>1. pc'[p] = "cancel" /\ nilH' = nilH /\ pc[p] = "scan"
      BY <1>1, <1>4, <2>2, SelectAssumption DEF ScanExchange, StartTrue, TypeOK
    <3>2. ~AllNil(p)
      BY <1>1, <3>1 DEF QueueInv, AllNil
    <3> QED BY <3>1, <3>2 DEF AllNil
  <2>3. CASE ~Begin(p) /\ ~ScanExchange(p)
    <3>1. lDone' = lDone /\ nilH' = nilH
      BY <2>3 DEF Step, StartCase, SkipNil, Enter, ScanRefused, ScanEnd, AllStarted, Wake,
                  CancelEnter, CancelRemove, CancelEnd
    <3>2. pc'[p] \in {"idle", "start", "enter", "scan"} =>
            pc[p] \in {"start", "enter", "scan"} /\ lLock'[p] = lLock[p]
      BY <1>1, <1>4, <2>3, SelectAssumption
         DEF TypeOK, Step, StartCase, SkipNil, Enter, ScanRefused, ScanEnd, StartTrue, StartFalse,
             AllStarted, Wake, CancelEnter, CancelRemove, CancelEnd, locks
    <3> QED BY <2>0, <3>1, <3>2 DEF AllNil
  <2> QED BY <2>1, <2>2, <2>3
<1> QED BY <1>3, <1>4 DEF LockInv

LEMMA LockClose ==
  ASSUME IInv, NEW c \in Chans, CloseStep(c) PROVE LockInv'
<1>1. LockInv /\ UNCHANGED <<pc, nilH, lLock>>
  BY CloseStays DEF IInv
<1>2. \A q \in Selects : lDone'[q] # lDone[q] =>
        pc[q] \notin {"idle", "start", "enter", "scan"} /\ ~AllNil(q)
  BY WhoTellsClose, NotTold
<1> QED BY <1>1, <1>2 DEF LockInv, AllNil

-----------------------------------------------------------------------------
(* One value, that of the case returned. *)

LEMMA FireStep ==
  ASSUME IInv, NEW p \in Procs, Step(p) PROVE FireInv'
<1>1. TypeOK /\ QueueInv /\ LockInv /\ FireInv
  BY DEF IInv
<1>2. OthersStay(p)
  BY <1>1, Others
<1> SUFFICES ASSUME NEW q \in Selects, OnlyReceives(q)
             PROVE  /\ fired'[q] \subseteq {lDone'[q]}
                    /\ pc'[q] \in {"cancel", "canceling", "returned"} =>
                         AllNil(q)' \/ (lDone'[q] # 0 /\ ret'[q] = lDone'[q])
  BY DEF FireInv
<1>3. /\ q \in Procs
      /\ fired[q] \subseteq {lDone[q]} /\ fired[q] \subseteq Indices(q)
      /\ pc[q] \in {"cancel", "canceling", "returned"} =>
           AllNil(q) \/ (lDone[q] # 0 /\ ret[q] = lDone[q])
  BY <1>1 DEF FireInv, TypeOK, Procs
<1>4. CASE ScanExchange(p)
  <2>1. PICK snd, rcv, g \in Handles :
          /\ (snd = <<p, idx[p]>> /\ rcv = g) \/ (snd = g /\ rcv = <<p, idx[p]>>)
          /\ Dir(snd) = "send" /\ Dir(rcv) = "recv"
          /\ ~Refuses(g)
          /\ lDone'[q] = IF q = snd[1] /\ Live(snd) THEN snd[2]
                         ELSE IF q = rcv[1] THEN rcv[2] ELSE lDone[q]
          /\ fired'[q] = fired[q] \cup {i \in {rcv[2]} : q = rcv[1]} \cup {i \in {snd[2]} : q = snd[1]}
    BY <1>3, <1>4, ExchangeFacts
  <2>2. snd[1] # q
    <3>1. \A i \in Indices(q) : Cases[q][i].dir = "recv"
      BY DEF OnlyReceives
    <3>2. snd[2] \in Indices(snd[1])
      BY HandleFacts
    <3> QED BY <2>1, <3>1, <3>2 DEF Dir
  <2>3. rcv[2] \in Indices(rcv[1]) /\ rcv[2] # 0
    BY HandleFacts, IsHandle
  <2>4. /\ lDone'[q] = IF q = rcv[1] THEN rcv[2] ELSE lDone[q]
        /\ fired'[q] = fired[q] \cup {i \in {rcv[2]} : q = rcv[1]}
    BY <2>1, <2>2
  <2>5. nilH' = nilH /\ pc[p] = "scan"
    BY <1>4 DEF ScanExchange
  <2>6. CASE rcv[1] # q
    <3>1. lDone'[q] = lDone[q] /\ fired'[q] = fired[q]
      BY <2>4, <2>6
    <3>2. q # p
      BY <2>1, <2>2, <2>6
    <3>3. pc'[q] = pc[q] /\ ret'[q] = ret[q]
      BY <1>2, <1>3, <3>2 DEF OthersStay
    <3> QED BY <1>3, <2>5, <3>1, <3>3 DEF AllNil
  <2>7. CASE rcv[1] = q
    <3>1. lDone[q] = 0
      <4>1. CASE q = p
        BY <1>1, <2>5, <4>1 DEF LockInv
      <4>2. CASE q # p
        <5>1. rcv = g
          BY <2>1, <2>7, <4>2
        <5> QED BY <2>1, <2>7, <5>1 DEF Refuses, Guarded, Live
      <4> QED BY <4>1, <4>2
    <3>2. 0 \notin Indices(q)
      BY <1>3, IsHandle
    <3>3. fired[q] = {}
      BY <1>3, <3>1, <3>2
    <3>4. fired'[q] = {rcv[2]} /\ lDone'[q] = rcv[2]
      BY <2>4, <2>7, <3>3
    <3>5. CASE q = p
      <4>1. rcv = <<p, idx[p]>>
        BY <2>1, <2>2, <3>5
      <4>2. ret'[p] = idx[p]
        BY <1>1, <1>4 DEF ScanExchange, StartTrue, TypeOK
      <4>3. rcv[2] = idx[p]
        BY <4>1
      <4> QED BY <2>3, <3>4, <3>5, <4>2, <4>3
    <3>6. CASE q # p
      <4>1. pc'[q] = pc[q]
        BY <1>2, <1>3, <3>6 DEF OthersStay
      <4>2. pc[q] \in {"cancel", "canceling", "returned"} => AllNil(q)
        BY <1>3, <3>1
      <4> QED BY <2>5, <3>4, <4>1, <4>2 DEF AllNil
    <3> QED BY <3>5, <3>6
  <2> QED BY <2>6, <2>7
<1>5. CASE ~ScanExchange(p)
  <2>1. lDone' = lDone /\ fired' = fired
    BY <1>5 DEF Step, Begin, StartCase, SkipNil, Enter, ScanRefused, ScanEnd, AllStarted, Wake,
                CancelEnter, CancelRemove, CancelEnd
  <2>2. CASE q # p
    <3>1. pc'[q] = pc[q] /\ ret'[q] = ret[q] /\ nilH'[q] = nilH[q]
      BY <1>2, <1>3, <2>2 DEF OthersStay
    <3> QED BY <1>3, <2>1, <3>1 DEF AllNil
  <2>3. CASE q = p
    <3>1. CASE Wake(p)
      BY <1>1, <1>3, <2>1, <2>3, <3>1 DEF Wake, TypeOK
    <3>2. CASE AllStarted(p)
      BY <1>1, <1>3, <2>1, <2>3, <3>2 DEF AllStarted, TypeOK, AllNil
    <3>3. CASE ScanEnd(p)
      <4>1. idx[p] \in Indices(p)
        BY <1>1, <3>3 DEF ScanEnd, QueueInv
      <4>2. Dir(<<p, idx[p]>>) = "recv"
        BY <2>3, <4>1 DEF OnlyReceives, Dir
      <4>3. StartFalse(p)
        BY <3>3, <4>2 DEF ScanEnd
      <4>4. pc'[p] = "start"
        BY <1>1, <1>3, <2>3, <4>3, SelectAssumption DEF StartFalse, TypeOK
      <4> QED BY <1>3, <2>1, <2>3, <4>4
    <3>4. CASE ~Wake(p) /\ ~AllStarted(p) /\ ~ScanEnd(p)
      <4>1. pc'[p] \in {"cancel", "canceling", "returned"} =>
              nilH' = nilH /\ ret' = ret /\ pc[p] \in {"cancel", "canceling", "returned"}
        BY <1>1, <1>5, <3>4 DEF TypeOK, Step, Begin, StartCase, SkipNil, Enter, ScanRefused,
                                CancelEnter, CancelRemove, CancelEnd
      <4> QED BY <1>3, <2>1, <2>3, <4>1 DEF AllNil
    <3> QED BY <3>1, <3>2, <3>3, <3>4
  <2> QED BY <2>2, <2>3
<1> QED BY <1>4, <1>5

LEMMA FireClose ==
  ASSUME IInv, NEW c \in Chans, CloseStep(c) PROVE FireInv'
<1>1. TypeOK /\ FireInv /\ UNCHANGED <<pc, nilH, ret, fired>>
  BY CloseStays DEF IInv
<1> SUFFICES ASSUME NEW q \in Selects, OnlyReceives(q)
             PROVE  /\ fired[q] \subseteq {lDone'[q]}
                    /\ pc[q] \in {"cancel", "canceling", "returned"} =>
                         AllNil(q) \/ (lDone'[q] # 0 /\ ret[q] = lDone'[q])
  BY <1>1 DEF FireInv, AllNil
<1>2. /\ q \in Procs /\ fired[q] \subseteq {lDone[q]} /\ fired[q] \subseteq Indices(q)
      /\ pc[q] \in {"cancel", "canceling", "returned"} =>
           AllNil(q) \/ (lDone[q] # 0 /\ ret[q] = lDone[q])
  BY <1>1 DEF FireInv, TypeOK, Procs
<1>3. CASE lDone'[q] = lDone[q]
  BY <1>2, <1>3
<1>4. CASE lDone'[q] # lDone[q]
  <2>1. lDone[q] = 0
    BY <1>4, WhoTellsClose
  <2>2. 0 \notin Indices(q)
    BY <1>2, IsHandle
  <2> QED BY <1>2, <2>1, <2>2
<1> QED BY <1>3, <1>4

-----------------------------------------------------------------------------
(* The inductive invariant and the theorems. *)

LEMMA InitIInv == ASSUME Init PROVE IInv
<1>1. \A p \in Procs : Len(Cases[p]) \in Nat
  <2> SUFFICES ASSUME NEW p \in Procs PROVE Len(Cases[p]) \in Nat
    OBVIOUS
  <2>1. Cases[p] \in Seq([ch : Chans, dir : {"send", "recv"}])
    BY SelectAssumption
  <2> QED BY <2>1
<1>2. TypeOK
  BY <1>1 DEF Init, TypeOK
<1>3. \A T : <<>> \in Seq(T) /\ ToSet(<<>>) = {} /\ IsInjective(<<>>)
  BY DEF ToSet, IsInjective
<1>4. \A c \in Chans : ToSet(fData[c]) = {} /\ ToSet(fWaiting[c]) = {} /\ IsInjective(fData[c]) /\ IsInjective(fWaiting[c])
  BY <1>3 DEF Init
<1>5. \A h \in Handles : ~InQueue(h)
  BY <1>4, HandleFacts DEF InQueue
<1>6. \A p \in Procs : \A i \in Indices(p) : ~InQueue(<<p, i>>)
  BY <1>5, IsHandle
<1>7. \A p \in Procs : pc[p] = "idle" /\ idx[p] = 1 /\ todo[p] = {} /\ lDone[p] = 0 /\ fired[p] = {}
  BY DEF Init
<1>8. QueueInv
  BY <1>4, <1>6, <1>7 DEF QueueInv
<1>9. LeftInv /\ LockInv /\ FireInv
  BY <1>7 DEF LeftInv, LockInv, FireInv, Procs
<1> QED BY <1>2, <1>8, <1>9 DEF IInv

LEMMA StepIInv == ASSUME IInv, [Next]_vars PROVE IInv'
<1>1. ASSUME NEW p \in Procs, Step(p) PROVE IInv'
  BY <1>1, TypeStep, QueueStep, LeftStep, LockStep, FireStep DEF IInv
<1>2. ASSUME NEW c \in Chans, CloseStep(c) PROVE IInv'
  BY <1>2, TypeClose, QueueClose, LeftClose, LockClose, FireClose DEF IInv
<1>3. CASE UNCHANGED vars
  BY <1>3 DEF vars, locks, IInv, TypeOK, QueueInv, LeftInv, LockInv, FireInv, InQueue, AllNil
<1> QED BY <1>1, <1>2, <1>3 DEF Next

\* The types, and NothingLeftBehind: a blocking select that returned has no
\* handle in any channel but the one of the case it returns.
THEOREM CancelledAll == Spec => []Inv
<1>1. IInv => Inv
  <2> SUFFICES ASSUME IInv PROVE NothingLeftBehind
    BY DEF IInv, Inv
  <2> SUFFICES ASSUME NEW p \in Blocking, pc[p] = "returned", NEW i \in Indices(p) \ {ret[p]}
               PROVE  ~InQueue(<<p, i>>)
    BY DEF NothingLeftBehind, InQueue
  <2> QED BY SelectAssumption DEF IInv, LeftInv
<1>2. Init => IInv
  BY InitIInv
<1>3. IInv /\ [Next]_vars => IInv'
  BY StepIInv
<1> QED BY <1>1, <1>2, <1>3, PTL DEF Spec

\* A select of receives takes one value at most, that of the case it returns,
\* whoever meets its handles while it starts, waits and cancels.
THEOREM OneValueOnly == Spec => []TakesWhatItReturns
<1>1. IInv => TakesWhatItReturns
  <2> SUFFICES ASSUME IInv, NEW p \in Blocking, OnlyReceives(p)
               PROVE  /\ Cardinality(fired[p]) <= 1
                      /\ pc[p] = "returned" => fired[p] \subseteq {ret[p]}
    BY DEF TakesWhatItReturns
  <2>1. /\ p \in Selects /\ p \in Procs /\ fired[p] \subseteq Indices(p)
        /\ fired[p] \subseteq {lDone[p]}
        /\ pc[p] = "returned" => AllNil(p) \/ ret[p] = lDone[p]
        /\ AllNil(p) => lDone[p] = 0
    BY SelectAssumption DEF IInv, TypeOK, FireInv, LockInv, Procs
  <2>2. 0 \notin Indices(p)
    BY <2>1, IsHandle
  <2>3. Cardinality(fired[p]) <= 1
    <3>1. fired[p] = {} \/ fired[p] = {lDone[p]}
      BY <2>1
    <3>2. Cardinality({}) = 0
      BY FS_EmptySet
    <3>3. Cardinality({lDone[p]}) = 1
      BY FS_Singleton
    <3> QED BY <3>1, <3>2, <3>3
  <2> QED BY <2>1, <2>2, <2>3
<1>2. Init => IInv
  BY InitIInv
<1>3. IInv /\ [Next]_vars => IInv'
  BY StepIInv
<1> QED BY <1>1, <1>2, <1>3, PTL DEF Spec
=============================================================================
