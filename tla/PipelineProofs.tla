---------------------------- MODULE PipelineProofs ----------------------------
(***************************************************************************)
(* The events of a Pipeline's sequencers are in turn and no waiting client *)
(* is forgotten, for any number of clients that the event numbers can tell *)
(* apart, as the numbers wrap around for ever.  The argument:              *)
(*   - the clients that have not ended their response hold the consecutive *)
(*     numbers from the response sequencer's up to Pipeline.id, so their   *)
(*     numbers differ, also after a wrap-around (NumInv);                  *)
(*   - a client that may begin, or is being notified, has the sequencer's  *)
(*     number, hence is the only one (TurnInv, SendInv);                   *)
(*   - a channel in the map belongs to the client waiting for that event,  *)
(*     whom nobody notifies yet (WaitInv), and a client that waits has its *)
(*     channel there or is being notified (FoundInv).                      *)
(***************************************************************************)
EXTENDS Pipeline, FiniteSetTheorems, TLAPS

\* The clients that took a number and have not called End of their response.
Pending == {c \in Clients :
              pc[c] # "idle" /\ ~(stage[c] = "response" /\ pc[c] \in Sending)}

\* The number k after a, and how far b is after a.
Off(a, k)  == IF a + k >= Modulus THEN a + k - Modulus ELSE a + k
Dist(a, b) == IF b >= a THEN b - a ELSE b - a + Modulus

NumInv ==
  /\ nextId = Off(seqId["response"], Cardinality(Pending))
  /\ \A c \in Pending : Dist(seqId["response"], id[c]) < Cardinality(Pending)
  /\ \A c, d \in Pending : id[c] = id[d] => c = d

\* End of e is about to send to the channel of c.
Notifies(e, c) == pc[e] \in Sending /\ ~lDone[e] /\ peer[e] = c

\* Waiting in Start with nobody having sent yet.
Waiting(c) == pc[c] \in Receiving /\ ~lDone[c]

TurnInv ==
  \A c \in Clients :
    /\ pc[c] # "panic"
    /\ pc[c] = "in" \/ (pc[c] \in Receiving /\ lDone[c]) => seqId[stage[c]] = id[c]
    /\ pc[c] \in {"recv", "send"} => ~lDone[c]

SendInv ==
  /\ \A e \in Clients : pc[e] \in Sending /\ ~lDone[e] => peer[e] \in Clients
  /\ \A e, c \in Clients : Notifies(e, c) =>
       /\ Waiting(c) /\ seqId[stage[c]] = id[c]
       /\ \A f \in Clients : Notifies(f, c) => f = e

WaitInv ==
  \A s \in Seqs, i \in Ids : \A c \in Clients : wait[s][i] = c =>
    /\ Waiting(c) /\ stage[c] = s /\ id[c] = i
    /\ \A e \in Clients : ~Notifies(e, c)

FoundInv ==
  \A c \in Clients : Waiting(c) =>
    wait[stage[c]][id[c]] = c \/ \E e \in Clients : Notifies(e, c)

\* The inductive invariant.
IInv == TypeOK /\ NumInv /\ TurnInv /\ SendInv /\ WaitInv /\ FoundInv

(***************************************************************************)
(* Arithmetic of the event numbers.                                        *)
(***************************************************************************)
LEMMA Numbers ==
  ASSUME NEW a \in Ids, NEW b \in Ids
  PROVE  /\ Succ(a) \in Ids /\ Succ(a) = Off(a, 1)
         /\ Dist(a, b) \in 0..(Modulus - 1) /\ (Dist(a, b) = 0 <=> a = b)
         /\ a # b => Dist(Succ(a), b) = Dist(a, b) - 1
         /\ \A k \in 0..Modulus : /\ Off(a, k) \in Ids
                                  /\ k < Modulus => Dist(a, Off(a, k)) = k
                                  /\ k > 0 => Off(Succ(a), k - 1) = Off(a, k)
<1> USE PipelineAssumption
<1>1. Succ(a) = Off(a, 1)
  <2>1. CASE a + 1 = Modulus
    BY <2>1 DEF Succ, Off, Ids
  <2>2. CASE a + 1 < Modulus
    BY <2>2 DEF Succ, Off, Ids
  <2> QED BY <2>1, <2>2 DEF Ids
<1>2. Succ(a) \in Ids
  BY <1>1 DEF Off, Ids
<1>3. Dist(a, b) \in 0..(Modulus - 1) /\ (Dist(a, b) = 0 <=> a = b)
  BY DEF Dist, Ids
<1>4. a # b => Dist(Succ(a), b) = Dist(a, b) - 1
  BY <1>1 DEF Dist, Off, Ids
<1>5. ASSUME NEW k \in 0..Modulus
      PROVE  /\ Off(a, k) \in Ids
             /\ k < Modulus => Dist(a, Off(a, k)) = k
             /\ k > 0 => Off(Succ(a), k - 1) = Off(a, k)
  BY <1>1 DEF Dist, Off, Ids
<1> QED BY <1>1, <1>2, <1>3, <1>4, <1>5

(***************************************************************************)
(* There are numbers enough, and one more for a client that holds none.    *)
(***************************************************************************)
LEMMA PendingCount ==
  /\ IsFiniteSet(Pending) /\ Cardinality(Pending) \in 0..Modulus
  /\ \A c \in Clients : c \notin Pending => Cardinality(Pending) < Modulus
<1> USE PipelineAssumption
<1>1. Pending \in SUBSET Clients
  BY DEF Pending
<1>2. /\ IsFiniteSet(Pending) /\ Cardinality(Pending) \in Nat /\ Cardinality(Clients) \in Nat
      /\ Cardinality(Pending) <= Cardinality(Clients)
      /\ Cardinality(Pending) = Cardinality(Clients) => Pending = Clients
  BY <1>1, FS_Subset, FS_CardinalityType
<1> QED BY <1>1, <1>2

(***************************************************************************)
(* Whoever is at a sequencer and has not ended it holds a number.          *)
(***************************************************************************)
LEMMA AreNumbered ==
  ASSUME NEW c \in Clients,
         pc[c] \in {"start", "in"} \cup Receiving \/ (pc[c] # "idle" /\ stage[c] = "request")
  PROVE  c \in Pending
  BY DEF Pending, Receiving, Sending

(***************************************************************************)
(* The invariant is what the theorem is about.                             *)
(***************************************************************************)
LEMMA IInvImpliesInv == IInv => Inv
<1> SUFFICES ASSUME IInv PROVE Inv
  OBVIOUS
<1>1. InTurn
  <2> SUFFICES ASSUME NEW c \in Clients, pc[c] = "in"
               PROVE  /\ seqId[stage[c]] = id[c]
                      /\ \A d \in Clients \ {c} : pc[d] = "in" => stage[d] # stage[c]
    BY DEF InTurn
  <2>1. \A d \in Clients : pc[d] = "in" => seqId[stage[d]] = id[d] /\ d \in Pending
    BY AreNumbered DEF IInv, TurnInv
  <2> QED BY <2>1 DEF IInv, NumInv
<1>2. NotForgotten
  BY DEF IInv, FoundInv, NotForgotten, Waiting, Notifies
<1> QED BY <1>1, <1>2 DEF IInv, Inv

(***************************************************************************)
(* The initial state.                                                      *)
(***************************************************************************)
LEMMA InitIInv == Init => IInv
<1> USE PipelineAssumption
<1> SUFFICES ASSUME Init PROVE IInv
  OBVIOUS
<1>1. TypeOK
  BY DEF Init, TypeOK, Ids, Seqs
<1>2. Pending = {}
  BY DEF Init, Pending
<1>3. Cardinality(Pending) = 0
  BY <1>2, FS_EmptySet
<1>4. NumInv
  BY <1>2, <1>3 DEF NumInv, Init, Off, Seqs
<1>5. TurnInv /\ SendInv /\ FoundInv
  BY DEF Init, TurnInv, SendInv, FoundInv, Notifies, Waiting, Receiving, Sending
<1>6. WaitInv
  BY DEF Init, WaitInv
<1> QED BY <1>1, <1>4, <1>5, <1>6 DEF IInv

(***************************************************************************)
(* Steps that neither give nor use up a number.                            *)
(***************************************************************************)
LEMMA NumSame ==
  ASSUME IInv, UNCHANGED <<nextId, id>>, seqId'["response"] = seqId["response"],
         Pending' = Pending
  PROVE  NumInv'
  BY DEF IInv, NumInv

(***************************************************************************)
(* The next number is free: with the client that takes it idle, fewer than *)
(* Modulus are in use.                                                     *)
(***************************************************************************)
LEMMA TakeNumberKeeps ==
  ASSUME IInv, NEW c \in Clients, TakeNumber(c)
  PROVE  IInv'
<1> USE PipelineAssumption DEF IInv
<1> DEFINE p == seqId["response"]
           n == Cardinality(Pending)
<1>1. /\ pc[c] = "idle" /\ id' = [id EXCEPT ![c] = nextId] /\ nextId' = Succ(nextId)
      /\ stage' = [stage EXCEPT ![c] = "request"] /\ pc' = [pc EXCEPT ![c] = "start"]
      /\ UNCHANGED <<seqId, wait, peer, lDone>>
  BY DEF TakeNumber
<1>2. p \in Ids /\ nextId \in Ids /\ \A d \in Clients : id[d] \in Ids
  BY DEF TypeOK, Seqs
<1>3. TypeOK'
  BY <1>1, <1>2, Numbers DEF TypeOK, Seqs
<1>4. NumInv'
  <2>1. c \notin Pending /\ Pending' = Pending \cup {c}
    BY <1>1 DEF Pending, TypeOK, Sending
  <2>2. n \in 0..(Modulus - 1) /\ Cardinality(Pending') = n + 1
    <3>1. n \in 0..Modulus /\ n < Modulus /\ IsFiniteSet(Pending)
      BY <2>1, PendingCount
    <3>2. Cardinality(Pending \cup {c}) = n + 1
      BY <2>1, <3>1, FS_AddElement
    <3> QED BY <2>1, <3>1, <3>2
  <2>3. nextId = Off(p, n) /\ Dist(p, nextId) = n
    <3>1. nextId = Off(p, n)
      BY DEF NumInv
    <3> HIDE DEF n, p
    <3>2. n \in 0..Modulus /\ n < Modulus
      BY <2>2
    <3>3. Dist(p, Off(p, n)) = n
      BY <1>2, <3>2, Numbers
    <3> QED BY <3>1, <3>3
  <2>4. Succ(nextId) = Off(p, n + 1)
    <3>1. Succ(nextId) = Off(nextId, 1)
      BY <1>2, Numbers
    <3> HIDE DEF n, p
    <3> QED BY <1>2, <2>2, <2>3, <3>1 DEF Off, Ids
  <2>5. \A d \in Pending : id'[d] = id[d] /\ d \in Clients
    BY <1>1, <2>1 DEF Pending, TypeOK
  <2>6. id'[c] = nextId
    BY <1>1 DEF TypeOK
  <2>7. \A d \in Pending : Dist(p, id[d]) < n /\ id[d] # nextId
    BY <2>2, <2>3 DEF NumInv
  <2>8. \A d \in Clients : Dist(p, id[d]) \in Int
    BY <1>2, Numbers
  <2>9. \A d \in Pending' : Dist(p, id'[d]) < n + 1
    BY <2>1, <2>2, <2>3, <2>5, <2>6, <2>7, <2>8
  <2>10. \A d, e \in Pending' : id'[d] = id'[e] => d = e
    BY <2>1, <2>5, <2>6, <2>7 DEF NumInv
  <2> QED BY <1>1, <2>2, <2>4, <2>9, <2>10 DEF NumInv
<1>5. /\ \A d \in Clients \ {c} : pc'[d] = pc[d] /\ id'[d] = id[d] /\ stage'[d] = stage[d]
      /\ pc'[c] = "start"
  BY <1>1 DEF TypeOK
<1>6. \A d \in Clients : /\ Waiting(d)' <=> Waiting(d)
                         /\ \A e \in Clients : Notifies(e, d)' <=> Notifies(e, d)
                         /\ Waiting(d) => d # c
  BY <1>1, <1>5 DEF Waiting, Notifies, Receiving, Sending
<1>7. TurnInv'
  BY <1>1, <1>5 DEF TurnInv, Receiving
<1>8. SendInv'
  BY <1>1, <1>5, <1>6 DEF SendInv, Sending
<1>9. WaitInv'
  BY <1>1, <1>5, <1>6 DEF WaitInv
<1>10. FoundInv'
  BY <1>1, <1>5, <1>6 DEF FoundInv
<1> QED BY <1>3, <1>4, <1>7, <1>8, <1>9, <1>10

(***************************************************************************)
(* Start, in turn or too early; no other client is at the same event, so   *)
(* its entry in the map is free.                                           *)
(***************************************************************************)
LEMMA StartKeeps ==
  ASSUME IInv, NEW c \in Clients, Start(c)
  PROVE  IInv'
<1> USE PipelineAssumption DEF IInv
<1> DEFINE l == IF MyTurn(c) THEN "in" ELSE "recv"
<1>1. /\ pc[c] = "start" /\ lDone' = [lDone EXCEPT ![c] = FALSE]
      /\ pc' = [pc EXCEPT ![c] = l]
      /\ wait' = IF MyTurn(c) THEN wait ELSE [wait EXCEPT ![stage[c]][id[c]] = c]
      /\ UNCHANGED <<nextId, seqId, id, stage, peer>>
  BY DEF Start
<1>2. stage[c] \in Seqs /\ id[c] \in Ids /\ \A d \in Clients : id[d] \in Ids /\ stage[d] \in Seqs
  BY DEF TypeOK
<1>3. TypeOK'
  BY <1>1, <1>2 DEF TypeOK, Receiving
<1>4. /\ \A d \in Clients \ {c} : pc'[d] = pc[d] /\ lDone'[d] = lDone[d]
      /\ pc'[c] = l /\ ~lDone'[c]
  BY <1>1 DEF TypeOK
<1>5. NumInv'
  <2>1. Pending' = Pending
    BY <1>1, <1>4 DEF Pending, Sending
  <2> QED BY <1>1, <2>1, NumSame
<1>6. /\ \A d, e \in Clients : Notifies(e, d)' <=> Notifies(e, d)
      /\ \A d \in Clients \ {c} : Waiting(d)' <=> Waiting(d)
      /\ ~Waiting(c) /\ (Waiting(c)' <=> ~MyTurn(c))
  BY <1>1, <1>4 DEF Waiting, Notifies, Receiving, Sending
<1>7. TurnInv'
  BY <1>1, <1>4 DEF TurnInv, MyTurn, Receiving
<1>8. SendInv'
  BY <1>1, <1>4, <1>6 DEF SendInv, Sending
<1>9. \A e \in Clients : ~Notifies(e, c)
  BY <1>6 DEF SendInv, Notifies
<1>10. \A s \in Seqs, i \in Ids :
         wait'[s][i] = IF ~MyTurn(c) /\ s = stage[c] /\ i = id[c] THEN c ELSE wait[s][i]
  BY <1>1, <1>2 DEF TypeOK
<1>11. WaitInv'
  BY <1>1, <1>6, <1>9, <1>10 DEF WaitInv
<1>12. FoundInv'
  <2> SUFFICES ASSUME NEW d \in Clients, Waiting(d)'
               PROVE  wait'[stage[d]][id[d]] = d \/ \E e \in Clients : Notifies(e, d)'
    BY <1>1 DEF FoundInv
  <2>1. CASE d = c
    BY <1>2, <1>6, <1>10, <2>1
  <2>2. CASE d # c
    <3>1. Waiting(d) /\ c \in Pending /\ d \in Pending
      BY <1>1, <1>6, <2>2, AreNumbered DEF Waiting
    <3>2. id[d] # id[c]
      BY <2>2, <3>1 DEF NumInv
    <3> QED BY <1>2, <1>6, <1>10, <3>1, <3>2 DEF FoundInv
  <2> QED BY <2>1, <2>2
<1> QED BY <1>3, <1>5, <1>7, <1>8, <1>11, <1>12
(***************************************************************************)
(* End uses up its number: those still pending come after it, and who has  *)
(* the next number is whom End notifies.                                   *)
(***************************************************************************)
LEMMA EndNum ==
  ASSUME IInv, NEW c \in Clients, pc[c] = "in", TypeOK',
         UNCHANGED <<nextId, id>>,
         seqId' = [seqId EXCEPT ![stage[c]] = Succ(id[c])],
         Pending' = IF stage[c] = "request" THEN Pending ELSE Pending \ {c}
  PROVE  NumInv'
<1> USE PipelineAssumption DEF IInv
<1> DEFINE p == seqId["response"]
           n == Cardinality(Pending)
<1>1. CASE stage[c] = "request"
  BY <1>1, NumSame DEF TypeOK, Seqs
<1>2. CASE stage[c] = "response"
  <2>1. c \in Pending /\ id[c] = p /\ p \in Ids /\ \A d \in Clients : id[d] \in Ids
    BY <1>2, AreNumbered DEF TurnInv, TypeOK, Seqs
  <2>2. seqId'["response"] = Succ(p)
    BY <1>2, <2>1 DEF TypeOK, Seqs
  <2>3. IsFiniteSet(Pending) /\ n \in 0..Modulus
    BY PendingCount
  <2>4. Cardinality(Pending \ {c}) = n - 1 /\ n \in Nat /\ n - 1 \in Nat
    <3>1. Cardinality(Pending \ {c}) = n - 1 /\ n \in Nat
      <4>1. Cardinality(Pending \ {c}) = Cardinality(Pending) - 1
        BY <2>1, <2>3, FS_RemoveElement
      <4> QED BY <2>3, <4>1
    <3>2. IsFiniteSet(Pending \ {c})
      BY <2>3, FS_RemoveElement
    <3>3. Cardinality(Pending \ {c}) \in Nat
      BY <3>2, FS_CardinalityType
    <3> QED BY <3>1, <3>3
  <2>5. Cardinality(Pending') = n - 1
    BY <1>2, <2>4
  <2>6. nextId = Off(p, n) /\ \A d \in Pending : Dist(p, id[d]) < n
    BY DEF NumInv
  <2>7. \A d \in Pending \ {c} : id[d] # p /\ d \in Clients
    BY <2>1 DEF NumInv, Pending
  <2> HIDE DEF n, p
  <2>8. Off(Succ(p), n - 1) = Off(p, n)
    BY <2>1, <2>3, <2>4, Numbers
  <2>9. \A d \in Pending \ {c} : Dist(p, id[d]) \in Int /\ Dist(Succ(p), id[d]) = Dist(p, id[d]) - 1
    BY <2>1, <2>7, Numbers
  <2>10. \A d \in Pending \ {c} : Dist(Succ(p), id[d]) < n - 1
    BY <2>4, <2>6, <2>9
  <2>11. Pending' = Pending \ {c}
    BY <1>2
  <2> QED BY <2>2, <2>5, <2>6, <2>8, <2>10, <2>11 DEF NumInv
<1> QED BY <1>1, <1>2 DEF TypeOK, Seqs

(***************************************************************************)
(* sequencer.End: it is always in sync, so it never panics.                *)
(***************************************************************************)
LEMMA EndKeeps ==
  ASSUME IInv, NEW c \in Clients, End(c)
  PROVE  IInv'
<1> USE PipelineAssumption DEF IInv
<1> DEFINE s == stage[c]
           i == Succ(id[c])
<1>1. /\ pc[c] = "in" /\ seqId[s] = id[c] /\ s \in Seqs /\ id[c] \in Ids
      /\ \A d \in Clients : id[d] \in Ids /\ stage[d] \in Seqs
  BY DEF End, TurnInv, TypeOK
<1>2. i \in Ids
  BY <1>1, Numbers
<1>3. PICK o \in Clients \cup {None} : o = wait[s][i]
  BY <1>1, <1>2 DEF TypeOK
<1>4. /\ seqId' = [seqId EXCEPT ![s] = i] /\ wait' = [wait EXCEPT ![s][i] = None]
      /\ lDone' = [lDone EXCEPT ![c] = FALSE] /\ UNCHANGED <<nextId, id>>
      /\ pc' = [pc EXCEPT ![c] = IF o = None THEN Onward(c) ELSE "send"]
      /\ stage' = IF o = None THEN [stage EXCEPT ![c] = "response"] ELSE stage
      /\ peer' = IF o = None THEN peer ELSE [peer EXCEPT ![c] = o]
  BY <1>1, <1>3 DEF End, NextWaiter, Advance
<1>5. TypeOK'
  BY <1>1, <1>2, <1>3, <1>4 DEF TypeOK, Onward, Sending, Seqs
<1>6. /\ \A d \in Clients \ {c} : /\ pc'[d] = pc[d] /\ lDone'[d] = lDone[d]
                                  /\ stage'[d] = stage[d] /\ peer'[d] = peer[d]
      /\ ~lDone'[c]
      /\ pc'[c] = IF o = None THEN Onward(c) ELSE "send"
      /\ o = None => stage'[c] = "response"
      /\ o # None => stage'[c] = s /\ peer'[c] = o
      /\ \A r \in Seqs : seqId'[r] = IF r = s THEN i ELSE seqId[r]
  BY <1>1, <1>4 DEF TypeOK
<1>7. \A r \in Seqs, j \in Ids : wait'[r][j] = IF r = s /\ j = i THEN None ELSE wait[r][j]
  BY <1>1, <1>2, <1>4 DEF TypeOK
<1>8. NumInv'
  <2>1. Pending' = IF s = "request" THEN Pending ELSE Pending \ {c}
    BY <1>1, <1>6 DEF Pending, Onward, Sending, Seqs
  <2> QED BY <1>1, <1>4, <1>5, <2>1, EndNum
\* Nobody else at this sequencer has the number that ends.
<1>9. \A d \in Clients \ {c} : pc[d] \in {"in"} \cup Receiving => id[d] # id[c]
  <2>1. c \in Pending
    BY <1>1, AreNumbered
  <2>2. \A d \in Clients : pc[d] \in {"in"} \cup Receiving => d \in Pending
    BY AreNumbered
  <2> QED BY <2>1, <2>2 DEF NumInv
<1>10. \A d \in Clients : /\ Waiting(d)' <=> Waiting(d)
                          /\ Waiting(d) => d # c
  BY <1>1, <1>6 DEF Waiting, Receiving, Onward
<1>11. \A d, e \in Clients : e # c => (Notifies(e, d)' <=> Notifies(e, d))
  BY <1>6 DEF Notifies
<1>12. \A d \in Clients : ~Notifies(c, d) /\ (Notifies(c, d)' <=> o = d)
  BY <1>1, <1>3, <1>6 DEF Notifies, Sending, Onward
<1>13. o \in Clients => /\ Waiting(o) /\ stage[o] = s /\ id[o] = i
                        /\ \A e \in Clients : ~Notifies(e, o)
  BY <1>1, <1>2, <1>3 DEF WaitInv
<1>14. TurnInv'
  <2> SUFFICES ASSUME NEW d \in Clients
               PROVE  /\ pc'[d] # "panic"
                      /\ pc'[d] = "in" \/ (pc'[d] \in Receiving /\ lDone'[d])
                           => seqId'[stage'[d]] = id[d]
                      /\ pc'[d] \in {"recv", "send"} => ~lDone'[d]
    BY <1>4 DEF TurnInv
  <2>1. CASE d = c
    BY <1>6, <2>1 DEF Onward, Receiving
  <2>2. CASE d # c
    BY <1>1, <1>6, <1>9, <2>2 DEF TurnInv
  <2> QED BY <2>1, <2>2
<1>15. SendInv'
  <2>1. \A e \in Clients : pc'[e] \in Sending /\ ~lDone'[e] => peer'[e] \in Clients
    BY <1>3, <1>6 DEF SendInv, Onward, Sending
  <2>2. ASSUME NEW e \in Clients, NEW d \in Clients, Notifies(e, d)'
        PROVE  /\ Waiting(d)' /\ seqId'[stage'[d]] = id[d]
               /\ \A f \in Clients : Notifies(f, d)' => f = e
    <3>1. CASE e = c
      <4>1. o = d
        BY <1>12, <2>2, <3>1
      <4> QED BY <1>1, <1>6, <1>10, <1>11, <1>13, <3>1, <4>1
    <3>2. CASE e # c
      <4>1. /\ Notifies(e, d) /\ Waiting(d) /\ seqId[stage[d]] = id[d]
            /\ \A f \in Clients : Notifies(f, d) => f = e
        BY <1>11, <2>2, <3>2 DEF SendInv
      <4>2. d # c /\ d # o /\ pc[d] \in Receiving
        BY <1>10, <1>13, <4>1 DEF Waiting
      <4>3. id[d] # id[c]
        BY <1>9, <4>2
      <4>4. seqId'[stage'[d]] = id[d]
        BY <1>1, <1>6, <4>1, <4>2, <4>3
      <4> QED BY <1>10, <1>11, <1>12, <4>1, <4>2, <4>4
    <3> QED BY <3>1, <3>2
  <2> QED BY <1>4, <2>1, <2>2 DEF SendInv
<1>16. WaitInv'
  <2> SUFFICES ASSUME NEW r \in Seqs, NEW j \in Ids, NEW d \in Clients, wait'[r][j] = d
               PROVE  /\ Waiting(d)' /\ stage'[d] = r /\ id[d] = j
                      /\ \A e \in Clients : ~Notifies(e, d)'
    BY <1>4 DEF WaitInv
  <2>1. wait[r][j] = d /\ ~(r = s /\ j = i)
    BY <1>7
  <2>2. Waiting(d) /\ stage[d] = r /\ id[d] = j /\ \A e \in Clients : ~Notifies(e, d)
    BY <2>1 DEF WaitInv
  <2>3. d # c /\ d # o
    BY <1>10, <1>13, <2>1, <2>2
  <2> QED BY <1>6, <1>10, <1>11, <1>12, <2>2, <2>3
<1>17. FoundInv'
  <2> SUFFICES ASSUME NEW d \in Clients, Waiting(d)'
               PROVE  wait'[stage'[d]][id[d]] = d \/ \E e \in Clients : Notifies(e, d)'
    BY <1>4 DEF FoundInv
  <2>1. Waiting(d) /\ d # c /\ stage'[d] = stage[d]
    BY <1>6, <1>10
  <2>2. wait[stage[d]][id[d]] = d \/ \E e \in Clients : Notifies(e, d)
    BY <2>1 DEF FoundInv
  <2>3. CASE \E e \in Clients : Notifies(e, d)
    BY <1>11, <1>12, <2>3
  <2>4. CASE wait[stage[d]][id[d]] = d
    <3>1. CASE o = d
      BY <1>12, <3>1
    <3>2. CASE o # d
      BY <1>1, <1>3, <1>7, <2>1, <2>4, <3>2
    <3> QED BY <3>1, <3>2
  <2> QED BY <2>2, <2>3, <2>4
<1> QED BY <1>5, <1>8, <1>14, <1>15, <1>16, <1>17
(***************************************************************************)
(* Steps within Send or Receive, and the return of a Receive that was sent *)
(* to, change neither who waits nor who notifies whom.                     *)
(***************************************************************************)
LEMMA SamePlaces ==
  ASSUME IInv, TypeOK', UNCHANGED <<nextId, seqId, wait, id, stage, peer, lDone>>,
         \A d \in Clients :
           \/ pc'[d] = pc[d]
           \/ pc[d] \in Receiving /\ pc'[d] \in Receiving \ {"recv"}
           \/ pc[d] \in Sending /\ pc'[d] \in Sending \ {"send"}
           \/ pc[d] \in Receiving /\ lDone[d] /\ pc'[d] = "in"
  PROVE  IInv'
<1> USE DEF IInv, Receiving, Sending
<1>1. Pending' = Pending
  BY DEF Pending
<1>2. NumInv'
  BY <1>1, NumSame
<1>3. TurnInv'
  BY DEF TurnInv
<1>4. \A d, e \in Clients : /\ Waiting(d)' <=> Waiting(d)
                            /\ Notifies(e, d)' <=> Notifies(e, d)
  BY DEF Waiting, Notifies
<1>5. SendInv'
  BY <1>4 DEF SendInv
<1>6. WaitInv' /\ FoundInv'
  BY <1>4 DEF WaitInv, FoundInv
<1> QED BY <1>2, <1>3, <1>5, <1>6

(***************************************************************************)
(* Looking at lDone and going to sleep, in a Receive.                      *)
(***************************************************************************)
LEMMA ReceiveCheckKeeps ==
  ASSUME IInv, NEW c \in Clients, ReceiveCheck(c) \/ Sleep(c)
  PROVE  IInv'
<1>1. TypeOK'
  BY DEF IInv, ReceiveCheck, Sleep, TypeOK, Receiving, Sending
<1> QED BY <1>1, SamePlaces DEF IInv, ReceiveCheck, Sleep, TypeOK, Receiving, Sending

(***************************************************************************)
(* A Send returns: its client goes on, and no longer notifies.             *)
(***************************************************************************)
LEMMA SendCheckKeeps ==
  ASSUME IInv, NEW c \in Clients, SendCheck(c)
  PROVE  IInv'
<1> USE PipelineAssumption DEF IInv
<1>1. CASE ~lDone[c]
  <2>1. pc' = [pc EXCEPT ![c] = "schecked"] /\ pc[c] = "squeued"
        /\ UNCHANGED <<nextId, seqId, wait, id, lDone, stage, peer>>
    BY <1>1 DEF SendCheck
  <2>2. TypeOK'
    BY <2>1 DEF TypeOK, Receiving, Sending
  <2> QED BY <2>1, <2>2, SamePlaces DEF TypeOK, Receiving, Sending
<1>2. CASE lDone[c]
  <2>1. /\ pc[c] = "squeued" /\ pc' = [pc EXCEPT ![c] = Onward(c)]
        /\ stage' = [stage EXCEPT ![c] = "response"] /\ peer' = [peer EXCEPT ![c] = None]
        /\ UNCHANGED <<nextId, seqId, wait, id, lDone>>
    BY <1>2 DEF SendCheck, Advance
  <2>2. TypeOK'
    BY <2>1 DEF TypeOK, Onward, Seqs
  <2>3. /\ \A d \in Clients \ {c} : pc'[d] = pc[d] /\ stage'[d] = stage[d] /\ peer'[d] = peer[d]
        /\ pc'[c] = Onward(c) /\ stage'[c] = "response" /\ stage[c] \in Seqs
    BY <2>1 DEF TypeOK
  <2>4. Pending' = Pending
    BY <2>1, <2>3 DEF Pending, Onward, Sending, Seqs
  <2>5. NumInv'
    BY <2>1, <2>4, NumSame
  <2>6. TurnInv'
    BY <2>1, <2>3 DEF TurnInv, Onward, Receiving
  <2>7. \A d, e \in Clients : /\ Waiting(d)' <=> Waiting(d)
                              /\ Waiting(d) => d # c
                              /\ Notifies(e, d)' <=> Notifies(e, d)
    BY <1>2, <2>1, <2>3 DEF Waiting, Notifies, Onward, Receiving, Sending
  <2>8. SendInv'
    BY <1>2, <2>1, <2>3, <2>7 DEF SendInv
  <2>9. WaitInv' /\ FoundInv'
    BY <2>1, <2>3, <2>7 DEF WaitInv, FoundInv
  <2> QED BY <2>2, <2>5, <2>6, <2>8, <2>9
<1> QED BY <1>1, <1>2

(***************************************************************************)
(* The exchange, whichever side came second: c, the only one to notify o,  *)
(* is done, and so is o, whose turn it is.                                 *)
(***************************************************************************)
LEMMA ExchangeKeeps ==
  ASSUME IInv, TypeOK', NEW c \in Clients, NEW o \in Clients, Notifies(c, o),
         UNCHANGED <<nextId, seqId, wait, id>>,
         \A d \in Clients : lDone'[d] <=> lDone[d] \/ d \in {c, o},
         \A d \in Clients \ {c} :
           /\ stage'[d] = stage[d] /\ peer'[d] = peer[d]
           /\ \/ pc'[d] = pc[d] /\ (d = o => pc[d] # "recv")
              \/ d = o /\ pc'[d] = "queued",
         \/ pc'[c] = Onward(c) /\ stage'[c] = "response"
         \/ pc'[c] \in Sending \ {"send"} /\ stage'[c] = stage[c] /\ peer'[c] = peer[c]
  PROVE  IInv'
<1> USE DEF IInv
<1>1. /\ Waiting(o) /\ seqId[stage[o]] = id[o] /\ c # o /\ pc[c] \in Sending
      /\ \A f \in Clients : Notifies(f, o) => f = c
      /\ stage[c] \in Seqs
  BY DEF SendInv, Notifies, Waiting, Receiving, Sending, TypeOK
<1>2. pc[o] \in Receiving /\ pc'[o] \in Receiving \ {"recv"}
  BY <1>1 DEF Waiting, Receiving
<1>3. Pending' = Pending
  <2>1. \A d \in Clients : (pc'[d] = "idle" \/ (stage'[d] = "response" /\ pc'[d] \in Sending))
                       <=> (pc[d] = "idle" \/ (stage[d] = "response" /\ pc[d] \in Sending))
    BY <1>1, <1>2 DEF Onward, Sending, Receiving, Seqs
  <2> QED BY <2>1 DEF Pending
<1>4. NumInv'
  BY <1>3, NumSame
<1>5. TurnInv'
  <2> SUFFICES ASSUME NEW d \in Clients
               PROVE  /\ pc'[d] # "panic"
                      /\ pc'[d] = "in" \/ (pc'[d] \in Receiving /\ lDone'[d])
                           => seqId[stage'[d]] = id[d]
                      /\ pc'[d] \in {"recv", "send"} => ~lDone'[d]
    BY DEF TurnInv
  <2>1. CASE d = c
    BY <2>1 DEF Onward, Sending, Receiving
  <2>2. CASE d = o
    BY <1>1, <1>2, <2>2 DEF Receiving
  <2>3. CASE d \notin {c, o}
    BY <2>3 DEF TurnInv
  <2> QED BY <2>1, <2>2, <2>3
<1>6. \A d \in Clients : Waiting(d)' <=> Waiting(d) /\ d # o
  BY <1>1, <1>2 DEF Waiting, Onward, Sending, Receiving
<1>7. \A d, e \in Clients : Notifies(e, d)' <=> Notifies(e, d) /\ e # c
  BY <1>1, <1>2 DEF Notifies, Onward, Sending, Receiving
<1>8. SendInv'
  <2>1. \A e \in Clients : pc'[e] \in Sending /\ ~lDone'[e] => peer'[e] \in Clients
    BY <1>1, <1>2 DEF SendInv, Sending, Receiving
  <2>2. ASSUME NEW e \in Clients, NEW d \in Clients, Notifies(e, d)'
        PROVE  /\ Waiting(d)' /\ seqId[stage'[d]] = id[d]
               /\ \A f \in Clients : Notifies(f, d)' => f = e
    <3>1. Notifies(e, d) /\ e # c /\ d # o /\ Waiting(d)
      BY <1>1, <1>7, <2>2 DEF SendInv
    <3>2. d # c
      BY <1>1, <3>1 DEF Waiting, Receiving, Sending
    <3> QED BY <1>6, <1>7, <3>1, <3>2 DEF SendInv
  <2> QED BY <2>1, <2>2 DEF SendInv
<1>9. \A d \in Clients : Waiting(d) => stage'[d] = stage[d]
  BY <1>1 DEF Waiting, Receiving, Sending
<1>10. WaitInv'
  BY <1>6, <1>7, <1>9 DEF WaitInv
<1>11. FoundInv'
  <2> SUFFICES ASSUME NEW d \in Clients, Waiting(d)'
               PROVE  wait[stage'[d]][id[d]] = d \/ \E e \in Clients : Notifies(e, d)'
    BY DEF FoundInv
  <2>1. Waiting(d) /\ d # o /\ stage'[d] = stage[d]
    BY <1>6, <1>9
  <2>2. ~Notifies(c, d)
    BY <2>1 DEF Notifies
  <2> QED BY <1>7, <2>1, <2>2 DEF FoundInv
<1> QED BY <1>4, <1>5, <1>8, <1>10, <1>11

(***************************************************************************)
(* The Send of an End meets its Receive, or is queued.                     *)
(***************************************************************************)
LEMMA SendAddKeeps ==
  ASSUME IInv, NEW c \in Clients, SendAdd(c)
  PROVE  IInv'
<1> USE PipelineAssumption DEF IInv
<1>1. PICK o \in Clients : Notifies(c, o)
  BY DEF SendAdd, TurnInv, SendInv, Notifies, Sending
<1>2. /\ pc[c] = "send" /\ peer[c] = o /\ pc[o] \in Receiving /\ ~lDone[o] /\ c # o
      /\ UNCHANGED <<nextId, seqId, wait, id>>
  BY <1>1 DEF SendAdd, SendInv, Notifies, Waiting, Receiving
<1>3. CASE pc[o] = "recv"
  <2>1. pc' = [pc EXCEPT ![c] = "squeued"] /\ UNCHANGED <<lDone, stage, peer>>
    BY <1>2, <1>3 DEF SendAdd
  <2>2. TypeOK'
    BY <1>2, <2>1 DEF TypeOK, Sending
  <2> QED BY <1>2, <2>1, <2>2, SamePlaces DEF TypeOK, Receiving, Sending
<1>4. CASE pc[o] # "recv"
  <2>1. /\ lDone' = [lDone EXCEPT ![c] = TRUE, ![o] = TRUE]
        /\ pc' = [pc EXCEPT ![c] = Onward(c), ![o] = IF @ = "asleep" THEN "queued" ELSE @]
        /\ stage' = [stage EXCEPT ![c] = "response"] /\ peer' = [peer EXCEPT ![c] = None]
    BY <1>2, <1>4 DEF SendAdd, Advance
  <2>2. TypeOK'
    BY <1>2, <2>1 DEF TypeOK, Onward, Receiving, Seqs
  <2>3. \A d \in Clients : lDone'[d] <=> lDone[d] \/ d \in {c, o}
    BY <2>1 DEF TypeOK
  <2>4. /\ \A d \in Clients \ {c} :
             /\ stage'[d] = stage[d] /\ peer'[d] = peer[d]
             /\ pc'[d] = IF d = o /\ pc[d] = "asleep" THEN "queued" ELSE pc[d]
        /\ pc'[c] = Onward(c) /\ stage'[c] = "response"
    BY <1>2, <2>1 DEF TypeOK
  <2> QED BY <1>1, <1>2, <1>4, <2>2, <2>3, <2>4, ExchangeKeeps
<1> QED BY <1>3, <1>4

(***************************************************************************)
(* The Receive of a Start meets its Send, or is queued.                    *)
(***************************************************************************)
LEMMA ReceiveAddKeeps ==
  ASSUME IInv, NEW c \in Clients, ReceiveAdd(c)
  PROVE  IInv'
<1> USE PipelineAssumption DEF IInv
<1> DEFINE sender == {e \in Clients : /\ peer[e] = c /\ ~lDone[e]
                                      /\ pc[e] \in Sending \ {"send"}}
<1>1. /\ pc[c] = "recv" /\ ~lDone[c]
      /\ pc' = [e \in Clients |-> IF e = c THEN "queued"
                                  ELSE IF e \in sender /\ pc[e] = "sasleep" THEN "squeued"
                                  ELSE pc[e]]
      /\ lDone' = [e \in Clients |-> IF e = c THEN sender # {} ELSE lDone[e] \/ e \in sender]
      /\ UNCHANGED <<nextId, seqId, wait, id, stage, peer>>
  BY DEF ReceiveAdd, TurnInv
<1>2. /\ \A e \in Clients : pc'[e] \in {"idle", "start", "in", "panic"} \cup Receiving \cup Sending
      /\ pc' \in [Clients -> {"idle", "start", "in", "panic"} \cup Receiving \cup Sending]
  BY <1>1 DEF TypeOK, Receiving, Sending
<1>3. lDone' \in [Clients -> BOOLEAN]
  <2>1. \A e \in Clients : (IF e = c THEN sender # {} ELSE lDone[e] \/ e \in sender) \in BOOLEAN
    BY Zenon DEF TypeOK
  <2> QED BY <1>1, <2>1
<1>4. TypeOK'
  BY <1>1, <1>2, <1>3 DEF TypeOK
<1>5. \A e \in sender : Notifies(e, c)
  BY DEF Notifies
<1>6. CASE sender = {}
  <2>1. \A e \in Clients : lDone'[e] = lDone[e]
    BY <1>1, <1>6 DEF TypeOK
  <2>2. lDone' = lDone
    BY <1>3, <2>1 DEF TypeOK
  <2> QED BY <1>1, <1>4, <1>6, <2>2, SamePlaces DEF TypeOK, Receiving, Sending
<1>7. CASE sender # {}
  <2>1. PICK e \in sender : TRUE
    BY <1>7
  <2>2. e \in Clients /\ Notifies(e, c) /\ pc[e] \in Sending \ {"send"} /\ e # c
    BY <1>1, <1>5, <2>1 DEF Sending
  <2>3. sender = {e}
    BY <1>5, <2>1, <2>2 DEF SendInv
  <2> HIDE DEF sender
  <2>4. \A d \in Clients : lDone'[d] <=> lDone[d] \/ d \in {e, c}
    BY <1>1, <1>7, <2>3
  <2>5. \A d \in Clients \ {e} : pc'[d] = IF d = c THEN "queued" ELSE pc[d]
    BY <1>1, <2>3
  <2>6. pc'[e] \in Sending \ {"send"}
    BY <1>1, <2>2, <2>3 DEF Sending
  <2> QED BY <1>1, <1>4, <2>2, <2>4, <2>5, <2>6, ExchangeKeeps
<1> QED BY <1>6, <1>7

(***************************************************************************)
(* The invariant is inductive.                                             *)
(***************************************************************************)
LEMMA NextIInv == IInv /\ [Next]_vars => IInv'
<1> SUFFICES ASSUME IInv, [Next]_vars PROVE IInv'
  OBVIOUS
<1>1. CASE UNCHANGED vars
  <2>1. UNCHANGED <<nextId, seqId, wait, id, stage, peer, lDone, pc>>
    BY <1>1 DEF vars
  <2>2. TypeOK'
    BY <2>1 DEF IInv, TypeOK
  <2> QED BY <2>1, <2>2, SamePlaces
<1> QED
  BY <1>1, TakeNumberKeeps, StartKeeps, EndKeeps, ReceiveAddKeeps, ReceiveCheckKeeps,
     SendAddKeeps, SendCheckKeeps
  DEF Next, Step

(***************************************************************************)
(* Events happen in the order of their numbers, one after the other, and   *)
(* the End before a waiting client finds it, however often the numbers     *)
(* wrap around.                                                            *)
(***************************************************************************)
THEOREM EventsInOrder == Spec => []Inv
  BY InitIInv, NextIInv, IInvImpliesInv, PTL DEF Spec

(***************************************************************************)
(* sequencer.End never finds the sequencer out of sync: its panic is dead  *)
(* code as long as the callers of Pipeline use each number once.           *)
(***************************************************************************)
THEOREM NeverOutOfSync == Spec => [](\A c \in Clients : pc[c] # "panic")
<1>1. IInv => \A c \in Clients : pc[c] # "panic"
  BY DEF IInv, TurnInv
<1> QED BY <1>1, InitIInv, NextIInv, PTL DEF Spec
=============================================================================
