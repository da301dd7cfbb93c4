-------------------------- MODULE GoldChannelProofs --------------------------
(***************************************************************************)
(* Theorems about GoldChannel, for every set of calls and every capacity.  *)
(***************************************************************************)
EXTENDS GoldChannel, TLAPS

(***************************************************************************)
(* The process sets are disjoint: a label of a Send or a Receive belongs   *)
(* to exactly one of the two kinds of call.                                *)
(***************************************************************************)
LEMMA ProcKinds ==
  /\ Senders \subseteq Procs /\ Receivers \subseteq Procs
  /\ Rangers \subseteq Procs /\ Closers \subseteq Procs
  /\ \A s \in Senders : s \notin Receivers /\ s \notin Rangers /\ s \notin Closers
  /\ \A r \in Receivers : r \notin Rangers /\ r \notin Closers /\ r \notin Senders
  /\ \A g \in Rangers : g \notin Closers /\ g \notin Senders /\ g \notin Receivers
  /\ \A c \in Closers : c \notin Senders /\ c \notin Receivers /\ c \notin Rangers
BY ChannelAssumption DEF Procs, Calls

AllPC == SendPC \cup RecvPC \cup RangePC \cup ClosePC

\* The conjuncts of TypeOK about pc.
PcOK ==
  /\ pc \in [Procs -> AllPC]
  /\ \A s \in Senders : pc[s] \in SendPC
  /\ \A r \in Receivers : pc[r] \in RecvPC
  /\ \A g \in Rangers : pc[g] \in RangePC
  /\ \A c \in Closers : pc[c] \in ClosePC

(***************************************************************************)
(* Moving one call to a label of its own kind keeps pc typed.              *)
(***************************************************************************)
LEMMA PcStep ==
  ASSUME PcOK, NEW p \in Procs, NEW l,
         p \in Senders => l \in SendPC,
         p \in Receivers => l \in RecvPC,
         p \in Rangers => l \in RangePC,
         p \in Closers => l \in ClosePC,
         pc' = [pc EXCEPT ![p] = l]
  PROVE  PcOK'
BY ProcKinds DEF PcOK, Procs, Calls, AllPC

(***************************************************************************)
(* A Pulse wakes Sends and Receives only, and keeps pc typed.              *)
(***************************************************************************)
LEMMA PcPulse ==
  ASSUME PcOK, NEW P \in SUBSET (Senders \cup Receivers), NEW p \in Procs, NEW l,
         p \in Senders => l \in SendPC,
         p \in Receivers => l \in RecvPC,
         p \in Rangers => l \in RangePC,
         p \in Closers => l \in ClosePC,
         pc' = PcAfter(P, p, l)
  PROVE  PcOK'
<1>1. \A q \in Procs : pc'[q] = IF q = p THEN l
                        ELSE IF q \in P /\ pc[q] = "wait" THEN "check" ELSE pc[q]
  BY DEF PcAfter
<1>2. "check" \in SendPC /\ "check" \in RecvPC
  BY DEF SendPC, RecvPC
<1>3. pc' \in [Procs -> AllPC]
  <2>1. \A q \in Procs : pc'[q] \in AllPC
    BY <1>1, <1>2, ProcKinds DEF PcOK, AllPC, Procs, Calls
  <2>2. pc' = [q \in Procs |-> pc'[q]]
    BY DEF PcAfter
  <2> QED
    BY <2>1, <2>2
<1>4. \A s \in Senders : pc'[s] \in SendPC
  BY <1>1, <1>2, ProcKinds DEF PcOK
<1>5. \A r \in Receivers : pc'[r] \in RecvPC
  BY <1>1, <1>2, ProcKinds DEF PcOK
<1>6. \A g \in Rangers : pc'[g] \in RangePC
  BY <1>1, ProcKinds DEF PcOK
<1>7. \A c \in Closers : pc'[c] \in ClosePC
  BY <1>1, ProcKinds DEF PcOK
<1> QED
  BY <1>3, <1>4, <1>5, <1>6, <1>7 DEF PcOK

\* TypeOK without pc.
DataOK ==
  /\ fClosed \in BOOLEAN
  /\ fData \in Seq(Senders)
  /\ fWaiting \in Seq(Receivers)
  /\ fLock \in Rangers \cup {None}
  /\ fNotifier \in [Senders -> BOOLEAN]
  /\ lDone \in [Senders \cup Receivers -> BOOLEAN]
  /\ fReceivedValue \in [Receivers -> Senders \cup {None}]
  /\ fHaveValue \in [Receivers -> BOOLEAN]
  /\ resVal \in [Receivers -> Senders \cup {None}]
  /\ resOk \in [Receivers -> BOOLEAN]
  /\ left \in [Rangers -> Nat]
  /\ lClosed \in [Closers -> BOOLEAN]
  /\ host \in [Calls -> Rangers \cup {None}]
  /\ entered \in Seq(Senders)
  /\ delivered \in Seq(Senders)

(***************************************************************************)
(* The members of the front of a queue of messages are messages.           *)
(***************************************************************************)
LEMMA FrontType == \A q \in Seq(Senders) : Front(q) \subseteq Senders
BY DEF Front

(***************************************************************************)
(* Initially every variable has its type.                                  *)
(***************************************************************************)
LEMMA InitType == Init => TypeOK
<1> SUFFICES ASSUME Init PROVE DataOK /\ PcOK
  BY DEF TypeOK, DataOK, PcOK, AllPC
<1>1. DataOK
  <2>1. fData \in Seq(Senders) /\ fWaiting \in Seq(Receivers)
    BY DEF Init
  <2>2. entered \in Seq(Senders) /\ delivered \in Seq(Senders)
    BY DEF Init
  <2>3. /\ fClosed \in BOOLEAN
        /\ fNotifier \in [Senders -> BOOLEAN]
        /\ lDone \in [Senders \cup Receivers -> BOOLEAN]
        /\ fHaveValue \in [Receivers -> BOOLEAN]
        /\ resOk \in [Receivers -> BOOLEAN]
        /\ lClosed \in [Closers -> BOOLEAN]
  /\ host \in [Calls -> Rangers \cup {None}]
    BY Zenon DEF Init
  <2>4. left \in [Rangers -> Nat]
    BY DEF Init
  <2> QED BY <2>1, <2>2, <2>3, <2>4 DEF Init, DataOK
<1>2. PcOK
  BY ProcKinds DEF Init, PcOK, AllPC, SendPC, RecvPC, RangePC, ClosePC
<1> QED
  BY <1>1, <1>2

(***************************************************************************)
(* Every step keeps the types.                                             *)
(***************************************************************************)
LEMMA NextType == TypeOK /\ [Next]_vars => TypeOK'
<1> SUFFICES ASSUME DataOK, PcOK, [Next]_vars PROVE DataOK' /\ PcOK'
  BY DEF TypeOK, DataOK, PcOK, AllPC
<1> USE ChannelAssumption
<1>1. ASSUME NEW s \in Senders, SendCheck(s) PROVE DataOK' /\ PcOK'
  <2>1. DataOK'
    BY <1>1 DEF SendCheck, Begin, Calls, DataOK, chanVars, msgVars, res, hist
  <2>2. PcOK'
    BY <1>1, PcStep, ProcKinds DEF SendCheck, SendPC
  <2> QED BY <2>1, <2>2
<1>2. ASSUME NEW s \in Senders, SendAdd(s) PROVE DataOK' /\ PcOK'
  <2>1. CASE SendHandOff(s)
    <3> DEFINE r == Head(fWaiting)
               N == [fNotifier EXCEPT ![s] = TRUE]
    <3>1. r \in Receivers /\ Tail(fWaiting) \in Seq(Receivers)
      BY <2>1 DEF SendHandOff, DataOK, res
    <3>2. Released(fData, N) \subseteq Senders
      BY FrontType DEF Released, DataOK
    <3>3. DataOK'
      BY <1>2, <2>1, <3>1 DEF SendAdd, SendHandOff, res, HandOff, Silence, Notify, DataOK
    <3>4. PcOK'
      <4>1. {r} \cup Released(fData, N) \in SUBSET (Senders \cup Receivers)
        BY <3>1, <3>2
      <4>2. pc' = PcAfter({r} \cup Released(fData, N), s, "sent")
        BY <2>1 DEF SendHandOff
      <4>3. "sent" \in SendPC
        BY DEF SendPC
      <4> QED
        BY <4>1, <4>2, <4>3, PcPulse, ProcKinds
    <3> QED BY <3>3, <3>4
  <2>2. CASE SendQueue(s)
    <3>1. DataOK'
      BY <1>2, <2>2 DEF SendAdd, SendQueue, Notify, DataOK, res
    <3>2. PcOK'
      BY <2>2, PcStep, ProcKinds DEF SendQueue, SendPC
    <3> QED BY <3>1, <3>2
  <2> QED BY <1>2, <2>1, <2>2 DEF SendAdd
<1>3. ASSUME NEW s \in Senders, SendDone(s) PROVE DataOK' /\ PcOK'
  <2>1. DataOK'
    BY <1>3 DEF SendDone, DataOK, chanVars, msgVars, res, hist
  <2>2. PcOK'
    BY <1>3, PcStep, ProcKinds DEF SendDone, SendPC
  <2> QED BY <2>1, <2>2
<1>4. ASSUME NEW p \in Senders \cup Receivers, EnterWait(p) PROVE DataOK' /\ PcOK'
  <2>1. DataOK'
    BY <1>4 DEF EnterWait, DataOK, chanVars, msgVars, res, hist
  <2>2. PcOK'
    BY <1>4, PcStep, ProcKinds DEF EnterWait, SendPC, RecvPC
  <2> QED BY <2>1, <2>2
<1>5. ASSUME NEW r \in Receivers, ReceiveCheck(r) PROVE DataOK' /\ PcOK'
  <2>1. DataOK'
    BY <1>5 DEF ReceiveCheck, Begin, Calls, DataOK, chanVars, msgVars, res, hist
  <2>2. PcOK'
    BY <1>5, PcStep, ProcKinds DEF ReceiveCheck, RecvPC
  <2> QED BY <2>1, <2>2
<1>6. ASSUME NEW p \in Procs, NEW l, fData # <<>>, Take(p, l),
             p \in Senders => l \in SendPC,
             p \in Receivers => l \in RecvPC,
             p \in Rangers => l \in RangePC,
             p \in Closers => l \in ClosePC
      PROVE  /\ Head(fData) \in Senders
             /\ fData' \in Seq(Senders)
             /\ fNotifier' \in [Senders -> BOOLEAN]
             /\ lDone' \in [Senders \cup Receivers -> BOOLEAN]
             /\ PcOK'
  <2> DEFINE P == Owner(Head(fData), fNotifier) \cup Released(Tail(fData), fNotifier)
  <2>1. Head(fData) \in Senders /\ Tail(fData) \in Seq(Senders)
    BY <1>6 DEF DataOK
  <2>2. P \in SUBSET (Senders \cup Receivers)
    BY <2>1, FrontType DEF Released, Owner
  <2>3. pc' = PcAfter(P, p, l)
    BY <1>6 DEF Take
  <2>4. PcOK'
    BY <1>6, <2>2, <2>3, PcPulse
  <2>5. fNotifier' \in [Senders -> BOOLEAN]
    BY <1>6 DEF Take, Silence, DataOK
  <2>6. lDone' \in [Senders \cup Receivers -> BOOLEAN]
    BY <1>6 DEF Take, Notify, DataOK
  <2> QED BY <1>6, <2>1, <2>4, <2>5, <2>6 DEF Take
<1>7. ASSUME NEW r \in Receivers, ReceiveAdd(r) PROVE DataOK' /\ PcOK'
  <2>1. CASE ReceiveTake(r)
    <3>1. "check" \in RecvPC
      BY DEF RecvPC
    <3>2. /\ Head(fData) \in Senders
          /\ fData' \in Seq(Senders)
          /\ fNotifier' \in [Senders -> BOOLEAN]
          /\ lDone' \in [Senders \cup Receivers -> BOOLEAN]
          /\ PcOK'
      BY <1>6, <2>1, <3>1, ProcKinds DEF ReceiveTake
    <3>3. /\ fHaveValue' \in [Receivers -> BOOLEAN]
          /\ fReceivedValue' \in [Receivers -> Senders \cup {None}]
      BY <2>1, <3>2 DEF ReceiveTake, HandOff, DataOK
    <3>4. delivered' \in Seq(Senders)
      BY <2>1, <3>2 DEF ReceiveTake, HandOff, DataOK
    <3>5. DataOK'
      BY <1>7, <2>1, <3>2, <3>3, <3>4 DEF ReceiveAdd, ReceiveTake, DataOK, res
    <3> QED BY <3>2, <3>5
  <2>2. CASE ReceiveQueue(r)
    <3>1. DataOK'
      BY <1>7, <2>2 DEF ReceiveAdd, ReceiveQueue, DataOK, msgVars, res
    <3>2. PcOK'
      <4>1. "check" \in RecvPC /\ "woken" \in RangePC
        BY DEF RecvPC, RangePC
      <4>2. CASE pc' = [pc EXCEPT ![r] = "check"]
        BY <4>1, <4>2, PcStep, ProcKinds
      <4>3. ASSUME NEW g \in Pulsed, pc' = [pc EXCEPT ![r] = "check", ![g] = "woken"]
            PROVE  PcOK'
        BY <4>1, <4>3, ProcKinds DEF PcOK, AllPC, Pulsed, Procs, Calls
      <4> QED BY <2>2, <4>2, <4>3 DEF ReceiveQueue
    <3> QED BY <3>1, <3>2
  <2> QED BY <1>7, <2>1, <2>2 DEF ReceiveAdd
<1>8. ASSUME NEW r \in Receivers,
             ReceiveDone(r) \/ ReceiveClosed(r) \/ ReceiveValue(r) \/ ReceiveOk(r)
      PROVE  DataOK' /\ PcOK'
  <2>1. DataOK'
    BY <1>8 DEF ReceiveDone, ReceiveClosed, ReceiveValue, ReceiveOk, DataOK,
                chanVars, msgVars, res, hist
  <2>2. PcOK'
    BY <1>8, PcStep, ProcKinds DEF ReceiveDone, ReceiveClosed, ReceiveValue,
                                   ReceiveOk, RecvPC
  <2> QED BY <2>1, <2>2
<1>9. ASSUME NEW g \in Rangers,
             RangeTop(g) \/ RangeWoken(g) \/ RangeUnlock(g) \/ RangeRaises(g) \/ RangeBreak(g)
      PROVE  DataOK' /\ PcOK'
  <2>1. DataOK'
    BY <1>9 DEF RangeTop, RangeWoken, RangeUnlock, RangeRaises, RangeBreak, DataOK, msgVars, res, hist
  <2>2. PcOK'
    BY <1>9, PcStep, ProcKinds DEF RangeTop, RangeWoken, RangeUnlock, RangeRaises, RangeBreak, RangePC
  <2> QED BY <2>1, <2>2
<1>10. ASSUME NEW g \in Rangers, RangeTake(g) PROVE DataOK' /\ PcOK'
  <2>0. fData # <<>>
    BY <1>10 DEF RangeTake
  <2>1. "yield" \in RangePC
    BY DEF RangePC
  <2>2. /\ Head(fData) \in Senders
        /\ fData' \in Seq(Senders)
        /\ fNotifier' \in [Senders -> BOOLEAN]
        /\ lDone' \in [Senders \cup Receivers -> BOOLEAN]
        /\ PcOK'
    BY <1>6, <1>10, <2>0, <2>1, ProcKinds DEF RangeTake
  <2>3. DataOK'
    BY <1>10, <2>2 DEF RangeTake, DataOK, res
  <2> QED BY <2>2, <2>3
<1>11. ASSUME NEW c \in Closers, CloseRead(c) \/ CloseWrite(c) \/ CloseNotify(c)
       PROVE  DataOK' /\ PcOK'
  <2>1. DataOK'
    <3>1. CASE CloseRead(c)
      <4>1. host' \in [Calls -> Rangers \cup {None}]
        BY <3>1 DEF CloseRead, Begin, DataOK
      <4>2. lClosed' \in [Closers -> BOOLEAN]
        BY <3>1 DEF CloseRead, DataOK
      <4> QED BY <3>1, <4>1, <4>2 DEF CloseRead, DataOK, chanVars, msgVars, res, hist
    <3>2. CASE CloseWrite(c)
      BY <3>2 DEF CloseWrite, DataOK, msgVars, res, hist
    <3>3. CASE CloseNotify(c)
      BY <3>3 DEF CloseNotify, Notify, DataOK, chanVars, res, hist
    <3> QED BY <1>11, <3>1, <3>2, <3>3
  <2>2. CASE CloseRead(c) \/ CloseWrite(c)
    BY <2>1, <2>2, PcStep, ProcKinds DEF CloseRead, CloseWrite, ClosePC
  <2>3. CASE CloseNotify(c)
    <3>1. Queued \in SUBSET (Senders \cup Receivers)
      BY DEF Queued
    <3>2. pc' = PcAfter(Queued, c, "ended") /\ "ended" \in ClosePC
      BY <2>3 DEF CloseNotify, ClosePC
    <3> QED BY <2>1, <3>1, <3>2, PcPulse, ProcKinds
  <2> QED BY <1>11, <2>2, <2>3
<1>12. CASE UNCHANGED vars
  BY <1>12 DEF vars, DataOK, PcOK, chanVars, msgVars, res, hist
<1> QED
  BY <1>1, <1>2, <1>3, <1>4, <1>5, <1>7, <1>8, <1>9, <1>10, <1>11, <1>12
  DEF Next, SendStep, ReceiveStep, RangeStep, CloseStep

(***************************************************************************)
(* A call that has not begun has no range around it.                       *)
(***************************************************************************)
HostInv == \A r \in Receivers : pc[r] = "idle" => host[r] = None

LEMMA NextHost == TypeOK /\ HostInv /\ [Next]_vars => HostInv'
<1> SUFFICES ASSUME TypeOK, HostInv, [Next]_vars,
                    NEW r \in Receivers, pc'[r] = "idle"
             PROVE  host'[r] = None
  BY DEF HostInv
<1> USE ProcKinds
<1>0. ASSUME NEW P, NEW p \in Procs, NEW l, pc' = PcAfter(P, p, l), l # "idle",
             host' = host
      PROVE  host'[r] = None
  BY <1>0 DEF PcAfter, HostInv
<1>1. ASSUME NEW p \in Procs, NEW l, pc' = [pc EXCEPT ![p] = l], l # "idle",
             host' = host \/ Begin(p)
      PROVE  host'[r] = None
  <2>1. p # r /\ pc[r] = "idle"
    BY <1>1 DEF TypeOK
  <2>2. r \in Calls /\ host \in [Calls -> Rangers \cup {None}]
    BY DEF Calls, TypeOK
  <2> QED BY <1>1, <2>1, <2>2 DEF HostInv, Begin
<1>2. ASSUME NEW s \in Senders, SendStep(s) PROVE host'[r] = None
  <2>1. CASE SendAdd(s)
    BY <1>0, <1>1, <2>1 DEF SendAdd, SendHandOff, SendQueue
  <2> QED BY <1>1, <1>2, <2>1 DEF SendStep, SendCheck, SendDone, EnterWait
<1>3. ASSUME NEW q \in Receivers, ReceiveStep(q) PROVE host'[r] = None
  <2>1. CASE ReceiveAdd(q)
    <3>1. CASE ReceiveTake(q)
      BY <1>0, <2>1, <3>1 DEF ReceiveAdd, ReceiveTake, Take
    <3>2. CASE ReceiveQueue(q)
      <4>1. pc[r] = "idle"
        BY <3>2 DEF ReceiveQueue, Pulsed, TypeOK
      <4> QED BY <2>1, <4>1 DEF ReceiveAdd, HostInv
    <3> QED BY <2>1, <3>1, <3>2 DEF ReceiveAdd
  <2> QED BY <1>1, <1>3, <2>1 DEF ReceiveStep, ReceiveCheck, ReceiveDone,
          ReceiveClosed, EnterWait, ReceiveValue, ReceiveOk
<1>4. ASSUME NEW g \in Rangers, RangeStep(g) \/ RangeBreak(g) PROVE host'[r] = None
  <2>1. CASE RangeTake(g)
    BY <1>0, <2>1 DEF RangeTake, Take
  <2> QED BY <1>1, <1>4, <2>1 DEF RangeStep, RangeTop, RangeWoken, RangeUnlock,
          RangeRaises, RangeBreak
<1>5. ASSUME NEW c \in Closers, CloseStep(c) PROVE host'[r] = None
  <2>1. CASE CloseNotify(c)
    BY <1>0, <2>1 DEF CloseNotify
  <2> QED BY <1>1, <1>5, <2>1 DEF CloseStep, CloseRead, CloseWrite
<1>6. CASE UNCHANGED vars
  BY <1>6 DEF vars, HostInv
<1> QED BY <1>2, <1>3, <1>4, <1>5, <1>6 DEF Next

(***************************************************************************)
(* What a loop body received stays received.                               *)
(***************************************************************************)
LEMMA BodyKeeps ==
  ASSUME TypeOK, HostInv, [Next]_vars, NEW h \in Rangers, ReceivedInBody(h)
  PROVE  ReceivedInBody(h)'
<1> USE ProcKinds, ChannelAssumption
<1>1. PICK r \in Receivers : host[r] = h /\ fHaveValue[r]
  BY DEF ReceivedInBody
<1>2. pc[r] # "idle" /\ r \in Calls /\ host \in [Calls -> Rangers \cup {None}]
      /\ fHaveValue \in [Receivers -> BOOLEAN]
  BY <1>1 DEF HostInv, Calls, TypeOK
<1> SUFFICES host'[r] = h /\ fHaveValue'[r]
  BY DEF ReceivedInBody
<1>3. ASSUME NEW p \in Procs, Begin(p), p = r => pc[r] = "idle" PROVE host'[r] = h
  BY <1>1, <1>2, <1>3 DEF Begin
<1>4. ASSUME NEW s \in Senders, SendStep(s) PROVE host'[r] = h /\ fHaveValue'[r]
  BY <1>1, <1>2, <1>3, <1>4 DEF SendStep, SendCheck, SendDone, EnterWait, SendAdd,
     SendHandOff, SendQueue, HandOff, msgVars
<1>5. ASSUME NEW q \in Receivers, ReceiveStep(q) PROVE host'[r] = h /\ fHaveValue'[r]
  BY <1>1, <1>2, <1>3, <1>5 DEF ReceiveStep, ReceiveCheck, ReceiveDone, ReceiveClosed,
     EnterWait, ReceiveValue, ReceiveOk, ReceiveAdd, ReceiveTake, ReceiveQueue, HandOff,
     msgVars
<1>6. ASSUME NEW g \in Rangers, RangeStep(g) \/ RangeBreak(g)
      PROVE  host'[r] = h /\ fHaveValue'[r]
  BY <1>1, <1>6 DEF RangeStep, RangeTop, RangeWoken, RangeTake, RangeUnlock,
     RangeRaises, RangeBreak, msgVars
<1>7. ASSUME NEW c \in Closers, CloseStep(c) PROVE host'[r] = h /\ fHaveValue'[r]
  BY <1>1, <1>2, <1>3, <1>7 DEF CloseStep, CloseRead, CloseWrite, CloseNotify, msgVars
<1>8. CASE UNCHANGED vars
  BY <1>1, <1>8 DEF vars, msgVars
<1> QED BY <1>4, <1>5, <1>6, <1>7, <1>8 DEF Next

(***************************************************************************)
(* Every step keeps RangeInBounds: the sections that change fData are      *)
(* entered with fLock free or by the goroutine that has it, so while a     *)
(* range loops only that range and its own body take messages.             *)
(***************************************************************************)
LEMMA NextRange == TypeOK /\ HostInv /\ RangeInBounds /\ [Next]_vars => RangeInBounds'
<1> SUFFICES ASSUME TypeOK, HostInv, RangeInBounds, [Next]_vars, NEW h \in Rangers
             PROVE  /\ Looping(h)' => /\ fLock' = h
                                      /\ \/ left'[h] <= Len(fData')
                                         \/ ReceivedInBody(h)'
                    /\ pc'[h] = "raised" => ReceivedInBody(h)'
  BY DEF RangeInBounds
<1> DEFINE Keep == /\ Looping(h)' => /\ fLock' = h
                                      /\ \/ left'[h] <= Len(fData')
                                         \/ ReceivedInBody(h)'
                   /\ pc'[h] = "raised" => ReceivedInBody(h)'
<1> USE ProcKinds, ChannelAssumption
<1>a. ReceivedInBody(h) => ReceivedInBody(h)'
  BY BodyKeeps
<1>b. /\ Looping(h) => fLock = h /\ (left[h] <= Len(fData) \/ ReceivedInBody(h))
      /\ pc[h] = "raised" => ReceivedInBody(h)
      /\ \A g \in Rangers : Looping(g) => fLock = g
  BY DEF RangeInBounds
<1>c. Len(fData) \in Nat /\ left[h] \in Nat
  BY DEF TypeOK
<1>z. ASSUME pc'[h] = pc[h], fLock' = fLock, left' = left,
             Len(fData') \in Nat,
             Looping(h) => Len(fData) <= Len(fData') \/ ReceivedInBody(h)'
      PROVE  Keep
  BY <1>a, <1>b, <1>c, <1>z DEF Looping
<1>y. ASSUME NEW P \in SUBSET (Senders \cup Receivers), NEW p \in Procs, NEW l,
             pc' = PcAfter(P, p, l), h # p
      PROVE  pc'[h] = pc[h]
  BY <1>y DEF PcAfter
<1>1. ASSUME NEW s \in Senders, SendAdd(s) PROVE Keep
  <2>1. fLock' = fLock /\ left' = left
    BY <1>1 DEF SendAdd
  <2>2. CASE SendHandOff(s)
    <3>1. Released(fData, [fNotifier EXCEPT ![s] = TRUE]) = {}
      BY DEF Released, EmptyLambda
    <3>2. Head(fWaiting) \in Receivers
      BY <2>2 DEF SendHandOff, TypeOK
    <3>3. pc' = PcAfter({Head(fWaiting)}, s, "sent")
      BY <2>2, <3>1 DEF SendHandOff
    <3>4. fData' = fData
      BY <2>2 DEF SendHandOff
    <3>5. pc'[h] = pc[h]
      BY <1>y, <3>2, <3>3
    <3> QED BY <1>z, <1>c, <2>1, <3>4, <3>5
  <2>3. CASE SendQueue(s)
    <3>1. pc'[h] = pc[h]
      BY <2>3 DEF SendQueue, TypeOK
    <3>2. Len(fData') = Len(fData) + 1
      BY <2>3 DEF SendQueue, TypeOK
    <3> QED BY <1>z, <1>c, <2>1, <3>1, <3>2
  <2> QED BY <1>1, <2>2, <2>3 DEF SendAdd
<1>2. ASSUME NEW r \in Receivers, ReceiveAdd(r) PROVE Keep
  <2>1. fLock' = fLock /\ left' = left /\ host' = host
    BY <1>2 DEF ReceiveAdd
  <2>2. CASE ReceiveTake(r)
    <3>1. Released(Tail(fData), fNotifier) = {}
      BY DEF Released, EmptyLambda
    <3>2. Head(fData) \in Senders
      BY <2>2 DEF ReceiveTake, TypeOK
    <3>3. pc' = PcAfter(Owner(Head(fData), fNotifier), r, "check")
      BY <2>2, <3>1 DEF ReceiveTake, Take
    <3>4. pc'[h] = pc[h]
      BY <1>y, <3>2, <3>3 DEF Owner
    <3>5. Len(fData') \in Nat
      BY <2>2 DEF ReceiveTake, Take, TypeOK
    <3>6. Looping(h) => ReceivedInBody(h)'
      <4>1. fHaveValue'[r]
        BY <2>2 DEF ReceiveTake, HandOff, TypeOK
      <4>2. Looping(h) => host[r] = h
        BY <1>2, <1>b DEF ReceiveAdd, CanLock
      <4> QED BY <2>1, <4>1, <4>2 DEF ReceivedInBody
    <3> QED BY <1>z, <2>1, <3>4, <3>5, <3>6
  <2>3. CASE ReceiveQueue(r)
    <3>1. fData' = fData
      BY <2>3 DEF ReceiveQueue
    <3>2. pc'[h] = pc[h] \/ (pc[h] = "wait" /\ pc'[h] = "woken")
      <4>1. pc \in [Procs -> SendPC \cup RecvPC \cup RangePC \cup ClosePC]
        BY DEF TypeOK
      <4>2. \/ pc' = [pc EXCEPT ![r] = "check"]
            \/ \E g \in Pulsed : pc' = [pc EXCEPT ![r] = "check", ![g] = "woken"]
        BY <2>3 DEF ReceiveQueue
      <4> QED BY <4>1, <4>2 DEF Pulsed
    <3>3. CASE pc'[h] = "woken"
      BY <3>3 DEF Looping
    <3> QED BY <1>z, <1>c, <2>1, <3>1, <3>2, <3>3
  <2> QED BY <1>2, <2>2, <2>3 DEF ReceiveAdd
<1>3. ASSUME NEW c \in Closers, CloseStep(c) PROVE Keep
  <2>1. CASE CloseNotify(c)
    <3>1. Queued \in SUBSET (Senders \cup Receivers)
      BY DEF Queued
    <3>2. pc'[h] = pc[h]
      BY <1>y, <2>1, <3>1 DEF CloseNotify
    <3> QED BY <1>z, <1>c, <2>1, <3>2 DEF CloseNotify, chanVars
  <2>2. CASE CloseRead(c) \/ CloseWrite(c)
    <3>1. pc'[h] = pc[h]
      BY <2>2 DEF CloseRead, CloseWrite, TypeOK
    <3> QED BY <1>z, <1>c, <2>2, <3>1 DEF CloseRead, CloseWrite, chanVars
  <2> QED BY <1>3, <2>1, <2>2 DEF CloseStep
<1>4. ASSUME NEW s \in Senders, SendCheck(s) \/ SendDone(s) \/ EnterWait(s) PROVE Keep
  <2>1. pc'[h] = pc[h]
    BY <1>4 DEF SendCheck, SendDone, EnterWait, TypeOK
  <2> QED BY <1>z, <1>c, <1>4, <2>1 DEF SendCheck, SendDone, EnterWait, chanVars
<1>5. ASSUME NEW r \in Receivers,
             \/ ReceiveCheck(r) \/ ReceiveDone(r) \/ ReceiveClosed(r)
             \/ EnterWait(r) \/ ReceiveValue(r) \/ ReceiveOk(r)
      PROVE  Keep
  <2>1. pc'[h] = pc[h]
    BY <1>5 DEF ReceiveCheck, ReceiveDone, ReceiveClosed, EnterWait, ReceiveValue,
                ReceiveOk, TypeOK
  <2> QED BY <1>z, <1>c, <1>5, <2>1 DEF ReceiveCheck, ReceiveDone, ReceiveClosed,
          EnterWait, ReceiveValue, ReceiveOk, chanVars
<1>7. ASSUME NEW g \in Rangers, RangeTop(g) \/ RangeWoken(g) PROVE Keep
  <2>1. fLock = None /\ ~Looping(h)
    BY <1>7, <1>b DEF RangeTop, RangeWoken
  <2>2. CASE h = g
    BY <1>7, <2>2, <1>c DEF RangeTop, RangeWoken, Looping, TypeOK
  <2>3. CASE h # g
    <3>1. pc'[h] = pc[h]
      BY <1>7, <2>3 DEF RangeTop, RangeWoken, TypeOK
    <3> QED BY <1>a, <1>b, <2>1, <3>1 DEF Looping
  <2> QED BY <2>2, <2>3
<1>8. ASSUME NEW g \in Rangers, RangeUnlock(g) \/ RangeBreak(g) \/ RangeRaises(g)
      PROVE  Keep
  <2>0. Looping(g) /\ fLock = g
    BY <1>8, <1>b DEF RangeUnlock, RangeBreak, RangeRaises, GoesOn, Looping
  <2>1. CASE h # g
    <3>1. pc'[h] = pc[h] /\ ~Looping(h)
      BY <1>8, <1>b, <2>0, <2>1 DEF RangeUnlock, RangeBreak, RangeRaises, TypeOK
    <3> QED BY <1>a, <1>b, <3>1 DEF Looping
  <2>2. CASE h = g
    <3>1. ~Looping(h)'
      BY <1>8, <2>2 DEF RangeUnlock, RangeBreak, RangeRaises, Looping, TypeOK
    <3>2. CASE pc'[h] = "raised"
      <4>1. left[h] > 0 /\ fData = <<>>
        BY <1>8, <2>2, <3>2 DEF RangeUnlock, RangeBreak, RangeRaises, TypeOK
      <4> QED BY <1>a, <1>b, <1>c, <2>0, <2>2, <3>1, <4>1
    <3> QED BY <3>1, <3>2
  <2> QED BY <2>1, <2>2
<1>9. ASSUME NEW g \in Rangers, RangeTake(g) PROVE Keep
  <2>0. Looping(g) /\ fLock = g /\ fLock' = fLock
    BY <1>9, <1>b DEF RangeTake, GoesOn
  <2>1. PICK P \in SUBSET (Senders \cup Receivers) : pc' = PcAfter(P, g, "yield")
    <3>1. Released(Tail(fData), fNotifier) = {}
      BY DEF Released, EmptyLambda
    <3>2. Head(fData) \in Senders
      BY <1>9 DEF RangeTake, TypeOK
    <3>3. pc' = PcAfter(Owner(Head(fData), fNotifier), g, "yield")
      BY <1>9, <3>1 DEF RangeTake, Take
    <3> QED BY <3>2, <3>3 DEF Owner
  <2>2. CASE h # g
    <3>1. pc'[h] = pc[h] /\ ~Looping(h)
      BY <1>y, <1>b, <2>0, <2>1, <2>2
    <3> QED BY <1>a, <1>b, <3>1 DEF Looping
  <2>3. CASE h = g
    <3>1. pc'[h] = "yield"
      BY <2>1, <2>3 DEF PcAfter
    <3>2. left'[h] = left[h] - 1
      BY <1>9, <2>3 DEF RangeTake, TypeOK
    <3>3. Len(fData') = Len(fData) - 1
      BY <1>9 DEF RangeTake, Take, TypeOK
    <3> QED BY <1>a, <1>b, <1>c, <2>0, <2>3, <3>1, <3>2, <3>3
  <2> QED BY <2>2, <2>3
<1>10. CASE UNCHANGED vars
  BY <1>z, <1>c, <1>10 DEF vars, chanVars
<1> QED
  BY <1>1, <1>2, <1>3, <1>4, <1>5, <1>7, <1>8, <1>9, <1>10
  DEF Next, SendStep, ReceiveStep, RangeStep

-----------------------------------------------------------------------------
(***************************************************************************)
(* The inductive invariant behind Fifo, NeverBothQueued, HandedOnce,       *)
(* SendReturnsWithRoom and ReturnedValue.                                  *)
(***************************************************************************)

\* The call is past its AddItem.
Started(p) == pc[p] \notin {"idle", "add", "raised"}

\* fData and fWaiting hold started calls, each once; a queued receiver has
\* not been handed anything.
QueueInv ==
  /\ \A i, j \in 1..Len(fData) : fData[i] = fData[j] => i = j
  /\ \A i \in 1..Len(fData) : Started(fData[i])
  /\ \A i, j \in 1..Len(fWaiting) : fWaiting[i] = fWaiting[j] => i = j
  /\ \A i \in 1..Len(fWaiting) :
       Started(fWaiting[i]) /\ ~fHaveValue[fWaiting[i]]

\* A value is held by a started Receive and comes from a started Send.
HeldInv ==
  \A r \in Receivers :
    /\ fHaveValue[r] => /\ Started(r)
                        /\ fReceivedValue[r] \in Senders
                        /\ Started(fReceivedValue[r])
    /\ ~fHaveValue[r] => fReceivedValue[r] = None

\* Nobody is done before AddItem; until Close, a Receive that is done has a
\* value and a Send beyond the buffer is not done.
DoneInv ==
  /\ \A p \in Senders \cup Receivers : lDone[p] => Started(p)
  /\ ~fClosed => /\ \A r \in Receivers : lDone[r] => fHaveValue[r]
                 /\ \A i \in 1..Len(fData) :
                      i > Cap => pc[fData[i]] # "sent" /\ ~lDone[fData[i]]

\* What a Receive has read of its ReceiveMessage so far.
ResultInv ==
  \A r \in Receivers :
    /\ pc[r] \in {"value", "ok"} => lDone[r]
    /\ resVal[r] # None => /\ fHaveValue[r] /\ resVal[r] = fReceivedValue[r]
                           /\ pc[r] \in {"ok", "returned"}
    /\ pc[r] = "ok" /\ ~fClosed => resVal[r] # None
    /\ pc[r] = "returned" => /\ ~fClosed => resOk[r] /\ resVal[r] # None
                             /\ resVal[r] # None => resOk[r]

SafeInv == NeverBothQueued /\ QueueInv /\ HeldInv /\ HandedOnce /\ DoneInv /\ ResultInv

\* A Close about to notify has set fClosed.
CloseInv == \A c \in Closers : pc[c] = "notify" => fClosed

IInv == TypeOK /\ RangeInBounds /\ HostInv /\ CloseInv /\ SafeInv

\* One call moved to label l; any other at most left Monitor.Wait.
Moved(p, l) ==
  /\ pc'[p] = l
  /\ \A q \in Procs \ {p} : pc'[q] # pc[q] => pc[q] = "wait" /\ pc'[q] = "check"

(***************************************************************************)
(* What a step that only moves calls keeps: queues, values, lDone and      *)
(* results are as before and no new call is at "sent", "value", "ok" or    *)
(* "returned".                                                             *)
(***************************************************************************)
LEMMA MovedKeeps ==
  ASSUME IInv, NEW p \in Procs, NEW l, Moved(p, l),
         l \notin {"idle", "sent", "value", "ok", "returned"},
         p \in Rangers \/ ~Started(p) \/ l \notin {"add", "raised"}, pc[p] \notin {"ok", "returned"},
         fClosed' \in BOOLEAN, fClosed => fClosed',
         UNCHANGED <<fData, fWaiting, fHaveValue, fReceivedValue, lDone,
                     resVal, resOk>>
  PROVE  SafeInv'
<1> USE ProcKinds DEF SafeInv
<1>0. \A q \in Senders \cup Receivers : Started(q) => Started(q)'
  BY DEF Moved, Started
<1>1. NeverBothQueued'
  BY DEF IInv, NeverBothQueued
<1>2. QueueInv'
  BY <1>0 DEF IInv, QueueInv, TypeOK
<1>3. HeldInv'
  BY <1>0 DEF IInv, HeldInv
<1>4. HandedOnce'
  BY DEF IInv, HandedOnce
<1>5. DoneInv'
  <2>1. \A q \in Procs : pc'[q] = "sent" => pc[q] = "sent"
    BY DEF Moved
  <2>2. \A q \in Senders \cup Receivers : lDone'[q] => Started(q)'
    BY <1>0 DEF IInv, DoneInv
  <2>3. \A i \in 1..Len(fData) : fData[i] \in Procs
    BY DEF IInv, TypeOK
  <2> QED BY <2>1, <2>2, <2>3 DEF IInv, DoneInv
<1>6. ResultInv'
  <2>1. \A r \in Receivers : pc'[r] \in {"value", "ok", "returned"} => pc'[r] = pc[r]
    BY DEF Moved
  <2>2. \A r \in Receivers : pc[r] \in {"ok", "returned"} => pc'[r] = pc[r]
    BY DEF Moved
  <2> QED BY <2>1, <2>2 DEF IInv, ResultInv
<1> QED BY <1>1, <1>2, <1>3, <1>4, <1>5, <1>6

(***************************************************************************)
(* The effect of taking the first message, in terms of its elements.       *)
(***************************************************************************)
LEMMA TakeEffect ==
  ASSUME TypeOK, NEW p \in Receivers \cup Rangers, NEW l, fData # <<>>, Take(p, l)
  PROVE  /\ Head(fData) \in Senders /\ Head(fData) = fData[1]
         /\ Len(fData') = Len(fData) - 1 /\ Len(fData) \in Nat \ {0}
         /\ \A i \in 1..Len(fData') : fData'[i] = fData[i + 1]
         /\ \A q \in Senders \cup Receivers :
              /\ lDone[q] => lDone'[q]
              /\ lDone'[q] => lDone[q] \/ q = p \/ q = Head(fData)
         /\ Moved(p, l)
<1> USE ProcKinds
<1>1. Head(fData) \in Senders /\ Head(fData) = fData[1]
  BY DEF TypeOK
<1>2. Len(fData') = Len(fData) - 1 /\ Len(fData) \in Nat \ {0}
  BY DEF TypeOK, Take
<1>3. \A i \in 1..Len(fData') : fData'[i] = fData[i + 1]
  BY DEF TypeOK, Take
<1>4. Released(Tail(fData), fNotifier) = {}
  BY DEF Released, EmptyLambda
<1>5. \A q \in Senders \cup Receivers :
        /\ lDone[q] => lDone'[q]
        /\ lDone'[q] => lDone[q] \/ q = p \/ q = Head(fData)
  BY <1>4 DEF Take, Notify, Owner
<1>6. Moved(p, l)
  BY <1>4 DEF Take, PcAfter, Moved, Procs, Calls
<1> QED BY <1>1, <1>2, <1>3, <1>5, <1>6

(***************************************************************************)
(* AddItem(Message) keeps the invariant, on both of its paths.             *)
(***************************************************************************)
LEMMA SendHandOffKeeps ==
  ASSUME IInv, NEW s \in Senders, SendAdd(s), SendHandOff(s)
  PROVE  SafeInv'
<1> DEFINE r == Head(fWaiting)
<1> USE ProcKinds
<1>0. TypeOK /\ NeverBothQueued /\ QueueInv /\ HeldInv /\ HandedOnce /\ DoneInv /\ ResultInv
  BY DEF IInv, SafeInv
<1>1. /\ r \in Receivers /\ r = fWaiting[1] /\ Len(fWaiting) \in Nat \ {0}
      /\ Len(fWaiting') = Len(fWaiting) - 1
      /\ \A i \in 1..Len(fWaiting') : fWaiting'[i] = fWaiting[i + 1]
  BY <1>0 DEF TypeOK, SendHandOff
<1>2. fData = <<>> /\ fData' = <<>> /\ Len(fData) = 0
  BY <1>0, <1>1 DEF NeverBothQueued, SendHandOff
<1>3. Released(fData, [fNotifier EXCEPT ![s] = TRUE]) = {}
  BY DEF Released, EmptyLambda
<1>4. Moved(s, "sent")
  <2>1. pc' = PcAfter({r}, s, "sent")
    BY <1>3 DEF SendHandOff
  <2> QED BY <2>1 DEF PcAfter, Moved, Procs, Calls
<1>5. /\ \A q \in Senders \cup Receivers : lDone'[q] <=> lDone[q] \/ q = s \/ q = r
  BY <1>3 DEF SendHandOff, Notify
<1>6. /\ fHaveValue'[r] /\ fReceivedValue'[r] = s
      /\ \A q \in Receivers \ {r} : /\ fHaveValue'[q] = fHaveValue[q]
                                   /\ fReceivedValue'[q] = fReceivedValue[q]
  BY <1>0, <1>1 DEF SendHandOff, HandOff, TypeOK
<1>7. Started(r) /\ ~fHaveValue[r] /\ pc[s] = "add" /\ ~Started(s) /\ fClosed' = fClosed
      /\ resVal' = resVal /\ resOk' = resOk
  BY <1>0, <1>1 DEF QueueInv, SendAdd, Started, res
<1>8. \A q \in Procs : Started(q) \/ q = s => Started(q)'
  BY <1>4 DEF Moved, Started
<1>9. NeverBothQueued'
  BY <1>2 DEF NeverBothQueued
<1>10. QueueInv'
  <2>1. \A i, j \in 1..Len(fWaiting') : fWaiting'[i] = fWaiting'[j] => i = j
    BY <1>0, <1>1 DEF QueueInv
  <2>2. \A i \in 1..Len(fWaiting') :
          fWaiting'[i] \in Receivers \ {r} /\ Started(fWaiting'[i]) /\ ~fHaveValue[fWaiting'[i]]
    <3>1. fWaiting \in Seq(Receivers)
      BY <1>0 DEF TypeOK
    <3>2. \A i \in 1..Len(fWaiting') : i + 1 \in 1..Len(fWaiting) /\ i + 1 # 1
      BY <1>1
    <3> QED BY <1>0, <1>1, <3>1, <3>2 DEF QueueInv
  <2> QED BY <1>2, <1>6, <1>8, <2>1, <2>2 DEF QueueInv
<1>11. HeldInv'
  BY <1>0, <1>1, <1>6, <1>7, <1>8 DEF HeldInv
<1>12. HandedOnce'
  BY <1>0, <1>1, <1>2, <1>6, <1>7 DEF HandedOnce, HeldInv
<1>13. DoneInv'
  BY <1>0, <1>1, <1>2, <1>5, <1>6, <1>7, <1>8 DEF DoneInv
<1>14. ResultInv'
  <2>1. \A q \in Receivers : pc'[q] = pc[q] \/ (pc[q] = "wait" /\ pc'[q] = "check")
    BY <1>4 DEF Moved
  <2>2. resVal[r] = None
    BY <1>0, <1>1, <1>7 DEF ResultInv
  <2> QED BY <1>0, <1>1, <1>5, <1>6, <1>7, <2>1, <2>2 DEF ResultInv
<1> QED BY <1>9, <1>10, <1>11, <1>12, <1>13, <1>14 DEF SafeInv

LEMMA SendQueueKeeps ==
  ASSUME IInv, NEW s \in Senders, SendAdd(s), SendQueue(s)
  PROVE  SafeInv'
<1> USE ProcKinds, ChannelAssumption
<1>0. TypeOK /\ NeverBothQueued /\ QueueInv /\ HeldInv /\ HandedOnce /\ DoneInv /\ ResultInv
  BY DEF IInv, SafeInv
<1>1. /\ Len(fData) \in Nat /\ Len(fData') = Len(fData) + 1
      /\ fData'[Len(fData) + 1] = s
      /\ \A i \in 1..Len(fData) : fData'[i] = fData[i] /\ fData[i] \in Senders
  BY <1>0 DEF TypeOK, SendQueue
<1>2. /\ fWaiting = <<>> /\ UNCHANGED <<fWaiting, fHaveValue, fReceivedValue>>
      /\ UNCHANGED <<fClosed, resVal, resOk>>
      /\ pc[s] = "add" /\ ~Started(s)
  BY DEF SendQueue, SendAdd, res, Started
<1>3. \A q \in Senders \cup Receivers : lDone'[q] <=> lDone[q]
  BY DEF SendQueue, Notify, EmptyLambda
<1>4. /\ pc'[s] = IF Len(fData) + 1 < Cap + 1 THEN "sent" ELSE "check"
      /\ \A q \in Procs \ {s} : pc'[q] = pc[q]
  BY <1>0 DEF SendQueue, TypeOK, fQueueSize
<1>5. \A q \in Procs : Started(q) \/ q = s => Started(q)'
  BY <1>4 DEF Started
<1>6. \A i \in 1..Len(fData) : fData[i] # s
  BY <1>0, <1>2 DEF QueueInv
<1>7. NeverBothQueued'
  BY <1>2 DEF NeverBothQueued
<1>8. QueueInv'
  <2>1. \A i, j \in 1..Len(fData') : fData'[i] = fData'[j] => i = j
    BY <1>0, <1>1, <1>6 DEF QueueInv
  <2>2. (\A i \in 1..Len(fData) : Started(fData[i]))'
    BY <1>0, <1>1, <1>5 DEF QueueInv
  <2> QED BY <1>2, <2>1, <2>2 DEF QueueInv
<1>9. HeldInv'
  BY <1>0, <1>2, <1>5 DEF HeldInv
<1>10. HandedOnce'
  BY <1>0, <1>1, <1>2 DEF HandedOnce, HeldInv
<1>11. DoneInv'
  <2>1. \A q \in Senders \cup Receivers : lDone'[q] => Started(q)'
    BY <1>0, <1>3, <1>5 DEF DoneInv
  <2>2. ASSUME ~fClosed, NEW i \in 1..Len(fData'), i > Cap
        PROVE  pc'[fData'[i]] # "sent" /\ ~lDone'[fData'[i]]
    <3>1. CASE i = Len(fData) + 1
      BY <1>0, <1>1, <1>2, <1>3, <1>4, <2>2, <3>1 DEF DoneInv
    <3>2. CASE i \in 1..Len(fData)
      BY <1>0, <1>1, <1>3, <1>4, <1>6, <2>2, <3>2 DEF DoneInv
    <3> QED BY <1>1, <2>2, <3>1, <3>2
  <2> QED BY <1>0, <1>2, <1>3, <2>1, <2>2 DEF DoneInv
<1>12. ResultInv'
  BY <1>0, <1>2, <1>3, <1>4 DEF ResultInv
<1> QED BY <1>7, <1>8, <1>9, <1>10, <1>11, <1>12 DEF SafeInv

(***************************************************************************)
(* AddItem(ReceiveMessage) keeps the invariant, on both of its paths.      *)
(***************************************************************************)
LEMMA ReceiveTakeKeeps ==
  ASSUME IInv, NEW r \in Receivers, ReceiveAdd(r), ReceiveTake(r)
  PROVE  SafeInv'
<1> DEFINE s == Head(fData)
<1> USE ProcKinds, ChannelAssumption
<1>0. TypeOK /\ NeverBothQueued /\ QueueInv /\ HeldInv /\ HandedOnce /\ DoneInv /\ ResultInv
  BY DEF IInv, SafeInv
<1>1. /\ s \in Senders /\ s = fData[1]
      /\ Len(fData') = Len(fData) - 1 /\ Len(fData) \in Nat \ {0}
      /\ \A i \in 1..Len(fData') : fData'[i] = fData[i + 1]
      /\ \A q \in Senders \cup Receivers :
              /\ lDone[q] => lDone'[q]
              /\ lDone'[q] => lDone[q] \/ q = r \/ q = s
      /\ Moved(r, "check")
  BY <1>0, TakeEffect DEF ReceiveTake
<1>2. /\ fHaveValue'[r] /\ fReceivedValue'[r] = s
      /\ \A q \in Receivers \ {r} : /\ fHaveValue'[q] = fHaveValue[q]
                                   /\ fReceivedValue'[q] = fReceivedValue[q]
  BY <1>0 DEF ReceiveTake, HandOff, TypeOK
<1>3. /\ UNCHANGED <<fWaiting, fClosed, resVal, resOk>>
      /\ pc[r] = "add" /\ ~Started(r)
  BY DEF ReceiveTake, ReceiveAdd, res, Started
<1>4. \A q \in Procs : Started(q) \/ q = r => Started(q)'
  BY <1>1 DEF Moved, Started
<1>5. \A i \in 1..Len(fData') : /\ fData'[i] \in Senders /\ fData'[i] # s
                               /\ Started(fData'[i]) /\ i + 1 \in 1..Len(fData)
  <2> SUFFICES ASSUME NEW i \in 1..Len(fData')
               PROVE  /\ fData[i + 1] \in Senders /\ fData[i + 1] # s
                      /\ Started(fData[i + 1]) /\ i + 1 \in 1..Len(fData)
    BY <1>1
  <2>1. i + 1 \in 1..Len(fData) /\ 1 \in 1..Len(fData) /\ i + 1 # 1
    BY <1>1
  <2>2. fData[i + 1] \in Senders
    BY <1>0, <2>1 DEF TypeOK
  <2> QED BY <1>0, <1>1, <2>1, <2>2 DEF QueueInv
<1>6. fWaiting = <<>>
  BY <1>0 DEF NeverBothQueued, ReceiveTake
<1>7. Started(s)
  BY <1>0, <1>1 DEF QueueInv
<1>8. NeverBothQueued'
  BY <1>3, <1>6 DEF NeverBothQueued
<1>9. QueueInv'
  <2>1. \A i, j \in 1..Len(fData') : fData'[i] = fData'[j] => i = j
    BY <1>0, <1>1 DEF QueueInv
  <2>2. (\A i \in 1..Len(fData) : Started(fData[i]))'
    BY <1>4, <1>5
  <2> QED BY <1>3, <1>6, <2>1, <2>2 DEF QueueInv
<1>10. HeldInv'
  BY <1>0, <1>1, <1>2, <1>4, <1>7 DEF HeldInv
<1>11. HandedOnce'
  <2>1. \A q \in Receivers \ {r} : fHaveValue[q] => fReceivedValue[q] # s
    BY <1>0, <1>1 DEF HandedOnce
  <2>2. \A q \in Receivers \ {r} : fHaveValue[q] =>
          \A i \in 1..Len(fData') : fData'[i] # fReceivedValue[q]
    BY <1>0, <1>1, <1>5 DEF HandedOnce
  <2> QED BY <1>0, <1>2, <1>5, <2>1, <2>2 DEF HandedOnce
<1>12. DoneInv'
  <2>1. \A q \in Senders \cup Receivers : lDone'[q] => Started(q)'
    BY <1>0, <1>1, <1>4, <1>7 DEF DoneInv
  <2>2. \A q \in Receivers : ~fClosed /\ lDone'[q] => fHaveValue'[q]
    BY <1>0, <1>1, <1>2 DEF DoneInv
  <2>3. ASSUME ~fClosed, NEW i \in 1..Len(fData'), i > Cap
        PROVE  pc'[fData'[i]] # "sent" /\ ~lDone'[fData'[i]]
    <3>1. /\ fData'[i] = fData[i + 1] /\ i + 1 > Cap
          /\ i + 1 \in 1..Len(fData)
      BY <1>1, <1>5, <2>3
    <3>2. pc[fData'[i]] # "sent" /\ ~lDone[fData'[i]]
      BY <1>0, <2>3, <3>1 DEF DoneInv
    <3> QED BY <1>1, <1>5, <3>2, <2>3 DEF Moved
  <2> QED BY <1>3, <2>1, <2>2, <2>3 DEF DoneInv
<1>13. ResultInv'
  <2>1. \A q \in Receivers \ {r} : pc'[q] = pc[q] \/ (pc[q] = "wait" /\ pc'[q] = "check")
    BY <1>1 DEF Moved
  <2>2. resVal[r] = None /\ pc'[r] = "check"
    BY <1>0, <1>1, <1>3 DEF ResultInv, Moved
  <2> QED BY <1>0, <1>1, <1>2, <1>3, <2>1, <2>2 DEF ResultInv
<1> QED BY <1>8, <1>9, <1>10, <1>11, <1>12, <1>13 DEF SafeInv

LEMMA ReceiveQueueKeeps ==
  ASSUME IInv, NEW r \in Receivers, ReceiveAdd(r), ReceiveQueue(r)
  PROVE  SafeInv'
<1> USE ProcKinds
<1>0. TypeOK /\ NeverBothQueued /\ QueueInv /\ HeldInv /\ HandedOnce /\ DoneInv /\ ResultInv
  BY DEF IInv, SafeInv
<1>1. /\ Len(fWaiting) \in Nat /\ Len(fWaiting') = Len(fWaiting) + 1
      /\ fWaiting'[Len(fWaiting) + 1] = r
      /\ \A i \in 1..Len(fWaiting) : fWaiting'[i] = fWaiting[i] /\ fWaiting[i] \in Receivers
  BY <1>0 DEF TypeOK, ReceiveQueue
<1>2. /\ fData = <<>> /\ fData' = <<>> /\ Len(fData) = 0
      /\ UNCHANGED <<fHaveValue, fReceivedValue, lDone, fClosed, resVal, resOk>>
      /\ pc[r] = "add" /\ ~Started(r)
  BY DEF ReceiveQueue, ReceiveAdd, res, Started, msgVars
<1>3. /\ pc'[r] = "check"
      /\ \A q \in (Senders \cup Receivers) \ {r} : pc'[q] = pc[q]
  BY <1>0 DEF ReceiveQueue, TypeOK, Pulsed
<1>4. \A q \in Senders \cup Receivers : Started(q) \/ q = r => Started(q)'
  BY <1>3 DEF Started
<1>5. \A i \in 1..Len(fWaiting) : fWaiting[i] # r
  BY <1>0, <1>2 DEF QueueInv
<1>6. NeverBothQueued'
  BY <1>2 DEF NeverBothQueued
<1>7. QueueInv'
  <2>1. \A i, j \in 1..Len(fWaiting') : fWaiting'[i] = fWaiting'[j] => i = j
    BY <1>0, <1>1, <1>5 DEF QueueInv
  <2>2. ~fHaveValue[r]
    BY <1>0, <1>2 DEF HeldInv
  <2>3. (\A i \in 1..Len(fWaiting) : Started(fWaiting[i]) /\ ~fHaveValue[fWaiting[i]])'
    BY <1>0, <1>1, <1>2, <1>4, <2>2 DEF QueueInv
  <2> QED BY <1>2, <2>1, <2>3 DEF QueueInv
<1>8. HeldInv'
  BY <1>0, <1>2, <1>4 DEF HeldInv
<1>9. HandedOnce'
  BY <1>0, <1>2 DEF HandedOnce
<1>10. DoneInv'
  BY <1>0, <1>2, <1>4 DEF DoneInv
<1>11. ResultInv'
  BY <1>0, <1>2, <1>3 DEF ResultInv
<1> QED BY <1>6, <1>7, <1>8, <1>9, <1>10, <1>11 DEF SafeInv

(***************************************************************************)
(* One iteration of GetSequence keeps the invariant.                       *)
(***************************************************************************)
LEMMA RangeTakeKeeps ==
  ASSUME IInv, NEW g \in Rangers, RangeTake(g)
  PROVE  SafeInv'
<1> DEFINE s == Head(fData)
<1> USE ProcKinds, ChannelAssumption
<1>0. TypeOK /\ NeverBothQueued /\ QueueInv /\ HeldInv /\ HandedOnce /\ DoneInv /\ ResultInv
  BY DEF IInv, SafeInv
<1>1. fData # <<>>
  BY DEF RangeTake
<1>2. /\ s \in Senders /\ s = fData[1]
      /\ Len(fData') = Len(fData) - 1 /\ Len(fData) \in Nat \ {0}
      /\ \A i \in 1..Len(fData') : fData'[i] = fData[i + 1]
      /\ \A q \in Senders \cup Receivers :
              /\ lDone[q] => lDone'[q]
              /\ lDone'[q] => lDone[q] \/ q = g \/ q = s
      /\ Moved(g, "yield")
  BY <1>0, <1>1, TakeEffect DEF RangeTake
<1>3. UNCHANGED <<fWaiting, fClosed, fHaveValue, fReceivedValue, resVal, resOk>>
  BY DEF RangeTake, res
<1>4. /\ \A q \in Senders \cup Receivers : Started(q) => Started(q)'
      /\ \A q \in Senders \cup Receivers :
           pc'[q] = pc[q] \/ (pc[q] = "wait" /\ pc'[q] = "check")
  BY <1>2 DEF Moved, Started
<1>5. \A i \in 1..Len(fData') : /\ fData'[i] \in Senders /\ fData'[i] # s
                               /\ Started(fData'[i]) /\ i + 1 \in 1..Len(fData)
  <2> SUFFICES ASSUME NEW i \in 1..Len(fData')
               PROVE  /\ fData[i + 1] \in Senders /\ fData[i + 1] # s
                      /\ Started(fData[i + 1]) /\ i + 1 \in 1..Len(fData)
    BY <1>2
  <2>1. i + 1 \in 1..Len(fData) /\ 1 \in 1..Len(fData) /\ i + 1 # 1
    BY <1>2
  <2>2. fData[i + 1] \in Senders
    BY <1>0, <2>1 DEF TypeOK
  <2> QED BY <1>0, <1>2, <2>1, <2>2 DEF QueueInv
<1>6. fWaiting = <<>>
  BY <1>0, <1>1 DEF NeverBothQueued
<1>7. NeverBothQueued'
  BY <1>3, <1>6 DEF NeverBothQueued
<1>8. QueueInv'
  <2>1. \A i, j \in 1..Len(fData') : fData'[i] = fData'[j] => i = j
    BY <1>0, <1>2 DEF QueueInv
  <2>2. (\A i \in 1..Len(fData) : Started(fData[i]))'
    BY <1>4, <1>5
  <2> QED BY <1>3, <1>6, <2>1, <2>2 DEF QueueInv
<1>9. HeldInv'
  BY <1>0, <1>3, <1>4 DEF HeldInv
<1>10. HandedOnce'
  <2>1. \A q \in Receivers : fHaveValue[q] =>
          \A i \in 1..Len(fData') : fData'[i] # fReceivedValue[q]
    BY <1>0, <1>2, <1>5 DEF HandedOnce
  <2> QED BY <1>0, <1>3, <2>1 DEF HandedOnce
<1>11. DoneInv'
  <2>1. \A q \in Senders \cup Receivers : lDone'[q] => Started(q)'
    <3>1. Started(s)
      BY <1>0, <1>2 DEF QueueInv
    <3> QED BY <1>0, <1>2, <1>4, <3>1 DEF DoneInv
  <2>2. \A q \in Receivers : ~fClosed /\ lDone'[q] => fHaveValue'[q]
    BY <1>0, <1>2, <1>3 DEF DoneInv
  <2>3. ASSUME ~fClosed, NEW i \in 1..Len(fData'), i > Cap
        PROVE  pc'[fData'[i]] # "sent" /\ ~lDone'[fData'[i]]
    <3>1. /\ fData'[i] = fData[i + 1] /\ i + 1 > Cap
          /\ i + 1 \in 1..Len(fData)
      BY <1>2, <1>5, <2>3
    <3>2. pc[fData'[i]] # "sent" /\ ~lDone[fData'[i]]
      BY <1>0, <2>3, <3>1 DEF DoneInv
    <3>3. fData'[i] \in Senders /\ fData'[i] # s
      BY <1>5
    <3>4. ~lDone'[fData'[i]]
      BY <1>2, <3>2, <3>3
    <3>5. pc'[fData'[i]] # "sent"
      BY <1>4, <3>2, <3>3
    <3> QED BY <3>4, <3>5
  <2> QED BY <1>3, <2>1, <2>2, <2>3 DEF DoneInv
<1>12. ResultInv'
  BY <1>0, <1>2, <1>3, <1>4 DEF ResultInv
<1> QED BY <1>7, <1>8, <1>9, <1>10, <1>11, <1>12 DEF SafeInv

(***************************************************************************)
(* The labels of Send and Receive that decide what is returned.            *)
(***************************************************************************)
LEMMA ReturnKeeps ==
  ASSUME IInv, NEW p \in Senders \cup Receivers,
         \/ p \in Senders /\ SendDone(p)
         \/ p \in Receivers /\ (ReceiveDone(p) \/ ReceiveClosed(p)
                                 \/ ReceiveValue(p) \/ ReceiveOk(p))
  PROVE  SafeInv'
<1> USE ProcKinds
<1>0. TypeOK /\ NeverBothQueued /\ QueueInv /\ HeldInv /\ HandedOnce /\ DoneInv /\ ResultInv
  BY DEF IInv, SafeInv
<1>1. UNCHANGED <<fData, fWaiting, fHaveValue, fReceivedValue, lDone, fClosed>>
  BY DEF SendDone, ReceiveDone, ReceiveClosed, ReceiveValue, ReceiveOk, chanVars, msgVars
<1>2. /\ \A q \in Procs \ {p} : pc'[q] = pc[q]
      /\ Started(p) /\ pc'[p] \notin {"idle", "add", "raised"}
  BY <1>0 DEF SendDone, ReceiveDone, ReceiveClosed, ReceiveValue, ReceiveOk, TypeOK, Started
<1>3. \A q \in Procs : Started(q) => Started(q)'
  BY <1>2 DEF Started
<1>4. NeverBothQueued'
  BY <1>0, <1>1 DEF NeverBothQueued
<1>5. QueueInv'
  <2>1. \A i \in 1..Len(fData) : fData[i] \in Procs
    BY <1>0 DEF TypeOK
  <2>2. \A i \in 1..Len(fWaiting) : fWaiting[i] \in Procs
    BY <1>0 DEF TypeOK
  <2> QED BY <1>0, <1>1, <1>3, <2>1, <2>2 DEF QueueInv
<1>6. HeldInv'
  BY <1>0, <1>1, <1>3 DEF HeldInv
<1>7. HandedOnce'
  BY <1>0, <1>1 DEF HandedOnce
<1>8. DoneInv'
  <2>1. \A q \in Senders : pc'[q] = "sent" => pc[q] = "sent" \/ lDone[q]
    BY <1>0, <1>2 DEF SendDone, TypeOK
  <2>2. \A i \in 1..Len(fData) : fData[i] \in Senders
    BY <1>0 DEF TypeOK
  <2> QED BY <1>0, <1>1, <1>3, <2>1, <2>2 DEF DoneInv
<1>9. ResultInv'
  <2>1. CASE p \in Senders /\ SendDone(p)
    BY <1>0, <1>1, <1>2, <2>1 DEF ResultInv, SendDone, res
  <2>2. CASE p \in Receivers /\ ReceiveDone(p)
    BY <1>0, <1>1, <1>2, <2>2 DEF ResultInv, ReceiveDone, res, TypeOK
  <2>3. CASE p \in Receivers /\ ReceiveClosed(p)
    BY <1>0, <1>1, <1>2, <2>3 DEF ResultInv, ReceiveClosed, res, TypeOK
  <2>4. CASE p \in Receivers /\ ReceiveValue(p)
    <3>1. /\ pc[p] = "value" /\ pc'[p] = "ok"
          /\ resVal'[p] = fReceivedValue[p] /\ resOk' = resOk
          /\ \A q \in Receivers \ {p} : resVal'[q] = resVal[q]
      BY <1>0, <2>4 DEF ReceiveValue, TypeOK
    <3>2. resVal'[p] # None => fHaveValue[p]
      BY <1>0, <2>4, <3>1 DEF HeldInv
    <3>3. ~fClosed => resVal'[p] # None
      <4>1. ~fClosed => fHaveValue[p]
        BY <1>0, <2>4, <3>1 DEF ResultInv, DoneInv
      <4> QED BY <1>0, <2>4, <3>1, <4>1, ChannelAssumption, ProcKinds DEF HeldInv
    <3>4. fClosed' = fClosed
      BY <2>4 DEF ReceiveValue, chanVars
    <3> QED BY <1>0, <1>1, <1>2, <3>1, <3>2, <3>3, <3>4 DEF ResultInv
  <2>5. CASE p \in Receivers /\ ReceiveOk(p)
    <3>1. /\ pc[p] = "ok" /\ pc'[p] = "returned"
          /\ resOk'[p] = fHaveValue[p] /\ resVal' = resVal
          /\ \A q \in Receivers \ {p} : resOk'[q] = resOk[q]
      BY <1>0, <2>5 DEF ReceiveOk, TypeOK
    <3>2. lDone[p] /\ (~fClosed => fHaveValue[p])
      BY <1>0, <2>5, <3>1 DEF ResultInv, DoneInv
    <3> QED BY <1>0, <1>1, <1>2, <3>1, <3>2 DEF ResultInv
  <2> QED BY <2>1, <2>2, <2>3, <2>4, <2>5
<1> QED BY <1>4, <1>5, <1>6, <1>7, <1>8, <1>9 DEF SafeInv

(***************************************************************************)
(* The last section of Close: fClosed is already set, so the claims about  *)
(* an open channel are void, and only queued calls become done.            *)
(***************************************************************************)
LEMMA CloseNotifyKeeps ==
  ASSUME IInv, NEW c \in Closers, CloseNotify(c), fClosed
  PROVE  SafeInv'
<1> USE ProcKinds
<1>0. TypeOK /\ NeverBothQueued /\ QueueInv /\ HeldInv /\ HandedOnce /\ DoneInv /\ ResultInv
  BY DEF IInv, SafeInv
<1>1. UNCHANGED <<fData, fWaiting, fHaveValue, fReceivedValue, fClosed, resVal, resOk>>
  BY DEF CloseNotify, chanVars, res
<1>2. Moved(c, "ended")
  BY DEF CloseNotify, PcAfter, Moved
<1>3. /\ \A q \in Senders \cup Receivers : Started(q) => Started(q)'
      /\ \A q \in Senders \cup Receivers :
           pc'[q] = pc[q] \/ (pc[q] = "wait" /\ pc'[q] = "check")
  BY <1>2 DEF Moved, Started
<1>4. /\ \A q \in Senders \cup Receivers : lDone[q] => lDone'[q]
      /\ \A q \in Senders \cup Receivers : lDone'[q] => lDone[q] \/ Started(q)
  <2>1. \A q \in Queued : Started(q)
    BY <1>0 DEF Queued, QueueInv
  <2> QED BY <2>1 DEF CloseNotify, Notify
<1>5. NeverBothQueued'
  BY <1>0, <1>1 DEF NeverBothQueued
<1>6. QueueInv'
  <2>1. \A i \in 1..Len(fData) : fData[i] \in Senders
    BY <1>0 DEF TypeOK
  <2>2. \A i \in 1..Len(fWaiting) : fWaiting[i] \in Receivers
    BY <1>0 DEF TypeOK
  <2> QED BY <1>0, <1>1, <1>3, <2>1, <2>2 DEF QueueInv
<1>7. HeldInv'
  BY <1>0, <1>1, <1>3 DEF HeldInv
<1>8. HandedOnce'
  BY <1>0, <1>1 DEF HandedOnce
<1>9. DoneInv'
  BY <1>0, <1>1, <1>3, <1>4 DEF DoneInv
<1>10. ResultInv'
  BY <1>0, <1>1, <1>3, <1>4 DEF ResultInv
<1> QED BY <1>5, <1>6, <1>7, <1>8, <1>9, <1>10 DEF SafeInv

(***************************************************************************)
(* Every step keeps CloseInv: only CloseWrite moves a Close to "notify",   *)
(* and nothing clears fClosed.                                             *)
(***************************************************************************)
LEMMA NextClose == TypeOK /\ CloseInv /\ [Next]_vars => CloseInv'
<1> SUFFICES ASSUME TypeOK, CloseInv, [Next]_vars, NEW d \in Closers, pc'[d] = "notify"
             PROVE  fClosed'
  BY DEF CloseInv
<1> USE ProcKinds
<1>0. ASSUME NEW P, NEW p \in Procs, NEW l, pc' = PcAfter(P, p, l), l # "notify"
      PROVE  pc[d] = "notify"
  BY <1>0 DEF PcAfter
<1>1. ASSUME NEW s \in Senders, SendStep(s) PROVE fClosed'
  <2>1. fClosed' = fClosed
    BY <1>1 DEF SendStep, SendCheck, SendAdd, SendDone, EnterWait, chanVars
  <2>2. CASE SendAdd(s) /\ SendHandOff(s)
    BY <1>0, <2>1, <2>2 DEF SendHandOff, CloseInv
  <2>3. CASE SendCheck(s) \/ (SendAdd(s) /\ SendQueue(s)) \/ SendDone(s) \/ EnterWait(s)
    BY <2>1, <2>3 DEF SendCheck, SendQueue, SendDone, EnterWait, TypeOK, CloseInv
  <2> QED BY <1>1, <2>2, <2>3 DEF SendStep, SendAdd
<1>2. ASSUME NEW r \in Receivers, ReceiveStep(r) PROVE fClosed'
  <2>1. fClosed' = fClosed
    BY <1>2 DEF ReceiveStep, ReceiveCheck, ReceiveAdd, ReceiveDone, ReceiveClosed,
                EnterWait, ReceiveValue, ReceiveOk, chanVars
  <2>2. CASE ReceiveAdd(r) /\ ReceiveTake(r)
    BY <1>0, <2>1, <2>2 DEF ReceiveTake, Take, CloseInv
  <2>3. CASE ReceiveAdd(r) /\ ReceiveQueue(r)
    BY <2>1, <2>3 DEF ReceiveQueue, Pulsed, TypeOK, CloseInv
  <2>4. CASE \/ ReceiveCheck(r) \/ ReceiveDone(r) \/ ReceiveClosed(r)
             \/ EnterWait(r) \/ ReceiveValue(r) \/ ReceiveOk(r)
    BY <2>1, <2>4 DEF ReceiveCheck, ReceiveDone, ReceiveClosed, EnterWait,
                      ReceiveValue, ReceiveOk, TypeOK, CloseInv
  <2> QED BY <1>2, <2>2, <2>3, <2>4 DEF ReceiveStep, ReceiveAdd
<1>3. ASSUME NEW g \in Rangers, RangeStep(g) \/ RangeBreak(g) PROVE fClosed'
  <2>1. fClosed' = fClosed
    BY <1>3 DEF RangeStep, RangeTop, RangeWoken, RangeTake, RangeUnlock, RangeRaises, RangeBreak
  <2>2. CASE RangeTake(g)
    BY <1>0, <2>1, <2>2 DEF RangeTake, Take, CloseInv
  <2>3. CASE RangeTop(g) \/ RangeWoken(g) \/ RangeUnlock(g) \/ RangeRaises(g) \/ RangeBreak(g)
    BY <2>1, <2>3 DEF RangeTop, RangeWoken, RangeUnlock, RangeRaises, RangeBreak, TypeOK, CloseInv
  <2> QED BY <1>3, <2>2, <2>3 DEF RangeStep
<1>4. ASSUME NEW c \in Closers, CloseStep(c) PROVE fClosed'
  <2>1. CASE CloseRead(c)
    BY <2>1 DEF CloseRead, TypeOK, CloseInv, chanVars
  <2>2. CASE CloseWrite(c)
    BY <2>2 DEF CloseWrite
  <2>3. CASE CloseNotify(c)
    BY <1>0, <2>3 DEF CloseNotify, CloseInv, chanVars
  <2> QED BY <1>4, <2>1, <2>2, <2>3 DEF CloseStep
<1>5. CASE UNCHANGED vars
  BY <1>5 DEF vars, chanVars, CloseInv
<1> QED BY <1>1, <1>2, <1>3, <1>4, <1>5 DEF Next

(***************************************************************************)
(* Every step keeps the safety part of the invariant.                      *)
(***************************************************************************)
LEMMA NextSafe == IInv /\ [Next]_vars => SafeInv'
<1> SUFFICES ASSUME IInv, [Next]_vars PROVE SafeInv'
  OBVIOUS
<1> USE ProcKinds
<1>0. TypeOK /\ CloseInv
  BY DEF IInv
<1>1. ASSUME NEW p \in Senders \cup Receivers,
             \/ p \in Senders /\ SendCheck(p)
             \/ p \in Receivers /\ ReceiveCheck(p)
             \/ EnterWait(p)
      PROVE  SafeInv'
  <2>1. UNCHANGED <<fData, fWaiting, fHaveValue, fReceivedValue, lDone, resVal, resOk, fClosed>>
    BY <1>1 DEF SendCheck, ReceiveCheck, EnterWait, chanVars, msgVars, res
  <2>2. PICK l \in {"raised", "add", "wait"} : pc' = [pc EXCEPT ![p] = l]
    BY <1>1 DEF SendCheck, ReceiveCheck, EnterWait
  <2>3. Moved(p, l)
    BY <1>0, <2>2 DEF Moved, TypeOK
  <2>4. /\ ~Started(p) \/ l \notin {"add", "raised"}
        /\ pc[p] \notin {"ok", "returned"}
    BY <1>0, <1>1, <2>2 DEF SendCheck, ReceiveCheck, EnterWait, Started, TypeOK
  <2> QED BY <1>0, <2>1, <2>2, <2>3, <2>4, MovedKeeps DEF TypeOK
<1>2. ASSUME NEW g \in Rangers,
             RangeTop(g) \/ RangeWoken(g) \/ RangeUnlock(g) \/ RangeRaises(g) \/ RangeBreak(g)
      PROVE  SafeInv'
  <2>1. UNCHANGED <<fData, fWaiting, fHaveValue, fReceivedValue, lDone, resVal, resOk, fClosed>>
    BY <1>2 DEF RangeTop, RangeWoken, RangeUnlock, RangeRaises, RangeBreak, msgVars, res
  <2>2. PICK l \in {"ended", "wait", "loop", "top", "raised"} : pc' = [pc EXCEPT ![g] = l]
    BY <1>2 DEF RangeTop, RangeWoken, RangeUnlock, RangeRaises, RangeBreak
  <2>3. Moved(g, l)
    BY <1>0, <2>2 DEF Moved, TypeOK
  <2>4. pc[g] \notin {"ok", "returned"}
    BY <1>0 DEF TypeOK, RangePC
  <2> QED BY <1>0, <2>1, <2>2, <2>3, <2>4, MovedKeeps DEF TypeOK
<1>3. ASSUME NEW c \in Closers, CloseRead(c) \/ CloseWrite(c)
      PROVE  SafeInv'
  <2>1. /\ UNCHANGED <<fData, fWaiting, fHaveValue, fReceivedValue, lDone, resVal, resOk>>
        /\ fClosed' \in BOOLEAN /\ (fClosed => fClosed')
    BY <1>0, <1>3 DEF CloseRead, CloseWrite, chanVars, msgVars, res, TypeOK
  <2>2. PICK l \in {"write", "ended", "notify"} : pc' = [pc EXCEPT ![c] = l]
    BY <1>3 DEF CloseRead, CloseWrite
  <2>3. Moved(c, l)
    BY <1>0, <2>2 DEF Moved, TypeOK
  <2>4. pc[c] \notin {"ok", "returned"}
    BY <1>0 DEF TypeOK, ClosePC
  <2> QED BY <2>1, <2>2, <2>3, <2>4, MovedKeeps
<1>4. ASSUME NEW c \in Closers, CloseNotify(c) PROVE SafeInv'
  <2>1. fClosed
    BY <1>0, <1>4 DEF CloseInv, CloseNotify
  <2> QED BY <1>4, <2>1, CloseNotifyKeeps
<1>5. ASSUME NEW s \in Senders, SendAdd(s) PROVE SafeInv'
  BY <1>5, SendHandOffKeeps, SendQueueKeeps DEF SendAdd
<1>6. ASSUME NEW r \in Receivers, ReceiveAdd(r) PROVE SafeInv'
  BY <1>6, ReceiveTakeKeeps, ReceiveQueueKeeps DEF ReceiveAdd
<1>7. CASE UNCHANGED vars
  BY <1>7 DEF vars, chanVars, msgVars, res, IInv, SafeInv, NeverBothQueued, QueueInv,
              HeldInv, HandedOnce, DoneInv, ResultInv, Started
<1> QED
  BY <1>1, <1>2, <1>3, <1>4, <1>5, <1>6, <1>7, ReturnKeeps, RangeTakeKeeps
  DEF Next, SendStep, ReceiveStep, RangeStep, CloseStep

(***************************************************************************)
(* Initially nothing is queued, held or done.                              *)
(***************************************************************************)
LEMMA InitSafe == Init => RangeInBounds /\ HostInv /\ CloseInv /\ SafeInv
<1> SUFFICES ASSUME Init PROVE RangeInBounds /\ HostInv /\ CloseInv /\ SafeInv
  OBVIOUS
<1> USE ProcKinds
<1>1. \A p \in Procs : pc[p] \in {"top", "read", "idle"}
  BY DEF Init
<1>2. RangeInBounds /\ CloseInv
  BY <1>1 DEF RangeInBounds, Looping, CloseInv
<1>7. HostInv
  BY DEF Init, HostInv, Calls
<1>3. Len(fData) = 0 /\ Len(fWaiting) = 0 /\ NeverBothQueued /\ QueueInv
  BY DEF Init, NeverBothQueued, QueueInv
<1>4. HeldInv /\ HandedOnce
  BY DEF Init, HeldInv, HandedOnce
<1>5. DoneInv
  BY <1>3 DEF Init, DoneInv
<1>6. ResultInv
  BY <1>1 DEF Init, ResultInv
<1> QED BY <1>2, <1>3, <1>4, <1>5, <1>6, <1>7 DEF SafeInv

(***************************************************************************)
(* The invariant holds in every behaviour of the channel.                  *)
(***************************************************************************)
LEMMA Inductive == Spec => []IInv
<1>1. Init => IInv
  BY InitType, InitSafe DEF IInv
<1>2. IInv /\ [Next]_vars => IInv'
  BY NextType, NextHost, NextRange, NextClose, NextSafe DEF IInv
<1> QED BY <1>1, <1>2, PTL DEF Spec

(***************************************************************************)
(* Type correctness, and that GetSequence indexes past fData only if its   *)
(* own loop body received from the channel, whatever any other goroutine   *)
(* sends, receives or closes meanwhile.                                    *)
(***************************************************************************)
THEOREM TypeCorrect == Spec => [](TypeOK /\ RangeInBounds)
BY Inductive, PTL DEF IInv

(***************************************************************************)
(* fData and fWaiting are never both non-empty, for any number of calls.   *)
(***************************************************************************)
THEOREM QueuesExclude == Spec => []NeverBothQueued
BY Inductive, PTL DEF IInv, SafeInv

(***************************************************************************)
(* No message reaches two Receives, for any number of calls.               *)
(***************************************************************************)
THEOREM AtMostOnce == Spec => []HandedOnce
BY Inductive, PTL DEF IInv, SafeInv

(***************************************************************************)
(* On an open channel of any capacity a Send returns only after its        *)
(* message was received or while it is among the first Cap queued ones.    *)
(***************************************************************************)
THEOREM Rendezvous == Spec => []SendReturnsWithRoom
<1>1. IInv => SendReturnsWithRoom
  BY DEF IInv, SafeInv, DoneInv, SendReturnsWithRoom
<1> QED BY <1>1, Inductive, PTL

(***************************************************************************)
(* Until Close, the unlocked reads of a ReceiveMessage return the value    *)
(* that was handed over, with ok, for any number of calls; a value is      *)
(* reported with ok, and is the one handed over, after Close too.          *)
(***************************************************************************)
THEOREM ReceiveReturns == Spec => []ReturnedValue
<1>1. IInv => ReturnedValue
  BY DEF IInv, SafeInv, ResultInv, ReturnedValue
<1> QED BY <1>1, Inductive, PTL

-----------------------------------------------------------------------------
(***************************************************************************)
(* Sequence facts: moving one element across a concatenation.              *)
(***************************************************************************)
LEMMA ShiftConcat ==
  ASSUME NEW S, NEW a \in Seq(S), NEW b \in Seq(S), b # <<>>
  PROVE  a \o b = Append(a, Head(b)) \o Tail(b)
OBVIOUS

LEMMA ConcatEmpty ==
  ASSUME NEW S, NEW a \in Seq(S)
  PROVE  a \o <<>> = a
OBVIOUS

(***************************************************************************)
(* Every step keeps the order of messages.                                 *)
(***************************************************************************)
LEMMA NextFifo == IInv /\ Fifo /\ [Next]_vars => Fifo'
<1> SUFFICES ASSUME IInv, Fifo, [Next]_vars PROVE Fifo'
  OBVIOUS
<1>0. TypeOK /\ NeverBothQueued
  BY DEF IInv, SafeInv
<1>1. ASSUME NEW s \in Senders, SendAdd(s), SendHandOff(s) PROVE Fifo'
  <2>1. fData = <<>> /\ fData' = <<>>
    BY <1>0, <1>1 DEF NeverBothQueued, SendHandOff
  <2>2. entered' = Append(entered, s) /\ delivered' = Append(delivered, s)
    BY <1>1 DEF SendAdd, SendHandOff, HandOff
  <2>3. entered = delivered
    BY <1>0, <2>1, ConcatEmpty DEF Fifo, TypeOK
  <2>4. delivered' \in Seq(Senders)
    BY <1>0, <2>2 DEF TypeOK
  <2> QED BY <2>1, <2>2, <2>3, <2>4, ConcatEmpty DEF Fifo
<1>2. ASSUME NEW s \in Senders, SendAdd(s), SendQueue(s) PROVE Fifo'
  <2>1. /\ entered' = Append(entered, s) /\ delivered' = delivered
        /\ fData' = Append(fData, s)
    BY <1>2 DEF SendAdd, SendQueue
  <2>2. delivered \in Seq(Senders) /\ fData \in Seq(Senders)
    BY <1>0 DEF TypeOK
  <2>3. Append(delivered \o fData, s) = delivered \o Append(fData, s)
    BY <2>2
  <2> QED BY <2>1, <2>3 DEF Fifo
<1>3. ASSUME fData # <<>>, fData' = Tail(fData), entered' = entered,
             delivered' = Append(delivered, Head(fData))
      PROVE  Fifo'
  BY <1>0, <1>3, ShiftConcat DEF Fifo, TypeOK
<1>4. ASSUME NEW r \in Receivers, ReceiveAdd(r), ReceiveTake(r) PROVE Fifo'
  BY <1>3, <1>4 DEF ReceiveAdd, ReceiveTake, HandOff, Take
<1>5. ASSUME NEW g \in Rangers, RangeTake(g) PROVE Fifo'
  <2>1. fData # <<>>
    BY <1>5 DEF RangeTake
  <2> QED BY <1>3, <1>5, <2>1 DEF RangeTake, Take
<1>6. CASE UNCHANGED <<fData, entered, delivered>>
  BY <1>6 DEF Fifo
<1>7. ASSUME NEW s \in Senders, SendCheck(s) \/ SendDone(s) \/ EnterWait(s)
      PROVE  Fifo'
  BY <1>6, <1>7 DEF SendCheck, SendDone, EnterWait, chanVars, hist
<1>8. ASSUME NEW r \in Receivers,
             \/ ReceiveCheck(r) \/ ReceiveDone(r) \/ ReceiveClosed(r) \/ EnterWait(r)
             \/ ReceiveValue(r) \/ ReceiveOk(r) \/ (ReceiveAdd(r) /\ ReceiveQueue(r))
      PROVE  Fifo'
  BY <1>6, <1>8 DEF ReceiveCheck, ReceiveDone, ReceiveClosed, EnterWait, ReceiveValue,
                    ReceiveOk, ReceiveAdd, ReceiveQueue, chanVars, hist
<1>9. ASSUME NEW g \in Rangers,
             RangeTop(g) \/ RangeWoken(g) \/ RangeUnlock(g) \/ RangeRaises(g) \/ RangeBreak(g)
      PROVE  Fifo'
  BY <1>6, <1>9 DEF RangeTop, RangeWoken, RangeUnlock, RangeRaises, RangeBreak, hist
<1>10. ASSUME NEW c \in Closers, CloseStep(c) PROVE Fifo'
  BY <1>6, <1>10 DEF CloseStep, CloseRead, CloseWrite, CloseNotify, chanVars, hist
<1>11. CASE UNCHANGED vars
  BY <1>6, <1>11 DEF vars, chanVars, hist
<1> QED
  BY <1>1, <1>2, <1>4, <1>5, <1>7, <1>8, <1>9, <1>10, <1>11
  DEF Next, SendStep, ReceiveStep, RangeStep, SendAdd, ReceiveAdd

(***************************************************************************)
(* FIFO order and no loss inside the channel, for any number of Sends,     *)
(* Receives, ranges and Closes and any capacity.                           *)
(***************************************************************************)
THEOREM FifoOrder == Spec => []Fifo
<1>1. Init => Fifo
  BY DEF Init, Fifo
<1> QED BY <1>1, Inductive, NextFifo, PTL DEF Spec

-----------------------------------------------------------------------------
(* The refinement of Channel. *)

(***************************************************************************)
(* What the mapping needs beyond IInv: until Close, nobody whose message   *)
(* is queued is done, and a Receive between its two reads has read the     *)
(* value it was handed.                                                    *)
(***************************************************************************)
MapInv ==
  ~fClosed =>
    /\ \A i \in 1..Len(fData) : ~lDone[fData[i]]
    /\ \A r \in Receivers : pc[r] = "ok" => resVal[r] = fReceivedValue[r]

\* The state functions that stand for came, sent and result of Channel.
Came     == {s \in Senders : pc[s] \in {"check", "towait", "wait", "sent"}}
Sent     == {s \in Senders : pc[s] = "sent"}
ResultFn == [r \in Receivers |-> Result(r)]

\* A step of the abstract channel that changes nothing.
NoStep == UNCHANGED <<fData, Came, Sent, fReceivedValue, ResultFn, fClosed>>

(***************************************************************************)
(* A call that moves within the same abstract state, and the calls it      *)
(* wakes, leave the mapped variables alone.                                *)
(***************************************************************************)
LEMMA MovedMap ==
  ASSUME NEW p \in Procs, NEW l, Moved(p, l),
         p \in Senders => /\ pc[p] \in {"check", "towait", "wait", "sent"}
                               <=> l \in {"check", "towait", "wait", "sent"}
                          /\ pc[p] = "sent" <=> l = "sent",
         p \in Receivers => (pc[p] = "returned" <=> l = "returned"),
         UNCHANGED <<resVal, resOk>>
  PROVE  UNCHANGED <<Came, Sent, ResultFn>>
<1> USE ProcKinds
<1>1. Came' = Came /\ Sent' = Sent
  BY DEF Came, Sent, Moved
<1>2. \A r \in Receivers : Result(r)' = Result(r)
  BY DEF Result, Moved
<1>3. ResultFn' = ResultFn
  BY <1>2 DEF ResultFn
<1> QED BY <1>1, <1>3

(***************************************************************************)
(* A Send that brings its message: it was not there before, and only it    *)
(* comes, and returns if it does.                                          *)
(***************************************************************************)
LEMMA SendMap ==
  ASSUME NEW s \in Senders, NEW l \in {"check", "sent"}, Moved(s, l), pc[s] = "add",
         UNCHANGED <<resVal, resOk>>
  PROVE  /\ s \notin Came /\ Came' = Came \cup {s}
         /\ Sent' = IF l = "sent" THEN Sent \cup {s} ELSE Sent
         /\ ResultFn' = ResultFn
<1> USE ProcKinds
<1>1. s \notin Came /\ Came' = Came \cup {s}
  BY DEF Came, Moved
<1>2. Sent' = IF l = "sent" THEN Sent \cup {s} ELSE Sent
  BY DEF Sent, Moved
<1>3. \A r \in Receivers : Result(r)' = Result(r)
  BY DEF Result, Moved
<1>4. ResultFn' = ResultFn
  BY <1>3 DEF ResultFn
<1> QED BY <1>1, <1>2, <1>4

(***************************************************************************)
(* The two paths of AddItem(Message) are Pass and Put.                     *)
(***************************************************************************)
LEMMA SendHandOffMaps ==
  ASSUME IInv, NEW s \in Senders, SendAdd(s), SendHandOff(s)
  PROVE  \E r \in Receivers : GoChannel!Pass(s, r)
<1> USE ProcKinds
<1>0. TypeOK /\ NeverBothQueued /\ QueueInv /\ HeldInv
  BY DEF IInv, SafeInv
<1>1. PICK r \in Receivers : r = Head(fWaiting) /\ fWaiting # <<>> /\ ~fHaveValue[r]
  BY <1>0 DEF TypeOK, SendHandOff, QueueInv
<1>2. fData = <<>> /\ fData' = fData
  BY <1>0, <1>1 DEF NeverBothQueued, SendHandOff
<1>3. Released(fData, [fNotifier EXCEPT ![s] = TRUE]) = {}
  BY DEF Released, EmptyLambda
<1>4. Moved(s, "sent")
  <2>1. pc' = PcAfter({r}, s, "sent")
    BY <1>1, <1>3 DEF SendHandOff
  <2> QED BY <2>1 DEF PcAfter, Moved, Procs, Calls
<1>5. pc[s] = "add" /\ UNCHANGED <<resVal, resOk, fClosed>>
  BY DEF SendAdd, res
<1>6. s \notin Came /\ Came' = Came \cup {s} /\ Sent' = Sent \cup {s} /\ ResultFn' = ResultFn
  BY <1>4, <1>5, SendMap
<1>7. fReceivedValue[r] = None /\ fReceivedValue' = [fReceivedValue EXCEPT ![r] = s]
  BY <1>0, <1>1 DEF HeldInv, SendHandOff, HandOff
<1>8. GoChannel!Pass(s, r)
  BY <1>2, <1>5, <1>6, <1>7 DEF GoChannel!Pass, Came, Sent, ResultFn
<1> QED BY <1>8

(***************************************************************************)
(* A Send that finds nobody waiting puts its message into the queue, and   *)
(* returns at once exactly when the abstract channel still had room.       *)
(***************************************************************************)
LEMMA SendQueueMaps ==
  ASSUME IInv, NEW s \in Senders, SendAdd(s), SendQueue(s)
  PROVE  GoChannel!Put(s)
<1> USE ProcKinds, ChannelAssumption
<1> DEFINE l == IF Len(fData) + 1 < fQueueSize THEN "sent" ELSE "check"
<1>0. TypeOK
  BY DEF IInv
<1>1. Moved(s, l)
  BY <1>0 DEF SendQueue, Moved, TypeOK
<1>2. /\ pc[s] = "add" /\ UNCHANGED <<resVal, resOk, fClosed, fReceivedValue>>
      /\ fData' = Append(fData, s)
  BY DEF SendAdd, SendQueue, res
<1>3. l = "sent" <=> Len(fData) < Cap
  BY <1>0 DEF TypeOK, fQueueSize
<1>4. /\ s \notin Came /\ Came' = Came \cup {s} /\ ResultFn' = ResultFn
      /\ Sent' = IF Len(fData) < Cap THEN Sent \cup {s} ELSE Sent
  BY <1>1, <1>2, <1>3, SendMap
<1> QED BY <1>2, <1>4 DEF GoChannel!Put, Came, Sent, ResultFn

(***************************************************************************)
(* Taking the first message is Take, by a Receive, or TakeByRange.         *)
(***************************************************************************)
LEMMA ReceiveTakeMaps ==
  ASSUME IInv, NEW r \in Receivers, ReceiveAdd(r), ReceiveTake(r)
  PROVE  GoChannel!Take(r)
<1> USE ProcKinds
<1>0. TypeOK /\ HeldInv
  BY DEF IInv, SafeInv
<1>1. /\ fData # <<>> /\ fData' = Tail(fData) /\ Moved(r, "check")
  BY <1>0, TakeEffect DEF ReceiveTake, Take
<1>2. pc[r] = "add" /\ UNCHANGED <<resVal, resOk, fClosed>>
  BY DEF ReceiveAdd, res
<1>3. UNCHANGED <<Came, Sent, ResultFn>>
  BY <1>1, <1>2, MovedMap
<1>4. fReceivedValue[r] = None
  BY <1>0, <1>2 DEF HeldInv, Started
<1>5. fReceivedValue' = [fReceivedValue EXCEPT ![r] = Head(fData)]
  BY DEF ReceiveTake, HandOff
<1> QED BY <1>1, <1>2, <1>3, <1>4, <1>5 DEF GoChannel!Take, Came, Sent, ResultFn

(***************************************************************************)
(* A range takes the first message for its loop body.                      *)
(***************************************************************************)
LEMMA RangeTakeMaps ==
  ASSUME IInv, NEW g \in Rangers, RangeTake(g)
  PROVE  GoChannel!TakeByRange
<1> USE ProcKinds
<1>0. TypeOK /\ RangeInBounds
  BY DEF IInv
<1>1. fData # <<>>
  BY DEF RangeTake
<1>2. fData' = Tail(fData) /\ Moved(g, "yield")
  BY <1>0, <1>1, TakeEffect DEF RangeTake, Take
<1>3. UNCHANGED <<resVal, resOk, fClosed, fReceivedValue>>
  BY DEF RangeTake, res
<1>4. UNCHANGED <<Came, Sent, ResultFn>>
  BY <1>2, <1>3, MovedMap
<1> QED BY <1>1, <1>2, <1>3, <1>4 DEF GoChannel!TakeByRange, Came, Sent, ResultFn

(***************************************************************************)
(* A Send that finds lDone returns because its message has left.           *)
(***************************************************************************)
LEMMA SendDoneMaps ==
  ASSUME IInv, MapInv, NEW s \in Senders, SendDone(s)
  PROVE  GoChannel!SendReturns(s) \/ NoStep
<1> USE ProcKinds
<1>0. TypeOK
  BY DEF IInv
<1>1. /\ pc[s] = "check"
      /\ UNCHANGED <<fData, fReceivedValue, fClosed, resVal, resOk>>
  BY DEF SendDone, chanVars, msgVars, res
<1>2. CASE lDone[s]
  <2>1. pc' = [pc EXCEPT ![s] = "sent"]
    BY <1>2 DEF SendDone
  <2>2. Came' = Came /\ s \in Came /\ Sent' = Sent \cup {s}
    BY <1>0, <1>1, <2>1 DEF Came, Sent, TypeOK
  <2>3. \A r \in Receivers : Result(r)' = Result(r)
    BY <1>0, <1>1, <2>1 DEF Result, TypeOK
  <2>4. ResultFn' = ResultFn
    BY <2>3 DEF ResultFn
  <2>5. fClosed \/ \A i \in 1..Len(fData) : fData[i] # s
    BY <1>2 DEF MapInv
  <2> QED BY <1>1, <2>2, <2>4, <2>5 DEF GoChannel!SendReturns, Came, Sent, ResultFn
<1>3. CASE ~lDone[s]
  <2>1. Moved(s, "towait")
    BY <1>0, <1>3 DEF SendDone, Moved, TypeOK
  <2>2. UNCHANGED <<Came, Sent, ResultFn>>
    BY <1>1, <2>1, MovedMap
  <2> QED BY <1>1, <2>2 DEF NoStep
<1> QED BY <1>2, <1>3

(***************************************************************************)
(* The two ways a Receive returns: empty-handed from a closed channel, or  *)
(* with the fields it has read.                                            *)
(***************************************************************************)
LEMMA ReceiveReturnMaps ==
  ASSUME IInv, MapInv, NEW r \in Receivers,
         \/ ReceiveClosed(r) /\ fClosed
         \/ ReceiveOk(r)
  PROVE  GoChannel!ReceiveReturns(r)
<1> USE ProcKinds
<1> DEFINE v == IF resOk'[r] THEN resVal'[r] ELSE None
<1>0. TypeOK /\ HeldInv /\ DoneInv /\ ResultInv
  BY DEF IInv, SafeInv
<1>1. /\ pc' = [pc EXCEPT ![r] = "returned"] /\ pc[r] \in {"closed?", "ok"}
      /\ UNCHANGED <<fData, fReceivedValue, fClosed, resVal>>
  BY DEF ReceiveClosed, ReceiveOk, chanVars, msgVars, res
<1>2. \A q \in Receivers \ {r} : resOk'[q] = resOk[q]
  BY <1>0 DEF ReceiveClosed, ReceiveOk, res, TypeOK
<1>3. Came' = Came /\ Sent' = Sent
  BY <1>0, <1>1 DEF Came, Sent, TypeOK
<1>4. /\ Result(r) = <<>> /\ Result(r)' = <<v>>
      /\ \A q \in Receivers \ {r} : Result(q)' = Result(q)
  BY <1>0, <1>1, <1>2 DEF Result, TypeOK
<1>5. ResultFn' = [ResultFn EXCEPT ![r] = <<v>>]
  BY <1>4 DEF ResultFn
<1>6. ResultFn[r] = <<>>
  BY <1>4 DEF ResultFn
<1>7. v \in {fReceivedValue[r]} \cup (IF fClosed THEN {None} ELSE {})
      /\ (fClosed \/ v # None)
  <2>1. CASE ReceiveClosed(r) /\ fClosed
    <3>1. pc[r] = "closed?"
      BY <2>1 DEF ReceiveClosed
    <3>2. resVal[r] = None
      BY <1>0, <3>1 DEF ResultInv
    <3> QED BY <1>1, <2>1, <3>2
  <2>2. CASE ReceiveOk(r)
    <3>1. pc[r] = "ok" /\ resOk'[r] = fHaveValue[r]
      BY <1>0, <2>2 DEF ReceiveOk, TypeOK
    <3>2. resVal[r] \in {None, fReceivedValue[r]}
      BY <1>0 DEF ResultInv
    <3>3. ~fClosed => /\ fHaveValue[r] /\ resVal[r] = fReceivedValue[r]
                      /\ fReceivedValue[r] # None
      BY <1>0, <3>1, ChannelAssumption DEF MapInv, ResultInv, DoneInv, HeldInv
    <3> QED BY <1>1, <3>1, <3>2, <3>3
  <2> QED BY <2>1, <2>2
<1> QED BY <1>1, <1>3, <1>5, <1>6, <1>7 DEF GoChannel!ReceiveReturns, Came, Sent, ResultFn

(***************************************************************************)
(* Steps that pass no message and return from no call.                     *)
(***************************************************************************)
LEMMA QuietMaps ==
  ASSUME IInv,
         \/ \E s \in Senders : SendCheck(s) \/ EnterWait(s)
         \/ \E r \in Receivers :
              \/ ReceiveCheck(r) \/ (ReceiveAdd(r) /\ ReceiveQueue(r)) \/ ReceiveDone(r)
              \/ (ReceiveClosed(r) /\ ~fClosed) \/ EnterWait(r)
         \/ \E g \in Rangers :
              RangeTop(g) \/ RangeWoken(g) \/ RangeUnlock(g) \/ RangeRaises(g) \/ RangeBreak(g)
         \/ \E c \in Closers : CloseRead(c) \/ CloseNotify(c)
  PROVE  NoStep
<1> USE ProcKinds
<1>0. TypeOK
  BY DEF IInv
<1>1. UNCHANGED <<fData, fReceivedValue, fClosed, resVal, resOk>>
  BY DEF SendCheck, EnterWait, ReceiveCheck, ReceiveAdd, ReceiveQueue, ReceiveDone,
         ReceiveClosed, RangeTop, RangeWoken, RangeUnlock, RangeRaises, RangeBreak, CloseRead,
         CloseNotify, chanVars, msgVars, res
<1>2. \A s \in Senders : (pc'[s] # pc[s]) =>
        \/ pc[s] = "idle" /\ pc'[s] \in {"add", "raised"}
        \/ pc[s] \in {"towait", "wait"} /\ pc'[s] \in {"wait", "check"}
  BY <1>0 DEF SendCheck, EnterWait, ReceiveCheck, ReceiveAdd, ReceiveQueue, ReceiveDone,
         ReceiveClosed, RangeTop, RangeWoken, RangeUnlock, RangeRaises, RangeBreak, CloseRead,
         CloseNotify, PcAfter, Pulsed, TypeOK
<1>3. \A r \in Receivers : (pc'[r] # pc[r]) => pc[r] # "returned" /\ pc'[r] # "returned"
  <2>0. pc \in [Procs -> SendPC \cup RecvPC \cup RangePC \cup ClosePC]
    BY <1>0 DEF TypeOK
  <2>1. CASE \E c \in Closers : CloseNotify(c)
    BY <2>0, <2>1 DEF CloseNotify, PcAfter
  <2>2. CASE \E r \in Receivers : ReceiveAdd(r) /\ ReceiveQueue(r)
    BY <2>0, <2>2 DEF ReceiveAdd, ReceiveQueue, Pulsed
  <2>3. CASE \E g \in Rangers :
               RangeTop(g) \/ RangeWoken(g) \/ RangeUnlock(g) \/ RangeRaises(g) \/ RangeBreak(g)
    BY <2>0, <2>3 DEF RangeTop, RangeWoken, RangeUnlock, RangeRaises, RangeBreak
  <2> QED BY <2>0, <2>1, <2>2, <2>3 DEF SendCheck, EnterWait, ReceiveCheck, ReceiveDone,
         ReceiveClosed, CloseRead
<1>4. Came' = Came /\ Sent' = Sent
  BY <1>2 DEF Came, Sent
<1>5. \A r \in Receivers : Result(r)' = Result(r)
  BY <1>1, <1>3 DEF Result
<1>6. ResultFn' = ResultFn
  BY <1>5 DEF ResultFn
<1> QED BY <1>1, <1>4, <1>6 DEF NoStep

(***************************************************************************)
(* Reading the value field is no step of the abstract channel: the call    *)
(* has not returned yet.                                                   *)
(***************************************************************************)
LEMMA ReceiveValueMaps ==
  ASSUME IInv, NEW r \in Receivers, ReceiveValue(r)
  PROVE  NoStep
<1> USE ProcKinds
<1>0. TypeOK
  BY DEF IInv
<1>1. /\ UNCHANGED <<fData, fReceivedValue, fClosed, resOk>>
      /\ pc' = [pc EXCEPT ![r] = "ok"] /\ pc[r] = "value"
      /\ \A q \in Receivers \ {r} : resVal'[q] = resVal[q]
  BY <1>0 DEF ReceiveValue, chanVars, msgVars, TypeOK
<1>2. Came' = Came /\ Sent' = Sent
  BY <1>0, <1>1 DEF Came, Sent, TypeOK
<1>3. \A q \in Receivers : Result(q)' = Result(q)
  BY <1>0, <1>1 DEF Result, TypeOK
<1>4. ResultFn' = ResultFn
  BY <1>3 DEF ResultFn
<1> QED BY <1>1, <1>2, <1>4 DEF NoStep

(***************************************************************************)
(* The store of fClosed is Close; waking the waiters is not.               *)
(***************************************************************************)
LEMMA CloseWriteMaps ==
  ASSUME IInv, NEW c \in Closers, CloseWrite(c)
  PROVE  GoChannel!Close
<1> USE ProcKinds
<1>0. TypeOK
  BY DEF IInv
<1>1. PICK l \in {"ended", "notify"} : pc' = [pc EXCEPT ![c] = l]
  BY DEF CloseWrite
<1>2. UNCHANGED <<fData, fReceivedValue, resVal, resOk>> /\ fClosed' = TRUE
  BY DEF CloseWrite, msgVars, res
<1>3. Moved(c, l)
  BY <1>0, <1>1 DEF Moved, TypeOK
<1>4. UNCHANGED <<Came, Sent, ResultFn>>
  BY <1>2, <1>3, MovedMap
<1> QED BY <1>2, <1>4 DEF GoChannel!Close, Came, Sent, ResultFn

(***************************************************************************)
(* Every step keeps MapInv.                                                *)
(***************************************************************************)
LEMMA NextMap == IInv /\ MapInv /\ [Next]_vars => MapInv'
<1> SUFFICES ASSUME IInv, MapInv, [Next]_vars, ~fClosed' PROVE MapInv'
  BY DEF MapInv
<1> USE ProcKinds
<1>0. TypeOK /\ NeverBothQueued /\ QueueInv /\ HeldInv /\ DoneInv /\ ResultInv /\ CloseInv
  BY DEF IInv, SafeInv
<1>1. ~fClosed
  BY <1>0 DEF Next, SendStep, SendCheck, SendAdd, SendDone, EnterWait, ReceiveStep,
     ReceiveCheck, ReceiveAdd, ReceiveDone, ReceiveClosed, ReceiveValue, ReceiveOk,
     RangeStep, RangeTop, RangeWoken, RangeTake, RangeUnlock, RangeRaises, RangeBreak, CloseStep,
     CloseRead, CloseWrite, CloseNotify, CloseInv, chanVars, vars
<1>2. /\ \A i \in 1..Len(fData) : fData[i] \in Senders /\ ~lDone[fData[i]]
      /\ \A r \in Receivers : pc[r] = "ok" => resVal[r] = fReceivedValue[r]
  BY <1>0, <1>1 DEF MapInv, TypeOK
\* A step that neither queues nor hands over.
<1>3. ASSUME UNCHANGED <<fData, lDone, resVal, fReceivedValue>>,
             \A r \in Receivers : pc'[r] = "ok" => pc[r] = "ok"
      PROVE  MapInv'
  BY <1>2, <1>3 DEF MapInv
<1>4. ASSUME NEW s \in Senders, SendAdd(s), SendHandOff(s) PROVE MapInv'
  <2>1. PICK r \in Receivers : r = Head(fWaiting) /\ fWaiting # <<>> /\ ~fHaveValue[r]
    BY <1>0, <1>4 DEF TypeOK, SendHandOff, QueueInv
  <2>2. fData' = <<>>
    BY <1>0, <1>4, <2>1 DEF NeverBothQueued, SendHandOff
  <2>3. \A q \in Receivers : pc'[q] = "ok" => pc[q] = "ok"
    BY <1>4 DEF SendHandOff, PcAfter
  <2>4. pc[r] # "ok"
    BY <1>0, <1>1, <2>1 DEF ResultInv, DoneInv
  <2>5. \A q \in Receivers \ {r} : fReceivedValue'[q] = fReceivedValue[q]
    BY <1>0, <1>4, <2>1 DEF SendHandOff, HandOff, TypeOK
  <2>6. resVal' = resVal
    BY <1>4 DEF SendAdd, res
  <2> QED BY <1>2, <2>2, <2>3, <2>4, <2>5, <2>6 DEF MapInv
<1>5. ASSUME NEW s \in Senders, SendAdd(s), SendQueue(s) PROVE MapInv'
  <2>1. /\ UNCHANGED <<resVal, fReceivedValue>> /\ fData' = Append(fData, s)
        /\ \A r \in Receivers : pc'[r] = "ok" => pc[r] = "ok"
    BY <1>0, <1>5 DEF SendAdd, SendQueue, res, TypeOK
  <2>2. \A q \in Senders : lDone'[q] => lDone[q]
    BY <1>5 DEF SendQueue, Notify, EmptyLambda
  <2>3. ~lDone[s]
    BY <1>0, <1>5 DEF DoneInv, SendAdd, Started
  <2>4. \A i \in 1..Len(fData') : fData'[i] = s \/ (i \in 1..Len(fData) /\ fData'[i] = fData[i])
    BY <1>0, <2>1 DEF TypeOK
  <2> QED BY <1>2, <2>1, <2>2, <2>3, <2>4 DEF MapInv
<1>6. ASSUME NEW p \in Receivers \cup Rangers, NEW l, l # "ok", fData # <<>>, Take(p, l),
             resVal' = resVal,
             \A r \in Receivers \ {p} : fReceivedValue'[r] = fReceivedValue[r]
      PROVE  MapInv'
  <2>1. /\ Head(fData) = fData[1]
        /\ Len(fData') = Len(fData) - 1 /\ Len(fData) \in Nat \ {0}
        /\ \A i \in 1..Len(fData') : fData'[i] = fData[i + 1]
        /\ \A q \in Senders : lDone'[q] => lDone[q] \/ q = Head(fData)
        /\ Moved(p, l)
    BY <1>0, <1>6, TakeEffect
  <2>2. \A i \in 1..Len(fData') : ~lDone'[fData'[i]]
    BY <1>0, <1>2, <2>1 DEF QueueInv
  <2>3. \A r \in Receivers : pc'[r] = "ok" => pc[r] = "ok" /\ r # p
    BY <1>6, <2>1 DEF Moved
  <2> QED BY <1>2, <1>6, <2>2, <2>3 DEF MapInv
<1>7. ASSUME NEW r \in Receivers, ReceiveAdd(r) PROVE MapInv'
  <2>1. CASE ReceiveTake(r)
    <3>1. \A q \in Receivers \ {r} : fReceivedValue'[q] = fReceivedValue[q]
      BY <1>0, <2>1 DEF ReceiveTake, HandOff, TypeOK
    <3> QED BY <1>6, <1>7, <2>1, <3>1 DEF ReceiveAdd, ReceiveTake, res
  <2>2. CASE ReceiveQueue(r)
    BY <1>0, <1>3, <1>7, <2>2 DEF ReceiveAdd, ReceiveQueue, Pulsed, msgVars, res, TypeOK
  <2> QED BY <1>7, <2>1, <2>2 DEF ReceiveAdd
<1>8. ASSUME NEW g \in Rangers, RangeTake(g) PROVE MapInv'
  <2>1. fData # <<>>
    BY <1>8 DEF RangeTake
  <2> QED BY <1>6, <1>8, <2>1 DEF RangeTake, res
<1>9. ASSUME NEW r \in Receivers, ReceiveValue(r) PROVE MapInv'
  BY <1>0, <1>2, <1>9 DEF ReceiveValue, MapInv, TypeOK, chanVars, msgVars
<1>10. ASSUME NEW s \in Senders, SendCheck(s) \/ SendDone(s) \/ EnterWait(s) PROVE MapInv'
  BY <1>0, <1>3, <1>10 DEF SendCheck, SendDone, EnterWait, chanVars, msgVars, res, TypeOK
<1>11. ASSUME NEW r \in Receivers,
              ReceiveCheck(r) \/ ReceiveDone(r) \/ ReceiveClosed(r) \/ EnterWait(r) \/ ReceiveOk(r)
       PROVE  MapInv'
  BY <1>0, <1>3, <1>11 DEF ReceiveCheck, ReceiveDone, ReceiveClosed, EnterWait, ReceiveOk,
     chanVars, msgVars, res, TypeOK
<1>12. ASSUME NEW g \in Rangers,
              RangeTop(g) \/ RangeWoken(g) \/ RangeUnlock(g) \/ RangeRaises(g) \/ RangeBreak(g)
       PROVE  MapInv'
  BY <1>0, <1>3, <1>12 DEF RangeTop, RangeWoken, RangeUnlock, RangeRaises, RangeBreak, msgVars, res, TypeOK
<1>13. ASSUME NEW c \in Closers, CloseRead(c) PROVE MapInv'
  BY <1>0, <1>3, <1>13 DEF CloseRead, chanVars, msgVars, res, TypeOK
<1>14. ~\E c \in Closers : CloseWrite(c) \/ CloseNotify(c)
  BY <1>0, <1>1 DEF CloseWrite, CloseNotify, CloseInv
<1>15. CASE UNCHANGED vars
  BY <1>3, <1>15 DEF vars, chanVars, msgVars, res
<1> QED
  BY <1>4, <1>5, <1>7, <1>8, <1>9, <1>10, <1>11, <1>12, <1>13, <1>14, <1>15
  DEF Next, SendStep, ReceiveStep, RangeStep, CloseStep, SendAdd

(***************************************************************************)
(* Every step of the run-time's channel is a step of a Go channel or       *)
(* changes nothing there.                                                  *)
(***************************************************************************)
LEMMA StepMaps == IInv /\ MapInv /\ [Next]_vars => [GoChannel!Next]_(GoChannel!cvars)
<1> SUFFICES ASSUME IInv, MapInv, [Next]_vars
             PROVE  GoChannel!Next \/ UNCHANGED GoChannel!cvars
  OBVIOUS
<1>1. NoStep => UNCHANGED GoChannel!cvars
  BY DEF NoStep, GoChannel!cvars, Came, Sent, ResultFn
<1>2. ASSUME NEW s \in Senders, SendStep(s) PROVE GoChannel!Next \/ NoStep
  <2>1. CASE SendAdd(s)
    BY <2>1, SendHandOffMaps, SendQueueMaps DEF SendAdd, GoChannel!Next
  <2>2. CASE SendDone(s)
    BY <2>2, SendDoneMaps DEF GoChannel!Next
  <2>3. CASE SendCheck(s) \/ EnterWait(s)
    BY <2>3, QuietMaps
  <2> QED BY <1>2, <2>1, <2>2, <2>3 DEF SendStep
<1>3. ASSUME NEW r \in Receivers, ReceiveStep(r) PROVE GoChannel!Next \/ NoStep
  <2>1. CASE ReceiveAdd(r) /\ ReceiveTake(r)
    BY <2>1, ReceiveTakeMaps DEF GoChannel!Next
  <2>2. CASE ReceiveOk(r) \/ (ReceiveClosed(r) /\ fClosed)
    BY <2>2, ReceiveReturnMaps DEF GoChannel!Next
  <2>3. CASE \/ ReceiveCheck(r) \/ (ReceiveAdd(r) /\ ReceiveQueue(r)) \/ ReceiveDone(r)
             \/ (ReceiveClosed(r) /\ ~fClosed) \/ EnterWait(r)
    BY <2>3, QuietMaps
  <2>4. CASE ReceiveValue(r)
    BY <2>4, ReceiveValueMaps
  <2> QED BY <1>3, <2>1, <2>2, <2>3, <2>4 DEF ReceiveStep, ReceiveAdd
<1>4. ASSUME NEW g \in Rangers, RangeStep(g) \/ RangeBreak(g) PROVE GoChannel!Next \/ NoStep
  <2>1. CASE RangeTake(g)
    BY <2>1, RangeTakeMaps DEF GoChannel!Next
  <2>2. CASE RangeTop(g) \/ RangeWoken(g) \/ RangeUnlock(g) \/ RangeRaises(g) \/ RangeBreak(g)
    BY <2>2, QuietMaps
  <2> QED BY <1>4, <2>1, <2>2 DEF RangeStep
<1>5. ASSUME NEW c \in Closers, CloseStep(c) PROVE GoChannel!Next \/ NoStep
  <2>1. CASE CloseWrite(c)
    BY <2>1, CloseWriteMaps DEF GoChannel!Next
  <2>2. CASE CloseRead(c) \/ CloseNotify(c)
    BY <2>2, QuietMaps
  <2> QED BY <1>5, <2>1, <2>2 DEF CloseStep
<1>6. CASE UNCHANGED vars
  BY <1>6 DEF vars, chanVars, msgVars, res, GoChannel!cvars, Result
<1> QED BY <1>1, <1>2, <1>3, <1>4, <1>5, <1>6 DEF Next

(***************************************************************************)
(* The run-time's channel implements a Go channel, for any number of       *)
(* Sends, Receives, ranges and Closes and any capacity.                    *)
(***************************************************************************)
THEOREM Refinement == Spec => ImplementsChannel
<1>1. Init => GoChannel!Init
  <2> SUFFICES ASSUME Init PROVE GoChannel!Init
    OBVIOUS
  <2>1. \A p \in Senders \cup Receivers : pc[p] = "idle"
    BY ProcKinds DEF Init, Procs, Calls
  <2>2. Came = {} /\ Sent = {}
    BY <2>1 DEF Came, Sent
  <2>3. \A r \in Receivers : Result(r) = <<>>
    BY <2>1 DEF Result
  <2> QED BY <2>2, <2>3 DEF Init, GoChannel!Init, Came, Sent
<1>2. Init => MapInv
  BY DEF Init, MapInv
<1> QED BY <1>1, <1>2, Inductive, NextMap, StepMaps, PTL DEF Spec, ImplementsChannel, GoChannel!Spec
=============================================================================
