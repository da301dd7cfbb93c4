----------------------------- MODULE GoldChannel -----------------------------
(***************************************************************************)
(* BidirectionalChannel<T> of Gold.Channels.Echoes.pas: Send, Receive, the *)
(* iterator GetSequence behind "for v := range ch", and Close, called      *)
(* concurrently on one channel.                                            *)
(*                                                                         *)
(* A process is one call made by one goroutine.  The Message<T> of a Send  *)
(* and the ReceiveMessage<T> of a Receive carry the name of their call.    *)
(* Every section under fLock is one action: the notifiers that run inside  *)
(* it only take the private lLock of a Send or a Receive, whose sections   *)
(* never wait for fLock.  GetSequence alone keeps fLock across a yield,    *)
(* and fLock is a Monitor: a call made in the loop body, by the goroutine  *)
(* that holds it, enters it again.                                         *)
(* Select, whose notifiers may refuse a hand-off, is a module of its own.  *)
(***************************************************************************)
EXTENDS Naturals, Sequences

CONSTANTS Senders, Receivers, Rangers, Closers,  \* the calls
          Cap,                                   \* aQueueSize of the constructor
          None                                   \* the nil value, no lock owner

Calls == Senders \cup Receivers \cup Closers
Procs == Calls \cup Rangers

ASSUME ChannelAssumption ==
  /\ Cap \in Nat
  /\ None \notin Procs
  /\ Senders \cap (Receivers \cup Rangers \cup Closers) = {}
  /\ Receivers \cap (Rangers \cup Closers) = {}
  /\ Rangers \cap Closers = {}

VARIABLES
  fClosed,        \* fClosed <> 0
  fData,          \* the queued messages
  fWaiting,       \* the queued receivers
  fLock,          \* the range that holds fLock between two steps, or None
  fNotifier,      \* fNotifier[s]: the message of s has a non-nil notifier
  lDone,          \* lDone of a Send or Receive
  pc,             \* where each call is
  fReceivedValue, \* the two fields of a ReceiveMessage
  fHaveValue,
  resVal, resOk,  \* the (value, ok) tuple a Receive returns
  left,           \* iterations left of GetSequence's inner loop
  lClosed,        \* the value of fClosed a Close read
  host,           \* the range in whose loop body a call is made, or None
  entered,        \* history: messages in the order AddItem queued them
  delivered       \* history: messages in the order they were handed over

chanVars == <<fClosed, fData, fWaiting, fLock>>
msgVars  == <<fNotifier, lDone, fReceivedValue, fHaveValue>>
hist     == <<entered, delivered>>
res      == <<resVal, resOk>>
vars     == <<chanVars, msgVars, pc, res, left, lClosed, host, hist>>

\* Mutant: the constructor stores the capacity itself.
fQueueSize_exact == Cap

\* Mutant: one place too many.
fQueueSize_more == Cap + 2

\* The constructor stores one more than the capacity.
fQueueSize == Cap + 1

SendPC  == {"idle", "add", "check", "towait", "wait", "sent", "raised"}
RecvPC  == {"idle", "add", "check", "closed?", "towait", "wait",
            "value", "ok", "returned", "raised"}
RangePC == {"top", "wait", "woken", "loop", "yield", "ended", "raised"}
ClosePC == {"read", "write", "notify", "ended"}

TypeOK ==
  /\ fClosed \in BOOLEAN
  /\ fData \in Seq(Senders)
  /\ fWaiting \in Seq(Receivers)
  /\ fLock \in Rangers \cup {None}
  /\ fNotifier \in [Senders -> BOOLEAN]
  /\ lDone \in [Senders \cup Receivers -> BOOLEAN]
  /\ pc \in [Procs -> SendPC \cup RecvPC \cup RangePC \cup ClosePC]
  /\ \A s \in Senders : pc[s] \in SendPC
  /\ \A r \in Receivers : pc[r] \in RecvPC
  /\ \A g \in Rangers : pc[g] \in RangePC
  /\ \A c \in Closers : pc[c] \in ClosePC
  /\ fReceivedValue \in [Receivers -> Senders \cup {None}]
  /\ fHaveValue \in [Receivers -> BOOLEAN]
  /\ resVal \in [Receivers -> Senders \cup {None}]
  /\ resOk \in [Receivers -> BOOLEAN]
  /\ left \in [Rangers -> Nat]
  /\ lClosed \in [Closers -> BOOLEAN]
  /\ host \in [Calls -> Rangers \cup {None}]
  /\ entered \in Seq(Senders)
  /\ delivered \in Seq(Senders)

Init ==
  /\ fClosed = FALSE
  /\ fData = <<>> /\ fWaiting = <<>>
  /\ fLock = None
  /\ fNotifier = [s \in Senders |-> FALSE]
  /\ lDone = [p \in Senders \cup Receivers |-> FALSE]
  /\ pc = [p \in Procs |-> CASE p \in Rangers -> "top"
                             [] p \in Closers -> "read"
                             [] OTHER -> "idle"]
  /\ fReceivedValue = [r \in Receivers |-> None]
  /\ fHaveValue = [r \in Receivers |-> FALSE]
  /\ resVal = [r \in Receivers |-> None]
  /\ resOk = [r \in Receivers |-> FALSE]
  /\ left = [g \in Rangers |-> 0]
  /\ lClosed = [c \in Closers |-> FALSE]
  /\ host = [p \in Calls |-> None]
  /\ entered = <<>> /\ delivered = <<>>

-----------------------------------------------------------------------------
(* Calls made in the loop body of a range over the same channel. *)

\* The call that the loop body of g is in, if any.
InBody(g) ==
  {p \in Calls : host[p] = g
                  /\ pc[p] \notin {"sent", "returned", "raised", "ended"}}

\* A call begins, on a goroutine of its own or in a loop body that runs.
Begin(p) ==
  \E h \in {None} \cup {g \in Rangers : pc[g] = "yield" /\ InBody(g) = {}} :
    host' = [host EXCEPT ![p] = h]

\* Monitor.Enter(fLock): nobody has it, or the goroutine that makes the call.
CanLock(p) == fLock \in {None, host[p]}

(* The notifier closures of Send and Receive. *)

\* "-> begin end" passed as a Func<Boolean> returns the default, false.
EmptyLambda == FALSE

\* The calls P leave Monitor.Wait(lLock), if they are in it, because of a
\* Pulse; the call p itself goes on to label l.
PcAfter(P, p, l) ==
  [q \in Procs |-> IF q = p THEN l
                  ELSE IF q \in P /\ pc[q] = "wait" THEN "check" ELSE pc[q]]

\* The notifiers of the calls P ran their argument and it returned true.
Notify(P) == lDone' = [q \in Senders \cup Receivers |-> lDone[q] \/ q \in P]

\* The messages of q that RemoveItem notifies after a removal left q queued.
Front(q) == {q[i] : i \in {j \in 1..Len(q) : j <= fQueueSize}}

\* RemoveItem's loop over q, when N are the live notifiers: which of them
\* complete their Send, and which are left non-nil.
Released(q, N) == {s \in Front(q) : EmptyLambda /\ N[s]}
Silence(q, N)  == fNotifier' = [s \in Senders |-> N[s] /\ s \notin Front(q)]

\* The call that Message.Receive notifies on success: none once the notifier
\* was set to nil.
Owner(s, N) == {x \in {s} : N[x]}

\* IntTryHandOff of message s to r.
HandOff(s, r) ==
  /\ fHaveValue' = [fHaveValue EXCEPT ![r] = TRUE]
  /\ fReceivedValue' = [fReceivedValue EXCEPT ![r] = s]
  /\ delivered' = Append(delivered, s)

-----------------------------------------------------------------------------
(* Send *)

\* TrySend and the first line of AddItem: both read fClosed without fLock and
\* raise the same exception, so the second read decides.
SendCheck(s) ==
  /\ pc[s] = "idle"
  /\ Begin(s)
  /\ pc' = [pc EXCEPT ![s] = IF fClosed THEN "raised" ELSE "add"]
  /\ UNCHANGED <<chanVars, msgVars, res, left, lClosed, hist>>

\* A receiver waits: the message is queued, handed to the first receiver and
\* removed again.  Both notifiers complete.
SendHandOff(s) ==
  /\ fWaiting # <<>>
  /\ LET r == Head(fWaiting)
         N == [fNotifier EXCEPT ![s] = TRUE]
     IN /\ HandOff(s, r)
        /\ Silence(fData, N)
        /\ Notify({s, r} \cup Released(fData, N))
        /\ pc' = PcAfter({r} \cup Released(fData, N), s, "sent")
  /\ fWaiting' = Tail(fWaiting)
  /\ UNCHANGED fData

\* Mutant: fWaiting is not searched.
SendQueue_noscan(s) ==
  /\ fData' = Append(fData, s)
  /\ fNotifier' = [fNotifier EXCEPT ![s] = TRUE]
  /\ LET fits == Len(fData) + 1 < fQueueSize
     IN pc' = [pc EXCEPT ![s] = IF fits THEN "sent" ELSE "check"]
  /\ UNCHANGED <<fWaiting, fReceivedValue, fHaveValue, delivered, lDone>>

\* Nobody waits: the message stays queued, and Send returns if it has a place
\* in the buffer.
SendQueue(s) ==
  /\ fWaiting = <<>>
  /\ fData' = Append(fData, s)
  /\ fNotifier' = [fNotifier EXCEPT ![s] = TRUE]
  /\ LET fits == Len(fData) + 1 < fQueueSize
     IN /\ Notify({x \in {s} : fits /\ EmptyLambda})
        /\ pc' = [pc EXCEPT ![s] = IF fits THEN "sent" ELSE "check"]
  /\ UNCHANGED <<fWaiting, fReceivedValue, fHaveValue, delivered>>

SendAdd(s) ==
  /\ pc[s] = "add" /\ CanLock(s)
  /\ entered' = Append(entered, s)
  /\ SendHandOff(s) \/ SendQueue(s)
  /\ UNCHANGED <<fClosed, fLock, res, left, lClosed, host>>

\* "if lDone then break", read without lLock.
SendDone(s) ==
  /\ pc[s] = "check"
  /\ pc' = [pc EXCEPT ![s] = IF lDone[s] THEN "sent" ELSE "towait"]
  /\ UNCHANGED <<chanVars, msgVars, res, left, lClosed, host, hist>>

\* Monitor.Wait(lLock), without looking at lDone again.
EnterWait(p) ==
  /\ pc[p] = "towait"
  /\ pc' = [pc EXCEPT ![p] = "wait"]
  /\ UNCHANGED <<chanVars, msgVars, res, left, lClosed, host, hist>>

-----------------------------------------------------------------------------
(* Receive *)

\* TryReceive returns nil on a closed channel and lRes.Start then raises; so
\* does AddItem.
ReceiveCheck(r) ==
  /\ pc[r] = "idle"
  /\ Begin(r)
  /\ pc' = [pc EXCEPT ![r] = IF fClosed THEN "raised" ELSE "add"]
  /\ UNCHANGED <<chanVars, msgVars, res, left, lClosed, hist>>

\* Mutant: the message stays in fData.
Take_keep(p, l) ==
  /\ UNCHANGED <<fData, fNotifier>>
  /\ Notify({x \in {p} : p \in Receivers} \cup Owner(Head(fData), fNotifier))
  /\ pc' = PcAfter(Owner(Head(fData), fNotifier), p, l)

\* Message.Receive of the first message, which RemoveItem takes off fData.
Take(p, l) ==
  LET s == Head(fData)
      rest == Tail(fData)
  IN /\ fData' = rest
     /\ Silence(rest, fNotifier)
     /\ Notify({x \in {p} : p \in Receivers} \cup Owner(s, fNotifier)
                 \cup Released(rest, fNotifier))
     /\ pc' = PcAfter(Owner(s, fNotifier) \cup Released(rest, fNotifier), p, l)

ReceiveTake(r) ==
  /\ fData # <<>>
  /\ HandOff(Head(fData), r)
  /\ Take(r, "check")
  /\ UNCHANGED fWaiting

\* Pulse(fLock) moves one waiting range, if there is one.
Pulsed == {g \in Rangers : pc[g] = "wait"}

ReceiveQueue(r) ==
  /\ fData = <<>>
  /\ fWaiting' = Append(fWaiting, r)
  /\ \/ /\ Pulsed = {}
        /\ pc' = [pc EXCEPT ![r] = "check"]
     \/ \E g \in Pulsed : pc' = [pc EXCEPT ![r] = "check", ![g] = "woken"]
  /\ UNCHANGED <<fData, msgVars, delivered>>

ReceiveAdd(r) ==
  /\ pc[r] = "add" /\ CanLock(r)
  /\ ReceiveTake(r) \/ ReceiveQueue(r)
  /\ UNCHANGED <<fClosed, fLock, res, left, lClosed, host, entered>>

\* Mutant: Receive reads its result without looking at lDone.
ReceiveDone_nocheck(r) ==
  /\ pc[r] = "check"
  /\ pc' = [pc EXCEPT ![r] = "value"]
  /\ UNCHANGED <<chanVars, msgVars, res, left, lClosed, host, hist>>

ReceiveDone(r) ==
  /\ pc[r] = "check"
  /\ pc' = [pc EXCEPT ![r] = IF lDone[r] THEN "value" ELSE "closed?"]
  /\ UNCHANGED <<chanVars, msgVars, res, left, lClosed, host, hist>>

\* "if fClosed <> 0 then exit (nil, false)": r stays in fWaiting.
ReceiveClosed(r) ==
  /\ pc[r] = "closed?"
  /\ pc' = [pc EXCEPT ![r] = IF fClosed THEN "returned" ELSE "towait"]
  /\ UNCHANGED <<chanVars, msgVars, res, left, lClosed, host, hist>>

\* "exit lRes.Data" reads the two fields one after the other, without a lock.
ReceiveValue(r) ==
  /\ pc[r] = "value"
  /\ resVal' = [resVal EXCEPT ![r] = fReceivedValue[r]]
  /\ pc' = [pc EXCEPT ![r] = "ok"]
  /\ UNCHANGED <<chanVars, msgVars, resOk, left, lClosed, host, hist>>

ReceiveOk(r) ==
  /\ pc[r] = "ok"
  /\ resOk' = [resOk EXCEPT ![r] = fHaveValue[r]]
  /\ pc' = [pc EXCEPT ![r] = "returned"]
  /\ UNCHANGED <<chanVars, msgVars, resVal, left, lClosed, host, hist>>

-----------------------------------------------------------------------------
(* GetSequence *)

\* Mutant: an empty closed channel is waited for.
RangeTop_noclosed(g) ==
  /\ pc[g] = "top" /\ fLock = None
  /\ \/ /\ fData = <<>>
        /\ pc' = [pc EXCEPT ![g] = "wait"]
        /\ UNCHANGED <<fLock, left>>
     \/ /\ fData # <<>>
        /\ fLock' = g
        /\ left' = [left EXCEPT ![g] = Len(fData)]
        /\ pc' = [pc EXCEPT ![g] = "loop"]
  /\ UNCHANGED <<fClosed, fData, fWaiting, msgVars, res, lClosed, host, hist>>

\* Mutant: the messages are counted and yielded outside fLock.
RangeTop_unlocked(g) ==
  /\ pc[g] = "top" /\ fLock = None
  /\ fData # <<>>
  /\ left' = [left EXCEPT ![g] = Len(fData)]
  /\ pc' = [pc EXCEPT ![g] = "loop"]
  /\ UNCHANGED <<fClosed, fData, fWaiting, fLock, msgVars, res, lClosed, host, hist>>

\* The top of the loop: end, wait, or go through what is queued now.
RangeTop(g) ==
  /\ pc[g] = "top" /\ fLock = None
  /\ \/ /\ fData = <<>>
        /\ pc' = [pc EXCEPT ![g] = IF fClosed THEN "ended" ELSE "wait"]
        /\ UNCHANGED <<fLock, left>>
     \/ /\ fData # <<>>
        /\ fLock' = g
        /\ left' = [left EXCEPT ![g] = Len(fData)]
        /\ pc' = [pc EXCEPT ![g] = "loop"]
  /\ UNCHANGED <<fClosed, fData, fWaiting, msgVars, res, lClosed, host, hist>>

\* Monitor.Wait returned: fLock is held again.
RangeWoken(g) ==
  /\ pc[g] = "woken" /\ fLock = None
  /\ fLock' = g
  /\ left' = [left EXCEPT ![g] = Len(fData)]
  /\ pc' = [pc EXCEPT ![g] = "loop"]
  /\ UNCHANGED <<fClosed, fData, fWaiting, msgVars, res, lClosed, host, hist>>

Looping(g) == pc[g] \in {"loop", "yield"}

\* The inner loop goes on once the loop body is through.
GoesOn(g) == Looping(g) /\ InBody(g) = {}

\* One iteration: take fData[0] and yield it with fLock still held.
RangeTake(g) ==
  /\ GoesOn(g) /\ left[g] > 0 /\ fData # <<>>
  /\ delivered' = Append(delivered, Head(fData))
  /\ Take(g, "yield")
  /\ left' = [left EXCEPT ![g] = @ - 1]
  /\ UNCHANGED <<fClosed, fWaiting, fLock, fReceivedValue, fHaveValue, res,
                 lClosed, host, entered>>

\* fData[0] is out of range: the exception unlocks fLock and ends the loop.
RangeRaises(g) ==
  /\ GoesOn(g) /\ left[g] > 0 /\ fData = <<>>
  /\ fLock' = None
  /\ pc' = [pc EXCEPT ![g] = "raised"]
  /\ UNCHANGED <<fClosed, fData, fWaiting, msgVars, res, left, lClosed, host, hist>>

RangeUnlock(g) ==
  /\ GoesOn(g) /\ left[g] = 0
  /\ fLock' = None
  /\ pc' = [pc EXCEPT ![g] = "top"]
  /\ UNCHANGED <<fClosed, fData, fWaiting, msgVars, res, left, lClosed, host, hist>>

\* The loop body leaves the range: disposing of the iterator unlocks fLock.
RangeBreak(g) ==
  /\ pc[g] = "yield" /\ InBody(g) = {}
  /\ fLock' = None
  /\ pc' = [pc EXCEPT ![g] = "ended"]
  /\ UNCHANGED <<fClosed, fData, fWaiting, msgVars, res, left, lClosed, host, hist>>

-----------------------------------------------------------------------------
(* Close *)

CloseRead(c) ==
  /\ pc[c] = "read"
  /\ Begin(c)
  /\ lClosed' = [lClosed EXCEPT ![c] = fClosed]
  /\ pc' = [pc EXCEPT ![c] = "write"]
  /\ UNCHANGED <<chanVars, msgVars, res, left, hist>>

CloseWrite(c) ==
  /\ pc[c] = "write"
  /\ fClosed' = TRUE
  /\ pc' = [pc EXCEPT ![c] = IF lClosed[c] THEN "ended" ELSE "notify"]
  /\ UNCHANGED <<fData, fWaiting, fLock, msgVars, res, left, lClosed, host, hist>>

\* Everybody queued is told, and stays queued.
Queued ==
  {s \in Senders : fNotifier[s] /\ \E i \in 1..Len(fData) : fData[i] = s}
    \cup {r \in Receivers : \E i \in 1..Len(fWaiting) : fWaiting[i] = r}

CloseNotify(c) ==
  /\ pc[c] = "notify" /\ CanLock(c)
  /\ Notify(Queued)
  /\ pc' = PcAfter(Queued, c, "ended")
  /\ UNCHANGED <<chanVars, fNotifier, fReceivedValue, fHaveValue, res, left,
                 lClosed, host, hist>>

-----------------------------------------------------------------------------
SendStep(s)    == SendCheck(s) \/ SendAdd(s) \/ SendDone(s) \/ EnterWait(s)
ReceiveStep(r) == \/ ReceiveCheck(r) \/ ReceiveAdd(r) \/ ReceiveDone(r)
                  \/ ReceiveClosed(r) \/ EnterWait(r)
                  \/ ReceiveValue(r) \/ ReceiveOk(r)
RangeStep(g)   == \/ RangeTop(g) \/ RangeWoken(g) \/ RangeTake(g)
                  \/ RangeRaises(g) \/ RangeUnlock(g)
CloseStep(c)   == CloseRead(c) \/ CloseWrite(c) \/ CloseNotify(c)

Next ==
  \/ \E s \in Senders : SendStep(s)
  \/ \E r \in Receivers : ReceiveStep(r)
  \/ \E g \in Rangers : RangeStep(g) \/ RangeBreak(g)
  \/ \E c \in Closers : CloseStep(c)

Spec == Init /\ [][Next]_vars

\* The scheduler runs every goroutine that can run, and loop bodies return
\* unless they sleep in a call on the channel itself.
\* Nothing makes a range leave its loop early.
Fairness ==
  /\ \A s \in Senders : WF_vars(SendStep(s))
  /\ \A r \in Receivers : WF_vars(ReceiveStep(r))
  /\ \A g \in Rangers : WF_vars(RangeStep(g))
  /\ \A c \in Closers : WF_vars(CloseStep(c))

FairSpec == Spec /\ Fairness

-----------------------------------------------------------------------------
(***************************************************************************)
(* FIFO and no loss inside the channel: what AddItem(Message) queued is,   *)
(* in order, what was handed over followed by what fData still holds, no   *)
(* matter which receivers, ranges and Closes ran in between.               *)
(***************************************************************************)
Fifo == entered = delivered \o fData

(***************************************************************************)
(* A message and a receiver are never both left queued: each AddItem looks *)
(* through the other list under the same fLock section that queues it, so  *)
(* a message cannot overtake the ones already queued.                      *)
(***************************************************************************)
NeverBothQueued == fData = <<>> \/ fWaiting = <<>>

(***************************************************************************)
(* Until the channel is closed, a Send that returned has had its message   *)
(* received or has it among the first Cap of fData.  With Cap = 0 this is  *)
(* the rendezvous that net/http/transport.go relies on for rc.ch.          *)
(***************************************************************************)
SendReturnsWithRoom ==
  ~fClosed => \A i \in 1..Len(fData) : i > Cap => pc[fData[i]] # "sent"

(***************************************************************************)
(* No message is handed to two Receives, and none that a Receive holds is  *)
(* still in fData: RemoveItem takes it off under fLock before another      *)
(* receiver or range can look.                                             *)
(***************************************************************************)
HandedOnce ==
  \A r \in Receivers : fHaveValue[r] =>
     /\ \A q \in Receivers \ {r} : fHaveValue[q] =>
          fReceivedValue[q] # fReceivedValue[r]
     /\ \A i \in 1..Len(fData) : fData[i] # fReceivedValue[r]

(***************************************************************************)
(* Data of a ReceiveMessage is read without a lock, field by field.  Until *)
(* the channel is closed, a Receive that returns reports the value it was  *)
(* handed, and ok.  At any time a value it reports is the one it was       *)
(* handed, and comes with ok.  Close is what breaks the rest: a Receive    *)
(* told by Close may be handed a value while it reads, and returns ok with *)
(* no value, or returned before and drops the value.                       *)
(***************************************************************************)
ReturnedValue ==
  \A r \in Receivers : pc[r] = "returned" =>
     /\ ~fClosed => resOk[r] /\ resVal[r] # None
     /\ resVal[r] # None => resOk[r] /\ resVal[r] = fReceivedValue[r]

\* What a caller expects after Close too, and does not get: ok comes with a
\* value.
OkWithValue ==
  \A r \in Receivers : pc[r] = "returned" /\ resOk[r] => resVal[r] # None

\* Likewise: a value that was taken off the channel for a Receive is reported.
HandedIsReported ==
  \A r \in Receivers : pc[r] = "returned" /\ fHaveValue[r] => resVal[r] = fReceivedValue[r]

(***************************************************************************)
(* GetSequence counts fData once, holds fLock through every yield and then *)
(* takes fData[0] that many times.  The count exceeds what is queued, and  *)
(* fData[0] fails, only when the loop body itself received from the        *)
(* channel: that goroutine, and no other, gets past fLock.                 *)
(***************************************************************************)
ReceivedInBody(g) == \E r \in Receivers : host[r] = g /\ fHaveValue[r]

RangeInBounds ==
  \A g \in Rangers :
    /\ Looping(g) => fLock = g /\ (left[g] <= Len(fData) \/ ReceivedInBody(g))
    /\ pc[g] = "raised" => ReceivedInBody(g)

\* What a loop body that receives makes untrue.
RangeNeverRaises == \A g \in Rangers : pc[g] # "raised"

\* A loop body sleeps in a call on the channel whose fLock it holds.
BodySleeps == \E g \in Rangers : \E p \in InBody(g) : pc[p] = "wait"

(***************************************************************************)
(* A Send that enters AddItem returns unless all places are taken when it  *)
(* comes, even while ranges hold fLock through their loop bodies and Close *)
(* runs: having to sleep, where a wake-up can be lost, takes a full buffer *)
(* or a loop body that sleeps in a call on its own channel.                *)
(***************************************************************************)
BeyondBuffer(s) == \E i \in 1..Len(fData) : i > Cap /\ fData[i] = s

BufferedSendReturns ==
  \A s \in Senders : (pc[s] = "add") ~> (pc[s] = "sent" \/ BeyondBuffer(s) \/ BodySleeps)

(***************************************************************************)
(* A range at the top of its loop after Close goes through what is left    *)
(* and ends, whatever late Sends still add and its loop body calls, unless *)
(* the body of another range sleeps in a call on the channel.              *)
(***************************************************************************)
RangeEndsAfterClose ==
  \A g \in Rangers : (fClosed /\ pc[g] = "top") ~> (pc[g] = "ended" \/ BodySleeps)

(***************************************************************************)
(* The run-time's channel implements a Go channel: every step of the calls *)
(* with their locks and notifiers is a step of Channel or changes nothing  *)
(* there.  A Receive's result is what its caller sees once it returned.    *)
(***************************************************************************)
Result(r) ==
  IF pc[r] = "returned" THEN <<IF resOk[r] THEN resVal[r] ELSE None>> ELSE <<>>

GoChannel == INSTANCE Channel WITH
  queue  <- fData,
  came   <- {s \in Senders : pc[s] \in {"check", "towait", "wait", "sent"}},
  sent   <- {s \in Senders : pc[s] = "sent"},
  got    <- fReceivedValue,
  result <- [r \in Receivers |-> Result(r)],
  closed <- fClosed

ImplementsChannel == GoChannel!Spec
=============================================================================
