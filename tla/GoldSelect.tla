------------------------------ MODULE GoldSelect ------------------------------
(***************************************************************************)
(* Channel_Select of Gold.Channels.Echoes.pas over several channels, with  *)
(* the two kinds of lock it nests: lLock of a select, held while its cases *)
(* are started, and fLock of a channel.  A goroutine that adds an item     *)
(* holds fLock and calls the notifiers of the items it meets, which take   *)
(* the lLock of the select that owns them.                                 *)
(*                                                                         *)
(* A process runs one select or one plain Send or Receive (a plain process *)
(* has one case).  A handle <<p, i>> is the Message or ReceiveMessage of   *)
(* case i of p.  How a plain call sleeps on its own lLock, and GetSequence,*)
(* are the subject of GoldChannel; here a plain call just waits for lDone. *)
(***************************************************************************)
EXTENDS Naturals, Sequences, FiniteSets, SequencesExt

CONSTANTS Chans, Selects, Plain,
          Cases,     \* the cases of each process: a sequence of [ch, dir]
          Blocking,  \* the selects without a default case
          Closing,   \* the channels that are closed at some moment
          Cap,       \* the capacity of each channel
          None

Procs == Selects \cup Plain

ASSUME SelectAssumption ==
  /\ Blocking \subseteq Selects /\ Closing \subseteq Chans
  /\ Selects \cap Plain = {} /\ Procs \cap Chans = {} /\ None \notin Procs \cup Chans
  /\ Cases \in [Procs -> Seq([ch : Chans, dir : {"send", "recv"}])]
  /\ \A p \in Plain : Len(Cases[p]) = 1
  /\ \A c \in Chans : Cap[c] \in Nat

VARIABLES
  fClosed, fData, fWaiting,  \* per channel
  fLock,      \* per channel: the process in its section, the channel's own
              \* name when Close is in it, or None
  fNotifier,  \* the send handles whose notifier is not nil
  lLock,      \* per select: the holder of its lLock between steps
  lDone,      \* per process: 0, or the case that completed
  nilH,       \* per process: the cases whose handle is nil
  pc, idx,    \* where it is, and the case it is starting
  pos,        \* the item its AddItem looks at
  todo,       \* the cases it still has to Cancel
  ret,        \* the case it returns
  fired,      \* history: the cases of each process that exchanged a value
  closer      \* progress of Close on each channel

locks == <<fLock, lLock>>
vars  == <<fClosed, fData, fWaiting, fNotifier, locks, lDone, nilH, pc, idx, pos,
           todo, ret, fired, closer>>

Indices(p) == 1..Len(Cases[p])
Handles    == UNION {{<<p, i>> : i \in Indices(p)} : p \in Procs}
Ch(h)      == Cases[h[1]][h[2]].ch
Dir(h)     == Cases[h[1]][h[2]].dir

TypeOK ==
  /\ fClosed \in [Chans -> BOOLEAN]
  /\ fData \in [Chans -> Seq({h \in Handles : Dir(h) = "send"})]
  /\ fWaiting \in [Chans -> Seq({h \in Handles : Dir(h) = "recv"})]
  /\ fLock \in [Chans -> Procs \cup Chans \cup {None}]
  /\ fNotifier \subseteq Handles
  /\ lLock \in [Selects -> Selects \cup {None}]
  /\ \A f \in {lDone, ret} : f \in [Procs -> Nat] /\ \A p \in Procs : f[p] \in Indices(p) \cup {0}
  /\ \A f \in {nilH, todo, fired} :
       f \in [Procs -> SUBSET Nat] /\ \A p \in Procs : f[p] \subseteq Indices(p)
  /\ idx \in [Procs -> Nat] /\ \A p \in Procs : idx[p] \in 1..Len(Cases[p]) + 1
  /\ pos \in [Procs -> Nat \ {0}]
  /\ pc \in [Procs -> {"idle", "start", "enter", "scan", "wait", "cancel", "canceling",
                       "returned", "default", "raised"}]
  /\ closer \in [Chans -> {"none", "open", "enter", "notify", "closed"}]

Init ==
  /\ fClosed = [c \in Chans |-> FALSE]
  /\ fData = [c \in Chans |-> <<>>] /\ fWaiting = [c \in Chans |-> <<>>]
  /\ fLock = [c \in Chans |-> None] /\ lLock = [p \in Selects |-> None]
  /\ fNotifier = {}
  /\ lDone = [p \in Procs |-> 0] /\ ret = [p \in Procs |-> 0]
  /\ nilH = [p \in Procs |-> {}] /\ todo = [p \in Procs |-> {}]
  /\ fired = [p \in Procs |-> {}]
  /\ pc = [p \in Procs |-> "idle"]
  /\ idx = [p \in Procs |-> 1] /\ pos = [p \in Procs |-> 1]
  /\ closer = [c \in Chans |-> IF c \in Closing THEN "open" ELSE "none"]

-----------------------------------------------------------------------------
(* Notifiers. *)

\* The notifier of h takes the lLock of a select; a nil notifier takes none.
Live(h)       == Dir(h) = "recv" \/ h \in fNotifier
Guarded(h)    == Live(h) /\ h[1] \in Selects
CanLock(p, h) == Guarded(h) => lLock[h[1]] \in {None, p}

\* Mutant: the notifier does not look whether its select is already done.
Refuses_never(h) == FALSE

\* "if lDone <> -1 then exit false": the select has completed another case.
Refuses(h) == Guarded(h) /\ lDone[h[1]] # 0

\* The messages RemoveItem notifies and silences when q is what is left.
FrontOf(c, q) == {q[i] : i \in {j \in 1..Len(q) : j <= Cap[c] + 1}}

\* RemoveItem(Message) of channel c: h leaves fData, the messages in front are
\* notified (their selects' lLocks are needed for it) and silenced.
RemoveMessage(p, c, h) ==
  LET rest == RemoveFirst(fData[c], h)
  IN /\ \A g \in FrontOf(c, rest) : CanLock(p, g)
     /\ fData' = [fData EXCEPT ![c] = rest]
     /\ fNotifier' = fNotifier \ FrontOf(c, rest)

-----------------------------------------------------------------------------
(* Starting the cases. *)

\* The handles are made: TryReceive gives nil on a closed channel (a plain
\* Receive then fails on it), TrySend raises.  The select takes its lLock.
Begin(p) ==
  /\ pc[p] = "idle"
  /\ LET closed(d) == {i \in Indices(p) : Cases[p][i].dir = d /\ fClosed[Cases[p][i].ch]}
         fails == closed("send") # {} \/ (p \in Plain /\ closed("recv") # {})
     IN /\ nilH' = [nilH EXCEPT ![p] = closed("recv")]
        /\ pc' = [pc EXCEPT ![p] = IF fails THEN "raised" ELSE "start"]
        /\ lLock' = [q \in Selects |-> IF q = p /\ ~fails THEN p ELSE lLock[q]]
  /\ UNCHANGED <<fClosed, fData, fWaiting, fLock, fNotifier, lDone, idx, pos, todo, ret,
                 fired, closer>>

Unlocked(p) == [q \in Selects |-> IF q = p THEN None ELSE lLock[q]]

\* Message.Start and ReceiveMessage.Start up to the check of fClosed at the
\* top of AddItem, which raises without fLock.
StartCase(p) ==
  /\ pc[p] = "start" /\ idx[p] \in Indices(p) \ nilH[p]
  /\ LET closed == fClosed[Ch(<<p, idx[p]>>)]
     IN /\ pc' = [pc EXCEPT ![p] = IF closed THEN "raised" ELSE "enter"]
        /\ lLock' = IF closed THEN Unlocked(p) ELSE lLock
  /\ UNCHANGED <<fClosed, fData, fWaiting, fLock, fNotifier, lDone, nilH, idx, pos, todo,
                 ret, fired, closer>>

SkipNil(p) ==
  /\ pc[p] = "start" /\ idx[p] \in nilH[p]
  /\ idx' = [idx EXCEPT ![p] = @ + 1]
  /\ UNCHANGED <<fClosed, fData, fWaiting, locks, fNotifier, lDone, nilH, pc, pos, todo,
                 ret, fired, closer>>

\* AddItem: lock the channel and queue the item.
Enter(p) ==
  LET h == <<p, idx[p]>>
      c == Ch(h)
  IN /\ pc[p] = "enter" /\ fLock[c] = None
     /\ fLock' = [fLock EXCEPT ![c] = p]
     /\ \/ /\ Dir(h) = "send"
           /\ fData' = [fData EXCEPT ![c] = Append(@, h)]
           /\ fNotifier' = fNotifier \cup {h}
           /\ UNCHANGED fWaiting
        \/ /\ Dir(h) = "recv"
           /\ fWaiting' = [fWaiting EXCEPT ![c] = Append(@, h)]
           /\ UNCHANGED <<fData, fNotifier>>
     /\ pc' = [pc EXCEPT ![p] = "scan"]
     /\ pos' = [pos EXCEPT ![p] = 1]
     /\ UNCHANGED <<fClosed, lLock, lDone, nilH, idx, todo, ret, fired, closer>>

\* What AddItem searches: messages for a receiver, receivers for a message.
Partners(h) == IF Dir(h) = "recv" THEN fData[Ch(h)] ELSE fWaiting[Ch(h)]

\* Start returned true: a select cancels the cases before this one, with its
\* lLock still held; a plain call returns.
StartTrue(p) ==
  /\ ret' = [ret EXCEPT ![p] = idx[p]]
  /\ pc' = [pc EXCEPT ![p] = IF p \in Plain THEN "returned" ELSE "cancel"]
  /\ todo' = [todo EXCEPT ![p] = {j \in Indices(p) \ nilH[p] : j < idx[p]}]
  /\ UNCHANGED idx

\* Start returned false: on to the next case, or to waiting.
StartFalse(p) ==
  /\ idx' = [idx EXCEPT ![p] = @ + 1]
  /\ pc' = [pc EXCEPT ![p] = IF p \in Plain THEN "wait" ELSE "start"]
  /\ UNCHANGED <<ret, todo>>

Release(c) == fLock' = [fLock EXCEPT ![c] = None]

\* The item looked at refuses: try the next one.
ScanRefused(p) ==
  LET h == <<p, idx[p]>>
  IN /\ pc[p] = "scan" /\ pos[p] <= Len(Partners(h))
     /\ CanLock(p, Partners(h)[pos[p]]) /\ Refuses(Partners(h)[pos[p]])
     /\ pos' = [pos EXCEPT ![p] = @ + 1]
     /\ UNCHANGED <<fClosed, fData, fWaiting, locks, fNotifier, lDone, nilH, pc, idx,
                    todo, ret, fired, closer>>

\* The item looked at accepts: message and receiver leave their queues, and
\* the notifiers that are not nil record the completed case.
ScanExchange(p) ==
  LET h == <<p, idx[p]>>
      c == Ch(h)
      g == Partners(h)[pos[p]]
      snd == IF Dir(h) = "send" THEN h ELSE g
      rcv == IF Dir(h) = "send" THEN g ELSE h
  IN /\ pc[p] = "scan" /\ pos[p] <= Len(Partners(h))
     /\ CanLock(p, g) /\ ~Refuses(g)
     /\ RemoveMessage(p, c, snd)
     /\ fWaiting' = [fWaiting EXCEPT ![c] = RemoveFirst(@, rcv)]
     /\ lDone' = [lDone EXCEPT ![rcv[1]] = rcv[2],
                               ![snd[1]] = IF Live(snd) THEN snd[2] ELSE @]
     /\ fired' = [fired EXCEPT ![rcv[1]] = @ \cup {rcv[2]}, ![snd[1]] = @ \cup {snd[2]}]
     /\ Release(c)
     /\ StartTrue(p)
     /\ UNCHANGED <<fClosed, lLock, nilH, pos, closer>>

\* Nobody took the item.  A message with a place in the buffer completes Start
\* without touching lDone; anything else stays queued.
ScanEnd(p) ==
  LET h == <<p, idx[p]>>
      c == Ch(h)
      fits == Dir(h) = "send" /\ Len(fData[c]) < Cap[c] + 1
  IN /\ pc[p] = "scan" /\ pos[p] > Len(Partners(h))
     /\ Release(c)
     /\ (fits /\ StartTrue(p)) \/ (~fits /\ StartFalse(p))
     /\ UNCHANGED <<fClosed, fData, fWaiting, fNotifier, lLock, lDone, nilH, pos, fired,
                    closer>>

-----------------------------------------------------------------------------
(* After the cases are started. *)

\* RandNumber.Random picks any case.
Random(n) == 1..n

AllNil(p) == nilH[p] = Indices(p)

\* A non-blocking select gives up; one with only nil handles picks any case;
\* the others wait.  No handle is cancelled here.
AllStarted(p) ==
  /\ pc[p] = "start" /\ idx[p] > Len(Cases[p])
  /\ lLock' = Unlocked(p)
  /\ \/ /\ p \notin Blocking
        /\ pc' = [pc EXCEPT ![p] = "default"]
        /\ UNCHANGED ret
     \/ /\ p \in Blocking /\ AllNil(p)
        /\ \E i \in Random(Len(Cases[p])) : ret' = [ret EXCEPT ![p] = i]
        /\ pc' = [pc EXCEPT ![p] = "returned"]
     \/ /\ p \in Blocking /\ ~AllNil(p)
        /\ pc' = [pc EXCEPT ![p] = "wait"]
        /\ UNCHANGED ret
  /\ UNCHANGED <<fClosed, fData, fWaiting, fLock, fNotifier, lDone, nilH, idx, pos, todo,
                 fired, closer>>

\* Mutant: the first case counts as "not done yet".
Wake_first(p) ==
  /\ pc[p] = "wait" /\ lDone[p] > 1
  /\ ret' = [ret EXCEPT ![p] = lDone[p]]
  /\ pc' = [pc EXCEPT ![p] = IF p \in Plain THEN "returned" ELSE "cancel"]
  /\ todo' = [todo EXCEPT ![p] = Indices(p) \ (nilH[p] \cup {lDone[p]})]
  /\ UNCHANGED <<fClosed, fData, fWaiting, locks, fNotifier, lDone, nilH, idx, pos, fired,
                 closer>>

\* Mutant: only the cases before the completed one are cancelled.
Wake_previous(p) ==
  /\ pc[p] = "wait" /\ lDone[p] # 0
  /\ ret' = [ret EXCEPT ![p] = lDone[p]]
  /\ pc' = [pc EXCEPT ![p] = IF p \in Plain THEN "returned" ELSE "cancel"]
  /\ todo' = [todo EXCEPT ![p] = {j \in Indices(p) \ nilH[p] : j < lDone[p]}]
  /\ UNCHANGED <<fClosed, fData, fWaiting, locks, fNotifier, lDone, nilH, idx, pos, fired,
                 closer>>

\* lDone is looked at under lLock, so a wake-up is not lost.
Wake(p) ==
  /\ pc[p] = "wait" /\ lDone[p] # 0
  /\ ret' = [ret EXCEPT ![p] = lDone[p]]
  /\ pc' = [pc EXCEPT ![p] = IF p \in Plain THEN "returned" ELSE "cancel"]
  /\ todo' = [todo EXCEPT ![p] = Indices(p) \ (nilH[p] \cup {lDone[p]})]
  /\ UNCHANGED <<fClosed, fData, fWaiting, locks, fNotifier, lDone, nilH, idx, pos, fired,
                 closer>>

NextCancel(p) == Min(todo[p])

\* Cancel of the next handle: lock its channel, then remove it if it is there.
CancelEnter(p) ==
  LET c == Ch(<<p, NextCancel(p)>>)
  IN /\ pc[p] = "cancel" /\ todo[p] # {} /\ fLock[c] = None
     /\ fLock' = [fLock EXCEPT ![c] = p]
     /\ pc' = [pc EXCEPT ![p] = "canceling"]
     /\ UNCHANGED <<fClosed, fData, fWaiting, fNotifier, lLock, lDone, nilH, idx, pos,
                    todo, ret, fired, closer>>

CancelRemove(p) ==
  LET h == <<p, NextCancel(p)>>
      c == Ch(h)
  IN /\ pc[p] = "canceling"
     /\ \/ /\ h \in ToSet(fData[c])
           /\ RemoveMessage(p, c, h)
           /\ UNCHANGED fWaiting
        \/ /\ h \notin ToSet(fData[c])
           /\ fWaiting' = [fWaiting EXCEPT ![c] = RemoveFirst(@, h)]
           /\ UNCHANGED <<fData, fNotifier>>
     /\ Release(c)
     /\ todo' = [todo EXCEPT ![p] = @ \ {h[2]}]
     /\ pc' = [pc EXCEPT ![p] = "cancel"]
     /\ UNCHANGED <<fClosed, lLock, lDone, nilH, idx, pos, ret, fired, closer>>

CancelEnd(p) ==
  /\ pc[p] = "cancel" /\ todo[p] = {}
  /\ lLock' = Unlocked(p)
  /\ pc' = [pc EXCEPT ![p] = "returned"]
  /\ UNCHANGED <<fClosed, fData, fWaiting, fLock, fNotifier, lDone, nilH, idx, pos, todo,
                 ret, fired, closer>>

-----------------------------------------------------------------------------
(* Close of channel c, called once. *)

CloseWrite(c) ==
  /\ closer[c] = "open"
  /\ fClosed' = [fClosed EXCEPT ![c] = TRUE]
  /\ closer' = [closer EXCEPT ![c] = "enter"]
  /\ UNCHANGED <<fData, fWaiting, locks, fNotifier, lDone, nilH, pc, idx, pos, todo, ret,
                 fired>>

CloseEnter(c) ==
  /\ closer[c] = "enter" /\ fLock[c] = None
  /\ fLock' = [fLock EXCEPT ![c] = c]
  /\ closer' = [closer EXCEPT ![c] = "notify"]
  /\ UNCHANGED <<fClosed, fData, fWaiting, lLock, fNotifier, lDone, nilH, pc, idx, pos,
                 todo, ret, fired>>

\* What Close meets in c, in its order, and where it meets a handle of p with a
\* notifier.
Met(c)       == fData[c] \o fWaiting[c]
Queued(c, p) == {i \in 1..Len(Met(c)) : Met(c)[i][1] = p /\ Live(Met(c)[i])}

CloseNotify(c) ==
  /\ closer[c] = "notify"
  /\ \A i \in 1..Len(Met(c)) : CanLock(c, Met(c)[i])
  /\ lDone' = [p \in Procs |-> IF lDone[p] = 0 /\ Queued(c, p) # {}
                               THEN Met(c)[Min(Queued(c, p))][2] ELSE lDone[p]]
  /\ Release(c)
  /\ closer' = [closer EXCEPT ![c] = "closed"]
  /\ UNCHANGED <<fClosed, fData, fWaiting, lLock, fNotifier, nilH, pc, idx, pos, todo,
                 ret, fired>>

-----------------------------------------------------------------------------
Step(p) ==
  \/ Begin(p) \/ StartCase(p) \/ SkipNil(p) \/ Enter(p)
  \/ ScanRefused(p) \/ ScanExchange(p) \/ ScanEnd(p)
  \/ AllStarted(p) \/ Wake(p) \/ CancelEnter(p) \/ CancelRemove(p) \/ CancelEnd(p)

CloseStep(c) == CloseWrite(c) \/ CloseEnter(c) \/ CloseNotify(c)

Next == (\E p \in Procs : Step(p)) \/ (\E c \in Chans : CloseStep(c))

Spec == Init /\ [][Next]_vars

\* The scheduler runs every goroutine that can run; nobody is made to close.
Fairness == /\ \A p \in Procs : WF_vars(Step(p))
            /\ \A c \in Chans : WF_vars(CloseEnter(c) \/ CloseNotify(c))

FairSpec == Spec /\ Fairness

-----------------------------------------------------------------------------
OnlyReceives(p) == \A i \in Indices(p) : Cases[p][i].dir = "recv"

(***************************************************************************)
(* A select of receives takes one value at most, and the one it takes is   *)
(* that of the case it returns: while it is between two of its steps,      *)
(* other goroutines may meet any of its handles, and lDone makes all but   *)
(* one refuse.                                                             *)
(***************************************************************************)
TakesWhatItReturns ==
  \A p \in Blocking : OnlyReceives(p) =>
     /\ Cardinality(fired[p]) <= 1
     /\ pc[p] = "returned" => fired[p] \subseteq {ret[p]}

(***************************************************************************)
(* A blocking select that returned left no other handle in any channel:    *)
(* whatever happened while it cancelled them, Cancel removed each one.     *)
(***************************************************************************)
NothingLeftBehind ==
  \A p \in Blocking : pc[p] = "returned" =>
     \A i \in Indices(p) \ {ret[p]} :
        LET c == Ch(<<p, i>>) IN <<p, i>> \notin ToSet(fData[c]) \cup ToSet(fWaiting[c])

(***************************************************************************)
(* Types, and what a select leaves in its channels: the state Cancel and   *)
(* the notifiers of all selects rely on.                                   *)
(***************************************************************************)
Inv == TypeOK /\ NothingLeftBehind

(***************************************************************************)
(* The comment of sendTime in time/sleep.go on its select with a default   *)
(* case: the send is non-blocking and "dropping sends on the floor is the  *)
(* desired behavior".  A select that took its default case sends nothing,  *)
(* then or later.                                                          *)
(***************************************************************************)
DefaultDropsTheSend ==
  \A p \in Selects \ Blocking : pc[p] = "default" => fired[p] = {}

(***************************************************************************)
(* The comment in Channel_Select: when Start returns true "we can return   *)
(* that one and cancel the previous ones".  A select that has a completed  *)
(* case returns.                                                           *)
(***************************************************************************)
CompletedSelectReturns ==
  \A p \in Selects : (pc[p] = "cancel") ~> (pc[p] = "returned")

(***************************************************************************)
(* A select that waits and is told of a completed case, by a partner or by *)
(* Close, returns.                                                         *)
(***************************************************************************)
ToldSelectReturns ==
  \A p \in Selects : (pc[p] = "wait" /\ lDone[p] # 0) ~> (pc[p] = "returned")
=============================================================================
