------------------------------- MODULE Pipeline -------------------------------
(***************************************************************************)
(* Pipeline of net/textproto (pipeline.go): clients take a number and go   *)
(* through two sequencers, "request" and "response", in the order of their *)
(* numbers.  A client that comes early waits on an unbuffered channel of   *)
(* its own, which the End before it sends to.                              *)
(*                                                                         *)
(* The channel is the one of Gold.Channels.Echoes.pas, with the steps in   *)
(* which Send and Receive go to sleep: the first of the two sides to come  *)
(* is queued, looks at lDone without a lock, and then calls Monitor.Wait;  *)
(* the second completes the exchange, sets the lDone of the first and      *)
(* pulses it.  The event numbers wrap around at Modulus.                   *)
(***************************************************************************)
EXTENDS Naturals, FiniteSets

CONSTANTS Clients, Modulus, None

ASSUME PipelineAssumption ==
  /\ IsFiniteSet(Clients) /\ None \notin Clients
  /\ Modulus \in Nat \ {0} /\ Cardinality(Clients) <= Modulus

Seqs == {"request", "response"}
Ids  == 0..Modulus - 1

VARIABLES
  nextId,    \* Pipeline.id
  seqId,     \* sequencer.id
  wait,      \* sequencer.wait: the client whose channel is there
  id, stage, \* per client: its number and the sequencer it is at
  pc,
  peer,      \* per client: whose channel its End sends to
  lDone      \* per client: of the Send or Receive it is in

vars == <<nextId, seqId, wait, id, stage, pc, peer, lDone>>

Receiving == {"recv", "queued", "checked", "asleep"}
Sending   == {"send", "squeued", "schecked", "sasleep"}

TypeOK ==
  /\ nextId \in Ids /\ seqId \in [Seqs -> Ids]
  /\ wait \in [Seqs -> [Ids -> Clients \cup {None}]]
  /\ id \in [Clients -> Ids] /\ stage \in [Clients -> Seqs]
  /\ pc \in [Clients -> {"idle", "start", "in", "panic"} \cup Receiving \cup Sending]
  /\ peer \in [Clients -> Clients \cup {None}]
  /\ lDone \in [Clients -> BOOLEAN]

Init ==
  /\ nextId = 0 /\ seqId = [s \in Seqs |-> 0]
  /\ wait = [s \in Seqs |-> [i \in Ids |-> None]]
  /\ id = [c \in Clients |-> 0] /\ stage = [c \in Clients |-> "request"]
  /\ pc = [c \in Clients |-> "idle"]
  /\ peer = [c \in Clients |-> None] /\ lDone = [c \in Clients |-> FALSE]

\* id++ on an unsigned integer.
Succ(i) == (i + 1) % Modulus

\* Pipeline.Next.
TakeNumber(c) ==
  /\ pc[c] = "idle"
  /\ id' = [id EXCEPT ![c] = nextId]
  /\ nextId' = Succ(nextId)
  /\ stage' = [stage EXCEPT ![c] = "request"]
  /\ pc' = [pc EXCEPT ![c] = "start"]
  /\ UNCHANGED <<seqId, wait, peer, lDone>>

\* s.id == id.
MyTurn(c) == seqId[stage[c]] = id[c]

\* sequencer.Start under s.mu.
Start(c) ==
  /\ pc[c] = "start"
  /\ lDone' = [lDone EXCEPT ![c] = FALSE]
  /\ \/ /\ MyTurn(c)
        /\ pc' = [pc EXCEPT ![c] = "in"]
        /\ UNCHANGED wait
     \/ /\ ~MyTurn(c)
        /\ wait' = [wait EXCEPT ![stage[c]][id[c]] = c]
        /\ pc' = [pc EXCEPT ![c] = "recv"]
  /\ UNCHANGED <<nextId, seqId, id, stage, peer>>

\* Where a client goes when End returned.
Onward(c) == IF stage[c] = "request" THEN "start" ELSE "idle"

Advance(c) == stage' = [stage EXCEPT ![c] = "response"]

\* Mutant: looks the ended event up, not the one after it.
NextWaiter_same(s, i) == wait[s][i]

\* c, ok := s.wait[id] after id++.
NextWaiter(s, i) == wait[s][Succ(i)]

\* sequencer.End under s.mu; the panic leaves s.mu locked.
End(c) ==
  LET s == stage[c]
      o == NextWaiter(s, id[c])
      inSync == seqId[s] = id[c]
  IN /\ pc[c] = "in"
     /\ seqId' = IF inSync THEN [seqId EXCEPT ![s] = Succ(id[c])] ELSE seqId
     /\ wait' = IF inSync THEN [wait EXCEPT ![s][Succ(id[c])] = None] ELSE wait
     /\ lDone' = [lDone EXCEPT ![c] = FALSE]
     /\ \/ /\ o = None
           /\ pc' = [pc EXCEPT ![c] = IF inSync THEN Onward(c) ELSE "panic"]
           /\ Advance(c)
           /\ UNCHANGED peer
        \/ /\ o # None
           /\ peer' = [peer EXCEPT ![c] = o]
           /\ pc' = [pc EXCEPT ![c] = IF inSync THEN "send" ELSE "panic"]
           /\ UNCHANGED stage
     /\ UNCHANGED <<nextId, id>>

-----------------------------------------------------------------------------
(* The channel.  lDone is set by the notifier; a sleeper is pulsed and looks *)
(* at lDone again. *)

\* Receive: AddItem meets a queued message, or is queued itself.
ReceiveAdd(c) ==
  LET sender == {e \in Clients : /\ peer[e] = c /\ ~lDone[e]
                                 /\ pc[e] \in Sending \ {"send"}}
  IN /\ pc[c] = "recv"
     /\ pc' = [e \in Clients |-> IF e = c THEN "queued"
                                 ELSE IF e \in sender /\ pc[e] = "sasleep" THEN "squeued"
                                 ELSE pc[e]]
     /\ lDone' = [e \in Clients |-> IF e = c THEN sender # {} ELSE lDone[e] \/ e \in sender]
     /\ UNCHANGED <<nextId, seqId, wait, id, stage, peer>>

ReceiveCheck(c) ==
  /\ pc[c] = "queued"
  /\ pc' = [pc EXCEPT ![c] = IF lDone[c] THEN "in" ELSE "checked"]
  /\ UNCHANGED <<nextId, seqId, wait, id, stage, peer, lDone>>

\* Send: AddItem meets a waiting receiver and returns, or is queued.
SendAdd(c) ==
  LET o == peer[c]
      there == pc[o] \in Receiving \ {"recv"} /\ ~lDone[o]
  IN /\ pc[c] = "send"
     /\ \/ /\ there
           /\ lDone' = [lDone EXCEPT ![c] = TRUE, ![o] = TRUE]
           /\ pc' = [pc EXCEPT ![c] = Onward(c), ![o] = IF @ = "asleep" THEN "queued" ELSE @]
           /\ Advance(c)
           /\ peer' = [peer EXCEPT ![c] = None]
        \/ /\ ~there
           /\ pc' = [pc EXCEPT ![c] = "squeued"]
           /\ UNCHANGED <<lDone, stage, peer>>
     /\ UNCHANGED <<nextId, seqId, wait, id>>

SendCheck(c) ==
  /\ pc[c] = "squeued"
  /\ \/ /\ lDone[c]
        /\ pc' = [pc EXCEPT ![c] = Onward(c)]
        /\ Advance(c)
        /\ peer' = [peer EXCEPT ![c] = None]
     \/ /\ ~lDone[c]
        /\ pc' = [pc EXCEPT ![c] = "schecked"]
        /\ UNCHANGED <<stage, peer>>
  /\ UNCHANGED <<nextId, seqId, wait, id, lDone>>

\* Monitor.Wait of either side, whatever happened since it looked at lDone.
Sleep(c) ==
  /\ pc[c] \in {"checked", "schecked"}
  /\ pc' = [pc EXCEPT ![c] = IF @ = "checked" THEN "asleep" ELSE "sasleep"]
  /\ UNCHANGED <<nextId, seqId, wait, id, stage, peer, lDone>>

Step(c) == \/ Start(c) \/ End(c) \/ ReceiveAdd(c) \/ ReceiveCheck(c)
           \/ SendAdd(c) \/ SendCheck(c) \/ Sleep(c)

Next == \E c \in Clients : TakeNumber(c) \/ Step(c)

Spec == Init /\ [][Next]_vars

\* Goroutines that can run do; nobody is made to begin.
FairSpec == Spec /\ \A c \in Clients : WF_vars(Step(c))

-----------------------------------------------------------------------------
(***************************************************************************)
(* A sequencer's events happen "in order, one after the other": the client *)
(* that is in an event is the only one, its number is the sequencer's, and *)
(* none has begun to respond before all earlier ones ended, for ever, as   *)
(* the numbers wrap around.                                                *)
(***************************************************************************)
InTurn ==
  \A c \in Clients : pc[c] = "in" =>
     /\ seqId[stage[c]] = id[c]
     /\ \A d \in Clients \ {c} : pc[d] = "in" => stage[d] # stage[c]

(***************************************************************************)
(* A client that waits in Start is not forgotten: its channel is in the map*)
(* for the End before it to find, or that End is about to send to it.      *)
(***************************************************************************)
NotForgotten ==
  \A c \in Clients : (pc[c] \in Receiving /\ ~lDone[c]) =>
     \/ wait[stage[c]][id[c]] = c
     \/ \E e \in Clients : peer[e] = c /\ pc[e] \in Sending

(***************************************************************************)
(* The sequencers' invariant: numbers stay numbers as they wrap around,    *)
(* events are in turn, and the End before a waiting event will find it.    *)
(***************************************************************************)
Inv == TypeOK /\ InTurn /\ NotForgotten

\* Somebody went to sleep after the notification for it.
Lost == \E c \in Clients : pc[c] \in {"asleep", "sasleep"} /\ lDone[c]

(***************************************************************************)
(* Every event begins, in requests and in responses, also when its client  *)
(* comes long before its turn, unless the channel loses a wakeup.          *)
(***************************************************************************)
EventsBegin ==
  \A c \in Clients : (pc[c] \in {"start"} \cup Receiving) ~> (pc[c] = "in" \/ Lost)

(***************************************************************************)
(* "Start waits until it is time for the event numbered id to begin. That  *)
(* is, except for the first event, it waits until End(id-1) has been       *)
(* called": a client whose channel End has sent to begins its event.       *)
(***************************************************************************)
StartReturns == \A c \in Clients : (pc[c] \in Receiving /\ lDone[c]) ~> (pc[c] = "in")
=============================================================================
