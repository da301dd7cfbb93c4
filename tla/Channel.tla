------------------------------- MODULE Channel -------------------------------
(***************************************************************************)
(* What a Go channel promises to the calls made on it, with no word of     *)
(* locks, notifiers or sleeping: messages leave in the order they came, a  *)
(* Send returns once its message was taken or has one of Cap places, and a *)
(* Receive returns the message it took.  Close is where the promise of the *)
(* run-time library ends: from then on a call may return empty-handed.     *)
(***************************************************************************)
EXTENDS Naturals, Sequences

CONSTANTS Senders, Receivers, Cap, None

VARIABLES
  queue,   \* the messages in the channel
  came,    \* the Sends that brought their message
  sent,    \* the Sends that returned
  got,     \* per Receive: the message it took
  result,  \* per Receive that returned: <<its value>>, else <<>>
  closed

cvars == <<queue, came, sent, got, result, closed>>

Init ==
  /\ queue = <<>> /\ came = {} /\ sent = {} /\ closed = FALSE
  /\ got = [r \in Receivers |-> None]
  /\ result = [r \in Receivers |-> <<>>]

\* s comes; it returns at once if there is a place.
Put(s) ==
  /\ s \notin came
  /\ came' = came \cup {s}
  /\ queue' = Append(queue, s)
  /\ sent' = IF Len(queue) < Cap THEN sent \cup {s} ELSE sent
  /\ UNCHANGED <<got, result, closed>>

\* s meets a Receive that came first.
Pass(s, r) ==
  /\ s \notin came
  /\ came' = came \cup {s}
  /\ queue = <<>> /\ got[r] = None
  /\ got' = [got EXCEPT ![r] = s]
  /\ sent' = sent \cup {s}
  /\ UNCHANGED <<queue, result, closed>>

\* The first message is taken, by a Receive or by a range.
Take(r) ==
  /\ queue # <<>> /\ got[r] = None
  /\ got' = [got EXCEPT ![r] = Head(queue)]
  /\ queue' = Tail(queue)
  /\ UNCHANGED <<came, sent, result, closed>>

TakeByRange ==
  /\ queue # <<>>
  /\ queue' = Tail(queue)
  /\ UNCHANGED <<came, sent, got, result, closed>>

\* A blocked Send returns: its message has left the channel.
SendReturns(s) ==
  /\ s \in came
  /\ closed \/ \A i \in 1..Len(queue) : queue[i] # s
  /\ sent' = sent \cup {s}
  /\ UNCHANGED <<queue, came, got, result, closed>>

ReceiveReturns(r) ==
  /\ result[r] = <<>>
  /\ \E v \in {got[r]} \cup (IF closed THEN {None} ELSE {}) :
       /\ closed \/ v # None
       /\ result' = [result EXCEPT ![r] = <<v>>]
  /\ UNCHANGED <<queue, came, sent, got, closed>>

Close == closed' = TRUE /\ UNCHANGED <<queue, came, sent, got, result>>

Next ==
  \/ \E s \in Senders : \/ Put(s) \/ SendReturns(s)
                        \/ \E r \in Receivers : Pass(s, r)
  \/ \E r \in Receivers : Take(r) \/ ReceiveReturns(r)
  \/ TakeByRange \/ Close

Spec == Init /\ [][Next]_cvars
=============================================================================
