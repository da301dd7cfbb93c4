----------------------------- MODULE MCGoldSelect -----------------------------
(* Scenarios of GoldSelect for TLC: which cases each process has. *)
EXTENDS GoldSelect, TLC

CONSTANTS a, b, s1, s2, s3, p1, p2, p3

Snd(c) == [ch |-> c, dir |-> "send"]
Rcv(c) == [ch |-> c, dir |-> "recv"]

\* A select that sends to a or receives from b, against a select that
\* receives from either, one that polls a, and a plain call on each channel.
CasesMixed ==
  s1 :> <<Snd(a), Rcv(b)>> @@ s2 :> <<Rcv(a), Rcv(b)>> @@ s3 :> <<Rcv(a)>>
    @@ p1 :> <<Snd(b)>> @@ p2 :> <<Rcv(a)>>

\* One select over two channels, and three senders.
CasesOne ==
  s1 :> <<Rcv(a), Rcv(b)>>
    @@ p1 :> <<Snd(a)>> @@ p2 :> <<Snd(b)>> @@ p3 :> <<Snd(a)>>

\* sendTime: two non-blocking sends and a reader.
CasesTick ==
  s1 :> <<Snd(a)>> @@ s2 :> <<Snd(a)>> @@ p1 :> <<Rcv(a)>> @@ p2 :> <<Rcv(a)>>

Unbuffered == [c \in Chans |-> 0]
OnePlace   == [c \in Chans |-> 1]
OnlyB      == [c \in Chans |-> IF c = b THEN 1 ELSE 0]
=============================================================================
