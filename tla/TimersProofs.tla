----------------------------- MODULE TimersProofs -----------------------------
(***************************************************************************)
(* What a program may rely on of Timer and Ticker, for any timers,         *)
(* durations and clock: what the answer of Stop is worth on a timer that   *)
(* was not Reset, and that no timer elapses a millisecond or more early.   *)
(* The argument: the platform timer runs only for a started timer, with    *)
(* one handler for each start (StartInv); until it elapses, f was not      *)
(* called, and it is disabled by elapsing or by a Stop only (FirstInv);    *)
(* `when' is the time asked for, as far as an Int64 can hold it, or        *)
(* MaxInt64 (WhenInv); and the platform timer is armed for that time,      *)
(* rounded down to a millisecond (DueInv).                                 *)
(***************************************************************************)
EXTENDS Timers, TLAPS

Running == {"started", "stop", "reset", "resetstop"}

\* A platform timer runs for a started timer; every start added a handler.
StartInv ==
  \A t \in Timers :
    /\ Enabled[t] => pc[t] \in Running
    /\ pc[t] \in Running => starts[t] > 0
    /\ pc[t] = "none" => starts[t] = 0
    /\ pc[t] \in {"starting", "reset", "resetstop"} => starts[t] < MaxStarts
    /\ Elapsed[t] = starts[t]

\* Until the first start elapses f is not called; a timer that a Stop saw run
\* and that does not run any more elapsed since.
FirstInv ==
  \A t \in Timers :
    /\ starts[t] = 0 => ran[t] + calls[t] = 0 /\ ~stopped[t]
    /\ starts[t] = 1 /\ Enabled[t] => ran[t] + calls[t] = 0 /\ ~stopped[t]
    /\ starts[t] = 1 /\ pc[t] = "stop" => Enabled[t] \/ (raced[t] /\ ran[t] + calls[t] = 1)

\* a is a time the program can have asked for, and n the Int64 it made of it.
Stands(n, a) ==
  /\ MinTime <= a /\ a <= now + MaxInt64
  /\ n = MaxInt64 \/ n = Wrap(a)

WhenInv ==
  \A t \in Timers : /\ pc[t] # "none" => Stands(when[t], asked[t]) \/ pc[t] = "failed"
                    /\ pc[t] \in {"reset", "resetstop"} => Stands(w[t].when, w[t].asked)

\* A timer that runs is due less than a millisecond before the time asked for.
DueInv ==
  \A t \in Timers : Enabled[t] => due[t] > asked[t] - Milli \/ when[t] = MaxInt64

\* The inductive invariant.
IInv == Inv /\ StartInv /\ FirstInv /\ WhenInv /\ DueInv

(***************************************************************************)
(* Rounding down to a millisecond loses less than one.                     *)
(***************************************************************************)
LEMMA RoundDown ==
  ASSUME NEW n \in Nat, NEW u \in Nat \ {0}
  PROVE  /\ n \div u \in Nat /\ n \div u <= n
         /\ (n \div u) * u <= n /\ n < (n \div u) * u + u
<1>1. n \div u \in Int /\ n % u \in 0..(u - 1) /\ n = u * (n \div u) + (n % u)
  OBVIOUS
<1>2. n \div u >= 0
  BY <1>1
<1>3. n \div u <= n
  BY <1>1, <1>2
<1> QED BY <1>1, <1>2, <1>3

(***************************************************************************)
(* The clock and a time asked for differ by an Int64, and the difference   *)
(* of what an Int64 holds of them is that difference, wherever the clock   *)
(* wrapped.                                                                *)
(***************************************************************************)
LEMMA WrapDifference ==
  ASSUME NEW a \in Int, NEW n \in MinTime..MaxTime, MinTime <= a, a <= n + MaxInt64
  PROVE  Wrap(Wrap(a) - Wrap(n)) = a - n
BY TimersAssumption DEF Wrap

(***************************************************************************)
(* An interval the platform accepts is never over a millisecond before the *)
(* time asked for, unless when() could not express that time.              *)
(***************************************************************************)
LEMMA IntervalOK ==
  ASSUME TypeOK, NEW t \in Timers, Stands(when[t], asked[t]),
         NewInterval(t) \in 1..MaxInt32
  PROVE  now + NewInterval(t) * Milli > asked[t] - Milli \/ when[t] = MaxInt64
<1> USE TimersAssumption
<1>1. now \in MinTime..MaxTime /\ now \in Int /\ asked[t] \in Int
  BY DEF TypeOK
<1> SUFFICES ASSUME when[t] = Wrap(asked[t])
             PROVE  now + NewInterval(t) * Milli > asked[t] - Milli
  BY DEF Stands
<1> DEFINE e == asked[t] - now
<1>2. Wrap(when[t] - runtimeNano) = e
  BY <1>1, WrapDifference DEF Stands, runtimeNano
<1>3. e \in Int /\ now + e = asked[t]
  BY <1>1
<1>4. NewInterval(t) = IF ToMillis(e) < 0 THEN MaxInt32 ELSE ToMillis(e)
  BY <1>2 DEF NewInterval
<1> HIDE DEF e
<1>5. NewInterval(t) \in Nat /\ NewInterval(t) * Milli \in Nat
  <2>1. NewInterval(t) \in Nat
    BY <1>1
  <2> QED BY <2>1
<1>6. CASE e < 0
  BY <1>1, <1>3, <1>5, <1>6
<1>7. CASE e >= 0
  <2>1. e \in Nat
    BY <1>3, <1>7
  <2>2. e \div Milli \in Nat /\ e < (e \div Milli) * Milli + Milli
    BY <2>1, RoundDown
  <2>3. NewInterval(t) = e \div Milli
    BY <1>4, <1>7, <2>1, <2>2 DEF ToMillis
  <2> QED BY <1>1, <1>3, <1>5, <2>2, <2>3
<1> QED BY <1>3, <1>6, <1>7

(***************************************************************************)
(* What when() computes is an Int64 that stands for the time meant.        *)
(***************************************************************************)
LEMMA WhenOK ==
  ASSUME TypeOK, NEW d \in Durations
  PROVE  When(d) \in Int64 /\ Asked(d) \in Int /\ Stands(When(d), Asked(d))
<1> USE TimersAssumption
<1>1. d \in Int /\ d <= MaxInt64 /\ now \in Int /\ MinTime <= now /\ now <= MaxTime
  BY DEF TypeOK
<1>2. runtimeNano \in Int64
  BY <1>1 DEF runtimeNano, Wrap, Int64
<1>3. CASE d <= 0
  BY <1>1, <1>2, <1>3 DEF When, Asked, Stands, runtimeNano
<1>4. CASE d > 0
  <2> DEFINE s == Wrap(runtimeNano + d)
  <2>1. s \in Int64
    BY <1>1, <1>2, <1>4 DEF Wrap, Int64
  <2>2. s >= 0 => s = Wrap(now + d)
    BY <1>1, <1>4 DEF Wrap, runtimeNano
  <2>3. When(d) = (IF s < 0 THEN MaxInt64 ELSE s) /\ Asked(d) = now + d
    BY <1>1, <1>4 DEF When, Asked
  <2> HIDE DEF s
  <2> QED BY <1>1, <1>4, <2>1, <2>2, <2>3 DEF Stands, Int64
<1> QED BY <1>1, <1>3, <1>4

(***************************************************************************)
(* Initially no timer was made.                                            *)
(***************************************************************************)
LEMMA InitIInv == Init => IInv
<1> USE TimersAssumption
<1> SUFFICES ASSUME Init PROVE IInv
  OBVIOUS
<1>1. TypeOK
  <2>1. /\ Enabled \in [Timers -> BOOLEAN] /\ stopped \in [Timers -> BOOLEAN]
        /\ raced \in [Timers -> BOOLEAN]
    BY DEF Init
  <2>2. 0 \in Int64 /\ MinTime \in Int /\ MinTime \in MinTime..MaxTime
    BY DEF Int64
  <2>3. /\ when \in [Timers -> Int64] /\ asked \in [Timers -> Int]
        /\ w \in [Timers -> [when : Int64, asked : Int]]
    BY <2>2 DEF Init
  <2> QED BY <2>1, <2>2, <2>3 DEF Init, TypeOK
<1>2. StopIsRight /\ FirstInv
  BY DEF Init, StopIsRight, FirstInv
<1>3. StartInv /\ DueInv /\ WhenInv
  BY DEF Init, StartInv, DueInv, WhenInv, Running
<1> QED BY <1>1, <1>2, <1>3 DEF IInv, Inv

(***************************************************************************)
(* New sets `when' of a timer that does not run.                           *)
(***************************************************************************)
LEMMA NewKeeps ==
  ASSUME IInv, NEW t \in Timers, NEW k \in Kinds, NEW d \in Durations, New(t, k, d)
  PROVE  IInv'
<1> USE TimersAssumption DEF IInv, Inv, plat, history, answers
<1>1. /\ pc[t] = "none" /\ ~Enabled[t] /\ starts[t] = 0
      /\ kind' = [kind EXCEPT ![t] = k]
      /\ UNCHANGED <<now, w, Enabled, Interval, due, Elapsed, calls, ran, queued, starts,
                     stopped, raced>>
  BY DEF New, StartInv, Running, whens
<1>2. \/ /\ pc' = [pc EXCEPT ![t] = "failed"] /\ when' = when /\ asked' = asked
      \/ /\ pc' = [pc EXCEPT ![t] = "starting"] /\ when' = [when EXCEPT ![t] = When(d)]
         /\ asked' = [asked EXCEPT ![t] = Asked(d)]
  BY DEF New, whens
<1>3. When(d) \in Int64 /\ Asked(d) \in Int /\ Stands(When(d), Asked(d))
  BY WhenOK
<1>4. /\ when' \in [Timers -> Int64] /\ asked' \in [Timers -> Int]
      /\ \A u \in Timers \ {t} : when'[u] = when[u] /\ asked'[u] = asked[u] /\ pc'[u] = pc[u]
      /\ pc'[t] = "failed" \/ (pc'[t] = "starting" /\ when'[t] = When(d) /\ asked'[t] = Asked(d))
  BY <1>2, <1>3 DEF TypeOK
<1>5. TypeOK'
  <2>1. kind' \in [Timers -> {"none", "timer", "func", "ticker"}]
    BY <1>1 DEF TypeOK
  <2>2. pc' \in [Timers -> {"none", "starting", "started", "stop", "reset", "resetstop",
                            "failed"}]
    BY <1>2 DEF TypeOK
  <2> QED BY <1>1, <1>4, <2>1, <2>2 DEF TypeOK
<1>6. StopIsRight' /\ FirstInv'
  BY <1>1, <1>4 DEF StopIsRight, FirstInv
<1>7. StartInv'
  BY <1>1, <1>4 DEF StartInv, Running
<1>8. WhenInv'
  BY <1>1, <1>3, <1>4 DEF WhenInv, Stands
<1>9. DueInv'
  BY <1>1, <1>4 DEF DueInv
<1> QED BY <1>5, <1>6, <1>7, <1>8, <1>9

(***************************************************************************)
(* Stop and Reset up to stopTimer's read of Enabled.                       *)
(***************************************************************************)
LEMMA ReadKeeps ==
  ASSUME IInv, NEW t \in Timers,
         \/ Stop(t)
         \/ ResetReads(t) /\ Enabled[t]
         \/ \E d \in Durations : Reset(t, d)
  PROVE  IInv'
<1> USE TimersAssumption DEF IInv, Inv, plat, history, answers
<1>1. UNCHANGED <<now, kind, when, asked, Enabled, Interval, due, Elapsed, calls, ran, queued,
                  starts, stopped, raced>>
  BY DEF Stop, Reset, ResetReads, whens
<1>2. \/ /\ pc' = [pc EXCEPT ![t] = "stop"] /\ w' = w /\ pc[t] = "started" /\ Enabled[t]
      \/ /\ pc' = [pc EXCEPT ![t] = "resetstop"] /\ w' = w /\ pc[t] = "reset"
      \/ /\ pc' = [pc EXCEPT ![t] = "reset"] /\ pc[t] = "started" /\ starts[t] < MaxStarts
         /\ \E d \in Durations : w' = [w EXCEPT ![t] = [when |-> When(d), asked |-> Asked(d)]]
  BY DEF Stop, Reset, ResetReads, whens
<1>3. \A d \in Durations :
        When(d) \in Int64 /\ Asked(d) \in Int /\ Stands(When(d), Asked(d))
  BY WhenOK
<1>4. /\ w' \in [Timers -> [when : Int64, asked : Int]]
      /\ \A u \in Timers \ {t} : w'[u] = w[u] /\ pc'[u] = pc[u]
      /\ pc'[t] \in {"stop", "resetstop", "reset"}
      /\ pc'[t] = "reset" => starts[t] < MaxStarts /\ Stands(w'[t].when, w'[t].asked)
      /\ pc'[t] = "resetstop" => pc[t] = "reset" /\ w'[t] = w[t]
      /\ pc'[t] = "stop" => Enabled[t]
      /\ pc[t] \in Running
  <2>1. /\ w \in [Timers -> [when : Int64, asked : Int]]
        /\ pc \in [Timers -> {"none", "starting", "started", "stop", "reset", "resetstop",
                              "failed"}]
    BY DEF TypeOK
  <2>2. CASE w' = w /\ pc' = [pc EXCEPT ![t] = "stop"] /\ pc[t] = "started" /\ Enabled[t]
    BY <2>1, <2>2 DEF Running
  <2>3. CASE w' = w /\ pc' = [pc EXCEPT ![t] = "resetstop"] /\ pc[t] = "reset"
    BY <2>1, <2>3 DEF Running
  <2>4. ASSUME NEW d \in Durations, pc' = [pc EXCEPT ![t] = "reset"], pc[t] = "started",
               starts[t] < MaxStarts,
               w' = [w EXCEPT ![t] = [when |-> When(d), asked |-> Asked(d)]]
        PROVE  <1>4!:
    <3>1. When(d) \in Int64 /\ Asked(d) \in Int /\ Stands(When(d), Asked(d))
      BY <1>3
    <3>2. w'[t].when = When(d) /\ w'[t].asked = Asked(d)
      BY <2>1, <2>4
    <3>3. w' \in [Timers -> [when : Int64, asked : Int]]
      BY <2>1, <2>4, <3>1
    <3> QED BY <2>1, <2>4, <3>1, <3>2, <3>3 DEF Running
  <2> QED BY <1>2, <2>2, <2>3, <2>4
<1>5. TypeOK'
  BY <1>1, <1>2, <1>4 DEF TypeOK
<1>6. StopIsRight' /\ FirstInv'
  BY <1>1, <1>4 DEF StopIsRight, FirstInv
<1>7. StartInv'
  BY <1>1, <1>4 DEF StartInv, Running
<1>8. WhenInv'
  BY <1>1, <1>4 DEF WhenInv, Stands, Running
<1>9. DueInv'
  BY <1>1 DEF DueInv
<1> QED BY <1>5, <1>6, <1>7, <1>8, <1>9

(***************************************************************************)
(* Reset sets `when' once the timer does not run.                          *)
(***************************************************************************)
LEMMA SetWhenKeeps ==
  ASSUME IInv, NEW t \in Timers, pc[t] \in {"reset", "resetstop"}, SetWhen(t),
         Enabled' = [Enabled EXCEPT ![t] = FALSE],
         UNCHANGED <<now, kind, Interval, due, Elapsed, calls, ran, queued, starts, stopped,
                     raced>>
  PROVE  IInv'
<1> USE TimersAssumption DEF IInv, Inv
<1>1. /\ pc' = [pc EXCEPT ![t] = "starting"] /\ w' = w
      /\ when' = [when EXCEPT ![t] = w[t].when]
      /\ asked' = [asked EXCEPT ![t] = w[t].asked]
  BY DEF SetWhen
<1>2. w[t].when \in Int64 /\ w[t].asked \in Int /\ Stands(w[t].when, w[t].asked)
      /\ starts[t] < MaxStarts
  BY DEF TypeOK, WhenInv, StartInv
<1>3. Enabled' \in [Timers -> BOOLEAN]
  BY DEF TypeOK
<1>4. TypeOK'
  BY <1>1, <1>2, <1>3 DEF TypeOK
<1>5. /\ \A u \in Timers \ {t} : when'[u] = when[u] /\ asked'[u] = asked[u] /\ pc'[u] = pc[u]
                                 /\ Enabled'[u] = Enabled[u]
      /\ pc'[t] = "starting" /\ when'[t] = w[t].when /\ asked'[t] = w[t].asked
      /\ ~Enabled'[t]
  BY <1>1 DEF TypeOK
<1>6. StopIsRight' /\ FirstInv'
  BY <1>5 DEF StopIsRight, FirstInv
<1>7. StartInv'
  BY <1>2, <1>5 DEF StartInv, Running
<1>8. WhenInv'
  BY <1>1, <1>2, <1>5 DEF WhenInv, Stands
<1>9. DueInv'
  BY <1>5 DEF DueInv
<1> QED BY <1>4, <1>6, <1>7, <1>8, <1>9

(***************************************************************************)
(* The Stop of stopTimer: a timer that a Stop saw run is disabled, or has  *)
(* elapsed since.                                                          *)
(***************************************************************************)
LEMMA StopTimerKeeps ==
  ASSUME IInv, NEW t \in Timers, StopTimer(t)
  PROVE  IInv'
<1> USE TimersAssumption DEF IInv, Inv, history
<1>1. CASE pc[t] = "stop"
  <2>1. /\ Enabled' = [Enabled EXCEPT ![t] = FALSE] /\ pc' = [pc EXCEPT ![t] = "started"]
        /\ stopped' = [stopped EXCEPT ![t] = TRUE]
        /\ UNCHANGED <<now, kind, when, asked, w, Interval, due, Elapsed, calls, ran, queued,
                       starts, raced>>
    BY <1>1 DEF StopTimer, Disable, whens
  <2>2. stopped' \in [Timers -> BOOLEAN] /\ Enabled' \in [Timers -> BOOLEAN]
    BY <2>1 DEF TypeOK
  <2>3. TypeOK'
    BY <2>1, <2>2 DEF TypeOK
  <2>4. /\ \A u \in Timers \ {t} : pc'[u] = pc[u] /\ Enabled'[u] = Enabled[u]
                                   /\ stopped'[u] = stopped[u]
        /\ pc'[t] = "started" /\ ~Enabled'[t] /\ stopped'[t]
    BY <2>1 DEF TypeOK
  <2>5. starts[t] > 0 /\ starts[t] \in Nat
    BY <1>1 DEF StartInv, Running, TypeOK
  <2>6. StopIsRight'
    BY <1>1, <2>1, <2>4, <2>5 DEF StopIsRight, FirstInv
  <2>7. FirstInv'
    BY <2>1, <2>4, <2>5 DEF FirstInv
  <2>8. StartInv'
    BY <1>1, <2>1, <2>4 DEF StartInv, Running
  <2>9. WhenInv' /\ DueInv'
    BY <1>1, <2>1, <2>4 DEF WhenInv, DueInv, Stands
  <2> QED BY <2>3, <2>6, <2>7, <2>8, <2>9
<1>2. CASE pc[t] = "resetstop"
  BY <1>2, SetWhenKeeps DEF StopTimer, Disable
<1> QED BY <1>1, <1>2 DEF StopTimer

LEMMA ResetReadsKeeps ==
  ASSUME IInv, NEW t \in Timers, ResetReads(t), ~Enabled[t]
  PROVE  IInv'
<1>1. SetWhen(t) /\ pc[t] = "reset"
      /\ UNCHANGED <<now, kind, Enabled, Interval, due, Elapsed, calls, ran, queued, starts,
                     stopped, raced>>
  BY DEF ResetReads, plat, history, answers
<1>2. Enabled \in [Timers -> BOOLEAN]
  BY DEF IInv, Inv, TypeOK
<1>3. Enabled' = [Enabled EXCEPT ![t] = FALSE]
  BY <1>1, <1>2
<1> QED BY <1>1, <1>3, SetWhenKeeps

(***************************************************************************)
(* AddTimer arms the platform timer, or is refused.                        *)
(***************************************************************************)
LEMMA AddTimerKeeps ==
  ASSUME IInv, NEW t \in Timers, AddTimer(t)
  PROVE  IInv'
<1> USE TimersAssumption DEF IInv, Inv
<1>0. /\ pc[t] = "starting" /\ ~Enabled[t] /\ Stands(when[t], asked[t])
      /\ UNCHANGED <<now, kind, when, asked, w, calls, ran, queued, raced>>
  BY DEF AddTimer, StartInv, Running, WhenInv, whens
<1>1. CASE NewInterval(t) \notin 1..MaxInt32
  <2>1. /\ pc' = [pc EXCEPT ![t] = "failed"]
        /\ UNCHANGED <<Enabled, Interval, due, Elapsed, starts, stopped>>
    BY <1>1 DEF AddTimer, plat
  <2>2. /\ pc'[t] = "failed" /\ \A u \in Timers \ {t} : pc'[u] = pc[u]
    BY <2>1 DEF TypeOK
  <2>3. TypeOK'
    BY <1>0, <2>1 DEF TypeOK
  <2>4. StartInv' /\ WhenInv'
    BY <1>0, <2>1, <2>2 DEF StartInv, WhenInv, Running, Stands
  <2>5. StopIsRight' /\ FirstInv' /\ DueInv'
    BY <1>0, <2>1, <2>2 DEF StopIsRight, FirstInv, DueInv
  <2> QED BY <2>3, <2>4, <2>5
<1>2. CASE NewInterval(t) \in 1..MaxInt32
  <2> DEFINE i == NewInterval(t)
  <2>0. i \in 1..MaxInt32 /\ i \in Nat
        /\ (now + i * Milli > asked[t] - Milli \/ when[t] = MaxInt64)
    BY <1>0, <1>2, IntervalOK
  <2>1. /\ pc' = [pc EXCEPT ![t] = "started"] /\ Interval' = [Interval EXCEPT ![t] = i]
        /\ due' = [due EXCEPT ![t] = now + i * Milli]
        /\ Elapsed' = [Elapsed EXCEPT ![t] = @ + 1]
        /\ Enabled' = [Enabled EXCEPT ![t] = TRUE]
        /\ starts' = [starts EXCEPT ![t] = @ + 1]
        /\ stopped' = [stopped EXCEPT ![t] = FALSE]
    BY <1>2 DEF AddTimer, Handlers
  <2> HIDE DEF i
  <2>2. now + i * Milli \in Int
    <3>1. now \in Int /\ i * Milli \in Int
      BY <2>0 DEF TypeOK
    <3> QED BY <3>1
  <2>3. starts[t] \in 0..(MaxStarts - 1) /\ Elapsed[t] = starts[t]
    BY <1>0 DEF TypeOK, StartInv
  <2>4. Enabled' \in [Timers -> BOOLEAN] /\ stopped' \in [Timers -> BOOLEAN]
    BY <2>1 DEF TypeOK
  <2>5. TypeOK'
    BY <1>0, <2>0, <2>1, <2>2, <2>3, <2>4 DEF TypeOK
  <2>6. \A u \in Timers :
          /\ pc'[u] = (IF u = t THEN "started" ELSE pc[u])
          /\ starts'[u] = (IF u = t THEN starts[u] + 1 ELSE starts[u])
          /\ Elapsed'[u] = (IF u = t THEN Elapsed[u] + 1 ELSE Elapsed[u])
          /\ due'[u] = (IF u = t THEN now + i * Milli ELSE due[u])
          /\ starts[u] \in Nat
    BY <2>1 DEF TypeOK
  <2>7. /\ ~stopped'[t] /\ Enabled'[t]
        /\ \A u \in Timers \ {t} : Enabled'[u] = Enabled[u] /\ stopped'[u] = stopped[u]
    BY <2>1 DEF TypeOK
  <2>8. StartInv'
    BY <2>3, <2>6, <2>7 DEF StartInv, Running
  <2>9. StopIsRight'
    BY <1>0, <2>6, <2>7 DEF StopIsRight, FirstInv
  <2>10. FirstInv'
    BY <1>0, <2>6, <2>7 DEF FirstInv
  <2>11. WhenInv'
    BY <1>0, <2>6 DEF WhenInv, Stands
  <2>12. DueInv'
    BY <1>0, <2>0, <2>6, <2>7 DEF DueInv
  <2> QED BY <2>5, <2>8, <2>9, <2>10, <2>11, <2>12
<1> QED BY <1>1, <1>2

(***************************************************************************)
(* The platform timer elapses and is then disabled.                        *)
(***************************************************************************)
LEMMA ElapseKeeps ==
  ASSUME IInv, NEW t \in Timers, Elapse(t)
  PROVE  IInv'
<1> USE TimersAssumption DEF IInv, Inv
<1>1. /\ Enabled[t] /\ Enabled' = [Enabled EXCEPT ![t] = FALSE] /\ due' = due
      /\ calls' = [calls EXCEPT ![t] = @ + Elapsed[t]]
      /\ raced' = [raced EXCEPT ![t] = @ \/ pc[t] = "stop"]
      /\ UNCHANGED <<now, pc, kind, when, asked, w, Interval, Elapsed, ran, queued, starts,
                     stopped>>
  BY DEF Elapse, AutoReset, whens, history
<1>2. Enabled' \in [Timers -> BOOLEAN] /\ raced' \in [Timers -> BOOLEAN]
  BY <1>1, Zenon DEF TypeOK
<1>3. TypeOK'
  BY <1>1, <1>2 DEF TypeOK
<1>4. /\ ~Enabled'[t] /\ (pc[t] = "stop" => raced'[t])
      /\ \A u \in Timers \ {t} : Enabled'[u] = Enabled[u] /\ raced'[u] = raced[u]
  BY <1>1, Zenon DEF TypeOK
<1>5. /\ \A u \in Timers \ {t} : calls'[u] = calls[u]
      /\ calls'[t] = calls[t] + starts[t] /\ starts[t] > 0 /\ starts[t] \in Nat
      /\ calls[t] \in Nat /\ ran[t] \in Nat
  BY <1>1 DEF TypeOK, StartInv
<1>6. StopIsRight'
  BY <1>1, <1>4, <1>5 DEF StopIsRight, FirstInv
<1>7. FirstInv'
  BY <1>1, <1>4, <1>5 DEF FirstInv
<1>8. StartInv' /\ DueInv' /\ WhenInv'
  BY <1>1, <1>4 DEF StartInv, DueInv, WhenInv, Stands
<1> QED BY <1>3, <1>6, <1>7, <1>8

(***************************************************************************)
(* A handler's call of f, a receive and the clock.                         *)
(***************************************************************************)
LEMMA CallKeeps ==
  ASSUME IInv, NEW t \in Timers, Call(t) \/ Receive(t)
  PROVE  IInv'
<1> USE TimersAssumption DEF IInv, Inv
<1>1. UNCHANGED <<now, pc, kind, when, asked, w, Enabled, Interval, due, Elapsed, starts,
                  stopped, raced>>
  BY DEF Call, Receive, whens, plat, answers
<1>2. calls \in [Timers -> Nat] /\ ran \in [Timers -> Nat] /\ queued \in [Timers -> Nat]
  BY DEF TypeOK
<1>3. /\ calls' \in [Timers -> Nat] /\ ran' \in [Timers -> Nat] /\ queued' \in [Timers -> Nat]
      /\ \A u \in Timers : ran'[u] + calls'[u] = ran[u] + calls[u]
  <2>1. CASE Call(t)
    <3>1. /\ calls[t] > 0 /\ calls' = [calls EXCEPT ![t] = @ - 1]
          /\ ran' = [ran EXCEPT ![t] = @ + 1]
          /\ \E n \in {queued[t], queued[t] + 1} : queued' = [queued EXCEPT ![t] = n]
      BY <2>1 DEF Call
    <3>2. queued' \in [Timers -> Nat]
      BY <1>2, <3>1
    <3>3. calls' \in [Timers -> Nat] /\ ran' \in [Timers -> Nat]
      BY <1>2, <3>1
    <3> QED BY <1>2, <3>1, <3>2, <3>3
  <2>2. CASE Receive(t)
    BY <1>2, <2>2 DEF Receive
  <2> QED BY <2>1, <2>2
<1>4. TypeOK'
  BY <1>1, <1>3 DEF TypeOK
<1>5. StopIsRight' /\ FirstInv'
  BY <1>1, <1>3 DEF StopIsRight, FirstInv
<1>6. StartInv' /\ DueInv' /\ WhenInv'
  BY <1>1 DEF StartInv, DueInv, WhenInv, Stands
<1> QED BY <1>4, <1>5, <1>6

LEMMA TickKeeps == ASSUME IInv, Tick PROVE IInv'
<1> USE TimersAssumption DEF IInv, Inv
<1>1. /\ now' = now + 1 /\ now \in MinTime..MaxTime /\ now < MaxTime
      /\ UNCHANGED <<pc, kind, when, asked, w, Enabled, Interval, due, Elapsed, calls, ran,
                     queued, starts, stopped, raced>>
  BY DEF Tick, TypeOK, whens, plat, history, answers
<1>2. TypeOK'
  BY <1>1 DEF TypeOK
<1>3. StopIsRight' /\ FirstInv' /\ StartInv' /\ DueInv'
  BY <1>1 DEF StopIsRight, FirstInv, StartInv, DueInv
<1>4. ASSUME NEW n, NEW a \in Int, Stands(n, a) PROVE Stands(n, a)'
  BY <1>1, <1>4 DEF Stands
<1>5. \A t \in Timers : asked[t] \in Int /\ w[t].asked \in Int
  BY DEF TypeOK
<1>6. WhenInv'
  BY <1>1, <1>4, <1>5 DEF WhenInv, Stands
<1> QED BY <1>2, <1>3, <1>6

(***************************************************************************)
(* The invariant is inductive.                                             *)
(***************************************************************************)
LEMMA NextIInv == IInv /\ [Next]_vars => IInv'
<1> SUFFICES ASSUME IInv, [Next]_vars PROVE IInv'
  OBVIOUS
<1>1. CASE UNCHANGED vars
  BY <1>1 DEF vars, whens, plat, history, answers, IInv, Inv, TypeOK, StopIsRight, StartInv,
     FirstInv, DueInv, WhenInv, Stands
<1> QED
  BY <1>1, NewKeeps, ReadKeeps, ResetReadsKeeps, AddTimerKeeps, StopTimerKeeps, ElapseKeeps,
     CallKeeps, TickKeeps
  DEF Next

(***************************************************************************)
(* On a timer that was never Reset f is called once at most; when Stop     *)
(* answers false the timer expired or was stopped; when it answered true   *)
(* the timer runs no longer, and f was not called and never will be unless *)
(* the timer elapsed inside that Stop.  `when' stays within Int64.         *)
(***************************************************************************)
THEOREM StopTellsTheTruth == Spec => []Inv
<1>1. IInv => Inv
  BY DEF IInv
<1> QED BY <1>1, InitIInv, NextIInv, PTL DEF Spec

(***************************************************************************)
(* No timer elapses a millisecond or more before the time asked for,       *)
(* however long its goroutine was held up before AddTimer and wherever the *)
(* clock is in Int64, unless when() returned MaxInt64 for that time.       *)
(***************************************************************************)
THEOREM NotAMilliEarly == Spec => EarlyByLessThanMilli
<1> DEFINE Late == \A t \in Timers :
                     Elapses(t) => now > asked[t] - Milli \/ when[t] = MaxInt64
<1>1. IInv /\ [Next]_vars => [Late]_vars
  <2> SUFFICES ASSUME IInv, [Next]_vars, NEW t \in Timers, Elapses(t)
               PROVE  now > asked[t] - Milli \/ when[t] = MaxInt64
    OBVIOUS
  <2> USE TimersAssumption
  <2>0. /\ calls[t] \in Nat /\ now \in Int /\ due[t] \in Int /\ asked[t] \in Int
        /\ calls \in [Timers -> Nat]
    BY DEF IInv, Inv, TypeOK
  <2>1. Elapse(t)
    BY <2>0 DEF Elapses, Next, Tick, AddTimer, Stop, ResetReads, StopTimer, Elapse, Call,
       Receive, New, Reset, vars
  <2> QED BY <2>0, <2>1 DEF IInv, DueInv, Elapse
<1> QED BY <1>1, InitIInv, NextIInv, PTL DEF Spec, EarlyByLessThanMilli
=============================================================================
