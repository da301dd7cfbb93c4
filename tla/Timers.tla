-------------------------------- MODULE Timers --------------------------------
(***************************************************************************)
(* Timer and Ticker of package time (time/sleep.go, time/tick.go) on the   *)
(* platform timers of TimerPool (Runtime.pas).                             *)
(*                                                                         *)
(* `now' counts nanoseconds, Milli of them make a millisecond; the program *)
(* reads it as an Int64, which wraps.  A platform timer                    *)
(* (System.Timers.Timer) is external: once enabled it elapses at the       *)
(* earliest when its interval is over, any time later, and raises Elapsed  *)
(* on a pool thread, which calls every handler added to it.  Time may pass *)
(* between any two steps of a goroutine, also between when() and AddTimer. *)
(***************************************************************************)
EXTENDS Integers

CONSTANTS Timers,
          Kinds,      \* what is made: "timer", "func" (AfterFunc), "ticker"
          Durations,  \* what NewTimer, AfterFunc, NewTicker and Reset are given
          Milli,      \* nanoseconds in a millisecond
          MaxInt32,   \* the longest interval in ms, which also means "overdue"
          MaxInt64,   \* the largest time an Int64 holds
          MinTime,    \* now, when the program starts
          MaxTime,    \* bound on now
          MaxStarts   \* bound on the starts of one timer

ASSUME TimersAssumption ==
  /\ Kinds \subseteq {"timer", "func", "ticker"}
  /\ Milli \in Nat \ {0} /\ MaxStarts \in Nat \ {0}
  /\ MaxInt32 \in Nat /\ MaxInt64 \in Nat
  /\ Durations \subseteq (-MaxInt64 - 1)..MaxInt64
  /\ MinTime \in (-MaxInt64 - 1)..MaxInt64
  /\ MaxTime \in MinTime..(MinTime + MaxInt64)   \* it runs for 292 years at most

VARIABLES
  now,
  pc,        \* of the goroutine that owns the timer
  kind,      \* how the timer was made
  when,      \* runtimeTimer.when
  asked,     \* history: the time `when' stands for, before it was made to fit
  w,         \* the local w of a Reset, with the time it stands for
  Enabled,   \* the platform timer runs
  Interval,  \* its interval in ms
  due,       \* when it may elapse
  Elapsed,   \* how many handlers it calls
  calls,     \* calls of f that are on their way
  ran,       \* history: calls of f made
  queued,    \* values in the timer's channel
  starts,    \* history: completed AddTimers
  stopped,   \* history: Stop returned true and the timer was not started since
  raced      \* history: it elapsed after a Stop had seen it run

plat    == <<Enabled, Interval, due, Elapsed>>
whens   == <<when, asked, w>>
history == <<ran, queued, starts>>
answers == <<stopped, raced>>
vars    == <<now, pc, kind, whens, plat, calls, history, answers>>

Int64 == (-MaxInt64 - 1)..MaxInt64

TypeOK ==
  /\ now \in MinTime..MaxTime
  /\ pc \in [Timers -> {"none", "starting", "started", "stop", "reset", "resetstop",
                        "failed"}]
  /\ kind \in [Timers -> {"none", "timer", "func", "ticker"}]
  /\ when \in [Timers -> Int64] /\ asked \in [Timers -> Int]
  /\ w \in [Timers -> [when : Int64, asked : Int]]
  /\ Enabled \in [Timers -> BOOLEAN]
  /\ Interval \in [Timers -> 0..MaxInt32]
  /\ due \in [Timers -> Int]
  /\ Elapsed \in [Timers -> 0..MaxStarts]
  /\ starts \in [Timers -> 0..MaxStarts]
  /\ calls \in [Timers -> Nat] /\ ran \in [Timers -> Nat] /\ queued \in [Timers -> Nat]
  /\ stopped \in [Timers -> BOOLEAN] /\ raced \in [Timers -> BOOLEAN]

Init ==
  /\ now = MinTime
  /\ pc = [t \in Timers |-> "none"] /\ kind = [t \in Timers |-> "none"]
  /\ Enabled = [t \in Timers |-> FALSE]
  /\ stopped = [t \in Timers |-> FALSE] /\ raced = [t \in Timers |-> FALSE]
  /\ when = [t \in Timers |-> 0] /\ asked = [t \in Timers |-> MinTime]
  /\ w = [t \in Timers |-> [when |-> 0, asked |-> MinTime]]
  /\ Interval = [t \in Timers |-> 0]
  /\ due = [t \in Timers |-> 0] /\ Elapsed = [t \in Timers |-> 0]
  /\ calls = [t \in Timers |-> 0] /\ ran = [t \in Timers |-> 0]
  /\ queued = [t \in Timers |-> 0] /\ starts = [t \in Timers |-> 0]

-----------------------------------------------------------------------------
\* What an Int64 holds of a number that is out of its range by one turn.
Wrap(n) == IF n > MaxInt64 THEN n - 2 * (MaxInt64 + 1)
           ELSE IF n < -MaxInt64 - 1 THEN n + 2 * (MaxInt64 + 1) ELSE n

\* DateTime.Now.Ticks * 100 counts from the year 1: an Int64 holds the product
\* as a number that is not negative from 1754 to December 2046 only.
runtimeNano == Wrap(now)

\* when(d): a sum that is negative is taken for an overflow.
When(d) ==
  IF d <= 0 THEN runtimeNano
  ELSE LET t == Wrap(runtimeNano + d) IN IF t < 0 THEN MaxInt64 ELSE t

\* The time meant by when(d).
Asked(d) == IF d <= 0 THEN now ELSE now + d

\* Mutant: divides by the wrong unit.
ToMillis_coarse(ns) ==
  IF ns < 0 THEN -((-ns) \div (2 * Milli)) ELSE ns \div (2 * Milli)

\* div 1000000, which truncates towards zero.
ToMillis(ns) == IF ns < 0 THEN -((-ns) \div Milli) ELSE ns \div Milli

\* AddTimer sets AutoReset to false for every timer, also for a Ticker's.
AutoReset(t) == FALSE

\* NewTimer, AfterFunc and NewTicker up to the call of startTimer.  NewTicker
\* panics on a duration that is not positive.
New(t, k, d) ==
  /\ pc[t] = "none"
  /\ kind' = [kind EXCEPT ![t] = k]
  /\ \/ /\ k = "ticker" /\ d <= 0
        /\ pc' = [pc EXCEPT ![t] = "failed"]
        /\ UNCHANGED whens
     \/ /\ k # "ticker" \/ d > 0
        /\ pc' = [pc EXCEPT ![t] = "starting"]
        /\ when' = [when EXCEPT ![t] = When(d)]
        /\ asked' = [asked EXCEPT ![t] = Asked(d)]
        /\ UNCHANGED w
  /\ UNCHANGED <<now, plat, calls, history, answers>>

\* The interval AddTimer computes: a timer that is overdue by a millisecond
\* gets MaxInt32.
NewInterval(t) ==
  LET i == ToMillis(Wrap(when[t] - runtimeNano)) IN IF i < 0 THEN MaxInt32 ELSE i

\* Mutant: a timer that is used again keeps no handler.
Handlers_none(n) == n

\* Elapsed += adds a handler to those of the earlier starts.
Handlers(n) == n + 1

\* AddTimer.  The platform refuses an interval of 0, and one above MaxInt32,
\* with an exception.
AddTimer(t) ==
  /\ pc[t] = "starting"
  /\ \/ /\ NewInterval(t) \notin 1..MaxInt32
        /\ pc' = [pc EXCEPT ![t] = "failed"]
        /\ UNCHANGED <<plat, starts, stopped>>
     \/ /\ NewInterval(t) \in 1..MaxInt32
        /\ pc' = [pc EXCEPT ![t] = "started"]
        /\ Interval' = [Interval EXCEPT ![t] = NewInterval(t)]
        /\ due' = [due EXCEPT ![t] = now + NewInterval(t) * Milli]
        /\ Elapsed' = [Elapsed EXCEPT ![t] = Handlers(@)]
        /\ Enabled' = [Enabled EXCEPT ![t] = TRUE]
        /\ starts' = [starts EXCEPT ![t] = @ + 1]
        /\ stopped' = [stopped EXCEPT ![t] = FALSE]
  /\ UNCHANGED <<now, kind, whens, calls, ran, queued, raced>>

\* Timer.Stop and Ticker.Stop up to the read of Enabled in stopTimer.  A timer
\* that does not run is left alone and Stop returns false.
Stop(t) ==
  /\ pc[t] = "started" /\ Enabled[t]
  /\ pc' = [pc EXCEPT ![t] = "stop"]
  /\ UNCHANGED <<now, kind, whens, plat, calls, history, answers>>

\* Timer.Reset calls when(d) first; a Ticker has no Reset.
Reset(t, d) ==
  /\ pc[t] = "started" /\ kind[t] # "ticker" /\ starts[t] < MaxStarts
  /\ w' = [w EXCEPT ![t] = [when |-> When(d), asked |-> Asked(d)]]
  /\ pc' = [pc EXCEPT ![t] = "reset"]
  /\ UNCHANGED <<now, kind, when, asked, plat, calls, history, answers>>

\* t.r.when = w, after stopTimer.
SetWhen(t) ==
  /\ when' = [when EXCEPT ![t] = w[t].when]
  /\ asked' = [asked EXCEPT ![t] = w[t].asked]
  /\ pc' = [pc EXCEPT ![t] = "starting"]
  /\ UNCHANGED w

\* The read of Enabled in the stopTimer of a Reset.
ResetReads(t) ==
  /\ pc[t] = "reset"
  /\ \/ Enabled[t] /\ pc' = [pc EXCEPT ![t] = "resetstop"] /\ UNCHANGED whens
     \/ ~Enabled[t] /\ SetWhen(t)
  /\ UNCHANGED <<now, kind, plat, calls, history, answers>>

\* Mutant: reports that the timer ran but leaves it running.
Disable_leave(t) == UNCHANGED Enabled

\* lTimer.Stop
Disable(t) == Enabled' = [Enabled EXCEPT ![t] = FALSE]

\* stopTimer saw the timer run: it disables it, whether or not it still runs,
\* and answers true.
StopTimer(t) ==
  /\ Disable(t)
  /\ \/ /\ pc[t] = "stop"
        /\ pc' = [pc EXCEPT ![t] = "started"]
        /\ stopped' = [stopped EXCEPT ![t] = TRUE]
        /\ UNCHANGED whens
     \/ pc[t] = "resetstop" /\ SetWhen(t) /\ UNCHANGED stopped
  /\ UNCHANGED <<now, kind, Interval, due, Elapsed, calls, history, raced>>

\* The platform timer elapses and raises Elapsed.
Elapse(t) ==
  /\ Enabled[t] /\ now >= due[t]
  /\ Enabled' = [Enabled EXCEPT ![t] = AutoReset(t)]
  /\ due' = IF AutoReset(t) THEN [due EXCEPT ![t] = now + Interval[t] * Milli] ELSE due
  /\ calls' = [calls EXCEPT ![t] = @ + Elapsed[t]]
  /\ raced' = [raced EXCEPT ![t] = @ \/ pc[t] = "stop"]
  /\ UNCHANGED <<now, pc, kind, whens, Interval, Elapsed, history, stopped>>

\* One handler calls f: goFunc starts the function; sendTime adds the time to
\* the channel, where it stays whether or not the select completed.
Call(t) ==
  /\ calls[t] > 0
  /\ calls' = [calls EXCEPT ![t] = @ - 1]
  /\ ran' = [ran EXCEPT ![t] = @ + 1]
  /\ queued' = [queued EXCEPT ![t] = IF kind[t] = "func" THEN @ ELSE @ + 1]
  /\ UNCHANGED <<now, pc, kind, whens, plat, starts, answers>>

\* The program receives from the timer's channel.
Receive(t) ==
  /\ queued[t] > 0
  /\ queued' = [queued EXCEPT ![t] = @ - 1]
  /\ UNCHANGED <<now, pc, kind, whens, plat, calls, ran, starts, answers>>

Tick ==
  /\ now < MaxTime
  /\ now' = now + 1
  /\ UNCHANGED <<pc, kind, whens, plat, calls, history, answers>>

Next ==
  \/ Tick
  \/ \E t \in Timers :
       \/ AddTimer(t) \/ Stop(t) \/ ResetReads(t) \/ StopTimer(t)
       \/ Elapse(t) \/ Call(t) \/ Receive(t)
       \/ \E d \in Durations : Reset(t, d) \/ \E k \in Kinds : New(t, k, d)

Spec == Init /\ [][Next]_vars

\* Time passes, the platform raises what is due and pool threads run handlers.
Fairness ==
  /\ WF_vars(Tick)
  /\ \A t \in Timers : /\ WF_vars(AddTimer(t) \/ ResetReads(t) \/ StopTimer(t))
                       /\ WF_vars(Elapse(t)) /\ WF_vars(Call(t)) /\ WF_vars(Receive(t))

FairSpec == Spec /\ Fairness

-----------------------------------------------------------------------------
(***************************************************************************)
(* What the answer of Stop is worth on a timer that was never Reset: f is  *)
(* called once at most; false means that the timer expired or was stopped; *)
(* after true the timer runs no longer and f was not called and never will *)
(* be, unless it elapsed between stopTimer's read of Enabled and its Stop. *)
(***************************************************************************)
StopIsRight ==
  \A t \in Timers : starts[t] <= 1 =>
     /\ ran[t] + calls[t] <= 1
     /\ pc[t] = "started" /\ ~Enabled[t] => stopped[t] \/ ran[t] + calls[t] = 1
     /\ stopped[t] => ~Enabled[t] /\ (ran[t] + calls[t] = 0 \/ raced[t])

(***************************************************************************)
(* "It returns true if the call stops the timer": then f is not called.    *)
(***************************************************************************)
TrueMeansStopped ==
  \A t \in Timers : starts[t] <= 1 /\ stopped[t] => ran[t] + calls[t] = 0

(***************************************************************************)
(* Types, with `when' within Int64 for every duration and clock, and the   *)
(* answer of Stop.                                                         *)
(***************************************************************************)
Inv == TypeOK /\ StopIsRight

Elapses(t) == calls'[t] > calls[t]

(***************************************************************************)
(* However long the goroutine is held up between when() and AddTimer,      *)
(* whatever Reset did to the timer before, and wherever the clock is in    *)
(* the range of Int64, a timer never elapses a millisecond or more before  *)
(* the time it was asked for, unless when() could not express that time.   *)
(***************************************************************************)
EarlyByLessThanMilli ==
  [][\A t \in Timers : Elapses(t) => now > asked[t] - Milli \/ when[t] = MaxInt64]_vars

(***************************************************************************)
(* "NewTimer creates a new Timer that will send the current time on its    *)
(* channel after at least duration d": no timer elapses before that time.  *)
(***************************************************************************)
AtLeastDuration ==
  [][\A t \in Timers : Elapses(t) => now >= asked[t]]_vars

(***************************************************************************)
(* "Reset changes the timer to expire after duration d": the platform timer*)
(* is armed for that time, or at once if that is over.                     *)
(***************************************************************************)
ArmedForWhen ==
  \A t \in Timers : Enabled[t] => due[t] <= asked[t] \/ due[t] <= now + Milli

(***************************************************************************)
(* "AfterFunc waits for the duration to elapse and then calls f": one call *)
(* for each time the timer was started.                                    *)
(***************************************************************************)
OneCallPerStart == \A t \in Timers : ran[t] + calls[t] <= starts[t]

(***************************************************************************)
(* A timer that is armed within the modelled time calls f, or is stopped,  *)
(* or is Reset.                                                            *)
(***************************************************************************)
ArmedTimerFires ==
  \A t \in Timers :
     (pc[t] = "started" /\ Enabled[t] /\ due[t] <= MaxTime)
        ~> (ran[t] > 0 \/ stopped[t] \/ starts[t] > 1 \/ pc[t] \notin {"started", "stop"})

(***************************************************************************)
(* "NewTicker returns a new Ticker containing a channel that will send the *)
(* time with a period specified by the duration argument": a ticker that   *)
(* was not stopped has a tick to come.                                     *)
(***************************************************************************)
TickerKeepsTicking ==
  \A t \in Timers :
     (kind[t] = "ticker" /\ pc[t] = "started" /\ ~stopped[t]) => Enabled[t]
=============================================================================
