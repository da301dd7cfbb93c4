------------------------------- MODULE WaitGroup -------------------------------
(***************************************************************************)
(* WaitGroup of Sync.pas, with the Mutex and Cond it is made of.           *)
(*                                                                         *)
(* Each task is announced with Add(1) and ends with Done; waiters call     *)
(* Wait at any moment.  A section under fMutex is one step (Add, Done and  *)
(* the two locked parts of Wait each hold it from Lock to Unlock or to     *)
(* Monitor.Wait), the first test of fCounter in Wait is made without it.   *)
(* fCond is the monitor of fMutex: waiting is its wait set, woken threads  *)
(* take the mutex again before they go on.                                 *)
(***************************************************************************)
EXTENDS Integers, FiniteSets

CONSTANTS Tasks, Waiters

ASSUME WaitGroupAssumption == IsFiniteSet(Tasks)

VARIABLES
  fCounter,
  task,      \* "new", "added" or "done"
  pc,        \* of each waiter
  before     \* history: the tasks that were added and not done when Wait began

vars == <<fCounter, task, pc, before>>

Outstanding == {t \in Tasks : task[t] = "added"}

TypeOK ==
  /\ fCounter \in Nat
  /\ task \in [Tasks -> {"new", "added", "done"}]
  /\ pc \in [Waiters -> {"idle", "lock", "waiting", "woken", "returned"}]
  /\ before \in [Waiters -> SUBSET Tasks]

Init ==
  /\ fCounter = 0
  /\ task = [t \in Tasks |-> "new"]
  /\ pc = [w \in Waiters |-> "idle"]
  /\ before = [w \in Waiters |-> {}]

\* Cond.Broadcast: PulseAll, as the caller has entered the monitor.
Broadcast == pc' = [w \in Waiters |-> IF pc[w] = "waiting" THEN "woken" ELSE pc[w]]

\* Add(aDelta) with fMutex held throughout.
Add(aDelta) ==
  /\ fCounter' = fCounter + aDelta
  /\ Broadcast

Begin(t) ==
  /\ task[t] = "new"
  /\ Add(1)
  /\ task' = [task EXCEPT ![t] = "added"]
  /\ UNCHANGED before

\* Mutant: counts a task off twice.
Done_twice(t) ==
  /\ task[t] = "added"
  /\ Add(-2)
  /\ task' = [task EXCEPT ![t] = "done"]
  /\ UNCHANGED before

Done(t) ==
  /\ task[t] = "added"
  /\ Add(-1)
  /\ task' = [task EXCEPT ![t] = "done"]
  /\ UNCHANGED before

\* Wait: the test of fCounter without the mutex.
WaitTest(w) ==
  /\ pc[w] = "idle"
  /\ before' = [before EXCEPT ![w] = Outstanding]
  /\ pc' = [pc EXCEPT ![w] = IF fCounter = 0 THEN "returned" ELSE "lock"]
  /\ UNCHANGED <<fCounter, task>>

\* Mutant: does not test again under the mutex.
WaitLock_notest(w) ==
  /\ pc[w] = "lock"
  /\ pc' = [pc EXCEPT ![w] = "waiting"]
  /\ UNCHANGED <<fCounter, task, before>>

\* Lock, test again, and give the mutex up for fCond.Wait.
WaitLock(w) ==
  /\ pc[w] = "lock"
  /\ pc' = [pc EXCEPT ![w] = IF fCounter = 0 THEN "returned" ELSE "waiting"]
  /\ UNCHANGED <<fCounter, task, before>>

\* Mutant: returns when woken, whatever the counter is.
WaitWoken_notest(w) ==
  /\ pc[w] = "woken"
  /\ pc' = [pc EXCEPT ![w] = "returned"]
  /\ UNCHANGED <<fCounter, task, before>>

\* fCond.Wait returns with the mutex: leave the loop or wait again.
WaitWoken(w) ==
  /\ pc[w] = "woken"
  /\ pc' = [pc EXCEPT ![w] = IF fCounter = 0 THEN "returned" ELSE "waiting"]
  /\ UNCHANGED <<fCounter, task, before>>

Wait(w) == WaitTest(w) \/ WaitLock(w) \/ WaitWoken(w)

Next == (\E t \in Tasks : Begin(t) \/ Done(t)) \/ (\E w \in Waiters : Wait(w))

Spec == Init /\ [][Next]_vars

\* Tasks that were added end, and goroutines that can run do.
Fairness == /\ \A t \in Tasks : WF_vars(Done(t))
            /\ \A w \in Waiters : WF_vars(WaitLock(w)) /\ WF_vars(WaitWoken(w))

FairSpec == Spec /\ Fairness

-----------------------------------------------------------------------------
(***************************************************************************)
(* Wait is a barrier: when it returned, by any of its three tests of       *)
(* fCounter, every task that was added before it was called is done, also  *)
(* when more tasks were added meanwhile.                                   *)
(***************************************************************************)
WaitIsABarrier ==
  \A w \in Waiters : pc[w] = "returned" => before[w] \cap Outstanding = {}

(***************************************************************************)
(* Every call of Wait returns once all tasks are done: no Broadcast falls  *)
(* between a waiter's test and its sleep, and each wakes all sleepers.     *)
(***************************************************************************)
WaitReturns ==
  \A w \in Waiters : (pc[w] # "idle") ~> (pc[w] = "returned")

(* What makes the barrier inductive. *)

\* The counter counts the outstanding tasks: a test that sees 0 sees none.
CounterInv == fCounter = Cardinality(Outstanding)

\* A task that a call of Wait waits for is never announced again.
BeforeInv == \A w \in Waiters : \A t \in before[w] : task[t] # "new"

IInv == TypeOK /\ CounterInv /\ BeforeInv /\ WaitIsABarrier
=============================================================================
