---------------------------- MODULE WaitGroupProofs ----------------------------
(***************************************************************************)
(* Wait of a WaitGroup is a barrier, for any finite set of tasks and any   *)
(* set of waiters.  The argument: fCounter is the number of outstanding    *)
(* tasks (CounterInv), so whichever of the three tests lets Wait return,   *)
(* nothing is outstanding at that moment; and a task that Wait waits for   *)
(* is not announced again (BeforeInv), so nothing of it comes back.        *)
(***************************************************************************)
EXTENDS WaitGroup, FiniteSetTheorems, TLAPS

\* The outstanding tasks are finitely many, and none is left at count 0.
LEMMA OutstandingFinite ==
  ASSUME CounterInv
  PROVE  /\ IsFiniteSet(Outstanding)
         /\ Cardinality(Outstanding) \in Nat
         /\ fCounter = 0 => Outstanding = {}
<1>1. Outstanding \in SUBSET Tasks
  BY DEF Outstanding
<1>2. IsFiniteSet(Outstanding)
  BY <1>1, WaitGroupAssumption, FS_Subset
<1>3. Cardinality(Outstanding) \in Nat
  BY <1>2, FS_CardinalityType
<1>4. fCounter = 0 => Outstanding = {}
  BY <1>2, FS_EmptySet DEF CounterInv
<1> QED  BY <1>2, <1>3, <1>4

\* The initial state satisfies the inductive invariant.
LEMMA InitIInv == Init => IInv
<1> SUFFICES ASSUME Init PROVE IInv
  OBVIOUS
<1>1. Outstanding = {}
  BY DEF Init, Outstanding
<1>2. CounterInv
  BY <1>1, FS_EmptySet DEF CounterInv, Init
<1>3. TypeOK
  BY DEF TypeOK, Init
<1>4. BeforeInv /\ WaitIsABarrier
  BY DEF BeforeInv, WaitIsABarrier, Init
<1> QED  BY <1>2, <1>3, <1>4 DEF IInv

\* Begin announces a new task, which no waiter waits for.
LEMMA BeginKeeps ==
  ASSUME IInv, NEW t \in Tasks, Begin(t)
  PROVE  IInv'
<1> USE DEF IInv
<1>1. Outstanding' = Outstanding \cup {t} /\ t \notin Outstanding
  BY DEF Begin, TypeOK, Outstanding
<1>2. CounterInv'
  BY <1>1, OutstandingFinite, FS_AddElement DEF CounterInv, Begin, Add
<1>3. TypeOK'
  BY DEF TypeOK, Begin, Add, Broadcast
<1>4. BeforeInv'
  BY DEF BeforeInv, Begin, TypeOK
<1>5. WaitIsABarrier'
  <2> SUFFICES ASSUME NEW w \in Waiters, pc'[w] = "returned"
               PROVE  before[w] \cap Outstanding' = {}
    BY DEF WaitIsABarrier, Begin
  <2>1. pc[w] = "returned"
    BY DEF Begin, Add, Broadcast
  <2>2. before[w] \cap Outstanding = {}
    BY <2>1 DEF WaitIsABarrier
  <2>3. t \notin before[w]
    BY DEF BeforeInv, Begin
  <2> QED  BY <1>1, <2>2, <2>3
<1> QED  BY <1>2, <1>3, <1>4, <1>5

\* Done takes one task away.
LEMMA DoneKeeps ==
  ASSUME IInv, NEW t \in Tasks, Done(t)
  PROVE  IInv'
<1> USE DEF IInv
<1>1. Outstanding' = Outstanding \ {t} /\ t \in Outstanding
  BY DEF Done, TypeOK, Outstanding
<1>2. CounterInv' /\ Cardinality(Outstanding') \in Nat
  <2>1. /\ IsFiniteSet(Outstanding \ {t})
        /\ Cardinality(Outstanding \ {t}) = Cardinality(Outstanding) - 1
    BY <1>1, OutstandingFinite, FS_RemoveElement
  <2>2. Cardinality(Outstanding \ {t}) \in Nat
    BY <2>1, FS_CardinalityType
  <2>3. fCounter' = fCounter - 1
    BY OutstandingFinite DEF Done, Add, CounterInv
  <2> QED  BY <1>1, <2>1, <2>2, <2>3 DEF CounterInv
<1>3. TypeOK'
  <2>1. fCounter' \in Nat
    BY <1>2 DEF CounterInv
  <2> QED  BY <2>1 DEF TypeOK, Done, Add, Broadcast
<1>4. BeforeInv'
  BY DEF BeforeInv, Done, TypeOK
<1>5. WaitIsABarrier'
  BY <1>1 DEF WaitIsABarrier, Done, Add, Broadcast
<1> QED  BY <1>2, <1>3, <1>4, <1>5

\* A step of Wait that returns has just seen the counter at 0.
LEMMA WaitKeeps ==
  ASSUME IInv, NEW w \in Waiters, Wait(w)
  PROVE  IInv'
<1> USE DEF IInv
<1>1. UNCHANGED <<fCounter, task>>
  BY DEF Wait, WaitTest, WaitLock, WaitWoken
<1>2. Outstanding' = Outstanding /\ CounterInv'
  BY <1>1 DEF Outstanding, CounterInv
<1>3. \A v \in Waiters : v # w => pc'[v] = pc[v] /\ before'[v] = before[v]
  BY DEF Wait, WaitTest, WaitLock, WaitWoken, TypeOK
<1>4. before'[w] = before[w] \/ before'[w] = Outstanding
  BY DEF Wait, WaitTest, WaitLock, WaitWoken, TypeOK
<1>5. pc'[w] = "returned" => fCounter = 0
  BY DEF Wait, WaitTest, WaitLock, WaitWoken, TypeOK
<1>6. TypeOK'
  BY DEF TypeOK, Wait, WaitTest, WaitLock, WaitWoken, Outstanding
<1>7. BeforeInv'
  BY <1>1, <1>3, <1>4 DEF BeforeInv, Outstanding
<1>8. WaitIsABarrier'
  <2>1. pc'[w] = "returned" => Outstanding = {}
    BY <1>5, OutstandingFinite
  <2> QED  BY <1>2, <1>3, <2>1 DEF WaitIsABarrier
<1> QED  BY <1>2, <1>6, <1>7, <1>8

\* Every step keeps the inductive invariant.
LEMMA NextIInv == IInv /\ [Next]_vars => IInv'
<1> SUFFICES ASSUME IInv, [Next]_vars PROVE IInv'
  OBVIOUS
<1>1. ASSUME NEW t \in Tasks, Begin(t) PROVE IInv'
  BY <1>1, BeginKeeps
<1>2. ASSUME NEW t \in Tasks, Done(t) PROVE IInv'
  BY <1>2, DoneKeeps
<1>3. ASSUME NEW w \in Waiters, Wait(w) PROVE IInv'
  BY <1>3, WaitKeeps
<1>4. CASE UNCHANGED vars
  BY <1>4 DEF IInv, TypeOK, CounterInv, BeforeInv, WaitIsABarrier, Outstanding, vars
<1> QED  BY <1>1, <1>2, <1>3, <1>4 DEF Next

(***************************************************************************)
(* WaitGroup.Wait is a barrier: the tasks that were outstanding when it was*)
(* called are done when it returns, with its unlocked first test, and with *)
(* tasks added while it waits.                                             *)
(***************************************************************************)
THEOREM Barrier == Spec => []WaitIsABarrier
<1>1. IInv => WaitIsABarrier
  BY DEF IInv
<1> QED  BY <1>1, InitIInv, NextIInv, PTL DEF Spec

(***************************************************************************)
(* fCounter never becomes negative when every Done follows its Add.        *)
(***************************************************************************)
THEOREM TypeCorrect == Spec => []TypeOK
<1>1. IInv => TypeOK
  BY DEF IInv
<1> QED  BY <1>1, InitIInv, NextIInv, PTL DEF Spec
=============================================================================
