------------------------------- MODULE Context -------------------------------
(***************************************************************************)
(* Package context (context.go): a tree of contexts made by WithCancel and *)
(* WithDeadline, cancelled by CancelFuncs, by deadlines and by each other. *)
(* cancel holds the mutex of a context while it cancels the children, and  *)
(* propagateCancel the mutex of a cancelled parent while it cancels the    *)
(* child; removeChild takes the parent's with no other held.               *)
(*                                                                         *)
(* A goroutine is a thread with the rest of its program in code: each      *)
(* operation there takes one mutex at most.  A parent may be a type of the *)
(* program that embeds a Context (the set Foreign), which propagateCancel  *)
(* serves with a goroutine.  Channels, select and time.AfterFunc are taken *)
(* by their contract in Go.                                                *)
(***************************************************************************)
EXTENDS Naturals, Sequences, FiniteSets, SequencesExt

CONSTANTS Ctxs,
          Parent,      \* the parent of each, or Background
          Background,
          Foreign,     \* those whose parent argument wraps Parent[c]
          Deadline,    \* the argument of WithDeadline; Never for WithCancel
          CancelCalls, \* the calls of CancelFuncs: pairs <<c, k>>
          MaxTime, None

Never == MaxTime + 1

ASSUME ContextAssumption ==
  /\ MaxTime \in Nat /\ Deadline \in [Ctxs -> 0..Never]
  /\ Parent \in [Ctxs -> Ctxs \cup {Background}] /\ Background \notin Ctxs
  /\ Foreign \subseteq {c \in Ctxs : Parent[c] # Background}
  /\ \A k \in CancelCalls : k[1] \in Ctxs

Ancestors[c \in Ctxs] ==
  IF Parent[c] = Background THEN {} ELSE {Parent[c]} \cup Ancestors[Parent[c]]

Maker(c)   == <<"new", c>>
Watcher(c) == <<"watch", c>>
TimerOf(c) == <<"timer", c>>
Caller(k)  == <<"cancel", k>>
Threads == {Maker(c) : c \in Ctxs} \cup {Watcher(c) : c \in Foreign}
             \cup {TimerOf(c) : c \in Ctxs} \cup {Caller(k) : k \in CancelCalls}

VARIABLES
  mu,        \* per context: the thread that holds its mutex between steps
  err, done, \* the fields of cancelCtx; done is nil, open or closed
  children,
  timer,     \* of a timerCtx
  late,      \* the contexts whose deadline had passed when they were made
  code,      \* per thread: what it still has to do
  began,     \* the threads that were started
  now

vars == <<mu, err, done, children, timer, late, code, began, now>>

Errors == {"Canceled", "DeadlineExceeded"}
Ops    == {"done", "link", "unlock", "until", "arm", "cancel", "finish", "remove",
           "stop", "watch", "select", "inherit"}

\* The types; done is closed by the first cancel call, which sets err.
TypeOK ==
  /\ mu \in [Ctxs -> Threads \cup {None}]
  /\ err \in [Ctxs -> Errors \cup {None}]
  /\ done \in [Ctxs -> {"nil", "open", "closed"}]
  /\ children \in [Ctxs -> SUBSET Ctxs]
  /\ timer \in [Ctxs -> {"nil", "armed", "fired", "stopped"}]
  /\ late \subseteq Ctxs /\ began \subseteq Threads /\ now \in 0..MaxTime
  /\ \A t \in Threads : \A i \in 1..Len(code[t]) :
       code[t][i].op \in Ops /\ code[t][i].c \in Ctxs
  /\ \A c \in Ctxs : (done[c] = "closed") <=> (err[c] # None)

Init ==
  /\ mu = [c \in Ctxs |-> None] /\ err = [c \in Ctxs |-> None]
  /\ done = [c \in Ctxs |-> "nil"] /\ children = [c \in Ctxs |-> {}]
  /\ timer = [c \in Ctxs |-> "nil"] /\ late = {}
  /\ code = [t \in Threads |-> <<>>] /\ began = {} /\ now = 0

-----------------------------------------------------------------------------
(* Programs. *)

Op(o, c)          == [op |-> o, c |-> c, err |-> None, rfp |-> FALSE]
CancelOp(c, r, e) == [op |-> "cancel", c |-> c, err |-> e, rfp |-> r]

\* WithDeadline makes a timerCtx unless an ancestor's deadline is earlier.
IsTimer(c) ==
  Deadline[c] # Never /\ \A a \in Ancestors[c] : Deadline[a] >= Deadline[c]

\* parentCancelCtx finds the parent's cancelCtx.
Linked(c) == Parent[c] # Background /\ c \notin Foreign

Removal(c) == IF Linked(c) THEN <<Op("remove", c)>> ELSE <<>>

\* c.cancel(removeFromParent, err) of either type.
CancelOps(c, rfp, e) ==
  IF IsTimer(c)
  THEN <<CancelOp(c, FALSE, e)>> \o (IF rfp THEN Removal(c) ELSE <<>>) \o <<Op("stop", c)>>
  ELSE <<CancelOp(c, rfp, e)>>

\* propagateCancel, then the rest of WithDeadline.
MakeOps(c) ==
  (IF Parent[c] = Background THEN <<>>
   ELSE <<Op("done", Parent[c]), Op(IF Linked(c) THEN "link" ELSE "watch", c)>>)
  \o (IF IsTimer(c) THEN <<Op("until", c)>> ELSE <<>>)

\* Where thread t is, and what it does after that.
At(t, o) == code[t] # <<>> /\ Head(code[t]).op = o
Now(t)   == Head(code[t])
Rest(t)  == Tail(code[t])
Goto(t, p) == code' = [code EXCEPT ![t] = p]
Free(c)  == mu[c] = None

Made(c) == Maker(c) \in began /\ code[Maker(c)] = <<>>

-----------------------------------------------------------------------------
(* The program's calls, the clock and the timers. *)

Start(t, p) ==
  /\ t \notin began
  /\ began' = began \cup {t}
  /\ Goto(t, p)

\* WithCancel and WithDeadline, of a parent the program has.
New(c) ==
  /\ Parent[c] # Background => Made(Parent[c])
  /\ Start(Maker(c), MakeOps(c))
  /\ UNCHANGED <<mu, err, done, children, timer, late, now>>

\* The function WithCancel or WithDeadline returned.
CancelFunc(k) ==
  /\ Made(k[1])
  /\ Start(Caller(k), CancelOps(k[1], k[1] \notin late, "Canceled"))
  /\ UNCHANGED <<mu, err, done, children, timer, late, now>>

\* time.AfterFunc calls c.cancel(true, DeadlineExceeded).
Fire(c) ==
  /\ timer[c] = "armed" /\ now >= Deadline[c]
  /\ timer' = [timer EXCEPT ![c] = "fired"]
  /\ Start(TimerOf(c), CancelOps(c, TRUE, "DeadlineExceeded"))
  /\ UNCHANGED <<mu, err, done, children, late, now>>

Tick ==
  /\ now < MaxTime
  /\ now' = now + 1
  /\ UNCHANGED <<mu, err, done, children, timer, late, code, began>>

-----------------------------------------------------------------------------
(* Making a context. *)

\* Done makes the channel when it is first asked for.
Done(t) ==
  /\ At(t, "done") /\ Free(Now(t).c)
  /\ done' = [done EXCEPT ![Now(t).c] = IF @ = "nil" THEN "open" ELSE @]
  /\ Goto(t, Rest(t))
  /\ UNCHANGED <<mu, err, children, timer, late, began, now>>

\* Mutant: the parent is not asked whether it is cancelled.
Link_noerr(t) ==
  LET c == Now(t).c
      p == Parent[c]
  IN /\ At(t, "link") /\ Free(p)
     /\ children' = [children EXCEPT ![p] = @ \cup {c}]
     /\ Goto(t, Rest(t))
     /\ UNCHANGED <<mu, err, done, timer, late, began, now>>

\* propagateCancel under p.mu, which it keeps while it cancels the child.
Link(t) ==
  LET c == Now(t).c
      p == Parent[c]
  IN /\ At(t, "link") /\ Free(p)
     /\ \/ /\ err[p] = None
           /\ children' = [children EXCEPT ![p] = @ \cup {c}]
           /\ Goto(t, Rest(t))
           /\ UNCHANGED mu
        \/ /\ err[p] # None
           /\ mu' = [mu EXCEPT ![p] = t]
           /\ Goto(t, CancelOps(c, FALSE, err[p]) \o <<Op("unlock", p)>> \o Rest(t))
           /\ UNCHANGED children
     /\ UNCHANGED <<err, done, timer, late, began, now>>

Unlock(t) ==
  /\ At(t, "unlock")
  /\ mu' = [mu EXCEPT ![Now(t).c] = None]
  /\ Goto(t, Rest(t))
  /\ UNCHANGED <<err, done, children, timer, late, began, now>>

\* "go func()" for a parent of a type propagateCancel does not know.
Watch(t) ==
  LET c == Now(t).c
  IN /\ At(t, "watch")
     /\ began' = began \cup {Watcher(c)}
     /\ code' = [code EXCEPT ![t] = Rest(t), ![Watcher(c)] =
                   <<Op("done", Parent[c]), Op("done", c), Op("select", c)>>]
     /\ UNCHANGED <<mu, err, done, children, timer, late, now>>

\* Mutant: only the child's channel is watched.
Select_child(t) ==
  /\ At(t, "select") /\ done[Now(t).c] = "closed"
  /\ Goto(t, Rest(t))
  /\ UNCHANGED <<mu, err, done, children, timer, late, began, now>>

\* That goroutine's select over parent.Done() and child.Done().
Select(t) ==
  LET c == Now(t).c
  IN /\ At(t, "select")
     /\ \/ done[Parent[c]] = "closed" /\ Goto(t, <<Op("inherit", c)>>)
        \/ done[c] = "closed" /\ Goto(t, Rest(t))
     /\ UNCHANGED <<mu, err, done, children, timer, late, began, now>>

\* child.cancel(false, parent.Err()), the error read under the parent's mutex.
Inherit(t) ==
  LET c == Now(t).c
  IN /\ At(t, "inherit") /\ Free(Parent[c])
     /\ Goto(t, CancelOps(c, FALSE, err[Parent[c]]))
     /\ UNCHANGED <<mu, err, done, children, timer, late, began, now>>

\* time.Until(d).
Until(t) ==
  LET c == Now(t).c
      passed == now >= Deadline[c]
  IN /\ At(t, "until")
     /\ late' = IF passed THEN late \cup {c} ELSE late
     /\ Goto(t, IF passed THEN CancelOps(c, TRUE, "DeadlineExceeded") ELSE <<Op("arm", c)>>)
     /\ UNCHANGED <<mu, err, done, children, timer, began, now>>

\* Mutant: the timer is set although the context was cancelled meanwhile.
Arm_always(t) ==
  LET c == Now(t).c
  IN /\ At(t, "arm") /\ Free(c)
     /\ timer' = [timer EXCEPT ![c] = "armed"]
     /\ Goto(t, Rest(t))
     /\ UNCHANGED <<mu, err, done, children, late, began, now>>

Arm(t) ==
  LET c == Now(t).c
  IN /\ At(t, "arm") /\ Free(c)
     /\ timer' = [timer EXCEPT ![c] = IF err[c] = None THEN "armed" ELSE @]
     /\ Goto(t, Rest(t))
     /\ UNCHANGED <<mu, err, done, children, late, began, now>>

-----------------------------------------------------------------------------
(* cancel. *)

\* Mutant: the children are told Canceled, whatever the reason.
ChildrenOps_canceled(order, e) ==
  FlattenSeq([i \in 1..Len(order) |-> CancelOps(order[i], FALSE, "Canceled")])

\* The calls of the loop over c.children, which comes in any order.
ChildrenOps(order, e) ==
  FlattenSeq([i \in 1..Len(order) |-> CancelOps(order[i], FALSE, e)])

\* cancelCtx.cancel up to its loop; a context that has an error is left alone.
Cancel(t) ==
  LET o == Now(t)
      c == o.c
  IN /\ At(t, "cancel") /\ Free(c)
     /\ \/ /\ err[c] # None
           /\ Goto(t, Rest(t))
           /\ UNCHANGED <<mu, err, done>>
        \/ /\ err[c] = None
           /\ err' = [err EXCEPT ![c] = o.err]
           /\ done' = [done EXCEPT ![c] = "closed"]
           /\ mu' = [mu EXCEPT ![c] = t]
           /\ \E order \in SetToSeqs(children[c]) :
                Goto(t, ChildrenOps(order, o.err)
                          \o <<[o EXCEPT !.op = "finish"]>> \o Rest(t))
     /\ UNCHANGED <<children, timer, late, began, now>>

\* Mutant: the mutex is given up after removeChild.
Finish_nested(t) ==
  LET o == Now(t)
  IN /\ At(t, "finish")
     /\ children' = [children EXCEPT ![o.c] = {}]
     /\ UNCHANGED mu
     /\ Goto(t, (IF o.rfp THEN Removal(o.c) ELSE <<>>) \o <<Op("unlock", o.c)>> \o Rest(t))
     /\ UNCHANGED <<err, done, timer, late, began, now>>

\* The end of cancelCtx.cancel: unlock, then removeChild.
Finish(t) ==
  LET o == Now(t)
  IN /\ At(t, "finish")
     /\ children' = [children EXCEPT ![o.c] = {}]
     /\ mu' = [mu EXCEPT ![o.c] = None]
     /\ Goto(t, (IF o.rfp THEN Removal(o.c) ELSE <<>>) \o Rest(t))
     /\ UNCHANGED <<err, done, timer, late, began, now>>

\* removeChild.
RemoveChild(t) ==
  LET c == Now(t).c
  IN /\ At(t, "remove") /\ Free(Parent[c])
     /\ children' = [children EXCEPT ![Parent[c]] = @ \ {c}]
     /\ Goto(t, Rest(t))
     /\ UNCHANGED <<mu, err, done, timer, late, began, now>>

\* The end of timerCtx.cancel.
Stop(t) ==
  LET c == Now(t).c
  IN /\ At(t, "stop") /\ Free(c)
     /\ timer' = [timer EXCEPT ![c] = IF @ = "armed" THEN "stopped" ELSE @]
     /\ Goto(t, Rest(t))
     /\ UNCHANGED <<mu, err, done, children, late, began, now>>

Step(t) == \/ Done(t) \/ Link(t) \/ Unlock(t) \/ Watch(t) \/ Select(t) \/ Inherit(t)
           \/ Until(t) \/ Arm(t) \/ Cancel(t) \/ Finish(t) \/ RemoveChild(t) \/ Stop(t)

Next == \/ Tick
        \/ \E c \in Ctxs : New(c) \/ Fire(c)
        \/ \E k \in CancelCalls : CancelFunc(k)
        \/ \E t \in Threads : Step(t)

Spec == Init /\ [][Next]_vars

\* Goroutines that can run do, and a timer whose time has come fires.  Nobody
\* is made to create a context or to cancel one, and time may stand still.
FairSpec == Spec /\ (\A t \in Threads : WF_vars(Step(t))) /\ WF_vars(\E c \in Ctxs : Fire(c))

-----------------------------------------------------------------------------
Busy(c) == \E t \in Threads : \E i \in 1..Len(code[t]) : code[t][i].c = c

(***************************************************************************)
(* "The returned context's Done channel is closed ... when the parent      *)
(* context's Done channel is closed": whoever finds the mutex of a         *)
(* cancelled context free finds all children cancelled too, those that     *)
(* propagateCancel was just adding included.                               *)
(***************************************************************************)
CancelReachesChildren ==
  \A c \in Ctxs :
    (Linked(c) /\ Made(c) /\ err[Parent[c]] # None /\ Free(Parent[c])) => err[c] # None

(***************************************************************************)
(* Types, with done closed exactly when err is set whoever was the first   *)
(* to cancel, and the cancellation of children.                            *)
(***************************************************************************)
Inv == TypeOK /\ CancelReachesChildren

(***************************************************************************)
(* A context that nobody cancelled and whose own deadline has not passed   *)
(* has the error of its parent, through all the calls that raced to be the *)
(* first.                                                                  *)
(***************************************************************************)
ErrorFromAbove ==
  \A c \in Ctxs :
    (/\ err[c] # None /\ now < Deadline[c]
     /\ \A k \in CancelCalls : k[1] = c => Caller(k) \notin began)
      => Parent[c] # Background /\ err[c] = err[Parent[c]]

(***************************************************************************)
(* Cancelling releases resources: when no goroutine is at work on a        *)
(* cancelled context or its parent, the parent does not hold it as a child *)
(* and no timer is left running for it, also when the cancellation came    *)
(* between propagateCancel and the setting of the timer.                   *)
(***************************************************************************)
NothingRetained ==
  \A c \in Ctxs :
    (err[c] # None /\ ~Busy(c) /\ (Parent[c] # Background => ~Busy(Parent[c])))
      => timer[c] # "armed" /\ (Parent[c] # Background => c \notin children[Parent[c]])

(***************************************************************************)
(* Every call returns, whatever is cancelled concurrently above and below: *)
(* the mutexes are always taken from the parent to the child.  (There are  *)
(* finitely many calls, so all of them return if infinitely often none is  *)
(* under way; likewise below, where what is awaited is never undone.)      *)
(***************************************************************************)
CallsReturn ==
  []<>(\A t \in Threads \ {Watcher(c) : c \in Foreign} : code[t] = <<>>)

(***************************************************************************)
(* A context is cancelled when its parent is, also one whose parent is of  *)
(* a type the package does not know.                                       *)
(***************************************************************************)
FollowsParent ==
  []<>(\A c \in Ctxs :
         (Parent[c] # Background /\ Made(c) /\ err[Parent[c]] # None) => err[c] # None)

(***************************************************************************)
(* A context with a deadline is cancelled once it has passed, whether it   *)
(* has a timer of its own or relies on an earlier one above it.            *)
(***************************************************************************)
DeadlineKept ==
  []<>(\A c \in Ctxs : (Made(c) /\ now >= Deadline[c]) => err[c] # None)

(***************************************************************************)
(* A context ends when it has to: with its parent and at its deadline.     *)
(***************************************************************************)
EndsInTime == FollowsParent /\ DeadlineKept
=============================================================================
