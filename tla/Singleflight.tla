---------------------------- MODULE Singleflight ----------------------------
(***************************************************************************)
(* Duplicate call suppression: internal/singleflight/singleflight.go.      *)
(*                                                                         *)
(* Callers is a set of calls of Do or DoChan, each made once by its own    *)
(* goroutine (a goroutine that calls twice is two callers in sequence).    *)
(* A call record is named by the caller that allocated it, and the         *)
(* goroutine that runs doCall for it has the same name.  The sections      *)
(* under g.mu are one action each: nothing inside them blocks, because     *)
(* every channel of c.chans has room for the one Result sent to it.        *)
(***************************************************************************)
EXTENDS Naturals, FiniteSets

CONSTANTS Callers,    \* the calls of Do and DoChan
          Keys,       \* the keys
          None,       \* no call record, no result
          MaxForgets  \* bound on the calls of ForgetUnshared

ASSUME SFAssumption == None \notin Callers /\ MaxForgets \in Nat

VARIABLES
  m,        \* g.m : the call record in flight for each key
  key,      \* the key each caller passed
  joined,   \* the record a caller shares or leads
  viaChan,  \* TRUE when the caller used DoChan
  phase,    \* per record: progress of its doCall
  wg,       \* c.wg of each record
  val,      \* c.val of each record: None until fn returned
  dups,     \* c.dups of each record
  chans,    \* c.chans of each record: the DoChan callers listening
  result,   \* what a caller got: None, or [val, shared]
  forgot,   \* records ForgetUnshared removed (history)
  forgets   \* number of ForgetUnshared calls so far

vars == <<m, key, joined, viaChan, phase, wg, val, dups, chans, result,
          forgot, forgets>>

Phases == {"new", "run", "ran", "signalled", "finished"}
Result == [val : Callers \cup {None}, shared : BOOLEAN]

TypeOK ==
  /\ m \in [Keys -> Callers \cup {None}]
  /\ key \in [Callers -> Keys \cup {None}]
  /\ joined \in [Callers -> Callers \cup {None}]
  /\ viaChan \in [Callers -> BOOLEAN]
  /\ phase \in [Callers -> Phases]
  /\ wg \in [Callers -> Nat]
  /\ val \in [Callers -> Callers \cup {None}]
  /\ dups \in [Callers -> Nat]
  /\ chans \in [Callers -> SUBSET Callers]
  /\ result \in [Callers -> Result \cup {None}]
  /\ forgot \in SUBSET Callers
  /\ forgets \in 0..MaxForgets

Init ==
  /\ m = [k \in Keys |-> None]
  /\ key = [c \in Callers |-> None]
  /\ joined = [c \in Callers |-> None]
  /\ viaChan = [c \in Callers |-> FALSE]
  /\ phase = [c \in Callers |-> "new"]
  /\ wg = [c \in Callers |-> 0]
  /\ val = [c \in Callers |-> None]
  /\ dups = [c \in Callers |-> 0]
  /\ chans = [c \in Callers |-> {}]
  /\ result = [c \in Callers |-> None]
  /\ forgot = {}
  /\ forgets = 0

-----------------------------------------------------------------------------
(* Do and DoChan up to the release of g.mu. *)

\* Mutant: the duplicate is not counted.
Join_nodup(c, k, ch) ==
  /\ m[k] # None
  /\ joined' = [joined EXCEPT ![c] = m[k]]
  /\ chans' = IF ch THEN [chans EXCEPT ![m[k]] = @ \cup {c}] ELSE chans
  /\ UNCHANGED <<m, phase, wg, dups>>

\* The key is in flight: count the duplicate, and listen when DoChan.
Join(c, k, ch) ==
  /\ m[k] # None
  /\ dups' = [dups EXCEPT ![m[k]] = @ + 1]
  /\ joined' = [joined EXCEPT ![c] = m[k]]
  /\ chans' = IF ch THEN [chans EXCEPT ![m[k]] = @ \cup {c}] ELSE chans
  /\ UNCHANGED <<m, phase, wg>>

\* The key is free: allocate the record and go on to doCall.
Lead(c, k, ch) ==
  /\ m[k] = None
  /\ m' = [m EXCEPT ![k] = c]
  /\ joined' = [joined EXCEPT ![c] = c]
  /\ wg' = [wg EXCEPT ![c] = 1]
  /\ phase' = [phase EXCEPT ![c] = "run"]
  /\ chans' = IF ch THEN [chans EXCEPT ![c] = {c}] ELSE chans
  /\ UNCHANGED dups

Enter(c, k, ch) ==
  /\ joined[c] = None
  /\ Join(c, k, ch) \/ Lead(c, k, ch)
  /\ key' = [key EXCEPT ![c] = k]
  /\ viaChan' = [viaChan EXCEPT ![c] = ch]
  /\ UNCHANGED <<val, result, forgot, forgets>>

Do(c, k)     == Enter(c, k, FALSE)
DoChan(c, k) == Enter(c, k, TRUE)

-----------------------------------------------------------------------------
(* doCall of record c, in its three steps.  fn's result is named by the    *)
(* record it was computed for.                                             *)

RunFn(c) ==
  /\ phase[c] = "run"
  /\ val' = [val EXCEPT ![c] = c]
  /\ phase' = [phase EXCEPT ![c] = "ran"]
  /\ UNCHANGED <<m, key, joined, viaChan, wg, dups, chans, result, forgot, forgets>>

WgDone(c) ==
  /\ phase[c] = "ran"
  /\ wg' = [wg EXCEPT ![c] = @ - 1]
  /\ phase' = [phase EXCEPT ![c] = "signalled"]
  /\ UNCHANGED <<m, key, joined, viaChan, val, dups, chans, result, forgot, forgets>>

\* Mutant: the channels of DoChan are not served.
Finish_nosend(c) ==
  /\ phase[c] = "signalled"
  /\ m' = [m EXCEPT ![key[c]] = None]
  /\ phase' = [phase EXCEPT ![c] = "finished"]
  /\ UNCHANGED <<key, joined, viaChan, wg, val, dups, chans, result, forgot, forgets>>

\* delete(g.m, key) removes whatever record is there, then the channels are served.
Finish(c) ==
  /\ phase[c] = "signalled"
  /\ m' = [m EXCEPT ![key[c]] = None]
  /\ result' = [d \in Callers |-> IF d \in chans[c]
                                  THEN [val |-> val[c], shared |-> dups[c] > 0]
                                  ELSE result[d]]
  /\ phase' = [phase EXCEPT ![c] = "finished"]
  /\ UNCHANGED <<key, joined, viaChan, wg, val, dups, chans, forgot, forgets>>

-----------------------------------------------------------------------------
(* The two returns of Do. *)

LeaderReturn(c) ==
  /\ joined[c] = c /\ ~viaChan[c] /\ phase[c] = "finished" /\ result[c] = None
  /\ result' = [result EXCEPT ![c] = [val |-> val[c], shared |-> dups[c] > 0]]
  /\ UNCHANGED <<m, key, joined, viaChan, phase, wg, val, dups, chans, forgot, forgets>>

\* Mutant: the duplicate does not wait.
DupReturn_nowait(c) ==
  /\ joined[c] \notin {c, None} /\ ~viaChan[c] /\ result[c] = None
  /\ result' = [result EXCEPT ![c] = [val |-> val[joined[c]], shared |-> TRUE]]
  /\ UNCHANGED <<m, key, joined, viaChan, phase, wg, val, dups, chans, forgot, forgets>>

\* c.wg.Wait() has returned; c.val is read without the mutex.
DupReturn(c) ==
  /\ joined[c] \notin {c, None} /\ ~viaChan[c] /\ result[c] = None
  /\ wg[joined[c]] = 0
  /\ result' = [result EXCEPT ![c] = [val |-> val[joined[c]], shared |-> TRUE]]
  /\ UNCHANGED <<m, key, joined, viaChan, phase, wg, val, dups, chans, forgot, forgets>>

Unshared(k) == m[k] # None /\ dups[m[k]] = 0

ForgetUnshared(k) ==
  /\ forgets < MaxForgets
  /\ forgets' = forgets + 1
  /\ \/ /\ Unshared(k)
        /\ m' = [m EXCEPT ![k] = None]
        /\ forgot' = forgot \cup {m[k]}
     \/ /\ ~Unshared(k)
        /\ UNCHANGED <<m, forgot>>
  /\ UNCHANGED <<key, joined, viaChan, phase, wg, val, dups, chans, result>>

\* Every caller has its result.
Terminating ==
  /\ \A c \in Callers : result[c] # None
  /\ UNCHANGED vars

Next ==
  \/ \E c \in Callers, k \in Keys : Do(c, k) \/ DoChan(c, k)
  \/ \E c \in Callers : \/ RunFn(c) \/ WgDone(c) \/ Finish(c)
                        \/ LeaderReturn(c) \/ DupReturn(c)
  \/ \E k \in Keys : ForgetUnshared(k)
  \/ Terminating

\* Goroutines that can run do run, and fn returns.
Fairness == \A c \in Callers :
  WF_vars(RunFn(c) \/ WgDone(c) \/ Finish(c) \/ LeaderReturn(c) \/ DupReturn(c))

Spec     == Init /\ [][Next]_vars
FairSpec == Spec /\ Fairness

-----------------------------------------------------------------------------
InFlight(c) == phase[c] \in {"run", "ran"}

(***************************************************************************)
(* A caller that joined a record gets the value computed for that record,  *)
(* never an unset one: "the duplicate caller waits for the original to     *)
(* complete and receives the same results" (the comment of Do).            *)
(***************************************************************************)
SameResult ==
  \A c \in Callers : result[c] # None => result[c].val = joined[c]

(***************************************************************************)
(* The shared flag: when the leader of a record reports a result, it says  *)
(* shared exactly when the record had another caller, although dups is     *)
(* read after g.mu was released and after c.wg was signalled.              *)
(***************************************************************************)
SharedAccurate ==
  \A c \in Callers : (joined[c] = c /\ result[c] # None) =>
     (result[c].shared <=> \E d \in Callers \ {c} : joined[d] = c)

(***************************************************************************)
(* What the callers of Do and DoChan rely on: the records keep their       *)
(* types, in particular wg is never done twice, every caller gets the      *)
(* value of the call it joined, and the leader reports truly whether it    *)
(* was shared.                                                             *)
(***************************************************************************)
Inv == TypeOK /\ SameResult /\ SharedAccurate

(***************************************************************************)
(* "making sure that only one execution is in-flight for a given key at a  *)
(* time" (the comment of Do), leaving out the executions that              *)
(* ForgetUnshared removed on purpose.                                      *)
(***************************************************************************)
OneInFlight ==
  \A c, d \in Callers :
     (InFlight(c) /\ InFlight(d) /\ key[c] = key[d]
        /\ c \notin forgot /\ d \notin forgot) => c = d

(***************************************************************************)
(* The comment on call's fields: dups and chans "are read but not written  *)
(* after the WaitGroup is done".                                           *)
(***************************************************************************)
DupsFixedOnceDone ==
  [][\A c \in Callers : phase[c] \in {"signalled", "finished"} =>
       dups'[c] = dups[c] /\ chans'[c] = chans[c]]_vars

(***************************************************************************)
(* Every call of Do returns and every channel of DoChan gets its Result.   *)
(***************************************************************************)
EveryCallerServed ==
  \A c \in Callers : (joined[c] # None) ~> (result[c] # None)
=============================================================================
