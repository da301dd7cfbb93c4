------------------------- MODULE SingleflightProofs -------------------------
(***************************************************************************)
(* Do and DoChan give every caller the value of the call it joined and a   *)
(* true shared flag, for any set of callers and keys and any number of     *)
(* ForgetUnshared calls, although doCall signals c.wg, and Do reads c.val  *)
(* and c.dups, outside g.mu.  The argument: a record is led by the caller  *)
(* that allocated it and goes through its phases once (RecordInv), it is   *)
(* in g.m at most under its own key and only until its Finish (MapInv), so *)
(* nobody joins it after a result of it was reported (LeadInv), and dups   *)
(* and chans describe exactly those who joined (CountInv).                 *)
(***************************************************************************)
EXTENDS Singleflight, TLAPS

\* c.wg and c.val follow the steps of doCall, which only a leader's record takes.
RecordInv ==
  \A c \in Callers :
    /\ phase[c] = "new" <=> joined[c] # c
    /\ wg[c] = IF phase[c] \in {"run", "ran"} THEN 1 ELSE 0
    /\ phase[c] \in {"ran", "signalled", "finished"} => val[c] = c

\* g.m holds unfinished records, each under its own key.
MapInv ==
  \A k \in Keys : m[k] # None =>
    phase[m[k]] \in {"run", "ran", "signalled"} /\ key[m[k]] = k

\* Who joined a record joined a leader's; a leader's result ends its record.
LeadInv ==
  \A c \in Callers :
    /\ joined[c] # None => joined[joined[c]] = joined[c]
    /\ joined[c] = None => result[c] = None
    /\ joined[c] = c /\ result[c] # None => phase[c] = "finished"

\* dups and chans against the callers that joined.
CountInv ==
  \A c \in Callers :
    /\ dups[c] > 0 <=> \E d \in Callers \ {c} : joined[d] = c
    /\ \A d \in chans[c] : joined[d] = c

\* The inductive invariant.
IInv == Inv /\ RecordInv /\ MapInv /\ LeadInv /\ CountInv

(***************************************************************************)
(* The initial state: no record and no caller.                             *)
(***************************************************************************)
LEMMA InitIInv == Init => IInv
<1> USE SFAssumption
<1> SUFFICES ASSUME Init PROVE IInv
  OBVIOUS
<1>1. TypeOK
  BY DEF Init, TypeOK, Phases
<1>2. SameResult /\ SharedAccurate /\ MapInv /\ LeadInv
  BY DEF Init, SameResult, SharedAccurate, MapInv, LeadInv
<1>3. RecordInv /\ CountInv
  BY DEF Init, RecordInv, CountInv
<1> QED BY <1>1, <1>2, <1>3 DEF IInv, Inv

(***************************************************************************)
(* Joining a record in flight: its leader has reported nothing yet.        *)
(***************************************************************************)
LEMMA JoinKeeps ==
  ASSUME IInv, NEW c \in Callers, NEW k \in Keys, NEW ch \in BOOLEAN,
         Enter(c, k, ch), Join(c, k, ch)
  PROVE  IInv'
<1> USE SFAssumption DEF IInv, Inv
<1> DEFINE e == m[k]
<1>1. /\ e \in Callers \ {c} /\ joined[c] = None /\ joined[e] = e
      /\ phase[e] \in {"run", "ran", "signalled"} /\ result[e] = None
  BY DEF Join, Enter, TypeOK, MapInv, RecordInv, LeadInv
<1>2. /\ joined' = [joined EXCEPT ![c] = e] /\ dups' = [dups EXCEPT ![e] = @ + 1]
      /\ key' = [key EXCEPT ![c] = k] /\ viaChan' = [viaChan EXCEPT ![c] = ch]
      /\ chans' = IF ch THEN [chans EXCEPT ![e] = @ \cup {c}] ELSE chans
      /\ UNCHANGED <<m, phase, wg, val, result, forgot, forgets>>
  BY DEF Join, Enter
<1>3. TypeOK'
  BY <1>1, <1>2 DEF TypeOK
<1>4. \A d \in Callers : joined'[d] = IF d = c THEN e ELSE joined[d]
  BY <1>2 DEF TypeOK
<1>5. SameResult' /\ SharedAccurate'
  BY <1>1, <1>2, <1>4 DEF SameResult, SharedAccurate, LeadInv
<1>6. RecordInv'
  BY <1>1, <1>2, <1>4 DEF RecordInv
<1>7. MapInv'
  <2>1. phase[c] = "new"
    BY <1>1 DEF RecordInv
  <2>2. \A j \in Keys : m[j] # c
    BY <2>1 DEF MapInv
  <2> QED BY <1>2, <2>2 DEF MapInv, TypeOK
<1>8. LeadInv'
  BY <1>1, <1>2, <1>4 DEF LeadInv, TypeOK
<1>9. CountInv'
  <2>1. \A d \in Callers : dups'[d] = IF d = e THEN dups[d] + 1 ELSE dups[d]
    BY <1>1, <1>2 DEF TypeOK
  <2>2. \A d \in Callers : chans'[d] \subseteq IF d = e THEN chans[d] \cup {c} ELSE chans[d]
    BY <1>1, <1>2 DEF TypeOK
  <2>3. \A d \in Callers : dups[d] \in Nat /\ chans[d] \subseteq Callers
    BY DEF TypeOK
  <2>4. \A d \in Callers : dups'[d] > 0 <=> \E f \in Callers \ {d} : joined'[f] = d
    BY <1>1, <1>4, <2>1, <2>3 DEF CountInv
  <2>5. \A d \in Callers : \A f \in chans'[d] : joined'[f] = d
    BY <1>1, <1>4, <2>2, <2>3 DEF CountInv
  <2> QED BY <2>4, <2>5 DEF CountInv
<1> QED BY <1>3, <1>5, <1>6, <1>7, <1>8, <1>9

(***************************************************************************)
(* Allocating a record: nobody joined the caller before.                   *)
(***************************************************************************)
LEMMA LeadKeeps ==
  ASSUME IInv, NEW c \in Callers, NEW k \in Keys, NEW ch \in BOOLEAN,
         Enter(c, k, ch), Lead(c, k, ch)
  PROVE  IInv'
<1> USE SFAssumption DEF IInv, Inv
<1>1. /\ joined[c] = None /\ phase[c] = "new" /\ result[c] = None
      /\ \A d \in Callers : joined[d] # c
      /\ \A j \in Keys : m[j] # c
  BY DEF Enter, TypeOK, RecordInv, LeadInv, MapInv
<1>2. /\ m' = [m EXCEPT ![k] = c] /\ joined' = [joined EXCEPT ![c] = c]
      /\ wg' = [wg EXCEPT ![c] = 1] /\ phase' = [phase EXCEPT ![c] = "run"]
      /\ key' = [key EXCEPT ![c] = k] /\ viaChan' = [viaChan EXCEPT ![c] = ch]
      /\ chans' = IF ch THEN [chans EXCEPT ![c] = {c}] ELSE chans
      /\ UNCHANGED <<dups, val, result, forgot, forgets>>
  BY DEF Lead, Enter
<1>3. TypeOK'
  BY <1>1, <1>2 DEF TypeOK, Phases
<1>4. \A d \in Callers : joined'[d] = IF d = c THEN c ELSE joined[d]
  BY <1>2 DEF TypeOK
<1>5. SameResult' /\ SharedAccurate'
  BY <1>1, <1>2, <1>4 DEF SameResult, SharedAccurate
<1>6. RecordInv'
  BY <1>1, <1>2, <1>4 DEF RecordInv, TypeOK
<1>7. MapInv'
  BY <1>1, <1>2 DEF MapInv, TypeOK
<1>8. LeadInv'
  BY <1>1, <1>2, <1>4 DEF LeadInv, TypeOK
<1>9. CountInv'
  <2>1. \A d \in Callers : chans'[d] \subseteq IF d = c THEN chans[d] \cup {c} ELSE chans[d]
    BY <1>2 DEF TypeOK
  <2>2. \A d \in Callers : chans[d] \subseteq Callers
    BY DEF TypeOK
  <2>3. \A d \in Callers : \A f \in chans'[d] : joined'[f] = d
    BY <1>1, <1>4, <2>1, <2>2 DEF CountInv
  <2>4. \A d \in Callers : dups'[d] > 0 <=> \E f \in Callers \ {d} : joined'[f] = d
    BY <1>1, <1>2, <1>4 DEF CountInv
  <2> QED BY <2>3, <2>4 DEF CountInv
<1> QED BY <1>3, <1>5, <1>6, <1>7, <1>8, <1>9

(***************************************************************************)
(* The first two steps of doCall: fn's value, then c.wg.Done().            *)
(***************************************************************************)
LEMMA CallKeeps ==
  ASSUME IInv, NEW c \in Callers, RunFn(c) \/ WgDone(c)
  PROVE  IInv'
<1> USE SFAssumption DEF IInv, Inv
<1>1. /\ phase[c] \in {"run", "ran"} /\ wg[c] = 1
      /\ UNCHANGED <<m, key, joined, viaChan, dups, chans, result, forgot, forgets>>
  BY DEF RunFn, WgDone, RecordInv
<1>2. TypeOK'
  BY <1>1 DEF RunFn, WgDone, TypeOK, Phases
<1>3. RecordInv'
  BY <1>1 DEF RunFn, WgDone, RecordInv, TypeOK
<1>4. MapInv'
  BY <1>1 DEF RunFn, WgDone, MapInv, TypeOK
<1>5. LeadInv'
  BY <1>1 DEF RunFn, WgDone, LeadInv, TypeOK
<1>6. SameResult' /\ SharedAccurate' /\ CountInv'
  BY <1>1 DEF SameResult, SharedAccurate, CountInv
<1> QED BY <1>2, <1>3, <1>4, <1>5, <1>6

(***************************************************************************)
(* A Result and its fields.                                                *)
(***************************************************************************)
LEMMA ResultFields ==
  ASSUME NEW v \in Callers \cup {None}, NEW b \in BOOLEAN
  PROVE  LET r == [val |-> v, shared |-> b] IN r \in Result /\ r.val = v /\ r.shared = b
  BY DEF Result

(***************************************************************************)
(* Finish takes the record out of g.m, so that nobody joins it after its   *)
(* channels were told how many callers it had.                             *)
(***************************************************************************)
LEMMA FinishKeeps ==
  ASSUME IInv, NEW c \in Callers, Finish(c)
  PROVE  IInv'
<1> USE SFAssumption DEF IInv, Inv
<1> DEFINE r == [val |-> val[c], shared |-> dups[c] > 0]
<1>1. /\ phase[c] = "signalled" /\ joined[c] = c /\ val[c] = c
      /\ m' = [m EXCEPT ![key[c]] = None]
      /\ phase' = [phase EXCEPT ![c] = "finished"]
      /\ UNCHANGED <<key, joined, viaChan, wg, val, dups, chans, forgot, forgets>>
  BY DEF Finish, RecordInv
<1>2. \A d \in Callers : result'[d] = IF d \in chans[c] THEN r ELSE result[d]
  BY DEF Finish
<1>3. r \in Result /\ r.val = c /\ r.shared = (dups[c] > 0)
  <2>1. (dups[c] > 0) \in BOOLEAN
    OBVIOUS
  <2> QED BY <1>1, <2>1, ResultFields
<1> HIDE DEF r
<1>4. TypeOK'
  <2>1. result' = [d \in Callers |-> IF d \in chans[c] THEN r ELSE result[d]]
    BY DEF Finish, r
  <2>2. result' \in [Callers -> Result \cup {None}]
    BY <1>3, <2>1 DEF TypeOK
  <2> QED BY <1>1, <2>2 DEF TypeOK, Phases
<1>5. SameResult'
  BY <1>1, <1>2, <1>3 DEF SameResult, CountInv
<1>6. SharedAccurate'
  <2> SUFFICES ASSUME NEW d \in Callers, joined[d] = d, result'[d] # None
               PROVE  result'[d].shared <=> \E f \in Callers \ {d} : joined[f] = d
    BY <1>1 DEF SharedAccurate
  <2>1. CASE d \in chans[c]
    <3>1. d = c /\ result'[d] = r
      BY <1>2, <2>1 DEF CountInv
    <3>2. r.shared <=> dups[c] > 0
      BY <1>3
    <3> QED BY <3>1, <3>2 DEF CountInv
  <2>2. CASE d \notin chans[c]
    BY <1>2, <2>2 DEF SharedAccurate
  <2> QED BY <2>1, <2>2
<1>7. RecordInv'
  BY <1>1 DEF RecordInv, TypeOK
<1>8. MapInv'
  BY <1>1 DEF MapInv, TypeOK
<1>9. LeadInv'
  BY <1>1, <1>2 DEF LeadInv, CountInv, TypeOK
<1>10. CountInv'
  BY <1>1 DEF CountInv
<1> QED BY <1>4, <1>5, <1>6, <1>7, <1>8, <1>9, <1>10

(***************************************************************************)
(* Do returns the fields of a record whose doCall is over, or, to a        *)
(* duplicate, of one whose c.wg is done.                                   *)
(***************************************************************************)
LEMMA ReturnKeeps ==
  ASSUME IInv, NEW c \in Callers, LeaderReturn(c) \/ DupReturn(c)
  PROVE  IInv'
<1> USE SFAssumption DEF IInv, Inv
<1> DEFINE e == joined[c]
           r == [val |-> val[e], shared |-> IF e = c THEN dups[c] > 0 ELSE TRUE]
<1>1. /\ e \in Callers /\ result' = [result EXCEPT ![c] = r]
      /\ UNCHANGED <<m, key, joined, viaChan, phase, wg, val, dups, chans, forgot, forgets>>
  BY DEF LeaderReturn, DupReturn, TypeOK
<1>2. joined[e] = e /\ phase[e] \in {"signalled", "finished"} /\ (e = c => phase[c] = "finished")
  BY <1>1 DEF LeaderReturn, DupReturn, LeadInv, RecordInv, TypeOK, Phases
<1>3. r \in Result /\ r.val = e /\ (e = c => r.shared = (dups[c] > 0))
  <2>1. (IF e = c THEN dups[c] > 0 ELSE TRUE) \in BOOLEAN
    <3>1. (dups[c] > 0) \in BOOLEAN
      OBVIOUS
    <3> QED BY <3>1, Zenon
  <2>2. val[e] = e
    BY <1>1, <1>2 DEF RecordInv
  <2> QED BY <1>1, <2>1, <2>2, ResultFields
<1>5. \A d \in Callers : result'[d] = IF d = c THEN r ELSE result[d]
  BY <1>1 DEF TypeOK
<1> HIDE DEF r
<1>4. TypeOK'
  BY <1>1, <1>3 DEF TypeOK
<1>6. SameResult'
  BY <1>1, <1>3, <1>5 DEF SameResult
<1>9. SharedAccurate'
  <2>1. \A d \in Callers \ {c} : result'[d] = result[d]
    BY <1>5
  <2>2. e = c => (result'[c].shared <=> dups[c] > 0)
    BY <1>3, <1>5
  <2> QED BY <1>1, <2>1, <2>2 DEF SharedAccurate, CountInv
<1>7. LeadInv'
  BY <1>1, <1>2, <1>5 DEF LeadInv
<1>8. RecordInv' /\ MapInv' /\ CountInv'
  BY <1>1 DEF RecordInv, MapInv, CountInv
<1> QED BY <1>4, <1>6, <1>7, <1>8, <1>9

(***************************************************************************)
(* ForgetUnshared only takes a record out of g.m.                          *)
(***************************************************************************)
LEMMA ForgetKeeps ==
  ASSUME IInv, NEW k \in Keys, ForgetUnshared(k)
  PROVE  IInv'
<1> USE SFAssumption DEF IInv, Inv
<1>1. /\ UNCHANGED <<key, joined, viaChan, phase, wg, val, dups, chans, result>>
      /\ m' \in {m, [m EXCEPT ![k] = None]} /\ forgets' \in 0..MaxForgets
      /\ forgot' \in SUBSET Callers
  BY DEF ForgetUnshared, Unshared, TypeOK
<1>2. TypeOK'
  BY <1>1 DEF TypeOK
<1>3. MapInv'
  BY <1>1 DEF MapInv, TypeOK
<1>4. SameResult' /\ SharedAccurate' /\ RecordInv' /\ LeadInv' /\ CountInv'
  BY <1>1 DEF SameResult, SharedAccurate, RecordInv, LeadInv, CountInv
<1> QED BY <1>2, <1>3, <1>4

(***************************************************************************)
(* The invariant is inductive.                                             *)
(***************************************************************************)
LEMMA NextIInv == IInv /\ [Next]_vars => IInv'
<1> SUFFICES ASSUME IInv, [Next]_vars PROVE IInv'
  OBVIOUS
<1>1. ASSUME NEW c \in Callers, NEW k \in Keys, Do(c, k) \/ DoChan(c, k) PROVE IInv'
  BY <1>1, JoinKeeps, LeadKeeps DEF Do, DoChan, Enter
<1>2. ASSUME NEW c \in Callers, RunFn(c) \/ WgDone(c) PROVE IInv'
  BY <1>2, CallKeeps
<1>3. ASSUME NEW c \in Callers, Finish(c) PROVE IInv'
  BY <1>3, FinishKeeps
<1>4. ASSUME NEW c \in Callers, LeaderReturn(c) \/ DupReturn(c) PROVE IInv'
  BY <1>4, ReturnKeeps
<1>5. ASSUME NEW k \in Keys, ForgetUnshared(k) PROVE IInv'
  BY <1>5, ForgetKeeps
<1>6. CASE UNCHANGED vars
  BY <1>6 DEF vars, IInv, Inv, TypeOK, SameResult, SharedAccurate, RecordInv, MapInv,
              LeadInv, CountInv
<1> QED BY <1>1, <1>2, <1>3, <1>4, <1>5, <1>6 DEF Next, Terminating

(***************************************************************************)
(* Every caller gets the value of the call it joined, never an unset one,  *)
(* and the leader reports truly whether it was shared.                     *)
(***************************************************************************)
THEOREM CallersServedRight == Spec => []Inv
<1>1. IInv => Inv
  BY DEF IInv
<1> QED BY <1>1, InitIInv, NextIInv, PTL DEF Spec

-----------------------------------------------------------------------------
(* Without ForgetUnshared the record in flight is the one in g.m. *)

NoForgets == MaxForgets = 0

\* A record that is not finished is the one in g.m under its key.
InMapInv ==
  \A c \in Callers : phase[c] \in {"run", "ran", "signalled"} =>
     key[c] \in Keys /\ m[key[c]] = c

(***************************************************************************)
(* A record enters g.m with its first phase, and only its own Finish       *)
(* deletes its key: that of another record would have the same key.        *)
(***************************************************************************)
LEMMA NextInMap == NoForgets /\ IInv /\ InMapInv /\ [Next]_vars => InMapInv'
<1> SUFFICES ASSUME NoForgets, IInv, InMapInv, [Next]_vars PROVE InMapInv'
  OBVIOUS
<1> USE SFAssumption DEF IInv, Inv
<1>1. ASSUME NEW c \in Callers, NEW k \in Keys, NEW ch \in BOOLEAN, Enter(c, k, ch)
      PROVE  InMapInv'
  <2>0. /\ joined[c] = None /\ phase[c] = "new" /\ key' = [key EXCEPT ![c] = k]
    BY <1>1 DEF Enter, RecordInv, TypeOK
  <2>1. CASE Join(c, k, ch)
    BY <2>0, <2>1 DEF Join, InMapInv, TypeOK
  <2>2. CASE Lead(c, k, ch)
    BY <2>0, <2>2 DEF Lead, InMapInv, TypeOK
  <2> QED BY <1>1, <2>1, <2>2 DEF Enter
<1>2. ASSUME NEW c \in Callers, RunFn(c) \/ WgDone(c) PROVE InMapInv'
  BY <1>2 DEF RunFn, WgDone, InMapInv, TypeOK
<1>3. ASSUME NEW c \in Callers, Finish(c) PROVE InMapInv'
  <2>1. /\ m' = [m EXCEPT ![key[c]] = None] /\ phase' = [phase EXCEPT ![c] = "finished"]
        /\ UNCHANGED key /\ m[key[c]] = c
    BY <1>3 DEF Finish, InMapInv
  <2> QED BY <2>1 DEF InMapInv, TypeOK
<1>4. ASSUME NEW c \in Callers, LeaderReturn(c) \/ DupReturn(c) PROVE InMapInv'
  BY <1>4 DEF LeaderReturn, DupReturn, InMapInv
<1>5. ASSUME NEW k \in Keys, ForgetUnshared(k) PROVE InMapInv'
  BY <1>5 DEF ForgetUnshared, NoForgets, TypeOK
<1>6. CASE UNCHANGED vars
  BY <1>6 DEF vars, InMapInv
<1> QED BY <1>1, <1>2, <1>3, <1>4, <1>5, <1>6 DEF Next, Terminating, Do, DoChan

(***************************************************************************)
(* "only one execution is in-flight for a given key at a time" (the        *)
(* comment of Do) holds of a Group whose ForgetUnshared is never called:   *)
(* the delete in doCall, which does not look whose record it deletes, is   *)
(* right only then.                                                        *)
(***************************************************************************)
THEOREM OneInFlightUnlessForgotten == NoForgets => (Spec => []OneInFlight)
<1> SUFFICES ASSUME NoForgets PROVE Spec => []OneInFlight
  OBVIOUS
<1>1. Init => InMapInv
  BY DEF Init, InMapInv
<1>2. IInv /\ InMapInv /\ [Next]_vars => InMapInv'
  BY NextInMap
<1>3. InMapInv => OneInFlight
  BY DEF InMapInv, OneInFlight, InFlight
<1> QED BY <1>1, <1>2, <1>3, InitIInv, NextIInv, PTL DEF Spec
=============================================================================
