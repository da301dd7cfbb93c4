-------------------------------- MODULE IoPipe --------------------------------
(***************************************************************************)
(* io.Pipe (io/pipe.go) on the channels and the select of the Gold run time*)
(* (Gold.Channels.Echoes.pas).                                             *)
(*                                                                         *)
(* A process makes one call of Write, or up to Calls of Read, one after    *)
(* the other.  The blocking select of a call has two cases: "data" (wrCh)  *)
(* and "done".  What the run time does with a select                       *)
(* is kept: TryReceive gives a nil handle on a closed channel and Start    *)
(* skips it; AddItem raises on a channel closed since; a handle whose      *)
(* select raised stays queued; Close tells the queued handles.  The locks  *)
(* of GoldSelect appear as guards: nobody meets the handle of a select that*)
(* is between its two Starts.  The plain send and receive on rdCh are one  *)
(* step of both sides; how they sleep is the subject of GoldChannel.       *)
(***************************************************************************)
EXTENDS Naturals, Sequences, FiniteSets, SequencesExt

CONSTANTS Readers, Writers,
          Size,     \* bytes each Write is given
          Room,     \* bytes each Read has room for
          Calls,    \* how often each reader calls Read
          Closers,  \* a subset of {"CloseRead", "CloseWrite"} that is called
          None

Procs == Readers \cup Writers

ASSUME PipeAssumption ==
  /\ Readers \cap Writers = {} /\ None \notin Procs
  /\ Size \in [Writers -> Nat] /\ Room \in [Readers -> Nat \ {0}]
  /\ Calls \in [Readers -> Nat \ {0}]
  /\ Closers \subseteq {"CloseRead", "CloseWrite"}

VARIABLES
  pc,
  doneH,     \* the select of p has a handle on done (not nil)
  lDone,     \* the case p's select was told of: "no", "data" or "done"
  fData,     \* wrCh: writers whose message is queued
  fWaiting,  \* wrCh: readers whose handle is queued
  fClosed,   \* of done
  wrMu,      \* holder of wrMu
  off,       \* per writer: n, the bytes its Write counted so far
  reads,     \* per reader: the calls of Read it began
  got,       \* per reader: [w, from], the slice it received
  stored,    \* which of rerr, werr are stored
  closer,    \* progress of each Close call
  err,       \* the error a call returned
  out        \* history: the bytes copied, in order, as <<writer, index>>

vars == <<pc, doneH, lDone, fData, fWaiting, fClosed, wrMu, off, got, stored, closer, err,
          out, reads>>

TypeOK ==
  /\ pc \in [Procs -> {"idle", "poll", "polled", "start1", "start2", "add2", "wait",
                       "got", "nr", "returned", "raised"}]
  /\ doneH \in [Procs -> BOOLEAN]
  /\ lDone \in [Procs -> {"no", "data", "done"}]
  /\ ToSet(fData) \subseteq Writers /\ ToSet(fWaiting) \subseteq Readers
  /\ fClosed \in BOOLEAN /\ wrMu \in Writers \cup {None}
  /\ \A w \in Writers : off[w] \in 0..Size[w]
  /\ \A r \in Readers : got[r].w \in Writers \cup {None} /\ got[r].from \in Nat
  /\ stored \subseteq {"CloseRead", "CloseWrite"}
  /\ reads \in [Readers -> Nat] /\ \A r \in Readers : reads[r] \in 1..Calls[r]
  /\ closer \in [Closers -> {"idle", "stored", "notify", "closed"}]
  /\ ToSet(out) \subseteq {x \in Writers \X Nat : x[2] \in 1..Size[x[1]]}
  /\ err \in [Procs -> {"nil", "ErrClosedPipe", "read error", "write error"}]

Init ==
  /\ pc = [p \in Procs |-> "idle"]
  /\ doneH = [p \in Procs |-> FALSE] /\ lDone = [p \in Procs |-> "no"]
  /\ fData = <<>> /\ fWaiting = <<>> /\ fClosed = FALSE /\ wrMu = None
  /\ off = [w \in Writers |-> 0]
  /\ got = [r \in Readers |-> [w |-> None, from |-> 0]]
  /\ stored = {} /\ closer = [c \in Closers |-> "idle"]
  /\ err = [p \in Procs |-> "nil"]
  /\ out = <<>>
  /\ reads = [r \in Readers |-> 1]

-----------------------------------------------------------------------------
(* The first select: <-done with a default case. *)

\* The handle on done is made, or is nil.
Poll(p) ==
  /\ pc[p] = "idle"
  /\ doneH' = [doneH EXCEPT ![p] = ~fClosed]
  /\ pc' = [pc EXCEPT ![p] = "poll"]
  /\ UNCHANGED <<lDone, fData, fWaiting, fClosed, wrMu, off, got, stored, closer, err,
                 out, reads>>

\* A nil handle is skipped and the default case is taken, closed or not; a
\* handle made before Close raises after it.
PollStart(p) ==
  /\ pc[p] = "poll"
  /\ pc' = [pc EXCEPT ![p] = IF doneH[p] /\ fClosed THEN "raised" ELSE "polled"]
  /\ UNCHANGED <<doneH, lDone, fData, fWaiting, fClosed, wrMu, off, got, stored, closer,
                 err, out, reads>>

-----------------------------------------------------------------------------
(* The second select. *)

\* The handles are made; a Write takes wrMu first and keeps it round its loop.
MakeHandles(p) ==
  /\ pc[p] = "polled"
  /\ p \in Writers => wrMu \in {None, p}
  /\ wrMu' = IF p \in Writers THEN p ELSE wrMu
  /\ doneH' = [doneH EXCEPT ![p] = ~fClosed]
  /\ lDone' = [lDone EXCEPT ![p] = "no"]
  /\ pc' = [pc EXCEPT ![p] = "start1"]
  /\ UNCHANGED <<fData, fWaiting, fClosed, off, got, stored, closer, err, out, reads>>

\* The queued handles that would accept, in the order they are asked.
Willing(q) == SelectSeq(q, LAMBDA p : lDone[p] = "no")

\* Between its two Starts a select holds the lLock its notifiers need.
Free(p) == pc[p] \notin {"start2", "add2"}

\* What a message carries: b, from where the writer stands.
Slice(w) == [w |-> w, from |-> off[w]]

\* Where a call goes on once it exchanged: a Read copies, a Write waits for nr.
AfterData(p) == IF p \in Readers THEN "got" ELSE "nr"

\* The exchange of a message of w with the handle of r; the side `p' that
\* started it goes on at once, the other is told.
Exchange(p, w, r) ==
  /\ got' = [got EXCEPT ![r] = Slice(w)]
  /\ lDone' = [lDone EXCEPT ![w] = "data", ![r] = "data"]
  /\ pc' = [pc EXCEPT ![p] = AfterData(p)]
  /\ fData' = Remove(fData, w)
  /\ fWaiting' = Remove(fWaiting, r)

\* Start of the wrCh case of a Read.
StartRead(r) ==
  LET q == Willing(fData)
  IN /\ r \in Readers /\ pc[r] = "start1"
     /\ \/ q = <<>> /\ fWaiting' = Append(fWaiting, r)
           /\ pc' = [pc EXCEPT ![r] = "start2"]
           /\ UNCHANGED <<got, lDone, fData>>
        \/ q # <<>> /\ Free(Head(q)) /\ Exchange(r, Head(q), r)
     /\ UNCHANGED <<doneH, fClosed, wrMu, off, stored, closer, err, out, reads>>

\* Start of the wrCh case of a Write.
StartWrite(w) ==
  LET q == Willing(fWaiting)
  IN /\ w \in Writers /\ pc[w] = "start1"
     /\ \/ q = <<>> /\ fData' = Append(fData, w)
           /\ pc' = [pc EXCEPT ![w] = "start2"]
           /\ UNCHANGED <<got, lDone, fWaiting>>
        \/ q # <<>> /\ Free(Head(q)) /\ Exchange(w, w, Head(q))
     /\ UNCHANGED <<doneH, fClosed, wrMu, off, stored, closer, err, out, reads>>

Unlock(p) == wrMu' = IF wrMu = p THEN None ELSE wrMu

\* Start of the done case: skipped if nil; AddItem looks at fClosed before it
\* takes the channel's lock.  The exception leaves the wrCh handle queued;
\* Write's defer unlocks wrMu.
StartDone(p) ==
  /\ pc[p] = "start2"
  /\ \/ /\ doneH[p] /\ fClosed
        /\ pc' = [pc EXCEPT ![p] = "raised"]
        /\ Unlock(p)
     \/ /\ ~(doneH[p] /\ fClosed)
        /\ pc' = [pc EXCEPT ![p] = IF doneH[p] THEN "add2" ELSE "wait"]
        /\ UNCHANGED wrMu
  /\ UNCHANGED <<doneH, lDone, fData, fWaiting, fClosed, off, got, stored, closer, err,
                 out, reads>>

\* AddItem queues the handle on done and the select waits.
AddDone(p) ==
  /\ pc[p] = "add2"
  /\ pc' = [pc EXCEPT ![p] = "wait"]
  /\ UNCHANGED <<doneH, lDone, fData, fWaiting, fClosed, wrMu, off, got, stored, closer,
                 err, out, reads>>

\* Woken by a partner.
WakeData(p) ==
  /\ pc[p] = "wait" /\ lDone[p] = "data"
  /\ pc' = [pc EXCEPT ![p] = AfterData(p)]
  /\ UNCHANGED <<doneH, lDone, fData, fWaiting, fClosed, wrMu, off, got, stored, closer,
                 err, out, reads>>

\* readCloseError and writeCloseError: the other side's error if this side
\* was not closed itself.
CloseError(own, other) ==
  IF own \notin stored /\ other \in stored
  THEN (IF other = "CloseWrite" THEN "write error" ELSE "read error")
  ELSE "ErrClosedPipe"

\* Mutant: the handle on wrCh is not cancelled.
WakeDone_nocancel(p) ==
  /\ pc[p] = "wait" /\ lDone[p] = "done"
  /\ pc' = [pc EXCEPT ![p] = "returned"]
  /\ err' = [err EXCEPT ![p] = IF p \in Readers THEN CloseError("CloseRead", "CloseWrite")
                               ELSE CloseError("CloseWrite", "CloseRead")]
  /\ Unlock(p)
  /\ UNCHANGED <<doneH, lDone, fClosed, off, got, stored, closer, out, fData,
                 fWaiting, reads>>

\* Woken by Close: the wrCh handle is cancelled and the call returns.
WakeDone(p) ==
  /\ pc[p] = "wait" /\ lDone[p] = "done"
  /\ fData' = Remove(fData, p) /\ fWaiting' = Remove(fWaiting, p)
  /\ pc' = [pc EXCEPT ![p] = "returned"]
  /\ err' = [err EXCEPT ![p] = IF p \in Readers THEN CloseError("CloseRead", "CloseWrite")
                               ELSE CloseError("CloseWrite", "CloseRead")]
  /\ Unlock(p)
  /\ UNCHANGED <<doneH, lDone, fClosed, off, got, stored, closer, out, reads>>

\* nr := copy(b, bw), the bytes a Read copies of what it got.
Copied(r) ==
  LET left == Size[got[r].w] - got[r].from
      nr == IF left < Room[r] THEN left ELSE Room[r]
  IN [i \in 1..nr |-> <<got[r].w, got[r].from + i>>]

\* A Read copies what it received.
Copy(r) ==
  /\ r \in Readers /\ pc[r] = "got"
  /\ out' = out \o Copied(r)
  /\ pc' = [pc EXCEPT ![r] = "nr"]
  /\ UNCHANGED <<doneH, lDone, fData, fWaiting, fClosed, wrMu, off, got, stored, closer,
                 err, reads>>

\* n += nw, b = b[nw:] (which panics past the end of b).
Count(w, nr) == off[w] + nr

\* Mutant: wrMu is let go in every round of the loop.
PassCount_unlock(w, r) ==
  LET n == Count(w, Len(Copied(r)))
  IN /\ pc[r] = "nr" /\ pc[w] = "nr" /\ n <= Size[w]
     /\ off' = [off EXCEPT ![w] = n]
     /\ pc' = [pc EXCEPT ![r] = "returned",
                         ![w] = IF n < Size[w] THEN "polled" ELSE "returned"]
     /\ Unlock(w)
     /\ UNCHANGED <<doneH, lDone, fData, fWaiting, fClosed, got, stored, closer, err, out,
                    reads>>

\* rdCh <- nr meets nw := <-rdCh.  The Read returns; the Write goes round its
\* loop while bytes are left.
PassCount(w, r) ==
  LET n == Count(w, Len(Copied(r)))
  IN /\ pc[r] = "nr" /\ pc[w] = "nr"
     /\ off' = [off EXCEPT ![w] = IF n <= Size[w] THEN n ELSE @]
     /\ pc' = [pc EXCEPT ![r] = "returned",
                         ![w] = IF n > Size[w] THEN "raised"
                                ELSE IF n < Size[w] THEN "polled" ELSE "returned"]
     /\ IF n < Size[w] THEN UNCHANGED wrMu ELSE Unlock(w)
     /\ UNCHANGED <<doneH, lDone, fData, fWaiting, fClosed, got, stored, closer, err,
                    out, reads>>

\* A reader whose Read returned without an error calls Read again.
Again(r) ==
  /\ pc[r] = "returned" /\ reads[r] < Calls[r] /\ err[r] = "nil"
  /\ reads' = [reads EXCEPT ![r] = @ + 1]
  /\ pc' = [pc EXCEPT ![r] = "idle"]
  /\ got' = [got EXCEPT ![r] = [w |-> None, from |-> 0]]
  /\ lDone' = [lDone EXCEPT ![r] = "no"]
  /\ doneH' = [doneH EXCEPT ![r] = FALSE]
  /\ UNCHANGED <<fData, fWaiting, fClosed, wrMu, off, stored, closer, err, out>>

-----------------------------------------------------------------------------
(* CloseRead and CloseWrite. *)

StoreError(c) ==
  /\ closer[c] = "idle"
  /\ stored' = stored \cup {c}
  /\ closer' = [closer EXCEPT ![c] = "stored"]
  /\ UNCHANGED <<pc, doneH, lDone, fData, fWaiting, fClosed, wrMu, off, got, err,
                 out, reads>>

\* once.Do(close(done)): the first one closes, another waits for it to be over.
CloseDone(c) ==
  /\ closer[c] = "stored"
  /\ \/ /\ ~fClosed
        /\ fClosed' = TRUE
        /\ closer' = [closer EXCEPT ![c] = "notify"]
     \/ /\ fClosed /\ \A d \in Closers : closer[d] # "notify"
        /\ closer' = [closer EXCEPT ![c] = "closed"]
        /\ UNCHANGED fClosed
  /\ UNCHANGED <<pc, doneH, lDone, fData, fWaiting, wrMu, off, got, stored, err,
                 out, reads>>

\* Mutant: only the readers are told.
Waits_readers(p) == p \in Readers /\ doneH[p] /\ pc[p] = "wait"

\* A blocking select whose handle is queued on done.
Waits(p) == doneH[p] /\ pc[p] = "wait"

\* Close tells every handle queued on done; one that completed refuses.
CloseNotify(c) ==
  /\ closer[c] = "notify"
  /\ lDone' = [p \in Procs |-> IF Waits(p) /\ lDone[p] = "no" THEN "done" ELSE lDone[p]]
  /\ closer' = [closer EXCEPT ![c] = "closed"]
  /\ UNCHANGED <<pc, doneH, fData, fWaiting, fClosed, wrMu, off, got, stored, err,
                 out, reads>>

-----------------------------------------------------------------------------
Step(p) == \/ Poll(p) \/ PollStart(p) \/ MakeHandles(p) \/ StartRead(p) \/ StartWrite(p)
           \/ StartDone(p) \/ AddDone(p) \/ WakeData(p) \/ WakeDone(p) \/ Copy(p)

CloseStep(c) == CloseDone(c) \/ CloseNotify(c)

\* The run time does not stop while a goroutine can run; a Close that began is
\* carried through.  This is less than fairness to each of them, and enough:
\* a behaviour holds finitely many calls.
Progress == \/ \E p \in Procs : Step(p)
            \/ \E w \in Writers, r \in Readers : PassCount(w, r)
            \/ \E c \in Closers : CloseStep(c)

Next == \/ Progress
        \/ \E r \in Readers : Again(r)
        \/ \E c \in Closers : StoreError(c)

Spec == Init /\ [][Next]_vars

Fairness == WF_vars(Progress)

FairSpec == Spec /\ Fairness

-----------------------------------------------------------------------------
BytesOf(w) == SelectSeq(out, LAMBDA x : x[1] = w)

(***************************************************************************)
(* "It is safe to call Read and Write in parallel with each other or with  *)
(* Close": no call panics.                                                 *)
(***************************************************************************)
NoPanic == \A p \in Procs : pc[p] # "raised"

(***************************************************************************)
(* "Parallel calls to Read and parallel calls to Write are also safe: the  *)
(* individual calls will be gated sequentially": each Write's bytes come   *)
(* out once, in order and without another Write's in between.  (After a    *)
(* call panicked, its message or handle may still be in wrCh: see NoPanic.)*)
(***************************************************************************)
Gated == NoPanic =>
  /\ \A w \in Writers : \A i \in 1..Len(BytesOf(w)) : BytesOf(w)[i] = <<w, i>>
  /\ \A i, j \in 1..Len(out) : (i < j /\ out[i][1] = out[j][1]) =>
       \A k \in i..j : out[k][1] = out[i][1]

(***************************************************************************)
(* "each Write to the PipeWriter blocks until it has satisfied one or more *)
(* Reads that fully consume the written data": a Write that returned       *)
(* without an error had all its bytes read; with an error, as many as it   *)
(* says.                                                                   *)
(***************************************************************************)
WriteCounts == NoPanic =>
  \A w \in Writers : pc[w] = "returned" =>
     /\ Len(BytesOf(w)) = off[w]
     /\ err[w] = "nil" => off[w] = Size[w]

(***************************************************************************)
(* A call that returned left nothing in wrCh that another could meet.      *)
(***************************************************************************)
NothingQueued ==
  \A p \in Procs : pc[p] = "returned" => p \notin ToSet(fData) \cup ToSet(fWaiting)

(***************************************************************************)
(* "If the write end is closed with an error, that error is returned":     *)
(* a Read returns the writer's error only after CloseWrite stored it and   *)
(* done was closed, and symmetrically.                                     *)
(***************************************************************************)
RightError ==
  \A p \in Procs : err[p] # "nil" =>
     /\ fClosed
     /\ err[p] = "write error" => p \in Readers /\ "CloseWrite" \in stored
     /\ err[p] = "read error" => p \in Writers /\ "CloseRead" \in stored

(***************************************************************************)
(* What Read and Write promise on a pipe that is closed at any moment:     *)
(* bytes within their Write, in order and in one piece, the count a Write  *)
(* returns, and the error of the side that closed.                         *)
(***************************************************************************)
Inv == TypeOK /\ Gated /\ WriteCounts /\ RightError

(***************************************************************************)
(* A Read or Write that sleeps with its handle on done when Close comes to *)
(* tell the handles does not sleep on: Close or a partner wakes it.        *)
(***************************************************************************)
CloseWakesSleepers ==
  \A p \in Procs :
     (pc[p] = "wait" /\ doneH[p] /\ \E c \in Closers : closer[c] = "notify")
        ~> (pc[p] # "wait")

(***************************************************************************)
(* "Read [...] reads data from the pipe, blocking until a writer arrives or*)
(* the write end is closed": a Read that began before Close and waits on   *)
(* done does not sleep on once the pipe is closed.                         *)
(***************************************************************************)
BlocksUntilClosed ==
  \A r \in Readers :
     (pc[r] = "wait" /\ doneH[r] /\ fClosed) ~> (pc[r] # "wait")

(***************************************************************************)
(* "Close closes the writer; subsequent reads from the read half of the    *)
(* pipe will return no bytes and EOF": a Read that begins after Close      *)
(* returns.                                                                *)
(***************************************************************************)
ReadAfterClose ==
  \A r \in Readers :
     (pc[r] = "idle" /\ fClosed /\ "CloseWrite" \in stored) ~> (pc[r] = "returned")
=============================================================================
