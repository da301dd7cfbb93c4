------------------------------- MODULE SqlPool -------------------------------
(***************************************************************************)
(* The connection pool of database/sql (sql.go).  Clients run ExecContext  *)
(* with its retries; each takes a driverConn from freeConn, opens one, or  *)
(* queues a request that a returned or a new connection answers.  Three    *)
(* goroutines work in the background: connectionOpener, connectionResetter *)
(* and connectionCleaner; one call of a Set function and one of Close come *)
(* from elsewhere.                                                         *)
(*                                                                         *)
(* A step is what is done under one hold of db.mu, or one wait for the     *)
(* lock of a driverConn, a channel or the driver.  Channels and select are *)
(* taken by their contract in Go.  The connections of the driver implement *)
(* SessionResetter, or do not.                                             *)
(***************************************************************************)
EXTENDS Integers, Sequences, FiniteSets, SequencesExt

CONSTANTS Clients, Timed,   \* the callers, and those whose ctx may expire
          Conns,            \* driverConns that exist at the same time
          MaxOpen, MaxIdle, \* at the start; maxOpen = 0 is no limit
          Limits,           \* what SetMaxOpenConns and SetMaxIdleConns are given
          ResetCap,         \* capacity of resetterCh
          Resetters,        \* whether the driver has a ResetSession
          MaxFaults,        \* bound on failures of the driver and on expiries
          None

maxBadConnRetries == 2

ASSUME SqlPoolAssumption ==
  /\ Timed \subseteq Clients /\ MaxOpen \in Nat /\ MaxIdle \in Nat
  /\ Limits \subseteq Nat /\ ResetCap \in Nat /\ MaxFaults \in Nat
  /\ Resetters \subseteq BOOLEAN
  /\ IsFiniteSet(Clients) /\ IsFiniteSet(Conns)
  /\ Conns \cap {None, "error", "closed", "select", "exited"} = {}

VARIABLES
  closed, freeConn, connRequests, numOpen, maxOpen, maxIdle, \* of the DB
  sessionResetter,             \* the driver's connections are SessionResetters
  openerCh,                    \* number of signals in it
  resetterCh,                  \* its content
  phase, inUse, locked, badErr, old, \* of the driverConns
  dirty,                       \* history: used since the session was reset
  unreset,                     \* history: ResetSession failed, the error is discarded
  reply,                       \* content of each request's channel
  pc, conn, attempt, expired,  \* of the clients
  opener, resetter, cleaner, admin, closer, \* where the others are
  closing,                     \* what Close has to close
  fate,                        \* "panic" after a send on a closed channel
  faults

dbVars   == <<closed, maxOpen, maxIdle, sessionResetter>>
poolVars == <<freeConn, connRequests, reply, inUse>>
openVars == <<numOpen, openerCh>>
sessVars == <<dirty, unreset>>
connVars == <<phase, locked, badErr, old, sessVars>>
callVars == <<pc, conn, attempt, expired>>
bgVars   == <<opener, resetter, resetterCh, cleaner, admin, closer, closing>>
vars == <<dbVars, poolVars, openVars, connVars, callVars, bgVars, fate, faults>>

\* The types; the connections in resetterCh are locked.
TypeOK ==
  /\ closed \in BOOLEAN /\ sessionResetter \in BOOLEAN
  /\ maxOpen \in Nat /\ maxIdle \in Nat /\ numOpen \in Nat
  /\ freeConn \in Seq(Conns) /\ IsInjective(freeConn)
  /\ connRequests \subseteq Clients /\ openerCh \in Nat
  /\ phase \in [Conns -> {"none", "open", "doomed", "final"}]
  /\ \A S \in {inUse, locked, badErr, old, dirty, unreset} : S \subseteq Conns
  /\ reply \in [Clients -> Conns \cup {None, "error", "closed"}]
  /\ pc \in [Clients -> {"conn", "cached", "wait", "giveup", "connect", "use", "giveback",
                         "reset", "discard", "closing", "dropping", "done", "failed"}]
  /\ conn \in [Clients -> Conns \cup {None}]
  /\ attempt \in [Clients -> 0..maxBadConnRetries] /\ expired \subseteq Timed
  /\ opener \in {"select", "connect", "exited"}
  /\ resetter \in Conns \cup {"select", "exited"}
  /\ resetterCh \in Seq(locked)
  /\ cleaner \in BOOLEAN /\ admin \in {"idle", "sync", "done"}
  /\ closer \in {"idle", "locked", "closing", "stopped"} /\ closing \subseteq Conns
  /\ fate \in {"runs", "panic"} /\ faults \in 0..MaxFaults

Init ==
  /\ closed = FALSE /\ freeConn = <<>> /\ connRequests = {} /\ numOpen = 0
  /\ maxOpen = MaxOpen /\ maxIdle = MaxIdle /\ openerCh = 0 /\ resetterCh = <<>>
  /\ phase = [c \in Conns |-> "none"]
  /\ inUse = {} /\ locked = {} /\ badErr = {} /\ old = {} /\ dirty = {} /\ unreset = {}
  /\ sessionResetter \in Resetters
  /\ reply = [x \in Clients |-> None]
  /\ pc = [x \in Clients |-> "conn"] /\ conn = [x \in Clients |-> None]
  /\ attempt = [x \in Clients |-> 0] /\ expired = {}
  /\ opener = "select" /\ resetter = "select" /\ cleaner = FALSE
  /\ admin = "idle" /\ closer = "idle" /\ closing = {} /\ fate = "runs" /\ faults = 0

-----------------------------------------------------------------------------
(* Helpers that run with db.mu held. *)

\* Close keeps db.mu while it waits for the locks of the free connections.
MuFree == closer # "locked"

Fault == faults < MaxFaults /\ faults' = faults + 1

Goto(x, l) == pc' = [pc EXCEPT ![x] = l]

Least(i, j) == IF i < j THEN i ELSE j

\* Mutant: the connections that are already open are not counted.
CanOpen_all(n, R) == Cardinality(R)

\* How many connections maybeOpenNewConnections asks for.
CanOpen(n, R) ==
  LET k == IF maxOpen > 0 THEN Least(Cardinality(R), maxOpen - n) ELSE Cardinality(R)
  IN IF k > 0 THEN k ELSE 0

\* maybeOpenNewConnections when numOpen is n; a closed DB counts one and returns.
MaybeOpenNewConnections(n, R) ==
  LET k == IF closed THEN Least(CanOpen(n, R), 1) ELSE CanOpen(n, R)
  IN /\ numOpen' = n + k
     /\ openerCh' = IF closed THEN openerCh ELSE openerCh + k

\* What putConnDBLocked does when the connection limit is not exceeded: hand
\* the connection to some request, keep it, or nothing.
Deliver(what) ==
  /\ \E r \in connRequests :
       /\ connRequests' = connRequests \ {r}
       /\ reply' = [reply EXCEPT ![r] = what]
  /\ inUse' = IF what \in Conns THEN inUse \cup {what} ELSE inUse
  /\ UNCHANGED <<freeConn, cleaner>>

\* Mutant: the free list comes before the requests.
Keep_first(dc) ==
  /\ maxIdle > Len(freeConn)
  /\ freeConn' = Append(freeConn, dc)
  /\ cleaner' = (cleaner \/ numOpen > 0)
  /\ inUse' = inUse \ {dc}
  /\ UNCHANGED <<connRequests, reply>>

Keep(dc) ==
  /\ connRequests = {} /\ maxIdle > Len(freeConn)
  /\ freeConn' = Append(freeConn, dc)
  /\ cleaner' = (cleaner \/ numOpen > 0)
  /\ inUse' = inUse \ {dc}
  /\ UNCHANGED <<connRequests, reply>>

\* The first two tests of putConnDBLocked.
Accepts(n) == ~closed /\ ~(maxOpen > 0 /\ n > maxOpen)

\* putConnDBLocked returns true, and false.
PutConnDBLocked(dc, n) == Accepts(n) /\ (Deliver(dc) \/ Keep(dc))
Refused(n) == ~Accepts(n) \/ (connRequests = {} /\ maxIdle <= Len(freeConn))

\* A driverConn that is not in use by the model: the new &driverConn{...}.  Conns
\* bounds how many there are.
Left  == \E c \in Conns : phase[c] = "none"
Fresh == CHOOSE c \in Conns : phase[c] = "none"
Create(dc) == /\ phase' = [phase EXCEPT ![dc] = "open"]
              /\ UNCHANGED <<locked, badErr, old, sessVars>>

\* driverConn.Close is called: from here on the connection only goes away.
Doom(S) == phase' = [c \in Conns |-> IF c \in S THEN "doomed" ELSE phase[c]]

-----------------------------------------------------------------------------
(* conn. *)

\* An attempt of ExecContext ended in ErrBadConn.
Retry(x) ==
  IF attempt[x] < maxBadConnRetries THEN [pc |-> "conn", n |-> attempt[x] + 1]
                                    ELSE [pc |-> "failed", n |-> attempt[x]]

\* An attempt ended in an error of Connect, which may be ErrBadConn.
Fails(x) ==
  \/ Goto(x, "failed") /\ UNCHANGED attempt
  \/ Goto(x, Retry(x).pc) /\ attempt' = [attempt EXCEPT ![x] = Retry(x).n]

\* errDBClosed, ctx.Err().
ConnRefuse(x) ==
  /\ pc[x] = "conn" /\ MuFree
  /\ closed \/ x \in expired
  /\ Goto(x, "failed")
  /\ UNCHANGED <<dbVars, poolVars, openVars, connVars, conn, attempt, expired, bgVars, fate, faults>>

\* Whether conn takes a free connection: not on the last attempt.
Cached(x) == attempt[x] < maxBadConnRetries /\ freeConn # <<>>

ConnCached(x) ==
  /\ pc[x] = "conn" /\ MuFree /\ ~closed /\ x \notin expired /\ Cached(x)
  /\ conn' = [conn EXCEPT ![x] = Head(freeConn)]
  /\ freeConn' = Tail(freeConn)
  /\ inUse' = inUse \cup {Head(freeConn)}
  /\ Goto(x, "cached")
  /\ UNCHANGED <<dbVars, connRequests, reply, openVars, connVars, attempt, expired, bgVars, fate, faults>>

ConnRequest(x) ==
  /\ pc[x] = "conn" /\ MuFree /\ ~closed /\ x \notin expired /\ ~Cached(x)
  /\ maxOpen > 0 /\ numOpen >= maxOpen
  /\ connRequests' = connRequests \cup {x}
  /\ reply' = [reply EXCEPT ![x] = None]
  /\ Goto(x, "wait")
  /\ UNCHANGED <<dbVars, freeConn, inUse, openVars, connVars, conn, attempt, expired, bgVars, fate, faults>>

ConnOpen(x) ==
  /\ pc[x] = "conn" /\ MuFree /\ ~closed /\ x \notin expired /\ ~Cached(x)
  /\ ~(maxOpen > 0 /\ numOpen >= maxOpen)
  /\ numOpen' = numOpen + 1
  /\ Goto(x, "connect")
  /\ UNCHANGED <<dbVars, poolVars, openerCh, connVars, conn, attempt, expired, bgVars, fate, faults>>

\* Mutant: nobody is told that there is room again.
ConnectFails_quiet(x) ==
  /\ pc[x] = "connect" /\ MuFree /\ Fault
  /\ numOpen' = numOpen - 1
  /\ Fails(x)
  /\ UNCHANGED <<dbVars, poolVars, openerCh, connVars, conn, expired, bgVars, fate>>

\* Connect returned an error.
ConnectFails(x) ==
  /\ pc[x] = "connect" /\ MuFree /\ Fault
  /\ MaybeOpenNewConnections(numOpen - 1, connRequests)
  /\ Fails(x)
  /\ UNCHANGED <<dbVars, poolVars, connVars, conn, expired, bgVars, fate>>

Connected(x) ==
  /\ pc[x] = "connect" /\ MuFree /\ Left
  /\ Create(Fresh)
  /\ inUse' = inUse \cup {Fresh}
  /\ conn' = [conn EXCEPT ![x] = Fresh]
  /\ Goto(x, "use")
  /\ UNCHANGED <<dbVars, freeConn, connRequests, reply, openVars, attempt, expired, bgVars, fate, faults>>

\* The select of a waiting client: case ret, ok := <-req.
Receive(x) ==
  /\ pc[x] = "wait" /\ reply[x] # None
  /\ reply' = [reply EXCEPT ![x] = None]
  /\ conn' = [conn EXCEPT ![x] = IF reply[x] \in Conns THEN reply[x] ELSE None]
  /\ \/ reply[x] \in Conns /\ Goto(x, "cached") /\ UNCHANGED attempt
     \/ reply[x] = "closed" /\ Goto(x, "failed") /\ UNCHANGED attempt
     \/ reply[x] = "error" /\ Fails(x)
  /\ UNCHANGED <<dbVars, freeConn, connRequests, inUse, openVars, connVars, expired, bgVars, fate, faults>>

\* case <-ctx.Done(), up to the removal of the request.
GiveUp(x) ==
  /\ pc[x] = "wait" /\ x \in expired /\ MuFree
  /\ connRequests' = connRequests \ {x}
  /\ Goto(x, "giveup")
  /\ UNCHANGED <<dbVars, freeConn, reply, inUse, openVars, connVars, conn, attempt, expired, bgVars, fate, faults>>

\* Mutant: what was sent meanwhile is dropped.
LastLook_drop(x) ==
  /\ pc[x] = "giveup"
  /\ reply' = [reply EXCEPT ![x] = None]
  /\ Goto(x, "failed")
  /\ UNCHANGED <<dbVars, freeConn, connRequests, inUse, openVars, connVars, conn, attempt, expired, bgVars, fate, faults>>

\* The second select: a connection that was sent before is put back.
LastLook(x) ==
  /\ pc[x] = "giveup"
  /\ reply' = [reply EXCEPT ![x] = None]
  /\ conn' = [conn EXCEPT ![x] = IF reply[x] \in Conns THEN reply[x] ELSE None]
  /\ Goto(x, IF reply[x] \in Conns THEN "giveback" ELSE "failed")
  /\ UNCHANGED <<dbVars, freeConn, connRequests, inUse, openVars, connVars, attempt, expired, bgVars, fate, faults>>

\* Mutant: lastErr is read without the lock.
Check_unlocked(x) ==
  LET dc == conn[x]
  IN /\ pc[x] = "cached"
     /\ \/ (dc \in badErr \/ dc \in old) /\ Doom({dc}) /\ Goto(x, "discard")
        \/ dc \notin badErr \cup old /\ Goto(x, "use") /\ UNCHANGED phase
     /\ UNCHANGED <<dbVars, poolVars, openVars, locked, badErr, old, sessVars,
                    conn, attempt, expired, bgVars, fate, faults>>

\* expired, and lastErr once the session resetter has let go of the lock.
Check(x) ==
  LET dc == conn[x]
  IN /\ pc[x] = "cached"
     /\ \/ /\ dc \in old \/ (dc \notin locked /\ dc \in badErr)
           /\ Doom({dc}) /\ Goto(x, "discard")
        \/ /\ dc \notin old /\ dc \notin locked /\ dc \notin badErr
           /\ Goto(x, "use") /\ UNCHANGED phase
     /\ UNCHANGED <<dbVars, poolVars, openVars, locked, badErr, old, sessVars,
                    conn, attempt, expired, bgVars, fate, faults>>

-----------------------------------------------------------------------------
(* putConn. *)

\* The query ended in ErrBadConn.
PutBad(x) ==
  /\ pc[x] = "use" /\ MuFree /\ Fault
  /\ inUse' = inUse \ {conn[x]}
  /\ MaybeOpenNewConnections(numOpen, connRequests)
  /\ Doom({conn[x]})
  /\ Goto(x, "discard")
  /\ UNCHANGED <<dbVars, freeConn, connRequests, reply, locked, badErr, old, sessVars,
                 conn, attempt, expired, bgVars, fate>>

\* Whether the session is to be reset.
Resets(x) == pc[x] = "use" /\ ~closed /\ sessionResetter

\* putConnDBLocked took the connection, which stays locked until it is reset.
PutTaken(x) ==
  LET dc == conn[x]
  IN /\ pc[x] \in {"use", "giveback"} /\ MuFree
     /\ Resets(x) => dc \notin locked
     /\ PutConnDBLocked(dc, numOpen)
     /\ locked' = IF Resets(x) THEN locked \cup {dc} ELSE locked
     /\ dirty' = IF pc[x] = "use" THEN dirty \cup {dc} ELSE dirty
     /\ unreset' = IF pc[x] = "use" THEN unreset \ {dc} ELSE unreset
     /\ Goto(x, IF pc[x] = "giveback" THEN "failed" ELSE IF Resets(x) THEN "reset" ELSE "done")
     /\ conn' = [conn EXCEPT ![x] = IF Resets(x) THEN dc ELSE None]
     /\ UNCHANGED <<dbVars, openVars, phase, badErr, old, attempt, expired, opener,
                    resetter, resetterCh, admin, closer, closing, fate, faults>>

PutRefused(x) ==
  /\ pc[x] \in {"use", "giveback"} /\ MuFree /\ Refused(numOpen)
  /\ inUse' = inUse \ {conn[x]}
  /\ Doom({conn[x]})
  /\ Goto(x, IF pc[x] = "use" THEN "closing" ELSE "dropping")
  /\ UNCHANGED <<dbVars, freeConn, connRequests, reply, openVars, locked, badErr, old, sessVars,
                 conn, attempt, expired, bgVars, fate, faults>>

\* "case db.resetterCh <- dc": the lock stays with the resetter.
Queue(dc) == resetterCh' = Append(resetterCh, dc) /\ UNCHANGED locked

\* The select at the end of putConn, after db.mu was given up.
SendReset(x) ==
  LET dc == conn[x]
  IN /\ pc[x] = "reset"
     /\ IF resetter = "exited" THEN fate' = "panic" /\ UNCHANGED <<resetterCh, locked, badErr, pc, conn>>
        ELSE /\ Goto(x, "done") /\ conn' = [conn EXCEPT ![x] = None] /\ UNCHANGED fate
             /\ \/ /\ Len(resetterCh) < ResetCap
                   /\ Queue(dc) /\ UNCHANGED badErr
                \/ /\ Len(resetterCh) >= ResetCap
                   /\ badErr' = badErr \cup {dc} /\ locked' = locked \ {dc}
                   /\ UNCHANGED resetterCh
     /\ UNCHANGED <<dbVars, poolVars, openVars, phase, old, sessVars, attempt, expired,
                    opener, resetter, cleaner, admin, closer, closing, faults>>

-----------------------------------------------------------------------------
(* driverConn.Close, on whatever goroutine. *)

\* dc.closed, and finalClose up to ci.Close(): both take the lock.
CloseConn(dc) ==
  /\ phase[dc] = "doomed" /\ dc \notin locked
  /\ phase' = [phase EXCEPT ![dc] = "final"]
  /\ UNCHANGED <<dbVars, poolVars, openVars, locked, badErr, old, sessVars, callVars, bgVars, fate, faults>>

\* Mutant: the open count is not corrected.
CountAfterClose_keep == numOpen

CountAfterClose == numOpen - 1

\* The rest of finalClose; who waited for Close goes on.
FinalClose(dc) ==
  /\ phase[dc] = "final" /\ MuFree
  /\ MaybeOpenNewConnections(CountAfterClose, connRequests)
  /\ phase' = [phase EXCEPT ![dc] = "none"]
  /\ badErr' = badErr \ {dc} /\ old' = old \ {dc} /\ dirty' = dirty \ {dc}
  /\ unreset' = unreset \ {dc}
  /\ closing' = closing \ {dc}
  /\ LET bad == {x \in Clients : conn[x] = dc /\ pc[x] = "discard"}
         put == {x \in Clients : conn[x] = dc /\ pc[x] = "closing"}
         out == {x \in Clients : conn[x] = dc /\ pc[x] = "dropping"}
     IN /\ pc' = [x \in Clients |-> IF x \in bad THEN Retry(x).pc
                                    ELSE IF x \in put THEN "done"
                                    ELSE IF x \in out THEN "failed" ELSE pc[x]]
        /\ attempt' = [x \in Clients |-> IF x \in bad THEN Retry(x).n ELSE attempt[x]]
        /\ conn' = [x \in Clients |-> IF x \in bad \cup put \cup out THEN None ELSE conn[x]]
  /\ UNCHANGED <<dbVars, poolVars, locked, expired, opener, resetter, resetterCh, cleaner,
                 admin, closer, fate, faults>>

-----------------------------------------------------------------------------
(* connectionOpener. *)

OpenerTakes ==
  /\ opener = "select" /\ openerCh > 0
  /\ openerCh' = openerCh - 1
  /\ opener' = "connect"
  /\ UNCHANGED <<dbVars, poolVars, numOpen, connVars, callVars, resetter, resetterCh,
                 cleaner, admin, closer, closing, fate, faults>>

\* openNewConnection on a DB that was closed meanwhile: ci.Close(), if any.
OpenerTooLate ==
  /\ opener = "connect" /\ MuFree /\ closed
  /\ numOpen' = numOpen - 1
  /\ opener' = "select"
  /\ UNCHANGED <<dbVars, poolVars, openerCh, connVars, callVars, resetter, resetterCh,
                 cleaner, admin, closer, closing, fate, faults>>

\* Connect failed: one request, if there is any, is told so.
OpenerFails ==
  /\ opener = "connect" /\ MuFree /\ ~closed /\ Fault
  /\ \/ Accepts(numOpen - 1) /\ Deliver("error")
     \/ /\ ~Accepts(numOpen - 1) \/ connRequests = {}
        /\ UNCHANGED <<poolVars, cleaner>>
  /\ MaybeOpenNewConnections(numOpen - 1, connRequests')
  /\ opener' = "select"
  /\ UNCHANGED <<dbVars, connVars, callVars, resetter, resetterCh, admin, closer, closing, fate>>

OpenerConnected ==
  /\ opener = "connect" /\ MuFree /\ ~closed
  /\ \/ /\ Left /\ PutConnDBLocked(Fresh, numOpen)
        /\ Create(Fresh)
        /\ UNCHANGED openVars
     \/ /\ Refused(numOpen)
        /\ numOpen' = numOpen - 1
        /\ UNCHANGED <<poolVars, openerCh, connVars, cleaner>>
  /\ opener' = "select"
  /\ UNCHANGED <<dbVars, callVars, resetter, resetterCh, admin, closer, closing, fate, faults>>

OpenerExits ==
  /\ opener = "select" /\ closer = "stopped"
  /\ opener' = "exited"
  /\ UNCHANGED <<dbVars, poolVars, openVars, connVars, callVars, resetter, resetterCh,
                 cleaner, admin, closer, closing, fate, faults>>

-----------------------------------------------------------------------------
(* connectionResetter and connectionCleaner. *)

ResetterTakes ==
  /\ resetter = "select" /\ resetterCh # <<>>
  /\ resetter' = Head(resetterCh)
  /\ resetterCh' = Tail(resetterCh)
  /\ UNCHANGED <<dbVars, poolVars, openVars, connVars, callVars, opener, cleaner, admin,
                 closer, closing, fate, faults>>

\* resetSession: the driver resets, or says that the connection is bad, or
\* fails otherwise, with an error that is stored in lastErr and means nothing.
ResetSession ==
  /\ resetter \in Conns
  /\ locked' = locked \ {resetter}
  /\ \/ /\ badErr' = badErr \ {resetter} /\ dirty' = dirty \ {resetter}
        /\ UNCHANGED <<unreset, faults>>
     \/ badErr' = badErr \cup {resetter} /\ Fault /\ UNCHANGED sessVars
     \/ /\ badErr' = badErr \ {resetter} /\ unreset' = unreset \cup {resetter}
        /\ Fault /\ UNCHANGED dirty
  /\ resetter' = "select"
  /\ UNCHANGED <<dbVars, poolVars, openVars, phase, old, callVars, opener, resetterCh,
                 cleaner, admin, closer, closing, fate>>

\* ctx.Done(): close resetterCh and unlock what is still in it.
ResetterExits ==
  /\ resetter = "select" /\ closer = "stopped"
  /\ locked' = locked \ Range(resetterCh)
  /\ resetterCh' = <<>>
  /\ resetter' = "exited"
  /\ UNCHANGED <<dbVars, poolVars, openVars, phase, badErr, old, sessVars, callVars, opener,
                 cleaner, admin, closer, closing, fate, faults>>

\* One turn of connectionCleaner; it fills the gaps from the end of freeConn.
Clean ==
  LET gone == Range(freeConn) \cap old
      exit == closed \/ numOpen = 0
  IN /\ cleaner /\ MuFree
     /\ cleaner' = ~exit
     /\ \/ exit /\ UNCHANGED <<freeConn, phase>>
        \/ /\ ~exit /\ gone # {}
           /\ \E s \in SetToSeqs(Range(freeConn) \ gone) : freeConn' = s
           /\ Doom(gone)
     /\ UNCHANGED <<dbVars, connRequests, reply, inUse, openVars, locked, badErr, old, sessVars,
                    callVars, opener, resetter, resetterCh, admin, closer, closing, fate, faults>>

-----------------------------------------------------------------------------
(* The Set functions, Close, and the world. *)

\* SetMaxIdleConns(n); what is over the limit is closed.
SetMaxIdleConns(n) ==
  LET limit == IF maxOpen > 0 /\ n > maxOpen THEN maxOpen ELSE n
      keep  == Least(limit, Len(freeConn))
  IN /\ maxIdle' = limit
     /\ freeConn' = SubSeq(freeConn, 1, keep)
     /\ Doom(Range(SubSeq(freeConn, keep + 1, Len(freeConn))))
     /\ admin' = "done"
     /\ UNCHANGED <<closed, maxOpen, sessionResetter, connRequests, reply, inUse, openVars, locked, badErr, old,
                    sessVars, callVars, opener, resetter, resetterCh, cleaner, closer, closing, fate, faults>>

\* SetMaxOpenConns(n) up to its call of SetMaxIdleConns(n), if it makes one.
SetMaxOpenConns(n) ==
  /\ maxOpen' = n
  /\ admin' = IF n > 0 /\ maxIdle > n THEN "sync" ELSE "done"
  /\ UNCHANGED <<closed, maxIdle, sessionResetter, poolVars, openVars, connVars, callVars, opener, resetter,
                 resetterCh, cleaner, closer, closing, fate, faults>>

Admin == /\ MuFree
         /\ \/ \E n \in Limits : admin = "idle" /\ (SetMaxIdleConns(n) \/ SetMaxOpenConns(n))
            \/ admin = "sync" /\ SetMaxIdleConns(maxOpen)

\* Close takes db.mu.
CloseLocks ==
  /\ closer = "idle"
  /\ closer' = "locked"
  /\ UNCHANGED <<dbVars, poolVars, openVars, connVars, callVars, opener, resetter, resetterCh,
                 cleaner, admin, closing, fate, faults>>

\* It has the lock of every free connection in turn (closeDBLocked), and closes
\* the channels of the requests, which stay in connRequests.
CloseDB ==
  /\ closer = "locked" /\ Range(freeConn) \cap locked = {}
  /\ closed' = TRUE
  /\ freeConn' = <<>> /\ Doom(Range(freeConn)) /\ closing' = Range(freeConn)
  /\ reply' = [x \in Clients |-> IF x \in connRequests THEN "closed" ELSE reply[x]]
  /\ closer' = "closing"
  /\ UNCHANGED <<maxOpen, maxIdle, sessionResetter, connRequests, inUse, openVars, locked, badErr, old, sessVars,
                 callVars, opener, resetter, resetterCh, cleaner, admin, fate, faults>>

\* db.stop(), after the connections were closed.
CloseStops ==
  /\ closer = "closing" /\ closing = {}
  /\ closer' = "stopped"
  /\ UNCHANGED <<dbVars, poolVars, openVars, connVars, callVars, opener, resetter, resetterCh,
                 cleaner, admin, closing, fate, faults>>

CtxExpires(x) ==
  /\ expired' = expired \cup {x}
  /\ x \in Timed \ expired
  /\ UNCHANGED <<dbVars, poolVars, openVars, connVars, pc, conn, attempt, bgVars, fate, faults>>

\* maxLifetime has passed since createdAt.
Ages(dc) ==
  /\ phase[dc] = "open" /\ dc \notin old /\ Fault
  /\ old' = old \cup {dc}
  /\ UNCHANGED <<dbVars, poolVars, openVars, phase, locked, badErr, sessVars, callVars, bgVars, fate>>

-----------------------------------------------------------------------------
Client(x) ==
  /\ fate = "runs"
  /\ \/ ConnRefuse(x) \/ ConnCached(x) \/ ConnRequest(x) \/ ConnOpen(x) \/ ConnectFails(x)
     \/ Connected(x) \/ Receive(x) \/ GiveUp(x) \/ LastLook(x) \/ Check(x)
     \/ PutBad(x) \/ PutTaken(x) \/ PutRefused(x) \/ SendReset(x)
Closing(dc) == fate = "runs" /\ (CloseConn(dc) \/ FinalClose(dc))
Opener == fate = "runs" /\ (OpenerTakes \/ OpenerTooLate \/ OpenerFails \/ OpenerConnected \/ OpenerExits)
Resetter == fate = "runs" /\ (ResetterTakes \/ ResetSession \/ ResetterExits)
CloseGoesOn == fate = "runs" /\ (CloseDB \/ CloseStops)
World == fate = "runs" /\ (CloseLocks \/ Admin \/ Clean \/ \E x \in Clients : CtxExpires(x))

Next == \/ \E x \in Clients : Client(x)
        \/ \E dc \in Conns : Closing(dc) \/ (fate = "runs" /\ Ages(dc))
        \/ Opener \/ Resetter \/ CloseGoesOn \/ World

Spec == Init /\ [][Next]_vars

\* Goroutines that can run do, and queries, Connect and ResetSession return.
\* Nobody is made to call Close, contexts need not expire.
FairSpec == /\ Spec /\ WF_vars(Opener) /\ WF_vars(Resetter) /\ WF_vars(CloseGoesOn)
            /\ \A x \in Clients : WF_vars(Client(x))
            /\ \A dc \in Conns : WF_vars(Closing(dc))

-----------------------------------------------------------------------------
Connecting == Cardinality({x \in Clients : pc[x] = "connect"}) + (IF opener = "connect" THEN 1 ELSE 0)

(***************************************************************************)
(* "number of opened and pending open connections": numOpen, which is      *)
(* raised before a connection exists and lowered in five places, is exact  *)
(* until Close.                                                            *)
(***************************************************************************)
NumOpenExact ==
  ~closed => numOpen = openerCh + Connecting + Cardinality({c \in Conns : phase[c] # "none"})

(***************************************************************************)
(* Types, with no connection idle twice and every connection queued for    *)
(* its reset locked, and the count of open connections.                    *)
(***************************************************************************)
Inv == TypeOK /\ NumOpenExact

\* Connections of the driver that are open, being opened or asked for.
Live == openerCh + Connecting + Cardinality({c \in Conns : phase[c] \in {"open", "doomed"}})

(***************************************************************************)
(* SetMaxOpenConns "sets the maximum number of open connections": through  *)
(* all retries, hand-overs and closings no connection is asked for beyond  *)
(* the limit of that moment, be it just lowered.                           *)
(***************************************************************************)
GrowsWithinLimit ==
  [][(~closed /\ maxOpen > 0 /\ Live' > Live) => Live' <= maxOpen]_vars

Holders(dc) ==
  {x \in Clients : conn[x] = dc /\ pc[x] \in {"cached", "use", "giveback"}}
    \cup {x \in Clients : reply[x] = dc}

(***************************************************************************)
(* An open connection is always in exactly one hand: idle, with one        *)
(* client, or on its way to one, also when the client's ctx expired while  *)
(* the connection was sent to it; and putConn never gets one "that was     *)
(* never out".                                                             *)
(***************************************************************************)
OneHolder ==
  \A dc \in Conns :
    IF dc \in Range(freeConn) THEN phase[dc] = "open" /\ Holders(dc) = {} /\ dc \notin inUse
    ELSE phase[dc] = "open" => Cardinality(Holders(dc)) = 1 /\ dc \in inUse

(***************************************************************************)
(* A connection that served one client is reset before it serves another,  *)
(* if its driver can reset it ("so it isn't released until the connection  *)
(* is reset").  Two escape: what was still in resetterCh when the resetter *)
(* stopped, and a connection whose ResetSession returned, after that use,  *)
(* an error other than ErrBadConn.                                         *)
(***************************************************************************)
ResetBeforeReuse ==
  sessionResetter =>
    \A x \in Clients : (pc[x] = "use" /\ conn[x] \in dirty)
                          => resetter = "exited" \/ conn[x] \in unreset

(***************************************************************************)
(* "The lock must be taken before the connection is put into the pool to   *)
(* prevent it from being taken out before it is reset": while the resetter *)
(* runs no client gets a connection that was not.                          *)
(***************************************************************************)
AlwaysReset ==
  sessionResetter => \A x \in Clients : (pc[x] = "use" /\ conn[x] \in dirty) => resetter = "exited"

(***************************************************************************)
(* No idle connection while a client waits in line, unless that client is  *)
(* on its last attempt, for which conn does not look at freeConn.          *)
(***************************************************************************)
NoneIdleWhileWaiting ==
  \A x \in connRequests \ {y \in Clients : attempt[y] = maxBadConnRetries} :
    (closed \/ freeConn = <<>>)

Returned == \A x \in Clients : pc[x] \in {"done", "failed"}

\* A client on its last attempt waits although a connection is idle.
Stranded == \E x \in connRequests : attempt[x] = maxBadConnRetries /\ freeConn # <<>>

(***************************************************************************)
(* Every call returns, whatever fails and whenever the DB is closed or its *)
(* limits are changed, but for the two ways out that the code has: a       *)
(* stranded last attempt, and the panic of a send on resetterCh.           *)
(***************************************************************************)
CallsReturn == []<>(Returned \/ Stranded \/ fate = "panic")

(***************************************************************************)
(* putConn: "Prevents writing to resetterCh after the DB has closed."      *)
(***************************************************************************)
NoPanic == fate # "panic"

(***************************************************************************)
(* "before forcing a new connection to be opened", "alwaysNewConn forces a *)
(* new connection to the database": the last attempt gets one, or an       *)
(* error, and the call returns.                                            *)
(***************************************************************************)
AttemptsEnd == []<>(Returned \/ fate = "panic")
=============================================================================
