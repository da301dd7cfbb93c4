---------------------------- MODULE HttpTransport ----------------------------
(***************************************************************************)
(* The connections of net/http's Transport (transport.go) to one host over *)
(* HTTP/1: requests that want a connection, the dials made for them, the   *)
(* idle list with its LRU, the count of connections per host, and the      *)
(* readLoop of every persistConn.  A step is one hold of idleMu,           *)
(* connsPerHostMu, pc.mu or w.mu (with what is nested in it), or one       *)
(* choice of a select.  Channels, select and timers are taken by their     *)
(* contract in Go.                                                         *)
(***************************************************************************)
EXTENDS Naturals, Sequences, FiniteSets, SequencesExt

CONSTANTS Requests,
          Bodies,     \* the requests whose response has a body
          Timed,      \* those whose context may be done
          Cancelable, \* those CancelRequest may be called for
          Conns,      \* persistConns that exist at the same time
          MaxConnsPerHost, MaxIdleConnsPerHost, MaxIdleConns,
          MaxAttempts, \* bound on the turns of roundTrip's loop
          MaxFaults,   \* bound on failures, hang-ups, CloseIdleConnections and CancelRequest
          None

ASSUME HttpTransportAssumption ==
  /\ Bodies \cup Timed \cup Cancelable \subseteq Requests
  /\ \A n \in {MaxConnsPerHost, MaxIdleConnsPerHost, MaxIdleConns, MaxAttempts} :
       n \in Nat \ {0}
  /\ MaxFaults \in Nat
  /\ IsFiniteSet(Requests) /\ IsFiniteSet(Conns)
  /\ Conns \cap {None, "new", "waiting", "error", "canceled", "taken"} = {}

Wants == Requests \X (1..MaxAttempts)

VARIABLES
  idleConn, idleLRU, idleConnWait, closeIdle, \* under idleMu; idleLRU newest first
  connsPerHost, connsPerHostWait,   \* under connsPerHostMu
  want,       \* per wantConn: waiting, the connection or error it was given
  dials,      \* per wantConn: whether its dialConnFor runs
  uncount,    \* failed dials that are still counted in connsPerHost
  closed, reused, canceledErr,      \* of the persistConns
  loop,       \* where the readLoop of each is
  home,       \* where a putOrCloseIdleConn of each is
  timer,      \* the persistConns whose idleTimer is set
  pc, conn, attempt,                \* of the requests
  reqCanceler, done, cancelc,       \* requests with a canceler, a done ctx, an error in cancelc
  canceling,  \* requests inside the pc.cancelRequest that their own ctx led to
  aborts,     \* persistConns that a CancelRequest from outside is about to cancel
  rcReq,      \* per persistConn: the rc.req its readLoop has a response for
  answered,   \* requests whose response a readLoop has read
  faults

idleVars == <<idleConn, idleLRU, idleConnWait, closeIdle>>
hostVars == <<connsPerHost, connsPerHostWait>>
connVars == <<closed, reused, canceledErr>>
askVars  == <<done, cancelc, canceling, aborts, rcReq>>
cancVars == <<reqCanceler, askVars>>
vars == <<idleVars, hostVars, want, dials, uncount, connVars, loop, home, timer, pc, conn, attempt,
          cancVars, answered, faults>>

\* The types; the idle connections are in the LRU, and what else is there was
\* closed by its readLoop and dropped by queueForIdleConn.
TypeOK ==
  /\ idleConn \in Seq(Conns) /\ idleLRU \in Seq(Conns)
  /\ IsInjective(idleConn) /\ IsInjective(idleLRU)
  /\ Range(idleConn) \subseteq Range(idleLRU)
  /\ Range(idleLRU) \ Range(idleConn) \subseteq closed
  /\ idleConnWait \in Seq(Wants) /\ connsPerHostWait \in Seq(Wants)
  /\ closeIdle \in BOOLEAN /\ connsPerHost \in 0..MaxConnsPerHost
  /\ want \in [Wants -> Conns \cup {"new", "waiting", "error", "canceled", "taken"}]
  /\ dials \in [Wants -> {"none", "dialing"}] /\ uncount \in Nat
  /\ \A S \in {closed, reused, canceledErr, timer} : S \subseteq Conns
  /\ loop \in [Conns -> {"none", "peek", "read", "check", "put", "alive", "dead", "body",
                         "bodycheck", "bodyput", "exit", "remove"}]
  /\ home \in [Conns -> {"none", "check", "put", "close"}]
  /\ pc \in [Requests -> {"start", "queued", "wait", "got", "sent", "reading", "done", "failed"}]
  /\ conn \in [Requests -> Conns \cup {None}] /\ attempt \in [Requests -> 1..MaxAttempts]
  /\ \A S \in {reqCanceler, done, cancelc, canceling, answered} : S \subseteq Requests
  /\ aborts \subseteq Conns /\ rcReq \in [Conns -> Requests \cup {None}]
  /\ faults \in 0..MaxFaults

Init ==
  /\ idleConn = <<>> /\ idleLRU = <<>> /\ idleConnWait = <<>> /\ closeIdle = FALSE
  /\ connsPerHost = 0 /\ connsPerHostWait = <<>>
  /\ want = [w \in Wants |-> "new"] /\ dials = [w \in Wants |-> "none"] /\ uncount = 0
  /\ closed = {} /\ reused = {} /\ canceledErr = {} /\ timer = {}
  /\ loop = [p \in Conns |-> "none"] /\ home = [p \in Conns |-> "none"]
  /\ pc = [r \in Requests |-> "start"] /\ conn = [r \in Requests |-> None]
  /\ attempt = [r \in Requests |-> 1]
  /\ reqCanceler = {} /\ done = {} /\ cancelc = {} /\ canceling = {} /\ aborts = {}
  /\ rcReq = [p \in Conns |-> None] /\ answered = {} /\ faults = 0

-----------------------------------------------------------------------------
(* wantConn, wantConnQueue, connLRU. *)

W(r) == <<r, attempt[r]>>
Waiting(w) == want[w] = "waiting"

\* cleanFront: the queue from its first wantConn that still waits.
CleanFront(q) ==
  LET live == {i \in 1..Len(q) : Waiting(q[i])}
  IN IF live = {} THEN <<>>
     ELSE SubSeq(q, Min(live), Len(q))

Without(s, p) == RemoveFirst(s, p)

Goto(r, l) == pc' = [pc EXCEPT ![r] = l]
Fault == faults < MaxFaults /\ faults' = faults + 1

-----------------------------------------------------------------------------
(* Closing, and the count of connections per host. *)

\* Mutant: the count is lowered although somebody waits for it.
DecConnsPerHost_drop(k) ==
  /\ connsPerHost' = connsPerHost - k
  /\ UNCHANGED <<connsPerHostWait, dials>>

\* decConnsPerHost, called k times (0 or 1): the place goes to the first that
\* still waits.  It clears what waits no longer from the queue.
DecConnsPerHost(k) ==
  LET q == CleanFront(connsPerHostWait)
  IN IF k = 0 THEN UNCHANGED <<hostVars, dials>>
     ELSE IF q # <<>>
     THEN /\ connsPerHostWait' = Tail(q)
          /\ dials' = [dials EXCEPT ![Head(q)] = "dialing"]
          /\ UNCHANGED connsPerHost
     ELSE /\ connsPerHostWait' = <<>>
          /\ connsPerHost' = connsPerHost - 1
          /\ UNCHANGED dials

\* Mutant: closing twice counts twice.
Counts_always(p) == 1

Counts(p) == IF p \in closed THEN 0 ELSE 1

\* pc.close(err): it counts the first time.
Close(p) == closed' = closed \cup {p} /\ DecConnsPerHost(Counts(p))

-----------------------------------------------------------------------------
(* tryPutIdleConn under idleMu. *)

\* Mutant: only the first in the queue is asked, whether it waits or not.
Takers_first(q) == IF q # <<>> /\ ~Waiting(Head(q)) THEN <<>> ELSE q

\* The queue from the wantConn that tryDeliver succeeds for.
Takers(q) == CleanFront(q)

HandOver(p) ==
  LET q == Takers(idleConnWait)
  IN /\ q # <<>>
     /\ want' = [want EXCEPT ![Head(q)] = p]
     /\ idleConnWait' = Tail(q)
     /\ UNCHANGED <<idleConn, idleLRU, closeIdle, hostVars, dials, closed, timer>>

\* removeIdleConnLocked's effect on the idle list.
Evicted(s, p) == Without(s, p)

\* The LRU gives up its oldest when it is too long.
Keep(p) ==
  LET lru == <<p>> \o idleLRU
  IN /\ Takers(idleConnWait) = <<>> /\ ~closeIdle
     /\ Len(idleConn) < MaxIdleConnsPerHost
     /\ \/ /\ Len(lru) <= MaxIdleConns
           /\ idleConn' = Append(idleConn, p) /\ idleLRU' = lru
           /\ timer' = timer \cup {p}
           /\ UNCHANGED <<hostVars, dials, closed>>
        \/ /\ Len(lru) > MaxIdleConns
           /\ idleConn' = Evicted(Append(idleConn, p), Last(lru))
           /\ idleLRU' = Front(lru)
           /\ Close(Last(lru))
           /\ timer' = (timer \ {Last(lru)}) \cup {p}
     /\ idleConnWait' = <<>>
     /\ UNCHANGED <<want, closeIdle>>

Refuse ==
  /\ Takers(idleConnWait) = <<>>
  /\ closeIdle \/ Len(idleConn) >= MaxIdleConnsPerHost
  /\ idleConnWait' = <<>>
  /\ UNCHANGED <<idleConn, idleLRU, closeIdle, hostVars, want, dials, closed, timer>>

-----------------------------------------------------------------------------
(* putOrCloseIdleConn by a request or a dial. *)

\* The test of isBroken, before idleMu is taken; markReused.
HomeCheck(p) ==
  /\ home[p] = "check"
  /\ home' = [home EXCEPT ![p] = IF p \in closed THEN "close" ELSE "put"]
  /\ reused' = IF p \in closed THEN reused ELSE reused \cup {p}
  /\ UNCHANGED <<idleVars, hostVars, want, dials, uncount, closed, canceledErr, loop, timer, pc, conn,
                 attempt, cancVars, answered, faults>>

HomePut(p) ==
  /\ home[p] = "put"
  /\ \/ (HandOver(p) \/ Keep(p)) /\ home' = [home EXCEPT ![p] = "none"]
     \/ Refuse /\ home' = [home EXCEPT ![p] = "close"]
  /\ UNCHANGED <<uncount, reused, canceledErr, loop, pc, conn, attempt, cancVars, answered, faults>>

\* pconn.close(err), there and in CloseIdleConnections.
HomeClose(p) ==
  /\ home[p] = "close"
  /\ Close(p)
  /\ home' = [home EXCEPT ![p] = "none"]
  /\ UNCHANGED <<idleVars, want, uncount, reused, canceledErr, loop, timer, pc, conn, attempt,
                 cancVars, answered, faults>>

-----------------------------------------------------------------------------
(* getConn. *)

\* The list without the broken connections at its end.
Usable(s) ==
  LET live == {i \in 1..Len(s) : s[i] \notin closed}
  IN IF live = {} THEN <<>>
     ELSE SubSeq(s, 1, Max(live))

\* The top of roundTrip's loop.
CtxDone(r) ==
  /\ pc[r] = "start" /\ r \in done
  /\ Goto(r, "failed")
  /\ UNCHANGED <<idleVars, hostVars, want, dials, uncount, connVars, loop, home, timer, conn, attempt,
                 cancVars, answered, faults>>

\* queueForIdleConn, and setReqCanceler when a connection is there.
QueueForIdleConn(r) ==
  LET list == Usable(idleConn)
  IN /\ pc[r] = "start" /\ r \notin done
     /\ closeIdle' = FALSE
     /\ \/ /\ list # <<>>
           /\ conn' = [conn EXCEPT ![r] = Last(list)]
           /\ idleConn' = Front(list) /\ idleLRU' = Without(idleLRU, Last(list))
           /\ want' = [want EXCEPT ![W(r)] = "taken"]
           /\ reqCanceler' = reqCanceler \cup {r}
           /\ Goto(r, "got")
           /\ UNCHANGED idleConnWait
        \/ /\ list = <<>>
           /\ idleConn' = <<>>
           /\ idleConnWait' = Append(CleanFront(idleConnWait), W(r))
           /\ want' = [want EXCEPT ![W(r)] = "waiting"]
           /\ Goto(r, "queued")
           /\ UNCHANGED <<idleLRU, conn, reqCanceler>>
     /\ UNCHANGED <<hostVars, dials, uncount, connVars, loop, home, timer, attempt, askVars,
                    answered, faults>>

\* setReqCanceler and queueForDial.
QueueForDial(r) ==
  /\ pc[r] = "queued"
  /\ reqCanceler' = reqCanceler \cup {r}
  /\ \/ /\ connsPerHost < MaxConnsPerHost
        /\ connsPerHost' = connsPerHost + 1
        /\ dials' = [dials EXCEPT ![W(r)] = "dialing"]
        /\ UNCHANGED connsPerHostWait
     \/ /\ connsPerHost >= MaxConnsPerHost
        /\ connsPerHostWait' = Append(CleanFront(connsPerHostWait), W(r))
        /\ UNCHANGED <<connsPerHost, dials>>
  /\ Goto(r, "wait")
  /\ UNCHANGED <<idleVars, want, uncount, connVars, loop, home, timer, conn, attempt, askVars,
                 answered, faults>>

\* case <-w.ready with a connection.
Ready(r) ==
  /\ pc[r] = "wait" /\ want[W(r)] \in Conns
  /\ conn' = [conn EXCEPT ![r] = want[W(r)]]
  /\ want' = [want EXCEPT ![W(r)] = "taken"]
  /\ Goto(r, "got")
  /\ UNCHANGED <<idleVars, hostVars, dials, uncount, connVars, loop, home, timer, attempt, cancVars,
                 answered, faults>>

\* Mutant: a connection that was delivered before is forgotten.
Returned_none(r) == {}

\* The connection w.cancel gives back.
Returned(r) == {want[W(r)]} \cap Conns

\* The other ways out of getConn, with w.cancel.
GetConnFails(r) ==
  /\ pc[r] = "wait" /\ (want[W(r)] = "error" \/ r \in done \/ r \in cancelc)
  /\ home' = [p \in Conns |-> IF p \in Returned(r) THEN "check" ELSE home[p]]
  /\ want' = [want EXCEPT ![W(r)] = "canceled"]
  /\ reqCanceler' = reqCanceler \ {r}
  /\ Goto(r, "failed")
  /\ UNCHANGED <<idleVars, hostVars, dials, uncount, connVars, loop, timer, conn, attempt, askVars,
                 answered, faults>>

\* A persistConn nobody refers to any more, to stand for a new one.
Fresh == {p \in Conns : /\ loop[p] = "none" /\ home[p] = "none" /\ p \notin aborts
                        /\ p \notin Range(idleConn) \cup Range(idleLRU)
                        /\ \A r \in Requests : conn[r] # p
                        /\ \A w \in Wants : want[w] # p}

\* dialConnFor when dialConn succeeds.
DialDone(w) ==
  LET p == CHOOSE p \in Fresh : TRUE
  IN /\ dials[w] = "dialing" /\ Fresh # {}
     /\ dials' = [dials EXCEPT ![w] = "none"]
     /\ loop' = [loop EXCEPT ![p] = "peek"]
     /\ closed' = closed \ {p} /\ reused' = reused \ {p} /\ canceledErr' = canceledErr \ {p}
     /\ timer' = timer \ {p}
     /\ want' = IF Waiting(w) THEN [want EXCEPT ![w] = p] ELSE want
     /\ home' = IF Waiting(w) THEN home ELSE [home EXCEPT ![p] = "check"]
     /\ UNCHANGED <<idleVars, hostVars, uncount, pc, conn, attempt, cancVars, answered, faults>>

\* And when it fails, up to and from decConnsPerHost.
DialFails(w) ==
  /\ dials[w] = "dialing" /\ Fault
  /\ dials' = [dials EXCEPT ![w] = "none"]
  /\ uncount' = uncount + 1
  /\ want' = IF Waiting(w) THEN [want EXCEPT ![w] = "error"] ELSE want
  /\ UNCHANGED <<idleVars, hostVars, connVars, loop, home, timer, pc, conn, attempt, cancVars, answered>>

DialUncounts ==
  /\ uncount > 0
  /\ uncount' = uncount - 1
  /\ DecConnsPerHost(1)
  /\ UNCHANGED <<idleVars, want, connVars, loop, home, timer, pc, conn, attempt, cancVars,
                 answered, faults>>

-----------------------------------------------------------------------------
(* persistConn.roundTrip. *)

\* replaceReqCanceler finds that CancelRequest was there first.
GiveBack(r) ==
  /\ pc[r] = "got" /\ r \notin reqCanceler
  /\ home' = [home EXCEPT ![conn[r]] = "check"]
  /\ conn' = [conn EXCEPT ![r] = None]
  /\ Goto(r, "failed")
  /\ UNCHANGED <<idleVars, hostVars, want, dials, uncount, connVars, loop, timer, attempt, cancVars,
                 answered, faults>>

\* numExpectedResponses++, and the request is with writeLoop and readLoop.
Send(r) ==
  /\ pc[r] = "got" /\ r \in reqCanceler
  /\ Goto(r, "sent")
  /\ UNCHANGED <<idleVars, hostVars, want, dials, uncount, connVars, loop, home, timer, conn, attempt,
                 cancVars, answered, faults>>

\* cancelRequest: the canceler is taken out under reqMu ...
TakesCanceler(r) ==
  /\ r \in reqCanceler
  /\ reqCanceler' = reqCanceler \ {r}

\* ... and called then: pc.cancelRequest closes the connection, whoever has it.
Cancel(p) ==
  /\ canceledErr' = canceledErr \cup {p}
  /\ Close(p)
  /\ UNCHANGED <<idleVars, want, uncount, reused, loop, home, timer, pc, conn, attempt,
                 reqCanceler, done, cancelc, rcReq, answered, faults>>

\* case <-ctxDoneChan.
SeesDone(r) ==
  /\ pc[r] = "sent" /\ r \in done /\ TakesCanceler(r)
  /\ canceling' = canceling \cup {r}
  /\ UNCHANGED <<idleVars, hostVars, want, dials, uncount, connVars, loop, home, timer, pc, conn,
                 attempt, done, cancelc, aborts, rcReq, answered, faults>>

CancelsOwn(r) ==
  /\ r \in canceling
  /\ Cancel(conn[r])
  /\ canceling' = canceling \ {r} /\ UNCHANGED aborts

CancelsOutside(p) ==
  /\ p \in aborts
  /\ Cancel(p)
  /\ aborts' = aborts \ {p} /\ UNCHANGED canceling

\* roundTrip returns an error.  shouldRetryRequest sends the request again only on
\* a connection used before, not when it was cancelled, and then depending on the
\* error and the request, which are left open.  Once a response was read it takes
\* that nothing was written, so readLoop did not find that wroteRequest.
Retries(r) ==
  LET may == /\ conn[r] \in reused \ canceledErr /\ attempt[r] < MaxAttempts
             /\ r \in answered => loop[conn[r]] \in {"read", "dead"}
  IN {FALSE, may}

Fails(r) ==
  /\ \E retry \in Retries(r) :
       /\ pc' = [pc EXCEPT ![r] = IF retry THEN "start" ELSE "failed"]
       /\ attempt' = [attempt EXCEPT ![r] = IF retry THEN @ + 1 ELSE @]
       /\ answered' = IF retry THEN answered \ {r} ELSE answered
  /\ conn' = [conn EXCEPT ![r] = None]
  /\ reqCanceler' = reqCanceler \ {r}

\* case <-pc.closech.
SeesClosed(r) ==
  /\ pc[r] = "sent" /\ r \notin canceling /\ conn[r] \in closed
  /\ Fails(r)
  /\ UNCHANGED <<idleVars, hostVars, want, dials, uncount, connVars, loop, home, timer, askVars, faults>>

\* An error from writeErrCh, or respHeaderTimer: the request closes the connection,
\* although readLoop may have a response by now.
Breaks(r) ==
  /\ pc[r] = "sent" /\ r \notin canceling /\ Fault
  /\ Close(conn[r])
  /\ Fails(r)
  /\ UNCHANGED <<idleVars, want, uncount, reused, canceledErr, loop, home, timer, askVars>>

-----------------------------------------------------------------------------
(* readLoop. *)

\* The request whose rc the readLoop has or will receive.
Rc(p) == {r \in Requests : conn[r] = p /\ pc[r] = "sent"}

LoopTo(p, l) == loop' = [loop EXCEPT ![p] = l]

\* Reading fails: on a closed connection, or because of the server.
HangsUp(p) == \/ p \in closed /\ UNCHANGED faults
              \/ p \notin closed /\ Fault

\* Peek fails, or the server spoke out of turn, while no response is expected.
PeekFailsIdle(p) ==
  /\ loop[p] = "peek" /\ Rc(p) = {} /\ HangsUp(p)
  /\ Close(p)
  /\ LoopTo(p, "exit")
  /\ UNCHANGED <<idleVars, want, uncount, reused, canceledErr, home, timer, pc, conn, attempt,
                 cancVars, answered>>

\* Peek or readResponse fails: the request is told, or is gone already.
ReadFails(p) ==
  /\ loop[p] = "peek" /\ HangsUp(p)
  /\ \E r \in Rc(p) \ canceling : Fails(r)
  /\ LoopTo(p, "exit")
  /\ UNCHANGED <<idleVars, hostVars, want, dials, uncount, connVars, home, timer, askVars>>

\* A response; one with a body is sent at once.
ReadResponse(p) ==
  /\ loop[p] = "peek"
  /\ \E r \in Rc(p) :
       \/ /\ r \in Bodies \ canceling
          /\ Goto(r, "reading") /\ LoopTo(p, "body")
          /\ UNCHANGED rcReq
       \/ /\ r \notin Bodies
          /\ LoopTo(p, "read")
          /\ rcReq' = [rcReq EXCEPT ![p] = r]
          /\ UNCHANGED pc
  /\ answered' = answered \cup Rc(p)
  /\ UNCHANGED <<idleVars, hostVars, want, dials, uncount, connVars, home, timer, conn, attempt,
                 reqCanceler, done, cancelc, canceling, aborts, faults>>

\* setReqCanceler(rc.req, nil), be it the canceler of a later attempt; the
\* connection may live on unless it is to be closed.
DropCanceler(p) ==
  /\ loop[p] = "read"
  /\ reqCanceler' = reqCanceler \ {rcReq[p]}
  /\ rcReq' = [rcReq EXCEPT ![p] = None]
  /\ \E l \in {"check", "dead"} : LoopTo(p, l)
  /\ UNCHANGED <<idleVars, hostVars, want, dials, uncount, connVars, home, timer, pc, conn, attempt,
                 done, cancelc, canceling, aborts, answered, faults>>

\* The caller read the body to its end, or closed it.
BodyRead(r) ==
  /\ pc[r] = "reading" /\ r \notin canceling /\ loop[conn[r]] = "body"
  /\ \E l \in {"bodycheck", "exit"} : LoopTo(conn[r], l)
  /\ Goto(r, "done")
  /\ conn' = [conn EXCEPT ![r] = None]
  /\ reqCanceler' = reqCanceler \ {r}
  /\ UNCHANGED <<idleVars, hostVars, want, dials, uncount, connVars, home, timer, attempt, askVars,
                 answered, faults>>

\* case <-rc.req.Context().Done(), while the body is read.
BodyDone(r) ==
  /\ pc[r] = "reading" /\ r \in done /\ TakesCanceler(r)
  /\ canceling' = canceling \cup {r}
  /\ UNCHANGED <<idleVars, hostVars, want, dials, uncount, connVars, loop, home, timer, pc, conn,
                 attempt, done, cancelc, aborts, rcReq, answered, faults>>

\* case <-pc.closech, or the ctx is done and was noticed before.
BodyClosed(r) ==
  /\ pc[r] = "reading" /\ r \notin canceling
  /\ conn[r] \in closed \/ r \in done \ reqCanceler
  /\ LoopTo(conn[r], "exit")
  /\ Goto(r, "done")
  /\ conn' = [conn EXCEPT ![r] = None]
  /\ UNCHANGED <<idleVars, hostVars, want, dials, uncount, connVars, home, timer, attempt, cancVars,
                 answered, faults>>

\* tryPutIdleConn, first without idleMu, then with it; with a body the response
\* was sent before.
LoopCheck(p) ==
  /\ loop[p] \in {"check", "bodycheck"}
  /\ LoopTo(p, IF p \notin closed THEN IF loop[p] = "check" THEN "put" ELSE "bodyput"
               ELSE IF loop[p] = "check" THEN "dead" ELSE "exit")
  /\ reused' = IF p \in closed THEN reused ELSE reused \cup {p}
  /\ UNCHANGED <<idleVars, hostVars, want, dials, uncount, closed, canceledErr, home, timer, pc, conn,
                 attempt, cancVars, answered, faults>>

LoopPut(p) ==
  /\ loop[p] \in {"put", "bodyput"}
  /\ \/ (HandOver(p) \/ Keep(p)) /\ LoopTo(p, IF loop[p] = "put" THEN "alive" ELSE "peek")
     \/ Refuse /\ LoopTo(p, IF loop[p] = "put" THEN "dead" ELSE "exit")
  /\ UNCHANGED <<uncount, reused, canceledErr, home, pc, conn, attempt, cancVars, answered, faults>>

\* The response goes to the request, unless it has returned (callerGone).
Reply(p) ==
  LET rc == Rc(p) \cap answered
  IN /\ loop[p] \in {"alive", "dead"} /\ rc \cap canceling = {}
     /\ pc' = [r \in Requests |-> IF r \in rc THEN "done" ELSE pc[r]]
     /\ conn' = [r \in Requests |-> IF r \in rc THEN None ELSE conn[r]]
     /\ LoopTo(p, IF loop[p] = "alive" /\ rc # {} THEN "peek" ELSE "exit")
     /\ UNCHANGED <<idleVars, hostVars, want, dials, uncount, connVars, home, timer, attempt, cancVars,
                    answered, faults>>

\* The deferred pc.close and removeIdleConn.
LoopExits(p) ==
  /\ loop[p] = "exit"
  /\ Close(p)
  /\ LoopTo(p, "remove")
  /\ UNCHANGED <<idleVars, want, uncount, reused, canceledErr, home, timer, pc, conn, attempt,
                 cancVars, answered, faults>>

RemoveIdleConn(p) ==
  /\ loop[p] = "remove"
  /\ idleConn' = Evicted(idleConn, p) /\ idleLRU' = Without(idleLRU, p)
  /\ timer' = timer \ {p}
  /\ LoopTo(p, "none")
  /\ UNCHANGED <<idleConnWait, closeIdle, hostVars, want, dials, uncount, connVars, home, pc, conn,
                 attempt, cancVars, answered, faults>>

-----------------------------------------------------------------------------
(* Timers, CloseIdleConnections, cancellation. *)

\* closeConnIfStillIdle.
IdleTimeout(p) ==
  /\ p \in timer
  /\ timer' = timer \ {p}
  /\ \/ /\ p \in Range(idleLRU)
        /\ idleConn' = Evicted(idleConn, p) /\ idleLRU' = Without(idleLRU, p)
        /\ Close(p)
     \/ p \notin Range(idleLRU) /\ UNCHANGED <<idleConn, idleLRU, closed, hostVars, dials>>
  /\ UNCHANGED <<idleConnWait, closeIdle, want, uncount, reused, canceledErr, loop, home, pc, conn,
                 attempt, cancVars, answered, faults>>

\* It takes the idle connections out and then closes them one by one.
CloseIdleConnections ==
  /\ Fault
  /\ idleConn' = <<>> /\ idleLRU' = <<>> /\ closeIdle' = TRUE
  /\ home' = [p \in Conns |-> IF p \in Range(idleConn) THEN "close" ELSE home[p]]
  /\ UNCHANGED <<idleConnWait, hostVars, want, dials, uncount, connVars, loop, timer, pc, conn,
                 attempt, cancVars, answered>>

ContextDone(r) ==
  /\ r \in Timed \ done
  /\ done' = done \cup {r}
  /\ UNCHANGED <<idleVars, hostVars, want, dials, uncount, connVars, loop, home, timer, pc, conn,
                 attempt, reqCanceler, cancelc, canceling, aborts, rcReq, answered, faults>>

\* CancelRequest: what the canceler does depends on where the request is.
CancelRequest(r) ==
  /\ r \in Cancelable /\ TakesCanceler(r) /\ Fault
  /\ \/ /\ pc[r] \in {"sent", "reading"}
        /\ aborts' = aborts \cup {conn[r]} /\ UNCHANGED cancelc
     \/ /\ pc[r] \notin {"sent", "reading"}
        /\ cancelc' = cancelc \cup {r} /\ UNCHANGED aborts
  /\ UNCHANGED <<idleVars, hostVars, want, dials, uncount, connVars, loop, home, timer, pc, conn,
                 attempt, done, canceling, rcReq, answered>>

-----------------------------------------------------------------------------
Request(r) == \/ CtxDone(r) \/ QueueForIdleConn(r) \/ QueueForDial(r) \/ Ready(r)
              \/ GetConnFails(r) \/ GiveBack(r) \/ Send(r) \/ SeesDone(r) \/ SeesClosed(r)
              \/ BodyRead(r) \/ BodyClosed(r) \/ BodyDone(r) \/ CancelsOwn(r)
Dial(w)    == DialDone(w) \/ DialFails(w)
Loop(p)    == \/ ReadFails(p) \/ ReadResponse(p) \/ DropCanceler(p) \/ LoopCheck(p) \/ LoopPut(p) \/ Reply(p)
              \/ LoopExits(p) \/ RemoveIdleConn(p)
Homing(p)  == HomeCheck(p) \/ HomePut(p) \/ HomeClose(p)

Next == \/ \E r \in Requests : Request(r) \/ Breaks(r) \/ ContextDone(r) \/ CancelRequest(r)
        \/ \E w \in Wants : Dial(w)
        \/ \E p \in Conns : Loop(p) \/ PeekFailsIdle(p) \/ Homing(p) \/ IdleTimeout(p) \/ CancelsOutside(p)
        \/ DialUncounts \/ CloseIdleConnections

Spec == Init /\ [][Next]_vars

\* Goroutines run, dials end and servers answer or hang up in the end; a closed
\* connection is noticed.  Nothing else has to happen: no time-out, no cancellation.
FairSpec == /\ Spec /\ WF_vars(DialUncounts)
            /\ \A r \in Requests : WF_vars(Request(r))
            /\ \A w \in Wants : WF_vars(Dial(w))
            /\ \A p \in Conns : /\ WF_vars(Loop(p)) /\ WF_vars(Homing(p))
                                /\ WF_vars(p \in closed /\ PeekFailsIdle(p))

-----------------------------------------------------------------------------
(***************************************************************************)
(* connsPerHost counts the dials and the connections that are not closed,  *)
(* wherever a close comes from (decConnsPerHost would panic on "connCount  *)
(* underflow").                                                            *)
(***************************************************************************)
CountExact ==
  connsPerHost = uncount + Cardinality({w \in Wants : dials[w] = "dialing"})
                   + Cardinality({p \in Conns : loop[p] # "none" /\ p \notin closed})

(***************************************************************************)
(* Types, with every idle connection also in the LRU and nothing else      *)
(* there but closed ones, and the count of connections.                    *)
(***************************************************************************)
Inv == TypeOK /\ CountExact

Holders(p) ==
  {r \in Requests : /\ conn[r] = p
                    /\ pc[r] \in {"got", "reading"} \/ (pc[r] = "sent" /\ r \notin answered)}
    \cup {w \in Wants : want[w] = p}
    \cup {x \in {"idle"} : p \in Range(idleConn)}
    \cup {x \in {"home"} : home[p] # "none"}
    \cup {x \in {"loop"} : loop[p] \in {"read", "check", "put", "bodycheck", "bodyput", "dead", "exit"}}

(***************************************************************************)
(* A connection that is not closed serves one request, is idle, or is on   *)
(* its way to either: never two at once, and never none, also when dial,   *)
(* idle connection and cancellation race for a wantConn.                   *)
(***************************************************************************)
OneHolder ==
  \A p \in Conns : (loop[p] # "none" /\ p \notin closed) => Cardinality(Holders(p)) = 1

(***************************************************************************)
(* Nobody waits for an idle connection while there is one: queueForIdleConn *)
(* and tryPutIdleConn meet under idleMu, however many in line have given up. *)
(***************************************************************************)
IdleIsOffered ==
  (Range(idleConn) \ closed # {}) => \A w \in Wants : ~Waiting(w)

(***************************************************************************)
(* Nobody waits for permission to dial while there is a place: who is not  *)
(* being dialled for is in line and all places are taken.  Otherwise there *)
(* is the "silent deadlock" that decConnsPerHost speaks of.                *)
(***************************************************************************)
PlaceIsOffered ==
  \A r \in Requests :
    (pc[r] = "wait" /\ Waiting(W(r)) /\ dials[W(r)] = "none")
      => connsPerHost = MaxConnsPerHost /\ W(r) \in Range(connsPerHostWait)

(***************************************************************************)
(* getConn waits only for what is not there: neither an idle connection    *)
(* nor a place to dial is left beside a waiting wantConn.                  *)
(***************************************************************************)
NobodyWaitsInVain == IdleIsOffered /\ PlaceIsOffered

(***************************************************************************)
(* Every call of RoundTrip ends, although getConn waits for a dial, an idle *)
(* connection or a place that another request's failure may take away, and  *)
(* roundTrip for a readLoop that may exit.                                  *)
(***************************************************************************)
RequestsEnd == []<>(\A r \in Requests : pc[r] \in {"done", "failed"})

(***************************************************************************)
(* CloseIdleConnections "does not interrupt any connections currently in   *)
(* use": while a request that nobody cancels waits for the response that   *)
(* readLoop has read, its connection is not closed.                        *)
(***************************************************************************)
NotInterrupted ==
  \A r \in answered \ (done \cup Cancelable) : pc[r] = "sent" => conn[r] \notin closed
=============================================================================
