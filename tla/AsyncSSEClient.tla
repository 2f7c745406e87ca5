----------------------------- MODULE AsyncSSEClient -----------------------------
(***************************************************************************)
(* The client of src/ld_eventsource/async_client.py with the connection    *)
(* results of async_connect_strategy.py and the session of async_http.py:  *)
(* one task iterates client.all (and calls start()), other tasks of the    *)
(* same event loop call interrupt() and close().                           *)
(*                                                                         *)
(* Granularity.  Tasks change only at an await that suspends, so a step is *)
(* the code from one such await to the next.  A closer suspends once after *)
(* it has released the connection, and a task may be cancelled wherever it *)
(* is suspended.  A delay that has run out suspends nothing; here it may.  *)
(*                                                                         *)
(* Data.  Items, ids and connections are those of module SSEClient.  The   *)
(* HTTP sessions are numbered too, and 0 is None.                          *)
(***************************************************************************)
EXTENDS Integers, FiniteSets

CONSTANTS
  Controllers,  \* the tasks that call interrupt() and close()
  MaxConns,     \* bound: connections the server accepts
  MaxEvents,    \* bound: items the server ever sends
  MaxSessions,  \* bound: HTTP sessions
  WithId,       \* the items that carry an id
  Verdicts,     \* what the error strategy may answer, TRUE being FAIL
  MayDrop,      \* may the application drop an iterator without closing it?
  MayRestart,   \* may it call start() while an iterator is at an item?
  SlowClosers   \* may a closer be slower than a new connection?  aiohttp's
                \* suspends for one turn of the loop, and a connection takes more

ASSUME BoundsAreNaturals ==
  MaxConns \in Nat /\ MaxEvents \in Nat /\ MaxSessions \in Nat \ {0}
ASSUME IdsBelongToItems == WithId \subseteq 1..MaxEvents
ASSUME StrategyAnswers == Verdicts \subseteq BOOLEAN /\ Verdicts # {}
ASSUME HabitsAreFlags == {MayDrop, MayRestart, SlowClosers} \subseteq BOOLEAN

Conns == 1..MaxConns
Items == 1..MaxEvents
Sessions == 1..MaxSessions
None == 0

VARIABLES
  conn,         \* __connection_result
  closed,       \* __closed
  interrupted,  \* __interrupted
  lastId,       \* __last_event_id
  given,        \* is there an __external_session?
  session,      \* __session
  nsess,        \* sessions made so far
  openSess,     \* those that were not closed
  nconn,        \* connections made so far
  via,          \* per connection, its session
  open,         \* connections that were not released
  live,         \* open connections whose stream may still bring items
  closable,     \* connections whose result has its __closer
  pos,          \* per connection, the last item read off the wire
  rpc,          \* where the reading task is suspended
  at,           \* where its iterator is
  why,          \* what ended the session that is being closed
  csess, ask,   \* the session and the Last-Event-ID of the connect under way
  gconn,        \* current_result, None outside a session
  gpos,         \* the last item the session yielded, or where it began
  rid,          \* reader.last_event_id of the session
  fin,          \* the finalizer of a dropped iterator
  fconn, frid,  \* that iterator's current_result and reader.last_event_id
  pc,           \* where each controller is suspended
  op,           \* in which call
  held,         \* the connection whose closer it awaits
  before,       \* history: what was open when its close() began
  seen,         \* history: items given to the application, until it dropped one
  mark,         \* history: the last of them that had an id
  dropped,      \* history: has it dropped an iterator?
  left,         \* history: connections that a close() found open and left open
  overlap       \* history: did two close() calls meet in the session's close()?

clientVars  == <<conn, closed, interrupted, lastId>>
poolVars    == <<given, session, nsess, openSess>>
netVars     == <<nconn, via, open, live, closable, pos>>
sessionVars == <<gconn, gpos, rid, why>>
readerVars  == <<rpc, at, csess, ask, sessionVars>>
finVars     == <<fin, fconn, frid>>
ctlVars     == <<pc, op, held, before>>
feedVars    == <<seen, mark, dropped>>
closeVars   == <<left, overlap>>
vars == <<clientVars, poolVars, netVars, readerVars, finVars, ctlVars, feedVars,
          closeVars>>

--------------------------------------------------------------------------------
(* The type invariant. *)
ClientTypeOK ==
  /\ conn \in Conns \cup {None} /\ lastId \in Items \cup {0}
  /\ closed \in BOOLEAN /\ interrupted \in BOOLEAN

NetTypeOK ==
  /\ given \in BOOLEAN /\ session \in Sessions \cup {None}
  /\ nsess \in 0..MaxSessions /\ openSess \subseteq Sessions
  /\ nconn \in 0..MaxConns /\ via \in [Conns -> Sessions \cup {None}]
  /\ open \subseteq Conns /\ live \subseteq Conns /\ closable \subseteq Conns
  /\ pos \in [Conns -> Items \cup {0}]

ReaderTypeOK ==
  /\ rpc \in {"app", "sleeping", "connecting", "read", "closing"}
  /\ at \in {"none", "running", "started", "faulted", "item", "eof"}
  /\ why \in {"none", "end", "err", "quiet", "gone"}
  /\ csess \in Sessions \cup {None} /\ ask \in Items \cup {0}
  /\ gconn \in Conns \cup {None} /\ gpos \in Items \cup {0}
  /\ rid \in Items \cup {0}

OthersTypeOK ==
  /\ fin \in {"none", "pending", "closing"}
  /\ fconn \in Conns \cup {None} /\ frid \in Items \cup {0}
  /\ pc \in [Controllers -> {"idle", "closing", "pool"}]
  /\ op \in [Controllers -> {"none", "interrupt", "close"}]
  /\ held \in [Controllers -> Conns \cup {None}]
  /\ before \in [Controllers -> SUBSET Conns]

HistTypeOK ==
  /\ seen \subseteq Items /\ mark \in Items \cup {0} /\ dropped \in BOOLEAN
  /\ left \subseteq Conns /\ overlap \in BOOLEAN

TypeOK ==
  ClientTypeOK /\ NetTypeOK /\ ReaderTypeOK /\ OthersTypeOK /\ HistTypeOK

Init ==
  /\ conn = None /\ closed = FALSE /\ interrupted = FALSE /\ lastId = 0
  /\ \/ given = TRUE /\ session = 1 /\ nsess = 1 /\ openSess = {1}
     \/ given = FALSE /\ session = None /\ nsess = 0 /\ openSess = {}
  /\ nconn = 0 /\ via = [c \in Conns |-> None]
  /\ open = {} /\ live = {} /\ closable = {} /\ pos = [c \in Conns |-> 0]
  /\ rpc = "app" /\ at = "none" /\ why = "none" /\ csess = None /\ ask = 0
  /\ gconn = None /\ gpos = 0 /\ rid = 0
  /\ fin = "none" /\ fconn = None /\ frid = 0
  /\ pc = [t \in Controllers |-> "idle"]
  /\ op = [t \in Controllers |-> "none"]
  /\ held = [t \in Controllers |-> None]
  /\ before = [t \in Controllers |-> {}]
  /\ seen = {} /\ mark = 0 /\ dropped = FALSE /\ left = {} /\ overlap = FALSE

--------------------------------------------------------------------------------
(* What the actions are made of.  The operators named Wrong... are the     *)
(* mistakes the properties below are tried with, as in SSEClient.          *)

InSession == gconn # None

WrongHasBuffered == gpos <= pos[gconn]  \* the end taken for one more item
HasBuffered == gpos < pos[gconn]

WrongIdAfter(e) == rid                  \* the id of the item before
IdAfter(e) == IF e \in WithId THEN e ELSE rid

WrongResumePoint == 0                   \* the id is not sent
ResumePoint == lastId

WrongFlagAfterStart == interrupted      \* not cleared
FlagAfterStart == FALSE

(* How a stream that is over ends the session: like an end, or with an     *)
(* exception, which after close() is swallowed (lines 153-156).            *)
WrongStreamEnds == {}                   \* read again
StreamEnds == {"end", IF closed THEN "quiet" ELSE "err"}

(* Is there something for interrupt() to stop, line 113. *)
WrongIsActive == InSession              \* a session, rather than a connection
IsActive == conn # None

(* May close() close the HTTP session, async_http.py:124. *)
WrongOwnsSession == session # None      \* also one that was given
OwnsSession == ~given /\ session # None

(* _get_session: no await while the lock is held, so nobody finds it taken *)
(* and the session is made in one step.                                    *)
WrongNeedsSession == session \notin openSess  \* a closed one is replaced
NeedsSession == session = None

GetSession ==
  IF NeedsSession
  THEN /\ nsess < MaxSessions
       /\ session' = nsess + 1 /\ nsess' = nsess + 1
       /\ openSess' = openSess \cup {nsess + 1}
  ELSE UNCHANGED <<session, nsess, openSess>>

(* AsyncConnectionResult.close() of c, up to its await: what the closer    *)
(* does at once.  It suspends exactly if c is closable.                    *)
WrongRelease(c) == UNCHANGED <<open, live>>   \* the coroutine is not awaited
Release(c) == open' = open \ {c} /\ live' = live \ {c}

(* Control is back in the application with the iterator at a. *)
Return(a) == rpc' = "app" /\ at' = a

(* The locals of a session that is no more. *)
LeaveSession == gconn' = None /\ gpos' = 0 /\ rid' = 0 /\ why' = "none"

(* Lines 143-145. *)
OpenSession ==
  /\ rpc' = "read"
  /\ gconn' = conn /\ gpos' = pos[conn] /\ rid' = lastId /\ why' = "none"

(* What the application sees of a session that ended with w: the answer of *)
(* the error strategy, or nothing.                                         *)
Outcomes(w) ==
  IF w \in {"quiet", "gone"} THEN {"none"}
  ELSE {IF ~fail THEN "faulted" ELSE IF w = "err" THEN "none" ELSE "eof" :
          fail \in Verdicts}

(* After the await of the finally block: line 160, and what follows it. *)
Report(w) ==
  /\ conn' = None
  /\ \E a \in Outcomes(w) : Return(a)
  /\ LeaveSession

(* The finally block, up to its await if it has one. *)
Finish(w) ==
  /\ lastId' = rid
  /\ IF gconn \in closable
     THEN /\ Release(gconn)
          /\ rpc' = "closing" /\ at' = "running" /\ why' = w
          /\ UNCHANGED <<conn, gconn, gpos, rid>>
     ELSE Report(w) /\ UNCHANGED <<open, live>>
  /\ UNCHANGED <<closed, interrupted, poolVars, nconn, via, closable, pos, csess,
                 ask>>

OthersUnchanged == UNCHANGED <<finVars, ctlVars, feedVars, closeVars>>

--------------------------------------------------------------------------------
(* The iterator is advanced, closed, dropped, or bypassed with start(). *)

(* A new iterator, or one that yielded a Start or a Fault. *)
Advance ==
  /\ rpc = "app" /\ at \in {"none", "started", "faulted"}
  /\ at' = "running"
  /\ IF conn # None
     THEN OpenSession
     ELSE rpc' = "sleeping" /\ UNCHANGED sessionVars
  /\ UNCHANGED <<clientVars, poolVars, netVars, csess, ask>>
  /\ OthersUnchanged

(* One at an item finds the flag of interrupt(). *)
BreakOff ==
  /\ rpc = "app" /\ at = "item" /\ interrupted
  /\ Finish("end")
  /\ OthersUnchanged

(* One at an item has nothing more to yield of its chunk. *)
AwaitChunk ==
  /\ rpc = "app" /\ at = "item" /\ ~interrupted /\ ~HasBuffered
  /\ rpc' = "read" /\ at' = "running"
  /\ UNCHANGED <<clientVars, poolVars, netVars, csess, ask, sessionVars>>
  /\ OthersUnchanged

(* An item is yielded, at once or when the chunk it is in has woken the task. *)
Deliver ==
  /\ InSession /\ HasBuffered
  /\ rpc = "read" \/ (rpc = "app" /\ at = "item" /\ ~interrupted)
  /\ LET e == gpos + 1 IN
       /\ gpos' = e
       /\ rid' = IdAfter(e)
       /\ lastId' = rid'
       /\ IF dropped THEN UNCHANGED <<seen, mark>>
          ELSE seen' = seen \cup {e} /\ mark' = IF e \in WithId THEN e ELSE mark
  /\ Return("item")
  /\ UNCHANGED <<conn, closed, interrupted, poolVars, netVars, csess, ask, gconn,
                 why, finVars, ctlVars, dropped, closeVars>>

(* One at the Fault of line 168 returns. *)
AdvanceFromEof ==
  /\ rpc = "app" /\ at = "eof"
  /\ Return("none")
  /\ UNCHANGED <<clientVars, poolVars, netVars, csess, ask, sessionVars>>
  /\ OthersUnchanged

(* aclose() at an item: the finally block runs, and no except block. *)
Aclose ==
  /\ rpc = "app" /\ at = "item"
  /\ Finish("gone")
  /\ OthersUnchanged

(* The application drops the iterator at an item, as break does in an      *)
(* async for: the event loop will run aclose() in a task of its own.       *)
Drop ==
  /\ MayDrop /\ fin = "none"
  /\ rpc = "app" /\ at = "item"
  /\ Return("none")
  /\ LeaveSession
  /\ fin' = "pending" /\ fconn' = gconn /\ frid' = rid
  /\ dropped' = TRUE
  /\ UNCHANGED <<clientVars, poolVars, netVars, csess, ask, ctlVars, seen, mark,
                 closeVars>>

(* start(): nothing to do while a connection is there. *)
CallStart ==
  /\ rpc = "app" /\ conn = None
  /\ at = "item" => MayRestart
  /\ rpc' = "sleeping"
  /\ UNCHANGED <<clientVars, poolVars, netVars, at, csess, ask, sessionVars>>
  /\ OthersUnchanged

--------------------------------------------------------------------------------
(* _try_start. *)

(* connect() of async_http.py up to its answer: a request in whatever       *)
(* session there is.  The rest of what it sends is left out.                *)
Request == csess' = session' /\ ask' = ResumePoint
NoRequest == csess' = None /\ ask' = 0

(* The delay is over. *)
BeginConnect ==
  /\ rpc = "sleeping"
  /\ GetSession
  /\ rpc' = "connecting" /\ Request
  /\ UNCHANGED <<clientVars, given, netVars, at, sessionVars>>
  /\ OthersUnchanged

(* No closer is being awaited, and none is about to be. *)
LoopQuiet == fin = "none" /\ \A t \in Controllers : pc[t] # "closing"

(* A good answer, with status and content type of a stream. *)
Accepted(c) ==
  /\ nconn' = c
  /\ via' = [via EXCEPT ![c] = csess]
  /\ open' = open \cup {c} /\ live' = live \cup {c}
  /\ pos' = [pos EXCEPT ![c] = ask]

(* Its AsyncConnectionResult, the current one from now on. *)
MakeResult(c) == closable' = closable \cup {c} /\ conn' = c

ConnectOk ==
  /\ rpc = "connecting" /\ csess \in openSess
  /\ nconn < MaxConns
  /\ SlowClosers \/ LoopQuiet
  /\ Accepted(nconn + 1) /\ MakeResult(nconn + 1) /\ NoRequest
  /\ interrupted' = FlagAfterStart
  /\ Return(IF at = "running" THEN "started" ELSE at)
  /\ UNCHANGED <<closed, lastId, poolVars, sessionVars>>
  /\ OthersUnchanged

(* What _try_start makes of a failed connect: raise, yield a Fault, or, if  *)
(* it is start() that is connecting, try again.                             *)
AfterFailure(fail) ==
  IF at = "running" THEN Return(IF fail THEN "none" ELSE "faulted")
  ELSE rpc' = (IF fail THEN "app" ELSE "sleeping") /\ UNCHANGED at

(* No answer, a rejected one (which is released), or a closed session. *)
ConnectFail ==
  /\ rpc = "connecting" /\ NoRequest
  /\ \E fail \in Verdicts : AfterFailure(fail)
  /\ UNCHANGED <<clientVars, poolVars, netVars, sessionVars>>
  /\ OthersUnchanged

--------------------------------------------------------------------------------
(* A session waits for its stream, and ends. *)

(* A chunk arrives, which completes one item or more. *)
ReceiveChunk ==
  /\ rpc = "read" /\ ~HasBuffered /\ gconn \in live
  /\ \E p \in (gpos + 1)..MaxEvents : pos' = [pos EXCEPT ![gconn] = p]
  /\ UNCHANGED <<clientVars, poolVars, nconn, via, open, live, closable, readerVars>>
  /\ OthersUnchanged

(* The server ended or broke the stream, or somebody released it. *)
StreamOver ==
  /\ rpc = "read" /\ ~HasBuffered
  /\ \E w \in StreamEnds : Finish(w)
  /\ OthersUnchanged

(* The closer has returned. *)
EndClose ==
  /\ rpc = "closing"
  /\ closable' = closable \ {gconn}
  /\ Report(why)
  /\ UNCHANGED <<closed, interrupted, lastId, poolVars, nconn, via, open, live, pos,
                 csess, ask>>
  /\ OthersUnchanged

(* The task is cancelled while it waits for the stream: the finally block  *)
(* runs, with its await.                                                   *)
CancelRead ==
  /\ rpc = "read"
  /\ Finish("gone")
  /\ OthersUnchanged

(* It is cancelled anywhere else: the rest of the generator never runs. *)
CancelElsewhere ==
  /\ rpc \in {"sleeping", "connecting", "closing"}
  /\ IF at = "running"
     THEN Return("none") /\ LeaveSession
     ELSE Return(at) /\ UNCHANGED sessionVars
  /\ NoRequest
  /\ UNCHANGED <<clientVars, poolVars, netVars>>
  /\ OthersUnchanged

(* The finalizer of a dropped iterator runs its finally block. *)
FinalizeStart ==
  /\ fin = "pending"
  /\ lastId' = frid
  /\ IF fconn \in closable
     THEN Release(fconn) /\ fin' = "closing" /\ UNCHANGED <<conn, fconn, frid>>
     ELSE /\ conn' = None /\ fin' = "none" /\ fconn' = None /\ frid' = 0
          /\ UNCHANGED <<open, live>>
  /\ UNCHANGED <<closed, interrupted, poolVars, nconn, via, closable, pos,
                 readerVars, ctlVars, feedVars, closeVars>>

FinalizeEnd ==
  /\ fin = "closing"
  /\ closable' = closable \ {fconn}
  /\ conn' = None /\ fin' = "none" /\ fconn' = None /\ frid' = 0
  /\ UNCHANGED <<closed, interrupted, lastId, poolVars, nconn, via, open, live, pos,
                 readerVars, ctlVars, feedVars, closeVars>>

--------------------------------------------------------------------------------
(* interrupt() and close(), called by a controller t. *)

(* The call is over, or the task was cancelled in it. *)
Idle(t) ==
  /\ pc' = [pc EXCEPT ![t] = "idle"] /\ op' = [op EXCEPT ![t] = "none"]
  /\ held' = [held EXCEPT ![t] = None] /\ before' = [before EXCEPT ![t] = {}]

(* t awaits the closer of the current connection. *)
AwaitCloser(t, call, b) ==
  /\ Release(conn)
  /\ pc' = [pc EXCEPT ![t] = "closing"] /\ op' = [op EXCEPT ![t] = call]
  /\ held' = [held EXCEPT ![t] = conn] /\ before' = [before EXCEPT ![t] = b]

(* __connection_client.close() for a close() that found b open.  Closing a *)
(* session closes its connections, and only the first close suspends.      *)
CloseSession(t, b) ==
  /\ overlap' = (overlap \/ \E u \in Controllers \ {t} : pc[u] = "pool")
  /\ IF OwnsSession /\ session \in openSess
     THEN /\ openSess' = openSess \ {session}
          /\ open' = {c \in open : via[c] # session}
          /\ live' = {c \in live : via[c] # session}
          /\ pc' = [pc EXCEPT ![t] = "pool"] /\ op' = [op EXCEPT ![t] = "close"]
          /\ held' = [held EXCEPT ![t] = None]
          /\ before' = [before EXCEPT ![t] = b]
          /\ UNCHANGED <<session, left>>
     ELSE /\ session' = IF OwnsSession THEN None ELSE session
          /\ left' = left \cup (b \cap open)
          /\ Idle(t)
          /\ UNCHANGED <<openSess, open, live>>

CallInterrupt(t) ==
  /\ pc[t] = "idle" /\ IsActive
  /\ interrupted' = TRUE
  /\ IF conn \in closable
     THEN AwaitCloser(t, "interrupt", {}) /\ UNCHANGED conn
     ELSE conn' = None /\ UNCHANGED <<open, live, ctlVars>>
  /\ UNCHANGED <<closed, lastId, poolVars, nconn, via, closable, pos, readerVars,
                 finVars, feedVars, closeVars>>

CallClose(t) ==
  /\ pc[t] = "idle"
  /\ closed' = TRUE
  /\ interrupted' = (interrupted \/ IsActive)
  /\ IF IsActive /\ conn \in closable
     THEN AwaitCloser(t, "close", open) /\ UNCHANGED <<conn, session, openSess, closeVars>>
     ELSE conn' = (IF IsActive THEN None ELSE conn) /\ CloseSession(t, open)
  /\ UNCHANGED <<lastId, given, nsess, nconn, via, closable, pos, readerVars,
                 finVars, feedVars>>

(* The closer has returned: line 116 forgets whatever is current. *)
EndInterrupt(t) ==
  /\ pc[t] = "closing"
  /\ closable' = closable \ {held[t]}
  /\ conn' = None
  /\ IF op[t] = "close" THEN CloseSession(t, before[t])
     ELSE Idle(t) /\ UNCHANGED <<session, openSess, open, live, closeVars>>
  /\ UNCHANGED <<closed, interrupted, lastId, given, nsess, nconn, via, pos,
                 readerVars, finVars, feedVars>>

(* The session is closed: async_http.py:126 forgets whatever is current. *)
EndPool(t) ==
  /\ pc[t] = "pool"
  /\ session' = None
  /\ left' = left \cup (before[t] \cap open)
  /\ Idle(t)
  /\ UNCHANGED <<clientVars, given, nsess, openSess, netVars, readerVars, finVars,
                 feedVars, overlap>>

CancelController(t) ==
  /\ pc[t] # "idle"
  /\ Idle(t)
  /\ UNCHANGED <<clientVars, poolVars, netVars, readerVars, finVars, feedVars,
                 closeVars>>

--------------------------------------------------------------------------------
ReaderStep ==
  \/ Advance \/ BreakOff \/ AwaitChunk \/ Deliver \/ AdvanceFromEof
  \/ Aclose \/ Drop \/ CallStart
  \/ BeginConnect \/ ConnectOk \/ ConnectFail
  \/ ReceiveChunk \/ StreamOver \/ EndClose \/ CancelRead \/ CancelElsewhere

Finalizer == FinalizeStart \/ FinalizeEnd

ControllerStep(t) ==
  \/ CallInterrupt(t) \/ CallClose(t)
  \/ EndInterrupt(t) \/ EndPool(t) \/ CancelController(t)

Next == ReaderStep \/ Finalizer \/ \E t \in Controllers : ControllerStep(t)

Spec == Init /\ [][Next]_vars

(* The loop runs what is ready, the application keeps asking for items,    *)
(* and a read on a stream that was released fails.  No server is obliged   *)
(* to accept, to send or to end a stream, and nobody to call or cancel.    *)
SessionStep ==
  \/ BreakOff \/ AwaitChunk \/ Deliver \/ EndClose
  \/ (gconn \notin live /\ StreamOver)

FairSpec ==
  /\ Spec
  /\ WF_vars(SessionStep) /\ WF_vars(Finalizer)
  /\ \A t \in Controllers : WF_vars(EndInterrupt(t) \/ EndPool(t))

--------------------------------------------------------------------------------
(* Properties of every client whose closers are fast (~SlowClosers). *)

(* A connection that is open is the current one, so that the next close()  *)
(* or the end of a stream will find it: no await of lines 115, 159 and 212 *)
(* makes the client forget a connection, cancelled tasks and finalizers of *)
(* dropped iterators included.  It needs ~MayRestart.                      *)
NoConnectionLost == open \subseteq {conn}

(* close() leaves none of the connections open that it found open (lines   *)
(* 103-107), although it forgets whichever is current after its await.     *)
(* With MayRestart it does not hold: the session that interrupt() cut ends *)
(* after start() has reconnected, and line 160 forgets the new connection. *)
CloseClosesActive == left = {}

(* The flag of interrupt() is never left on a connection it was not meant  *)
(* for: the connection that is current while it is set was released        *)
(* (lines 114-116 and 228).                                                *)
FlagIsCurrent == interrupted /\ conn # None => conn \notin open

(* Until an iterator is dropped, the id sent on the next connection is     *)
(* that of the last item the application was given that had one (lines 149 *)
(* and 158), whichever task was cancelled at whichever await.              *)
LastIdIsLastSeen == ~dropped => lastId = mark

(* An HTTP session that the application supplied is never closed           *)
(* (async_http.py:123-126).                                                *)
GivenSessionStaysOpen == given => 1 \in openSess

(* A session the client made and has not closed is the one it will close   *)
(* next, unless two close() calls overlapped: then line 126 of             *)
(* async_http.py may forget one made by a reconnection in between.         *)
SessionNotForgotten == overlap \/ openSess \subseteq {session}

(* A reader whose connection was released leaves it, instead of waiting    *)
(* for ever for what will never come (lines 118-119 of async_http.py).     *)
ClosedSessionEnds ==
  \A c \in Conns : (gconn = c /\ c \notin open) ~> (gconn # c)

(* Until an iterator is dropped, the application gets the feed without gaps *)
(* and nothing up to the last id twice, as from the threaded client.  A     *)
(* session on a stream that was released before it began reads nothing.     *)
Reading ==
  /\ ~dropped /\ InSession /\ rpc # "closing"
  /\ at = "item" \/ HasBuffered \/ gconn \in live

Resumable == INSTANCE ResumableStream WITH head <- IF Reading THEN gpos ELSE -1

ImplementsResumable == Resumable!Spec
================================================================================
