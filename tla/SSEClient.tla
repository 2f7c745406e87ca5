------------------------------- MODULE SSEClient -------------------------------
(***************************************************************************)
(* The threaded client of src/ld_eventsource/sse_client.py: one reader     *)
(* thread iterating client.all (and calling start()), and any number of    *)
(* controller threads calling interrupt() and close() at any moment.       *)
(*                                                                         *)
(* Granularity.  CPython hands the interpreter to another thread only at   *)
(* calls, loop back edges and blocking operations, so a step of this       *)
(* module is the code between two such points.  _close_current_connection  *)
(* is therefore two steps: the swap of lines 172-173, and the call of the  *)
(* closer on line 175.                                                     *)
(*                                                                         *)
(* Data.  The items of the feed (events and comments) are the numbers      *)
(* 1..MaxEvents in the order the server sends them; those in WithId carry  *)
(* an id, which is their own number.  The server honours the Last-Event-ID *)
(* it is sent: a new connection resumes just after it, 0 standing for      *)
(* "none".  Connections are numbered in the order they are made, 0 is the  *)
(* code's None.  How long the client sleeps before connecting is the       *)
(* subject of module RetryTiming; here any delay may pass.                 *)
(***************************************************************************)
EXTENDS Integers, FiniteSets

CONSTANTS
  Controllers,  \* the threads that call interrupt() and close()
  Reader,       \* the thread that reads events and calls start()
  MaxConns,     \* bound: connections the server accepts
  MaxEvents,    \* bound: items the server ever sends
  WithId,       \* the items that carry an id
  Verdicts,     \* what the error strategy may answer, TRUE being FAIL
  MayAbandon,   \* may the application drop an iterator between two items?
  MayRestart    \* may it call start() while an iterator is at an item?

ASSUME ReaderIsNoController == Reader \notin Controllers
ASSUME BoundsAreNaturals == MaxConns \in Nat /\ MaxEvents \in Nat
ASSUME IdsBelongToItems == WithId \subseteq 1..MaxEvents
ASSUME StrategyAnswers == Verdicts \subseteq BOOLEAN /\ Verdicts # {}
ASSUME HabitsAreFlags == MayAbandon \in BOOLEAN /\ MayRestart \in BOOLEAN

Threads == Controllers \cup {Reader}
Conns == 1..MaxConns
Items == 1..MaxEvents
None == 0

VARIABLES
  conn,         \* __connection_result
  closed,       \* __closed
  interrupted,  \* __interrupted
  lastId,       \* __last_event_id
  nconn,        \* connections made so far
  open,         \* connections whose closer has not run
  live,         \* open connections whose stream may still bring items
  pos,          \* per connection, the last item read off the wire
  rpc,          \* where the reader thread is
  at,           \* where its iterator is
  gconn,        \* the connection the iterator reads, None outside a session
  gpos,         \* the last item the session yielded, or where it began
  rid,          \* reader.last_event_id of the session
  err,          \* did the session end with an exception?
  held,         \* per thread, the local "result" of _close_current_connection
  pc,           \* where each controller is
  op,           \* which call it is in
  seen,         \* history: the items the application was given
  mark,         \* history: the last one of them that had an id
  signal,       \* history: what the application last heard of the stream
  cut,          \* history: has a controller dropped a connection since?
  since,        \* history: nconn when the controller's call began
  closeReturned \* history: has some close() returned?

clientVars  == <<conn, closed, interrupted, lastId>>
netVars     == <<nconn, open, live, pos>>
sessionVars == <<gconn, gpos, rid, err>>
readerVars  == <<rpc, at, sessionVars>>
ctlVars     == <<pc, op, since>>
histVars    == <<seen, mark, signal, cut, closeReturned>>
vars == <<clientVars, netVars, readerVars, held, ctlVars, histVars>>

--------------------------------------------------------------------------------
(* The type invariant. *)
ClientTypeOK ==
  /\ conn \in Conns \cup {None} /\ lastId \in Items \cup {0}
  /\ closed \in BOOLEAN /\ interrupted \in BOOLEAN

NetTypeOK ==
  /\ nconn \in 0..MaxConns
  /\ open \subseteq Conns /\ live \subseteq Conns
  /\ pos \in [Conns -> Items \cup {0}]

ReaderTypeOK ==
  /\ rpc \in {"app", "connecting", "connected", "read", "except", "ended",
              "shut", "post"}
  /\ at \in {"none", "running", "started", "faulted", "item", "eof"}
  /\ gconn \in Conns \cup {None} /\ gpos \in Items \cup {0}
  /\ rid \in Items \cup {0} /\ err \in BOOLEAN

CtlTypeOK ==
  /\ held \in [Threads -> Conns \cup {None}]
  /\ pc \in [Controllers -> {"idle", "check", "take", "shut", "pool"}]
  /\ op \in [Controllers -> {"none", "interrupt", "close"}]
  /\ since \in [Controllers -> 0..MaxConns]

HistTypeOK ==
  /\ seen \subseteq Items /\ mark \in Items \cup {0}
  /\ signal \in {"up", "down"} /\ cut \in BOOLEAN /\ closeReturned \in BOOLEAN

TypeOK == ClientTypeOK /\ NetTypeOK /\ ReaderTypeOK /\ CtlTypeOK /\ HistTypeOK

Init ==
  /\ conn = None /\ closed = FALSE /\ interrupted = FALSE /\ lastId = 0
  /\ nconn = 0 /\ open = {} /\ live = {} /\ pos = [c \in Conns |-> 0]
  /\ rpc = "app" /\ at = "none"
  /\ gconn = None /\ gpos = 0 /\ rid = 0 /\ err = FALSE
  /\ held = [t \in Threads |-> None]
  /\ pc = [t \in Controllers |-> "idle"]
  /\ op = [t \in Controllers |-> "none"]
  /\ since = [t \in Controllers |-> 0]
  /\ seen = {} /\ mark = 0 /\ signal = "down" /\ cut = FALSE
  /\ closeReturned = FALSE

--------------------------------------------------------------------------------
(* What the actions are made of.  An operator named Wrong... is a mistake  *)
(* one could make there; the specification uses none of them, and each     *)
(* breaks a property below when it stands in for the operator after it.    *)

InSession == gconn # None

WrongHasBuffered == gpos <= pos[gconn]  \* the end taken for one more item
HasBuffered == gpos < pos[gconn]

WrongOpenSession ==                     \* an event reader without the last id
  /\ rpc' = "read"
  /\ gconn' = conn /\ gpos' = pos[conn] /\ rid' = 0 /\ err' = FALSE

(* Lines 216-218: a fresh line reader and event reader on the current      *)
(* connection, which continue where the wire stands.                       *)
OpenSession ==
  /\ rpc' = "read"
  /\ gconn' = conn /\ gpos' = pos[conn] /\ rid' = lastId /\ err' = FALSE

(* The finally block, after which the generator's locals are dead. *)
EndSession ==
  /\ lastId' = rid
  /\ gconn' = None /\ gpos' = 0 /\ rid' = 0 /\ err' = FALSE

(* reader.last_event_id when item e is yielded. *)
WrongIdAfter(e) == rid                  \* the id of the item before
WrongIdAhead(e) ==                      \* the id of the last line received
  IF pos[gconn] \in WithId THEN pos[gconn] ELSE rid
IdAfter(e) == IF e \in WithId THEN e ELSE rid

(* May start() go ahead, line 289. *)
WrongStartNeeded == TRUE                \* without its early return
StartNeeded == conn = None

(* What connect() is told to resume after. *)
WrongResumePoint == 0                   \* nothing
ResumePoint == lastId

(* __interrupted when a stream has started. *)
WrongFlagAfterStart == interrupted      \* not cleared
FlagAfterStart == FALSE

(* Where a stream that is over takes the generator. *)
WrongStreamEnds == {"read"}             \* an empty read is tried again
StreamEnds == {"ended", "except"}

(* Does interrupt() have something to stop, line 165. *)
WrongIsActive == conn # None /\ ~interrupted  \* the flag asked first
IsActive == conn # None

(* The swap of lines 172-173 by thread t. *)
WrongSwapKeeping(t) ==                  \* cleared only after the close
  held' = [held EXCEPT ![t] = conn] /\ UNCHANGED conn
WrongSwapForgetting(t) ==               \* cleared and never closed
  conn' = None /\ UNCHANGED held
Swap(t) == held' = [held EXCEPT ![t] = conn] /\ conn' = None

(* Control returns to the application with the iterator at a. *)
Return(a) == rpc' = "app" /\ at' = a

(* A controller moves on to p; the frame of its call is gone when it       *)
(* returns.                                                                *)
Goto(t, p) ==
  /\ pc' = [pc EXCEPT ![t] = p]
  /\ IF p = "idle"
     THEN op' = [op EXCEPT ![t] = "none"] /\ since' = [since EXCEPT ![t] = 0]
     ELSE UNCHANGED <<op, since>>

(* Where a controller goes when its interrupt() returns. *)
AfterInterrupt(t) == IF op[t] = "close" THEN "pool" ELSE "idle"

--------------------------------------------------------------------------------
(* The iterator is advanced, dropped, or bypassed with start(). *)

(* The application asks the iterator for something and it is not at an     *)
(* item: a new iterator, or one that yielded a Start or a Fault.           *)
Advance ==
  /\ rpc = "app" /\ at \in {"none", "started", "faulted"}
  /\ at' = "running"
  /\ IF conn # None
     THEN OpenSession
     ELSE rpc' = "connecting" /\ UNCHANGED sessionVars
  /\ UNCHANGED <<clientVars, netVars, held, ctlVars, histVars>>

(* It is at an item, and the flag of interrupt() is looked at. *)
AdvanceFromItem ==
  /\ rpc = "app" /\ at = "item"
  /\ at' = "running"
  /\ rpc' = IF interrupted THEN "ended" ELSE "read"
  /\ UNCHANGED <<clientVars, netVars, sessionVars, held, ctlVars, histVars>>

(* It is at the Fault of line 245, after which it returns. *)
AdvanceFromEof ==
  /\ rpc = "app" /\ at = "eof"
  /\ Return("none")
  /\ UNCHANGED <<clientVars, netVars, sessionVars, held, ctlVars, histVars>>

(* start(): nothing to do while a connection is there. *)
CallStart ==
  /\ rpc = "app" /\ StartNeeded
  /\ at = "item" => MayRestart
  /\ rpc' = "connecting"
  /\ UNCHANGED <<clientVars, netVars, at, sessionVars, held, ctlVars, histVars>>

(* The application drops the iterator at an item: Python closes the        *)
(* generator, which runs its finally block and no except block.            *)
Abandon ==
  /\ MayAbandon
  /\ rpc = "app" /\ at = "item"
  /\ Return("none")
  /\ EndSession
  /\ UNCHANGED <<conn, closed, interrupted, netVars, held, ctlVars, histVars>>

--------------------------------------------------------------------------------
(* _try_start. The loop's sleep may take any time, so it is not a step.    *)

ConnectOk ==
  /\ rpc = "connecting"
  /\ nconn < MaxConns
  /\ LET c == nconn + 1 IN
       /\ nconn' = c /\ conn' = c
       /\ open' = open \cup {c} /\ live' = live \cup {c}
       /\ pos' = [pos EXCEPT ![c] = ResumePoint]
  /\ rpc' = "connected"
  /\ UNCHANGED <<closed, interrupted, lastId, at, sessionVars, held, ctlVars,
                 histVars>>

(* A failed connect asks the error strategy: raise, yield a Fault, or, if  *)
(* it is start() that is connecting, try again without a word.             *)
ConnectFail ==
  /\ rpc = "connecting"
  /\ \E fail \in Verdicts :
       IF fail \/ at = "running"
       THEN /\ Return(IF at # "running" THEN at
                      ELSE IF fail THEN "none" ELSE "faulted")
            /\ signal' = "down"
       ELSE UNCHANGED <<rpc, at, signal>>
  /\ UNCHANGED <<clientVars, netVars, sessionVars, held, ctlVars, seen, mark,
                 cut, closeReturned>>

(* The connection is stored; time.time() on line 319 lets others run.  If  *)
(* one of them drops the connection, line 322 asks None for its headers.   *)
ReportStart ==
  /\ rpc = "connected"
  /\ interrupted' = FlagAfterStart
  /\ IF conn # None
     THEN /\ Return(IF at = "running" THEN "started" ELSE at)
          /\ signal' = "up" /\ cut' = FALSE
     ELSE /\ Return(IF at = "running" THEN "none" ELSE at)
          /\ signal' = "down" /\ UNCHANGED cut
  /\ UNCHANGED <<conn, closed, lastId, netVars, sessionVars, held, ctlVars,
                 seen, mark, closeReturned>>

--------------------------------------------------------------------------------
(* Reading. *)

(* An item whose lines are already here is yielded. *)
Deliver ==
  /\ rpc = "read" /\ HasBuffered
  /\ LET e == gpos + 1 IN
       /\ gpos' = e
       /\ rid' = IdAfter(e)
       /\ lastId' = rid'
       /\ seen' = seen \cup {e}
       /\ mark' = IF e \in WithId THEN e ELSE mark
  /\ Return("item")
  /\ UNCHANGED <<conn, closed, interrupted, netVars, gconn, err, held, ctlVars,
                 signal, cut, closeReturned>>

(* A chunk arrives and completes one item or more. *)
ReceiveChunk ==
  /\ rpc = "read" /\ ~HasBuffered /\ gconn \in live
  /\ \E p \in (gpos + 1)..MaxEvents : pos' = [pos EXCEPT ![gconn] = p]
  /\ UNCHANGED <<clientVars, nconn, open, live, readerVars, held, ctlVars,
                 histVars>>

(* The stream is over: the server ended it or broke it, or a controller    *)
(* closed it under the reader.  Either may look like an end or an error.   *)
StreamOver ==
  /\ rpc = "read" /\ ~HasBuffered
  /\ live' = live \ {gconn}
  /\ rpc' \in StreamEnds
  /\ UNCHANGED <<clientVars, nconn, open, pos, at, sessionVars, held, ctlVars,
                 histVars>>

(* An error after close() ends the iteration without a word. *)
HandleError ==
  /\ rpc = "except"
  /\ IF closed
     THEN /\ Return("none")
          /\ EndSession
          /\ signal' = "down"
     ELSE /\ rpc' = "ended" /\ err' = TRUE
          /\ UNCHANGED <<at, gconn, gpos, rid, lastId, signal>>
  /\ UNCHANGED <<conn, closed, interrupted, netVars, held, ctlVars, seen, mark,
                 cut, closeReturned>>

(* The session's own _close_current_connection, in its two steps. *)
TakeOwn ==
  /\ rpc = "ended"
  /\ Swap(Reader)
  /\ rpc' = IF conn = None THEN "post" ELSE "shut"
  /\ UNCHANGED <<closed, interrupted, lastId, netVars, at, sessionVars, ctlVars,
                 histVars>>

ShutOwn ==
  /\ rpc = "shut"
  /\ open' = open \ {held[Reader]} /\ live' = live \ {held[Reader]}
  /\ held' = [held EXCEPT ![Reader] = None]
  /\ rpc' = "post"
  /\ UNCHANGED <<clientVars, nconn, pos, at, sessionVars, ctlVars, histVars>>

(* The finally block, and what the error strategy makes of the end. *)
ReportEnd ==
  /\ rpc = "post"
  /\ \E fail \in Verdicts :
       Return(IF ~fail THEN "faulted" ELSE IF err THEN "none" ELSE "eof")
  /\ EndSession
  /\ signal' = "down"
  /\ UNCHANGED <<conn, closed, interrupted, netVars, held, ctlVars, seen, mark,
                 cut, closeReturned>>

--------------------------------------------------------------------------------
(* interrupt() and close(), called by a controller t. *)

CallInterrupt(t) ==
  /\ pc[t] = "idle"
  /\ pc' = [pc EXCEPT ![t] = "check"]
  /\ op' = [op EXCEPT ![t] = "interrupt"]
  /\ since' = [since EXCEPT ![t] = nconn]
  /\ UNCHANGED <<clientVars, netVars, readerVars, held, histVars>>

CallClose(t) ==
  /\ pc[t] = "idle"
  /\ closed' = TRUE
  /\ pc' = [pc EXCEPT ![t] = "check"]
  /\ op' = [op EXCEPT ![t] = "close"]
  /\ since' = [since EXCEPT ![t] = nconn]
  /\ UNCHANGED <<conn, interrupted, lastId, netVars, readerVars, held, histVars>>

Check(t) ==
  /\ pc[t] = "check"
  /\ IF IsActive
     THEN interrupted' = TRUE /\ Goto(t, "take")
     ELSE UNCHANGED interrupted /\ Goto(t, AfterInterrupt(t))
  /\ UNCHANGED <<conn, closed, lastId, netVars, readerVars, held, histVars>>

Take(t) ==
  /\ pc[t] = "take"
  /\ Swap(t)
  /\ cut' = (cut \/ conn # None)
  /\ Goto(t, IF conn = None THEN AfterInterrupt(t) ELSE "shut")
  /\ UNCHANGED <<closed, interrupted, lastId, netVars, readerVars, seen, mark,
                 signal, closeReturned>>

Shut(t) ==
  /\ pc[t] = "shut"
  /\ open' = open \ {held[t]} /\ live' = live \ {held[t]}
  /\ held' = [held EXCEPT ![t] = None]
  /\ Goto(t, AfterInterrupt(t))
  /\ UNCHANGED <<clientVars, nconn, pos, readerVars, histVars>>

(* connection_client.close(), the last thing close() does. *)
ClosePool(t) ==
  /\ pc[t] = "pool"
  /\ Goto(t, "idle")
  /\ closeReturned' = TRUE
  /\ UNCHANGED <<clientVars, netVars, readerVars, held, seen, mark, signal, cut>>

--------------------------------------------------------------------------------
ReaderStep ==
  \/ Advance \/ AdvanceFromItem \/ AdvanceFromEof \/ CallStart \/ Abandon
  \/ ConnectOk \/ ConnectFail \/ ReportStart
  \/ Deliver \/ ReceiveChunk \/ StreamOver \/ HandleError
  \/ TakeOwn \/ ShutOwn \/ ReportEnd

ControllerStep(t) ==
  \/ CallInterrupt(t) \/ CallClose(t)
  \/ Check(t) \/ Take(t) \/ Shut(t) \/ ClosePool(t)

Next == ReaderStep \/ \E t \in Controllers : ControllerStep(t)

Spec == Init /\ [][Next]_vars

(* The scheduler runs every thread that is inside a call of the library,   *)
(* the application keeps asking for items, and a read on a stream that is  *)
(* over or was closed returns.  Nobody is obliged to connect, to call      *)
(* interrupt() or close(), and no server is obliged to send.               *)
SessionStep ==
  \/ AdvanceFromItem \/ Deliver \/ HandleError \/ TakeOwn \/ ShutOwn
  \/ ReportEnd
  \/ (gconn \notin live /\ StreamOver)

Fairness ==
  /\ WF_vars(SessionStep)
  /\ \A t \in Controllers : WF_vars(Check(t) \/ Take(t) \/ Shut(t) \/ ClosePool(t))

FairSpec == Spec /\ Fairness

--------------------------------------------------------------------------------
(* Properties of every client, however it is used. *)

(* A connection that was made and not yet closed is the client's current   *)
(* one or is in the hands of a thread that is about to close it: no        *)
(* interleaving of connect, interrupt, close and the end of a stream       *)
(* leaves a connection nobody will close (lines 170-175, 303).             *)
NoConnectionLost == open \subseteq {conn} \cup {held[t] : t \in Threads}

(* A connection has one owner, so its closer runs once: two threads that   *)
(* close at the same time never both take it (lines 172-173).              *)
OneOwner ==
  /\ \A t \in Threads : held[t] # None => held[t] # conn /\ held[t] \in open
  /\ \A t, u \in Threads : held[t] # None /\ held[t] = held[u] => t = u

(* The id sent on the next connection is that of the last item the         *)
(* application was given that had one, whoever broke the stream and        *)
(* whatever became of the iterator (lines 221 and 235).                    *)
LastIdIsLastSeen == lastId = mark

(* The flag of interrupt() never stays behind on a connection it was not   *)
(* meant for: if it is set while there is a connection, the thread that    *)
(* set it is about to take that connection, or _try_start is about to      *)
(* clear it (lines 166 and 321).                                           *)
NoStaleInterrupt ==
  interrupted /\ conn # None /\ rpc # "connected" =>
    \E t \in Controllers : pc[t] = "take"

(* When interrupt() or close() returns, the connection that was current    *)
(* when it was called no longer is, although another thread may have made  *)
(* a newer one meanwhile (lines 165-173).                                  *)
CallTakesEffect ==
  [][\A t \in Controllers :
       pc[t] # "idle" /\ pc'[t] = "idle" => conn' = None \/ conn' > since[t]]_vars

(* When the application gets a Fault the connection is down, even if a     *)
(* controller closed it at the same time (actions.py:142-143).             *)
FaultMeansInactive ==
  [][rpc = "post" /\ at' \in {"faulted", "eof"} => conn' = None]_vars

(* Two Starts in a row, without a Fault, an exception or the end of the    *)
(* iteration between them, happen only when another thread dropped the     *)
(* connection: the client by itself always reports an end before it        *)
(* reconnects (lines 237-251).                                             *)
StartsAlternate ==
  [][rpc = "connected" /\ signal' = "up" /\ signal = "up" => cut]_vars

--------------------------------------------------------------------------------
(* Properties of a client whose iterators are read to their end. *)

(* No item is skipped: if the application was given one, it was given all  *)
(* that precede it, through any number of interrupts and reconnections     *)
(* (lines 216-235 and 303).                                                *)
NothingSkipped == \A e \in seen : 1..e \subseteq seen

(* Nothing up to the last id the application has seen is given to it       *)
(* again after a reconnection (lines 216-222 and 303-305).                 *)
NothingRepeated ==
  [][\A e \in Items : gpos' = e /\ at' = "item" /\ at = "running" => e > mark]_vars

(* A connection the client has let go of is eventually closed.             *)
DroppedIsClosed ==
  \A c \in Conns : (c \in open /\ conn # c) ~> (c \notin open)

(* A reader whose connection was closed under it eventually leaves it,     *)
(* instead of waiting for ever for what will never come.                   *)
ClosedSessionEnds ==
  \A c \in Conns : (gconn = c /\ c \notin open) ~> (gconn # c)

(* The promise of all this to the application, in module ResumableStream.  *)
Resumable == INSTANCE ResumableStream
  WITH head <- IF InSession THEN gpos ELSE -1

ImplementsResumable == Resumable!Spec

--------------------------------------------------------------------------------
(* What the documentation says and the code does not do. *)

(* close() "permanently shuts down this client instance" (line 150),       *)
(* unlike interrupt(), after which reading or start() reconnects (lines    *)
(* 160-162): once it has returned, no connection is attempted.             *)
CloseIsPermanent ==
  [][closeReturned => ~(rpc # "connecting" /\ rpc' = "connecting")]_vars

(* "If the client reconnects after a failure, there will be a Fault        *)
(* followed by a Start" (actions.py:113-114), and after interrupt() "the   *)
(* behavior is exactly the same as if the previous stream had been ended   *)
(* by the server" (lines 162-163): a Start is never the second in a row.   *)
FaultBeforeRestart ==
  [][rpc = "connected" /\ signal' = "up" => signal = "down"]_vars

(* "We might also be restarting since we could have been interrupted at    *)
(* any time" (lines 208-209): when _try_start has connected, an interrupt  *)
(* that comes at once does not make line 322 fail on its own None.         *)
StartSurvivesInterrupt ==
  [][rpc = "connected" /\ rpc' = "app" => conn # None]_vars
================================================================================
