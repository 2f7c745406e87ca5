------------------------- MODULE AsyncSSEClient_proofs -------------------------
(***************************************************************************)
(* Theorems about AsyncSSEClient, for every set of controllers, every      *)
(* number of connections, items and sessions, and every error strategy.    *)
(***************************************************************************)
EXTENDS AsyncSSEClient, TLAPS

USE DEF HasBuffered, IdAfter, ResumePoint, FlagAfterStart, StreamEnds, IsActive,
        OwnsSession, NeedsSession, Request, NoRequest

--------------------------------------------------------------------------------
(* Type correctness.  As in SSEClient_proofs, that the next item is an item *)
(* depends on the reader being in a session whenever it reads.              *)

Phase ==
  /\ InSession <=> (at = "item" \/ rpc \in {"read", "closing"})
  /\ rpc \in {"read", "closing"} => at = "running"
  /\ fin # "none" <=> fconn # None

TypeInv == TypeOK /\ Phase

LEMMA TypeInit == Init => TypeInv
<1> SUFFICES ASSUME Init PROVE TypeInv
  OBVIOUS
<1> USE BoundsAreNaturals DEF BoundsAreNaturals, Init, Conns, Items, Sessions, None
<1>1. ClientTypeOK /\ OthersTypeOK /\ HistTypeOK
  BY DEF ClientTypeOK, OthersTypeOK, HistTypeOK
<1>2. 1 \in Sessions /\ 1 \in 0..MaxSessions /\ 0 \in 0..MaxSessions
  OBVIOUS
<1>3. given \in BOOLEAN /\ session \in Sessions \cup {None}
      /\ nsess \in 0..MaxSessions /\ openSess \subseteq Sessions
  <2>1. CASE given = TRUE
    BY <1>2, <2>1
  <2>2. CASE given = FALSE
    BY <1>2, <2>2
  <2> QED
    BY <2>1, <2>2
<1>4. NetTypeOK
  <2>1. nconn \in 0..MaxConns /\ via \in [Conns -> Sessions \cup {None}]
        /\ pos \in [Conns -> Items \cup {0}]
    OBVIOUS
  <2> QED
    BY <1>3, <2>1 DEF NetTypeOK
<1>5. ReaderTypeOK /\ Phase
  BY DEF ReaderTypeOK, Phase, InSession
<1> QED
  BY <1>1, <1>4, <1>5 DEF TypeInv, TypeOK

(* Each end of a session but that of Drop is by way of Finish. *)
LEMMA TypeFinish ==
  ASSUME TypeInv, InSession, NEW w \in {"end", "err", "quiet", "gone"},
         Finish(w), OthersUnchanged
  PROVE  TypeInv'
<1> USE DEF TypeInv, TypeOK, Finish
<1>1. OthersTypeOK' /\ HistTypeOK'
  BY DEF OthersUnchanged, finVars, ctlVars, feedVars, closeVars, OthersTypeOK,
         HistTypeOK
<1>2. ClientTypeOK'
  BY DEF Report, ReaderTypeOK, ClientTypeOK
<1>3. NetTypeOK'
  BY DEF Release, poolVars, NetTypeOK
<1>4. ReaderTypeOK' /\ Phase'
  <2>1. CASE gconn \in closable
    BY <1>1, <2>1 DEF ReaderTypeOK, Phase, InSession, OthersUnchanged, finVars
  <2>2. CASE gconn \notin closable
    <3>1. at' \in {"none", "faulted", "eof"} /\ rpc' = "app"
          /\ gconn' = None /\ gpos' = 0 /\ rid' = 0 /\ why' = "none"
          /\ UNCHANGED <<csess, ask>>
      BY <2>2 DEF Report, Outcomes, Return, LeaveSession
    <3> QED
      BY <3>1
      DEF ReaderTypeOK, Phase, InSession, OthersUnchanged, finVars
  <2> QED
    BY <2>1, <2>2
<1> QED
  BY <1>1, <1>2, <1>3, <1>4

LEMMA TypeReader == TypeInv /\ ReaderStep => TypeInv'
<1> SUFFICES ASSUME TypeInv, ReaderStep PROVE TypeInv'
  OBVIOUS
<1>0. BreakOff \/ Aclose \/ StreamOver \/ CancelRead => InSession
  BY DEF BreakOff, Aclose, StreamOver, CancelRead, TypeInv, Phase
<1>1. CASE BreakOff \/ Aclose \/ StreamOver \/ CancelRead
  <2>1. PICK w \in {"end", "err", "quiet", "gone"} : Finish(w)
    BY <1>1 DEF BreakOff, Aclose, StreamOver, CancelRead
  <2>2. OthersUnchanged
    BY <1>1 DEF BreakOff, Aclose, StreamOver, CancelRead
  <2> QED
    BY <1>0, <1>1, <2>1, <2>2, TypeFinish
<1> USE DEF TypeInv, TypeOK, ClientTypeOK, NetTypeOK, ReaderTypeOK,
        OthersTypeOK, HistTypeOK, Phase, InSession,
        OthersUnchanged, clientVars, netVars, poolVars, sessionVars, finVars,
        ctlVars, feedVars, closeVars
<1>2. CASE Advance
  BY <1>2 DEF Advance, OpenSession
<1>3. CASE AwaitChunk \/ AdvanceFromEof \/ CallStart
  BY <1>3 DEF AwaitChunk, AdvanceFromEof, CallStart, Return
<1>4. CASE Deliver
  <2>1. gpos + 1 \in Items
    BY <1>4, BoundsAreNaturals DEF Deliver, BoundsAreNaturals, Items
  <2> QED
    BY <1>4, <2>1 DEF Deliver, Return
<1>5. CASE Drop
  BY <1>5 DEF Drop, Return, LeaveSession
<1>6. CASE BeginConnect
  <2>1. /\ session' \in Sessions \cup {None} /\ nsess' \in 0..MaxSessions
        /\ openSess' \subseteq Sessions
    <3>1. nsess < MaxSessions => nsess + 1 \in Sessions /\ nsess + 1 \in 0..MaxSessions
      BY BoundsAreNaturals DEF BoundsAreNaturals, Sessions
    <3> QED
      BY <1>6, <3>1 DEF BeginConnect, GetSession
  <2> QED
    BY <1>6, <2>1 DEF BeginConnect
<1>7. CASE ConnectOk
  <2>1. nconn + 1 \in Conns /\ nconn + 1 \in 0..MaxConns
    BY <1>7, BoundsAreNaturals DEF ConnectOk, BoundsAreNaturals, Conns
  <2>2. NetTypeOK'
    BY <1>7, <2>1 DEF ConnectOk, Accepted, MakeResult
  <2>3. ClientTypeOK' /\ OthersTypeOK' /\ HistTypeOK'
    BY <1>7, <2>1 DEF ConnectOk, MakeResult
  <2>4. ReaderTypeOK' /\ Phase'
    BY <1>7 DEF ConnectOk, Return
  <2> QED
    BY <2>2, <2>3, <2>4
<1>8. CASE ConnectFail
  BY <1>8 DEF ConnectFail, AfterFailure, Return
<1>9. CASE ReceiveChunk
  <2>1. (gpos + 1)..MaxEvents \subseteq Items
    BY BoundsAreNaturals DEF BoundsAreNaturals, Items
  <2> QED
    BY <1>9, <2>1 DEF ReceiveChunk, readerVars
<1>10. CASE EndClose
  BY <1>10 DEF EndClose, Report, Outcomes, Return, LeaveSession
<1>11. CASE CancelElsewhere
  BY <1>11 DEF CancelElsewhere, Return, LeaveSession
<1> QED
  BY <1>1, <1>2, <1>3, <1>4, <1>5, <1>6, <1>7, <1>8, <1>9, <1>10, <1>11
  DEF ReaderStep

LEMMA TypeFinalizer == TypeInv /\ Finalizer => TypeInv'
<1> SUFFICES ASSUME TypeInv, Finalizer PROVE TypeInv'
  OBVIOUS
<1> QED
  BY DEF Finalizer, FinalizeStart, FinalizeEnd, Release, TypeInv, TypeOK,
         ClientTypeOK, NetTypeOK, ReaderTypeOK, OthersTypeOK, HistTypeOK, Phase,
         InSession, None, poolVars, readerVars, sessionVars, ctlVars, feedVars,
         closeVars

LEMMA TypeController ==
  ASSUME NEW t \in Controllers, TypeInv, ControllerStep(t)
  PROVE  TypeInv'
<1> USE DEF TypeInv, TypeOK
<1>1. UNCHANGED <<readerVars, finVars, feedVars, lastId, given, nsess, nconn, via, pos>>
  BY DEF ControllerStep, CallInterrupt, CallClose, EndInterrupt, EndPool,
         CancelController, clientVars, poolVars, netVars
<1>2. ReaderTypeOK' /\ Phase'
  BY <1>1 DEF ReaderTypeOK, Phase, InSession, readerVars, sessionVars, finVars
<1>3. ClientTypeOK'
  BY <1>1
  DEF ControllerStep, CallInterrupt, CallClose, EndInterrupt, EndPool,
      CancelController, ClientTypeOK, clientVars
<1>4. NetTypeOK'
  BY <1>1
  DEF ControllerStep, CallInterrupt, CallClose, EndInterrupt, EndPool,
      CancelController, NetTypeOK, CloseSession, AwaitCloser, Release, poolVars,
      netVars
<1>5. \A c \in SUBSET Conns : OthersTypeOK /\ AwaitCloser(t, "close", c) /\ IsActive
                                => OthersTypeOK'
  BY <1>1 DEF OthersTypeOK, AwaitCloser, finVars, ClientTypeOK
<1>6. \A b \in SUBSET Conns : CloseSession(t, b) => OthersTypeOK' /\ HistTypeOK'
  BY <1>1
  DEF OthersTypeOK, HistTypeOK, CloseSession, Idle, finVars, feedVars, NetTypeOK
<1>7. Idle(t) => OthersTypeOK'
  BY <1>1 DEF OthersTypeOK, Idle, finVars
<1>8. OthersTypeOK' /\ HistTypeOK'
  <2>1. CASE CallInterrupt(t)
    BY <1>1, <2>1
    DEF CallInterrupt, AwaitCloser, OthersTypeOK, HistTypeOK, ClientTypeOK, ctlVars,
        closeVars, finVars, feedVars
  <2>2. CASE CallClose(t)
    <3>1. open \in SUBSET Conns
      BY DEF NetTypeOK
    <3>2. CASE IsActive /\ conn \in closable
      BY <1>1, <1>5, <2>2, <3>1, <3>2 DEF CallClose, HistTypeOK, closeVars, feedVars
    <3> QED
      BY <1>6, <2>2, <3>1, <3>2 DEF CallClose
  <2>3. CASE EndInterrupt(t)
    <3>1. before[t] \in SUBSET Conns
      BY DEF OthersTypeOK
    <3> QED
      BY <1>1, <1>6, <1>7, <2>3, <3>1
      DEF EndInterrupt, HistTypeOK, closeVars, feedVars
  <2>4. CASE EndPool(t)
    <3>1. before[t] \in SUBSET Conns
      BY DEF OthersTypeOK
    <3> QED
      BY <1>1, <1>7, <2>4, <3>1 DEF EndPool, HistTypeOK, feedVars
  <2>5. CASE CancelController(t)
    BY <1>1, <1>7, <2>5 DEF CancelController, HistTypeOK, closeVars, feedVars
  <2> QED
    BY <2>1, <2>2, <2>3, <2>4, <2>5 DEF ControllerStep
<1> QED
  BY <1>2, <1>3, <1>4, <1>8

LEMMA TypeNext == TypeInv /\ [Next]_vars => TypeInv'
<1> SUFFICES ASSUME TypeInv, [Next]_vars PROVE TypeInv'
  OBVIOUS
<1>1. CASE UNCHANGED vars
  BY <1>1
  DEF TypeInv, TypeOK, ClientTypeOK, NetTypeOK, ReaderTypeOK, OthersTypeOK,
      HistTypeOK, Phase, InSession, vars, clientVars, poolVars, netVars, readerVars,
      sessionVars, finVars, ctlVars, feedVars, closeVars
<1> QED
  BY <1>1, TypeReader, TypeFinalizer, TypeController DEF Next

LEMMA Typed == Spec => []TypeInv
<1> QED
  BY TypeInit, TypeNext, PTL DEF Spec

(* Every value of every variable is one the code can hold, and the iterator *)
(* has a session exactly when its code is between lines 143 and 160         *)
(* (async_client.py:136-172).                                               *)
THEOREM TypeCorrect == Spec => []TypeOK
<1>1. TypeInv => TypeOK
  BY DEF TypeInv
<1> QED
  BY <1>1, Typed, PTL

--------------------------------------------------------------------------------
(* HTTP sessions. *)

LEMMA GivenNext == GivenSessionStaysOpen /\ [Next]_vars => GivenSessionStaysOpen'
<1> SUFFICES ASSUME GivenSessionStaysOpen, [Next]_vars PROVE GivenSessionStaysOpen'
  OBVIOUS
<1>1. CASE UNCHANGED vars \/ (ReaderStep /\ ~BeginConnect) \/ Finalizer
  <2>1. given' = given /\ openSess' = openSess
    BY <1>1
    DEF vars, ReaderStep, Advance, BreakOff, AwaitChunk, Deliver, AdvanceFromEof,
        Aclose, Drop, CallStart, ConnectOk, ConnectFail, ReceiveChunk, StreamOver,
        EndClose, CancelRead, CancelElsewhere, Finalizer, FinalizeStart,
        FinalizeEnd, Finish, poolVars
  <2> QED
    BY <2>1 DEF GivenSessionStaysOpen
<1>2. CASE BeginConnect
  BY <1>2 DEF BeginConnect, GetSession, GivenSessionStaysOpen
<1>3. ASSUME NEW t \in Controllers, ControllerStep(t) PROVE GivenSessionStaysOpen'
  BY <1>3
  DEF ControllerStep, CallInterrupt, CallClose, EndInterrupt, EndPool,
      CancelController, CloseSession, poolVars, GivenSessionStaysOpen
<1> QED
  BY <1>1, <1>2, <1>3 DEF Next

(* An HTTP session that the application supplied is never closed, by no    *)
(* close(), reconnection or cancellation (async_http.py:122-126).          *)
THEOREM GivenSessionSurvives == Spec => []GivenSessionStaysOpen
<1>1. Init => GivenSessionStaysOpen
  BY DEF Init, GivenSessionStaysOpen
<1> QED
  BY <1>1, GivenNext, PTL DEF Spec

(* While one close() waits for the session to be closed, that session is   *)
(* the one remembered, so none is made in its place.                       *)
SessionInv ==
  overlap \/ /\ openSess \subseteq {session}
             /\ \A t \in Controllers :
                  pc[t] = "pool" => openSess = {} /\ session # None
             /\ \A t, u \in Controllers : pc[t] = "pool" /\ pc[u] = "pool" => t = u

LEMMA SessionController ==
  ASSUME NEW t \in Controllers, TypeInv, SessionInv, ControllerStep(t), ~overlap'
  PROVE  SessionInv'
<1>1. ~overlap
  BY DEF ControllerStep, CallInterrupt, CallClose, EndInterrupt, EndPool,
         CancelController, CloseSession, closeVars
<1>2. pc \in [Controllers -> {"idle", "closing", "pool"}]
  BY DEF TypeInv, TypeOK, OthersTypeOK
<1>3. \A u \in Controllers \ {t} : pc'[u] = pc[u]
  BY <1>2
  DEF ControllerStep, CallInterrupt, CallClose, EndInterrupt, EndPool,
      CancelController, CloseSession, AwaitCloser, Idle, ctlVars
<1>4. ASSUME NEW b, CloseSession(t, b) PROVE SessionInv'
  <2>1. \A u \in Controllers \ {t} : pc[u] # "pool"
    BY <1>4 DEF CloseSession
  <2>2. CASE OwnsSession /\ session \in openSess
    <3>1. openSess' = openSess \ {session} /\ session' = session /\ session # None
      BY <1>4, <2>2 DEF CloseSession
    <3> QED
      BY <1>1, <1>3, <2>1, <3>1 DEF SessionInv
  <2>3. CASE ~(OwnsSession /\ session \in openSess)
    <3>1. /\ session' = (IF OwnsSession THEN None ELSE session)
          /\ openSess' = openSess /\ pc'[t] = "idle"
      BY <1>2, <1>4, <2>3 DEF CloseSession, Idle
    <3>2. openSess' \subseteq {session'}
      BY <1>1, <2>3, <3>1 DEF SessionInv
    <3> QED
      BY <1>3, <2>1, <3>1, <3>2 DEF SessionInv
  <2> QED
    BY <2>2, <2>3
<1>5. CASE EndPool(t)
  <2>1. session' = None /\ openSess' = openSess /\ pc'[t] = "idle" /\ pc[t] = "pool"
    BY <1>2, <1>5 DEF EndPool, Idle
  <2>2. openSess = {} /\ \A u \in Controllers \ {t} : pc[u] # "pool"
    BY <1>1, <2>1 DEF SessionInv
  <2> QED
    BY <1>3, <2>1, <2>2 DEF SessionInv
<1>6. CASE ~EndPool(t) /\ \A b : ~CloseSession(t, b)
  <2>1. openSess' = openSess /\ session' = session /\ pc'[t] # "pool"
    BY <1>2, <1>6
    DEF ControllerStep, CallInterrupt, CallClose, EndInterrupt, CancelController,
        AwaitCloser, Idle, poolVars, ctlVars
  <2> QED
    BY <1>1, <1>3, <2>1 DEF SessionInv
<1> QED
  BY <1>4, <1>5, <1>6

LEMMA SessionNext == TypeInv /\ SessionInv /\ [Next]_vars => SessionInv'
<1> SUFFICES ASSUME TypeInv, SessionInv, [Next]_vars PROVE SessionInv'
  OBVIOUS
<1>1. CASE UNCHANGED vars \/ (ReaderStep /\ ~BeginConnect) \/ Finalizer
  <2>1. UNCHANGED <<openSess, session, pc, overlap>>
    BY <1>1
    DEF vars, ReaderStep, Advance, BreakOff, AwaitChunk, Deliver, AdvanceFromEof,
        Aclose, Drop, CallStart, ConnectOk, ConnectFail, ReceiveChunk, StreamOver,
        EndClose, CancelRead, CancelElsewhere, Finalizer, FinalizeStart,
        FinalizeEnd, Finish, OthersUnchanged, poolVars, ctlVars, closeVars
  <2> QED
    BY <2>1 DEF SessionInv
<1>2. CASE BeginConnect
  <2>1. pc' = pc /\ overlap' = overlap
    BY <1>2 DEF BeginConnect, OthersUnchanged, ctlVars, closeVars
  <2>2. None \notin openSess
    BY BoundsAreNaturals
    DEF BoundsAreNaturals, TypeInv, TypeOK, NetTypeOK, Sessions, None
  <2> QED
    BY <1>2, <2>1, <2>2 DEF BeginConnect, GetSession, SessionInv
<1>3. ASSUME NEW t \in Controllers, ControllerStep(t) PROVE SessionInv'
  <2>1. CASE overlap'
    BY <2>1 DEF SessionInv
  <2> QED
    BY <1>3, <2>1, SessionController
<1> QED
  BY <1>1, <1>2, <1>3 DEF Next

(* A session the client made and has not closed is the one that the next   *)
(* close() will close, whatever reconnects meanwhile, as long as no two     *)
(* close() calls overlap (async_http.py:58-64 and 122-126).                 *)
THEOREM SessionIsRemembered == Spec => []SessionNotForgotten
<1>1. Init => TypeInv /\ SessionInv
  BY TypeInit DEF Init, SessionInv
<1>2. TypeInv /\ SessionInv /\ [Next]_vars => (TypeInv /\ SessionInv)'
  BY TypeNext, SessionNext
<1>3. SessionInv => SessionNotForgotten
  BY DEF SessionInv, SessionNotForgotten
<1> QED
  BY <1>1, <1>2, <1>3, PTL DEF Spec

--------------------------------------------------------------------------------
(* The flag of interrupt(). *)

LEMMA FlagNext == FlagIsCurrent /\ [Next]_vars => FlagIsCurrent'
<1> SUFFICES ASSUME FlagIsCurrent, [Next]_vars, interrupted', conn' # None
             PROVE  conn' \notin open'
  BY DEF FlagIsCurrent
<1> USE DEF FlagIsCurrent
<1>1. CASE UNCHANGED vars \/ ReaderStep \/ Finalizer
  <2>1. ~ConnectOk
    BY DEF ConnectOk
  <2>2. interrupted' = interrupted
    BY <1>1, <2>1
    DEF vars, ReaderStep, Advance, BreakOff, AwaitChunk, Deliver, AdvanceFromEof,
        Aclose, Drop, CallStart, BeginConnect, ConnectFail, ReceiveChunk,
        StreamOver, EndClose, CancelRead, CancelElsewhere, Finalizer, FinalizeStart,
        FinalizeEnd, Finish, clientVars
  <2>3. conn' = conn /\ open' \subseteq open
    BY <1>1, <2>1
    DEF vars, ReaderStep, Advance, BreakOff, AwaitChunk, Deliver, AdvanceFromEof,
        Aclose, Drop, CallStart, BeginConnect, ConnectFail, ReceiveChunk,
        StreamOver, EndClose, CancelRead, CancelElsewhere, Finalizer, FinalizeStart,
        FinalizeEnd, Finish, Report, Release, clientVars, netVars
  <2> QED
    BY <2>2, <2>3
<1>2. ASSUME NEW t \in Controllers, ControllerStep(t) PROVE conn' \notin open'
  <2>1. CASE CallInterrupt(t) \/ CallClose(t)
    <3>1. conn' = conn /\ (AwaitCloser(t, "interrupt", {}) \/ AwaitCloser(t, "close", open))
      BY <2>1 DEF CallInterrupt, CallClose
    <3> QED
      BY <3>1 DEF AwaitCloser, Release
  <2>2. CASE EndPool(t) \/ CancelController(t)
    <3>1. UNCHANGED <<interrupted, conn, open>>
      BY <2>2 DEF EndPool, CancelController, clientVars, netVars
    <3> QED
      BY <3>1
  <2>3. ~EndInterrupt(t)
    BY DEF EndInterrupt
  <2> QED
    BY <1>2, <2>1, <2>2, <2>3 DEF ControllerStep
<1> QED
  BY <1>1, <1>2 DEF Next

(* While the flag of interrupt() is set, the connection that is current     *)
(* has been released: no session on a good connection is broken off by an   *)
(* interrupt() that was not meant for it (async_client.py:113-116, 151 and  *)
(* 228).                                                                    *)
THEOREM FlagMeansReleased == Spec => []FlagIsCurrent
<1>1. Init => FlagIsCurrent
  BY DEF Init, FlagIsCurrent
<1> QED
  BY <1>1, FlagNext, PTL DEF Spec

--------------------------------------------------------------------------------
(* The id of the last item seen. *)

(* The event reader's own id is the client's as long as a session lasts;    *)
(* only the finalizer of a dropped iterator may write back an older one.    *)
IdInv ==
  /\ LastIdIsLastSeen
  /\ ~dropped /\ InSession => rid = lastId
  /\ fin # "none" => dropped

LEMMA IdNext == TypeInv /\ IdInv /\ [Next]_vars => IdInv'
<1> SUFFICES ASSUME TypeInv, IdInv, [Next]_vars PROVE IdInv'
  OBVIOUS
<1> USE DEF IdInv, LastIdIsLastSeen, InSession
<1>1. CASE BreakOff \/ Aclose \/ StreamOver \/ CancelRead
  <2>1. InSession
    BY <1>1 DEF BreakOff, Aclose, StreamOver, CancelRead, TypeInv, Phase
  <2>2. lastId' = rid /\ (rid' = rid \/ gconn' = None)
        /\ UNCHANGED <<mark, dropped, fin>>
    BY <1>1
    DEF BreakOff, Aclose, StreamOver, CancelRead, Finish, Report, LeaveSession,
        OthersUnchanged, finVars, feedVars
  <2> QED
    BY <2>1, <2>2
<1>2. CASE Deliver
  BY <1>2 DEF Deliver, Return, finVars
<1>3. CASE Advance
  BY <1>3 DEF Advance, OpenSession, OthersUnchanged, clientVars, sessionVars,
              finVars, feedVars
<1>4. CASE Drop
  BY <1>4 DEF Drop
<1>5. CASE EndClose \/ CancelElsewhere
  BY <1>5 DEF EndClose, CancelElsewhere, Report, LeaveSession, OthersUnchanged,
              clientVars, sessionVars, finVars, feedVars
<1>6. CASE \/ AwaitChunk \/ AdvanceFromEof \/ CallStart \/ BeginConnect \/ ConnectOk
           \/ ConnectFail \/ ReceiveChunk \/ UNCHANGED vars
  BY <1>6
  DEF AwaitChunk, AdvanceFromEof, CallStart, BeginConnect, ConnectOk, ConnectFail,
      ReceiveChunk, vars, OthersUnchanged, clientVars, readerVars, sessionVars,
      finVars, feedVars
<1>7. CASE Finalizer
  BY <1>7 DEF Finalizer, FinalizeStart, FinalizeEnd, feedVars
<1>8. ASSUME NEW t \in Controllers, ControllerStep(t) PROVE IdInv'
  BY <1>8
  DEF ControllerStep, CallInterrupt, CallClose, EndInterrupt, EndPool,
      CancelController, clientVars, readerVars, sessionVars, finVars, feedVars
<1> QED
  BY <1>1, <1>2, <1>3, <1>4, <1>5, <1>6, <1>7, <1>8 DEF Next, ReaderStep

(* Until an iterator is dropped, the id sent on the next connection is that *)
(* of the last item the application was given that had one, wherever tasks  *)
(* are cancelled (async_client.py:149, 158 and 212-214).                    *)
THEOREM LastIdIsCurrent == Spec => []LastIdIsLastSeen
<1>1. Init => IdInv
  BY DEF Init, IdInv, LastIdIsLastSeen, InSession
<1>2. TypeInv /\ IdInv /\ [Next]_vars => (TypeInv /\ IdInv)'
  BY TypeNext, IdNext
<1>3. IdInv => LastIdIsLastSeen
  BY DEF IdInv
<1> QED
  BY <1>1, <1>2, <1>3, TypeInit, PTL DEF Spec

--------------------------------------------------------------------------------
(* Connections.  Nobody forgets a connection but after its closer, because  *)
(* nobody connects while a closer is awaited: every closer that is awaited, *)
(* and every session, belongs to the connection that is current.            *)

OwnInv ==
  /\ NoConnectionLost
  /\ open \subseteq closable /\ open \subseteq 1..nconn /\ conn <= nconn
  /\ rpc \in {"sleeping", "connecting"} => conn = None /\ at # "item"
  /\ InSession => conn \in {None, gconn} /\ gconn <= nconn
  /\ rpc = "closing" => gconn \notin open
  /\ fin # "none" => conn \in {None, fconn} /\ fconn <= nconn
  /\ fin = "closing" => fconn \notin open
  /\ \A t \in Controllers :
       pc[t] = "closing" => /\ conn \in {None, held[t]} /\ held[t] <= nconn
                            /\ held[t] \notin open

LEMMA OwnInit == Init => OwnInv
  BY DEF Init, OwnInv, NoConnectionLost, InSession, None

LEMMA NothingElseOpen ==
  ASSUME TypeInv, OwnInv, NEW c, conn \in {None, c}, c \notin open
  PROVE  open = {}
  BY BoundsAreNaturals
  DEF BoundsAreNaturals, OwnInv, NoConnectionLost, TypeInv, TypeOK, NetTypeOK, Conns,
      None

(* Steps that connect nothing and begin no session: connections are only    *)
(* released, and the current one is forgotten only after that.              *)
ReleasesOnly ==
  /\ nconn' = nconn
  /\ open' \subseteq open /\ open' \subseteq closable'
  /\ conn' = conn \/ (conn' = None /\ open' = {})

LEMMA OwnAside ==
  ASSUME TypeInv, OwnInv, ReleasesOnly,
         rpc' \in {"sleeping", "connecting"} => conn' = None /\ at' # "item",
         gconn' \in {gconn, None},
         rpc' = "closing" => gconn' \notin open',
         UNCHANGED <<fin, fconn, pc, held>>
  PROVE  OwnInv'
<1>1. nconn \in Nat
  BY BoundsAreNaturals DEF BoundsAreNaturals, TypeInv, TypeOK, NetTypeOK
<1>2. NoConnectionLost'
  BY DEF OwnInv, ReleasesOnly, NoConnectionLost
<1>3. conn' <= nconn' /\ conn' \in {None, conn}
  BY <1>1 DEF OwnInv, ReleasesOnly, None
<1> QED
  BY <1>2, <1>3 DEF OwnInv, ReleasesOnly, InSession

LEMMA OwnFinish ==
  ASSUME TypeInv, OwnInv, InSession, NEW w, Finish(w), OthersUnchanged
  PROVE  OwnInv'
<1>1. CASE gconn \in closable
  <2>1. /\ open' = open \ {gconn} /\ rpc' = "closing" /\ gconn' = gconn
        /\ UNCHANGED <<conn, nconn, closable>>
    BY <1>1 DEF Finish, Release
  <2> QED
    BY <2>1, OwnAside
    DEF OwnInv, ReleasesOnly, OthersUnchanged, finVars, ctlVars
<1>2. CASE gconn \notin closable
  <2>1. open = {}
    <3>1. conn \in {None, gconn} /\ gconn \notin open
      BY <1>2 DEF OwnInv
    <3> QED
      BY <3>1, NothingElseOpen
  <2>2. /\ conn' = None /\ rpc' = "app" /\ gconn' = None
        /\ UNCHANGED <<open, nconn, closable>>
    BY <1>2 DEF Finish, Report, Return, LeaveSession
  <2> QED
    BY <2>1, <2>2, OwnAside DEF ReleasesOnly, OthersUnchanged, finVars, ctlVars
<1> QED
  BY <1>1, <1>2

LEMMA OwnReader ==
  ASSUME ~MayRestart, ~SlowClosers, TypeInv, OwnInv, ReaderStep
  PROVE  OwnInv'
<1>1. CASE BreakOff \/ Aclose \/ StreamOver \/ CancelRead
  <2>1. InSession
    BY <1>1 DEF BreakOff, Aclose, StreamOver, CancelRead, TypeInv, Phase
  <2>2. OthersUnchanged /\ \E w \in {"end", "err", "quiet", "gone"} : Finish(w)
    BY <1>1 DEF BreakOff, Aclose, StreamOver, CancelRead
  <2> QED
    BY <2>1, <2>2, OwnFinish
<1>2. CASE Advance
  <2>1. UNCHANGED <<conn, open, nconn, closable, fin, fconn, pc, held>>
    BY <1>2 DEF Advance, OthersUnchanged, clientVars, netVars, finVars, ctlVars
  <2>2. CASE conn = None
    BY <1>2, <2>1, <2>2, OwnAside DEF Advance, OwnInv, ReleasesOnly, sessionVars
  <2>3. CASE conn # None
    <3>1. rpc' = "read" /\ gconn' = conn
      BY <1>2, <2>3 DEF Advance, OpenSession
    <3> QED
      BY <2>1, <3>1 DEF OwnInv, NoConnectionLost, InSession
  <2> QED
    BY <2>2, <2>3
<1>3. CASE Drop
  <2>1. /\ InSession /\ fin = "none" /\ fin' = "pending" /\ fconn' = gconn
        /\ gconn' = None /\ rpc' = "app"
        /\ UNCHANGED <<conn, open, nconn, closable, pc, held>>
    BY <1>3 DEF Drop, Return, LeaveSession, clientVars, netVars, ctlVars, TypeInv,
                Phase
  <2> QED
    BY <2>1 DEF OwnInv, NoConnectionLost, InSession
<1>4. CASE ConnectOk
  <2>1. LoopQuiet /\ ~InSession /\ conn = None
    BY <1>4 DEF ConnectOk, TypeInv, Phase, OwnInv
  <2>2. nconn \in Nat
    BY BoundsAreNaturals DEF BoundsAreNaturals, TypeInv, TypeOK, NetTypeOK
  <2>3. open = {}
    BY <2>1, <2>2 DEF OwnInv, NoConnectionLost, None
  <2>4. /\ conn' = nconn + 1 /\ nconn' = nconn + 1 /\ open' = {nconn + 1}
        /\ closable' = closable \cup {nconn + 1} /\ rpc' = "app" /\ gconn' = gconn
        /\ UNCHANGED <<fin, fconn, pc, held>>
    BY <1>4, <2>3 DEF ConnectOk, Accepted, MakeResult, Return, OthersUnchanged,
                      sessionVars, finVars, ctlVars
  <2> QED
    BY <2>1, <2>2, <2>4 DEF OwnInv, NoConnectionLost, InSession, LoopQuiet
<1>5. CASE EndClose
  <2>1. InSession /\ conn \in {None, gconn} /\ gconn \notin open
    BY <1>5 DEF EndClose, OwnInv, TypeInv, Phase
  <2>2. open = {}
    BY <2>1, NothingElseOpen
  <2>3. /\ conn' = None /\ rpc' = "app" /\ gconn' = None
        /\ UNCHANGED <<open, nconn, fin, fconn, pc, held>>
    BY <1>5 DEF EndClose, Report, Return, LeaveSession, OthersUnchanged, finVars,
                ctlVars
  <2> QED
    BY <2>2, <2>3, OwnAside DEF ReleasesOnly
<1>6. CASE \/ AwaitChunk \/ AdvanceFromEof \/ CallStart \/ BeginConnect \/ ConnectFail
           \/ ReceiveChunk \/ CancelElsewhere \/ Deliver
  <2>1. UNCHANGED <<conn, open, nconn, closable, fin, fconn, pc, held>>
    BY <1>6
    DEF AwaitChunk, AdvanceFromEof, CallStart, BeginConnect, ConnectFail, ReceiveChunk,
        CancelElsewhere, Deliver, OthersUnchanged, clientVars, netVars, finVars,
        ctlVars
  <2>2. gconn' \in {gconn, None} /\ rpc' # "closing"
    BY <1>6
    DEF AwaitChunk, AdvanceFromEof, CallStart, BeginConnect, ConnectFail, ReceiveChunk,
        CancelElsewhere, Deliver, AfterFailure, Return, LeaveSession, sessionVars,
        readerVars
  <2>3. rpc' \in {"sleeping", "connecting"} => conn' = None /\ at' # "item"
    <3>1. CASE CallStart
      BY <2>1, <3>1 DEF CallStart
    <3>2. CASE ~CallStart
      <4>1. rpc' \in {"sleeping", "connecting"} =>
              rpc \in {"sleeping", "connecting"} /\ at' = at
        BY <1>6, <3>2
        DEF AwaitChunk, AdvanceFromEof, BeginConnect, ConnectFail, ReceiveChunk,
            CancelElsewhere, Deliver, AfterFailure, Return, readerVars
      <4> QED
        BY <2>1, <4>1 DEF OwnInv
    <3> QED
      BY <3>1, <3>2
  <2> QED
    BY <2>1, <2>2, <2>3, OwnAside DEF ReleasesOnly, OwnInv
<1> QED
  BY <1>1, <1>2, <1>3, <1>4, <1>5, <1>6 DEF ReaderStep

LEMMA OwnFinalizer == TypeInv /\ OwnInv /\ Finalizer => OwnInv'
<1> SUFFICES ASSUME TypeInv, OwnInv, Finalizer PROVE OwnInv'
  OBVIOUS
<1>0. UNCHANGED <<nconn, rpc, at, gconn, pc, held>>
  BY DEF Finalizer, FinalizeStart, FinalizeEnd, readerVars, sessionVars, ctlVars
<1>1. CASE FinalizeStart /\ fconn \in closable
  <2>1. /\ open' = open \ {fconn} /\ fin' = "closing" /\ fin # "none"
        /\ UNCHANGED <<conn, fconn, closable>>
    BY <1>1 DEF FinalizeStart, Release
  <2> QED
    BY <1>0, <2>1 DEF OwnInv, NoConnectionLost, InSession
<1>2. CASE FinalizeEnd \/ (FinalizeStart /\ fconn \notin closable)
  <2>1. open = {}
    <3>1. conn \in {None, fconn} /\ fconn \notin open
      BY <1>2 DEF FinalizeEnd, FinalizeStart, OwnInv
    <3> QED
      BY <3>1, NothingElseOpen
  <2>2. open' = open /\ conn' = None /\ fin' = "none"
    BY <1>2 DEF FinalizeEnd, FinalizeStart
  <2>3. nconn \in Nat
    BY BoundsAreNaturals DEF BoundsAreNaturals, TypeInv, TypeOK, NetTypeOK
  <2> QED
    BY <1>0, <2>1, <2>2, <2>3 DEF OwnInv, NoConnectionLost, InSession, None
<1> QED
  BY <1>1, <1>2 DEF Finalizer

LEMMA OwnController ==
  ASSUME NEW t \in Controllers, TypeInv, OwnInv, ControllerStep(t)
  PROVE  OwnInv'
<1>0. /\ nconn \in Nat /\ pc \in [Controllers -> {"idle", "closing", "pool"}]
      /\ held \in [Controllers -> Conns \cup {None}]
  BY BoundsAreNaturals
  DEF BoundsAreNaturals, TypeInv, TypeOK, NetTypeOK, OthersTypeOK
<1>1. UNCHANGED <<nconn, rpc, at, gconn, fin, fconn>>
  BY DEF ControllerStep, CallInterrupt, CallClose, EndInterrupt, EndPool,
         CancelController, netVars, readerVars, sessionVars, finVars
<1>2. \A u \in Controllers \ {t} : pc'[u] = pc[u] /\ held'[u] = held[u]
  BY <1>0
  DEF ControllerStep, CallInterrupt, CallClose, EndInterrupt, EndPool,
      CancelController, CloseSession, AwaitCloser, Idle, ctlVars
<1>3. ReleasesOnly
  <2>1. CASE CallInterrupt(t) \/ CallClose(t)
    <3>1. /\ UNCHANGED <<nconn, closable>> /\ open' \subseteq open
          /\ conn' = conn \/ (conn' = None /\ conn \notin closable)
      BY <2>1 DEF CallInterrupt, CallClose, AwaitCloser, CloseSession, Release
    <3>2. conn \notin closable => conn \notin open
      BY DEF OwnInv
    <3>3. conn \notin closable => open = {}
      BY <3>2, NothingElseOpen
    <3> QED
      BY <3>1, <3>3 DEF ReleasesOnly, OwnInv
  <2>2. CASE EndInterrupt(t)
    <3>1. open = {}
      <4>1. conn \in {None, held[t]} /\ held[t] \notin open
        BY <2>2 DEF EndInterrupt, OwnInv
      <4> QED
        BY <4>1, NothingElseOpen
    <3>2. nconn' = nconn /\ conn' = None /\ open' \subseteq open
      BY <2>2 DEF EndInterrupt, CloseSession
    <3> QED
      BY <3>1, <3>2 DEF ReleasesOnly
  <2>3. CASE EndPool(t) \/ CancelController(t)
    BY <2>3 DEF EndPool, CancelController, clientVars, netVars, ReleasesOnly, OwnInv
  <2> QED
    BY <2>1, <2>2, <2>3 DEF ControllerStep
<1>4. pc'[t] = "closing" => held'[t] = conn' /\ held'[t] \notin open'
  <2>1. ASSUME NEW b, CloseSession(t, b) PROVE pc'[t] # "closing"
    BY <1>0, <2>1 DEF CloseSession, Idle
  <2>2. ASSUME NEW call, NEW b, AwaitCloser(t, call, b)
        PROVE  held'[t] = conn /\ conn \notin open'
    BY <1>0, <2>2 DEF AwaitCloser, Release
  <2>3. CASE CallInterrupt(t)
    BY <2>2, <2>3 DEF CallInterrupt, ctlVars
  <2>4. CASE CallClose(t)
    BY <2>1, <2>2, <2>4 DEF CallClose
  <2>5. CASE EndInterrupt(t) \/ EndPool(t) \/ CancelController(t)
    <3>1. CASE Idle(t)
      BY <1>0, <3>1 DEF Idle
    <3> QED
      BY <2>1, <2>5, <3>1 DEF EndInterrupt, EndPool, CancelController
  <2> QED
    BY <2>3, <2>4, <2>5 DEF ControllerStep
<1>5. NoConnectionLost'
  BY <1>3 DEF OwnInv, ReleasesOnly, NoConnectionLost
<1>6. conn' <= nconn' /\ conn' \in {None, conn}
  BY <1>0, <1>3 DEF OwnInv, ReleasesOnly, None
<1>7. \A u \in Controllers :
        pc'[u] = "closing" => /\ conn' \in {None, held'[u]} /\ held'[u] <= nconn'
                              /\ held'[u] \notin open'
  BY <1>1, <1>2, <1>3, <1>4, <1>6 DEF OwnInv, ReleasesOnly
<1> QED
  BY <1>1, <1>3, <1>5, <1>6, <1>7 DEF OwnInv, ReleasesOnly, InSession

LEMMA OwnNext ==
  ASSUME ~MayRestart, ~SlowClosers
  PROVE  TypeInv /\ OwnInv /\ [Next]_vars => OwnInv'
<1> SUFFICES ASSUME TypeInv, OwnInv, [Next]_vars PROVE OwnInv'
  OBVIOUS
<1>1. CASE UNCHANGED vars
  BY <1>1
  DEF OwnInv, NoConnectionLost, InSession, vars, clientVars, netVars, readerVars,
      sessionVars, finVars, ctlVars
<1> QED
  BY <1>1, OwnReader, OwnFinalizer, OwnController DEF Next

(* Nobody forgets an open connection: whichever await a task is cancelled   *)
(* in, and however interrupt(), close(), the end of a stream and the        *)
(* finalizer of a dropped iterator overlap, an open connection is current   *)
(* (async_client.py:113-116, 157-160 and 212).                              *)
THEOREM ConnectionsAreOwned ==
  ASSUME ~MayRestart, ~SlowClosers
  PROVE  Spec => []NoConnectionLost
<1>1. Init => TypeInv /\ OwnInv
  BY TypeInit, OwnInit
<1>2. TypeInv /\ OwnInv /\ [Next]_vars => (TypeInv /\ OwnInv)'
  BY TypeNext, OwnNext
<1>3. OwnInv => NoConnectionLost
  BY DEF OwnInv
<1> QED
  BY <1>1, <1>2, <1>3, PTL DEF Spec

--------------------------------------------------------------------------------
(* What close() leaves open. *)

(* What a close() under way found open is closed already. *)
CloseInv ==
  /\ CloseClosesActive
  /\ \A t \in Controllers : before[t] \subseteq 1..nconn /\ before[t] \cap open = {}

LEMMA CloseReader ==
  TypeInv /\ OwnInv /\ CloseInv /\ (ReaderStep \/ Finalizer) => CloseInv'
<1> SUFFICES ASSUME TypeInv, OwnInv, CloseInv, ReaderStep \/ Finalizer PROVE CloseInv'
  OBVIOUS
<1>1. nconn \in Nat
  BY BoundsAreNaturals DEF BoundsAreNaturals, TypeInv, TypeOK, NetTypeOK
<1>2. UNCHANGED <<before, left>>
  BY DEF ReaderStep, Advance, BreakOff, AwaitChunk, Deliver, AdvanceFromEof, Aclose,
         Drop, CallStart, BeginConnect, ConnectOk, ConnectFail, ReceiveChunk,
         StreamOver, EndClose, CancelRead, CancelElsewhere, Finalizer, FinalizeStart,
         FinalizeEnd, OthersUnchanged, ctlVars, closeVars
<1>3. CASE ConnectOk
  <2>1. nconn' = nconn + 1 /\ open' = open \cup {nconn + 1}
    BY <1>3 DEF ConnectOk, Accepted
  <2>2. \A t \in Controllers : nconn + 1 \notin before[t]
    BY <1>1 DEF CloseInv
  <2> QED
    BY <1>1, <1>2, <2>1, <2>2 DEF CloseInv, CloseClosesActive
<1>4. CASE ~ConnectOk
  <2>1. nconn' = nconn /\ open' \subseteq open
    BY <1>4
    DEF ReaderStep, Advance, BreakOff, AwaitChunk, Deliver, AdvanceFromEof, Aclose,
        Drop, CallStart, BeginConnect, ConnectFail, ReceiveChunk, StreamOver, EndClose,
        CancelRead, CancelElsewhere, Finalizer, FinalizeStart, FinalizeEnd, Finish,
        Release, netVars
  <2> QED
    BY <1>2, <2>1 DEF CloseInv, CloseClosesActive
<1> QED
  BY <1>3, <1>4

LEMMA CloseController ==
  ASSUME NEW t \in Controllers, TypeInv, OwnInv, CloseInv, ControllerStep(t)
  PROVE  CloseInv'
<1>0. before \in [Controllers -> SUBSET Conns]
  BY DEF TypeInv, TypeOK, OthersTypeOK
<1>1. nconn' = nconn /\ open' \subseteq open
  BY DEF ControllerStep, CallInterrupt, CallClose, EndInterrupt, EndPool,
         CancelController, AwaitCloser, CloseSession, Release, netVars
<1>2. \A u \in Controllers \ {t} : before'[u] = before[u]
  BY <1>0
  DEF ControllerStep, CallInterrupt, CallClose, EndInterrupt, EndPool,
      CancelController, CloseSession, AwaitCloser, Idle, ctlVars
<1>3. ASSUME NEW b \in SUBSET (1..nconn), b \cap open = {}, CloseSession(t, b)
      PROVE  left' = {} /\ before'[t] \in {b, {}}
  BY <1>0, <1>3 DEF CloseSession, Idle, CloseInv, CloseClosesActive
<1>4. left' = {} /\ before'[t] \subseteq 1..nconn /\ before'[t] \cap open' = {}
  <2>1. CASE CallInterrupt(t)
    BY <1>0, <1>1, <2>1
    DEF CallInterrupt, AwaitCloser, ctlVars, closeVars, CloseInv, CloseClosesActive
  <2>2. CASE CallClose(t)
    <3>1. CASE IsActive /\ conn \in closable
      <4>1. left' = left /\ before'[t] = open /\ open' = open \ {conn}
        BY <1>0, <2>2, <3>1 DEF CallClose, AwaitCloser, Release, closeVars
      <4> QED
        BY <4>1 DEF OwnInv, NoConnectionLost, CloseInv, CloseClosesActive
    <3>2. CASE ~(IsActive /\ conn \in closable)
      <4>1. None \notin open
        BY BoundsAreNaturals
        DEF BoundsAreNaturals, None, TypeInv, TypeOK, NetTypeOK, Conns
      <4>2. conn \notin open
        BY <3>2, <4>1 DEF OwnInv
      <4>3. open = {}
        BY <4>2, NothingElseOpen
      <4>4. CloseSession(t, open)
        BY <2>2, <3>2 DEF CallClose
      <4>5. left' = {} /\ before'[t] \in {open, {}}
        BY <1>3, <4>3, <4>4
      <4> QED
        BY <4>3, <4>5
    <3> QED
      BY <3>1, <3>2
  <2>3. CASE EndInterrupt(t)
    <3>1. before[t] \in SUBSET (1..nconn) /\ before[t] \cap open = {}
      BY DEF CloseInv
    <3>2. CASE CloseSession(t, before[t])
      BY <1>1, <1>3, <3>1, <3>2
    <3>3. CASE Idle(t) /\ UNCHANGED closeVars
      BY <1>0, <3>3 DEF Idle, closeVars, CloseInv, CloseClosesActive
    <3> QED
      BY <2>3, <3>2, <3>3 DEF EndInterrupt, closeVars
  <2>4. CASE EndPool(t) \/ CancelController(t)
    BY <1>0, <2>4
    DEF EndPool, CancelController, Idle, closeVars, CloseInv, CloseClosesActive
  <2> QED
    BY <2>1, <2>2, <2>3, <2>4 DEF ControllerStep
<1> QED
  BY <1>1, <1>2, <1>4 DEF CloseInv, CloseClosesActive

LEMMA CloseNext == TypeInv /\ OwnInv /\ CloseInv /\ [Next]_vars => CloseInv'
<1> SUFFICES ASSUME TypeInv, OwnInv, CloseInv, [Next]_vars PROVE CloseInv'
  OBVIOUS
<1>1. CASE UNCHANGED vars
  BY <1>1 DEF CloseInv, CloseClosesActive, vars, netVars, ctlVars, closeVars
<1> QED
  BY <1>1, CloseReader, CloseController DEF Next

(* close() leaves none of the connections open that it found open, although *)
(* the current one may change, and others may run the same closer, while it *)
(* awaits (async_client.py:101-116).                                        *)
THEOREM CloseReleases ==
  ASSUME ~MayRestart, ~SlowClosers
  PROVE  Spec => []CloseClosesActive
<1>1. Init => TypeInv /\ OwnInv /\ CloseInv
  BY TypeInit, OwnInit DEF Init, CloseInv, CloseClosesActive
<1>2. TypeInv /\ OwnInv /\ CloseInv /\ [Next]_vars
        => (TypeInv /\ OwnInv /\ CloseInv)'
  BY TypeNext, OwnNext, CloseNext
<1>3. CloseInv => CloseClosesActive
  BY DEF CloseInv
<1> QED
  BY <1>1, <1>2, <1>3, PTL DEF Spec

--------------------------------------------------------------------------------
(* The feed.  None of this depends on how fast closers are. *)

(* A session stays with the connection that was current when it began, and  *)
(* a connection that outlives its session brings no more items.             *)
StayInv ==
  /\ rpc \in {"sleeping", "connecting"} => at # "item"
  /\ InSession => conn \in {None, gconn}
  /\ rpc = "closing" => gconn \notin live

LEMMA StayReader ==
  ASSUME ~MayRestart, TypeInv, StayInv, ReaderStep
  PROVE  StayInv'
<1> USE DEF StayInv, InSession
<1>1. CASE BreakOff \/ Aclose \/ StreamOver \/ CancelRead
  <2>1. InSession
    BY <1>1 DEF BreakOff, Aclose, StreamOver, CancelRead, TypeInv, Phase
  <2>2. \/ rpc' = "closing" /\ UNCHANGED <<conn, gconn>> /\ live' = live \ {gconn}
        \/ rpc' = "app" /\ gconn' = None
    BY <1>1
    DEF BreakOff, Aclose, StreamOver, CancelRead, Finish, Release, Report, Return,
        LeaveSession
  <2> QED
    BY <2>1, <2>2
<1>2. CASE Advance
  BY <1>2 DEF Advance, OpenSession, clientVars, netVars, sessionVars, TypeInv, Phase
<1>3. CASE Drop \/ EndClose \/ CancelElsewhere
  <2>1. CASE rpc' = "app" /\ gconn' = None
    BY <2>1
  <2>2. CASE CancelElsewhere /\ at # "running"
    BY <2>2 DEF CancelElsewhere, Return, sessionVars, clientVars, TypeInv, Phase
  <2> QED
    BY <1>3, <2>1, <2>2
    DEF Drop, EndClose, CancelElsewhere, Report, Return, LeaveSession
<1>4. CASE ConnectOk
  <2>1. ~InSession /\ gconn' = gconn /\ rpc' = "app"
    BY <1>4 DEF ConnectOk, Return, sessionVars, TypeInv, Phase
  <2> QED
    BY <2>1
<1>5. CASE \/ AwaitChunk \/ AdvanceFromEof \/ CallStart \/ BeginConnect \/ ConnectFail
           \/ ReceiveChunk \/ Deliver
  <2>1. UNCHANGED <<conn, gconn, live>> /\ rpc' # "closing"
    BY <1>5
    DEF AwaitChunk, AdvanceFromEof, CallStart, BeginConnect, ConnectFail, ReceiveChunk,
        Deliver, AfterFailure, Return, clientVars, netVars, sessionVars, readerVars
  <2>2. rpc' \in {"sleeping", "connecting"} => at' # "item"
    BY <1>5
    DEF AwaitChunk, AdvanceFromEof, CallStart, BeginConnect, ConnectFail, ReceiveChunk,
        Deliver, AfterFailure, Return, readerVars
  <2> QED
    BY <2>1, <2>2
<1> QED
  BY <1>1, <1>2, <1>3, <1>4, <1>5 DEF ReaderStep

(* What the other tasks do to the reader's. *)
OthersOnly ==
  /\ UNCHANGED <<readerVars, pos, feedVars>>
  /\ conn' \in {conn, None} /\ live' \subseteq live
  /\ dropped \/ lastId' = lastId

LEMMA OthersStep ==
  ASSUME TypeInv, IdInv, Finalizer \/ \E t \in Controllers : ControllerStep(t)
  PROVE  OthersOnly
<1>1. CASE Finalizer
  BY <1>1 DEF Finalizer, FinalizeStart, FinalizeEnd, Release, IdInv, OthersOnly
<1>2. ASSUME NEW t \in Controllers, ControllerStep(t) PROVE OthersOnly
  BY <1>2
  DEF ControllerStep, CallInterrupt, CallClose, EndInterrupt, EndPool,
      CancelController, AwaitCloser, CloseSession, Release, clientVars, netVars,
      OthersOnly
<1> QED
  BY <1>1, <1>2

LEMMA StayNext ==
  ASSUME ~MayRestart
  PROVE  TypeInv /\ IdInv /\ StayInv /\ [Next]_vars => StayInv'
<1> SUFFICES ASSUME TypeInv, IdInv, StayInv, [Next]_vars PROVE StayInv'
  OBVIOUS
<1>1. CASE OthersOnly
  BY <1>1 DEF OthersOnly, StayInv, InSession, readerVars, sessionVars
<1>2. CASE UNCHANGED vars
  BY <1>2 DEF vars, clientVars, netVars, readerVars, sessionVars, StayInv, InSession
<1> QED
  BY <1>1, <1>2, StayReader, OthersStep DEF Next

(* Up to the last id, up to where a session reads, and up to where the next *)
(* session would begin to read, the application has seen everything.        *)
FeedInv ==
  ~dropped =>
    /\ 1..lastId \subseteq seen
    /\ rpc = "connecting" => ask = lastId
    /\ Reading => 1..gpos \subseteq seen /\ lastId <= gpos
    /\ ~InSession /\ conn \in live => 1..pos[conn] \subseteq seen /\ lastId <= pos[conn]

ReadInv == TypeInv /\ IdInv /\ StayInv /\ FeedInv

LEMMA Integral ==
  ASSUME TypeInv
  PROVE  /\ gpos \in Int /\ lastId \in Int /\ mark \in Items \cup {0}
         /\ \A c \in Conns : pos[c] \in Int
         /\ None \notin live /\ live \subseteq Conns
  BY BoundsAreNaturals
  DEF BoundsAreNaturals, TypeInv, TypeOK, ClientTypeOK, NetTypeOK, ReaderTypeOK,
      HistTypeOK, Conns, Items, None

(* A session that ends releases its connection or forgets it. *)
LEMMA EndsRead ==
  ASSUME ReadInv, BreakOff \/ Aclose \/ StreamOver \/ CancelRead, ~dropped
  PROVE  /\ ~Reading' /\ UNCHANGED <<seen, mark, dropped, lastId>>
         /\ rpc' \in {"closing", "app"}
         /\ InSession' \/ conn' = None
<1>1. InSession /\ rid = lastId
  BY DEF BreakOff, Aclose, StreamOver, CancelRead, ReadInv, TypeInv, Phase, IdInv
<1>2. UNCHANGED <<seen, mark, dropped>>
  BY DEF BreakOff, Aclose, StreamOver, CancelRead, OthersUnchanged, feedVars
<1>3. lastId' = rid /\ \/ rpc' = "closing" /\ gconn' = gconn
                       \/ rpc' = "app" /\ gconn' = None /\ conn' = None
  BY DEF BreakOff, Aclose, StreamOver, CancelRead, Finish, Report, Return,
         LeaveSession
<1> QED
  BY <1>1, <1>2, <1>3 DEF Reading, InSession

(* Steps outside a session that read nothing. *)
LEMMA FeedAside ==
  ASSUME ReadInv, ~dropped, ~InSession',
         UNCHANGED <<lastId, seen, pos, conn, live>>,
         rpc' = "connecting" => ask' = lastId,
         ~InSession \/ conn \notin live
  PROVE  FeedInv'
  BY DEF ReadInv, FeedInv, Reading, InSession

LEMMA FeedReader ==
  ASSUME ~MayRestart, ReadInv, ReaderStep, ~dropped'
  PROVE  FeedInv'
<1>1. ~dropped /\ ~Drop
  BY DEF ReaderStep, Advance, BreakOff, AwaitChunk, Deliver, AdvanceFromEof, Aclose,
         Drop, CallStart, BeginConnect, ConnectOk, ConnectFail, ReceiveChunk,
         StreamOver, EndClose, CancelRead, CancelElsewhere, OthersUnchanged, feedVars
<1>2. TypeInv'
  BY TypeReader DEF ReadInv
<1>3. CASE BreakOff \/ Aclose \/ StreamOver \/ CancelRead
  <2>1. None \notin live'
    BY <1>2, BoundsAreNaturals
    DEF BoundsAreNaturals, TypeInv, TypeOK, NetTypeOK, Conns, None
  <2> QED
    BY <1>1, <1>3, <2>1, EndsRead DEF ReadInv, FeedInv
<1>4. CASE Advance
  <2>1. ~InSession /\ UNCHANGED <<lastId, seen, pos, conn, live>>
    BY <1>4
    DEF Advance, OthersUnchanged, clientVars, netVars, feedVars, ReadInv, TypeInv,
        Phase
  <2>2. CASE conn = None
    <3>1. ~InSession' /\ rpc' = "sleeping"
      BY <1>4, <2>1, <2>2 DEF Advance, sessionVars, InSession
    <3> QED
      BY <1>1, <2>1, <3>1, FeedAside
  <2>3. CASE conn # None
    <3>1. rpc' = "read" /\ at' = "running" /\ gconn' = conn /\ gpos' = pos[conn]
      BY <1>4, <2>3 DEF Advance, OpenSession
    <3>2. pos[conn] \in Int
      BY <2>3, Integral DEF ReadInv, TypeInv, TypeOK, ClientTypeOK
    <3>3. ~HasBuffered'
      BY <2>1, <3>1, <3>2
    <3>4. InSession' /\ (Reading' => conn \in live)
      BY <2>1, <2>3, <3>1, <3>3 DEF Reading, InSession
    <3> QED
      BY <1>1, <2>1, <3>1, <3>4 DEF ReadInv, FeedInv
  <2> QED
    BY <2>2, <2>3
<1>5. CASE Deliver
  <2>1. InSession /\ InSession' /\ Reading /\ rpc' = "app"
    BY <1>1, <1>5 DEF Deliver, Return, Reading, ReadInv, TypeInv, Phase, InSession
  <2>2. /\ gpos' = gpos + 1 /\ seen' = seen \cup {gpos + 1}
        /\ lastId' = IF gpos + 1 \in WithId THEN gpos + 1 ELSE lastId
    BY <1>1, <1>5, <2>1 DEF Deliver, ReadInv, IdInv
  <2>3. 1..gpos' \subseteq seen' /\ lastId' <= gpos' /\ 1..lastId' \subseteq seen'
    BY <1>1, <2>1, <2>2, Integral DEF ReadInv, FeedInv
  <2> QED
    BY <2>1, <2>3 DEF FeedInv
<1>6. CASE AwaitChunk \/ ReceiveChunk
  <2>1. /\ InSession /\ (Reading' => Reading) /\ rpc' # "connecting"
        /\ UNCHANGED <<lastId, seen, gconn, gpos>>
    BY <1>1, <1>6
    DEF AwaitChunk, ReceiveChunk, Reading, OthersUnchanged, clientVars, readerVars,
        sessionVars, feedVars, ReadInv, TypeInv, Phase, InSession
  <2> QED
    BY <1>1, <2>1 DEF ReadInv, FeedInv, InSession
<1>7. CASE BeginConnect \/ ConnectOk
  <2>1. ~InSession /\ ~InSession'
    BY <1>7 DEF BeginConnect, ConnectOk, sessionVars, ReadInv, TypeInv, Phase,
                StayInv, InSession
  <2>2. CASE BeginConnect
    <3>1. UNCHANGED <<lastId, seen, pos, conn, live>> /\ ask' = lastId
      BY <2>2 DEF BeginConnect, OthersUnchanged, clientVars, netVars, feedVars
    <3> QED
      BY <1>1, <2>1, <3>1, FeedAside
  <2>3. CASE ConnectOk
    <3>1. ask = lastId /\ conn' = nconn + 1 /\ rpc' = "app"
          /\ pos' = [pos EXCEPT ![nconn + 1] = ask] /\ UNCHANGED <<lastId, seen>>
      BY <1>1, <2>3
      DEF ConnectOk, Accepted, MakeResult, Return, OthersUnchanged, feedVars, ReadInv,
          FeedInv
    <3>2. nconn + 1 \in Conns
      BY <2>3, BoundsAreNaturals
      DEF BoundsAreNaturals, ConnectOk, ReadInv, TypeInv, TypeOK, NetTypeOK, Conns
    <3>3. pos'[conn'] = lastId
      BY <3>1, <3>2 DEF ReadInv, TypeInv, TypeOK, NetTypeOK
    <3> QED
      BY <1>1, <2>1, <3>1, <3>3, Integral DEF ReadInv, FeedInv, Reading
  <2> QED
    BY <1>7, <2>2, <2>3
<1>8. CASE EndClose \/ CancelElsewhere
  <2>1. CASE rpc = "closing"
    <3>1. conn \notin live
      BY <2>1, Integral DEF ReadInv, StayInv, TypeInv, Phase
    <3>2. /\ ~InSession' /\ conn' \in {None, conn} /\ rpc' = "app"
          /\ UNCHANGED <<lastId, seen, live>>
      BY <1>8, <2>1
      DEF EndClose, CancelElsewhere, Report, Return, LeaveSession, OthersUnchanged,
          clientVars, netVars, feedVars, InSession, ReadInv, TypeInv, Phase
    <3>3. None \notin live
      BY Integral DEF ReadInv
    <3> QED
      BY <1>1, <3>1, <3>2, <3>3 DEF ReadInv, FeedInv, Reading
  <2>2. CASE rpc # "closing"
    <3>1. ~InSession /\ ~InSession' /\ rpc' = "app"
          /\ UNCHANGED <<lastId, seen, pos, conn, live>>
      BY <1>8, <2>2
      DEF EndClose, CancelElsewhere, Return, LeaveSession, OthersUnchanged,
          clientVars, netVars, sessionVars, feedVars, InSession, ReadInv, TypeInv,
          Phase, StayInv
    <3> QED
      BY <1>1, <3>1, FeedAside
  <2> QED
    BY <2>1, <2>2
<1>9. CASE AdvanceFromEof \/ CallStart \/ ConnectFail
  <2>1. ~InSession /\ ~InSession' /\ rpc' # "connecting"
        /\ UNCHANGED <<lastId, seen, pos, conn, live>>
    BY <1>9
    DEF AdvanceFromEof, CallStart, ConnectFail, AfterFailure, Return, OthersUnchanged,
        clientVars, netVars, sessionVars, feedVars, InSession, ReadInv, TypeInv,
        Phase, StayInv
  <2> QED
    BY <1>1, <2>1, FeedAside
<1> QED
  BY <1>1, <1>3, <1>4, <1>5, <1>6, <1>7, <1>8, <1>9 DEF ReaderStep

LEMMA FeedOthers == ReadInv /\ OthersOnly => FeedInv'
<1> SUFFICES ASSUME ReadInv, OthersOnly, ~dropped' PROVE FeedInv'
  BY DEF FeedInv
<1>1. /\ ~dropped /\ (Reading' => Reading) /\ (InSession' <=> InSession)
      /\ UNCHANGED <<lastId, seen, rpc, ask, gpos, pos>>
      /\ conn' \in {conn, None} /\ live' \subseteq live
  BY DEF OthersOnly, readerVars, sessionVars, feedVars, Reading, InSession
<1>2. None \notin live
  BY Integral DEF ReadInv
<1> QED
  BY <1>1, <1>2 DEF ReadInv, FeedInv

LEMMA ReadNext ==
  ASSUME ~MayRestart
  PROVE  ReadInv /\ [Next]_vars => ReadInv'
<1> SUFFICES ASSUME ReadInv, [Next]_vars PROVE ReadInv'
  OBVIOUS
<1>1. TypeInv' /\ IdInv' /\ StayInv'
  BY TypeNext, IdNext, StayNext DEF ReadInv
<1>2. CASE ReaderStep
  <2>1. CASE dropped'
    BY <1>1, <2>1 DEF ReadInv, FeedInv
  <2> QED
    BY <1>1, <1>2, <2>1, FeedReader DEF ReadInv, FeedInv
<1>3. CASE Finalizer \/ \E t \in Controllers : ControllerStep(t)
  <2>1. OthersOnly
    BY <1>3, OthersStep DEF ReadInv
  <2> QED
    BY <1>1, <2>1, FeedOthers DEF ReadInv
<1>4. CASE UNCHANGED vars
  <2>1. UNCHANGED <<lastId, seen, dropped, rpc, at, ask, gconn, gpos, pos, conn, live>>
    BY <1>4 DEF vars, clientVars, netVars, readerVars, sessionVars, feedVars
  <2> QED
    BY <1>1, <2>1 DEF ReadInv, FeedInv, Reading, InSession
<1> QED
  BY <1>2, <1>3, <1>4 DEF Next

LEMMA Reads ==
  ASSUME ~MayRestart
  PROVE  Spec => []ReadInv
<1>1. Init => IdInv /\ StayInv
  BY DEF Init, IdInv, LastIdIsLastSeen, StayInv, InSession
<1>2. Init => FeedInv
  BY DEF Init, FeedInv, Reading, InSession
<1>3. Init => ReadInv
  BY <1>1, <1>2, TypeInit DEF ReadInv
<1> QED
  BY <1>3, ReadNext, PTL DEF Spec

--------------------------------------------------------------------------------
(* The client implements ResumableStream. *)

LEMMA HeadIsPosition == TypeInv => gpos # -1
  BY BoundsAreNaturals DEF BoundsAreNaturals, TypeInv, TypeOK, ReaderTypeOK, Items

(* A step that moves no reading head is a stutter, or the end of a stream. *)
LEMMA HeadAside ==
  ASSUME TypeInv, UNCHANGED <<seen, mark>>, Reading' => Reading /\ gpos' = gpos
  PROVE  Resumable!Close \/ UNCHANGED Resumable!vars
  BY HeadIsPosition DEF Resumable!Close, Resumable!vars

LEMMA AdvanceOpens ==
  ASSUME ReadInv, Advance
  PROVE  Resumable!Open \/ UNCHANGED Resumable!vars
<1>1. ~InSession /\ UNCHANGED <<seen, mark, dropped, pos, conn, live>>
  BY DEF Advance, OthersUnchanged, clientVars, netVars, feedVars, ReadInv, TypeInv,
         Phase
<1>2. ~Reading
  BY <1>1 DEF Reading
<1>3. CASE ~Reading'
  BY <1>1, <1>2, <1>3 DEF Resumable!vars
<1>4. CASE Reading'
  <2>1. conn # None /\ gconn' = conn /\ gpos' = pos[conn] /\ at' = "running"
    BY <1>1, <1>4 DEF Advance, OpenSession, sessionVars, Reading, InSession
  <2>2. conn \in Conns /\ pos[conn] \in Items \cup {0}
    BY <2>1 DEF ReadInv, TypeInv, TypeOK, ClientTypeOK, NetTypeOK
  <2>3. pos[conn] \in Int
    BY <2>2, Integral DEF ReadInv
  <2>4. ~HasBuffered'
    BY <1>1, <2>1, <2>3
  <2>5. ~dropped /\ conn \in live
    BY <1>1, <1>4, <2>1, <2>4 DEF Reading
  <2>6. 1..pos[conn] \subseteq seen /\ mark <= pos[conn]
    BY <1>1, <2>5 DEF ReadInv, FeedInv, IdInv, LastIdIsLastSeen
  <2>7. pos[conn] \in mark..MaxEvents
    BY <2>2, <2>6, Integral, BoundsAreNaturals DEF BoundsAreNaturals, Items, ReadInv
  <2> QED
    BY <1>1, <1>2, <1>4, <2>1, <2>6, <2>7 DEF Resumable!Open
<1> QED
  BY <1>3, <1>4

LEMMA DeliverReads ==
  ASSUME ReadInv, Deliver
  PROVE  Resumable!Read \/ UNCHANGED Resumable!vars
<1>1. CASE dropped
  BY <1>1 DEF Deliver, Reading, Resumable!vars
<1>2. CASE ~dropped
  <2>1. InSession /\ Reading /\ Reading'
    BY <1>2 DEF Deliver, Return, Reading, ReadInv, TypeInv, Phase, InSession
  <2>2. /\ gpos' = gpos + 1 /\ seen' = seen \cup {gpos + 1}
        /\ mark' = IF gpos + 1 \in WithId THEN gpos + 1 ELSE mark
    BY <1>2 DEF Deliver
  <2>3. gpos < pos[gconn] /\ pos[gconn] \in Items \cup {0}
    BY <2>1
    DEF Deliver, ReadInv, TypeInv, TypeOK, ReaderTypeOK, NetTypeOK, InSession
  <2>4. gpos + 1 <= MaxEvents
    BY <2>3, Integral, BoundsAreNaturals DEF BoundsAreNaturals, Items, ReadInv
  <2> QED
    BY <2>1, <2>2, <2>4, HeadIsPosition DEF Resumable!Read, ReadInv
<1> QED
  BY <1>1, <1>2

LEMMA RestReadsNothing ==
  ASSUME ~MayRestart, ReadInv, [Next]_vars, ~Advance, ~Deliver
  PROVE  UNCHANGED <<seen, mark>> /\ (Reading' => Reading /\ gpos' = gpos)
<1>1. CASE BreakOff \/ Aclose \/ StreamOver \/ CancelRead
  <2>1. CASE dropped
    BY <1>1, <2>1
    DEF BreakOff, Aclose, StreamOver, CancelRead, OthersUnchanged, feedVars, Reading
  <2> QED
    BY <1>1, <2>1, EndsRead
<1>2. CASE Drop
  BY <1>2 DEF Drop, Reading
<1>3. CASE AwaitChunk \/ ReceiveChunk
  BY <1>3
  DEF AwaitChunk, ReceiveChunk, Reading, OthersUnchanged, clientVars, netVars,
      readerVars, sessionVars, feedVars, InSession
<1>4. CASE EndClose \/ CancelElsewhere
  <2>1. ~InSession'
    BY <1>4
    DEF EndClose, CancelElsewhere, Report, LeaveSession, sessionVars, InSession,
        ReadInv, TypeInv, Phase, StayInv
  <2> QED
    BY <1>4, <2>1
    DEF EndClose, CancelElsewhere, OthersUnchanged, feedVars, Reading
<1>5. CASE AdvanceFromEof \/ CallStart \/ BeginConnect \/ ConnectOk \/ ConnectFail
  <2>1. ~InSession'
    BY <1>5
    DEF AdvanceFromEof, CallStart, BeginConnect, ConnectOk, ConnectFail, sessionVars,
        InSession, ReadInv, TypeInv, Phase, StayInv
  <2> QED
    BY <1>5, <2>1
    DEF AdvanceFromEof, CallStart, BeginConnect, ConnectOk, ConnectFail,
        OthersUnchanged, feedVars, Reading
<1>6. CASE Finalizer \/ \E t \in Controllers : ControllerStep(t)
  <2>1. OthersOnly
    BY <1>6, OthersStep DEF ReadInv
  <2> QED
    BY <2>1 DEF OthersOnly, readerVars, sessionVars, feedVars, Reading, InSession
<1>7. CASE UNCHANGED vars
  BY <1>7 DEF vars, netVars, readerVars, sessionVars, feedVars, Reading, InSession
<1> QED
  BY <1>1, <1>2, <1>3, <1>4, <1>5, <1>6, <1>7 DEF Next, ReaderStep

(* Until it drops an iterator, the application is given what                *)
(* ResumableStream promises, whatever the error strategy, and whoever       *)
(* interrupts, closes or is cancelled at whichever await: each session      *)
(* resumes at a point up to which all has been seen, never before the last  *)
(* id, and reads on without a gap (async_client.py:136-172).                *)
THEOREM ClientResumes ==
  ASSUME ~MayRestart
  PROVE  Spec => ImplementsResumable
<1>1. Init => Resumable!Init
  BY DEF Init, Resumable!Init, Reading, InSession
<1>2. ReadInv /\ [Next]_vars => [Resumable!Next]_(Resumable!vars)
  <2> SUFFICES ASSUME ReadInv, [Next]_vars
               PROVE  Resumable!Next \/ UNCHANGED Resumable!vars
    OBVIOUS
  <2>1. CASE Advance
    BY <2>1, AdvanceOpens DEF Resumable!Next
  <2>2. CASE Deliver
    BY <2>2, DeliverReads DEF Resumable!Next
  <2>3. CASE ~Advance /\ ~Deliver
    BY <2>3, RestReadsNothing, HeadAside DEF Resumable!Next, ReadInv
  <2> QED
    BY <2>1, <2>2, <2>3
<1> QED
  BY <1>1, <1>2, Reads, PTL DEF Spec, ImplementsResumable, Resumable!Spec
================================================================================
