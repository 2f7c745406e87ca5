---------------------------- MODULE SSEClient_proofs ---------------------------
(***************************************************************************)
(* Theorems about SSEClient, for every set of controllers, every number of *)
(* connections and items, and every error strategy.                        *)
(***************************************************************************)
EXTENDS SSEClient, TLAPS

USE DEF StartNeeded, ResumePoint, FlagAfterStart, IdAfter, StreamEnds, IsActive, Swap

--------------------------------------------------------------------------------
(* Type correctness.  That the next item is an item depends on the reader  *)
(* being in a session whenever it reads, so the two are proved together.   *)

SessionPcs == {"read", "except", "ended", "shut", "post"}

(* The iterator has a session while its code reads and closes a stream,    *)
(* and while it is suspended at an item.                                   *)
Phase ==
  /\ InSession <=> (at = "item" \/ rpc \in SessionPcs)
  /\ rpc \in SessionPcs => at = "running"

TypeInv == TypeOK /\ Phase

LEMMA TypeInit == Init => TypeInv
<1> SUFFICES ASSUME Init PROVE TypeInv
  OBVIOUS
<1> USE BoundsAreNaturals DEF BoundsAreNaturals, Init, Conns, Items, None
<1>1. ClientTypeOK
  BY DEF ClientTypeOK
<1>2. NetTypeOK
  BY DEF NetTypeOK
<1>3. ReaderTypeOK /\ Phase
  BY DEF ReaderTypeOK, Phase, InSession, SessionPcs
<1>4. CtlTypeOK
  BY DEF CtlTypeOK
<1>5. HistTypeOK
  BY DEF HistTypeOK
<1> QED
  BY <1>1, <1>2, <1>3, <1>4, <1>5 DEF TypeInv, TypeOK

LEMMA TypeReader == TypeInv /\ ReaderStep => TypeInv'
<1> SUFFICES ASSUME TypeInv, ReaderStep PROVE TypeInv'
  OBVIOUS
<1> USE BoundsAreNaturals
    DEF BoundsAreNaturals, TypeInv, TypeOK, ClientTypeOK, NetTypeOK, ReaderTypeOK,
        CtlTypeOK, HistTypeOK, Phase, SessionPcs, InSession, Conns,
        Items, None
<1>1. CASE Advance
  <2>1. CASE conn # 0
    BY <1>1, <2>1 DEF Advance, OpenSession, clientVars, netVars, ctlVars, histVars
  <2>2. CASE conn = 0
    BY <1>1, <2>2 DEF Advance, clientVars, netVars, sessionVars, ctlVars, histVars
  <2> QED
    BY <2>1, <2>2
<1>2. CASE AdvanceFromItem
  BY <1>2 DEF AdvanceFromItem, clientVars, netVars, sessionVars, ctlVars, histVars
<1>3. CASE AdvanceFromEof
  BY <1>3 DEF AdvanceFromEof, Return, clientVars, netVars, sessionVars, ctlVars,
              histVars
<1>4. CASE CallStart
  BY <1>4 DEF CallStart, clientVars, netVars, sessionVars, ctlVars, histVars
<1>5. CASE Abandon
  BY <1>5 DEF Abandon, Return, EndSession, netVars, ctlVars, histVars
<1>6. CASE ConnectOk
  <2>1. nconn + 1 \in 1..MaxConns
    BY <1>6 DEF ConnectOk
  <2> QED
    BY <1>6, <2>1 DEF ConnectOk, sessionVars, ctlVars, histVars
<1>7. CASE ConnectFail
  BY <1>7 DEF ConnectFail, Return, clientVars, netVars, sessionVars, ctlVars
<1>8. CASE ReportStart
  <2> USE <1>8 DEF ReportStart, Return
  <2>1. ClientTypeOK' /\ HistTypeOK'
    OBVIOUS
  <2>2. ReaderTypeOK' /\ Phase'
    BY DEF sessionVars
  <2>3. NetTypeOK' /\ CtlTypeOK'
    BY DEF netVars, ctlVars
  <2> QED
    BY <2>1, <2>2, <2>3
<1>9. CASE Deliver
  <2>1. gpos + 1 \in 1..MaxEvents
    BY <1>9 DEF Deliver, HasBuffered
  <2> QED
    BY <1>9, <2>1 DEF Deliver, Return, netVars, ctlVars
<1>10. CASE ReceiveChunk
  BY <1>10 DEF ReceiveChunk, clientVars, readerVars, sessionVars, ctlVars, histVars
<1>11. CASE StreamOver
  BY <1>11 DEF StreamOver, clientVars, sessionVars, ctlVars, histVars
<1>12. CASE HandleError
  BY <1>12 DEF HandleError, Return, EndSession, netVars, ctlVars
<1>13. CASE TakeOwn
  BY <1>13 DEF TakeOwn, Threads, netVars, sessionVars, ctlVars, histVars
<1>14. CASE ShutOwn
  <2> USE <1>14 DEF ShutOwn
  <2>1. ClientTypeOK' /\ HistTypeOK'
    BY DEF clientVars, histVars
  <2>2. ReaderTypeOK' /\ Phase'
    BY DEF sessionVars
  <2>3. NetTypeOK'
    OBVIOUS
  <2>4. CtlTypeOK'
    BY DEF Threads, ctlVars
  <2> QED
    BY <2>1, <2>2, <2>3, <2>4
<1>15. CASE ReportEnd
  BY <1>15 DEF ReportEnd, Return, EndSession, netVars, ctlVars
<1> QED
  BY <1>1, <1>2, <1>3, <1>4, <1>5, <1>6, <1>7, <1>8, <1>9, <1>10, <1>11, <1>12,
     <1>13, <1>14, <1>15 DEF ReaderStep

LEMMA TypeGoto ==
  ASSUME CtlTypeOK, held' \in [Threads -> Conns \cup {None}],
         NEW t \in Controllers, NEW p \in {"idle", "check", "take", "shut", "pool"},
         Goto(t, p)
  PROVE  CtlTypeOK'
  BY BoundsAreNaturals DEF BoundsAreNaturals, CtlTypeOK, Goto

LEMMA TypeController ==
  ASSUME NEW t \in Controllers
  PROVE  TypeInv /\ ControllerStep(t) => TypeInv'
<1> SUFFICES ASSUME TypeInv, ControllerStep(t) PROVE TypeInv'
  OBVIOUS
<1> USE DEF TypeInv, TypeOK
<1>1. readerVars' = readerVars
  BY DEF ControllerStep, CallInterrupt, CallClose, Check, Take, Shut, ClosePool
<1>2. ReaderTypeOK' /\ Phase'
  BY <1>1 DEF ReaderTypeOK, Phase, InSession, readerVars, sessionVars
<1>3. ClientTypeOK'
  BY DEF ControllerStep, CallInterrupt, CallClose, Check, Take, Shut, ClosePool,
         ClientTypeOK, clientVars
<1>4. NetTypeOK'
  BY DEF ControllerStep, CallInterrupt, CallClose, Check, Take, Shut, ClosePool,
         NetTypeOK, netVars
<1>5. HistTypeOK'
  BY DEF ControllerStep, CallInterrupt, CallClose, Check, Take, Shut, ClosePool,
         HistTypeOK, histVars
<1>6. AfterInterrupt(t) \in {"idle", "pool"}
  BY DEF AfterInterrupt
<1>7. CtlTypeOK'
  <2>1. CASE CallInterrupt(t) \/ CallClose(t)
    BY <2>1, BoundsAreNaturals
    DEF BoundsAreNaturals, CallInterrupt, CallClose, CtlTypeOK, NetTypeOK
  <2>2. CASE Check(t) \/ Take(t) \/ Shut(t) \/ ClosePool(t)
    <3>1. held' \in [Threads -> Conns \cup {None}]
      BY <2>2 DEF Check, Take, Shut, ClosePool, CtlTypeOK, ClientTypeOK, None
    <3>2. PICK p \in {"idle", "check", "take", "shut", "pool"} : Goto(t, p)
      BY <2>2, <1>6 DEF Check, Take, Shut, ClosePool
    <3> QED
      BY <3>1, <3>2, TypeGoto
  <2> QED
    BY <2>1, <2>2 DEF ControllerStep
<1> QED
  BY <1>2, <1>3, <1>4, <1>5, <1>7

LEMMA TypeStutter == TypeInv /\ UNCHANGED vars => TypeInv'
  BY DEF TypeInv, TypeOK, ClientTypeOK, NetTypeOK, ReaderTypeOK, CtlTypeOK,
         HistTypeOK, Phase, InSession, vars, clientVars, netVars, readerVars,
         sessionVars, ctlVars, histVars

LEMMA TypeNext == TypeInv /\ [Next]_vars => TypeInv'
  BY TypeReader, TypeController, TypeStutter DEF Next

(* Every value of every variable of the client, its server and its callers *)
(* is one the code can hold, and the iterator has a session exactly when   *)
(* its code is between lines 216 and 250 (sse_client.py:206-251).          *)
THEOREM TypeCorrect == Spec => []TypeOK
<1>1. Init => TypeInv
  BY TypeInit
<1>2. TypeInv /\ [Next]_vars => TypeInv'
  BY TypeNext
<1>3. Spec => []TypeInv
  BY <1>1, <1>2, PTL DEF Spec
<1>4. TypeInv => TypeOK
  BY DEF TypeInv
<1> QED
  BY <1>3, <1>4, PTL

--------------------------------------------------------------------------------
(* Ownership of connections. *)

(* Each thread holds a connection only between the two steps of            *)
(* _close_current_connection, a connection that is current or held is      *)
(* open and was made, and nothing is current while _try_start connects.    *)
OwnInv ==
  /\ NoConnectionLost
  /\ OneOwner
  /\ open \subseteq 1..nconn
  /\ conn # None => conn \in open
  /\ held[Reader] # None => rpc = "shut"
  /\ \A t \in Controllers : held[t] # None => pc[t] = "shut"
  /\ rpc = "connecting" => conn = None

LEMMA OwnInit == Init => OwnInv
  BY BoundsAreNaturals
  DEF BoundsAreNaturals, Init, OwnInv, NoConnectionLost, OneOwner, Threads, None

(* The reader's steps that touch no connection. *)
LEMMA OwnReaderAside ==
  ASSUME TypeInv, OwnInv,
         UNCHANGED <<conn, open, nconn, held, pc>>,
         rpc # "shut", rpc' = "connecting" => conn = None
  PROVE  OwnInv'
  BY DEF OwnInv, NoConnectionLost, OneOwner

LEMMA OwnReader == TypeInv /\ OwnInv /\ ReaderStep => OwnInv'
<1> SUFFICES ASSUME TypeInv, OwnInv, ReaderStep PROVE OwnInv'
  OBVIOUS
<1>0. Reader \in Threads /\ Reader \notin Controllers
  BY ReaderIsNoController DEF ReaderIsNoController, Threads
<1>1. CASE ConnectOk
  <2>1. nconn \in Nat /\ nconn + 1 # None /\ nconn + 1 \notin open
    BY <1>1, BoundsAreNaturals
    DEF BoundsAreNaturals, TypeInv, TypeOK, NetTypeOK, OwnInv, None
  <2>2. /\ conn = None /\ conn' = nconn + 1 /\ nconn' = nconn + 1
        /\ open' = open \cup {nconn + 1} /\ UNCHANGED <<held, pc>>
        /\ rpc' = "connected"
    BY <1>1 DEF ConnectOk, OwnInv, ctlVars
  <2>3. None \notin open
    BY <2>1 DEF OwnInv, None
  <2>4. NoConnectionLost'
    BY <2>2, <2>3 DEF OwnInv, NoConnectionLost
  <2>5. OneOwner'
    BY <2>1, <2>2 DEF OwnInv, OneOwner
  <2>6. open' \subseteq 1..nconn'
    BY <2>1, <2>2 DEF OwnInv
  <2>7. held[Reader] = None
    BY <1>1 DEF ConnectOk, OwnInv
  <2> QED
    BY <2>2, <2>5, <2>6, <2>7, <2>4 DEF OwnInv
<1>2. CASE TakeOwn
  <2>1. /\ held' = [held EXCEPT ![Reader] = conn] /\ conn' = None
        /\ rpc = "ended" /\ rpc' = (IF conn = None THEN "post" ELSE "shut")
        /\ UNCHANGED <<open, nconn, pc>>
    BY <1>2 DEF TakeOwn, netVars, ctlVars
  <2>2. held[Reader] = None /\ held \in [Threads -> Conns \cup {None}]
    BY <2>1 DEF OwnInv, TypeInv, TypeOK, CtlTypeOK
  <2>3. held'[Reader] = conn /\ \A t \in Threads \ {Reader} : held'[t] = held[t]
    BY <1>0, <2>1, <2>2
  <2>4. NoConnectionLost'
    BY <1>0, <2>1, <2>2, <2>3 DEF OwnInv, NoConnectionLost
  <2>5. OneOwner'
    BY <1>0, <2>1, <2>2, <2>3 DEF OwnInv, OneOwner
  <2>6. \A t \in Controllers : t \in Threads \ {Reader}
    BY <1>0 DEF Threads
  <2> QED
    BY <2>1, <2>3, <2>4, <2>5, <2>6 DEF OwnInv
<1>3. CASE ShutOwn
  <2>1. /\ held' = [held EXCEPT ![Reader] = None]
        /\ open' = open \ {held[Reader]}
        /\ rpc' = "post" /\ UNCHANGED <<conn, nconn, pc>>
    BY <1>3 DEF ShutOwn, clientVars, ctlVars
  <2>2. held'[Reader] = None /\ \A t \in Threads \ {Reader} : held'[t] = held[t]
    BY <1>0, <2>1 DEF TypeInv, TypeOK, CtlTypeOK
  <2>3. NoConnectionLost'
    BY <1>0, <2>1, <2>2 DEF OwnInv, NoConnectionLost
  <2>4. OneOwner'
    BY <1>0, <2>1, <2>2 DEF OwnInv, OneOwner
  <2>5. \A t \in Controllers : t \in Threads \ {Reader}
    BY <1>0 DEF Threads
  <2>6. conn # None => conn \in open'
    BY <1>0, <2>1 DEF OwnInv, OneOwner, None
  <2> QED
    BY <2>1, <2>2, <2>3, <2>4, <2>5, <2>6 DEF OwnInv
<1>4. CASE \/ Advance \/ AdvanceFromItem \/ AdvanceFromEof \/ CallStart \/ Abandon
           \/ ConnectFail \/ ReportStart \/ Deliver \/ ReceiveChunk
           \/ StreamOver \/ HandleError \/ ReportEnd
  <2>1. UNCHANGED <<conn, open, nconn, held, pc>>
    BY <1>4
    DEF Advance, AdvanceFromItem, AdvanceFromEof, CallStart, Abandon, ConnectFail,
        ReportStart, Deliver, ReceiveChunk, StreamOver, HandleError, ReportEnd,
        clientVars, netVars, ctlVars
  <2>2. rpc # "shut" /\ (rpc' = "connecting" => conn = None)
    BY <1>4
    DEF Advance, AdvanceFromItem, AdvanceFromEof, CallStart, Abandon, ConnectFail,
        ReportStart, Deliver, ReceiveChunk, StreamOver, HandleError, ReportEnd,
        Return, OpenSession, EndSession, readerVars, OwnInv
  <2> QED
    BY <2>1, <2>2, OwnReaderAside
<1> QED
  BY <1>1, <1>2, <1>3, <1>4 DEF ReaderStep

LEMMA OwnController ==
  ASSUME NEW t \in Controllers, TypeInv, OwnInv, ControllerStep(t)
  PROVE  OwnInv'
<1>0. t \in Threads /\ t # Reader /\ Reader \in Threads
  BY ReaderIsNoController DEF ReaderIsNoController, Threads
<1>1. rpc' = rpc /\ nconn' = nconn
  BY DEF ControllerStep, CallInterrupt, CallClose, Check, Take, Shut, ClosePool,
         readerVars, netVars
<1>2. \A u \in Controllers \ {t} : pc'[u] = pc[u]
  BY DEF ControllerStep, CallInterrupt, CallClose, Check, Take, Shut, ClosePool,
         Goto, TypeInv, TypeOK, CtlTypeOK
<1>3. CASE Take(t)
  <2>1. /\ held' = [held EXCEPT ![t] = conn] /\ conn' = None
        /\ pc[t] = "take" /\ UNCHANGED open
    BY <1>3 DEF Take, netVars
  <2>2. held[t] = None
    BY <2>1 DEF OwnInv
  <2>3. held'[t] = conn /\ \A u \in Threads \ {t} : held'[u] = held[u]
    BY <1>0, <2>1 DEF TypeInv, TypeOK, CtlTypeOK
  <2>4. conn # None => pc'[t] = "shut"
    BY <1>3 DEF Take, Goto, TypeInv, TypeOK, CtlTypeOK
  <2>5. NoConnectionLost'
    BY <1>0, <2>1, <2>2, <2>3 DEF OwnInv, NoConnectionLost
  <2>6. OneOwner'
    BY <1>0, <2>1, <2>2, <2>3 DEF OwnInv, OneOwner
  <2>7. \A u \in Controllers : held'[u] # None => pc'[u] = "shut"
    BY <1>2, <2>3, <2>4 DEF OwnInv, Threads
  <2> QED
    BY <1>0, <1>1, <2>1, <2>3, <2>5, <2>6, <2>7 DEF OwnInv
<1>4. CASE Shut(t)
  <2>1. /\ held' = [held EXCEPT ![t] = None]
        /\ open' = open \ {held[t]} /\ UNCHANGED conn
    BY <1>4 DEF Shut, clientVars
  <2>2. held'[t] = None /\ \A u \in Threads \ {t} : held'[u] = held[u]
    BY <1>0, <2>1 DEF TypeInv, TypeOK, CtlTypeOK
  <2>3. NoConnectionLost'
    BY <1>0, <2>1, <2>2 DEF OwnInv, NoConnectionLost
  <2>4. OneOwner'
    BY <1>0, <2>1, <2>2 DEF OwnInv, OneOwner
  <2>5. \A u \in Controllers : held'[u] # None => pc'[u] = "shut"
    BY <1>2, <2>2 DEF OwnInv, Threads
  <2>6. conn # None => conn \in open'
    BY <1>0, <2>1 DEF OwnInv, OneOwner, None
  <2> QED
    BY <1>0, <1>1, <2>1, <2>2, <2>3, <2>4, <2>5, <2>6 DEF OwnInv
<1>5. CASE CallInterrupt(t) \/ CallClose(t) \/ Check(t) \/ ClosePool(t)
  <2>1. pc[t] # "shut" /\ UNCHANGED <<conn, open, held>>
    BY <1>5 DEF CallInterrupt, CallClose, Check, ClosePool, clientVars, netVars
  <2>2. \A u \in Controllers : held'[u] # None => pc'[u] = "shut"
    BY <1>2, <2>1 DEF OwnInv
  <2> QED
    BY <1>1, <2>1, <2>2 DEF OwnInv, NoConnectionLost, OneOwner
<1> QED
  BY <1>3, <1>4, <1>5 DEF ControllerStep

LEMMA OwnNext == TypeInv /\ OwnInv /\ [Next]_vars => OwnInv'
<1> SUFFICES ASSUME TypeInv, OwnInv, [Next]_vars PROVE OwnInv'
  OBVIOUS
<1>1. CASE UNCHANGED vars
  BY <1>1 DEF OwnInv, NoConnectionLost, OneOwner, vars, clientVars, netVars,
              readerVars, ctlVars
<1> QED
  BY <1>1, OwnReader, OwnController DEF Next

LEMMA Ownership == Spec => [](TypeInv /\ OwnInv)
<1>1. Init => TypeInv /\ OwnInv
  BY TypeInit, OwnInit
<1>2. TypeInv /\ OwnInv /\ [Next]_vars => (TypeInv /\ OwnInv)'
  BY TypeNext, OwnNext
<1> QED
  BY <1>1, <1>2, PTL DEF Spec

(* No interleaving of connect, interrupt(), close() and the end of a       *)
(* stream leaves an open connection that nobody will close                 *)
(* (sse_client.py:170-175 and 303).                                        *)
THEOREM ConnectionsAreOwned == Spec => []NoConnectionLost
<1>1. TypeInv /\ OwnInv => NoConnectionLost
  BY DEF OwnInv
<1> QED
  BY <1>1, Ownership, PTL

(* Two threads never take the same connection, so a connection is closed   *)
(* once (sse_client.py:172-175).                                           *)
THEOREM ConnectionsHaveOneOwner == Spec => []OneOwner
<1>1. TypeInv /\ OwnInv => OneOwner
  BY DEF OwnInv
<1> QED
  BY <1>1, Ownership, PTL

--------------------------------------------------------------------------------
(* The flag of interrupt(). *)

LEMMA FlagNext ==
  TypeInv /\ NoStaleInterrupt /\ [Next]_vars => NoStaleInterrupt'
<1> SUFFICES ASSUME TypeInv, NoStaleInterrupt, [Next]_vars,
                    interrupted', conn' # None, rpc' # "connected"
             PROVE  \E t \in Controllers : pc'[t] = "take"
  BY DEF NoStaleInterrupt
<1>1. CASE ReaderStep
  <2>1. ~ConnectOk /\ ~ReportStart
    BY DEF ConnectOk, ReportStart
  <2>2. pc' = pc /\ interrupted' = interrupted /\ conn' = conn /\ rpc # "connected"
    BY <1>1, <2>1
    DEF ReaderStep, Advance, AdvanceFromItem, AdvanceFromEof, CallStart, Abandon,
        ConnectFail, Deliver, ReceiveChunk, StreamOver, HandleError, TakeOwn,
        ShutOwn, ReportEnd, clientVars, ctlVars
  <2> QED
    BY <2>2 DEF NoStaleInterrupt
<1>2. ASSUME NEW t \in Controllers, ControllerStep(t)
      PROVE  \E u \in Controllers : pc'[u] = "take"
  <2>1. ~Take(t)
    BY DEF Take
  <2>2. conn' = conn /\ rpc' = rpc
    BY <1>2, <2>1
    DEF ControllerStep, CallInterrupt, CallClose, Check, Shut, ClosePool,
        clientVars, readerVars
  <2>3. CASE Check(t)
    BY <2>2, <2>3 DEF Check, Goto, TypeInv, TypeOK, CtlTypeOK
  <2>4. CASE ~Check(t)
    <3>1. interrupted' = interrupted /\ pc[t] # "take"
      BY <1>2, <2>1, <2>4
      DEF ControllerStep, CallInterrupt, CallClose, Shut, ClosePool, clientVars
    <3>2. PICK u \in Controllers : pc[u] = "take"
      BY <2>2, <3>1 DEF NoStaleInterrupt
    <3>3. u # t /\ pc'[u] = pc[u]
      BY <1>2, <3>1, <3>2
      DEF ControllerStep, CallInterrupt, CallClose, Check, Take, Shut, ClosePool,
          Goto, TypeInv, TypeOK, CtlTypeOK
    <3> QED
      BY <3>2, <3>3
  <2> QED
    BY <2>3, <2>4
<1>3. CASE UNCHANGED vars
  BY <1>3 DEF NoStaleInterrupt, vars, clientVars, readerVars, ctlVars
<1> QED
  BY <1>1, <1>2, <1>3 DEF Next

(* A flag that is set while there is a connection belongs to a controller  *)
(* that is about to take it, or is about to be cleared by _try_start: no   *)
(* session is ever ended by an interrupt() of the past (sse_client.py:166, *)
(* 223 and 321).                                                           *)
THEOREM FlagIsNeverStale == Spec => []NoStaleInterrupt
<1>1. Init => NoStaleInterrupt
  BY DEF Init, NoStaleInterrupt
<1>2. TypeInv /\ NoStaleInterrupt /\ [Next]_vars => (TypeInv /\ NoStaleInterrupt)'
  BY TypeNext, FlagNext
<1> QED
  BY <1>1, <1>2, TypeInit, PTL DEF Spec

--------------------------------------------------------------------------------
(* The id of the last item seen. *)

(* The event reader's own id is the client's as long as a session lasts,   *)
(* so the finally block restores nothing old.                              *)
IdInv == LastIdIsLastSeen /\ (InSession => rid = lastId)

LEMMA IdNext == TypeInv /\ IdInv /\ [Next]_vars => IdInv'
<1> SUFFICES ASSUME TypeInv, IdInv, [Next]_vars PROVE IdInv'
  OBVIOUS
<1> USE DEF IdInv, LastIdIsLastSeen, InSession
<1>1. CASE Abandon \/ ReportEnd \/ HandleError
  BY <1>1
  DEF Abandon, ReportEnd, HandleError, Return, EndSession, None, TypeInv, Phase,
      SessionPcs, histVars
<1>2. CASE Deliver
  BY <1>2 DEF Deliver, TypeInv, Phase, SessionPcs
<1>3. CASE Advance
  BY <1>3 DEF Advance, OpenSession, clientVars, sessionVars, histVars
<1>4. CASE \/ AdvanceFromItem \/ AdvanceFromEof \/ CallStart \/ ConnectOk
           \/ ConnectFail \/ ReportStart \/ ReceiveChunk \/ StreamOver \/ TakeOwn
           \/ ShutOwn \/ UNCHANGED vars
  BY <1>4
  DEF AdvanceFromItem, AdvanceFromEof, CallStart, ConnectOk, ConnectFail,
      ReportStart, ReceiveChunk, StreamOver, TakeOwn, ShutOwn, vars, clientVars,
      readerVars, sessionVars, histVars
<1>5. ASSUME NEW t \in Controllers, ControllerStep(t) PROVE IdInv'
  BY <1>5
  DEF ControllerStep, CallInterrupt, CallClose, Check, Take, Shut, ClosePool,
      clientVars, readerVars, sessionVars, histVars
<1> QED
  BY <1>1, <1>2, <1>3, <1>4, <1>5 DEF Next, ReaderStep

(* The Last-Event-ID of the next connection is the id of the last item     *)
(* that had one of those the application was given, in every interleaving  *)
(* and whether iterators are read to their end or dropped                  *)
(* (sse_client.py:221, 235 and 303-305).                                   *)
THEOREM LastIdIsCurrent == Spec => []LastIdIsLastSeen
<1>1. Init => IdInv
  BY DEF Init, IdInv, LastIdIsLastSeen, InSession
<1>2. TypeInv /\ IdInv /\ [Next]_vars => (TypeInv /\ IdInv)'
  BY TypeNext, IdNext
<1>3. IdInv => LastIdIsLastSeen
  BY DEF IdInv
<1> QED
  BY <1>1, <1>2, <1>3, TypeInit, PTL DEF Spec

--------------------------------------------------------------------------------
(* The feed, read without gaps. *)

(* What a session has read, where its connection stands and the id the     *)
(* next connection will send all agree with what the application has seen. *)
ResumeInv ==
  /\ NothingSkipped
  /\ 1..lastId \subseteq seen
  /\ InSession => gconn <= nconn /\ gpos <= pos[gconn] /\ 1..gpos \subseteq seen
                  /\ rid = lastId
  /\ conn # None /\ conn # gconn => 1..pos[conn] \subseteq seen
  /\ rpc = "except" => gpos = pos[gconn]
  /\ rpc \in {"shut", "post"} => conn = None

LEMMA ResumeInit == Init => ResumeInv
  BY DEF Init, ResumeInv, NothingSkipped, InSession, None

(* Steps that change neither the session nor what it has read. *)
LEMMA ResumeAside ==
  ASSUME TypeInv, ResumeInv,
         UNCHANGED <<lastId, gconn, gpos, rid, pos, seen, nconn>>,
         conn' = conn \/ conn' = None,
         rpc' = "except" => rpc = "except" \/ gpos = pos[gconn],
         rpc' \in {"shut", "post"} => rpc \in {"shut", "post"} \/ conn' = None
  PROVE  ResumeInv'
  BY DEF ResumeInv, NothingSkipped, InSession

LEMMA ResumeReader ==
  ASSUME ~MayAbandon, TypeInv, OwnInv, ResumeInv, ReaderStep
  PROVE  ResumeInv'
<1>0. gpos \in Int /\ lastId \in Int /\ nconn \in Int /\ gconn \in Int
  BY BoundsAreNaturals
  DEF BoundsAreNaturals, TypeInv, TypeOK, ReaderTypeOK, ClientTypeOK, NetTypeOK,
      Items, Conns, None
<1>1. CASE Advance
  <2>1. ~InSession
    BY <1>1 DEF Advance, TypeInv, Phase, SessionPcs
  <2>2. CASE conn = None
    <3>1. UNCHANGED <<lastId, gconn, gpos, rid, pos, seen, nconn, conn>>
          /\ rpc' = "connecting"
      BY <1>1, <2>2 DEF Advance, clientVars, netVars, sessionVars, histVars
    <3> QED
      BY <3>1, ResumeAside
  <2>3. CASE conn # None
    <3>1. /\ rpc' = "read" /\ gconn' = conn /\ gpos' = pos[conn] /\ rid' = lastId
          /\ UNCHANGED <<lastId, conn, pos, seen, nconn>>
      BY <1>1, <2>3
      DEF Advance, OpenSession, clientVars, netVars, histVars
    <3>2. conn <= nconn
      <4>1. conn \in 1..nconn
        BY <2>3 DEF OwnInv
      <4> QED
        BY <1>0, <4>1
    <3>3. pos[conn] \in Int
      BY <2>3, BoundsAreNaturals
      DEF BoundsAreNaturals, TypeInv, TypeOK, ClientTypeOK, NetTypeOK, Items
    <3>4. 1..pos[conn] \subseteq seen
      BY <2>1, <2>3 DEF ResumeInv, InSession
    <3> QED
      BY <3>1, <3>2, <3>3, <3>4 DEF ResumeInv, NothingSkipped, InSession
  <2> QED
    BY <2>2, <2>3
<1>2. CASE ConnectOk
  <2>1. /\ nconn' = nconn + 1 /\ conn' = nconn + 1 /\ rpc' = "connected"
        /\ pos' = [pos EXCEPT ![nconn + 1] = lastId]
        /\ UNCHANGED <<lastId, gconn, gpos, rid, seen>>
    BY <1>2 DEF ConnectOk, sessionVars, histVars
  <2>2. pos'[nconn + 1] = lastId
    BY <1>2, <2>1, BoundsAreNaturals
    DEF BoundsAreNaturals, ConnectOk, TypeInv, TypeOK, NetTypeOK, Conns
  <2>3. InSession => gconn <= nconn /\ pos'[gconn] = pos[gconn]
    BY <1>0, <2>1
    DEF ResumeInv, InSession, TypeInv, TypeOK, NetTypeOK, ReaderTypeOK
  <2> QED
    BY <1>0, <2>1, <2>2, <2>3 DEF ResumeInv, NothingSkipped, InSession
<1>3. CASE Deliver
  <2>1. InSession
    BY <1>3 DEF Deliver, TypeInv, Phase, SessionPcs
  <2>2. /\ gpos < pos[gconn] /\ gpos' = gpos + 1 /\ seen' = seen \cup {gpos + 1}
        /\ rid' = (IF gpos + 1 \in WithId THEN gpos + 1 ELSE rid)
        /\ lastId' = rid' /\ rpc' = "app"
        /\ UNCHANGED <<conn, nconn, pos, gconn>>
    BY <1>3 DEF Deliver, HasBuffered, Return, netVars
  <2>3. pos[gconn] \in Int
    BY <2>1, BoundsAreNaturals
    DEF BoundsAreNaturals, TypeInv, TypeOK, ReaderTypeOK, NetTypeOK, Items, InSession
  <2>4. 1..gpos' \subseteq seen'
    BY <1>0, <2>1, <2>2 DEF ResumeInv
  <2>5. 1..lastId' \subseteq seen'
    BY <2>1, <2>2, <2>4 DEF ResumeInv
  <2>6. NothingSkipped'
    BY <2>2, <2>4 DEF ResumeInv, NothingSkipped
  <2> QED
    BY <1>0, <2>1, <2>2, <2>3, <2>4, <2>5, <2>6 DEF ResumeInv, InSession
<1>4. CASE ReceiveChunk
  <2>1. InSession
    BY <1>4 DEF ReceiveChunk, TypeInv, Phase, SessionPcs
  <2>2. PICK p \in (gpos + 1)..MaxEvents : pos' = [pos EXCEPT ![gconn] = p]
    BY <1>4 DEF ReceiveChunk
  <2>3. UNCHANGED <<conn, nconn, lastId, gconn, gpos, rid, seen, rpc>>
        /\ rpc = "read"
    BY <1>4 DEF ReceiveChunk, clientVars, readerVars, sessionVars, histVars
  <2>4. gpos <= pos'[gconn]
    BY <1>0, <2>1, <2>2, BoundsAreNaturals
    DEF BoundsAreNaturals, TypeInv, TypeOK, NetTypeOK, ReaderTypeOK, InSession
  <2>5. conn # None /\ conn # gconn => pos'[conn] = pos[conn]
    BY <2>2 DEF TypeInv, TypeOK, NetTypeOK, ClientTypeOK
  <2> QED
    BY <2>1, <2>3, <2>4, <2>5 DEF ResumeInv, NothingSkipped, InSession
<1>5. CASE StreamOver
  <2>1. InSession /\ pos[gconn] = gpos
    <3>1. InSession
      BY <1>5 DEF StreamOver, TypeInv, Phase, SessionPcs
    <3>2. pos[gconn] \in Int
      BY <3>1, BoundsAreNaturals
      DEF BoundsAreNaturals, TypeInv, TypeOK, ReaderTypeOK, NetTypeOK, Items,
          InSession
    <3> QED
      BY <1>0, <1>5, <3>1, <3>2 DEF StreamOver, HasBuffered, ResumeInv
  <2>2. UNCHANGED <<lastId, gconn, gpos, rid, pos, seen, nconn, conn>>
        /\ rpc' \in {"ended", "except"}
    BY <1>5 DEF StreamOver, clientVars, sessionVars, histVars
  <2> QED
    BY <2>1, <2>2, ResumeAside
<1>6. CASE HandleError
  <2>1. CASE closed
    <3>1. InSession /\ gpos = pos[gconn] /\ rid = lastId
      BY <1>6 DEF HandleError, TypeInv, Phase, SessionPcs, ResumeInv
    <3>2. gconn' = None /\ lastId' = rid /\ rpc' = "app"
          /\ UNCHANGED <<conn, nconn, pos, seen>>
      BY <1>6, <2>1 DEF HandleError, EndSession, Return, netVars
    <3>3. conn # None => 1..pos[conn] \subseteq seen
      BY <3>1 DEF ResumeInv
    <3> QED
      BY <3>1, <3>2, <3>3 DEF ResumeInv, NothingSkipped, InSession
  <2>2. CASE ~closed
    <3>1. UNCHANGED <<lastId, gconn, gpos, rid, pos, seen, nconn, conn>>
          /\ rpc' = "ended"
      BY <1>6, <2>2 DEF HandleError, netVars
    <3> QED
      BY <3>1, ResumeAside
  <2> QED
    BY <2>1, <2>2
<1>7. CASE TakeOwn
  <2>1. UNCHANGED <<lastId, gconn, gpos, rid, pos, seen, nconn>> /\ conn' = None
        /\ rpc' \in {"shut", "post"}
    BY <1>7 DEF TakeOwn, netVars, sessionVars, histVars
  <2> QED
    BY <2>1, ResumeAside
<1>8. CASE ReportEnd
  <2>1. InSession /\ conn = None /\ rid = lastId
    BY <1>8 DEF ReportEnd, TypeInv, Phase, SessionPcs, ResumeInv
  <2>2. gconn' = None /\ lastId' = rid /\ rpc' = "app"
        /\ UNCHANGED <<conn, nconn, pos, seen>>
    BY <1>8 DEF ReportEnd, EndSession, Return, netVars
  <2> QED
    BY <2>1, <2>2 DEF ResumeInv, NothingSkipped, InSession
<1>9. CASE \/ AdvanceFromItem \/ AdvanceFromEof \/ CallStart \/ ConnectFail
           \/ ReportStart \/ ShutOwn
  <2>1. UNCHANGED <<lastId, gconn, gpos, rid, pos, seen, nconn, conn>>
    BY <1>9
    DEF AdvanceFromItem, AdvanceFromEof, CallStart, ConnectFail, ReportStart,
        ShutOwn, clientVars, netVars, sessionVars, histVars
  <2>2. rpc' # "except" /\ (rpc' \in {"shut", "post"} => rpc = "shut")
    BY <1>9
    DEF AdvanceFromItem, AdvanceFromEof, CallStart, ConnectFail, ReportStart,
        ShutOwn, Return
  <2> QED
    BY <2>1, <2>2, ResumeAside
<1>10. ~Abandon
  BY DEF Abandon
<1> QED
  BY <1>1, <1>2, <1>3, <1>4, <1>5, <1>6, <1>7, <1>8, <1>9, <1>10 DEF ReaderStep

LEMMA ResumeController ==
  ASSUME NEW t \in Controllers, TypeInv, ResumeInv, ControllerStep(t)
  PROVE  ResumeInv'
<1>1. UNCHANGED <<lastId, gconn, gpos, rid, pos, seen, nconn, rpc>>
  BY DEF ControllerStep, CallInterrupt, CallClose, Check, Take, Shut, ClosePool,
         clientVars, netVars, readerVars, sessionVars, histVars
<1>2. conn' = conn \/ conn' = None
  BY DEF ControllerStep, CallInterrupt, CallClose, Check, Take, Shut, ClosePool,
         clientVars
<1> QED
  BY <1>1, <1>2, ResumeAside

LEMMA ResumeNext ==
  ASSUME ~MayAbandon
  PROVE  TypeInv /\ OwnInv /\ ResumeInv /\ [Next]_vars => ResumeInv'
<1> SUFFICES ASSUME TypeInv, OwnInv, ResumeInv, [Next]_vars PROVE ResumeInv'
  OBVIOUS
<1>1. CASE UNCHANGED vars
  BY <1>1, ResumeAside
  DEF vars, clientVars, netVars, readerVars, sessionVars, histVars
<1> QED
  BY <1>1, ResumeReader, ResumeController DEF Next

LEMMA Resumption ==
  ASSUME ~MayAbandon
  PROVE  Spec => [](TypeInv /\ OwnInv /\ ResumeInv)
<1>1. Init => TypeInv /\ OwnInv /\ ResumeInv
  BY TypeInit, OwnInit, ResumeInit
<1>2. TypeInv /\ OwnInv /\ ResumeInv /\ [Next]_vars
        => (TypeInv /\ OwnInv /\ ResumeInv)'
  BY TypeNext, OwnNext, ResumeNext
<1> QED
  BY <1>1, <1>2, PTL DEF Spec

(* If iterators are read to their end, no item is skipped: whoever         *)
(* interrupts the stream at whatever moment, every item given to the       *)
(* application comes after all that precede it (sse_client.py:216-235 and  *)
(* 303-305), even if start() is called in the middle of an iterator.       *)
THEOREM NoGaps ==
  ASSUME ~MayAbandon
  PROVE  Spec => []NothingSkipped
<1>1. TypeInv /\ OwnInv /\ ResumeInv => NothingSkipped
  BY DEF ResumeInv
<1> QED
  BY <1>1, Resumption, PTL

--------------------------------------------------------------------------------
(* The order of items, and the abstract specification. *)

(* Without restarts, a session never reads from before the last id seen,   *)
(* and it is the current connection that it reads.                         *)
OrderInv ==
  /\ InSession => lastId <= gpos /\ conn \in {None, gconn}
  /\ ~InSession /\ conn # None => lastId <= pos[conn]
  /\ rpc \in {"connecting", "connected"} => at # "item"

LEMMA OrderReader ==
  ASSUME ~MayAbandon, ~MayRestart, TypeInv, ResumeInv, OrderInv, ReaderStep
  PROVE  OrderInv'
<1>0. gpos \in Int /\ lastId \in Int /\ nconn \in Int
  BY BoundsAreNaturals
  DEF BoundsAreNaturals, TypeInv, TypeOK, ReaderTypeOK, ClientTypeOK, NetTypeOK,
      Items
<1> USE DEF OrderInv, InSession
<1>1. CASE Advance
  BY <1>1 DEF Advance, OpenSession, TypeInv, Phase, SessionPcs, clientVars, netVars,
              sessionVars, InSession
<1>2. CASE ConnectOk
  <2>1. ~InSession
    BY <1>2 DEF ConnectOk, TypeInv, Phase, SessionPcs
  <2>2. /\ conn' = nconn + 1 /\ pos' = [pos EXCEPT ![nconn + 1] = lastId]
        /\ UNCHANGED <<lastId, gconn, at>>
    BY <1>2 DEF ConnectOk, sessionVars
  <2>3. pos'[nconn + 1] = lastId
    BY <1>2, <2>2, BoundsAreNaturals
    DEF BoundsAreNaturals, ConnectOk, TypeInv, TypeOK, NetTypeOK, Conns
  <2>4. at # "item"
    BY <1>2 DEF ConnectOk
  <2> QED
    BY <1>0, <2>1, <2>2, <2>3, <2>4
<1>3. CASE Deliver
  <2>1. InSession
    BY <1>3 DEF Deliver, TypeInv, Phase, SessionPcs
  <2>2. /\ gpos' = gpos + 1 /\ lastId' = rid' /\ rpc' = "app"
        /\ rid' = (IF gpos + 1 \in WithId THEN gpos + 1 ELSE rid)
        /\ UNCHANGED <<conn, gconn>>
    BY <1>3 DEF Deliver, Return
  <2>3. rid = lastId
    BY <2>1 DEF ResumeInv
  <2> QED
    BY <1>0, <2>1, <2>2, <2>3
<1>4. CASE ReceiveChunk
  BY <1>4 DEF ReceiveChunk, TypeInv, Phase, SessionPcs, clientVars, readerVars,
              sessionVars
<1>5. CASE HandleError
  <2>1. InSession /\ gpos = pos[gconn] /\ rid = lastId
    BY <1>5 DEF HandleError, TypeInv, Phase, SessionPcs, ResumeInv
  <2> QED
    BY <1>5, <2>1 DEF HandleError, EndSession, Return, netVars
<1>6. CASE ReportEnd
  <2>1. conn = None
    BY <1>6 DEF ReportEnd, ResumeInv
  <2> QED
    BY <1>6, <2>1 DEF ReportEnd, EndSession, Return
<1>7. ~Abandon
  BY DEF Abandon
<1>8. CASE \/ AdvanceFromItem \/ AdvanceFromEof \/ CallStart \/ ConnectFail
           \/ ReportStart \/ StreamOver \/ TakeOwn \/ ShutOwn
  <2>1. UNCHANGED <<lastId, gconn, gpos, pos>> /\ (conn' = conn \/ conn' = None)
    BY <1>8
    DEF AdvanceFromItem, AdvanceFromEof, CallStart, ConnectFail, ReportStart,
        StreamOver, TakeOwn, ShutOwn, clientVars, netVars, sessionVars
  <2>2. rpc' \in {"connecting", "connected"} => at' # "item"
    BY <1>8
    DEF AdvanceFromItem, AdvanceFromEof, CallStart, ConnectFail, ReportStart,
        StreamOver, TakeOwn, ShutOwn, Return
  <2> QED
    BY <2>1, <2>2
<1> QED
  BY <1>1, <1>2, <1>3, <1>4, <1>5, <1>6, <1>7, <1>8 DEF ReaderStep

LEMMA OrderNext ==
  ASSUME ~MayAbandon, ~MayRestart
  PROVE  TypeInv /\ ResumeInv /\ OrderInv /\ [Next]_vars => OrderInv'
<1> SUFFICES ASSUME TypeInv, ResumeInv, OrderInv, [Next]_vars PROVE OrderInv'
  OBVIOUS
<1>1. ASSUME NEW t \in Controllers, ControllerStep(t) PROVE OrderInv'
  <2>1. UNCHANGED <<lastId, gconn, gpos, pos, rpc, at>>
    BY <1>1
    DEF ControllerStep, CallInterrupt, CallClose, Check, Take, Shut, ClosePool,
        clientVars, netVars, readerVars, sessionVars
  <2>2. conn' = conn \/ conn' = None
    BY <1>1
    DEF ControllerStep, CallInterrupt, CallClose, Check, Take, Shut, ClosePool,
        clientVars
  <2> QED
    BY <2>1, <2>2 DEF OrderInv, InSession
<1>2. CASE UNCHANGED vars
  BY <1>2 DEF OrderInv, InSession, vars, clientVars, netVars, readerVars, sessionVars
<1> QED
  BY <1>1, <1>2, OrderReader DEF Next

ReadInv == TypeInv /\ OwnInv /\ IdInv /\ ResumeInv /\ OrderInv

LEMMA Reading ==
  ASSUME ~MayAbandon, ~MayRestart
  PROVE  Spec => []ReadInv
<1>1. Init => OrderInv
  BY DEF Init, OrderInv, InSession, None
<1>2. Init => IdInv
  BY DEF Init, IdInv, LastIdIsLastSeen, InSession
<1>3. Init => ReadInv
  BY <1>1, <1>2, TypeInit, OwnInit, ResumeInit DEF ReadInv
<1>4. ReadInv /\ [Next]_vars => ReadInv'
  BY TypeNext, OwnNext, IdNext, ResumeNext, OrderNext DEF ReadInv
<1> QED
  BY <1>3, <1>4, PTL DEF Spec

(* Reconnecting never goes back: an item given to the application comes    *)
(* after the last id it had seen (sse_client.py:216-222 and 303-305).      *)
THEOREM NoRepeats ==
  ASSUME ~MayAbandon, ~MayRestart
  PROVE  Spec => NothingRepeated
<1> DEFINE Fresh == \A e \in Items : gpos' = e /\ at' = "item" /\ at = "running"
                                       => e > mark
<1>1. ReadInv /\ [Next]_vars => [Fresh]_vars
  <2> SUFFICES ASSUME ReadInv, Next, NEW e \in Items, gpos' = e, at' = "item",
                      at = "running"
               PROVE  e > mark
    OBVIOUS
  <2>1. Deliver
    BY DEF Next, ReaderStep, ControllerStep, Advance, AdvanceFromItem,
           AdvanceFromEof, CallStart, Abandon, ConnectOk, ConnectFail, ReportStart,
           ReceiveChunk, StreamOver, HandleError, TakeOwn, ShutOwn, ReportEnd,
           Return, CallInterrupt, CallClose, Check, Take, Shut, ClosePool,
           readerVars, ReadInv, TypeInv, Phase, SessionPcs
  <2>2. InSession /\ gpos' = gpos + 1
    BY <2>1 DEF Deliver, ReadInv, TypeInv, Phase, SessionPcs
  <2>3. gpos \in Int /\ lastId \in Int
    BY BoundsAreNaturals
    DEF BoundsAreNaturals, ReadInv, TypeInv, TypeOK, ReaderTypeOK, ClientTypeOK,
        Items
  <2> QED
    BY <2>2, <2>3 DEF ReadInv, OrderInv, IdInv, LastIdIsLastSeen
<1> QED
  BY <1>1, Reading, PTL DEF Spec, NothingRepeated

--------------------------------------------------------------------------------
(* The client implements ResumableStream. *)

LEMMA OpensAbove ==
  ASSUME ReadInv, Advance, conn # None
  PROVE  Resumable!Open
<1>1. ~InSession
  BY DEF Advance, ReadInv, TypeInv, Phase, SessionPcs
<1>2. gconn' = conn /\ gpos' = pos[conn] /\ UNCHANGED <<seen, mark>>
  BY DEF Advance, OpenSession, histVars
<1>3. pos[conn] \in Items \cup {0} /\ mark \in Items \cup {0}
  BY DEF ReadInv, TypeInv, TypeOK, ClientTypeOK, NetTypeOK, HistTypeOK
<1>4. mark <= pos[conn]
  BY <1>1 DEF ReadInv, OrderInv, IdInv, LastIdIsLastSeen
<1>5. pos[conn] \in mark..MaxEvents
  BY <1>3, <1>4, BoundsAreNaturals DEF BoundsAreNaturals, Items
<1>6. 1..pos[conn] \subseteq seen
  BY <1>1 DEF ReadInv, ResumeInv, InSession
<1> QED
  BY <1>1, <1>2, <1>5, <1>6 DEF Resumable!Open, InSession

LEMMA DeliversNext ==
  ASSUME ReadInv, Deliver
  PROVE  Resumable!Read
<1>1. InSession
  BY DEF Deliver, ReadInv, TypeInv, Phase, SessionPcs
<1>2. /\ gpos < pos[gconn] /\ gpos' = gpos + 1 /\ seen' = seen \cup {gpos + 1}
      /\ mark' = (IF gpos + 1 \in WithId THEN gpos + 1 ELSE mark)
      /\ gconn' = gconn
  BY DEF Deliver, HasBuffered
<1>3. pos[gconn] \in Items \cup {0} /\ gpos \in Items \cup {0}
  BY <1>1 DEF ReadInv, TypeInv, TypeOK, ReaderTypeOK, NetTypeOK, InSession
<1>4. gpos # -1 /\ gpos + 1 <= MaxEvents
  BY <1>2, <1>3, BoundsAreNaturals DEF BoundsAreNaturals, Items
<1> QED
  BY <1>1, <1>2, <1>4 DEF Resumable!Read, InSession

LEMMA EndsByClosing ==
  ASSUME ReadInv, ReportEnd \/ (HandleError /\ closed)
  PROVE  Resumable!Close
<1>1. InSession
  BY DEF ReportEnd, HandleError, ReadInv, TypeInv, Phase, SessionPcs
<1>2. gconn' = None /\ UNCHANGED <<seen, mark>>
  BY DEF ReportEnd, HandleError, EndSession
<1>3. gpos # -1
  BY BoundsAreNaturals
  DEF BoundsAreNaturals, ReadInv, TypeInv, TypeOK, ReaderTypeOK, Items
<1> QED
  BY <1>1, <1>2, <1>3 DEF Resumable!Close, InSession

LEMMA RestStutters ==
  ASSUME ~MayAbandon, ReadInv, [Next]_vars, ~Deliver, ~ReportEnd,
         ~(Advance /\ conn # None), ~(HandleError /\ closed)
  PROVE  UNCHANGED <<seen, mark, gconn, gpos>>
<1>1. CASE ReaderStep
  BY <1>1
  DEF ReaderStep, Advance, AdvanceFromItem, AdvanceFromEof, CallStart, Abandon,
      ConnectOk, ConnectFail, ReportStart, ReceiveChunk, StreamOver, HandleError,
      TakeOwn, ShutOwn, readerVars, sessionVars, histVars
<1>2. ASSUME NEW t \in Controllers, ControllerStep(t)
      PROVE  UNCHANGED <<seen, mark, gconn, gpos>>
  BY <1>2
  DEF ControllerStep, CallInterrupt, CallClose, Check, Take, Shut, ClosePool,
      readerVars, sessionVars, histVars
<1>3. CASE UNCHANGED vars
  BY <1>3 DEF vars, readerVars, sessionVars, histVars
<1> QED
  BY <1>1, <1>2, <1>3 DEF Next

(* A client whose iterators are read to their end gives the application    *)
(* what ResumableStream promises, whatever its error strategy and whatever *)
(* other threads call: each session resumes at a point up to which all has *)
(* been seen and never before the last id, and reads on without a gap.     *)
THEOREM ClientResumes ==
  ASSUME ~MayAbandon, ~MayRestart
  PROVE  Spec => ImplementsResumable
<1>1. Init => Resumable!Init
  BY DEF Init, Resumable!Init, InSession
<1>2. ReadInv /\ [Next]_vars => [Resumable!Next]_(Resumable!vars)
  <2> SUFFICES ASSUME ReadInv, [Next]_vars
               PROVE  Resumable!Next \/ UNCHANGED Resumable!vars
    OBVIOUS
  <2>1. CASE Advance /\ conn # None
    BY <2>1, OpensAbove DEF Resumable!Next
  <2>2. CASE Deliver
    BY <2>2, DeliversNext DEF Resumable!Next
  <2>3. CASE ReportEnd \/ (HandleError /\ closed)
    BY <2>3, EndsByClosing DEF Resumable!Next
  <2>4. CASE /\ ~Deliver /\ ~ReportEnd
             /\ ~(Advance /\ conn # None) /\ ~(HandleError /\ closed)
    BY <2>4, RestStutters DEF Resumable!vars, InSession
  <2> QED
    BY <2>1, <2>2, <2>3, <2>4
<1> QED
  BY <1>1, <1>2, Reading, PTL DEF Spec, ImplementsResumable, Resumable!Spec

--------------------------------------------------------------------------------
(* What the application and the callers of interrupt() can rely on when    *)
(* control comes back to them.                                             *)

(* A thread that has let go of the connection of its call meets only newer *)
(* ones; a session that has, meets none, since its reader does not connect.*)
CallInv ==
  /\ rpc \in {"shut", "post"} => conn = None
  /\ \A t \in Controllers :
       /\ since[t] <= nconn
       /\ pc[t] \in {"shut", "pool"} => conn = None \/ conn > since[t]

LEMMA CallReader == TypeInv /\ CallInv /\ ReaderStep => CallInv'
<1> SUFFICES ASSUME TypeInv, CallInv, ReaderStep PROVE CallInv'
  OBVIOUS
<1>1. nconn \in Nat /\ \A t \in Controllers : since[t] \in Nat
  BY BoundsAreNaturals DEF BoundsAreNaturals, TypeInv, TypeOK, NetTypeOK, CtlTypeOK
<1>2. UNCHANGED <<pc, since>>
  BY DEF ReaderStep, Advance, AdvanceFromItem, AdvanceFromEof, CallStart, Abandon,
         ConnectOk, ConnectFail, ReportStart, Deliver, ReceiveChunk, StreamOver,
         HandleError, TakeOwn, ShutOwn, ReportEnd, ctlVars
<1>3. CASE ConnectOk
  <2>1. conn' = nconn + 1 /\ nconn' = nconn + 1 /\ rpc' = "connected"
    BY <1>3 DEF ConnectOk
  <2> QED
    BY <1>1, <1>2, <2>1 DEF CallInv
<1>4. CASE TakeOwn
  BY <1>2, <1>4 DEF TakeOwn, CallInv, netVars
<1>5. CASE ~ConnectOk /\ ~TakeOwn
  <2>1. conn' = conn /\ nconn' = nconn /\ (rpc' \in {"shut", "post"} => rpc \in {"shut", "post"})
    BY <1>5 DEF ReaderStep, Advance, AdvanceFromItem, AdvanceFromEof, CallStart, Abandon,
                ConnectFail, ReportStart, Deliver, ReceiveChunk, StreamOver, HandleError,
                ShutOwn, ReportEnd, OpenSession, Return, clientVars, netVars, readerVars
  <2> QED
    BY <1>2, <2>1 DEF CallInv
<1> QED
  BY <1>3, <1>4, <1>5

LEMMA CallController ==
  ASSUME TypeInv, CallInv, NEW t \in Controllers, ControllerStep(t)
  PROVE  CallInv' /\ (pc[t] # "idle" /\ pc'[t] = "idle" => conn' = None \/ conn' > since[t])
<1>1. /\ pc \in [Controllers -> {"idle", "check", "take", "shut", "pool"}]
      /\ since \in [Controllers -> 0..MaxConns] /\ nconn \in Nat /\ 0 <= nconn
  BY BoundsAreNaturals DEF BoundsAreNaturals, TypeInv, TypeOK, NetTypeOK, CtlTypeOK
<1>2. nconn' = nconn /\ rpc' = rpc /\ conn' \in {None, conn}
  BY DEF ControllerStep, CallInterrupt, CallClose, Check, Take, Shut, ClosePool,
         clientVars, netVars, readerVars
<1>3. \A u \in Controllers \ {t} : pc'[u] = pc[u] /\ since'[u] = since[u]
  BY <1>1 DEF ControllerStep, CallInterrupt, CallClose, Check, Take, Shut, ClosePool, Goto
<1>4. since'[t] \in {0, since[t], nconn}
  BY <1>1 DEF ControllerStep, CallInterrupt, CallClose, Check, Take, Shut, ClosePool, Goto
<1>5. rpc' \in {"shut", "post"} => conn' = None
  BY <1>2 DEF CallInv
<1>6. \A u \in Controllers \ {t} :
        /\ since'[u] <= nconn'
        /\ pc'[u] \in {"shut", "pool"} => conn' = None \/ conn' > since'[u]
  BY <1>2, <1>3 DEF CallInv
<1>7. since'[t] <= nconn'
  <2>1. since[t] <= nconn
    BY DEF CallInv
  <2> QED
    BY <1>1, <1>2, <1>4, <2>1
<1>8. /\ pc'[t] \in {"shut", "pool"} => conn' = None \/ conn' > since'[t]
      /\ pc[t] # "idle" /\ pc'[t] = "idle" => conn' = None \/ conn' > since[t]
  <2>1. CASE CallInterrupt(t) \/ CallClose(t)
    <3>1. pc'[t] = "check"
      BY <1>1, <2>1 DEF CallInterrupt, CallClose
    <3> QED
      BY <3>1
  <2>2. CASE Check(t)
    <3>1. pc'[t] = "take" \/ conn' = None
      BY <1>1, <2>2 DEF Check, Goto, IsActive
    <3> QED
      BY <3>1
  <2>3. CASE Take(t)
    BY <2>3 DEF Take, Swap
  <2>4. CASE Shut(t) \/ ClosePool(t)
    <3>1. pc[t] \in {"shut", "pool"} /\ conn' = conn
      BY <2>4 DEF Shut, ClosePool, clientVars
    <3>2. pc'[t] = "idle" \/ (pc'[t] = "pool" /\ since'[t] = since[t])
      BY <1>1, <2>4 DEF Shut, ClosePool, Goto, AfterInterrupt
    <3>3. conn = None \/ conn > since[t]
      BY <3>1 DEF CallInv
    <3> QED
      BY <3>1, <3>2, <3>3
  <2> QED
    BY <2>1, <2>2, <2>3, <2>4 DEF ControllerStep
<1>9. CallInv'
  <2>1. \A u \in Controllers :
          /\ since'[u] <= nconn'
          /\ pc'[u] \in {"shut", "pool"} => conn' = None \/ conn' > since'[u]
    BY <1>6, <1>7, <1>8
  <2> QED
    BY <1>5, <2>1 DEF CallInv
<1> QED
  BY <1>8, <1>9

LEMMA CallNext == TypeInv /\ CallInv /\ [Next]_vars => CallInv'
<1>1. CallInv /\ UNCHANGED vars => CallInv'
  BY DEF CallInv, vars, clientVars, netVars, readerVars, ctlVars
<1> QED
  BY <1>1, CallReader, CallController DEF Next

LEMMA CallInit == Init => CallInv
  BY DEF Init, CallInv

(* interrupt() and close() do what they promise: when the call returns,    *)
(* the connection that was current when it was made is not, however many   *)
(* threads call and whatever the reader does (lines 165-173).              *)
THEOREM CallsTakeEffect == Spec => CallTakesEffect
<1>1. TypeInv /\ CallInv /\ [Next]_vars =>
        [\A t \in Controllers :
           pc[t] # "idle" /\ pc'[t] = "idle" => conn' = None \/ conn' > since[t]]_vars
  <2> SUFFICES ASSUME TypeInv, CallInv, Next,
                      NEW t \in Controllers, pc[t] # "idle", pc'[t] = "idle"
               PROVE  conn' = None \/ conn' > since[t]
    OBVIOUS
  <2>1. CASE ReaderStep
    BY <2>1 DEF ReaderStep, Advance, AdvanceFromItem, AdvanceFromEof, CallStart, Abandon,
                ConnectOk, ConnectFail, ReportStart, Deliver, ReceiveChunk, StreamOver,
                HandleError, TakeOwn, ShutOwn, ReportEnd, ctlVars
  <2>2. ASSUME NEW u \in Controllers, ControllerStep(u), u # t PROVE pc'[t] = pc[t]
    BY <2>2 DEF TypeInv, TypeOK, CtlTypeOK, ControllerStep, CallInterrupt, CallClose, Check,
                Take, Shut, ClosePool, Goto
  <2> QED
    BY <2>1, <2>2, CallController DEF Next
<1> QED
  BY <1>1, TypeInit, TypeNext, CallInit, CallNext, PTL DEF Spec, CallTakesEffect

(* When the end of a session is reported there is no connection, although  *)
(* a controller may have taken it from the reader (lines 234-251).         *)
THEOREM FaultsMeanInactive == Spec => FaultMeansInactive
<1>1. CallInv /\ [Next]_vars =>
        [rpc = "post" /\ at' \in {"faulted", "eof"} => conn' = None]_vars
  <2> SUFFICES ASSUME CallInv, Next, rpc = "post" PROVE conn' = None
    OBVIOUS
  <2>1. conn = None
    BY DEF CallInv
  <2> QED
    BY <2>1 DEF Next, ReaderStep, Advance, AdvanceFromItem, AdvanceFromEof, CallStart, Abandon,
                ConnectOk, ConnectFail, ReportStart, Deliver, ReceiveChunk, StreamOver,
                HandleError, TakeOwn, ShutOwn, ReportEnd, ControllerStep, CallInterrupt,
                CallClose, Check, Take, Shut, ClosePool, clientVars
<1> QED
  BY <1>1, TypeInit, TypeNext, CallInit, CallNext, PTL DEF Spec, FaultMeansInactive

(* What the application last heard of the stream is true, or about to be   *)
(* corrected, unless a controller has dropped the connection.              *)
SignalInv ==
  signal = "up" /\ ~cut =>
    \/ conn # None /\ rpc \notin {"connecting", "connected"}
    \/ rpc \in {"shut", "post"}

LEMMA SignalNext == TypeInv /\ SignalInv /\ [Next]_vars => SignalInv'
<1> SUFFICES ASSUME TypeInv, SignalInv, [Next]_vars PROVE SignalInv'
  OBVIOUS
<1>1. CASE UNCHANGED vars
  BY <1>1 DEF vars, clientVars, readerVars, histVars, SignalInv
<1>2. CASE ConnectOk \/ ConnectFail \/ ReportStart
  BY <1>2 DEF ConnectOk, ConnectFail, ReportStart, Return, clientVars, histVars, SignalInv
<1>3. CASE Advance \/ AdvanceFromItem \/ AdvanceFromEof \/ CallStart \/ Abandon
  BY <1>3 DEF Advance, AdvanceFromItem, AdvanceFromEof, CallStart, Abandon, OpenSession,
              Return, clientVars, histVars, SignalInv
<1>4. CASE Deliver \/ ReceiveChunk \/ StreamOver \/ HandleError
  BY <1>4 DEF Deliver, ReceiveChunk, StreamOver, HandleError, Return, clientVars,
              readerVars, histVars, SignalInv
<1>5. CASE TakeOwn \/ ShutOwn \/ ReportEnd
  BY <1>5 DEF TakeOwn, ShutOwn, ReportEnd, clientVars, histVars, SignalInv
<1>6. ASSUME NEW t \in Controllers, ControllerStep(t) PROVE SignalInv'
  BY <1>6 DEF ControllerStep, CallInterrupt, CallClose, Check, Take, Shut, ClosePool,
              clientVars, readerVars, histVars, SignalInv
<1> QED
  BY <1>1, <1>2, <1>3, <1>4, <1>5, <1>6 DEF Next, ReaderStep

(* A Start follows a Start only after another thread dropped the           *)
(* connection: the client itself reports every end (lines 237-251).        *)
THEOREM StartsHaveEnds == Spec => StartsAlternate
<1>1. Init => SignalInv
  BY DEF Init, SignalInv
<1>2. SignalInv /\ [Next]_vars =>
        [rpc = "connected" /\ signal' = "up" /\ signal = "up" => cut]_vars
  BY DEF SignalInv, TypeInv, TypeOK, HistTypeOK
<1> QED
  BY <1>1, <1>2, TypeInit, TypeNext, SignalNext, PTL DEF Spec, StartsAlternate
================================================================================
