------------------------------- MODULE HttpClient -------------------------------
(***************************************************************************)
(* src/ld_eventsource/http.py under the threaded client: the reader makes  *)
(* a request and blocks in its stream, other threads run the closer of the *)
(* stream (lines 118-132) and close() of the HTTP client (136-148).        *)
(*                                                                         *)
(* External.  urllib3 and http.client are modelled from their use here: a  *)
(* reader blocked in recv holds the buffer lock of its response, and who   *)
(* closes the file of that response waits for the lock; a connection that  *)
(* is closed closes the file of its unfinished response; a stream that     *)
(* ends gives its connection back to the pool, where a later request finds *)
(* it; one that breaks closes it; a closed pool keeps nothing.  Responses  *)
(* are HTTP/1.1 with a connection that is kept alive.  One host, so that   *)
(* the pool manager holds at most one connection pool.                     *)
(*                                                                         *)
(* SSEClient runs the closer of a connection once, and connects only when  *)
(* it has no current one (OneOwner and NoConnectionLost in SSEClient).     *)
(***************************************************************************)
EXTENDS Integers, FiniteSets

CONSTANTS
  Controllers,  \* the threads that call interrupt() and close()
  Reader,       \* the thread that connects and reads
  MaxSocks,     \* bound: sockets ever opened
  MaxResps,     \* bound: responses
  MaxPools      \* bound: connection pools

ASSUME ReaderIsNoController == Reader \notin Controllers
ASSUME BoundsArePositive == {MaxSocks, MaxResps, MaxPools} \subseteq Nat \ {0}

Threads == Controllers \cup {Reader}
Socks == 1..MaxSocks
Resps == 1..MaxResps
Pools == 1..MaxPools
None == 0

VARIABLES
  wakes,    \* not Windows, and the response has shutdown() (line 124)
  owns,     \* __should_close_pool
  cur,      \* the connection pool in the manager, if any
  npools,   \* connection pools made so far
  ended,    \* those that were closed
  nsock,    \* sockets opened so far
  sock,     \* per socket, whether it can be read
  idle,     \* per socket, the pool it is idle in
  nresp,    \* responses received so far
  src,      \* per response, its socket
  home,     \* per response, its pool
  owned,    \* responses whose connection is not None
  fp,       \* responses whose file is open
  rejected, \* responses that were answered with an exception
  closable, \* the response of the client's current connection
  rpc,      \* where the reader is when it runs no closer
  rresp,    \* the response it reads
  rsock,    \* the socket of its request under way
  pc,       \* per thread, where it is in a closer or in close()
  held,     \* per thread, the response it closes
  wasIdle   \* history: the idle sockets that a close() found

platformVars == <<wakes, owns>>
poolVars == <<cur, npools, ended>>
sockVars == <<nsock, sock, idle>>
respVars == <<nresp, src, home, owned, fp, rejected, closable>>
readerVars == <<rpc, rresp, rsock>>
threadVars == <<pc, held, wasIdle>>
vars == <<platformVars, poolVars, sockVars, respVars, readerVars, threadVars>>

--------------------------------------------------------------------------------
(* The type invariant; the reader never reads a response that was rejected. *)
SockTypeOK ==
  /\ cur \in Pools \cup {None} /\ npools \in 0..MaxPools /\ ended \subseteq Pools
  /\ nsock \in 0..MaxSocks
  /\ sock \in [Socks -> {"unused", "open", "shut", "closed"}]
  /\ idle \in [Socks -> Pools \cup {None}]

RespTypeOK ==
  /\ nresp \in 0..MaxResps
  /\ src \in [Resps -> Socks \cup {None}] /\ home \in [Resps -> Pools \cup {None}]
  /\ owned \subseteq Resps /\ fp \subseteq Resps
  /\ rejected \subseteq Resps /\ closable \subseteq Resps

ReaderTypeOK ==
  /\ rpc \in {"app", "request", "recv"} /\ rsock \in Socks \cup {None}
  /\ rresp \in (Resps \ rejected) \cup {None}

ThreadTypeOK ==
  /\ wakes \in BOOLEAN /\ owns \in BOOLEAN
  /\ pc \in [Threads -> {"idle", "check", "wake", "file", "conn", "drop", "sweep",
                         "clear"}]
  /\ held \in [Threads -> Resps \cup {None}]
  /\ wasIdle \in [Threads -> SUBSET Socks]

TypeOK == SockTypeOK /\ RespTypeOK /\ ReaderTypeOK /\ ThreadTypeOK

(* A supplied pool may hold an idle connection of another of its users. *)
Init ==
  /\ wakes \in BOOLEAN
  /\ \/ owns = TRUE /\ cur = None /\ npools = 0 /\ nsock = 0
     \/ owns = FALSE /\ cur = 1 /\ npools = 1 /\ nsock = 1
  /\ ended = {}
  /\ sock = [s \in Socks |-> IF s <= nsock THEN "open" ELSE "unused"]
  /\ idle = [s \in Socks |-> IF s <= nsock THEN cur ELSE None]
  /\ nresp = 0
  /\ src = [r \in Resps |-> None] /\ home = [r \in Resps |-> None]
  /\ owned = {} /\ fp = {} /\ rejected = {} /\ closable = {}
  /\ rpc = "app" /\ rresp = None /\ rsock = None
  /\ pc = [t \in Threads |-> "idle"] /\ held = [t \in Threads |-> None]
  /\ wasIdle = [t \in Threads |-> {}]

--------------------------------------------------------------------------------
(* What the actions are made of.  The operators named Wrong... are the     *)
(* mistakes the properties below are tried with, as in SSEClient.          *)

(* Can the closer wake a reader, line 124. *)
WrongCanWake == FALSE                   \* the connection is always released
CanWake == wakes

(* Is there a connection to shut down, line 125. *)
WrongHasConnection(r) == r \notin owned \* the test inverted
HasConnection(r) == r \in owned

(* Does close() close the pool, line 137. *)
WrongShouldClosePool == ~owns           \* the flag inverted
ShouldClosePool == owns

(* What close() closes before it clears the manager, lines 141-145. *)
WrongPoolToClose == {}                  \* the manager is only cleared
PoolToClose == {cur} \ ({None} \cup ended)

(* Is a response with a good (or a bad) status and content type accepted,  *)
(* lines 108-114.                                                          *)
WrongAccepts(good) == TRUE              \* nothing is looked at
Accepts(good) == good

(* The reader is blocked in a read of r, and holds its buffer lock. *)
Blocked(r) == rpc = "recv" /\ rresp = r

Unfinished(s) == {r \in fp : src[r] = s}
IdleIn(p) == {s \in Socks : idle[s] = p}

(* close() of the connection with socket s: it waits for the lock of its   *)
(* unfinished response.                                                    *)
CloseSocket(s) ==
  /\ \A r \in Unfinished(s) : ~Blocked(r)
  /\ sock' = [sock EXCEPT ![s] = "closed"]
  /\ fp' = fp \ Unfinished(s)

(* Thread t has nothing more to do. *)
Done(t) ==
  /\ pc' = [pc EXCEPT ![t] = "idle"] /\ held' = [held EXCEPT ![t] = None]
  /\ UNCHANGED wasIdle

(* SSEClient lets go of its connection, and thread t runs the closer that  *)
(* ConnectionResult.close() finds there.                                   *)
TakeCloser(t) ==
  /\ closable' = {}
  /\ pc' = [pc EXCEPT ![t] = "check"]
  /\ held' = [held EXCEPT ![t] = CHOOSE r \in closable : TRUE]
  /\ UNCHANGED wasIdle

--------------------------------------------------------------------------------
(* The reader. *)

(* connect() up to the request: the manager finds or makes its connection  *)
(* pool, and that a connection.  An idle one is used again only if nothing *)
(* is left to read on it; otherwise, or if its server has dropped it, it   *)
(* is replaced.  A closed pool refuses, which changes nothing.             *)
BeginRequest ==
  /\ rpc = "app" /\ pc[Reader] = "idle" /\ rresp = None /\ closable = {}
  /\ cur \notin ended
  /\ IF cur = None
     THEN npools < MaxPools /\ npools' = npools + 1 /\ cur' = npools + 1
     ELSE UNCHANGED <<npools, cur>>
  /\ LET here == IF cur = None THEN {} ELSE IdleIn(cur) IN
       \/ \E s \in here :
            /\ sock[s] = "open" /\ Unfinished(s) = {}
            /\ idle' = [idle EXCEPT ![s] = None] /\ rsock' = s
            /\ UNCHANGED <<nsock, sock, fp>>
       \/ /\ nsock < MaxSocks
          /\ nsock' = nsock + 1 /\ rsock' = nsock + 1
          /\ \/ here = {} /\ UNCHANGED <<idle, fp>>
                /\ sock' = [sock EXCEPT ![nsock + 1] = "open"]
             \/ \E s \in here :
                  /\ idle' = [idle EXCEPT ![s] = None]
                  /\ sock' = [sock EXCEPT ![s] = "closed", ![nsock + 1] = "open"]
                  /\ fp' = fp \ Unfinished(s)
  /\ rpc' = "request"
  /\ UNCHANGED <<platformVars, ended, nresp, src, home, owned, rejected, closable,
                 rresp, threadVars>>

(* The ConnectionResult of a response, the current one of the client. *)
MakeResult(r) == closable' = {r} /\ rresp' = r

(* A response, which is accepted, or rejected with nobody to release it. *)
Respond(good) ==
  /\ rpc = "request" /\ sock[rsock] = "open" /\ nresp < MaxResps
  /\ LET r == nresp + 1 IN
       /\ nresp' = r
       /\ src' = [src EXCEPT ![r] = rsock]
       /\ home' = [home EXCEPT ![r] = npools]
       /\ owned' = owned \cup {r} /\ fp' = fp \cup {r}
       /\ rejected' = IF good THEN rejected ELSE rejected \cup {r}
       /\ IF Accepts(good) THEN MakeResult(r)
          ELSE UNCHANGED <<closable, rresp>>
  /\ rpc' = "app" /\ rsock' = None
  /\ UNCHANGED <<platformVars, poolVars, sockVars, threadVars>>

(* No response: the connection is closed, and connect() raises. *)
RequestFails ==
  /\ rpc = "request"
  /\ sock' = [sock EXCEPT ![rsock] = "closed"]
  /\ rpc' = "app" /\ rsock' = None
  /\ UNCHANGED <<platformVars, poolVars, nsock, idle, respVars, rresp, threadVars>>

(* The exception of a rejected response is dropped, and the response with  *)
(* it: only now is its connection closed.                                  *)
Collect ==
  /\ \E r \in rejected \cap fp :
       CloseSocket(src[r]) /\ owned' = owned \ {r}
  /\ UNCHANGED <<platformVars, poolVars, nsock, idle, nresp, src, home, rejected,
                 closable, readerVars, threadVars>>

(* The session reads on. *)
Recv ==
  /\ rpc = "app" /\ pc[Reader] = "idle" /\ rresp \in fp
  /\ rpc' = "recv"
  /\ UNCHANGED <<platformVars, poolVars, sockVars, respVars, rresp, rsock, threadVars>>

Data ==
  /\ rpc = "recv" /\ sock[src[rresp]] = "open"
  /\ rpc' = "app"
  /\ UNCHANGED <<platformVars, poolVars, sockVars, respVars, rresp, rsock, threadVars>>

(* The session is over; if its connection is still the current one, the    *)
(* reader runs the closer itself.                                          *)
LeaveStream ==
  /\ rpc' = "app" /\ rresp' = None
  /\ IF rresp \in closable THEN TakeCloser(Reader)
     ELSE UNCHANGED <<closable, threadVars>>

(* The stream has ended: its connection goes back to its pool. *)
StreamEnds ==
  /\ rpc = "recv" /\ sock[src[rresp]] = "open"
  /\ fp' = fp \ {rresp} /\ owned' = owned \ {rresp}
  /\ LET s == src[rresp] IN
       IF rresp \notin owned THEN UNCHANGED <<sock, idle>>
       ELSE IF home[rresp] \in ended
            THEN sock' = [sock EXCEPT ![s] = "closed"] /\ UNCHANGED idle
            ELSE idle' = [idle EXCEPT ![s] = home[rresp]] /\ UNCHANGED sock
  /\ LeaveStream
  /\ UNCHANGED <<platformVars, poolVars, nsock, nresp, src, home, rejected, rsock>>

(* It has broken, or was shut down: its connection is closed. *)
StreamBreaks ==
  /\ rpc = "recv"
  /\ fp' = fp \ {rresp} /\ owned' = owned \ {rresp}
  /\ sock' = IF rresp \in owned THEN [sock EXCEPT ![src[rresp]] = "closed"] ELSE sock
  /\ LeaveStream
  /\ UNCHANGED <<platformVars, poolVars, nsock, idle, nresp, src, home, rejected,
                 rsock>>

(* The session finds its file closed, or its client interrupted. *)
StreamIsGone ==
  /\ rpc = "app" /\ pc[Reader] = "idle" /\ rresp # None
  /\ rresp \notin fp \/ rresp \notin closable
  /\ LeaveStream
  /\ UNCHANGED <<platformVars, poolVars, sockVars, nresp, src, home, owned, fp,
                 rejected, rsock>>

--------------------------------------------------------------------------------
(* The closer of a response, run by thread t. *)

CallCloser(t) ==
  /\ pc[t] = "idle" /\ closable # {}
  /\ TakeCloser(t)
  /\ UNCHANGED <<platformVars, poolVars, sockVars, nresp, src, home, owned, fp,
                 rejected, readerVars>>

(* Lines 124-125 where a reader can be woken. *)
Check(t) ==
  /\ pc[t] = "check" /\ CanWake
  /\ pc' = [pc EXCEPT ![t] = IF HasConnection(held[t]) THEN "wake" ELSE "file"]
  /\ UNCHANGED <<platformVars, poolVars, sockVars, respVars, readerVars, held, wasIdle>>

(* resp.shutdown(), of the socket the response came from; on a socket that *)
(* is closed it raises, which is caught.                                   *)
Wake(t) ==
  /\ pc[t] = "wake"
  /\ LET s == src[held[t]] IN
       sock' = IF sock[s] = "open" THEN [sock EXCEPT ![s] = "shut"] ELSE sock
  /\ pc' = [pc EXCEPT ![t] = "file"]
  /\ UNCHANGED <<platformVars, poolVars, nsock, idle, respVars, readerVars, held,
                 wasIdle>>

(* resp.close(): first the file, which takes the lock ... *)
CloseFile(t) ==
  /\ pc[t] = "file" /\ ~Blocked(held[t])
  /\ fp' = fp \ {held[t]}
  /\ pc' = [pc EXCEPT ![t] = "conn"]
  /\ UNCHANGED <<platformVars, poolVars, sockVars, nresp, src, home, owned, rejected,
                 closable, readerVars, held, wasIdle>>

(* ... then the connection, if it still has one. *)
CloseConnection(t) ==
  /\ pc[t] = "conn"
  /\ IF held[t] \in owned THEN CloseSocket(src[held[t]]) ELSE UNCHANGED <<sock, fp>>
  /\ owned' = owned \ {held[t]}
  /\ Done(t)
  /\ UNCHANGED <<platformVars, poolVars, nsock, idle, nresp, src, home, rejected,
                 closable, readerVars>>

(* Line 132: the connection goes back to its pool, with the reader in it;  *)
(* a closed pool would close it.                                           *)
ReleaseConn(t) ==
  /\ pc[t] = "check" /\ ~CanWake
  /\ LET r == held[t] IN
       IF r \in owned /\ home[r] \in ended
       THEN /\ pc' = [pc EXCEPT ![t] = "drop"]
            /\ UNCHANGED <<idle, owned, held, wasIdle>>
       ELSE /\ idle' = IF r \in owned THEN [idle EXCEPT ![src[r]] = home[r]] ELSE idle
            /\ owned' = owned \ {r}
            /\ Done(t)
  /\ UNCHANGED <<platformVars, poolVars, nsock, sock, nresp, src, home, fp, rejected,
                 closable, readerVars>>

Discard(t) ==
  /\ pc[t] = "drop"
  /\ CloseSocket(src[held[t]])
  /\ owned' = owned \ {held[t]}
  /\ Done(t)
  /\ UNCHANGED <<platformVars, poolVars, nsock, idle, nresp, src, home, rejected,
                 closable, readerVars>>

--------------------------------------------------------------------------------
(* close() of the HTTP client, called by a controller t. *)

(* A supplied pool is left alone. *)
CallCloseGiven(t) ==
  /\ pc[t] = "idle" /\ ~ShouldClosePool
  /\ UNCHANGED vars

(* The connection pool in the manager is closed to everybody else ... *)
CallClose(t) ==
  /\ pc[t] = "idle" /\ ShouldClosePool
  /\ ended' = ended \cup PoolToClose
  /\ wasIdle' = [wasIdle EXCEPT ![t] = IF cur \in {None} \cup ended THEN {}
                                       ELSE IdleIn(cur)]
  /\ pc' = [pc EXCEPT ![t] = IF PoolToClose = {} THEN "clear" ELSE "sweep"]
  /\ UNCHANGED <<platformVars, cur, npools, sockVars, respVars, readerVars, held>>

(* ... and its idle connections are closed one by one ... *)
Sweep(t) ==
  /\ pc[t] = "sweep"
  /\ LET rest == {s \in Socks : idle[s] \in ended} IN
       \/ \E s \in rest :
            /\ CloseSocket(s)
            /\ idle' = [idle EXCEPT ![s] = None]
            /\ UNCHANGED pc
       \/ /\ rest = {}
          /\ pc' = [pc EXCEPT ![t] = "clear"]
          /\ UNCHANGED <<sock, idle, fp>>
  /\ UNCHANGED <<platformVars, poolVars, nsock, nresp, src, home, owned, rejected,
                 closable, readerVars, held, wasIdle>>

(* ... before the manager forgets it. *)
Clear(t) ==
  /\ pc[t] = "clear"
  /\ cur' = None
  /\ pc' = [pc EXCEPT ![t] = "idle"] /\ wasIdle' = [wasIdle EXCEPT ![t] = {}]
  /\ UNCHANGED <<platformVars, npools, ended, sockVars, respVars, readerVars, held>>

--------------------------------------------------------------------------------
CloserStep(t) ==
  Check(t) \/ Wake(t) \/ CloseFile(t) \/ CloseConnection(t) \/ ReleaseConn(t)
  \/ Discard(t)

CloseStep(t) == Sweep(t) \/ Clear(t)

ReaderStep ==
  \/ BeginRequest \/ (\E good \in BOOLEAN : Respond(good)) \/ RequestFails \/ Collect
  \/ Recv \/ Data \/ StreamEnds \/ StreamBreaks \/ StreamIsGone

Next ==
  \/ ReaderStep
  \/ \E t \in Threads : CloserStep(t)
  \/ \E t \in Controllers :
       CallCloser(t) \/ CallCloseGiven(t) \/ CallClose(t) \/ CloseStep(t)

Spec == Init /\ [][Next]_vars

(* Every thread is scheduled, and a read on a socket that was shut down    *)
(* returns.  No server is obliged to answer, to send, or to end a stream.  *)
FairSpec ==
  /\ Spec
  /\ WF_vars(rresp # None /\ sock[src[rresp]] # "open" /\ StreamBreaks)
  /\ \A t \in Threads : WF_vars(CloserStep(t))
  /\ \A t \in Controllers : WF_vars(CloseStep(t))

--------------------------------------------------------------------------------
(* Properties. *)

(* A reader blocked in a stream whose closer has run comes back, where the *)
(* platform can wake it (lines 119-121).                                   *)
ReaderWakes ==
  \A r \in Resps :
    (wakes /\ Blocked(r) /\ r \notin closable) ~> ~Blocked(r)

(* interrupt() and close() return, although the file they close is locked  *)
(* by a blocked reader (lines 124-132 and 143-148), where the reader can   *)
(* be woken, or the pool is not the client's to close.                     *)
StopReturns ==
  \A t \in Controllers :
    (pc[t] # "idle" /\ (wakes \/ ~owns)) ~> (pc[t] = "idle")

(* A connection that is still being read is not in the pool, where a new   *)
(* request would find it (line 130 closes it, line 132 does not).          *)
NotPooledWhileRead ==
  wakes => \A r \in Resps : rresp = r /\ r \in fp => idle[src[r]] = None

(* The connections that close() finds idle in the client's own pool are    *)
(* closed when it returns, and not left to the garbage collector, also if  *)
(* others connect, end a stream or close meanwhile (lines 138-148).        *)
IdleAreClosed ==
  [][\A t \in Controllers :
       pc[t] = "clear" /\ pc'[t] = "idle" =>
         \A s \in wasIdle[t] : sock[s] = "closed"]_vars

(* A pool the application supplied is neither closed nor cleared (lines 61 *)
(* and 137).                                                               *)
GivenPoolStays == ~owns => cur = 1 /\ ended = {}

--------------------------------------------------------------------------------
(* What the documentation says and the code does not do. *)

(* The closer "never deadlocks on the reader's BufferedReader lock" (lines *)
(* 122-123), and a stop "must still never hang" where the reader cannot be *)
(* woken (test_http_connect_strategy_with_sse_client.py:103): nobody who   *)
(* stops the client waits for a lock that only the server can have freed.  *)
WaitsForReader(t) ==
  \E r \in fp :
    /\ Blocked(r)
    /\ \/ pc[t] = "file" /\ held[t] = r
       \/ pc[t] = "drop" /\ src[held[t]] = src[r]
       \/ pc[t] = "sweep" /\ idle[src[r]] \in ended

StopNeverHangs ==
  \A t \in Controllers : WaitsForReader(t) => sock[src[rresp]] # "open"
================================================================================
