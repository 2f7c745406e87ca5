---------------------------- MODULE HttpClient_proofs ----------------------------
(***************************************************************************)
(* Theorems about HttpClient, for every set of controllers and any number  *)
(* of sockets, responses and connection pools.                             *)
(***************************************************************************)
EXTENDS HttpClient, TLAPS

USE DEF CanWake, HasConnection, ShouldClosePool, PoolToClose, Accepts

--------------------------------------------------------------------------------
(* Type correctness.  That a closer has a response to close, and that the  *)
(* reader reads none that was rejected, depends on responses being made    *)
(* one after another.                                                      *)

CloserPcs == {"check", "wake", "file", "conn", "drop"}

Made ==
  /\ rpc = "recv" => rresp # None
  /\ rpc = "request" => rsock # None /\ rresp = None
  /\ rejected \subseteq 1..nresp /\ rresp <= nresp
  /\ \A t \in Threads : pc[t] \in CloserPcs => held[t] # None

TypeInv == TypeOK /\ Made

LEMMA TypeInit == Init => TypeInv
<1> SUFFICES ASSUME Init PROVE TypeInv
  OBVIOUS
<1>1. 1 \in Pools /\ 0 \in 0..MaxPools /\ 1 \in 0..MaxPools /\ 0 \in 0..MaxSocks
      /\ 1 \in 0..MaxSocks /\ 0 \in 0..MaxResps
  BY BoundsArePositive DEF BoundsArePositive, Pools
<1>2. cur \in Pools \cup {None} /\ npools \in 0..MaxPools /\ nsock \in 0..MaxSocks
  BY <1>1 DEF Init, None
<1>3. SockTypeOK
  BY <1>2 DEF Init, SockTypeOK
<1>4. RespTypeOK /\ ReaderTypeOK
  BY <1>1 DEF Init, RespTypeOK, ReaderTypeOK
<1>5. ThreadTypeOK
  BY DEF Init, ThreadTypeOK
<1>6. Made
  BY DEF Init, Made, CloserPcs, None
<1> QED
  BY <1>3, <1>4, <1>5, <1>6 DEF TypeInv, TypeOK

LEMMA Numbers ==
  ASSUME TypeInv
  PROVE  /\ nresp \in Nat /\ rresp \in Nat /\ nsock \in Nat /\ npools \in Nat
         /\ nresp < MaxResps => nresp + 1 \in Resps /\ nresp + 1 \in 0..MaxResps
         /\ nsock < MaxSocks => nsock + 1 \in Socks /\ nsock + 1 \in 0..MaxSocks
         /\ npools < MaxPools => npools + 1 \in Pools /\ npools + 1 \in 0..MaxPools
         /\ npools \in Pools \cup {None}
         /\ \A r \in Resps : r # None
  BY BoundsArePositive
  DEF BoundsArePositive, TypeInv, TypeOK, SockTypeOK, RespTypeOK, ReaderTypeOK, Resps,
      Socks, Pools, None

(* The closer of a response that is taken by thread t. *)
LEMMA TypeTake ==
  ASSUME TypeInv, NEW t \in Threads, closable # {}, TakeCloser(t)
  PROVE  /\ closable' = {} /\ wasIdle' = wasIdle
         /\ pc' \in [Threads -> {"idle", "check", "wake", "file", "conn", "drop",
                                 "sweep", "clear"}]
         /\ held' \in [Threads -> Resps \cup {None}]
         /\ \A u \in Threads : pc'[u] \in CloserPcs => held'[u] # None
<1> DEFINE r == CHOOSE x \in closable : TRUE
<1>1. r \in closable
  OBVIOUS
<1>2. r \in Resps /\ r # None
  BY <1>1, Numbers DEF TypeInv, TypeOK, RespTypeOK
<1>3. pc' = [pc EXCEPT ![t] = "check"] /\ held' = [held EXCEPT ![t] = r]
  BY DEF TakeCloser
<1> HIDE DEF r
<1>4. /\ pc \in [Threads -> {"idle", "check", "wake", "file", "conn", "drop", "sweep", "clear"}]
      /\ held \in [Threads -> Resps \cup {None}]
      /\ \A u \in Threads : pc[u] \in CloserPcs => held[u] # None
  BY DEF TypeInv, TypeOK, ThreadTypeOK, Made
<1>5. \A u \in Threads : pc'[u] \in CloserPcs => held'[u] # None
  BY <1>2, <1>3, <1>4
<1>6. closable' = {} /\ wasIdle' = wasIdle
  BY DEF TakeCloser
<1> QED
  BY <1>2, <1>3, <1>4, <1>5, <1>6

LEMMA TypeLeave ==
  ASSUME TypeInv, LeaveStream, wakes' = wakes, owns' = owns
  PROVE  /\ ThreadTypeOK' /\ rpc' = "app" /\ rresp' = None /\ closable' \subseteq closable
         /\ \A u \in Threads : pc'[u] \in CloserPcs => held'[u] # None
<1>0. Reader \in Threads
  BY DEF Threads
<1>1. CASE rresp \in closable
  BY <1>0, <1>1, TypeTake DEF LeaveStream, TypeInv, TypeOK, ThreadTypeOK
<1>2. CASE rresp \notin closable
  BY <1>2 DEF LeaveStream, threadVars, TypeInv, TypeOK, ThreadTypeOK, Made
<1> QED
  BY <1>1, <1>2

LEMMA TypeReader == TypeInv /\ ReaderStep => TypeInv'
<1> SUFFICES ASSUME TypeInv, ReaderStep PROVE TypeInv'
  OBVIOUS
<1> USE DEF TypeInv, TypeOK
<1>1. CASE BeginRequest
  <2>1. ThreadTypeOK' /\ RespTypeOK'
    BY <1>1 DEF BeginRequest, Unfinished, threadVars, platformVars, ThreadTypeOK,
                RespTypeOK
  <2>2. ReaderTypeOK' /\ Made'
    BY <1>1, Numbers
    DEF BeginRequest, threadVars, ReaderTypeOK, Made, IdleIn, SockTypeOK, Socks, None
  <2>3. SockTypeOK'
    BY <1>1, Numbers DEF BeginRequest, IdleIn, SockTypeOK
  <2> QED
    BY <2>1, <2>2, <2>3
<1>2. ASSUME NEW good \in BOOLEAN, Respond(good) PROVE TypeInv'
  <2>1. SockTypeOK' /\ ThreadTypeOK'
    BY <1>2 DEF Respond, poolVars, sockVars, platformVars, threadVars, SockTypeOK,
                ThreadTypeOK
  <2>2. nresp + 1 \in Resps /\ nresp + 1 \in 0..MaxResps /\ nresp' = nresp + 1
    BY <1>2, Numbers DEF Respond
  <2>3. RespTypeOK'
    BY <1>2, <2>2, Numbers DEF Respond, MakeResult, RespTypeOK, ReaderTypeOK
  <2>4. rresp = None /\ rpc' = "app" /\ rsock' = None
    BY <1>2 DEF Respond, Made
  <2>5. \/ good /\ rresp' = nresp + 1 /\ rejected' = rejected
        \/ ~good /\ rresp' = None /\ rejected' = rejected \cup {nresp + 1}
    BY <1>2, <2>4 DEF Respond, MakeResult
  <2>6. nresp + 1 \notin rejected
    BY Numbers DEF Made
  <2>7. ReaderTypeOK'
    BY <2>2, <2>4, <2>5, <2>6, Numbers DEF ReaderTypeOK
  <2>8. rejected' \subseteq 1..nresp' /\ rresp' <= nresp'
    <3>1. nresp \in Nat /\ nresp' = nresp + 1
      BY <2>2, Numbers
    <3>2. 1..nresp \subseteq 1..nresp' /\ nresp + 1 \in 1..nresp' /\ 0 <= nresp'
      BY <3>1
    <3>3. rresp' <= nresp'
      BY <2>5, <3>1, <3>2 DEF None
    <3>4. rejected \subseteq 1..nresp
      BY DEF Made
    <3> QED
      BY <2>5, <3>2, <3>3, <3>4
  <2>9. Made'
    BY <1>2, <2>4, <2>8 DEF Respond, threadVars, Made
  <2> QED
    BY <2>1, <2>3, <2>7, <2>9
<1>3. CASE RequestFails \/ Recv \/ Data
  <2>1. RespTypeOK' /\ ThreadTypeOK'
    BY <1>3 DEF RequestFails, Recv, Data, respVars, platformVars, threadVars,
                RespTypeOK, ThreadTypeOK
  <2>2. SockTypeOK'
    BY <1>3 DEF RequestFails, Recv, Data, poolVars, sockVars, SockTypeOK
  <2>3. ReaderTypeOK' /\ Made'
    BY <1>3, Numbers
    DEF RequestFails, Recv, Data, respVars, threadVars, ReaderTypeOK, Made, RespTypeOK
  <2> QED
    BY <2>1, <2>2, <2>3
<1>4. CASE Collect
  <2>1. RespTypeOK' /\ SockTypeOK'
    BY <1>4 DEF Collect, CloseSocket, poolVars, RespTypeOK, SockTypeOK
  <2>2. ReaderTypeOK' /\ Made' /\ ThreadTypeOK'
    BY <1>4 DEF Collect, readerVars, platformVars, threadVars, ReaderTypeOK, Made,
                ThreadTypeOK
  <2> QED
    BY <2>1, <2>2
<1>5. CASE StreamEnds \/ StreamBreaks \/ StreamIsGone
  <2>1. /\ ThreadTypeOK' /\ rpc' = "app" /\ rresp' = None /\ closable' \subseteq closable
        /\ \A u \in Threads : pc'[u] \in CloserPcs => held'[u] # None
    BY <1>5, TypeLeave DEF StreamEnds, StreamBreaks, StreamIsGone, platformVars
  <2>2. RespTypeOK'
    BY <1>5, <2>1 DEF StreamEnds, StreamBreaks, StreamIsGone, RespTypeOK
  <2>3. ReaderTypeOK' /\ Made'
    <3>1. UNCHANGED <<rsock, nresp, rejected>>
      BY <1>5 DEF StreamEnds, StreamBreaks, StreamIsGone
    <3>2. 0 <= nresp
      BY Numbers
    <3>3. ReaderTypeOK'
      BY <2>1, <3>1 DEF ReaderTypeOK
    <3> QED
      BY <2>1, <3>1, <3>2, <3>3 DEF Made, None
  <2>4. SockTypeOK'
    BY <1>5
    DEF StreamEnds, StreamBreaks, StreamIsGone, poolVars, sockVars, SockTypeOK,
        RespTypeOK
  <2> QED
    BY <2>1, <2>2, <2>3, <2>4
<1> QED
  BY <1>1, <1>2, <1>3, <1>4, <1>5 DEF ReaderStep

LEMMA TypeThread ==
  ASSUME TypeInv, NEW t \in Threads,
         \/ CloserStep(t) \/ CallCloser(t) \/ CallCloseGiven(t) \/ CallClose(t)
         \/ CloseStep(t)
  PROVE  TypeInv'
<1> USE DEF TypeInv, TypeOK, CloserStep, CloseStep
<1>1. UNCHANGED <<platformVars, readerVars, nresp, src, home, rejected>>
  BY DEF Check, Wake, CloseFile, CloseConnection, ReleaseConn, Discard, CallCloser,
         CallCloseGiven, CallClose, Sweep, Clear, vars, respVars
<1>2. ReaderTypeOK'
  BY <1>1 DEF ReaderTypeOK, readerVars
<1>3. RespTypeOK'
  BY <1>1
  DEF Check, Wake, CloseFile, CloseConnection, ReleaseConn, Discard, CallCloser,
      CallCloseGiven, CallClose, Sweep, Clear, CloseSocket, TakeCloser, vars, respVars,
      RespTypeOK
<1>4. SockTypeOK'
  BY <1>1
  DEF Check, Wake, CloseFile, CloseConnection, ReleaseConn, Discard, CallCloser,
      CallCloseGiven, CallClose, Sweep, Clear, CloseSocket, vars, poolVars, sockVars,
      SockTypeOK, RespTypeOK, Made
<1>5. ThreadTypeOK' /\ Made'
  <2>1. CASE CallCloser(t)
    BY <1>1, <2>1, TypeTake
    DEF CallCloser, ThreadTypeOK, Made, platformVars, readerVars
  <2>2. CASE CloserStep(t)
    BY <1>1, <2>2
    DEF Check, Wake, CloseFile, CloseConnection, ReleaseConn, Discard, Done,
        ThreadTypeOK, Made, CloserPcs, platformVars, readerVars
  <2>3. CASE CallClose(t)
    <3>1. IdleIn(cur) \in SUBSET Socks
      BY DEF IdleIn
    <3> QED
      BY <1>1, <2>3, <3>1
      DEF CallClose, ThreadTypeOK, Made, CloserPcs, platformVars, readerVars
  <2>4. CASE CallCloseGiven(t)
    BY <2>4 DEF CallCloseGiven, vars, platformVars, readerVars, respVars, threadVars,
                ThreadTypeOK, Made
  <2>5. CASE CloseStep(t)
    BY <1>1, <2>5
    DEF Sweep, Clear, ThreadTypeOK, Made, CloserPcs, platformVars, readerVars
  <2> QED
    BY <2>1, <2>2, <2>3, <2>4, <2>5
<1> QED
  BY <1>2, <1>3, <1>4, <1>5

LEMMA TypeNext == TypeInv /\ [Next]_vars => TypeInv'
<1> SUFFICES ASSUME TypeInv, [Next]_vars PROVE TypeInv'
  OBVIOUS
<1>1. CASE UNCHANGED vars
  BY <1>1
  DEF TypeInv, TypeOK, SockTypeOK, RespTypeOK, ReaderTypeOK, ThreadTypeOK, Made, vars,
      platformVars, poolVars, sockVars, respVars, readerVars, threadVars
<1> QED
  BY <1>1, TypeReader, TypeThread DEF Next, Threads

(* Every value of every variable is one the code can hold; in particular   *)
(* the reader never reads a response that was rejected (http.py:105-134).  *)
THEOREM TypeCorrect == Spec => []TypeOK
<1>1. TypeInv => TypeOK
  BY DEF TypeInv
<1> QED
  BY <1>1, TypeInit, TypeNext, PTL DEF Spec

--------------------------------------------------------------------------------
(* A supplied pool.  close() of the HTTP client never begins, so no thread *)
(* is ever inside it.                                                      *)

GivenInv ==
  ~owns => cur = 1 /\ ended = {} /\ \A t \in Threads : pc[t] \notin {"sweep", "clear"}

LEMMA ReaderKeeps ==
  ASSUME ReaderStep
  PROVE  /\ UNCHANGED <<owns, ended>>
         /\ cur # None => cur' = cur
         /\ pc' = pc \/ pc' = [pc EXCEPT ![Reader] = "check"]
  BY DEF ReaderStep, BeginRequest, Respond, RequestFails, Collect, Recv, Data, StreamEnds,
         StreamBreaks, StreamIsGone, LeaveStream, TakeCloser, platformVars, poolVars,
         threadVars

LEMMA GivenNext == TypeInv /\ GivenInv /\ [Next]_vars => GivenInv'
<1> SUFFICES ASSUME TypeInv, GivenInv, [Next]_vars, ~owns' PROVE
             cur' = 1 /\ ended' = {} /\ \A t \in Threads : pc'[t] \notin {"sweep", "clear"}
  BY DEF GivenInv
<1> USE DEF GivenInv, None
<1>0. pc \in [Threads -> {"idle", "check", "wake", "file", "conn", "drop", "sweep",
                          "clear"}]
  BY DEF TypeInv, TypeOK, ThreadTypeOK
<1>1. CASE UNCHANGED vars
  BY <1>1 DEF vars, platformVars, poolVars, threadVars
<1>2. CASE ReaderStep
  BY <1>0, <1>2, ReaderKeeps
<1>3. ASSUME NEW t \in Threads, CloserStep(t)
      PROVE  cur' = 1 /\ ended' = {} /\ \A u \in Threads : pc'[u] \notin {"sweep", "clear"}
  BY <1>0, <1>3
  DEF CloserStep, Check, Wake, CloseFile, CloseConnection, ReleaseConn, Discard, Done,
      platformVars, poolVars
<1>4. ASSUME NEW t \in Controllers,
             CallCloser(t) \/ CallCloseGiven(t) \/ CallClose(t) \/ CloseStep(t)
      PROVE  cur' = 1 /\ ended' = {} /\ \A u \in Threads : pc'[u] \notin {"sweep", "clear"}
  BY <1>0, <1>4
  DEF CallCloser, CallCloseGiven, CallClose, CloseStep, Sweep, Clear, TakeCloser, Threads,
      vars, platformVars, poolVars, threadVars
<1> QED
  BY <1>1, <1>2, <1>3, <1>4 DEF Next

(* A pool the application supplied is neither closed nor cleared, whoever  *)
(* calls close() and whenever (http.py:61 and 137).                        *)
THEOREM SuppliedPoolSurvives == Spec => []GivenPoolStays
<1>1. Init => GivenInv
  BY DEF Init, GivenInv
<1>2. GivenInv => GivenPoolStays
  BY DEF GivenInv, GivenPoolStays
<1> QED
  BY <1>1, <1>2, TypeInit, TypeNext, GivenNext, PTL DEF Spec

--------------------------------------------------------------------------------
(* Connections and their pools.  Sockets are opened one after another, and *)
(* all responses of a socket are of the pool in which it is idle, if it is.*)

Opened ==
  /\ rsock <= nsock /\ \A r \in Resps : src[r] <= nsock
  /\ \A s \in Socks : sock[s] # "unused" \/ idle[s] # None => s <= nsock

HomeInv ==
  /\ cur \in {None, npools}
  /\ \A q, r \in Resps : src[q] = src[r] /\ src[q] # None => home[q] = home[r]
  /\ \A r \in Resps : src[r] # None => idle[src[r]] \in {None, home[r]}
  /\ rpc = "request" => /\ idle[rsock] \in {None, npools}
                        /\ \A r \in Resps : src[r] = rsock => home[r] = npools

(* What is read, or about to be, is not idle, where readers can be woken.  *)
WakeInv ==
  wakes => /\ rpc = "request" => idle[rsock] = None
           /\ rresp # None => src[rresp] \in Socks /\ idle[src[rresp]] = None

PoolInv == Opened /\ HomeInv /\ WakeInv

LEMMA PoolInit == Init => PoolInv
<1> SUFFICES ASSUME Init PROVE PoolInv
  OBVIOUS
<1>1. nsock \in Nat /\ cur \in {None, npools}
  BY DEF Init, None
<1>2. Opened
  BY <1>1 DEF Init, Opened, Socks, None
<1> QED
  BY <1>1, <1>2 DEF Init, PoolInv, HomeInv, WakeInv

LEMMA PoolRequest == TypeInv /\ PoolInv /\ BeginRequest => PoolInv'
<1> SUFFICES ASSUME TypeInv, PoolInv, BeginRequest PROVE PoolInv'
  OBVIOUS
<1> USE DEF PoolInv
<1>1. /\ nsock \in Nat /\ npools \in Nat /\ npools + 1 # None
      /\ nsock < MaxSocks => nsock + 1 \in Socks
      /\ None \notin Socks
  BY Numbers DEF None, Socks
<1>2. /\ sock \in [Socks -> {"unused", "open", "shut", "closed"}]
      /\ idle \in [Socks -> Pools \cup {None}] /\ src \in [Resps -> Socks \cup {None}]
      /\ Socks \subseteq Nat
  BY DEF TypeInv, TypeOK, SockTypeOK, RespTypeOK, Socks
<1>3. /\ UNCHANGED <<wakes, src, home, rresp>> /\ rpc' = "request" /\ rresp = None
      /\ cur' \in {None, npools'} /\ (cur # None => npools' = npools)
  BY DEF BeginRequest, platformVars, HomeInv
<1>4. CASE \E s \in IdleIn(cur) :
             /\ cur # None
             /\ idle' = [idle EXCEPT ![s] = None] /\ rsock' = s
             /\ UNCHANGED <<nsock, sock>>
  <2>1. PICK s \in IdleIn(cur) :
          /\ cur # None
          /\ idle' = [idle EXCEPT ![s] = None] /\ rsock' = s
          /\ UNCHANGED <<nsock, sock>>
    BY <1>4
  <2>2. s \in Socks /\ idle[s] = npools /\ npools # None
    BY <2>1 DEF IdleIn, HomeInv
  <2>3. Opened'
    BY <1>2, <1>3, <2>1, <2>2 DEF Opened
  <2>4. HomeInv' /\ WakeInv'
    BY <1>1, <1>2, <1>3, <2>1, <2>2 DEF HomeInv, WakeInv
  <2> QED
    BY <2>3, <2>4
<1>5. CASE /\ nsock < MaxSocks /\ nsock' = nsock + 1 /\ rsock' = nsock + 1
           /\ \/ idle' = idle /\ sock' = [sock EXCEPT ![nsock + 1] = "open"]
              \/ \E s \in Socks :
                   /\ idle' = [idle EXCEPT ![s] = None]
                   /\ sock' = [sock EXCEPT ![s] = "closed", ![nsock + 1] = "open"]
                   /\ idle[s] # None
  <2>1. nsock + 1 \in Socks /\ idle[nsock + 1] = None /\ \A r \in Resps : src[r] # nsock + 1
    BY <1>1, <1>2, <1>5 DEF Opened
  <2>2. Opened'
    <3>1. rsock' <= nsock' /\ nsock <= nsock'
      BY <1>1, <1>5
    <3>2. ASSUME NEW r \in Resps PROVE src'[r] <= nsock'
      <4>1. src[r] \in Nat
        <5>1. src[r] \in Socks \cup {None}
          BY <1>2
        <5> QED
          BY <5>1 DEF Socks, None
      <4>2. src'[r] = src[r] /\ src[r] <= nsock
        BY <1>3 DEF Opened
      <4> QED
        BY <1>1, <1>5, <4>1, <4>2
    <3>3. ASSUME NEW s \in Socks, sock'[s] # "unused" \/ idle'[s] # None PROVE s <= nsock'
      <4>1. s = nsock + 1 \/ sock[s] # "unused" \/ idle[s] # None
        BY <1>2, <1>5, <3>3
      <4> QED
        BY <1>1, <1>2, <1>5, <4>1 DEF Opened
    <3> QED
      BY <3>1, <3>2, <3>3 DEF Opened
  <2>3. HomeInv'
    <3>1. \A r \in Resps : src'[r] = src[r] /\ home'[r] = home[r] /\ src[r] # nsock + 1
      BY <1>3, <2>1
    <3>2. \A r \in Resps : src'[r] # None => idle'[src'[r]] \in {None, home'[r]}
      BY <1>2, <1>5, <3>1 DEF HomeInv
    <3>3. \A q, r \in Resps : src'[q] = src'[r] /\ src'[q] # None => home'[q] = home'[r]
      BY <3>1 DEF HomeInv
    <3>4. idle'[rsock'] \in {None, npools'} /\ \A r \in Resps : src'[r] # rsock'
      BY <1>1, <1>2, <1>5, <2>1, <3>1
    <3>5. cur' \in {None, npools'}
      BY <1>3
    <3> QED
      BY <3>2, <3>3, <3>4, <3>5 DEF HomeInv
  <2>4. WakeInv'
    BY <1>1, <1>2, <1>3, <1>5, <2>1 DEF WakeInv
  <2> QED
    BY <2>2, <2>3, <2>4
<1> QED
  BY <1>4, <1>5 DEF BeginRequest, IdleIn

LEMMA PoolRespond ==
  ASSUME TypeInv, PoolInv, NEW good \in BOOLEAN, Respond(good)
  PROVE  PoolInv'
<1> DEFINE r == nresp + 1
<1> USE DEF PoolInv
<1>1. r \in Resps /\ r # None /\ None \notin Socks
  BY Numbers DEF Respond, Socks, None
<1>2. /\ src' = [src EXCEPT ![r] = rsock] /\ home' = [home EXCEPT ![r] = npools]
      /\ UNCHANGED <<wakes, cur, npools, nsock, sock, idle>>
      /\ rpc = "request" /\ rpc' = "app" /\ rsock' = None /\ rresp' \in {None, r}
      /\ rsock \in Socks
  BY DEF Respond, MakeResult, platformVars, poolVars, sockVars, TypeInv, TypeOK,
         ReaderTypeOK, Made
<1>3. src \in [Resps -> Socks \cup {None}] /\ home \in [Resps -> Pools \cup {None}]
      /\ nsock \in Nat /\ 0 <= nsock
  BY Numbers DEF TypeInv, TypeOK, RespTypeOK
<1> HIDE DEF r
<1>4. Opened'
  <2>1. rsock' <= nsock'
    BY <1>2, <1>3 DEF None
  <2>2. ASSUME NEW q \in Resps PROVE src'[q] <= nsock'
    <3>1. src'[q] \in {src[q], rsock} /\ src[q] <= nsock /\ rsock <= nsock
      BY <1>1, <1>2, <1>3 DEF Opened
    <3> QED
      BY <1>2, <3>1
  <2>3. \A s \in Socks : sock'[s] # "unused" \/ idle'[s] # None => s <= nsock'
    BY <1>2 DEF Opened
  <2> QED
    BY <2>1, <2>2, <2>3 DEF Opened
<1>5. HomeInv'
  BY <1>1, <1>2, <1>3 DEF HomeInv
<1>6. WakeInv'
  BY <1>1, <1>2, <1>3 DEF WakeInv
<1> QED
  BY <1>4, <1>5, <1>6

(* Whoever gives a connection back gives it to the pool of its response,   *)
(* and a closer does so only where no reader can be woken.                 *)
GivesBack(r) ==
  /\ idle' = [idle EXCEPT ![src[r]] = home[r]] /\ home[r] \notin ended
  /\ wakes => rresp' = None /\ rpc' = "app"

(* What a step other than a request and its response does to them. *)
OtherStep ==
  /\ UNCHANGED <<wakes, owns, npools, nsock, src, home>>
  /\ cur' \in {None, cur} /\ rsock' \in {None, rsock} /\ rresp' \in {None, rresp}
  /\ rpc' = "request" => rpc = "request" /\ rsock' = rsock
  /\ \/ idle' = idle
     \/ \E s \in Socks : /\ idle' = [idle EXCEPT ![s] = None]
                        /\ sock' = [sock EXCEPT ![s] = "closed"]
     \/ \E r \in Resps : GivesBack(r)
  /\ \/ sock' = sock
     \/ \E s : s <= nsock /\ sock' = [sock EXCEPT ![s] = "closed"]
     \/ \E s : sock[s] = "open" /\ sock' = [sock EXCEPT ![s] = "shut"]

LEMMA OtherReader ==
  ASSUME TypeInv, Opened,
         RequestFails \/ Collect \/ Recv \/ Data \/ StreamEnds \/ StreamBreaks \/ StreamIsGone
  PROVE  OtherStep
<1>1. rejected \subseteq Resps /\ (rpc = "recv" => rresp \in Resps)
  BY DEF TypeInv, TypeOK, RespTypeOK, ReaderTypeOK, Made
<1>2. CASE RequestFails \/ Recv \/ Data
  BY <1>2 DEF RequestFails, Recv, Data, OtherStep, Opened, platformVars, poolVars,
              sockVars, respVars
<1>3. CASE Collect
  BY <1>1, <1>3 DEF Collect, CloseSocket, OtherStep, Opened, platformVars, poolVars,
                    readerVars
<1>4. CASE StreamEnds
  BY <1>1, <1>4
  DEF StreamEnds, LeaveStream, OtherStep, GivesBack, Opened, platformVars, poolVars
<1>5. CASE StreamBreaks \/ StreamIsGone
  BY <1>1, <1>5 DEF StreamBreaks, StreamIsGone, LeaveStream, OtherStep, Opened,
                    platformVars, poolVars, sockVars
<1> QED
  BY <1>2, <1>3, <1>4, <1>5

LEMMA OtherThread ==
  ASSUME TypeInv, Opened, NEW t \in Threads,
         \/ CloserStep(t) \/ CallCloser(t) \/ CallCloseGiven(t) \/ CallClose(t)
         \/ CloseStep(t)
  PROVE  OtherStep
<1>1. CASE CloserStep(t)
  <2>1. held[t] \in Resps
    BY <1>1 DEF CloserStep, Check, Wake, CloseFile, CloseConnection, ReleaseConn, Discard,
                TypeInv, TypeOK, ThreadTypeOK, Made, CloserPcs
  <2>2. CASE ReleaseConn(t)
    BY <2>1, <2>2 DEF ReleaseConn, OtherStep, GivesBack, platformVars, poolVars, readerVars
  <2>3. CASE Check(t) \/ Wake(t) \/ CloseFile(t)
    BY <2>3 DEF Check, Wake, CloseFile, OtherStep, platformVars, poolVars, sockVars,
                respVars, readerVars
  <2>4. CASE CloseConnection(t) \/ Discard(t)
    BY <2>1, <2>4 DEF CloseConnection, Discard, CloseSocket, OtherStep, Opened,
                      platformVars, poolVars, readerVars
  <2> QED
    BY <1>1, <2>2, <2>3, <2>4 DEF CloserStep
<1>2. CASE CallCloser(t) \/ CallCloseGiven(t) \/ CallClose(t) \/ Clear(t)
  BY <1>2 DEF CallCloser, CallCloseGiven, CallClose, Clear, OtherStep, vars, platformVars,
              poolVars, sockVars, respVars, readerVars
<1>3. CASE Sweep(t)
  <2>1. None \notin ended
    BY DEF TypeInv, TypeOK, SockTypeOK, Pools, None
  <2> QED
    BY <1>3, <2>1 DEF Sweep, CloseSocket, OtherStep, Opened, platformVars, poolVars,
                      readerVars
<1> QED
  BY <1>1, <1>2, <1>3 DEF CloseStep

LEMMA PoolOther == TypeInv /\ PoolInv /\ OtherStep => PoolInv'
<1> SUFFICES ASSUME TypeInv, PoolInv, OtherStep PROVE PoolInv'
  OBVIOUS
<1> USE DEF PoolInv, OtherStep
<1>1. /\ sock \in [Socks -> {"unused", "open", "shut", "closed"}]
      /\ idle \in [Socks -> Pools \cup {None}] /\ src \in [Resps -> Socks \cup {None}]
      /\ home \in [Resps -> Pools \cup {None}]
  BY DEF TypeInv, TypeOK, SockTypeOK, RespTypeOK
<1>2. nsock \in Nat /\ None \notin Socks /\ None <= nsock
  BY Numbers DEF Socks, None
<1>5. /\ rsock' <= nsock' /\ \A r \in Resps : src'[r] <= nsock'
      /\ \A s \in Socks : sock'[s] # "unused" => s <= nsock'
  <2>1. rsock' <= nsock' /\ \A r \in Resps : src'[r] <= nsock'
    BY <1>2 DEF Opened
  <2>2. ASSUME NEW s \in Socks, sock'[s] # "unused" PROVE sock[s] # "unused" \/ s <= nsock
    BY <1>1, <2>2
  <2> QED
    BY <2>1, <2>2 DEF Opened
<1>3. CASE \E r \in Resps : GivesBack(r)
  <2>1. PICK r \in Resps : GivesBack(r)
    BY <1>3
  <2>2. idle' = [idle EXCEPT ![src[r]] = home[r]] /\ (wakes => rresp' = None /\ rpc' = "app")
    BY <2>1 DEF GivesBack
  <2>3. \A s \in Socks : idle'[s] # None => s <= nsock
    BY <1>1, <2>2 DEF Opened
  <2>4. Opened'
    BY <1>5, <2>3 DEF Opened
  <2>5. HomeInv'
    BY <1>1, <1>2, <2>2 DEF HomeInv
  <2>6. WakeInv'
    BY <2>2 DEF WakeInv
  <2> QED
    BY <2>4, <2>5, <2>6
<1>4. CASE \A s \in Socks : idle'[s] \in {None, idle[s]}
  <2>1. Opened'
    BY <1>4, <1>5 DEF Opened
  <2>2. rpc' = "request" => rsock' \in Socks
    BY DEF TypeInv, TypeOK, ReaderTypeOK, Made
  <2>3. HomeInv'
    BY <1>1, <1>2, <1>4, <2>2 DEF HomeInv
  <2>5. WakeInv'
    BY <1>1, <1>2, <1>4, <2>2 DEF WakeInv
  <2> QED
    BY <2>1, <2>3, <2>5
<1> QED
  BY <1>1, <1>3, <1>4

LEMMA PoolNext == TypeInv /\ PoolInv /\ [Next]_vars => PoolInv'
<1> SUFFICES ASSUME TypeInv, PoolInv, [Next]_vars PROVE PoolInv'
  OBVIOUS
<1>1. CASE UNCHANGED vars
  BY <1>1 DEF vars, platformVars, poolVars, sockVars, respVars, readerVars, PoolInv, Opened,
              HomeInv, WakeInv
<1>2. CASE ReaderStep
  BY <1>2, PoolRequest, PoolRespond, OtherReader, PoolOther DEF ReaderStep, PoolInv
<1>3. CASE \E t \in Threads :
             \/ CloserStep(t) \/ CallCloser(t) \/ CallCloseGiven(t) \/ CallClose(t)
             \/ CloseStep(t)
  BY <1>3, OtherThread, PoolOther DEF PoolInv
<1> QED
  BY <1>1, <1>2, <1>3 DEF Next, Threads

(* Where a reader can be woken, the connection of a stream that is being   *)
(* read is not in the pool, although closers give connections back on      *)
(* other platforms (http.py:124-132).                                      *)
THEOREM ReadIsNotPooled == Spec => []NotPooledWhileRead
<1>1. PoolInv => NotPooledWhileRead
  BY DEF PoolInv, WakeInv, NotPooledWhileRead, Resps, None
<1> QED
  BY <1>1, TypeInit, TypeNext, PoolInit, PoolNext, PTL DEF Spec

--------------------------------------------------------------------------------
(* What close() closes.  An idle socket that a close() found is closed, or *)
(* still idle in a pool that was ended, which nobody takes it from and     *)
(* nobody gives it back to but the close().                                *)

SweepInv ==
  \A t \in Controllers : \A s \in wasIdle[t] :
    sock[s] = "closed" \/ (idle[s] \in ended /\ pc[t] = "sweep")

LEMMA StaysClosed ==
  ASSUME TypeInv, PoolInv, OtherStep, NEW s \in Socks
  PROVE  /\ sock[s] = "closed" => sock'[s] = "closed"
         /\ idle[s] \in ended => idle'[s] = idle[s] \/ sock'[s] = "closed"
<1>1. /\ sock \in [Socks -> {"unused", "open", "shut", "closed"}]
      /\ idle \in [Socks -> Pools \cup {None}] /\ None \notin ended /\ s # None
  BY DEF TypeInv, TypeOK, SockTypeOK, Pools, Socks, None
<1>2. sock[s] = "closed" => sock'[s] = "closed"
  BY <1>1 DEF OtherStep
<1>3. ASSUME idle[s] \in ended, NEW r \in Resps, GivesBack(r)
      PROVE  idle'[s] = idle[s]
  BY <1>1, <1>3 DEF GivesBack, PoolInv, HomeInv
<1>4. idle[s] \in ended => idle'[s] = idle[s] \/ sock'[s] = "closed"
  BY <1>1, <1>3 DEF OtherStep
<1> QED
  BY <1>2, <1>4

LEMMA SweepReader == TypeInv /\ PoolInv /\ SweepInv /\ ReaderStep => SweepInv'
<1> SUFFICES ASSUME TypeInv, PoolInv, SweepInv, ReaderStep,
                    NEW t \in Controllers, NEW s \in wasIdle'[t]
             PROVE  sock'[s] = "closed" \/ (idle'[s] \in ended' /\ pc'[t] = "sweep")
  BY DEF SweepInv
<1>1. /\ wasIdle' = wasIdle /\ ended' = ended
      /\ pc' = pc \/ pc' = [pc EXCEPT ![Reader] = "check"]
  BY DEF ReaderStep, BeginRequest, Respond, RequestFails, Collect, Recv, Data, StreamEnds,
         StreamBreaks, StreamIsGone, LeaveStream, TakeCloser, poolVars, threadVars
<1>2. /\ t \in Threads /\ t # Reader /\ s \in Socks
      /\ pc \in [Threads -> {"idle", "check", "wake", "file", "conn", "drop", "sweep",
                             "clear"}]
  BY <1>1, ReaderIsNoController
  DEF Threads, ReaderIsNoController, TypeInv, TypeOK, ThreadTypeOK
<1>3. sock[s] = "closed" \/ (idle[s] \in ended /\ pc'[t] = "sweep")
  BY <1>1, <1>2 DEF SweepInv
<1>4. CASE BeginRequest
  <2>1. s # nsock + 1 \/ (sock[s] = "unused" /\ idle[s] = None)
    BY Numbers, <1>2 DEF PoolInv, Opened
  <2>2. None \notin ended
    BY DEF TypeInv, TypeOK, SockTypeOK, Pools, None
  <2>3. /\ sock \in [Socks -> {"unused", "open", "shut", "closed"}]
        /\ idle \in [Socks -> Pools \cup {None}]
    BY DEF TypeInv, TypeOK, SockTypeOK
  <2> QED
    BY <1>1, <1>2, <1>3, <1>4, <2>1, <2>2, <2>3 DEF BeginRequest, IdleIn
<1>5. CASE \E good \in BOOLEAN : Respond(good)
  BY <1>1, <1>3, <1>5 DEF Respond, sockVars
<1>6. CASE OtherStep
  BY <1>1, <1>2, <1>3, <1>6, StaysClosed
<1> QED
  BY <1>4, <1>5, <1>6, OtherReader DEF ReaderStep, PoolInv

LEMMA SweepThread ==
  ASSUME TypeInv, PoolInv, SweepInv, NEW u \in Threads,
         \/ CloserStep(u) \/ CallCloser(u) \/ CallCloseGiven(u) \/ CallClose(u)
         \/ CloseStep(u)
  PROVE  SweepInv'
<1> SUFFICES ASSUME NEW t \in Controllers, NEW s \in wasIdle'[t]
             PROVE  sock'[s] = "closed" \/ (idle'[s] \in ended' /\ pc'[t] = "sweep")
  BY DEF SweepInv
<1>1. /\ t \in Threads /\ wasIdle \in [Threads -> SUBSET Socks]
      /\ pc \in [Threads -> {"idle", "check", "wake", "file", "conn", "drop", "sweep",
                             "clear"}]
  BY DEF Threads, TypeInv, TypeOK, ThreadTypeOK
<1>2. ASSUME s \in Socks, s \in wasIdle[t],
             ended' = ended, pc'[t] = pc[t] \/ pc[t] # "sweep"
      PROVE  sock'[s] = "closed" \/ (idle'[s] \in ended' /\ pc'[t] = "sweep")
  BY <1>2, OtherThread, StaysClosed DEF SweepInv, PoolInv
<1>3. CASE CloserStep(u) \/ CallCloser(u) \/ CallCloseGiven(u)
  <2>1. wasIdle' = wasIdle /\ ended' = ended /\ (pc'[t] = pc[t] \/ pc[t] # "sweep")
    BY <1>1, <1>3
    DEF CloserStep, Check, Wake, CloseFile, CloseConnection, ReleaseConn, Discard, Done,
        CallCloser, CallCloseGiven, TakeCloser, vars, poolVars, threadVars
  <2> QED
    BY <1>1, <1>2, <2>1
<1>4. CASE CallClose(u)
  <2>1. CASE t = u /\ cur \notin {None} \cup ended
    BY <1>1, <1>4, <2>1 DEF CallClose, IdleIn, sockVars
  <2>2. CASE t = u /\ cur \in {None} \cup ended
    BY <1>1, <1>4, <2>2 DEF CallClose
  <2>3. CASE t # u
    BY <1>1, <1>4, <2>3 DEF CallClose, SweepInv, sockVars
  <2> QED
    BY <2>1, <2>2, <2>3
<1>5. CASE Sweep(u)
  <2>1. wasIdle' = wasIdle /\ ended' = ended
    BY <1>5 DEF Sweep, poolVars
  <2>2. CASE pc' = pc
    BY <1>1, <1>2, <2>1, <2>2
  <2>3. CASE {x \in Socks : idle[x] \in ended} = {} /\ sock' = sock
    BY <1>1, <2>1, <2>3 DEF SweepInv
  <2> QED
    BY <1>5, <2>2, <2>3 DEF Sweep
<1>6. CASE Clear(u)
  BY <1>1, <1>6 DEF Clear, SweepInv, sockVars
<1> QED
  BY <1>3, <1>4, <1>5, <1>6 DEF CloseStep

LEMMA SweepNext == TypeInv /\ PoolInv /\ SweepInv /\ [Next]_vars => SweepInv'
<1>1. SweepInv /\ UNCHANGED vars => SweepInv'
  BY DEF SweepInv, vars, poolVars, sockVars, threadVars
<1> QED
  BY <1>1, SweepReader, SweepThread DEF Next, Threads

(* When close() of the HTTP client returns, the connections it found idle  *)
(* in its own pool are closed, also if requests begin, streams end and     *)
(* other threads close meanwhile (http.py:136-148).                        *)
THEOREM CloseClosesIdle == Spec => IdleAreClosed
<1>1. Init => SweepInv
  BY DEF Init, SweepInv, Threads
<1>2. SweepInv /\ [Next]_vars =>
        [\A t \in Controllers :
           pc[t] = "clear" /\ pc'[t] = "idle" =>
             \A s \in wasIdle[t] : sock[s] = "closed"]_vars
  BY DEF SweepInv
<1> QED
  BY <1>1, <1>2, TypeInit, TypeNext, PoolInit, PoolNext, SweepNext, PTL
  DEF Spec, IdleAreClosed
================================================================================
