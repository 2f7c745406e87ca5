# A TLA+ model of launchdarkly-eventsource

This directory specifies, model-checks and partly proves the behaviour of the
Python SSE client in `src/ld_eventsource`. Line numbers without a file name are
those of `src/ld_eventsource/sse_client.py`; `async_client.py`, `http.py` and
`async_http.py` are in the same directory.

## 1. The system

| Component | State it keeps | Operations | Interacts with |
|---|---|---|---|
| `SSEClient` (`sse_client.py`) | current connection, `closed` and `interrupted` flags, last event id, next retry delay, current retry and error strategies, baseline of the reset, time of the last failed connect | `start`, `close`, `interrupt`, the generators behind `all` and `events` | calls the connection client, both strategies and the readers; shared by the reading thread and any thread that interrupts or closes |
| `ErrorStrategy` | immutable: number of retries, or start time | `apply` | asked after every failed connect and every end of stream |
| `RetryDelayStrategy` | immutable: last base delay, random state | `apply` | asked by `_compute_next_retry_delay` |
| `ConnectStrategy`, `ConnectionClient`, `ConnectionResult` | the closer of one connection | `connect`, `close` | between the client and HTTP |
| HTTP client (`http.py`) | the pool manager and whether it owns it; responses, sockets and pools are urllib3's | `connect`, the closer, `close` | urllib3; the closer runs in a controller while the reader may be blocked in the response |
| `_BufferedLineReader`, `_SSEReader` (`reader.py`) | partial line, "last was CR", fields of the event being read, last event id | generators over chunks and lines | driven by the session of the client's generator |
| `AsyncSSEClient` (`async_client.py`) | as the threaded client | `start`, `close`, `interrupt`, the async generators behind `all` and `events` | other tasks run at every await, and any task may be cancelled there |
| Async HTTP client, `AsyncConnectionResult` | the HTTP session, own or supplied; the closer of one connection | `connect`, the closer, `close` | aiohttp; several tasks may await the same closer |
| Async readers (`async_reader.py`) | as the readers | async generators | suspended where a chunk is awaited |
| actions, errors | none | value types | |
| contract tests, test helpers | - | test harness | |

### What is hard about it

* The reading thread and the controllers share the connection, two flags and the
  delay without a lock.
* The generator is suspended most of the time, at one of four kinds of `yield`,
  and what `interrupt()`, `close()` and `start()` mean depends on which.
* Items are buffered: what was received, what was yielded and what the next
  connection asks for are three positions in the feed.
* The delay is the result of two strategies, a threshold, and three different
  times, written in different places.
* A reader blocked in a stream has to be woken by whoever closes it, and on some
  platforms cannot be.
* `interrupt()` of the async client awaits the closer before it forgets "the" current
  connection, so does the end of a session; tasks are cancelled in between, and a
  dropped iterator is finalized by the loop some time later.
* A connection goes back to a pool that another thread may be closing.

### What makes each component correct

* Client, threads: every connection has exactly one thread responsible for
  closing it; a call of `interrupt()` ends the connection that was current when
  it was made and no session it was not meant for.
* Client, feed: nothing skipped, nothing up to the last id repeated, the id sent
  is that of the last item given to the application.
* Client, reporting: a Fault means the connection is down; no Start without the
  end of the stream before it having been reported.
* Delays: exponential with a cap, reset only by a connection that lasted, time
  between attempts never less than the delay; giving up exactly at the limit.
* Readers: the lines and events do not depend on where the chunks end.
* HTTP: a close never deadlocks on a reader, and the reader comes back; what is being
  read is not in the pool; what was idle is closed; a pool or session that was given is
  not closed, and one that was made is not forgotten.
* Async client: as the threaded client, whatever is cancelled at whichever await.

`PROJECT.json` lists every hazard at its line, with the properties that cover it.

## 2. The modules

| Module | Models |
|---|---|
| `SSEClient` | the threaded client: one reader, any set of controllers |
| `ResumableStream` | what it promises the application: a gap-free feed |
| `SSEClient_proofs` | theorems about `SSEClient` |
| `RetryDelayStrategy`, `ErrorStrategy` | the strategies, as operators on their immutable state |
| `RetryTiming` | delays, reset, and error strategies on a clock |
| `MCSSEClient`, `MCRetryTiming`, `MCReaderPipeline` | instances for TLC |
| `LineReader`, `EventReader` | chunks to lines, lines to events, as operators on the locals of the generators |
| `ReaderPipeline` | the generators over chunks and sessions, next to a reference definition |
| `AsyncSSEClient` | the asyncio client at the granularity of its awaits, with its connection results and the HTTP session |
| `HttpClient` | the urllib3 client: requests, the closer against a blocked reader, the pool and its `close()` |
| `AsyncSSEClient_proofs`, `HttpClient_proofs`, `RetryTiming_proofs` | theorems about those modules |
| `LineReader_proofs`, `EventReader_proofs` | lemmas about one chunk and one line |
| `ReaderPipeline_proofs` | the theorems about the readers that rest on them |
| `NaturalRecursion` | induction over the natural numbers, and what it gives about recursive functions |
| `MCAsyncSSEClient`, `MCHttpClient` | instances for TLC |

They fit together like this. `SSEClient` and `AsyncSSEClient` implement the same
`ResumableStream`. `RetryTiming` extends the two strategies, `ReaderPipeline` the two
readers. `SSEClient` sees delays, readers and HTTP as choices of its environment; what it
assumes of them is shown by the others: that a closed stream lets its reader go is
`ReaderWakes` of `HttpClient`, that items come whole and in order is `SameItems`, that ids
are those of yielded items is `LastIdIsOfYielded`. In return `HttpClient` has each closer
run once and a connect only when there is no current connection, which is `OneOwner` and
`NoConnectionLost` of `SSEClient`.

### SSEClient

The granularity is that of CPython with its global interpreter lock: since 3.10,
which is the oldest version `pyproject.toml` allows, the interpreter hands over to
another thread only at calls, loop back edges and blocking operations. One action
is the code between two such points. So `interrupt()` is `CallInterrupt`, then
`Check` (test and flag, lines 165-166), then `Take` (the swap of lines 172-173,
which holds no call), then `Shut` (the closer). `_try_start` is `ConnectOk` (the
store of line 303) and, after the call of `time.time()`, `ReportStart` (lines
320-322, no call until the headers are read off the connection that was loaded).
On a free-threaded build the swap would not be atomic; that build is not modelled.

| State | Code |
|---|---|
| `conn`, `closed`, `interrupted`, `lastId` | the attributes of the same names, 0 for `None` |
| `open`, `live` | connections whose closer has not run; those that may still bring items |
| `pos[c]` | last item read off connection `c` |
| `rpc`, `at` | where the reading thread is; at which `yield` its generator is suspended (`at = "running"` is also `can_return_fault`) |
| `gconn`, `gpos`, `rid`, `err` | the generator's locals: its stream, what it has yielded of it, `reader.last_event_id`, `error` |
| `held[t]` | the local `result` of `_close_current_connection` in thread `t` |
| `pc`, `op` | where a controller is, in which call |
| `seen`, `mark`, `signal`, `cut`, `since`, `closeReturned` | history |

A call of `interrupt()` by the reading thread between two items is the special
case in which the controller's steps all fall while `rpc = "app"`. The error
strategy answers anything in `Verdicts`, which covers every strategy. The server is
the environment: it accepts connections and sends items at will, may end or break a
stream at any point, and honours `Last-Event-ID`. A stream that was closed under
its reader may look like an end or like an error.

`MayAbandon` and `MayRestart` are habits of the application: dropping an iterator
between two items (`next(client.events)` makes and drops one each time), and calling
`start()` while an iterator is at an item.

Operators named `Wrong...` are mistakes one could make in the operator after them,
used to try the properties; the specifications use none of them.

Not modelled here: closers and strategies that raise, two iterators read in turn, and
the parsing of items (a chunk completes whole items).

### RetryTiming

One thread and a clock in whole ticks that starts at 1 and does not go back. The
client is down, sleeping, connecting, up, or cut (interrupted, and its generator has
yet to notice). `ComputeNextRetryDelay` is `_compute_next_retry_delay`, with the
choice of the jitter; `AskErrorStrategy` is the call of `apply` after it. A strategy
object is immutable, so `lastBase` and a record of kind, limit and counter or start
time stand for it.

### LineReader, EventReader, ReaderPipeline

A generator's locals are a record, and one pass of its loop an operator on it:
`ReadChunk` (a chunk, `reader.py:21-49`), `TakeLine` and `Yielded` (a line, 73-116).
`ReaderPipeline` runs them the way the client does: `ReceiveChunk` when the line reader
asks for more, then line by line: a line may make an item, at which the generators are
suspended until the application asks again (`ReadLine`), a line that is not UTF-8 ends
them (`RaiseDecodeError`), and after the last line the next chunk is asked for
(`AskForChunk`). `NewSession` drops all of it except the last event id, when the
stream ends or breaks, or when the client is interrupted at an item. The async readers
are the same code over async iterators (a comparison of the two files shows nothing
else), and their awaits are where these generators are suspended anyway.

Text is made of tokens: the terminators, the colon, the space, NUL, the two bytes of
one encoded character, and words such as `data`; `Byte` is the set of them, and
`TextIsOfBytes` says which it has at least. The reference takes single bytes and
defines an event by its block of lines: it keeps the values of their fields, and when
the block ends makes an event of all its data and the last of its types and ids.
It shares `Decodable` with the code, and what an event or a comment is.

The client's own reaction to a decode error, a Fault and a new connection, is that of
`SSEClient` to a broken stream, except that there a stream breaks only when its
buffer is empty. Not modelled: `set_retry`, which the client never gives the reader.

### AsyncSSEClient

One action is the code from one await that suspends to the next; between them nothing
else runs. One task iterates `client.all` and calls `start()`, any number of others call
`interrupt()` and `close()`, and the event loop finalizes dropped iterators. Items, ids,
the server and the habits of the application are as in `SSEClient`.

| State | Code |
|---|---|
| `conn`, `closed`, `interrupted`, `lastId` | the attributes of the same names |
| `given`, `session` | `__external_session`, `__session` of `_AsyncHttpClientImpl` |
| `nsess`, `openSess`; `nconn`, `via`, `open`, `live`, `pos` | the HTTP sessions and connections that exist, and the session a connection came from |
| `closable` | connections whose `AsyncConnectionResult` still has its closer: it is forgotten only after the await (check, await, clear), so that two tasks may be in it |
| `rpc`, `at`, `why`; `csess`, `ask` | where the reading task is suspended and its iterator is, what ended the session being closed; the request under way |
| `gconn`, `gpos`, `rid`; `fin`, `fconn`, `frid` | the locals of the generator, and of one that was dropped |
| `pc`, `op`, `held` | where a controller is suspended, in which call, on which closer |
| `before`, `seen`, `mark`, `dropped`, `left`, `overlap` | history |

`CancelRead`, `CancelElsewhere` and `CancelController` cancel a task at any await:
`CancelRead` runs the `finally` block with its own await, and a task cancelled in that
await is `CancelElsewhere` with `rpc = "closing"`. `Aclose` and `Drop` end an iterator at
an item; the loop runs the `finally` block of a dropped one in `FinalizeStart` and
`FinalizeEnd`. `CallInterrupt` and `CallClose` run up to the closer's await,
`EndInterrupt` goes on after it, for `close()` into the session's `close()`, whose await
ends in `EndPool`.

External: aiohttp's `release()` takes effect at once and suspends for one turn of the
loop, a new connection takes more. So with `SlowClosers = FALSE` no connection completes
while a closer is awaited (`LoopQuiet`). A closer written by a user may be slower
(`SlowClosers = TRUE`). Closing an aiohttp session closes its connections, and a request
in a closed session fails. An expired delay, which in the code suspends nothing, may
suspend in the model; that adds behaviours only.

Not modelled: two tasks that iterate, a `start()` while another task iterates, closers
that raise, and the delays, which are those of `RetryTiming`.

### HttpClient

One reader connects and reads, controllers run closers and `close()`. A step is the code
between two points where another thread may come in: `Check` is lines 124-125, `Wake`
the `shutdown()`, `CloseFile` and `CloseConnection` are `resp.close()`, `ReleaseConn` is
line 132; `CallClose`, `Sweep` and `Clear` are lines 137-148.

| State | Code |
|---|---|
| `wakes`, `owns` | the test of line 124 as far as the platform decides it; `__should_close_pool`; both chosen in `Init` |
| `cur`, `npools`, `ended` | the pool in the manager, pools made, pools closed |
| `nsock`, `sock`, `idle` | sockets, and the pool a socket is idle in |
| `nresp`, `src`, `home`, `owned`, `fp` | responses, their socket and pool, those that still have `resp.connection`, those whose file is open |
| `rejected`, `closable` | responses answered with an exception; the response of the client's current connection |
| `rpc`, `rresp`, `rsock` | the reader: in the application, in a request, or blocked in a read |
| `pc`, `held`, `wasIdle` | where a thread is in a closer or in `close()`; history |

urllib3 and `http.client` are external, modelled from their use and the comments of
`http.py`: a blocked reader holds the lock of its response's buffer, closing the
response's file waits for it, and closing a connection closes the file of its unfinished
response. That is why an action like `CloseSocket` has `~Blocked` as a guard: a thread at
it waits. There is one host, so one connection pool in the manager, and the responses
keep their connection alive.

Not modelled: redirects (followed inside urllib3), URLs, query parameters and headers,
several readers.

## 3. What TLC checks

| Run | Shows | Bounds |
|---|---|---|
| `client_threads` | ownership, ids, flag and calls with every habit | 2 controllers (symmetric), 3 connections, 2 items of which one has an id |
| `client_resume` | no gaps, no repeats, refinement of `ResumableStream`, liveness | 1 controller, 2 connections, 4 items of which two have ids |
| `retry_delays` | backoff, reset, spacing, giving up | 12 ticks, 5 attempts, base 2, cap 5, jitter 1/2, threshold 3, one strategy of each kind |
| `reader_chunks` | the items do not depend on the chunks, and the last id is that of the last item | chunks of up to 5 tokens, 9 kinds of line with 3 terminators, blocks of up to 3 lines, any number of blocks and sessions |
| `async_tasks` | connections, sessions, ids and refinement of `ResumableStream` with cancellation at every await | 2 controllers, 2 connections, 2 items of which one has an id, 2 HTTP sessions, dropped iterators, session supplied or not |
| `http_stop` | readers wake, stops return, pools and connections | 2 controllers, 3 sockets, 2 responses, 2 pools; every combination of platform and own or supplied pool |
| `close_not_permanent` | violation: connects after `close()` | 1 controller |
| `start_without_fault` | violation: a second Start without a Fault | 1 controller |
| `start_on_none` | violation: `None.headers` in `_try_start` | 1 controller |
| `drop_without_delay` | violation: no delay after an old failed connect | as `retry_delays`, no jitter |
| `interrupt_backs_off_twice` | violation: two steps of backoff for one interrupt | as `retry_delays`, no jitter |
| `stop_hangs_on_reader` | violation: `close()` waits for a blocked reader where it cannot be woken | 1 controller, 2 sockets, 2 responses, 2 pools |

Why the bounds are enough. Two controllers and the reader are three threads that may
close at once, so each pair of them races and a third interferes; three connections
let a late interrupt hit the connection after the one it saw, and leave one to
recover with. Four items in chunks of any size, ids on the first and third, give
items received but not yielded, items yielded after the last id, and items before it.
Five attempts take the backoff from the base to the cap and past a limit of two
retries; twelve ticks hold the threshold, the time limit and two full delays.
`MaxConns` and `MaxTries` stop the model where a real client goes on, which is why
`retry_delays` does not check deadlock: the clock runs out. The client runs do, and a
controller can always act.

`reader_chunks` bounds how far the server is ahead of the reader and how long a block
is, and nothing else: a chunk of 5 tokens holds the end of one line, all of the next
and the start of a third, every cut of CR LF and of a character occurs, and a block of
three lines has an id, a type and data in any order, or data on several lines.

`async_tasks` has three tasks and the finalizer of an iterator, so that two closers of one
connection overlap with the end of its session or with a cancellation; the second
connection is the one that may be forgotten. A larger instance with one controller, three
connections and three items passed as well. In `http_stop` a second response finds the
connection of the first in the pool, a third socket replaces one that was dropped or is
in use, and a second pool is made by a reconnection after `close()`.

Fairness (`FairSpec` of `SSEClient`). A thread inside a call of the library is scheduled; the
application keeps asking for items; a read on a stream that is over or was closed
returns (the closer of `http.py:118-132` exists to guarantee that on POSIX; where it
cannot, the reader may stay blocked, and `ClosedSessionEnds` is not claimed). Nobody
is obliged to connect, interrupt or close, and no server to send.

`FairSpec` of `AsyncSSEClient`: the event loop runs what is ready (the finalizer, and a
controller whose closer has returned), the application keeps asking for items, and a read
on a released stream fails, which is what `async_http.py:118-119` relies on. `FairSpec` of
`HttpClient`: threads are scheduled, and a read on a socket that was shut down or closed
returns. Nothing is assumed of a server there, so a reader may stay blocked for ever on
an open socket. `ReaderWakes` then shows what `SSEClient` assumes, wherever
`HTTPResponse.shutdown()` exists outside Windows.

Properties that deserve a remark:

* `CallTakesEffect` is as much as `interrupt()` can promise: the connection current
  when it was called is not current when it returns. It may also take a newer one,
  made while it was on its way from line 165 to line 172.
* `StartsAlternate` is what remains of the documented "Fault followed by a Start":
  it holds unless another thread dropped the connection.
* `NothingSkipped` and the refinement hold for iterators that are read to their
  end. Dropping an iterator loses what it had buffered.
* `SameItems` also says when: an item is available with the chunk that ends its last
  line, also if that ends in a CR whose LF has not arrived.
* `NoConnectionLost` and `CloseClosesActive` of the async client rest on closers being
  quicker than connections. With `SlowClosers` TLC finds that line 116 or 160 forgets a
  connection made during the await; nothing that uses `async_http.py` can do that.
* `LastIdIsLastSeen` and `ImplementsResumable` of the async client speak until the first
  iterator is dropped: the `finally` block of a dropped iterator writes its own last id
  back when the loop gets to it, which may be after a successor has read on, and closes
  the connection that the successor reads. With `Aclose` instead nothing of that happens.
* `SessionNotForgotten` excludes two `close()` calls that are both closing the session:
  line 126 then forgets a session made by a reconnection in between.
* `StopReturns` is claimed where readers can be woken, or where the pool is not the
  client's; the remaining case is `stop_hangs_on_reader`.
* `IdleAreClosed` speaks of connections idle when `close()` begins. One that is returned
  later is closed by the pool, which is closed by then.
* `GivesUpAtLimit` counts retries and time on its own, from the last connection, and
  compares with what the strategy objects answer.

### Disagreements with the documentation

The six violation runs, quoted in full in `PROJECT.json`: `close()` is not
permanent; an interrupt before the first item is not followed by a Fault; one just
after the connect raises `AttributeError`; `__disconnected_time` is never cleared, so
after one failed connect dropped streams are retried without delay; an interrupt backs
off twice; on Windows, or with an urllib3 without `shutdown()`, a stop with the client's
own pool waits for the blocked reader, because the connection that `release_conn()` put
back (`http.py:132`) is closed with the pool (145). That last one needs a response that
keeps the connection alive; the test server answers in HTTP/1.0, where it does not show.
Others, for which no run was needed: `max_delay` "default is 30 seconds"
(`retry_delay_strategy.py:57`) is no cap (line 63); the class doc says that the default
retries and honours `retry:` lines (23-38), but the default error strategy always fails
(108) and the reader is given no `set_retry` (217); the threshold is documented as
the time a connection stays open (88-89), but line 281 also resets the delays while the
client is down, as `test_sse_client_retry.py:141-147` expects.

Observed while modelling, and contradicting no document:

* `interrupt()` and then `start()` while an async iterator is at an item: the session that
  was cut ends only after the new connection was made, and line 160 of `async_client.py`
  forgets that one. With a supplied HTTP session it stays open after `close()`
  (`MayRestart`; the threaded client closes it instead).
* After `close()` a reader that sleeps before a retry connects again, for the async client
  in a new HTTP session that nobody closes.
* Between lines 125 and 127 of `http.py` the stream may end and its connection carry the
  next one, which is then shut down; the client recovers by connecting again.
* A rejected response (`http.py:108-114`) keeps its connection until the exception is
  dropped; `async_http.py:105` and 110 release it.

## 4. What is proved

Everything here is checked by TLAPS for every value of the constants, from the named
assumptions of the modules and what the third column adds.

| Theorem | States | Assumes |
|---|---|---|
| `SSEClient_proofs` | | |
| `TypeCorrect` | `TypeOK` | - |
| `ConnectionsAreOwned` | `NoConnectionLost` | - |
| `ConnectionsHaveOneOwner` | `OneOwner` | - |
| `FlagIsNeverStale` | `NoStaleInterrupt` | - |
| `LastIdIsCurrent` | `LastIdIsLastSeen` | - |
| `NoGaps` | `NothingSkipped` | `~MayAbandon` |
| `NoRepeats` | `NothingRepeated` | `~MayAbandon`, `~MayRestart` |
| `ClientResumes` | `ImplementsResumable` | `~MayAbandon`, `~MayRestart` |
| `CallsTakeEffect` | `CallTakesEffect` | - |
| `FaultsMeanInactive` | `FaultMeansInactive` | - |
| `StartsHaveEnds` | `StartsAlternate` | - |
| `AsyncSSEClient_proofs` | | |
| `TypeCorrect` | `TypeOK` | - |
| `GivenSessionSurvives` | `GivenSessionStaysOpen` | - |
| `SessionIsRemembered` | `SessionNotForgotten` | - |
| `FlagMeansReleased` | `FlagIsCurrent` | - |
| `LastIdIsCurrent` | `LastIdIsLastSeen` | - |
| `ConnectionsAreOwned` | `NoConnectionLost` | `~MayRestart`, `~SlowClosers` |
| `CloseReleases` | `CloseClosesActive` | `~MayRestart`, `~SlowClosers` |
| `ClientResumes` | `ImplementsResumable` | `~MayRestart` |
| `HttpClient_proofs` | | |
| `TypeCorrect` | `TypeOK` | - |
| `SuppliedPoolSurvives` | `GivenPoolStays` | - |
| `ReadIsNotPooled` | `NotPooledWhileRead` | - |
| `CloseClosesIdle` | `IdleAreClosed` | - |
| `RetryTiming_proofs` | | |
| `RetriesAreSpaced` | `FailedConnectsAreSpaced` | - |
| `NoResetTooEarly` | `NoEarlyReset` | - |
| `LongConnectionResets` | `LongConnectionResetsDelay` | - |
| `StrategyIsObeyed` | `GivesUpAtLimit` | - |
| `DelaysBackOff` | `BackoffIsExponential` | - |
| `TypeCorrect` | `TypeOK` | - |
| `ReaderPipeline_proofs` | | |
| `TypeCorrect` | `TypeOK` | - |
| `ItemsAreSame` | `SameItems` | - |
| `LastIdCorrect` | `LastIdIsOfYielded` | - |

`SSEClient_proofs`, one invariant on top of the other:

* `TypeInv` adds to `TypeOK` the `Phase` of the generator: it has a session exactly
  while its code reads or closes one or it is suspended at an item. Without it the
  next item need not be an item.
* `OwnInv` adds to the two ownership properties what makes them inductive: a
  connection is held only between the two steps of `_close_current_connection`, what
  is current or held is open and was made, and nothing is current while `_try_start`
  is connecting, so that the store of line 303 overwrites nothing.
* `IdInv`: the event reader's id is the client's as long as the session lasts, so the
  `finally` block restores nothing old, although other connections may come and go
  during it.
* `ResumeInv`: everything up to the session's position and up to the last id has been
  seen; so has everything up to the position of a current connection that no session
  reads; an error is reported only when the buffer is empty; and when the session is
  over its connection is gone. This holds even if `start()` is called in the middle of
  an iterator.
* `OrderInv`: without that habit, the session reads the current connection, if there
  is one, and from no earlier than the last id.
* `ClientResumes` maps `OpenSession`, `Deliver` and `EndSession` to the three actions of
  `ResumableStream`, and every other step, of the reader or of a controller, to a
  stutter.
* `CallInv`: a thread that has done the swap of its call meets only connections newer than
  the call, and a session that has done its own meets none, since its reader does not
  connect meanwhile.
* `SignalInv`: what the application last heard of the stream is true or about to be
  corrected by the end of the session, unless a controller has dropped the connection.

`AsyncSSEClient_proofs`:

* `TypeInv`: as above, and a finalizer has a connection.
* `SessionInv` adds that at most one task is in the session's `close()` and that all
  sessions are closed while it is: then a request in between finds the closed session
  and makes no new one.
* `IdInv`: the reader's id of a session is the client's, and only a dropped iterator has
  a finalizer.
* `OwnInv`: whoever awaits a closer (session, finalizer, controller) has released its
  connection and will forget that one or nothing, since nothing else has become current;
  nobody connects while there is a current connection. Both assumptions are needed
  here: without either a connection is made during such an await.
* `CloseInv`: what a `close()` found open and has not left open is closed, since new
  connections have higher numbers.
* `ReadInv`, for the refinement: what `ResumeInv` and `OrderInv` say above, until an
  iterator is dropped. It does not need quick closers. A session on a stream that was
  released before it began reads nothing, and maps to no reading at all.

`HttpClient_proofs`:

* `Made`: responses are made one after another, a thread in a closer has a response, and
  the one that is read was not rejected.
* `GivenInv`: with a supplied pool no thread is ever inside `close()`.
* `PoolInv`: sockets are opened one after another (`Opened`); all responses of a socket are
  of one pool, which is the one it is idle in if it is, and the current one if it
  carries a request (`HomeInv`); where readers can be woken, neither the socket that is
  read nor that of a request is idle (`WakeInv`).
* `SweepInv`: what a `close()` found idle is closed, or is idle in a closed pool while
  that `close()` still sweeps. No request takes it, because a closed pool refuses, and
  nobody gives a connection back to a closed pool. Here `HomeInv` is needed: the socket
  might otherwise be given to another pool.
* `OtherStep` says once what all actions but `BeginRequest` and `Respond` do to sockets
  and pools; both invariants are shown for it instead of for each action.

`RetryTiming_proofs`:

* `TimeInv` orders the recorded times: the baseline of the reset is never before the last
  connection, and is it while the client is up.
* `SpacedInv`: the client that went down by a failed connect has that time as its
  `__disconnected_time`, and sleeps until the delay after it.
* `StrategyInv`: the counter or start time inside the strategy object equals the number
  of retries or the first failure since the last connection.

* `BackoffInv`: the last base delay is the power, cut off at the cap, at every call of
  `apply` and not only at the first and the last. The step needs that a multiplier of at
  least 1 takes what is above the cap further above it (`MultiplierGrows`), so that
  capping before the multiplication, as the code does, is the same as after it.
* `BoundInv`: the counters stay below the attempts, by one more while an attempt is
  under way and by another while an interrupt has not been noticed. That an interrupt
  may back off twice is why the bound is two for each attempt.
* `ClockInv` and the above make `TypeInv`, which gives `TypeOK`.

The readers. `ReadChunk`, `SplitLines`, `TakeBytes` and `Joined` are recursive functions,
so what they compute is an induction over bytes or lines. The prover cannot instantiate an
induction theorem whose parameter is an operator; `Induction` of `NaturalRecursion`
speaks of a set instead (a set that holds 0, and `n + 1` with every `n`, holds all of
`Nat`). It is proved there from the well-foundedness of `<`; `FiniteRecursion` follows,
that the equations of a recursive function have a solution, and `SameSteps`, that they
have only one.

* `LineReader_proofs`. `ByteByByte` is a splitter that takes one byte at a time, with no
  `splitlines()` and no corrections. `ChunkIsRead`: a pass of the loop over a chunk
  leaves what it leaves, and yields its lines. The invariant of that induction, `Agree`,
  relates it to the lines of a chunk that has not ended: all but the last are the same, and
  the last is complete or the unfinished one depending on the last byte; a first LF
  after CR counts as a line that is dropped. `BytesRest`: the unfinished line holds no
  terminator, and is empty after a CR, which is what lets `lines_from` drop a line without
  looking at `partial_line`.
* `EventReader_proofs`. `ReaderOf` maps the reference with its lists of values to the
  locals of the generator: data joined, the last type, the last id. `FieldIsParsed`: what
  the code cuts out of a line is the one name and value that `IsField` allows.
  `LineTaken`: a line takes the generator to `ReaderOf` of what it makes of the reference,
  and yields what the reference adds to its items.
* `ReaderPipeline_proofs`. `Takes(r, lines, s)`: the reference goes from `r` to `s` by
  these lines. `BytesTaken`: taking the bytes of a chunk is taking the lines that
  `ByteByByte` makes of them. `ReadInv` is inductive: while lines are left there are `r` and
  `s` with `Takes(r, lines, s)`, such that the generator is `ReaderOf(r)`, what was given
  is the items of `r`, what is due those of `s`, and the reference is `s` with the
  splitter's unfinished line (`AtLine`); at rest the generator is `ReaderOf` of the
  reference itself. `SameItems` alone is not inductive: it says nothing of the fields
  and of the unfinished line that later items are made of. A line moves `r` and
  keeps `s`; a decode error makes both the same, since the reference takes nothing after
  it (`TakesFailed`).

What the runs check was checked by TLC before it was proved, and so were the invariants
of the first three modules. TLC cannot check `ReadInv`, which asks for two references out
of an infinite set.

The bounds `MaxChunk`, `MaxAhead` and `MaxBlock` are arbitrary numbers in the proofs, and
`Lines` and `Byte` arbitrary sets with what `TextIsOfBytes` names.

Only model-checked: the liveness properties (`DroppedIsClosed`, `ClosedSessionEnds`,
`ReaderWakes`, `StopReturns`), which are out of the prover's reach, and the
counterexamples.

## 5. What is not modelled, and what is left

* Actions and errors are value types without behaviour. The contract tests and the test
  helpers are drivers of the client and not part of it; the HTTP server of the helpers is
  the environment of the models.
* Closers, strategies and connection clients that raise; two iterators read in turn, or
  tasks that iterate at once; redirects; `set_retry`; free-threaded builds of CPython.
* Left to do: a model of the wall clock that goes back (line 297).
