# A TLA+ model of freastal

freastal is a WSGI/ASGI server: a C extension on libuv and picohttpparser, with
TLS 1.3 by picotls, under a small Python supervisor. This directory models the
parts of it that are hard to test, checks them with TLC on small instances, and
proves most of the safety results with TLAPS for every size.

## The system

**Connection core** (`server.c`, `client_t` in `server.h`). One thread per
worker runs libuv. A connection owns a 16 KB `read_buf` with a window
`[read_off, read_len)`, the parsed request's pointers into it, one `write_req`,
the Python objects of the response, and the flags `in_flight`, `keep_alive`,
`read_armed`. Operations are the callbacks `alloc_cb`/`on_read`, `on_write`,
`on_close`, `on_new_connection`. Reading stays armed while a response is in
flight, so everything that reads and everything that writes may meet. Correct
means: bytes are neither lost nor reordered, responses go out in order and one
at a time, a read always has somewhere to go, a handle is closed once, what
`uv_write` points into stays alive, nobody waits for a callback that will not
come.

**TLS data path** (`server.c` from line 780, pools in `tls.c`). A read cannot
be bounded by the room in `read_buf`, so surplus plaintext goes to a *spill*;
`tls_read_flow` decides about reading; a clean close sends a final write with
close_notify; handshake flights have write requests of their own.

**Applications** (`wsgi.c`, `asgi.c`, `_asgi_protocol.py`). WSGI answers before
it returns. ASGI runs the first step of the coroutine on the callback's stack
and either has answered, or leaves a Task that answers later through a capsule
holding the `client_t` pointer. `_Request` stands in for the Task while there is
none: it is `current_task()`, owns a context, and keeps a cancel for later. A
WSGI application may call `start_response` until its iterable is at an end, and
what it says is kept in the `client_t`, which answers many requests. Correct
means: an application runs in its own context and is told of its cancellation, and
a response carries what its own request said.

**ASGI loop bridge** (`asgi.c`). asyncio's `_ready`, `_scheduled` and selector
are driven from a libuv check, idle, timer and poll handle. Correct means that
libuv never blocks while asyncio has work due.

**Shared ticket ring** (`tls.c`, `server.h`, `_TicketKeyRotator` and
`_run_workers` in `__init__.py`). With several workers the supervisor owns one
page of session-ticket keys, rotates it hourly or on SIGUSR1, and publishes a
deadline with every key; workers map it read-only and read it under a sequence
lock. Correct means: a read never mixes keys and always ends, a retired key is
gone, a ticket opens for its whole lifetime, a key is not used beyond a bounded
age even when the owner dies, and a request for a rotation is served.

**Pools** (`server.c`, `tls.c`). Clients come from a slab with a bump pointer
and a free list, encryption blocks and spills from capped free lists chained
through the blocks, an oversized response's buffer from one retained slot;
beyond that there is malloc. A connection gives back what it holds from
`on_write`, `on_tls_final_write` or `on_close`, and picotls may have put a buffer
of its own in the place of one it was given. Correct means: whatever mix it came
from and whichever path it takes, everything has one holder.

**Supervisor** (`__init__.py`). With several workers `_run_workers` binds, arms
a handler for SIGINT and SIGTERM, creates the ticket ring, forks the workers,
starts the rotation thread, joins, and undoes all that in a `finally`. The
handler runs on top of any of it and raises SystemExit. Correct means: the keys
are scrubbed on every way out, a failed worker is reported, a stop signal ends
the server, no worker outlives the interpreter.

**Start-up** (`server_init`, `tls_server_init`, `freastalmodule.c`) runs once.

What interacts: the connection core calls the application and is called back by
it (`asgi_send_response`); the TLS path calls the ticket ring inside
`ptls_handshake`; supervisor and workers share only the listening socket, the
ring page and signals. `PROJECT.json` lists each component's status and, under
`hazards`, what can go wrong where.

## Modules

| module | models | lines it stands for |
|---|---|---|
| `Connection` | one connection, all its callbacks, the application's answers, the peer | `server.c` 30-500, 785-1359, the dispatch of `wsgi.c`, `asgi.c`, `_asgi_protocol.py` |
| `ReplyOrder` | abstract: requests answered in order, and caught up with | |
| `MCConnection` | request shapes, streams and environments for TLC | |
| `ConnectionProofs` | theorems about `Connection`: types, closing, writing, room; then bytes, replies, ownership, causes | |
| `TicketRing` | the ring page word by word: publication, wipe, reads | `tls.c` 245-408, 681-801 |
| `AtomicRing` | abstract: a table replaced as a whole, reads of one instant | |
| `MCTicketRing` | instance | |
| `TicketRingProofs` | theorems about `TicketRing` | |
| `TicketKeys` | the ring against a clock: rotation thread, hook, staleness, handshakes | `tls.c` 298-490, 878-934, 1284-1301, `__init__.py` 205-250, 435-454 |
| `MCTicketKeys` | instance | |
| `TicketKeysProofs` | theorems about `TicketKeys` | |
| `AsgiLoop` | asyncio's loop inside libuv's: the check, idle, timer and poll handles | `asgi.c` 22-218, 690-723, 733-738, 872-915, `run_asgi_request` |
| `MCAsgiLoop` | environments for TLC | |
| `AsgiLoopProofs` | theorems about `AsgiLoop` | |
| `AsgiRequest` | the coroutines of an ASGI worker's requests, their Tasks and cancellation | `_asgi_protocol.py` 61-235, `asgi_coro_step_c` |
| `MCAsgiRequest` | environments for TLC | |
| `AsgiRequestProofs` | theorems about `AsgiRequest` | |
| `Pools` | who holds which memory; cutting a response into records and blocks | the pools of `server.c` and `tls.c`, `tls_write_response_impl`, `tls_send_final` |
| `MCPools` | instance | |
| `PoolsProofs` | theorems about `Pools` | |
| `Supervisor` | `serve()` with several workers, its signals and its end | `__init__.py` 232-460 |
| `SupervisorProofs` | theorems about `Supervisor` | |
| `WsgiCall` | requests of one connection as a WSGI application sees them | `wsgi.c` but its start-up, `hdrcache.c`, `hdrvalid.h` |
| `MCWsgiCall` | header names, requests and lists for TLC | |
| `WsgiCallProofs` | theorems about `WsgiCall`, the environ and the header cache | |

How they fit together: `Connection` takes the application as a choice of
outcomes; `AsgiRequest` and `WsgiCall` show what becomes of one call, `AsgiLoop`
that what they leave with asyncio gets its turn (the fairness `AsgiRequest`
assumes). `Connection` tracks whether a connection holds blocks and a spill;
`Pools` says which, for several connections. `TicketKeys` takes from `TicketRing`
that the ring is read whole, and `Supervisor` from `TicketKeys` what workers do
when the owner is gone.

### Connection

The variable `c` is the `client_t` with its libuv handle; each C function is an
operator from a connection to the set of connections it may leave, composed as
the functions call each other; each libuv callback is one action. `read_buf` is
the sequence of bytes up to `read_len`. A byte names its request and its place
in it, so that loss, repetition and disorder show; the parser sees of a request
its header and body length, whether it keeps the connection alive and whether
it is malformed, and honours `last_len`. `Pipeline` says how a stream is labelled:
requests are numbered from one and follow one another whole, and the stream may
stop anywhere; it restricts the labels, not what a peer may send. `wire`, `served` and `alert` are
history variables.

libuv is modelled as freastal uses it: `uv_close` on a closing handle aborts;
`uv_write` on a request in use corrupts it; a read error other than EOF makes
later writes fail at once, with no callback; a write completes in failure only
after a reset or a close; the close callback comes after all outstanding writes
were called back.

`env` chooses the server (WSGI or ASGI, TLS or not) and the faults of a
behaviour: `reset`, `nomem`, `flightFails`, `endsSilently`, `sendsAgain`,
`noPtls`. The first two are in the passing runs. The next three are the
cases under *Disagreements* below, the last is a hazard no run asks about. Clients
that outlive the connection (a suspended coroutine holding the capsule) are in
the model: `waiting` and `lingering` are not cleared by `OnClose`.

### TicketRing

Every store to the page and every load from it is a step; between two fences
the stores, and the loads, happen in any order, which is all that `memcpy`, the
compiler and the processor may do there. A key's number stands in its name and
in its secret, so a mixture is visible. `seq` is a natural number: the 32-bit
counter wraps after 2^31 rotations, which no server reaches. The owner may be killed between any two
stores, and may wipe the page outside the lock while workers read, as
`_run_workers` does when it leaves by an exception.

### TicketKeys

The ring is read and written whole, which `TicketRing` justifies; `seq` odd
still means that nothing can be read. `Tick` is the clock. It waits for a
running owner that is `Late` units past its deadline, for a ClientHello
`Dawdle` units after its connection, and for hooks (their five seconds are much
less than a unit). `Refused` and `Resumed` single out the handshakes that offer
a ticket. One connection per worker is pending at a time. Attaching to the
ring, with its checks of the page header, is the initial state.

### AsgiLoop

`uv` walks through the phases of `uv_run`: pending, poll, events, check, timers.
`aio` is asyncio's loop: `_ready`, `_scheduled`, the selector and the self-pipe.
`cb` is the bridge's callback that is inside asyncio: in the select of
`_run_once()`, or running the handles of a turn one by one, with other threads
and time in between. libuv, `_run_once()` and the applications are external:
an application may yield, wait for a timer, a descriptor, either of them
(`asyncio.timeout`, `wait_for`) or an executor, or end. There are two clocks:
asyncio's, in ticks, and libuv's cached one, in whole milliseconds (`TPM` ticks
each), which is as old as the last poll or check. A timer that its own callback
arms again is left to the next iteration, as current libuv does.

A handle that does nothing when it is run (cancelled, or the first step of the
continuation Task, which only awaits what the application awaits already) is
`dead`. A task is a slot that is free again when nothing of it is left.
`aio.old` is the list the bridge has cached once asyncio has replaced its own.

### AsgiRequest

`app` is the application's coroutine, `task` the Task that runs `_finish`, `std`
what `_Request` keeps (whether `_task` and `_cancel` are set), `ready` asyncio's
queue, `here` whose code runs and in which context. `Dispatch`, `EndsInline` and
`SuspendsInline` are `run_asgi_request` up to and after its first step; `Await`,
`Resume` and `Close` are the loop of `_finish`, `Step` and `Wakeup` how asyncio's
Task enters it, with or without a cancel to throw. An application may await a
future, yield (`sleep(0)`), yield something that cannot be awaited, cancel
itself, or set its ContextVar; a future may complete, fail or be cancelled by
others. `app.owed` is history: a cancel was accepted and has not been seen.
Nobody but the loop's own callbacks runs between two steps; a callback that was
queued behind a Task's first step cannot be overtaken (`ReplayNext`).

### Pools

Addresses are numbers, the slab's first, malloc's behind them. A free list, and
a chain of blocks, is the sequence that following its links yields. Every getter
is an operator to the set of its outcomes: with `nomem` any malloc may fail. A
response is encrypted record by record (`WriteResponse`, `EncryptRecord`,
`EndEncrypting`), and nothing else runs meanwhile (`job`). `ptls_send_v` writes in
place, puts an allocation of its own in the buffer's place (`swaps`), or fails
(`refuses`). A segment remembers which runs of the header and the body are in
it, so that the packing can be compared with the response.

### Supervisor

`pc` is where the main thread is, `handler` the `_shutdown` on top of it. A signal
may come at any point; a second one starts the handler anew, as the inner
SystemExit ends the outer call. A worker is `fresh` until it has restored the
default action of SIGTERM; one that catches the signal before runs the inherited
handler, which terminates the workers listed before it as well, and one that is
just restoring it may lose the signal, as CPython drops what is pending for a
handler that is gone. Where `_shutdown` is not armed SIGTERM kills and SIGINT
raises KeyboardInterrupt on the main thread; off the main thread that is the
caller's code, and `serve()` does not notice. `res` is what there is to undo, with
the flag `usr1_installed` (`noted`) by which the `finally` goes. The
history `cut` records the gaps in which a signal parts what belongs together:
between the ring's creation and the `try`, inside the `finally`, between
`signal.signal(SIGUSR1, ...)` and the flag (lines 424 and 425), between a fork and
the parent's note of it, and in multiprocessing's exit handler. The start method
is fork.

### WsgiCall

Header names are sequences of byte values, so that the cache's first-byte
filter, its slices by length and its comparison by bit 5 are what they are in
the code; a value is a token, and joining keeps the order. The application is
free from `CallApp` to `IterationEnds`. A list of headers is a sequence of kinds,
each what `StartResponse_call` and the formatter would see in a header. `said`,
`sent` and `last` are history.

## Runs

| run | shows |
|---|---|
| `conn_safety` | the invariants of one connection: types, order of replies, bytes, room to read, closing, ownership of buffers and objects, nobody forgotten |
| `conn_liveness` | a begun request ends, a connection whose peer left is freed, refinement of `ReplyOrder` with its liveness |
| `conn_double_close` | violation: a failing handshake flight closes a handle a second time |
| `ring_seqlock` | the sequence lock is atomic, never mixes keys, erases, and its reads end |
| `keys_life` | tickets live their lifetime, keys no longer than theirs, rotations asked for are made, an abandoned ring is dropped |
| `asgi_loop` | libuv sleeps only when asyncio has nothing to do and wakes for its timers; asyncio's select blocks only for a known cause; callbacks, timers and descriptors are served |
| `asgi_request` | one resumption per await, no application left suspended by its Task, own context and current task, a cancel is seen, what is awaited wakes |
| `asgi_lost_cancel` | violation: a cancel in the turn in which the awaited future completes is swallowed |
| `pools` | everything has one holder, counters are right, what is written is the response, the retained buffer ratchets |
| `supervisor` | everything undone on every way out, failures reported, a stop signal ends `serve()`, the exit takes the workers |
| `wsgi_call` | the environ joins repeated fields, each request gets one answer, its own |
| `wsgi_exc_info` | violation: `start_response` with exc_info is refused though nothing was sent |

The violations are explained, with the lines they contradict, under `findings`.
Several properties are conjunctions of named parts (`BytesAccountedFor`,
`RequestsLookedAfter`, `HeldWhileNeeded`, `ClosesProperly`, `Progress`, `KeysInUse`,
`KeysAsAsked`, `RingKeepsMoving`, `SleepsSoundly`, `EverythingRuns`): the parts are
stated, each with its comment, before them.

**Bounds.** `conn_safety`: a `read_buf` of 4 bytes, a sweep and a spill of 5,
one flight, four pipelines of three or four requests from shapes of 1 to 5
bytes. Requests then split at every byte, several fit in the buffer at once,
one is larger than it, and a sweep overruns it while a response is in flight.
`conn_liveness` uses shorter streams and a spill of 3. `ring_seqlock`: one
worker (workers only read), 2 slots, 2 attempts, 3 keys, so that a slot is
reused while a reader is inside it. `keys_life`: 3 slots, rotation every 2
units, grace 1, lifetime 4, lateness 1, 10 units of time, which is past the age
bound of 9, and one request for a rotation beside the periodic ones.
`asgi_loop`: two tasks, two ticks a millisecond, delays of 1 and 3 ticks,
deadlines up to 3 ticks and at most two timers, in five environments that each
combine a few kinds of waiting with a few faults. Two tasks suffice for one to
be ready while the other waits, for a new earliest deadline, and for a timer
and its descriptor to come due together. `asgi_request`: two requests, so that
one can see the other's context and queue behind it, two awaits and two cancels
each. `pools`: two connections and a slab of one, so that one is malloc's; free
lists of one; records of 4 and blocks of 7, which hold a full record and a short
one; two blocks to a response and responses of 2 to 3 records, so that all fit,
just fit, or need the oversized buffer, in three sizes, one beyond what is kept;
five allocations, which run out. `supervisor`: three workers, so that one can be
first, in between and last, and two stop signals, on and off the main thread,
with and without TLS. `wsgi_call`: three requests of up to three fields, with
names of up to three bytes against a table of four, two `start_response` calls
and two chunks each.
Deadlock checking is off, but for `pools`: an idle loop, a closed connection, a
destroyed ring, a stopped clock and an ended process are proper ends.

**Fairness.** `Connection`: weak fairness of reading, of write completion, of
closing (libuv keeps polling) and of a waiting application's send. The last is
the application's duty, not freastal's. The peer owes nothing. `conn_liveness`
leaves out memory exhaustion and resets under a suspended application: see
*Disagreements*. `TicketRing`: a
worker inside a read goes on. `TicketKeys`: the rotation thread runs while its
process does, connections keep arriving and end, a waiting hook polls.
`AsgiLoop`: weak fairness of every step of the thread, which has nothing else to
do, and strong fairness of time, because traffic may wake libuv over and over
but does not stop the clock. Traffic, descriptors and other threads owe
nothing. The liveness properties except a thread blocked for good (`Hung`, see
*Disagreements*) and, for ready callbacks, a selector libuv cannot watch.
`AsgiRequest`: the loop runs what is ready, which `AsgiLoop` shows, and an
application's step ends; no future need ever complete. `Supervisor`: the main
thread runs when it is not waiting, an interpreter with nothing left to run
exits, a signal sent arrives. No worker need end by itself. `WsgiCall`: the
application returns, its iterable ends, and libuv calls back.

**Exceptions.** `CancelIsServed`, `NoneAbandoned` and `WakesUp` leave out the two
environments `tooLate` and `expired`, in which they fail (`CancelNeverLost` and
*Disagreements*); all three are checked in the others, which are part of the same
run. `CleansUp` leaves out a signal before the `try` or in the `finally`, and grants
one between lines 424 and 425 the handler of SIGUSR1, not the rest.
`ExitTakesTheWorkers` leaves out a supervisor that was itself killed, a worker that
lost the last SIGTERM it was sent, a cut fork and a cut exit handler.

**Properties and mutants.** Every property of a passing run has a mutant in
`PROJECT.json`: a definition with a plausible mistake (they are in the modules
as `Name_Mistake`, before the definition they change) under which TLC finds the
property violated.

## Proofs

All theorems are listed in `PROJECT.json`; they hold for every value of the
constants that satisfies the named `ASSUME`s of the modules: positive sizes, the
static asserts of `server.h` (the spill holds a sweep, the ring outlives a
ticket), a lateness within the grace, the shape of inputs. Each module states
its inductive invariant at the top, proves that every action keeps it (one lemma
per action, and under it one per operator the action is composed of), and reads
the properties off. Every invariant was an invariant of a TLC run before it was
proved.

`ConnectionProofs`: `TypeCorrect`, and under `Tame` (no flight fails, no application
sends twice: two of the *Disagreements*) `NeverClosedTwice`, `OneWriteAtATime` and
`ReadsHaveRoom`. None of the three is inductive. A second close is impossible
because a handle is closed only by the one party entitled to it, which needs to
know that a response outstanding implies `in_flight`, that a final write
implies that reading has stopped and that no application still owes a send, and
what each operator may change. The invariant collects those facts, each C
function has a lemma about what it preserves, and the step proof cites them along
the call tree.

Its second half proves under `Tame` the other invariants of `conn_safety`:
`AnswersAreInOrder`, `NoByteIsLost`, `EveryRequestIsLookedAfter`,
`BuffersOutliveWrites`, `ServerClosesProperly`; `RequestIsNeverMoved`, an action
property, in every environment; and under `Tame` `ConnectionImplementsReplyOrder`, the
refinement of `ReplyOrder` but for its liveness. The invariant is about a connection *between two
functions of one callback*, since that is where the properties are decided.
`Base` holds after every function: what is buffered and spilled is the received
stream from the first unanswered request on (`Contents`); a request in flight
lies whole at the front (`Begun`); with none in flight the parser has not seen the
end of the headers (`Fresh`, which is why `last_len` may be trusted); the answers
written are 1, 2, 3, ... up to the one outstanding (`Replying`); what a write
points into is held (`Held`); whoever is closing has a cause, and a closing peer was
told (`Ending`). `Pending` (no complete request is left undispatched) and `Armed`
(an idle connection reads) hold only once the callback is over: `http_dispatch`
and the flow control behind it restore them. `NoByteLost` needs
all of it: whether bytes may be dropped at `on_write` depends on `consumed`,
which depends on the parser having started where the answered ones end.
`EveryRequestIsLookedAfter` also asks that no application ends without sending,
which is the disagreement `MCEndsSilently`; the other theorems do not. That the
answered prefix is a whole number of requests (`Boundary`) is an induction over
the stream, made with the least element of a set of naturals.

The refinement adds two facts. Of a state (`Settled`): a request that is answered or
in flight has been received as far as its answer takes (`Completes`), so that no
answer overtakes its request. Of a step (`Answers`): each function of the callbacks
writes at most one answer, and a callback calls at most one function that writes any;
the others are `Silent`. A callback then maps to the arrival of bytes, to one
answer in its turn, to the close, or to nothing (`StepServes`).

`TicketRingProofs`: `RingTypeCorrect`, `KeysNeverMixed`, `RetiredKeysAreErased` and
`RingIsAtomic` (the refinement of `AtomicRing`), for any number of workers, slots,
retries and keys. The invariant says what the page holds while
a publication is partly stored, and of a reader that has copied some words:
either `seq` has moved past its `s1`, or what it copied is the table in force.

`TicketKeysProofs`: `KeysInUseAreYoung` and, as an action property,
`TicketsAndHooksAsPromised`, for any number of workers and slots and all periods.
The age of a key is bounded although no step checks it: the slots are filled in
turn, no more than a rotation and its lateness apart (`InTurn`), so the key in slot
`i` is as old as the publications since; a worker goes on only while the deadline it
read is not past by more than the grace; a handshake under way (`ConnInv`) and a
ticket handed out (`TicketInv`) remember which key they saw and how long ago.

`SupervisorProofs`: `ServeCleansUp` and `ServeReturnsOnlyIfAllWell`, for any number of
workers and signals. `CleanInv` says what is left to undo at each point of the main
thread, `Usr1Inv` where SIGUSR1 may have the server's handler and whether the flag
says so, `JoinInv` who has ended by then; a handler on top of a gap has left its mark
in `cut`.

`AsgiLoopProofs`: `NeverSleepsOverReady`, `SoundWhileBound`, `LoopSleepsSoundly`,
`SelectBlocksForCause`, for any tasks, delays and environments. Whether libuv sleeps
is decided in its poll by what was armed callbacks ago, and whether asyncio's
select blocks by a timer armed an iteration ago, so the invariant says for each
phase of libuv how far what is armed still fits what asyncio has (`Noticed` for
ready callbacks, `Scheduled` for deadlines, in two clocks; `PollEnds` and `SelectEnds`
for a sleep under way). The last two theorems assume `MaxTimers <= MinScheduled`:
with more timers than that asyncio may replace `_scheduled`, and the properties fail
(*Disagreements*). `SoundWhileBound` says exactly how far they hold then: in every
state in which the bridge's list is still asyncio's. `NeverSleepsOverReady` needs
neither.

`AsgiRequestProofs`: `QueueIsConsistent`, `NoApplicationAbandoned`, `EachRunsAsItself`, for
any number of requests, awaits and cancels. That a Task is never resumed twice for
one await is a fact about the whole queue: exactly one handle of a request that is
due, none of one that is not (`QueueInv`). Contexts and the current task are tied to
who runs (`RunInv`, `CtxInv`), and a cancel is thrown only into a Task that has begun
(`CancelInv`), unless it came too late, which the property excepts.

`WsgiCallProofs`: `EveryAnswerIsItsOwn`, for any requests, statuses, lists and chunks:
the `resp_*` fields are empty whenever a request is dispatched and are what its own
application said from then on, and a connection that sent the server's own 500 does
not stay. `CacheKnowsEverySpelling`, for every name: the slice by length, the filter on
the first byte and the comparison by bit 5 come to a search of the whole table
without regard to case. `EveryFieldShows` is `EnvironIsComplete` for every request of
byte strings: after the first n fields the environ has exactly the keys of the ordinary
ones among them, and under each the values at their places (`Complete`). A field is
added under the same key whether the cache answers or not, since spellings share their
key (`KeyOfSpelling`), and with the Cookie separator under no other key than Cookie's,
because that name has neither '-' nor '_' (`CookieKey`; an `ASSUME`).

`PoolsProofs`: `MemoryHeldByOne`, `CountersAreTrue`, `ResponseIsSent` and `SlotOnlyGrows`,
for any number of connections, any capacities, any responses, and whatever malloc and
picotls may do. Three arguments meet in `IInv`.

- *Ownership.* Each pool operation is a function of the memory alone, so the lemmas
  about them know nothing of connections: `Held(m, W, B, O)` says that the memory `m` and
  the blocks `W`, oversized buffers `B` and other addresses `O` held elsewhere share
  nothing, account for all that was given out, and are counted right; a getter moves an
  address out of `m`, a putter back. `tls_release_wbuf` is a walk over the chain:
  `ChainReleased` follows it segment by segment. `Split` takes one connection out of
  `MemInv`, `Takes` says that after its moves it still fits the others' holdings, and
  `Step` puts it back, once for all actions. The cardinalities in the properties come
  last: holders and addresses correspond one to one (`Covers`).
- *Sizing.* While a response is encrypted `Fits` says what was sized: one buffer for
  the whole, or blocks each of which has taken at least one full record. As many blocks
  as are open have therefore consumed as many full records, so that a further one is
  needed only while `tls_record_count` still has one to give (`SizingHolds`): "nrec
  bounds nseg". `InOrder` says that the runs of plaintext in the chain are the response
  up to the cursor; a slice, in one cut or two, is the next piece (`SliceIsNext`).
- *The slot.* The largest buffer handed back is in the slot or lent to a connection
  (`KeepInv`); the property speaks of the moments when none is lent.

What the proof attempts changed in the model. `OrderlyCloseAnnounced` took a cleared
`keep_alive` behind an earlier answer for the end of an orderly response; but
`keep_alive` is set as soon as a header is parsed, so that a later request that does
not fit in `read_buf` is closed on with the same two facts and rightly without a
close_notify. The streams TLC is given do not hold such a pair; TLC confirmed it on
one that does. Both parts of `ClosesProperly` now ask for `in_flight`, which
`on_write` leaves set when it closes; `ClosesForCause` became stronger by it. `AppFinishes`
no longer clears a `waiting` entry when the application that ends is a lingering one.
`Pipeline` is now an assumption on `Streams`, where it was a fact about those of
`MCConnection`. `Asked`, to which `ReplyOrder` is mapped, counted a malformed request
only when its body was in, though `http_dispatch` answers it with 400 once its headers
are: the refinement did not hold for one that announces a body, and TLC confirmed it.
`Completes` says how far a request must be in, `MCConnection`'s malformed request now
has a body, and `conn_liveness` a pipeline that ends with it. `WsgiCall` keeps a body as the chunks at their places, of which the
code joins the non-empty ones: the same bytes, without a recursive function.
`Pools` and `WsgiCall` had the loops over a chain and over the fields as folds, of which
the prover has no definition; they are now functions of the number of turns (`Walk`,
`Environs`), for which the least counterexample gives the induction (`LeastNatural`). The two
properties that had flattened sequences say where each run or value stands instead
(`InOrder`, `Joined`): the same contents in the same order, and no recursion in what they
are compared with. `WsgiCall` now assumes of its constants that names are bytes and that
the name of Cookie is of lower case letters.

### Only model-checked

- Liveness: `Progress`, `ReadsEnd`, `RingKeepsMoving`, `EverythingRuns`, `KeepsPolling`,
  `CancelIsServed`, `WakesUp`, `StopEndsServe`, `ExitTakesTheWorkers`, `Answered`. Fairness and
  ENABLED are out of the prover's reach.
- The liveness in `ImplementsReplyOrder`; the rest of it is
  `ConnectionImplementsReplyOrder`.

Every invariant and action property that a passing run checks is a theorem, and so are
the refinement of `AtomicRing` and the safety part of that of `ReplyOrder`.

## Disagreements

Three are runs, with a finding each. The following are reproduced by giving a run
another environment or property; the definitions are in the modules.

- `conn_double_close` with `MCResetAsgi` and `DeferredCloseHasOwner`: after a reset
  under a suspended application libuv refuses the response's write, nobody looks
  at what `uv_write` returned (`server.c` 359, 1270), and the close that was left
  "to on_write" (line 288) never comes.
- The same with `MCEndsSilently` and `RequestsLookedAfter`: an application that
  suspended and then ends without sending leaves a connection that nobody answers
  or closes. `asgi.c` 707-709 answers the inline case "rather than waiting for the
  peer to time out".
- The same with `MCSendsAgain` and `WriteReqExclusive`: a second
  `http.response.body` reuses `write_req`, also after the client was freed;
  `asgi.c` 699 knows that "a second one would corrupt the stream".
- `keys_life` with `AbandonedRingDropped`: an owner killed between its two stores to
  `seq` is never found stale, because "a lost race means the owner was writing"
  (`tls.c` 310-312).
- `asgi_loop` with `WithTimeouts` and `NeverBlocksForGood`: the timer of an
  `asyncio.timeout` left in time fires, `_run_once()` drops it and selects without a
  timeout, although it "never blocks libuv" (`asgi.c` 35).
- The same with `MinScheduled = 1`, `MaxTime = 4`, `MaxTimers = 3` and
  `ArmedForEarliest`: with many cancelled timers asyncio replaces `_scheduled`, which
  "asyncio mutates ... in place and never rebinds" (`asgi.c` 733).
- `asgi_request` with `ExpiredTimeout` and `CancelNeverLost`: `asyncio.timeout(0)` in
  the first step queues its cancel before the Task's first step. `_finish` is
  cancelled before its first line, and the application stays suspended: what
  `run_asgi_request` avoids for a cancel of the application's own.
- A cancel during a `sleep(0)` is thrown into `_finish`, not into the application,
  which is closed with GeneratorExit instead of seeing CancelledError
  (`AsgiRequest`, `Step`).
- SIGUSR1 ends the supervisor wherever its handler is not installed: before the
  workers are up, after the `finally`, and off the main thread, where failing to
  arm it is to cost only "the early-rotation hook" (`__init__.py` 421-422). A signal
  between line 388 and the `try`, or inside the `finally`, leaves the ring unscrubbed,
  although "every exit path Python can still run code on comes through here" (436).
- `supervisor` with `~res.usr1` for the last conjunct of `CleansUp`: a SIGTERM handled
  between lines 424 and 425 raises SystemExit with `rotator.kick` installed and
  `usr1_installed` not set, so that the `finally` does not put SIGUSR1 back.
- "The workers are daemon=True and die with the parent regardless" (`__init__.py`
  369-370), said of a `serve()` off the main thread: they die in the exit handler of
  multiprocessing, which a SIGTERM with its default action, as it has there, does not
  run. `StopSignal` then ends the supervisor and leaves the workers, which is why
  `ExitTakesTheWorkers` excepts a killed one.
- A worker's rotation hook that runs after the supervisor wiped the page reads 0 for
  `owner_pid`, and `kill(0, SIGUSR1)` goes to the whole process group (`tls.c` 907-908).
  `HookAsks` lets the hook fail and the workers go on: more than they then do, so the
  safety properties hold all the same, and the liveness ones speak of a running owner.
- `rotator.kick` calls `Event.set()` from a signal handler, and the lock in it is not
  reentrant: a second SIGUSR1 handled inside the first call blocks the main thread, and
  with it the rotation, until a stop signal. `Kick` and `HookAsks` are one step each.
- The header list is checked when `start_response` is called and read when the
  iterable is at an end, and is the application's own: "Shape and contents were both
  settled by StartResponse_call" (`wsgi.c` 270) holds only if nobody changes it in
  between. `WsgiCall` does not let the application do so.
- `on_new_connection` closes a `uv_tcp_t` on its own stack when no client can be
  allocated; libuv keeps it until the next turn. `Pools` leaves that out.
- The comment of `hdr_eq_ci` names '?' and '_' as a pair that differs in bit 5; they
  differ in two bits. The check it explains is right ('^' and '~' are such a pair).

## Not modelled

Third-party code (picohttpparser, picotls, libuv, asyncio, multiprocessing)
beyond what freastal uses of it; start-up and configuration (`server_init`,
`tls_server_init`, `freastalmodule.c`), which run once, before there is anything to
interleave with; the process-local ring, which is the shared one without a
second process; `build_asgi_scope`, `format_response_asgi` and the fixed part of the
environ, which turn one request into data and keep nothing; the validation of
header bytes beyond its verdicts; the spawn start method; in `AsgiLoop`, an
application that takes another task's descriptor out of the selector between
libuv's report of it and `asgi_poll_cb`, whose select would then block too.

## Plan

The model is complete as far as *Not modelled* says, and its safety properties are
proved. What a continuation could add: `tls_send_final`'s bytes and the contents of
`Content-Type` and `Content-Length` as properties of their own; the process-local ring as
a second instance of `TicketRing`'s arithmetic; and the ASGI scope and response header
beside their WSGI counterparts.

The repository's own `README.md` still says "The ticket key is per worker
process"; the code modelled here shares it.
