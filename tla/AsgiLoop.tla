------------------------------ MODULE AsgiLoop ------------------------------
(***************************************************************************)
(* The bridge of asgi.c: one thread runs libuv's loop and, from libuv's    *)
(* callbacks, asyncio's.  libuv sleeps in its poll; asyncio's loop, called *)
(* as _run_once(), sleeps in its select().  Nothing of asyncio moves while *)
(* the first sleeps without a reason to wake, and nothing at all moves     *)
(* while the second does.                                                  *)
(*                                                                         *)
(* libuv's phases, asyncio's _run_once() and the applications are external *)
(* and modelled as asgi.c uses them.  A task is a slot: it serves one      *)
(* request, or one background callback, after another.                     *)
(***************************************************************************)
EXTENDS Integers, Sequences, FiniteSets, SequencesExt

CONSTANTS
  Task,           \* slots for suspended applications and background callbacks
  TPM,            \* asyncio's clock ticks per millisecond of libuv's
  Delays,         \* what call_later is asked for, in ticks
  MaxTime,        \* bound: no deadline lies beyond it
  MaxTimers,      \* bound: how long _scheduled gets
  MinScheduled,   \* asyncio's _MIN_SCHEDULED_TIMER_HANDLES
  Environments    \* what the surroundings do, see Environment

Nobody == "nobody"
Never  == -1       \* a poll or a select with no timeout

(***************************************************************************)
(* poll: the selector has a descriptor libuv can watch.  awaits: what the  *)
(* applications wait for, apart from sleep(0): a timer; a descriptor; a    *)
(* descriptor under asyncio.timeout or wait_for ("either"); an executor's  *)
(* thread, which answers with call_soon_threadsafe.  faults: a callback    *)
(* that raises SystemExit; a response that meets a full socket; an         *)
(* application that finishes and leaves a callback behind.                 *)
(***************************************************************************)
Environment ==
  [poll   : BOOLEAN,
   awaits : SUBSET {"timer", "io", "either", "thread"},
   faults : SUBSET {"exits", "slowPeer", "spawns"}]

ASSUME LoopAssumption ==
  /\ TPM \in Nat \ {0} /\ Delays \subseteq Nat \ {0} /\ MaxTime \in Nat
  /\ MaxTimers \in Nat /\ MinScheduled \in Nat /\ Environments \subseteq Environment
  /\ Nobody \notin Task

VARIABLES
  env,    \* this run's Environment
  now,    \* asyncio's clock, in ticks
  uv,     \* libuv's loop and the bridge's handles on it
  aio,    \* asyncio's loop
  cb      \* the callback that is inside asyncio

vars == <<env, now, uv, aio, cb>>

(***************************************************************************)
(* uv.time is libuv's cached clock in milliseconds; pend says that         *)
(* completions wait for the next pending phase, batch that some are left   *)
(* of this one; stuck that a response waits for a peer to read; fd that    *)
(* this poll reported the selector; wake is when the poll times out.       *)
(* idle, timer and due are asgi_idle, asgi_timer and its deadline.  lag is *)
(* history: how old uv.time was when the timer was armed.                  *)
(*                                                                         *)
(* A dead handle does nothing when it is run: it was cancelled, or is the  *)
(* first step of a Task that goes on waiting.  aio.old is the list that    *)
(* g_server.asgi_scheduled still names after asyncio has replaced its      *)
(* _scheduled (bound is FALSE then).  cb.n handles are left of the turn;   *)
(* until is when its select times out; cut is history: the turn began by   *)
(* dropping cancelled timers.                                              *)
(***************************************************************************)
Handle == [task : Task, dead : BOOLEAN]
Timer  == [task : Task, when : Nat, dead : BOOLEAN]

Loop ==
  [phase : {"pending", "poll", "events", "check", "timers"},
   time : Nat, idle : BOOLEAN, timer : BOOLEAN, due : Nat, lag : Nat,
   pend : BOOLEAN, batch : BOOLEAN, stuck : BOOLEAN, fd : BOOLEAN,
   wake : Nat \cup {Never}]

Asyncio ==
  [ready : Seq(Handle), scheduled : SUBSET Timer, bound : BOOLEAN,
   old : SUBSET Timer, io : SUBSET Task, avail : SUBSET Task,
   exec : SUBSET Task, pipe : BOOLEAN]

Callback ==
  [who : {Nobody, "check", "timer", "poll"}, stage : {"none", "select", "run"},
   n : Nat, until : Nat \cup {Never}, cut : BOOLEAN]

TypeOK ==
  /\ env \in Environment /\ now \in Nat
  /\ uv \in Loop /\ aio \in Asyncio /\ cb \in Callback
  /\ cb.n <= Len(aio.ready)

Fault(f) == f \in env.faults

Idle == [who |-> Nobody, stage |-> "none", n |-> 0, until |-> Never, cut |-> FALSE]

\* libuv is between callbacks in phase p.
In(p) == cb.who = Nobody /\ uv.phase = p

Expired(t) == t # Never /\ t <= now

\* The selector's descriptor: a registered descriptor or the self-pipe.
Readable == aio.avail # {} \/ aio.pipe

-----------------------------------------------------------------------------
(* Arming libuv's next poll *)

\* g_server.asgi_scheduled: the list asgi_server_init found.
CachedScheduled(a) == IF a.bound THEN a.scheduled ELSE a.old

Earliest(S) == CHOOSE w \in {s.when : s \in S} : \A s \in S : w <= s.when

\* Mutant: rounded down.
Delay_RoundsDown(when) == IF when > now THEN (when - now) \div TPM ELSE 0

\* The timer's delay in whole milliseconds, rounded up.
Delay(when) == IF when > now THEN (when - now) \div TPM + 1 ELSE 0

asgi_arm_wakeups(u, a) ==
  LET S == CachedScheduled(a)
  IN  [u EXCEPT
         !.idle  = a.ready # <<>>,
         !.timer = S # {},
         !.due   = IF S = {} THEN 0 ELSE u.time + Delay(Earliest(S)),
         !.lag   = IF S = {} THEN 0 ELSE now - TPM * u.time]

-----------------------------------------------------------------------------
(* Applications, as far as the loop can tell *)

\* Something of t is left on the loop.
Uses(t) ==
  \/ \E i \in DOMAIN aio.ready : aio.ready[i].task = t
  \/ \E s \in aio.scheduled : s.task = t
  \/ t \in aio.io \cup aio.exec

Call(t) == [task |-> t, dead |-> FALSE]

\* What t waited for is over: its other handles are cancelled where they lie.
Resume(a, t) ==
  LET Kill(h) == IF h.task = t THEN [h EXCEPT !.dead = TRUE] ELSE h
  IN  [a EXCEPT !.ready     = [i \in DOMAIN @ |-> Kill(@[i])],
                !.scheduled = {Kill(s) : s \in @},
                !.old       = {Kill(s) : s \in @},
                !.io = @ \ {t}, !.avail = @ \ {t}]

\* t awaits a timer, a descriptor, either of them, or an executor.
Waits(a, t) ==
  LET Timers == {[task |-> t, when |-> now + d, dead |-> FALSE] :
                   d \in {e \in Delays : now + e <= MaxTime
                                       /\ Cardinality(a.scheduled) < MaxTimers}}
      For(w, S) == IF w \in env.awaits THEN S ELSE {}
  IN  For("timer", {[a EXCEPT !.scheduled = @ \cup {s}] : s \in Timers})
      \cup For("io", {[a EXCEPT !.io = @ \cup {t}]})
      \cup For("either", {[a EXCEPT !.scheduled = @ \cup {s}, !.io = @ \cup {t}] :
                             s \in Timers})
      \cup For("thread", {[a EXCEPT !.exec = @ \cup {t}]})

\* sleep(0): t only lets the others go first.
Yields(a, t) == [a EXCEPT !.ready = Append(@, Call(t))]

\* t ends, and may leave a callback on the loop.
Ended(a, t) ==
  {a} \cup (IF Fault("spawns")
              THEN {[a EXCEPT !.ready = Append(@, Call(b))] :
                      b \in {b \in Task \ {t} : ~Uses(b)}}
              ELSE {})

\* uv_write: done at once, its callback fed to the pending queue, unless the
\* socket is full.
Written(u) ==
  {[u EXCEPT !.pend = TRUE]}
  \cup (IF Fault("slowPeer") THEN {[u EXCEPT !.stuck = TRUE]} ELSE {})

-----------------------------------------------------------------------------
(* Dispatch *)

\* run_asgi_request hands what is left of the application to a new Task, whose
\* first step only awaits what the application already waits for.
Continued(t) ==
  {Yields(aio, t)}
  \cup {[a EXCEPT !.ready = Append(@, [task |-> t, dead |-> TRUE])] : a \in Waits(aio, t)}

\* Mutant: a suspended application is left to the next check phase.
asgi_dispatch_NoArm(t, u) ==
  \/ \E a \in Continued(t) : aio' = a /\ uv' = u
  \/ \E a \in Ended(aio, t) : aio' = a /\ uv' \in Written(u)

\* asgi_dispatch: the application runs inline to its first suspension.
asgi_dispatch(t, u) ==
  \/ \E a \in Continued(t) : aio' = a /\ uv' = asgi_arm_wakeups(u, a)
  \/ \E a \in Ended(aio, t) : aio' = a /\ uv' \in Written(u)

\* A request that arrived: dispatched by on_read, in the poll phase.  The
\* application leaves other tasks' descriptors registered.
OnReadDispatch ==
  /\ In("events")
  /\ \E t \in {t \in Task : ~Uses(t)} : asgi_dispatch(t, uv)
  /\ UNCHANGED <<env, now, cb>>

\* A pipelined request: dispatched by on_write, in the pending phase.
OnWriteDispatch ==
  /\ In("pending") /\ uv.batch
  /\ \E t \in {t \in Task : ~Uses(t)} : asgi_dispatch(t, uv)
  /\ UNCHANGED <<env, now, cb>>

-----------------------------------------------------------------------------
(* asyncio's _run_once() *)

\* Cancelled timers leave _scheduled at its head; when most of many timers are
\* cancelled, _scheduled becomes a new list without them.
Pruned(a) ==
  LET S     == a.scheduled
      alive == {s \in S : ~s.dead}
      many  == Cardinality(S) > MinScheduled
               /\ 2 * Cardinality(S \ alive) > Cardinality(S)
  IN  IF many
        THEN [a EXCEPT !.scheduled = alive, !.bound = FALSE,
                       !.old = IF a.bound THEN S ELSE @]
        ELSE [a EXCEPT !.scheduled = {s \in S : \E k \in alive : k.when <= s.when}]

\* The head of _run_once(): when the select that comes next times out.
asgi_run_once(who) ==
  LET a == Pruned(aio)
  IN  /\ aio' = a
      /\ cb' = [who |-> who, stage |-> "select", n |-> 0,
                cut |-> a.scheduled # aio.scheduled,
                until |-> IF a.ready # <<>> THEN now
                          ELSE IF a.scheduled = {} THEN Never
                          ELSE IF Earliest(a.scheduled) <= now THEN now
                          ELSE Earliest(a.scheduled)]

\* A turn's work is measured before it begins.
Ntodo(ready) == Len(ready)

\* The select returns: the handles of ready descriptors and of timers that
\* have come due join _ready, and all of _ready is this turn's work.
Select ==
  /\ cb.stage = "select" /\ (Expired(cb.until) \/ Readable)
  /\ LET due == {s \in aio.scheduled : s.when <= now}
     IN  \E events \in SetToSeqs(aio.avail) :
         \E timers \in SetToSeqs(due) :
           LET ready == aio.ready \o [i \in DOMAIN events |-> Call(events[i])]
                          \o [i \in DOMAIN timers |->
                                [task |-> timers[i].task, dead |-> timers[i].dead]]
           IN  /\ \A i, j \in DOMAIN timers :
                    i < j => timers[i].when <= timers[j].when
               /\ aio' = [aio EXCEPT !.ready = ready, !.scheduled = @ \ due,
                                     !.io = @ \ aio.avail, !.avail = {},
                                     !.pipe = FALSE]
               /\ cb' = [cb EXCEPT !.stage = "run", !.n = Ntodo(ready),
                                   !.until = Never]
  /\ UNCHANGED <<env, now, uv>>

-----------------------------------------------------------------------------
(* The bridge's callbacks *)

\* Mutant: the queue is run until it is empty.
NextHandle_UntilEmpty(a, n) == Len(a.ready)

\* How much of the turn is left after one handle.
NextHandle(a, n) == n - 1

\* One handle of the turn: skipped if cancelled; one that fails ends the turn.
RunHandle ==
  /\ cb.stage = "run" /\ cb.n > 0
  /\ LET h      == Head(aio.ready)
         popped == [aio EXCEPT !.ready = Tail(@)]
         fresh  == Resume(popped, h.task)
         Left(a) == [cb EXCEPT !.n = NextHandle(a, @)]
     IN  \/ h.dead /\ aio' = popped /\ cb' = Left(popped) /\ UNCHANGED uv
         \/ /\ ~h.dead
            /\ \/ \E a \in Waits(fresh, h.task) \cup {Yields(fresh, h.task)} :
                    aio' = a /\ cb' = Left(a) /\ UNCHANGED uv
               \/ \E a \in Ended(fresh, h.task) :
                    aio' = a /\ cb' = Left(a) /\ uv' \in {uv} \cup Written(uv)
               \/ Fault("exits") /\ aio' = fresh /\ cb' = [cb EXCEPT !.n = 0]
                    /\ UNCHANGED uv
  /\ UNCHANGED <<env, now>>

\* uv__update_time, and on to the timers.
ToTimers(u) == [u EXCEPT !.phase = "timers", !.time = now \div TPM]

\* On to the next iteration's pending phase.
ToPending(u) == [u EXCEPT !.phase = "pending", !.batch = u.pend, !.pend = FALSE]

\* The C drain of what is ready, without asyncio's select and timers.
asgi_drain_ready(who) ==
  /\ cb' = [Idle EXCEPT !.who = who, !.stage = "run", !.n = Ntodo(aio.ready)]
  /\ UNCHANGED aio

\* asgi_check_cb's first half; with nothing ready it only arms.
asgi_check_cb ==
  /\ In("check")
  /\ IF aio.ready = <<>>
       THEN uv' = ToTimers(asgi_arm_wakeups(uv, aio)) /\ UNCHANGED <<aio, cb>>
       ELSE /\ UNCHANGED uv
            /\ IF env.poll THEN asgi_drain_ready("check") ELSE asgi_run_once("check")
  /\ UNCHANGED <<env, now>>

asgi_timer_cb ==
  /\ In("timers") /\ uv.timer /\ uv.due <= uv.time
  /\ uv' = [uv EXCEPT !.timer = FALSE]
  /\ asgi_run_once("timer")
  /\ UNCHANGED <<env, now>>

\* Mutant: the C drain, which does not look at the selector.
asgi_poll_cb_Drains ==
  /\ In("events") /\ uv.fd
  /\ uv' = [uv EXCEPT !.fd = FALSE]
  /\ asgi_drain_ready("poll")
  /\ UNCHANGED <<env, now>>

asgi_poll_cb ==
  /\ In("events") /\ uv.fd
  /\ uv' = [uv EXCEPT !.fd = FALSE]
  /\ asgi_run_once("poll")
  /\ UNCHANGED <<env, now>>

\* The second half of each: asyncio had its turn, libuv's poll is armed.
TurnEnds ==
  /\ cb.stage = "run" /\ cb.n = 0
  /\ LET u == asgi_arm_wakeups(uv, aio)
     IN  uv' = CASE cb.who = "check" -> ToTimers(u)
                 [] cb.who = "timer" -> ToPending(u)
                 [] cb.who = "poll"  -> u
  /\ cb' = Idle
  /\ UNCHANGED <<env, now, aio>>

-----------------------------------------------------------------------------
(* libuv's loop *)

\* uv_backend_timeout: zero while an idle handle is active or a completion
\* waits, else up to the nearest timer, else for ever.
PollBegins ==
  /\ In("pending")
  /\ uv' = [uv EXCEPT !.phase = "poll", !.batch = FALSE,
              !.wake = IF uv.idle \/ uv.pend THEN now
                       ELSE IF ~uv.timer THEN Never
                       ELSE IF uv.due <= uv.time THEN now
                       ELSE now + TPM * (uv.due - uv.time)]
  /\ UNCHANGED <<env, now, aio, cb>>

Woken(u) ==
  [u EXCEPT !.phase = "events", !.time = now \div TPM, !.wake = Never,
            !.fd = env.poll /\ Readable]

PollReturns ==
  /\ In("poll") /\ (Expired(uv.wake) \/ (env.poll /\ Readable))
  /\ uv' = Woken(uv)
  /\ UNCHANGED <<env, now, aio, cb>>

\* Traffic on a connection; a stuck response may go out.
PollTraffic ==
  /\ In("poll")
  /\ uv' \in {Woken(uv), Woken([uv EXCEPT !.stuck = FALSE])}
  /\ UNCHANGED <<env, now, aio, cb>>

\* The completions of this poll may be run before the check phase or after.
EventsEnd ==
  /\ In("events") /\ ~uv.fd
  /\ uv' \in {[uv EXCEPT !.phase = "check", !.pend = p] : p \in {uv.pend, FALSE}}
  /\ UNCHANGED <<env, now, aio, cb>>

TimersEnd ==
  /\ In("timers") /\ ~(uv.timer /\ uv.due <= uv.time)
  /\ uv' = ToPending(uv)
  /\ UNCHANGED <<env, now, aio, cb>>

-----------------------------------------------------------------------------
(* The surroundings *)

\* A descriptor an application waits for becomes readable.
IoCompletes ==
  /\ \E t \in aio.io \ aio.avail : aio' = [aio EXCEPT !.avail = @ \cup {t}]
  /\ UNCHANGED <<env, now, uv, cb>>

\* call_soon_threadsafe from an executor's thread.
ThreadCalls ==
  /\ \E t \in aio.exec :
       aio' = [aio EXCEPT !.exec = @ \ {t}, !.ready = Append(@, Call(t)),
                          !.pipe = TRUE]
  /\ UNCHANGED <<env, now, uv, cb>>

\* Time passes in the two sleeps and while applications run; past MaxTime only
\* in a sleep that has an end.
Tick ==
  /\ \/ uv.phase \in {"poll", "events"} \/ uv.batch \/ cb.who # Nobody
  /\ now < MaxTime \/ uv.wake > now \/ cb.until > now
  /\ now' = now + 1
  /\ UNCHANGED <<env, uv, aio, cb>>

Init ==
  /\ env \in Environments
  /\ now = 0
  /\ uv = [phase |-> "pending", time |-> 0, idle |-> FALSE, timer |-> FALSE,
           due |-> 0, lag |-> 0, pend |-> FALSE, batch |-> FALSE,
           stuck |-> FALSE, fd |-> FALSE, wake |-> Never]
  /\ aio = [ready |-> <<>>, scheduled |-> {}, bound |-> TRUE, old |-> {},
            io |-> {}, avail |-> {}, exec |-> {}, pipe |-> FALSE]
  /\ cb = Idle

Next ==
  \/ OnReadDispatch \/ OnWriteDispatch
  \/ asgi_check_cb \/ asgi_timer_cb \/ asgi_poll_cb
  \/ Select \/ RunHandle \/ TurnEnds
  \/ PollBegins \/ PollReturns \/ PollTraffic \/ EventsEnd \/ TimersEnd
  \/ IoCompletes \/ ThreadCalls \/ Tick

Spec == Init /\ [][Next]_vars

\* Time passes, the thread goes on with whatever it can do, and what an
\* application waits for arrives when it likes: nothing is owed by the
\* surroundings.
FairSpec ==
  /\ Spec
  /\ WF_vars(asgi_check_cb) /\ WF_vars(asgi_timer_cb) /\ WF_vars(asgi_poll_cb)
  /\ WF_vars(Select) /\ WF_vars(RunHandle) /\ WF_vars(TurnEnds)
  /\ WF_vars(PollBegins) /\ WF_vars(PollReturns)
  /\ WF_vars(EventsEnd) /\ WF_vars(TimersEnd) /\ SF_vars(Tick)

-----------------------------------------------------------------------------
(* Properties *)

\* libuv is in its poll and neither a timeout nor the selector ends it now.
Asleep == uv.phase = "poll" /\ ~Expired(uv.wake) /\ ~(env.poll /\ Readable)

\* The thread is in asyncio's select and nothing ends it now.
Blocked == cb.stage = "select" /\ ~Expired(cb.until) /\ ~Readable

\* libuv never sleeps over a callback asyncio could run (asgi_arm_wakeups and
\* its call in asgi_dispatch), unless another thread put it there without a
\* selector to report it, or an application that finished inline left it
\* behind a response its peer does not read.
SleepsOnlyIfIdle ==
  Asleep /\ aio.ready # <<>> => aio.pipe \/ uv.stuck

\* When libuv sleeps, its timer is armed for asyncio's earliest deadline, a
\* millisecond late at most: what asgi_arm_wakeups promises for scheduled
\* callbacks.
ArmedForEarliest ==
  Asleep /\ aio.scheduled # {} =>
    uv.timer /\ TPM * uv.due <= Earliest(aio.scheduled) + TPM

\* libuv sleeps only when asyncio has nothing to run, and until it has.
SleepsSoundly == TypeOK /\ SleepsOnlyIfIdle /\ ArmedForEarliest

\* The select inside _run_once blocks the server's thread only in asgi_timer_cb:
\* because the timer it woke for was cancelled, or for less than libuv's clock
\* lagged when the timer was armed.  (No application takes away another task's
\* descriptor between libuv's report of it and asgi_poll_cb, which would block
\* there.)
BlocksForCause ==
  Blocked => cb.who = "timer" /\ (cb.cut \/ (cb.until # Never /\ cb.until - now < uv.lag))

\* The select has no timeout and nothing to return.
Hung == Blocked /\ cb.until = Never

\* asgi_run_once "never blocks libuv": the select always has something that
\* will end it.
NeverBlocksForGood == ~Hung

\* A callback on _ready gets its turn: libuv comes round to a callback that
\* runs the queue.
ReadyRuns ==
  env.poll /\ aio.ready # <<>> ~> cb.stage = "run" \/ Hung \/ uv.stuck

\* A timer fires: the bridge wakes libuv for it and moves it to _ready.
TimersFire ==
  \A t \in Task :
    (\E s \in aio.scheduled : s.task = t /\ ~s.dead)
      ~> (\A s \in aio.scheduled : s.task # t \/ s.dead) \/ Hung

\* A descriptor that became readable is noticed through asgi_poll_cb.
IoIsNoticed ==
  \A t \in Task : env.poll /\ t \in aio.avail ~> t \notin aio.avail \/ Hung

\* Whatever asyncio has ready, due or readable gets its turn.
EverythingRuns == ReadyRuns /\ TimersFire /\ IoIsNoticed

\* Applications that always have something ready do not keep libuv from its
\* poll: asgi_drain_ready runs what it found, not what the callbacks add.
KeepsPolling == TRUE ~> uv.phase = "poll" \/ Hung

=============================================================================
