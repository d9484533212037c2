---------------------------- MODULE AsgiRequest -----------------------------
(***************************************************************************)
(* The requests of one ASGI worker, as _asgi_protocol.py runs them: the    *)
(* application's coroutine takes its first step on the dispatching stack,  *)
(* with a _Request standing in for its Task; if it suspends, a Task running*)
(* _finish drives it from there, awaiting what the coroutine yielded and   *)
(* resuming it.  One thread runs everything: between two actions either an *)
(* application is inside a step, or asyncio's loop is between callbacks.   *)
(*                                                                         *)
(* asyncio's Task, Future and ready queue are external and modelled as     *)
(* _asgi_protocol.py meets them, the applications by what they can do.     *)
(***************************************************************************)
EXTENDS Naturals, Sequences, FiniteSets

CONSTANTS
  Req,            \* requests
  Nobody,         \* no request
  MaxAwaits,      \* bound: how often an application suspends
  MaxCancels,     \* bound: calls of cancel() on one request
  Environments    \* what the surroundings do, see Environment

(***************************************************************************)
(* waits: what applications yield: None (sleep(0)), a future, or something *)
(* asyncio cannot await.  faults: a cancel() that a callback queued before *)
(* the Task's first step makes, as asyncio.timeout(0) does ("expired"); a  *)
(* cancel() after the awaited future is done and before the Task wakes     *)
(* ("tooLate"); an application that awaits while it is being closed        *)
(* ("stubborn").                                                           *)
(***************************************************************************)
Environment ==
  [waits  : SUBSET {"yield", "future", "garbage"},
   faults : SUBSET {"expired", "tooLate", "stubborn"}]

ASSUME RequestAssumption ==
  /\ Nobody \notin Req
  /\ MaxAwaits \in Nat /\ MaxCancels \in Nat
  /\ Environments \subseteq Environment

VARIABLES
  env,    \* this run's Environment
  app,    \* per request, the application's coroutine
  task,   \* per request, the Task that runs _finish
  std,    \* per request, the stand-in: whether _task and _cancel are set
  ready,  \* the loop's ready queue
  here,   \* whose code runs, and in which context
  cur,    \* asyncio.current_task(), by its request
  ctx     \* per context, who has set the applications' ContextVar

vars == <<env, app, task, std, ready, here, cur, ctx>>

(***************************************************************************)
(* app.trap is what the coroutine yielded last, app.fut the state of that  *)
(* future; "dangling": it awaited while it was being closed.  app.set says *)
(* that it has set its ContextVar; app.owed is history: a cancel() was     *)
(* accepted that the coroutine has not seen.                               *)
(* task.begun says that _finish was entered; must is Task._must_cancel.    *)
(***************************************************************************)
App ==
  [at : {"unborn", "running", "suspended", "over", "dangling"},
   trap : {"none", "yield", "future", "garbage"},
   fut : {"none", "pending", "done", "failed", "cancelled"},
   n : Nat, set : BOOLEAN, owed : BOOLEAN]
Task == [at : {"none", "ready", "parked", "ended"}, begun : BOOLEAN, must : BOOLEAN]
StandIn == [task : BOOLEAN, cancel : BOOLEAN, calls : Nat]
Handle == [req : Req, what : {"step", "wakeup", "cancel"}]

\* A request's own context and the server's, which every request copies.
Server == Nobody
Contexts == Req \cup {Server}

TypeOK ==
  /\ env \in Environment
  /\ app \in [Req -> App] /\ task \in [Req -> Task] /\ std \in [Req -> StandIn]
  /\ ready \in Seq(Handle)
  /\ here \in [who : Req \cup {Nobody}, ctx : Contexts, eager : BOOLEAN]
  /\ cur \in Req \cup {Nobody}
  /\ ctx \in [Contexts -> Req \cup {Nobody}]

Loop == [who |-> Nobody, ctx |-> Server, eager |-> FALSE]

Init ==
  /\ env \in Environments
  /\ app = [r \in Req |-> [at |-> "unborn", trap |-> "none", fut |-> "none", n |-> 0,
                           set |-> FALSE, owed |-> FALSE]]
  /\ task = [r \in Req |-> [at |-> "none", begun |-> FALSE, must |-> FALSE]]
  /\ std = [r \in Req |-> [task |-> FALSE, cancel |-> FALSE, calls |-> 0]]
  /\ ready = <<>>
  /\ here = Loop /\ cur = Nobody
  /\ ctx = [x \in Contexts |-> Nobody]

Fault(f) == f \in env.faults

LoopIsFree == here.who = Nobody

\* Nothing runs between a Task's first step and the replay of a cancel: they
\* were queued one behind the other.
ReplayNext ==
  ready # <<>> /\ Head(ready).what = "cancel" /\ task[Head(ready).req].begun

-----------------------------------------------------------------------------
(* The first step *)

\* Mutant: the first step runs in the server's context.
EagerContext_Server(r) == Server

\* ctx, which asgi_coro_step enters around the first send().
EagerContext(r) == r

\* The context that the Task was created with.
TaskContext(r) == r

\* run_asgi_request up to the application's first step: copy_context, and
\* _enter_task, which would raise if there were a current task.
Dispatch(r) ==
  /\ LoopIsFree /\ cur = Nobody
  /\ app[r].at = "unborn"
  /\ app' = [app EXCEPT ![r].at = "running"]
  /\ ctx' = [ctx EXCEPT ![r] = ctx[Server]]
  /\ here' = [who |-> r, ctx |-> EagerContext(r), eager |-> TRUE]
  /\ cur' = r
  /\ UNCHANGED <<env, task, std, ready>>

\* The application returns or raises in its first step, and _leave_task runs
\* either way: no Task.
EndsInline ==
  /\ here.who # Nobody /\ here.eager
  /\ app' = [app EXCEPT ![here.who].at = "over"]
  /\ here' = Loop /\ cur' = Nobody
  /\ UNCHANGED <<env, task, std, ready, ctx>>

\* Mutant: the cancel goes straight to the Task.
Replay_Straight(r) ==
  /\ task' = [task EXCEPT ![r] = [at |-> "ready", begun |-> FALSE, must |-> std[r].cancel]]
  /\ ready' = Append(ready, [req |-> r, what |-> "step"])

\* create_task, and the cancel that came before there was a Task: handed to
\* the loop, behind the Task's first step.
Replay(r) ==
  /\ task' = [task EXCEPT ![r] = [at |-> "ready", begun |-> FALSE, must |-> FALSE]]
  /\ ready' = ready \o <<[req |-> r, what |-> "step"]>>
                    \o (IF std[r].cancel THEN <<[req |-> r, what |-> "cancel"]>> ELSE <<>>)

Yielding(a, trap) ==
  [a EXCEPT !.at = "suspended", !.trap = trap, !.n = @ + 1,
            !.fut = IF trap = "future" THEN "pending" ELSE "none"]

\* The first step suspends: the rest of run_asgi_request.
SuspendsInline ==
  /\ here.who # Nobody /\ here.eager
  /\ LET r == here.who IN
     /\ app[r].n < MaxAwaits
     /\ \E trap \in env.waits : app' = [app EXCEPT ![r] = Yielding(@, trap)]
     /\ Replay(r)
     /\ std' = [std EXCEPT ![r].task = TRUE]
  /\ here' = Loop /\ cur' = Nobody
  /\ UNCHANGED <<env, ctx>>

-----------------------------------------------------------------------------
(* The continuation *)

\* trap = _step(coro): the coroutine goes on, and finds out about its future
\* there; a cancelled one raises CancelledError at the await.
Resume(r) ==
  /\ app' = [app EXCEPT ![r].at = "running", ![r].trap = "none", ![r].fut = "none",
                        ![r].owed = @ /\ app[r].fut # "cancelled"]
  /\ task' = [task EXCEPT ![r] = [at |-> "ready", begun |-> TRUE, must |-> FALSE]]
  /\ here' = [who |-> r, ctx |-> TaskContext(r), eager |-> FALSE]
  /\ cur' = r
  /\ UNCHANGED std

\* The Task is over; the finally of _finish breaks the cycle.
Ended(r) ==
  /\ task' = [task EXCEPT ![r] = [at |-> "ended", begun |-> TRUE, must |-> FALSE]]
  /\ std' = [std EXCEPT ![r].task = FALSE]
  /\ here' = Loop /\ cur' = Nobody

\* coro.close(): GeneratorExit at the await ends the coroutine, or raises
\* RuntimeError in its turn if the coroutine awaits once more.
Close(a, r) ==
  app' = [a EXCEPT ![r].at = IF Fault("stubborn") THEN "dangling" ELSE "over"]

\* Mutant: _finish parks on a future that is done already.
Pending_Always(f) == TRUE

\* Future.__await__ yields the future only while it is pending.
Pending(f) == f = "pending"

\* One turn of the loop of _finish, up to where the Task is suspended again.
\* A Task with a cancel pending cancels the future it is about to wait for.
Await(a, r, q) ==
  \/ /\ a[r].trap = "yield"
     /\ app' = a
     /\ task' = [task EXCEPT ![r].at = "ready", ![r].begun = TRUE]
     /\ ready' = Append(q, [req |-> r, what |-> "step"])
     /\ here' = Loop /\ cur' = Nobody
     /\ UNCHANGED std
  \/ /\ a[r].trap = "future" /\ Pending(a[r].fut)
     /\ app' = [a EXCEPT ![r].fut = IF task[r].must THEN "cancelled" ELSE @]
     /\ task' = [task EXCEPT ![r] = [at |-> "parked", begun |-> TRUE, must |-> FALSE]]
     /\ ready' = IF task[r].must THEN Append(q, [req |-> r, what |-> "wakeup"]) ELSE q
     /\ here' = Loop /\ cur' = Nobody
     /\ UNCHANGED std
  \/ a[r].trap = "future" /\ ~Pending(a[r].fut) /\ Resume(r) /\ ready' = q
  \/ a[r].trap = "garbage" /\ Close(a, r) /\ Ended(r) /\ ready' = q

\* Task.__step of a Task that nobody woke: its first step, or the one after
\* a sleep(0).  A cancel pending is thrown into _finish: before its first
\* line, where nothing of it runs, or into its sleep(0), where it closes.
Step(r, q) ==
  \/ ~task[r].must /\ ~task[r].begun /\ Await(app, r, q)
  \/ ~task[r].must /\ task[r].begun /\ Resume(r) /\ ready' = q
  \/ /\ task[r].must /\ ~task[r].begun
     /\ task' = [task EXCEPT ![r].at = "ended", ![r].must = FALSE]
     /\ ready' = q
     /\ UNCHANGED <<app, std, here, cur>>
  \/ task[r].must /\ task[r].begun /\ Close(app, r) /\ Ended(r) /\ ready' = q

\* Task.__wakeup: whatever comes out of "await trap", be it the future's own
\* failure or a cancel of the Task, is swallowed, and the coroutine resumed.
Wakeup(r, q) == Resume(r) /\ ready' = q

-----------------------------------------------------------------------------
(* Cancelling *)

\* Mutant: a cancel without a Task is forgotten.
Cancel_Dropped(r) ==
  /\ ~std[r].task
  /\ app' = [app EXCEPT ![r].owed = app[r].at = "running"]
  /\ std' = [std EXCEPT ![r].calls = @ + 1]
  /\ UNCHANGED <<task, ready>>

\* _Request.cancel without a Task to forward to: kept for Replay, and of no
\* use if the application is over.
CancelEarly(r) ==
  /\ ~std[r].task
  /\ app' = [app EXCEPT ![r].owed = app[r].at = "running"]
  /\ std' = [std EXCEPT ![r].calls = @ + 1, ![r].cancel = TRUE]
  /\ UNCHANGED <<task, ready>>

\* Task.cancel: it cancels the future that the Task is parked on; with none,
\* or one that is done, it leaves the cancel to the next step.
TaskCancel(r, q) ==
  \/ /\ task[r].at = "ended"
     /\ ready' = q /\ UNCHANGED <<app, task>>
  \/ /\ task[r].at = "parked" /\ app[r].fut = "pending"
     /\ app' = [app EXCEPT ![r].fut = "cancelled", ![r].owed = TRUE]
     /\ ready' = Append(q, [req |-> r, what |-> "wakeup"])
     /\ UNCHANGED task
  \/ /\ task[r].at = "ready" \/ (task[r].at = "parked" /\ app[r].fut # "pending")
     /\ app' = [app EXCEPT ![r].owed = TRUE]
     /\ task' = [task EXCEPT ![r].must = TRUE]
     /\ ready' = q

CancelForwarded(r) ==
  /\ std[r].task
  /\ TaskCancel(r, ready)
  /\ std' = [std EXCEPT ![r].calls = @ + 1]

Cancel(r) ==
  /\ std[r].calls < MaxCancels
  /\ CancelEarly(r) \/ CancelForwarded(r)
  /\ UNCHANGED <<env, here, cur, ctx>>

\* The application cancels itself.
CancelsItself == here.who # Nobody /\ Cancel(here.who)

\* A later callback of the loop does: a Timeout's, a TaskGroup's, anybody's
\* who kept current_task().
CallbackCancels(r) ==
  /\ LoopIsFree /\ ~ReplayNext /\ app[r].at = "suspended" /\ task[r].begun
  /\ (task[r].at = "parked" /\ app[r].fut # "pending") => Fault("tooLate")
  /\ Cancel(r)

\* asyncio.timeout(0): the first step queues a callback that will cancel.
Expires ==
  /\ Fault("expired") /\ here.who # Nobody /\ here.eager
  /\ std[here.who].calls < MaxCancels
  /\ ready' = Append(ready, [req |-> here.who, what |-> "cancel"])
  /\ std' = [std EXCEPT ![here.who].calls = @ + 1]
  /\ UNCHANGED <<env, app, task, here, cur, ctx>>

-----------------------------------------------------------------------------
(* The loop, the application's code, and what it waits for *)

RunHandle ==
  /\ LoopIsFree /\ ready # <<>>
  /\ LET h == Head(ready) q == Tail(ready) IN
     \/ h.what = "step" /\ Step(h.req, q)
     \/ h.what = "wakeup" /\ Wakeup(h.req, q)
     \/ /\ h.what = "cancel"
        /\ IF task[h.req].at = "none" THEN ready' = q /\ UNCHANGED <<app, task>>
                                      ELSE TaskCancel(h.req, q)
        /\ UNCHANGED <<std, here, cur>>
  /\ UNCHANGED <<env, ctx>>

SetsVar ==
  /\ here.who # Nobody /\ ~app[here.who].set
  /\ app' = [app EXCEPT ![here.who].set = TRUE]
  /\ ctx' = [ctx EXCEPT ![here.ctx] = here.who]
  /\ UNCHANGED <<env, task, std, ready, here, cur>>

\* A resumed coroutine returns or raises, and _finish and its Task with it.
Ends ==
  /\ here.who # Nobody /\ ~here.eager
  /\ app' = [app EXCEPT ![here.who].at = "over"]
  /\ Ended(here.who)
  /\ UNCHANGED <<env, ready, ctx>>

\* It yields again: the next turn of _finish, in the same step of the Task.
Suspends ==
  /\ here.who # Nobody /\ ~here.eager
  /\ LET r == here.who IN
     /\ app[r].n < MaxAwaits
     /\ \E trap \in env.waits :
          Await([app EXCEPT ![r] = Yielding(@, trap)], r, ready)
  /\ UNCHANGED <<env, ctx>>

\* Mutant: a Task is woken that has not come to wait yet.
Woken_Always(r) == <<[req |-> r, what |-> "wakeup"]>>

\* The future's callback: the Task that is parked on it.
Woken(r) == IF task[r].at = "parked" THEN <<[req |-> r, what |-> "wakeup"]>> ELSE <<>>

\* The awaited future completes, fails or is cancelled by somebody else;
\* a parked Task is woken.
FutureEnds(r) ==
  /\ LoopIsFree /\ ~ReplayNext /\ app[r].fut = "pending"
  /\ \E how \in {"done", "failed", "cancelled"} : app' = [app EXCEPT ![r].fut = how]
  /\ ready' = ready \o Woken(r)
  /\ UNCHANGED <<env, task, std, here, cur, ctx>>

-----------------------------------------------------------------------------
Next ==
  \/ \E r \in Req : Dispatch(r) \/ CallbackCancels(r) \/ FutureEnds(r)
  \/ EndsInline \/ SuspendsInline \/ CancelsItself \/ Expires
  \/ RunHandle \/ SetsVar \/ Ends \/ Suspends

Spec == Init /\ [][Next]_vars

\* The loop turns while it has callbacks ready (AsgiLoop's ReadyRuns), and an
\* application's step comes to an end.  Nothing is assumed of futures.
FairSpec ==
  /\ Spec
  /\ WF_vars(RunHandle)
  /\ WF_vars(EndsInline \/ SuspendsInline \/ Ends \/ Suspends)

-----------------------------------------------------------------------------
\* What the code says it does about a cancel holds except in two cases.
CancelsInTime == env.faults \cap {"expired", "tooLate"} = {}

(***************************************************************************)
(* The queue holds one step of a Task that is to go on, and none of one    *)
(* that waits, runs or is over: no coroutine is resumed twice for one      *)
(* await, nor while it runs, nor after its end.                            *)
(***************************************************************************)
Resumes(r) == {i \in DOMAIN ready : ready[i].req = r /\ ready[i].what # "cancel"}

OneStepQueued ==
  \A r \in Req :
    Cardinality(Resumes(r)) =
      IF \/ task[r].at = "ready" /\ here.who # r
         \/ task[r].at = "parked" /\ app[r].fut # "pending" THEN 1 ELSE 0

\* The types, and the queue in step with the Tasks.
Consistent == TypeOK /\ OneStepQueued

(***************************************************************************)
(* A Task that is over has not left its application suspended ("Close the  *)
(* coroutine so its finally blocks run and it is not left dangling"), and  *)
(* the stand-in no longer refers to it.                                    *)
(***************************************************************************)
NoneAbandoned ==
  CancelsInTime =>
    \A r \in Req : task[r].at = "ended" => app[r].at # "suspended" /\ ~std[r].task

(***************************************************************************)
(* An application finds in its ContextVar what it has put there, before    *)
(* and after it suspends, and nothing that another request has; and        *)
(* current_task() speaks for the application that runs, and for nobody     *)
(* between callbacks, where the next _enter_task would raise.              *)
(***************************************************************************)
RunsAsItself ==
  /\ cur = here.who
  /\ here.who # Nobody => ctx[here.ctx] = IF app[here.who].set THEN here.who ELSE Nobody

(***************************************************************************)
(* A cancel() that was accepted shows itself to the application, unless it *)
(* is over, or closed, first, whenever it came: in the first step, between *)
(* two steps, while it waits or while it runs.                             *)
(***************************************************************************)
Served(r) == ~app[r].owed \/ app[r].at \in {"over", "dangling"}

CancelIsServed == \A r \in Req : (app[r].owed /\ CancelsInTime) ~> Served(r)

(***************************************************************************)
(* The same without exception: "cancelling this Task cancels `trap`, and   *)
(* the app sees the CancelledError at its own await point".                *)
(***************************************************************************)
CancelNeverLost == \A r \in Req : app[r].owed ~> Served(r)

(***************************************************************************)
(* What an application awaits does not keep it waiting once it is done.    *)
(***************************************************************************)
WakesUp ==
  \A r \in Req : (app[r].at = "suspended" /\ app[r].fut # "pending" /\ CancelsInTime)
                   ~> (app[r].at # "suspended" \/ app[r].fut = "pending")

=============================================================================
