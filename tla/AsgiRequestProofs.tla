------------------------- MODULE AsgiRequestProofs --------------------------
(***************************************************************************)
(* Proofs about AsgiRequest, for any set of requests and any bounds: the   *)
(* ready queue is in step with the Tasks, every application runs as itself *)
(* in its own context, and a cancel in time abandons none of them.         *)
(***************************************************************************)
EXTENDS AsgiRequest, FiniteSetTheorems, SequenceTheorems, TLAPS

IsResume(h, r) == h.req = r /\ h.what # "cancel"

\* The queue s holds no, or exactly one, resumption of request r.
None(s, r) == \A i \in 1..Len(s) : ~IsResume(s[i], r)
One(s, r) ==
  \E i \in 1..Len(s) : IsResume(s[i], r) /\ \A j \in 1..Len(s) : IsResume(s[j], r) => j = i

\* A request's Task has to have one step, or one wakeup, queued.
IsDue(t, a, r, who) ==
  \/ t[r].at = "ready" /\ who # r
  \/ t[r].at = "parked" /\ a[r].fut # "pending"

QueueInv ==
  \A r \in Req : IF IsDue(task, app, r, here.who) THEN One(ready, r) ELSE None(ready, r)

\* Who runs, and how a Task comes about: by a first step that suspends.
RunInv ==
  /\ cur = here.who
  /\ here.who = Nobody => here = Loop
  /\ here.who # Nobody => here.ctx = here.who
  /\ \A r \in Req :
       /\ app[r].at = "running" <=> here.who = r
       /\ app[r].at = "unborn" => task[r].at = "none" /\ ~app[r].set
       /\ (here.who = r /\ here.eager) => task[r].at = "none"
       /\ (here.who = r /\ ~here.eager) => task[r].at = "ready" /\ task[r].begun
       /\ task[r].at = "none" => ~task[r].begun /\ ~task[r].must
       /\ (task[r].at \in {"ready", "parked"} /\ here.who # r) => app[r].at = "suspended"

\* Each context belongs to one request, and nobody sets the server's.
CtxInv ==
  /\ ctx[Server] = Nobody
  /\ \A r \in Req : ctx[r] = IF app[r].set THEN r ELSE Nobody

\* A cancel in the queue s comes behind the first step of its Task.
Behind(s, t) ==
  \A i \in 1..Len(s) : s[i].what = "cancel" =>
    /\ t[s[i].req].at # "none"
    /\ \/ t[s[i].req].begun
       \/ \E j \in 1..(i - 1) : IsResume(s[j], s[i].req)

\* So no cancel is pending on a Task that has not begun, which would end
\* without its coroutine.
CancelInv ==
  "expired" \notin env.faults =>
    /\ Behind(ready, task)
    /\ \A r \in Req : ~task[r].begun => ~task[r].must
    /\ \A r \in Req : task[r].at = "ended" => app[r].at # "suspended" /\ ~std[r].task

Inv == TypeOK /\ RunInv /\ QueueInv /\ CtxInv /\ CancelInv

-----------------------------------------------------------------------------
(* The queue *)

\* Appending a handle.
LEMMA AppendLemma ==
  ASSUME NEW s \in Seq(Handle), NEW h \in Handle, NEW r \in Req
  PROVE  /\ Append(s, h) \in Seq(Handle)
         /\ None(s, r) /\ IsResume(h, r) => One(Append(s, h), r)
         /\ None(s, r) /\ ~IsResume(h, r) => None(Append(s, h), r)
         /\ One(s, r) /\ ~IsResume(h, r) => One(Append(s, h), r)
<1> DEFINE u == Append(s, h)
<1>1. /\ u \in Seq(Handle) /\ Len(s) \in Nat /\ Len(u) = Len(s) + 1
      /\ \A i \in 1..Len(s) : u[i] = s[i]
      /\ u[Len(s) + 1] = h
  BY AppendProperties, LenProperties
<1> HIDE DEF u
<1>2. None(s, r) /\ IsResume(h, r) => One(u, r)
  <2> SUFFICES ASSUME None(s, r), IsResume(h, r) PROVE One(u, r)
    OBVIOUS
  <2>1. \A j \in 1..Len(u) : IsResume(u[j], r) => j = Len(s) + 1
    BY <1>1 DEF None
  <2> QED
    BY <1>1, <2>1 DEF One
<1>3. None(s, r) /\ ~IsResume(h, r) => None(u, r)
  BY <1>1 DEF None
<1>4. One(s, r) /\ ~IsResume(h, r) => One(u, r)
  <2> SUFFICES ASSUME One(s, r), ~IsResume(h, r) PROVE One(u, r)
    OBVIOUS
  <2>1. PICK i \in 1..Len(s) : IsResume(s[i], r) /\ \A j \in 1..Len(s) : IsResume(s[j], r) => j = i
    BY DEF One
  <2>2. IsResume(u[i], r) /\ \A j \in 1..Len(u) : IsResume(u[j], r) => j = i
    BY <1>1, <2>1
  <2> QED
    BY <1>1, <2>2 DEF One
<1> QED
  BY <1>1, <1>2, <1>3, <1>4 DEF u

\* Taking the handle at the head.
LEMMA TailLemma ==
  ASSUME NEW s \in Seq(Handle), s # <<>>, NEW r \in Req
  PROVE  /\ Tail(s) \in Seq(Handle) /\ Head(s) \in Handle
         /\ IsResume(Head(s), r) => ~None(s, r)
         /\ One(s, r) /\ IsResume(Head(s), r) => None(Tail(s), r)
         /\ None(s, r) => None(Tail(s), r)
         /\ One(s, r) /\ ~IsResume(Head(s), r) => One(Tail(s), r)
<1> DEFINE u == Tail(s)
<1>1. /\ u \in Seq(Handle) /\ Head(s) \in Handle /\ Len(s) \in Nat \ {0} /\ Len(u) = Len(s) - 1
      /\ \A i \in 1..Len(u) : u[i] = s[i + 1]
      /\ Head(s) = s[1]
  BY HeadTailProperties, EmptySeq
<1> HIDE DEF u
<1>2. IsResume(Head(s), r) => ~None(s, r)
  BY <1>1 DEF None
<1>3. One(s, r) /\ IsResume(Head(s), r) => None(u, r)
  <2> SUFFICES ASSUME One(s, r), IsResume(Head(s), r), NEW k \in 1..Len(u), IsResume(u[k], r)
               PROVE  FALSE
    BY DEF None
  <2>1. PICK i \in 1..Len(s) : \A j \in 1..Len(s) : IsResume(s[j], r) => j = i
    BY DEF One
  <2>2. 1 \in 1..Len(s) /\ k + 1 \in 1..Len(s) /\ IsResume(s[1], r) /\ IsResume(s[k + 1], r)
    BY <1>1
  <2> QED
    BY <2>1, <2>2
<1>4. None(s, r) => None(u, r)
  BY <1>1 DEF None
<1>5. One(s, r) /\ ~IsResume(Head(s), r) => One(u, r)
  <2> SUFFICES ASSUME One(s, r), ~IsResume(Head(s), r) PROVE One(u, r)
    OBVIOUS
  <2>1. PICK i \in 1..Len(s) : IsResume(s[i], r) /\ \A j \in 1..Len(s) : IsResume(s[j], r) => j = i
    BY DEF One
  <2>2. i - 1 \in 1..Len(u) /\ u[i - 1] = s[i]
    BY <1>1, <2>1
  <2>3. ASSUME NEW j \in 1..Len(u), IsResume(u[j], r)
        PROVE  j = i - 1
    <3>1. j + 1 \in 1..Len(s) /\ IsResume(s[j + 1], r)
      BY <1>1, <2>3
    <3> QED
      BY <2>1, <3>1
  <2> QED
    BY <2>1, <2>2, <2>3 DEF One
<1> QED
  BY <1>1, <1>2, <1>3, <1>4, <1>5 DEF u

\* A cancel stays behind its Task's first step when another handle joins the
\* queue, unless that is a cancel itself with nothing before it.
LEMMA BehindAppend ==
  ASSUME NEW s \in Seq(Handle), NEW h \in Handle, NEW t, Behind(s, t),
         h.what = "cancel" => /\ t[h.req].at # "none"
                              /\ t[h.req].begun \/ ~None(s, h.req)
  PROVE  Behind(Append(s, h), t)
<1> DEFINE u == Append(s, h)
<1>1. /\ u \in Seq(Handle) /\ Len(s) \in Nat /\ Len(u) = Len(s) + 1
      /\ \A i \in 1..Len(s) : u[i] = s[i]
      /\ u[Len(s) + 1] = h
  BY AppendProperties, LenProperties
<1> HIDE DEF u
<1> SUFFICES ASSUME NEW i \in 1..Len(u), u[i].what = "cancel"
             PROVE  /\ t[u[i].req].at # "none"
                    /\ t[u[i].req].begun \/ \E j \in 1..(i - 1) : IsResume(u[j], u[i].req)
  BY DEF Behind, u
<1>2. CASE i \in 1..Len(s)
  BY <1>1, <1>2 DEF Behind
<1>3. CASE i = Len(s) + 1
  BY <1>1, <1>3 DEF None
<1> QED
  BY <1>1, <1>2, <1>3

\* It stays so when the head is taken, if that was no resumption or its Task
\* has begun.
LEMMA BehindTail ==
  ASSUME NEW s \in Seq(Handle), s # <<>>, NEW t, NEW v, Behind(s, t),
         \A r \in Req : t[r].at # "none" => v[r].at # "none",
         \A r \in Req : v[r].begun \/ (~t[r].begun /\ ~IsResume(Head(s), r))
  PROVE  Behind(Tail(s), v)
<1> DEFINE u == Tail(s)
<1>1. /\ u \in Seq(Handle) /\ Head(s) \in Handle /\ Len(s) \in Nat \ {0} /\ Len(u) = Len(s) - 1
      /\ \A i \in 1..Len(u) : u[i] = s[i + 1]
      /\ Head(s) = s[1]
  BY HeadTailProperties, EmptySeq
<1> HIDE DEF u
<1> SUFFICES ASSUME NEW i \in 1..Len(u), u[i].what = "cancel"
             PROVE  /\ v[u[i].req].at # "none"
                    /\ v[u[i].req].begun \/ \E j \in 1..(i - 1) : IsResume(u[j], u[i].req)
  BY DEF Behind, u
<1> DEFINE r == u[i].req
<1>2. r \in Req /\ i + 1 \in 1..Len(s) /\ u[i] = s[i + 1]
  <2>1. u[i] \in Handle
    BY <1>1, ElementOfSeq
  <2> QED
    BY <1>1, <2>1 DEF Handle
<1>3. t[r].at # "none" /\ (t[r].begun \/ \E j \in 1..i : IsResume(s[j], r))
  BY <1>2 DEF Behind
<1>4. CASE v[r].begun
  BY <1>2, <1>3, <1>4
<1>5. CASE ~v[r].begun
  <2>1. ~t[r].begun /\ ~IsResume(s[1], r)
    BY <1>1, <1>2, <1>5
  <2>2. PICK j \in 1..i : IsResume(s[j], r)
    BY <1>3, <2>1
  <2>3. j # 1 /\ j - 1 \in 1..(i - 1) /\ j - 1 \in 1..Len(u) /\ u[j - 1] = s[j]
    BY <1>1, <2>1, <2>2
  <2> QED
    BY <1>2, <1>3, <2>2, <2>3
<1> QED
  BY <1>4, <1>5

-----------------------------------------------------------------------------
(* A turn of a Task *)

\* What a step of request r's Task leaves behind, the handle that began it
\* taken from the queue and q the rest: nobody else is touched, it is queued
\* once if it is to go on, and it has begun, unless a cancel ended it first.
Turned(r, q) ==
  /\ app' \in [Req -> App] /\ task' \in [Req -> Task] /\ std' \in [Req -> StandIn]
  /\ \A x \in Req \ {r} : app'[x] = app[x] /\ task'[x] = task[x] /\ std'[x] = std[x]
  /\ app'[r].set = app[r].set /\ app'[r].at # "unborn"
  /\ \/ here' = Loop /\ app'[r].at # "running"
     \/ here' = [who |-> r, ctx |-> r, eager |-> FALSE] /\ app'[r].at = "running"
        /\ task'[r].at = "ready"
  /\ cur' = here'.who
  /\ task'[r].at # "none"
  /\ (here' = Loop /\ task'[r].at # "ended") => app'[r].at = "suspended"
  /\ \/ task'[r].begun /\ (task'[r].at = "ended" => app'[r].at # "suspended" /\ ~std'[r].task)
     \/ here' = Loop /\ task[r].must /\ ~task[r].begun
  /\ IF IsDue(task', app', r, here'.who)
       THEN ready' \in {Append(q, [req |-> r, what |-> "step"]), Append(q, [req |-> r, what |-> "wakeup"])}
       ELSE ready' = q

\* _step(coro) resumes the coroutine.
LEMMA ResumeLemma ==
  ASSUME TypeOK, NEW r \in Req, NEW q, Resume(r), ready' = q
  PROVE  Turned(r, q)
<1> DEFINE b1 == [app[r] EXCEPT !.at = "running"]
           b2 == [b1 EXCEPT !.trap = "none"]
           b3 == [b2 EXCEPT !.fut = "none"]
           a == [b3 EXCEPT !.owed = b3.owed /\ app[r].fut # "cancelled"]
           t == [at |-> "ready", begun |-> TRUE, must |-> FALSE]
<1>1. app[r] \in App /\ r \in DOMAIN app
  BY DEF TypeOK
<1>2. a \in App /\ a.at = "running" /\ a.set = app[r].set /\ t \in Task
  <2>1. b3 \in App /\ b3.at = "running" /\ b3.set = app[r].set
    BY <1>1 DEF App
  <2> HIDE DEF b3
  <2>2. (b3.owed /\ app[r].fut # "cancelled") \in BOOLEAN
    OBVIOUS
  <2> QED
    BY <2>1, <2>2 DEF App, Task
<1>3. app' = [app EXCEPT ![r] = a]
  BY <1>1, Zenon DEF Resume
<1>4. task' = [task EXCEPT ![r] = t] /\ std' = std /\ cur' = r
      /\ here' = [who |-> r, ctx |-> r, eager |-> FALSE]
  BY DEF Resume, TaskContext
<1> HIDE DEF a
<1>5. app'[r] = a /\ task'[r] = t /\ \A x \in Req \ {r} : app'[x] = app[x] /\ task'[x] = task[x]
  BY <1>3, <1>4 DEF TypeOK
<1>6. here' # Loop
  BY <1>4, RequestAssumption DEF Loop
<1> QED
  BY <1>2, <1>3, <1>4, <1>5, <1>6 DEF Turned, TypeOK, IsDue

\* The Task is over, and its coroutine closed.
LEMMA ClosedLemma ==
  ASSUME TypeOK, NEW r \in Req, NEW q, NEW a \in [Req -> App],
         \A x \in Req \ {r} : a[x] = app[x], a[r].set = app[r].set,
         Close(a, r), Ended(r), ready' = q
  PROVE  Turned(r, q)
<1> DEFINE c == [a[r] EXCEPT !.at = IF Fault("stubborn") THEN "dangling" ELSE "over"]
           t == [at |-> "ended", begun |-> TRUE, must |-> FALSE]
           w == [std[r] EXCEPT !.task = FALSE]
<1>1. a[r] \in App /\ std[r] \in StandIn
  BY DEF TypeOK
<1>2. c \in App /\ c.set = app[r].set /\ c.at \in {"dangling", "over"} /\ t \in Task
      /\ w \in StandIn /\ ~w.task
  BY <1>1 DEF App, Task, StandIn
<1>3. app' = [a EXCEPT ![r] = c] /\ task' = [task EXCEPT ![r] = t] /\ std' = [std EXCEPT ![r] = w]
      /\ here' = Loop /\ cur' = Nobody
  BY Zenon DEF Close, Ended
<1> HIDE DEF c, t, w
<1>4. app'[r] = c /\ task'[r] = t /\ std'[r] = w
      /\ \A x \in Req \ {r} : app'[x] = app[x] /\ task'[x] = task[x] /\ std'[x] = std[x]
  BY <1>3 DEF TypeOK
<1>5. t.at = "ended" /\ t.begun
  BY DEF t
<1> QED
  BY <1>2, <1>3, <1>4, <1>5 DEF Turned, TypeOK, IsDue, Loop

\* One turn of the loop of _finish.
LEMMA AwaitLemma ==
  ASSUME TypeOK, NEW r \in Req, NEW q \in Seq(Handle), NEW a \in [Req -> App],
         \A x \in Req \ {r} : a[x] = app[x], a[r].set = app[r].set, a[r].at = "suspended",
         Await(a, r, q)
  PROVE  Turned(r, q)
<1>1. a[r] \in App /\ task[r] \in Task /\ r \in DOMAIN task /\ r \in DOMAIN a
  BY DEF TypeOK
<1>2. ASSUME app' = a, ready' = Append(q, [req |-> r, what |-> "step"]), here' = Loop, cur' = Nobody,
             std' = std, task' = [task EXCEPT ![r].at = "ready", ![r].begun = TRUE]
      PROVE  Turned(r, q)
  <2> DEFINE t == [[task[r] EXCEPT !.at = "ready"] EXCEPT !.begun = TRUE]
  <2>1. task' = [task EXCEPT ![r] = t]
    BY <1>1, <1>2, Zenon
  <2>2. t \in Task /\ t.at = "ready" /\ t.begun
    BY <1>1 DEF Task
  <2> HIDE DEF t
  <2>3. task'[r] = t /\ \A x \in Req \ {r} : task'[x] = task[x]
    BY <2>1 DEF TypeOK
  <2> QED
    BY <1>2, <2>1, <2>2, <2>3, RequestAssumption DEF Turned, TypeOK, IsDue, Loop
<1>3. ASSUME Pending(a[r].fut), app' = [a EXCEPT ![r].fut = IF task[r].must THEN "cancelled" ELSE @],
             task' = [task EXCEPT ![r] = [at |-> "parked", begun |-> TRUE, must |-> FALSE]],
             ready' = IF task[r].must THEN Append(q, [req |-> r, what |-> "wakeup"]) ELSE q,
             here' = Loop, cur' = Nobody, std' = std
      PROVE  Turned(r, q)
  <2> DEFINE t == [at |-> "parked", begun |-> TRUE, must |-> FALSE]
             c == [a[r] EXCEPT !.fut = IF task[r].must THEN "cancelled" ELSE a[r].fut]
  <2>1. app' = [a EXCEPT ![r] = c] /\ task' = [task EXCEPT ![r] = t]
    BY <1>3, Zenon
  <2>2. t \in Task /\ c \in App /\ c.set = a[r].set /\ c.at = "suspended"
        /\ c.fut = IF task[r].must THEN "cancelled" ELSE "pending"
    BY <1>1, <1>3 DEF Task, App, Pending
  <2> HIDE DEF c
  <2>3. task'[r] = t /\ app'[r] = c /\ \A x \in Req \ {r} : task'[x] = task[x] /\ app'[x] = app[x]
    BY <2>1 DEF TypeOK
  <2>4. task'[r].at = "parked" /\ task'[r].begun /\ (app'[r].fut = "pending" <=> ~task[r].must)
    BY <2>2, <2>3
  <2>5. app' \in [Req -> App] /\ task' \in [Req -> Task]
    BY <2>1, <2>2 DEF TypeOK
  <2> QED
    BY <1>3, <2>2, <2>3, <2>4, <2>5 DEF Turned, TypeOK, IsDue, Loop
<1> QED
  BY <1>2, <1>3, ResumeLemma, ClosedLemma DEF Await

\* Task.__step.
LEMMA StepLemma ==
  ASSUME TypeOK, NEW r \in Req, NEW q \in Seq(Handle), app[r].at = "suspended",
         here = Loop, cur = Nobody, Step(r, q)
  PROVE  Turned(r, q)
<1>1. CASE ~task[r].must /\ ~task[r].begun /\ Await(app, r, q)
  BY <1>1, AwaitLemma DEF TypeOK
<1>2. CASE ~task[r].must /\ task[r].begun /\ Resume(r) /\ ready' = q
  BY <1>2, ResumeLemma
<1>3. ASSUME task[r].must, ~task[r].begun, ready' = q, UNCHANGED <<app, std, here, cur>>,
             task' = [task EXCEPT ![r].at = "ended", ![r].must = FALSE]
      PROVE  Turned(r, q)
  <2> DEFINE t == [[task[r] EXCEPT !.at = "ended"] EXCEPT !.must = FALSE]
  <2>1. task[r] \in Task /\ r \in DOMAIN task
    BY DEF TypeOK
  <2>2. task' = [task EXCEPT ![r] = t]
    BY <1>3, <2>1, Zenon
  <2>3. t \in Task /\ t.at = "ended"
    BY <2>1 DEF Task
  <2> HIDE DEF t
  <2>4. task'[r] = t /\ \A x \in Req \ {r} : task'[x] = task[x]
    BY <2>2 DEF TypeOK
  <2> QED
    BY <1>3, <2>2, <2>3, <2>4 DEF Turned, TypeOK, IsDue, Loop
<1>4. CASE task[r].must /\ task[r].begun /\ Close(app, r) /\ Ended(r) /\ ready' = q
  BY <1>4, ClosedLemma DEF TypeOK
<1> QED
  BY <1>1, <1>2, <1>3, <1>4 DEF Step

\* A turn keeps the invariant, when q holds no resumption of r and the others
\* are queued as before.
LEMMA TurnedLemma ==
  ASSUME Inv, NEW r \in Req, NEW q \in Seq(Handle), Turned(r, q), here.who \in {Nobody, r},
         None(q, r),
         \A x \in Req \ {r} : IF IsDue(task, app, x, Nobody) THEN One(q, x) ELSE None(q, x),
         "expired" \notin env.faults => (task'[r].begun => Behind(q, task')) /\ (task[r].must => task[r].begun),
         UNCHANGED <<env, ctx>>
  PROVE  Inv'
<1> USE RequestAssumption DEF Server
<1>1. ready' \in Seq(Handle)
  <2>1. ready' \in {q, Append(q, [req |-> r, what |-> "step"]), Append(q, [req |-> r, what |-> "wakeup"])}
    BY DEF Turned
  <2>2. [req |-> r, what |-> "step"] \in Handle /\ [req |-> r, what |-> "wakeup"] \in Handle
    BY DEF Handle
  <2> QED
    BY <2>1, <2>2, AppendProperties
<1>2. TypeOK'
  <2>1. here' \in [who : Req \cup {Nobody}, ctx : Contexts, eager : BOOLEAN]
        /\ cur' \in Req \cup {Nobody}
    <3>1. here' = Loop \/ here' = [who |-> r, ctx |-> r, eager |-> FALSE]
      BY DEF Turned
    <3>2. CASE here' = Loop
      BY <3>2 DEF Turned, Loop, Contexts
    <3>3. CASE here' = [who |-> r, ctx |-> r, eager |-> FALSE]
      BY <3>3 DEF Turned, Contexts
    <3> QED
      BY <3>1, <3>2, <3>3
  <2>2. env' \in Environment /\ ctx' \in [Contexts -> Req \cup {Nobody}]
    BY DEF Inv, TypeOK
  <2> QED
    BY <1>1, <2>1, <2>2 DEF Turned, TypeOK
<1>3. RunInv'
  <2>1. here'.who \in {Nobody, r} /\ cur' = here'.who
        /\ (here'.who = Nobody => here' = Loop) /\ (here'.who = r => here'.ctx = r /\ ~here'.eager)
    BY DEF Turned, Loop
  <2>2. ASSUME NEW x \in Req \ {r}
        PROVE  /\ app'[x].at = "running" <=> here'.who = x
               /\ app'[x].at = "unborn" => task'[x].at = "none" /\ ~app'[x].set
               /\ here'.who # x
               /\ task'[x].at = "none" => ~task'[x].begun /\ ~task'[x].must
               /\ task'[x].at \in {"ready", "parked"} => app'[x].at = "suspended"
    BY <2>1, <2>2 DEF Inv, RunInv, Turned
  <2>3. /\ app'[r].at = "running" <=> here'.who = r
        /\ app'[r].at # "unborn" /\ task'[r].at # "none"
        /\ here'.who = r => ~here'.eager /\ task'[r].at = "ready" /\ task'[r].begun
        /\ here'.who # r => task'[r].at = "ended" \/ app'[r].at = "suspended"
    BY <2>1 DEF Turned, Loop
  <2> QED
    BY <2>1, <2>2, <2>3 DEF RunInv
<1>4. QueueInv'
  <2>1. ASSUME NEW x \in Req \ {r}
        PROVE  IF IsDue(task, app, x, Nobody) THEN One(ready', x) ELSE None(ready', x)
    <3>1. CASE ready' = q
      BY <3>1
    <3>2. ASSUME NEW w \in {"step", "wakeup"}, ready' = Append(q, [req |-> r, what |-> w])
          PROVE  IF IsDue(task, app, x, Nobody) THEN One(ready', x) ELSE None(ready', x)
      <4>1. [req |-> r, what |-> w] \in Handle /\ ~IsResume([req |-> r, what |-> w], x)
        BY DEF Handle, IsResume
      <4> QED
        BY <3>2, <4>1, AppendLemma
    <3> QED
      BY <3>1, <3>2 DEF Turned
  <2>2. ASSUME NEW x \in Req \ {r}
        PROVE  IsDue(task', app', x, here'.who) <=> IsDue(task, app, x, Nobody)
    BY DEF Turned, IsDue, Loop
  <2>3. IF IsDue(task', app', r, here'.who) THEN One(ready', r) ELSE None(ready', r)
    <3>1. CASE IsDue(task', app', r, here'.who)
      <4>1. PICK w \in {"step", "wakeup"} : ready' = Append(q, [req |-> r, what |-> w])
        BY <3>1 DEF Turned
      <4>2. [req |-> r, what |-> w] \in Handle /\ IsResume([req |-> r, what |-> w], r)
        BY DEF Handle, IsResume
      <4> QED
        BY <3>1, <4>1, <4>2, AppendLemma
    <3>2. CASE ~IsDue(task', app', r, here'.who)
      BY <3>2 DEF Turned
    <3> QED
      BY <3>1, <3>2
  <2> QED
    BY <2>1, <2>2, <2>3 DEF QueueInv
<1>5. CtxInv'
  BY DEF Turned, Inv, CtxInv
<1>6. CancelInv'
  <2> SUFFICES ASSUME "expired" \notin env.faults
               PROVE  /\ Behind(ready', task')
                      /\ \A x \in Req : ~task'[x].begun => ~task'[x].must
                      /\ \A x \in Req : task'[x].at = "ended" => app'[x].at # "suspended" /\ ~std'[x].task
    BY DEF CancelInv
  <2>1. task'[r].begun /\ (task'[r].at = "ended" => app'[r].at # "suspended" /\ ~std'[r].task)
    BY DEF Turned
  <2>2. Behind(ready', task')
    <3>1. CASE ready' = q
      BY <2>1, <3>1
    <3>2. ASSUME NEW w \in {"step", "wakeup"}, ready' = Append(q, [req |-> r, what |-> w])
          PROVE  Behind(ready', task')
      <4>1. [req |-> r, what |-> w] \in Handle /\ [req |-> r, what |-> w].what # "cancel"
        BY DEF Handle
      <4> QED
        BY <2>1, <3>2, <4>1, BehindAppend
    <3> QED
      BY <3>1, <3>2 DEF Turned
  <2>3. ASSUME NEW x \in Req \ {r}
        PROVE  /\ ~task'[x].begun => ~task'[x].must
               /\ task'[x].at = "ended" => app'[x].at # "suspended" /\ ~std'[x].task
    BY DEF Turned, Inv, CancelInv
  <2> QED
    BY <2>1, <2>2, <2>3
<1> QED
  BY <1>2, <1>3, <1>4, <1>5, <1>6 DEF Inv

\* Task.cancel, of a Task that has begun.
LEMMA TaskCancelLemma ==
  ASSUME Inv, NEW r \in Req, NEW q \in Seq(Handle), TaskCancel(r, q),
         \A x \in Req : IF IsDue(task, app, x, here.who) THEN One(q, x) ELSE None(q, x),
         "expired" \notin env.faults => Behind(q, task) /\ task[r].begun,
         std' \in [Req -> StandIn], \A x \in Req : std'[x].task = std[x].task,
         UNCHANGED <<env, here, cur, ctx>>
  PROVE  Inv'
<1> DEFINE k == [req |-> r, what |-> "wakeup"]
<1>1. app[r] \in App /\ task[r] \in Task /\ r \in DOMAIN app
  BY DEF Inv, TypeOK
<1>2. k \in Handle /\ IsResume(k, r) /\ k.what # "cancel" /\ \A x \in Req \ {r} : ~IsResume(k, x)
  BY DEF Handle, IsResume
<1> HIDE DEF k
<1>3. ASSUME app' \in [Req -> App], task' \in [Req -> Task], ready' \in Seq(Handle),
             \A x \in Req : /\ app'[x].at = app[x].at /\ app'[x].set = app[x].set
                            /\ task'[x].at = task[x].at /\ task'[x].begun = task[x].begun,
             \A x \in Req \ {r} : task'[x].must = task[x].must,
             task[r].begun \/ task'[r].must = task[r].must,
             task[r].at = "none" => task'[r].must = task[r].must,
             QueueInv', "expired" \notin env.faults => Behind(ready', task')
      PROVE  Inv'
  <2>1. TypeOK' /\ CtxInv'
    BY <1>3 DEF Inv, TypeOK, CtxInv
  <2>2. RunInv'
    BY <1>3 DEF Inv, RunInv, Loop
  <2>3. CancelInv'
    BY <1>3 DEF Inv, CancelInv
  <2> QED
    BY <1>3, <2>1, <2>2, <2>3 DEF Inv
<1>4. CASE task[r].at = "ended" /\ ready' = q /\ UNCHANGED <<app, task>>
  <2>1. QueueInv'
    BY <1>4 DEF QueueInv, IsDue
  <2>2. app' \in [Req -> App] /\ task' \in [Req -> Task]
    BY <1>4 DEF Inv, TypeOK
  <2> QED
    BY <1>3, <1>4, <2>1, <2>2
<1>5. ASSUME task[r].at = "parked", app[r].fut = "pending", UNCHANGED task, ready' = Append(q, k),
             app' = [app EXCEPT ![r].fut = "cancelled", ![r].owed = TRUE]
      PROVE  Inv'
  <2> DEFINE a == [[app[r] EXCEPT !.fut = "cancelled"] EXCEPT !.owed = TRUE]
  <2>1. app' = [app EXCEPT ![r] = a]
    BY <1>1, <1>5, Zenon
  <2>2. a \in App /\ a.fut = "cancelled" /\ a.at = app[r].at /\ a.set = app[r].set
    BY <1>1 DEF App
  <2> HIDE DEF a
  <2>3. app' \in [Req -> App] /\ app'[r] = a /\ \A x \in Req \ {r} : app'[x] = app[x]
    BY <2>1, <2>2 DEF Inv, TypeOK
  <2>4. ready' \in Seq(Handle) /\ ("expired" \notin env.faults => Behind(ready', task'))
    BY <1>2, <1>5, AppendProperties, BehindAppend
  <2>5. QueueInv'
    <3>1. None(q, r)
      BY <1>5 DEF IsDue
    <3>2. One(ready', r) /\ IsDue(task', app', r, here'.who)
      BY <1>2, <1>5, <2>2, <2>3, <3>1, AppendLemma DEF IsDue
    <3>3. ASSUME NEW x \in Req \ {r}
          PROVE  IF IsDue(task', app', x, here'.who) THEN One(ready', x) ELSE None(ready', x)
      BY <1>2, <1>5, <2>3, AppendLemma DEF IsDue
    <3> QED
      BY <3>2, <3>3 DEF QueueInv
  <2> QED
    BY <1>3, <1>5, <2>2, <2>3, <2>4, <2>5, <1>1 DEF Inv, TypeOK
<1>6. ASSUME task[r].at = "ready" \/ (task[r].at = "parked" /\ app[r].fut # "pending"), ready' = q,
             app' = [app EXCEPT ![r].owed = TRUE], task' = [task EXCEPT ![r].must = TRUE]
      PROVE  Inv'
  <2> DEFINE a == [app[r] EXCEPT !.owed = TRUE] t == [task[r] EXCEPT !.must = TRUE]
  <2>1. app' = [app EXCEPT ![r] = a] /\ task' = [task EXCEPT ![r] = t]
    BY <1>6, Zenon
  <2>2. a \in App /\ t \in Task /\ a.at = app[r].at /\ a.set = app[r].set /\ a.fut = app[r].fut
        /\ t.at = task[r].at /\ t.begun = task[r].begun
    BY <1>1 DEF App, Task
  <2> HIDE DEF a, t
  <2>3. app' \in [Req -> App] /\ task' \in [Req -> Task] /\ app'[r] = a /\ task'[r] = t
        /\ \A x \in Req \ {r} : app'[x] = app[x] /\ task'[x] = task[x]
    BY <2>1, <2>2 DEF Inv, TypeOK
  <2>4. \A x \in Req : /\ app'[x].at = app[x].at /\ app'[x].set = app[x].set /\ app'[x].fut = app[x].fut
                       /\ task'[x].at = task[x].at /\ task'[x].begun = task[x].begun
    BY <2>2, <2>3
  <2>5. QueueInv'
    BY <1>6, <2>4 DEF QueueInv, IsDue
  <2>6. ready' \in Seq(Handle) /\ ("expired" \notin env.faults => Behind(ready', task'))
    <3> SUFFICES ASSUME "expired" \notin env.faults PROVE Behind(q, task')
      BY <1>6
    <3>1. \A i \in 1..Len(q) : q[i].req \in Req
      <4>1. \A i \in 1..Len(q) : q[i] \in Handle
        BY ElementOfSeq
      <4> QED
        BY <4>1 DEF Handle
    <3> QED
      BY <2>4, <3>1 DEF Behind
  <2>7. TypeOK' /\ RunInv' /\ CtxInv'
    BY <1>6, <2>3, <2>4, <2>6 DEF Inv, TypeOK, CtxInv, RunInv, Loop
  <2>8. CancelInv'
    BY <2>3, <2>4, <2>6 DEF Inv, CancelInv
  <2> QED
    BY <2>5, <2>7, <2>8 DEF Inv
<1> QED
  BY <1>4, <1>5, <1>6 DEF TaskCancel, k

\* RunHandle: the loop takes the handle at the head, of a request that is due.
LEMMA RunHandleLemma ==
  ASSUME Inv, RunHandle
  PROVE  Inv'
<1> DEFINE h == Head(ready) r == h.req q == Tail(ready)
<1>1. ready \in Seq(Handle) /\ ready # <<>> /\ here.who = Nobody /\ here = Loop /\ cur = Nobody
      /\ UNCHANGED <<env, ctx>>
  BY DEF RunHandle, LoopIsFree, Inv, TypeOK, RunInv
<1>2. h \in Handle /\ r \in Req /\ q \in Seq(Handle)
  BY <1>1, TailLemma, HeadTailProperties DEF Handle
<1>3. ASSUME h.what # "cancel", Turned(r, q)
      PROVE  Inv'
  <2>1. IsResume(h, r) /\ \A x \in Req \ {r} : ~IsResume(h, x)
    BY <1>3 DEF IsResume
  <2>2. One(ready, r) /\ None(q, r)
    BY <1>1, <1>2, <2>1, TailLemma DEF Inv, QueueInv
  <2>3. \A x \in Req \ {r} : IF IsDue(task, app, x, Nobody) THEN One(q, x) ELSE None(q, x)
    BY <1>1, <2>1, TailLemma DEF Inv, QueueInv
  <2>4. ASSUME "expired" \notin env.faults, task'[r].begun
        PROVE  Behind(q, task')
    <3>1. Behind(ready, task)
      BY <2>4 DEF Inv, CancelInv
    <3>2. \A x \in Req : task[x].at # "none" => task'[x].at # "none"
      BY <1>3 DEF Turned
    <3>3. \A x \in Req : task'[x].begun \/ (~task[x].begun /\ ~IsResume(h, x))
      BY <1>3, <2>1, <2>4 DEF Turned
    <3> QED
      BY <1>1, <3>1, <3>2, <3>3, BehindTail
  <2>5. "expired" \notin env.faults => (task[r].must => task[r].begun)
    BY <1>2 DEF Inv, CancelInv
  <2> QED
    BY <1>1, <1>2, <1>3, <2>2, <2>3, <2>4, <2>5, TurnedLemma
<1>4. CASE h.what = "step" /\ Step(r, q)
  <2>1. app[r].at = "suspended"
    <3>1. IsResume(h, r)
      BY <1>4 DEF IsResume
    <3>2. IsDue(task, app, r, here.who)
      BY <1>1, <1>2, <3>1, TailLemma DEF Inv, QueueInv
    <3> QED
      BY <1>1, <1>2, <3>2, RequestAssumption DEF Inv, RunInv, IsDue
  <2> QED
    BY <1>1, <1>2, <1>3, <1>4, <2>1, StepLemma DEF Inv
<1>5. CASE h.what = "wakeup" /\ Wakeup(r, q)
  BY <1>2, <1>3, <1>5, ResumeLemma DEF Wakeup, Inv
<1>6. ASSUME h.what = "cancel", UNCHANGED <<std, here, cur>>,
             IF task[r].at = "none" THEN ready' = q /\ UNCHANGED <<app, task>> ELSE TaskCancel(r, q)
      PROVE  Inv'
  <2>1. \A x \in Req : IF IsDue(task, app, x, here.who) THEN One(q, x) ELSE None(q, x)
    <3>1. \A x \in Req : ~IsResume(h, x)
      BY <1>6 DEF IsResume
    <3> QED
      BY <1>1, <3>1, TailLemma DEF Inv, QueueInv
  <2>2. ASSUME "expired" \notin env.faults
        PROVE  Behind(q, task) /\ task[r].begun
    <3>1. Behind(ready, task)
      BY <2>2 DEF Inv, CancelInv
    <3>2. 1 \in 1..Len(ready) /\ h = ready[1]
      BY <1>1, EmptySeq
    <3>3. task[r].begun
      BY <1>6, <3>1, <3>2 DEF Behind
    <3>4. \A x \in Req : task[x].begun \/ (~task[x].begun /\ ~IsResume(h, x))
      BY <1>6 DEF IsResume
    <3> QED
      BY <1>1, <3>1, <3>3, <3>4, BehindTail
  <2>3. CASE task[r].at = "none"
    <3>1. UNCHANGED <<env, app, task, std, here, cur, ctx>> /\ ready' = q
      BY <1>1, <1>6, <2>3
    <3>2. QueueInv' /\ CancelInv'
      BY <2>1, <2>2, <3>1 DEF QueueInv, Inv, CancelInv
    <3> QED
      BY <1>2, <3>1, <3>2 DEF Inv, TypeOK, RunInv, CtxInv
  <2>4. CASE task[r].at # "none"
    BY <1>1, <1>2, <1>6, <2>1, <2>2, <2>4, TaskCancelLemma DEF Inv, TypeOK
  <2> QED
    BY <2>3, <2>4
<1> QED
  BY <1>4, <1>5, <1>6 DEF RunHandle

-----------------------------------------------------------------------------
(* The other steps *)

\* At first there is no Task, and nothing is queued.
LEMMA InitLemma == Init => Inv
<1> SUFFICES ASSUME Init PROVE Inv
  OBVIOUS
<1> USE RequestAssumption DEF Init
<1>1. TypeOK
  <2>1. env \in Environment
    OBVIOUS
  <2>2. app \in [Req -> App]
    BY DEF App
  <2>3. task \in [Req -> Task] /\ std \in [Req -> StandIn]
    BY DEF Task, StandIn
  <2>4. here \in [who : Req \cup {Nobody}, ctx : Contexts, eager : BOOLEAN]
    BY DEF Loop, Contexts, Server
  <2> QED
    BY <2>1, <2>2, <2>3, <2>4 DEF TypeOK, Contexts
<1>2. RunInv /\ CtxInv
  BY DEF RunInv, CtxInv, Loop, Contexts, Server
<1>3. QueueInv /\ CancelInv
  BY DEF QueueInv, CancelInv, IsDue, None, Behind
<1> QED
  BY <1>1, <1>2, <1>3 DEF Inv

\* run_asgi_request up to the first step.
LEMMA DispatchLemma ==
  ASSUME Inv, NEW r \in Req, Dispatch(r)
  PROVE  Inv'
<1> DEFINE a == [app[r] EXCEPT !.at = "running"]
<1> USE RequestAssumption DEF Server
<1>1. app[r] \in App /\ ~app[r].set /\ task[r].at = "none" /\ here = Loop /\ here.who = Nobody
      /\ ctx[Server] = Nobody /\ r # Nobody
  BY DEF Dispatch, LoopIsFree, Inv, TypeOK, RunInv, CtxInv
<1>2. app' = [app EXCEPT ![r] = a] /\ ctx' = [ctx EXCEPT ![r] = Nobody] /\ cur' = r
      /\ here' = [who |-> r, ctx |-> r, eager |-> TRUE] /\ UNCHANGED <<env, task, std, ready>>
  BY <1>1, Zenon DEF Dispatch, EagerContext
<1>3. a \in App /\ a.at = "running" /\ a.set = app[r].set /\ a.fut = app[r].fut
  BY <1>1 DEF App
<1> HIDE DEF a
<1>4. app' \in [Req -> App] /\ app'[r] = a /\ \A x \in Req \ {r} : app'[x] = app[x]
  BY <1>2, <1>3 DEF Inv, TypeOK
<1>5. ctx' \in [Contexts -> Req \cup {Nobody}] /\ ctx'[r] = Nobody
      /\ \A x \in Contexts \ {r} : ctx'[x] = ctx[x]
  BY <1>1, <1>2 DEF Inv, TypeOK, Contexts
<1>6. TypeOK'
  <2>1. here' \in [who : Req \cup {Nobody}, ctx : Contexts, eager : BOOLEAN]
    BY <1>2 DEF Contexts
  <2> QED
    BY <1>2, <1>4, <1>5, <2>1 DEF Inv, TypeOK
<1>7. RunInv'
  <2>1. here'.who = r /\ here'.ctx = r /\ here'.eager
    BY <1>2
  <2> QED
    BY <1>1, <1>2, <1>3, <1>4, <2>1 DEF Inv, RunInv
<1>8. QueueInv' /\ CancelInv'
  BY <1>1, <1>2, <1>3, <1>4 DEF Inv, QueueInv, IsDue, CancelInv
<1>9. CtxInv'
  BY <1>1, <1>3, <1>4, <1>5 DEF Inv, CtxInv, Contexts
<1> QED
  BY <1>6, <1>7, <1>8, <1>9 DEF Inv

\* The first step ends the request.
LEMMA EndsInlineLemma ==
  ASSUME Inv, EndsInline
  PROVE  Inv'
<1> DEFINE r == here.who a == [app[r] EXCEPT !.at = "over"]
<1>1. r \in Req /\ app[r] \in App /\ task[r].at = "none" /\ r # Nobody
  BY DEF EndsInline, Inv, TypeOK, RunInv
<1>2. app' = [app EXCEPT ![r] = a] /\ here' = Loop /\ cur' = Nobody /\ UNCHANGED <<env, task, std, ready, ctx>>
  BY Zenon DEF EndsInline
<1>3. a \in App /\ a.at = "over" /\ a.set = app[r].set /\ a.fut = app[r].fut
  BY <1>1 DEF App
<1> HIDE DEF a
<1>4. app' \in [Req -> App] /\ app'[r] = a /\ \A x \in Req \ {r} : app'[x] = app[x]
  BY <1>1, <1>2, <1>3 DEF Inv, TypeOK
<1>5. TypeOK'
  <2>1. here' \in [who : Req \cup {Nobody}, ctx : Contexts, eager : BOOLEAN]
    BY <1>2 DEF Contexts, Loop, Server
  <2> QED
    BY <1>2, <1>4, <2>1 DEF Inv, TypeOK
<1>6. RunInv'
  <2>1. here'.who = Nobody /\ \A x \in Req : here'.who # x
    BY <1>2, RequestAssumption DEF Loop
  <2> QED
    BY <1>1, <1>2, <1>3, <1>4, <2>1 DEF Inv, RunInv
<1>7. QueueInv'
  BY <1>1, <1>2, <1>3, <1>4, RequestAssumption DEF Inv, QueueInv, IsDue, Loop
<1>8. CtxInv' /\ CancelInv'
  BY <1>1, <1>2, <1>3, <1>4 DEF Inv, CtxInv, CancelInv
<1> QED
  BY <1>5, <1>6, <1>7, <1>8 DEF Inv

\* The application sets its ContextVar.
LEMMA SetsVarLemma ==
  ASSUME Inv, SetsVar
  PROVE  Inv'
<1> DEFINE r == here.who a == [app[r] EXCEPT !.set = TRUE]
<1>1. r \in Req /\ app[r] \in App /\ r # Nobody /\ here.ctx = r
  BY DEF SetsVar, Inv, TypeOK, RunInv
<1>2. app' = [app EXCEPT ![r] = a] /\ ctx' = [ctx EXCEPT ![r] = r]
      /\ UNCHANGED <<env, task, std, ready, here, cur>>
  BY <1>1, Zenon DEF SetsVar
<1>3. a \in App /\ a.set /\ a.at = app[r].at /\ a.fut = app[r].fut
  BY <1>1 DEF App
<1> HIDE DEF a
<1>4. app' \in [Req -> App] /\ app'[r] = a /\ \A x \in Req \ {r} : app'[x] = app[x]
  BY <1>1, <1>2, <1>3 DEF Inv, TypeOK
<1>5. ctx' \in [Contexts -> Req \cup {Nobody}] /\ ctx'[r] = r /\ \A x \in Contexts \ {r} : ctx'[x] = ctx[x]
  BY <1>1, <1>2 DEF Inv, TypeOK, Contexts
<1>6. TypeOK'
  BY <1>2, <1>4, <1>5 DEF Inv, TypeOK
<1>7. RunInv'
  BY <1>2, <1>3, <1>4 DEF Inv, RunInv, Loop
<1>8. QueueInv' /\ CancelInv'
  BY <1>2, <1>3, <1>4 DEF Inv, QueueInv, IsDue, CancelInv
<1>9. CtxInv'
  BY <1>1, <1>2, <1>3, <1>4, <1>5, RequestAssumption DEF Inv, CtxInv, Contexts, Server
<1> QED
  BY <1>6, <1>7, <1>8, <1>9 DEF Inv

\* A Task that runs is not queued, and the others are as they were.
LEMMA RunningLemma ==
  ASSUME Inv, NEW r \in Req, here.who = r, ~here.eager, Turned(r, ready), UNCHANGED <<env, ctx>>
  PROVE  Inv'
<1>1. ready \in Seq(Handle) /\ task[r].at = "ready" /\ task[r].begun
  BY DEF Inv, TypeOK, RunInv
<1>2. None(ready, r)
  BY <1>1 DEF Inv, QueueInv, IsDue
<1>3. \A x \in Req \ {r} : IF IsDue(task, app, x, Nobody) THEN One(ready, x) ELSE None(ready, x)
  BY RequestAssumption DEF Inv, QueueInv, IsDue
<1>4. ASSUME "expired" \notin env.faults, task'[r].begun
      PROVE  Behind(ready, task')
  <2>1. Behind(ready, task)
    BY <1>4 DEF Inv, CancelInv
  <2>2. \A i \in 1..Len(ready) : ready[i].req \in Req
    <3>1. \A i \in 1..Len(ready) : ready[i] \in Handle
      BY <1>1, ElementOfSeq
    <3> QED
      BY <3>1 DEF Handle
  <2>3. \A x \in Req : (task[x].at # "none" => task'[x].at # "none") /\ (task[x].begun => task'[x].begun)
    BY <1>4 DEF Turned
  <2> QED
    BY <2>1, <2>2, <2>3 DEF Behind
<1> QED
  BY <1>1, <1>2, <1>3, <1>4, TurnedLemma

\* A resumed coroutine ends: a turn of its Task.
LEMMA EndsLemma ==
  ASSUME Inv, Ends
  PROVE  Inv'
<1> DEFINE r == here.who
           a == [app[r] EXCEPT !.at = "over"]
           t == [at |-> "ended", begun |-> TRUE, must |-> FALSE]
           w == [std[r] EXCEPT !.task = FALSE]
<1>1. r \in Req /\ ~here.eager /\ app[r] \in App /\ std[r] \in StandIn /\ TypeOK
  BY DEF Ends, Inv, TypeOK
<1>2. a \in App /\ a.set = app[r].set /\ a.at = "over" /\ t \in Task /\ w \in StandIn /\ ~w.task
  BY <1>1 DEF App, Task, StandIn
<1>3. app' = [app EXCEPT ![r] = a] /\ task' = [task EXCEPT ![r] = t] /\ std' = [std EXCEPT ![r] = w]
      /\ here' = Loop /\ cur' = Nobody /\ ready' = ready /\ UNCHANGED <<env, ctx>>
  BY Zenon DEF Ends, Ended
<1>4. t.at = "ended" /\ t.begun
  OBVIOUS
<1> HIDE DEF a, t, w, r
<1>5. app'[r] = a /\ task'[r] = t /\ std'[r] = w
      /\ \A x \in Req \ {r} : app'[x] = app[x] /\ task'[x] = task[x] /\ std'[x] = std[x]
  BY <1>1, <1>3 DEF TypeOK
<1>6. Turned(r, ready)
  BY <1>1, <1>2, <1>3, <1>4, <1>5 DEF Turned, TypeOK, IsDue, Loop
<1> QED
  BY <1>1, <1>3, <1>6, RunningLemma DEF r

\* What the coroutine yields.
LEMMA YieldingLemma ==
  ASSUME NEW a \in App, NEW trap \in {"yield", "future", "garbage"}
  PROVE  /\ Yielding(a, trap) \in App
         /\ Yielding(a, trap).at = "suspended" /\ Yielding(a, trap).set = a.set
<1> DEFINE f == IF trap = "future" THEN "pending" ELSE "none"
           a1 == [a EXCEPT !.at = "suspended"]
           a2 == [a1 EXCEPT !.trap = trap]
           a3 == [a2 EXCEPT !.n = a2.n + 1]
           a4 == [a3 EXCEPT !.fut = f]
<1>1. Yielding(a, trap) = a4
  BY Zenon DEF Yielding
<1>2. a2 \in App /\ a2.at = "suspended" /\ a2.set = a.set
  BY DEF App
<1> HIDE DEF a2
<1>3. a3 \in App /\ a3.at = "suspended" /\ a3.set = a.set
  BY <1>2 DEF App
<1> HIDE DEF a3
<1>4. f \in {"pending", "none"}
  OBVIOUS
<1> HIDE DEF f
<1> QED
  BY <1>1, <1>3, <1>4 DEF App

\* It awaits again: a turn as well.
LEMMA SuspendsLemma ==
  ASSUME Inv, Suspends
  PROVE  Inv'
<1> DEFINE r == here.who
<1>1. r \in Req /\ ~here.eager /\ app[r] \in App /\ TypeOK /\ ready \in Seq(Handle)
      /\ UNCHANGED <<env, ctx>>
  BY DEF Suspends, Inv, TypeOK
<1>2. PICK trap \in env.waits : Await([app EXCEPT ![r] = Yielding(app[r], trap)], r, ready)
  BY DEF Suspends
<1>3. trap \in {"yield", "future", "garbage"}
  BY <1>1 DEF TypeOK, Environment
<1> DEFINE a == [app EXCEPT ![r] = Yielding(app[r], trap)]
<1>4. a \in [Req -> App] /\ a[r] = Yielding(app[r], trap) /\ \A x \in Req \ {r} : a[x] = app[x]
  BY <1>1, <1>3, YieldingLemma DEF TypeOK
<1>5. a[r].set = app[r].set /\ a[r].at = "suspended"
  BY <1>1, <1>3, <1>4, YieldingLemma
<1> HIDE DEF a
<1>6. Turned(r, ready)
  BY <1>1, <1>2, <1>4, <1>5, AwaitLemma DEF a
<1> QED
  BY <1>1, <1>6, RunningLemma

\* The first step suspends, and a Task is created: its first step goes into
\* the queue before the cancel that came too early.
LEMMA SuspendsInlineLemma ==
  ASSUME Inv, SuspendsInline
  PROVE  Inv'
<1> DEFINE r == here.who
           k == [req |-> r, what |-> "step"]
           c == [req |-> r, what |-> "cancel"]
           t == [at |-> "ready", begun |-> FALSE, must |-> FALSE]
           w == [std[r] EXCEPT !.task = TRUE]
<1>1. r \in Req /\ r # Nobody /\ here.eager /\ app[r] \in App /\ TypeOK /\ ready \in Seq(Handle)
      /\ task[r].at = "none" /\ std[r] \in StandIn /\ app[r].at = "running"
  BY DEF SuspendsInline, Inv, TypeOK, RunInv
<1>2. PICK trap \in env.waits : app' = [app EXCEPT ![r] = Yielding(app[r], trap)]
  BY DEF SuspendsInline
<1>3. trap \in {"yield", "future", "garbage"}
  BY <1>1 DEF TypeOK, Environment
<1>4. app' \in [Req -> App] /\ app'[r].at = "suspended" /\ app'[r].set = app[r].set
      /\ \A x \in Req \ {r} : app'[x] = app[x]
  BY <1>1, <1>2, <1>3, YieldingLemma DEF TypeOK
<1>5. task' = [task EXCEPT ![r] = t] /\ std' = [std EXCEPT ![r] = w] /\ here' = Loop /\ cur' = Nobody
      /\ UNCHANGED <<env, ctx>>
  BY Zenon DEF SuspendsInline, Replay
<1>6. t \in Task /\ t.at = "ready" /\ ~t.begun /\ ~t.must /\ w \in StandIn
  BY <1>1 DEF Task, StandIn
<1> HIDE DEF t, w
<1>7. task' \in [Req -> Task] /\ std' \in [Req -> StandIn] /\ task'[r] = t
      /\ \A x \in Req \ {r} : task'[x] = task[x] /\ std'[x] = std[x]
  BY <1>1, <1>5, <1>6 DEF TypeOK
<1>8. k \in Handle /\ c \in Handle /\ IsResume(k, r) /\ ~IsResume(c, r) /\ c.req = r
      /\ k.what # "cancel" /\ c.what = "cancel"
      /\ \A x \in Req \ {r} : ~IsResume(k, x) /\ ~IsResume(c, x)
  BY <1>1 DEF Handle, IsResume
<1>9. ready' = Append(ready, k) \/ ready' = Append(Append(ready, k), c)
  <2>1. ready' = (ready \o <<k>>) \o (IF std[r].cancel THEN <<c>> ELSE <<>>)
    BY DEF SuspendsInline, Replay
  <2> HIDE DEF k, c
  <2>2. Append(ready, k) \in Seq(Handle) /\ Append(ready, k) = ready \o <<k>>
    BY <1>1, <1>8, AppendProperties, AppendIsConcat
  <2>3. Append(Append(ready, k), c) = Append(ready, k) \o <<c>> /\ Append(ready, k) \o <<>> = Append(ready, k)
    BY <1>8, <2>2, AppendIsConcat, ConcatEmptySeq
  <2> QED
    BY <2>1, <2>2, <2>3
<1> HIDE DEF k, c, r
<1>10. Append(ready, k) \in Seq(Handle) /\ ready' \in Seq(Handle)
  BY <1>1, <1>8, <1>9, AppendProperties
<1>11. here'.who = Nobody /\ \A x \in Req : here'.who # x
  BY <1>5, RequestAssumption DEF Loop
<1>12. TypeOK'
  <2>1. here' \in [who : Req \cup {Nobody}, ctx : Contexts, eager : BOOLEAN]
    BY <1>5 DEF Contexts, Loop, Server
  <2> QED
    BY <1>1, <1>4, <1>5, <1>7, <1>10, <2>1 DEF TypeOK
<1>13. RunInv'
  BY <1>1, <1>4, <1>5, <1>6, <1>7, <1>11 DEF Inv, RunInv, r
<1>14. QueueInv'
  <2>1. None(ready, r)
    BY <1>1 DEF Inv, QueueInv, IsDue
  <2>2. One(ready', r) /\ IsDue(task', app', r, here'.who)
    BY <1>1, <1>6, <1>7, <1>8, <1>9, <1>10, <1>11, <2>1, AppendLemma DEF IsDue
  <2>3. ASSUME NEW x \in Req \ {r}
        PROVE  IF IsDue(task', app', x, here'.who) THEN One(ready', x) ELSE None(ready', x)
    <3>1. IsDue(task', app', x, here'.who) <=> IsDue(task, app, x, here.who)
      BY <1>4, <1>7, <1>11 DEF IsDue, r
    <3>2. IF IsDue(task, app, x, here.who) THEN One(ready, x) ELSE None(ready, x)
      BY DEF Inv, QueueInv
    <3> QED
      BY <1>1, <1>8, <1>9, <1>10, <3>1, <3>2, AppendLemma
  <2> QED
    BY <2>2, <2>3 DEF QueueInv
<1>15. CtxInv'
  BY <1>1, <1>4, <1>5 DEF Inv, CtxInv
<1>16. CancelInv'
  <2> SUFFICES ASSUME "expired" \notin env.faults
               PROVE  /\ Behind(ready', task')
                      /\ \A x \in Req : ~task'[x].begun => ~task'[x].must
                      /\ \A x \in Req : task'[x].at = "ended" => app'[x].at # "suspended" /\ ~std'[x].task
    BY <1>5 DEF CancelInv
  <2>1. Behind(ready, task')
    <3>1. Behind(ready, task)
      BY DEF Inv, CancelInv
    <3>2. \A i \in 1..Len(ready) : ready[i].req \in Req
      <4>1. \A i \in 1..Len(ready) : ready[i] \in Handle
        BY <1>1, ElementOfSeq
      <4> QED
        BY <4>1 DEF Handle
    <3> QED
      BY <1>1, <1>7, <3>1, <3>2 DEF Behind
  <2>2. Behind(Append(ready, k), task')
    BY <1>1, <1>8, <2>1, BehindAppend
  <2>3. One(Append(ready, k), r)
    <3>1. None(ready, r)
      BY <1>1 DEF Inv, QueueInv, IsDue
    <3> QED
      BY <1>1, <1>8, <3>1, AppendLemma
  <2>4. ~None(Append(ready, k), r)
    BY <2>3 DEF One, None
  <2>5. Behind(Append(Append(ready, k), c), task')
    BY <1>6, <1>7, <1>8, <1>10, <2>2, <2>4, BehindAppend
  <2>6. ASSUME NEW x \in Req
        PROVE  /\ ~task'[x].begun => ~task'[x].must
               /\ task'[x].at = "ended" => app'[x].at # "suspended" /\ ~std'[x].task
    BY <1>4, <1>6, <1>7 DEF Inv, CancelInv
  <2> QED
    BY <1>9, <2>2, <2>5, <2>6
<1> QED
  BY <1>12, <1>13, <1>14, <1>15, <1>16 DEF Inv

\* A cancel() that finds no Task is noted in the stand-in and nowhere else.
LEMMA CancelLemma ==
  ASSUME Inv, NEW r \in Req, Cancel(r), (here.who = r /\ here.eager) \/ task[r].begun
  PROVE  Inv'
<1>1. app[r] \in App /\ std[r] \in StandIn /\ r \in DOMAIN std /\ TypeOK /\ ready \in Seq(Handle)
      /\ UNCHANGED <<env, here, cur, ctx>>
  BY DEF Cancel, Inv, TypeOK
<1>2. CASE CancelEarly(r)
  <2> DEFINE o == app[r].at = "running"
             a == [app[r] EXCEPT !.owed = o]
             w1 == [std[r] EXCEPT !.calls = std[r].calls + 1]
             w == [w1 EXCEPT !.cancel = TRUE]
  <2>1. app' = [app EXCEPT ![r] = a] /\ std' = [std EXCEPT ![r] = w] /\ UNCHANGED <<task, ready>>
    BY <1>1, <1>2, Zenon DEF CancelEarly
  <2>2. o \in BOOLEAN
    OBVIOUS
  <2> HIDE DEF o
  <2>3. a \in App /\ a.at = app[r].at /\ a.set = app[r].set /\ a.fut = app[r].fut
    BY <1>1, <2>2 DEF App
  <2>4. w \in StandIn /\ w.task = std[r].task
    <3>1. w1 \in StandIn /\ w1.task = std[r].task
      BY <1>1 DEF StandIn
    <3> HIDE DEF w1
    <3> QED
      BY <3>1 DEF StandIn
  <2> HIDE DEF a, w
  <2>5. app' \in [Req -> App] /\ std' \in [Req -> StandIn] /\ app'[r] = a /\ std'[r] = w
        /\ \A x \in Req \ {r} : app'[x] = app[x] /\ std'[x] = std[x]
    BY <1>1, <2>1, <2>3, <2>4 DEF TypeOK
  <2>6. \A x \in Req : app'[x].at = app[x].at /\ app'[x].set = app[x].set /\ app'[x].fut = app[x].fut
                       /\ std'[x].task = std[x].task
    BY <2>3, <2>4, <2>5
  <2>7. TypeOK' /\ CtxInv'
    BY <1>1, <2>1, <2>5, <2>6 DEF Inv, TypeOK, CtxInv
  <2>8. RunInv'
    BY <1>1, <2>1, <2>6 DEF Inv, RunInv, Loop
  <2>9. QueueInv' /\ CancelInv'
    BY <1>1, <2>1, <2>6 DEF Inv, QueueInv, IsDue, CancelInv
  <2> QED
    BY <2>7, <2>8, <2>9 DEF Inv
<1>3. CASE CancelForwarded(r)
  <2> DEFINE w == [std[r] EXCEPT !.calls = std[r].calls + 1]
  <2>1. TaskCancel(r, ready) /\ std' = [std EXCEPT ![r] = w]
    BY <1>3, Zenon DEF CancelForwarded
  <2>2. w \in StandIn /\ w.task = std[r].task
    BY <1>1 DEF StandIn
  <2> HIDE DEF w
  <2>3. std' \in [Req -> StandIn] /\ \A x \in Req : std'[x].task = std[x].task
    BY <1>1, <2>1, <2>2 DEF TypeOK
  <2>4. task[r].at # "none"
    BY <2>1 DEF TaskCancel
  <2>5. "expired" \notin env.faults => Behind(ready, task) /\ task[r].begun
    BY <2>4 DEF Inv, CancelInv, RunInv
  <2>6. \A x \in Req : IF IsDue(task, app, x, here.who) THEN One(ready, x) ELSE None(ready, x)
    BY DEF Inv, QueueInv
  <2> QED
    BY <1>1, <2>1, <2>3, <2>5, <2>6, TaskCancelLemma
<1> QED
  BY <1>2, <1>3 DEF Cancel

\* The application's own cancel(), and a later callback's.
LEMMA CancelsLemma ==
  ASSUME Inv, CancelsItself \/ \E r \in Req : CallbackCancels(r)
  PROVE  Inv'
<1>1. CASE CancelsItself
  BY <1>1, CancelLemma DEF CancelsItself, Inv, TypeOK, RunInv
<1>2. CASE \E r \in Req : CallbackCancels(r)
  BY <1>2, CancelLemma DEF CallbackCancels
<1> QED
  BY <1>1, <1>2

\* asyncio.timeout(0) queues a cancel, which resumes nothing.
LEMMA ExpiresLemma ==
  ASSUME Inv, Expires
  PROVE  Inv'
<1> DEFINE r == here.who
           c == [req |-> r, what |-> "cancel"]
           w == [std[r] EXCEPT !.calls = std[r].calls + 1]
<1>1. r \in Req /\ std[r] \in StandIn /\ ready \in Seq(Handle) /\ "expired" \in env.faults
  BY DEF Expires, Inv, TypeOK, Fault
<1>2. ready' = Append(ready, c) /\ std' = [std EXCEPT ![r] = w] /\ UNCHANGED <<env, app, task, here, cur, ctx>>
  BY Zenon DEF Expires
<1>3. w \in StandIn /\ c \in Handle /\ \A x \in Req : ~IsResume(c, x)
  BY <1>1 DEF StandIn, Handle, IsResume
<1> HIDE DEF c, w
<1>4. ready' \in Seq(Handle) /\ std' \in [Req -> StandIn]
  BY <1>1, <1>2, <1>3, AppendProperties DEF Inv, TypeOK
<1>5. QueueInv'
  BY <1>1, <1>2, <1>3, AppendLemma DEF Inv, QueueInv
<1> QED
  BY <1>1, <1>2, <1>4, <1>5 DEF Inv, TypeOK, RunInv, CtxInv, CancelInv

\* What a request awaits comes to its end, and a Task that is parked on it,
\* and only that, is woken.
LEMMA FutureEndsLemma ==
  ASSUME Inv, NEW r \in Req, FutureEnds(r)
  PROVE  Inv'
<1> DEFINE k == [req |-> r, what |-> "wakeup"]
<1>1. app[r] \in App /\ TypeOK /\ ready \in Seq(Handle) /\ here.who = Nobody /\ app[r].fut = "pending"
      /\ UNCHANGED <<env, task, std, here, cur, ctx>> /\ r # Nobody
  BY RequestAssumption DEF FutureEnds, LoopIsFree, Inv, TypeOK
<1>2. PICK how \in {"done", "failed", "cancelled"} : app' = [app EXCEPT ![r].fut = how]
  BY DEF FutureEnds
<1> DEFINE a == [app[r] EXCEPT !.fut = how]
<1>3. a \in App /\ a.fut # "pending" /\ a.at = app[r].at /\ a.set = app[r].set
  BY <1>1, <1>2 DEF App
<1>4. app' = [app EXCEPT ![r] = a]
  BY <1>2, Zenon
<1> HIDE DEF a
<1>5. app' \in [Req -> App] /\ app'[r] = a /\ \A x \in Req \ {r} : app'[x] = app[x]
  BY <1>1, <1>3, <1>4 DEF TypeOK
<1>6. k \in Handle /\ k.what # "cancel" /\ IsResume(k, r) /\ \A x \in Req \ {r} : ~IsResume(k, x)
  BY DEF Handle, IsResume
<1>7. ready' = IF task[r].at = "parked" THEN Append(ready, k) ELSE ready
  <2>1. ready' = ready \o (IF task[r].at = "parked" THEN <<k>> ELSE <<>>)
    BY DEF FutureEnds, Woken
  <2> HIDE DEF k
  <2>2. Append(ready, k) = ready \o <<k>> /\ ready \o <<>> = ready
    BY <1>1, <1>6, AppendIsConcat, ConcatEmptySeq
  <2> QED
    BY <2>1, <2>2
<1> HIDE DEF k
<1>8. ready' \in Seq(Handle) /\ ("expired" \notin env.faults => Behind(ready', task))
  BY <1>1, <1>6, <1>7, AppendProperties, BehindAppend DEF Inv, CancelInv
<1>9. \A x \in Req : app'[x].at = app[x].at /\ app'[x].set = app[x].set
  BY <1>3, <1>5
<1>10. TypeOK' /\ CtxInv' /\ CancelInv'
  BY <1>1, <1>5, <1>8, <1>9 DEF Inv, TypeOK, CtxInv, CancelInv
<1>11. RunInv'
  BY <1>1, <1>9 DEF Inv, RunInv, Loop
<1>12. QueueInv'
  <2>1. ASSUME NEW x \in Req \ {r}
        PROVE  IF IsDue(task', app', x, here'.who) THEN One(ready', x) ELSE None(ready', x)
    <3>1. IsDue(task', app', x, here'.who) <=> IsDue(task, app, x, here.who)
      BY <1>1, <1>5 DEF IsDue
    <3> QED
      BY <1>1, <1>6, <1>7, <3>1, AppendLemma DEF Inv, QueueInv
  <2>2. IF IsDue(task', app', r, here'.who) THEN One(ready', r) ELSE None(ready', r)
    <3>1. CASE task[r].at = "parked"
      <4>1. None(ready, r) /\ IsDue(task', app', r, here'.who)
        BY <1>1, <1>3, <1>5, <3>1 DEF Inv, QueueInv, IsDue
      <4> QED
        BY <1>1, <1>6, <1>7, <3>1, <4>1, AppendLemma
    <3>2. CASE task[r].at # "parked"
      BY <1>1, <1>7, <3>2 DEF Inv, QueueInv, IsDue
    <3> QED
      BY <3>1, <3>2
  <2> QED
    BY <2>1, <2>2 DEF QueueInv
<1> QED
  BY <1>10, <1>11, <1>12 DEF Inv

-----------------------------------------------------------------------------
(* The theorems *)

\* Every step keeps the invariant.
LEMMA NextLemma ==
  ASSUME Inv, [Next]_vars
  PROVE  Inv'
<1>1. CASE UNCHANGED vars
  BY <1>1 DEF vars, Inv, TypeOK, RunInv, QueueInv, CtxInv, CancelInv
<1> QED
  BY <1>1, DispatchLemma, CancelsLemma, FutureEndsLemma, EndsInlineLemma, SuspendsInlineLemma, ExpiresLemma,
     RunHandleLemma, SetsVarLemma, EndsLemma, SuspendsLemma DEF Next

\* The invariant holds throughout.
LEMMA Invariance == Spec => []Inv
BY InitLemma, NextLemma, PTL DEF Spec

\* The ready queue holds one resumption of every Task that is to go on, and
\* none of one that waits, runs or is over: no coroutine is resumed twice for
\* one await, nor while it runs, nor after its end.
THEOREM QueueIsConsistent == Spec => []Consistent
<1>1. Inv => Consistent
  <2> SUFFICES ASSUME Inv, NEW r \in Req
               PROVE  Cardinality(Resumes(r)) = IF IsDue(task, app, r, here.who) THEN 1 ELSE 0
    BY DEF Inv, Consistent, OneStepQueued, IsDue
  <2>1. Resumes(r) = {i \in 1..Len(ready) : IsResume(ready[i], r)}
    BY LenProperties DEF Resumes, IsResume, Inv, TypeOK
  <2>2. CASE IsDue(task, app, r, here.who)
    <3>1. PICK i \in 1..Len(ready) : /\ IsResume(ready[i], r)
                                     /\ \A j \in 1..Len(ready) : IsResume(ready[j], r) => j = i
      BY <2>2 DEF Inv, QueueInv, One
    <3>2. Resumes(r) = {i}
      BY <2>1, <3>1
    <3> QED
      BY <2>2, <3>2, FS_Singleton
  <2>3. CASE ~IsDue(task, app, r, here.who)
    <3>1. Resumes(r) = {}
      BY <2>1, <2>3 DEF Inv, QueueInv, None
    <3> QED
      BY <2>3, <3>1, FS_EmptySet
  <2> QED
    BY <2>2, <2>3
<1> QED
  BY <1>1, Invariance, PTL

\* A Task that is over has not left its application suspended, and the
\* stand-in no longer refers to it, unless a cancel() came before the Task's
\* first step or after the end of what it awaits.
THEOREM NoApplicationAbandoned == Spec => []NoneAbandoned
<1>1. Inv => NoneAbandoned
  BY DEF Inv, CancelInv, NoneAbandoned, CancelsInTime
<1> QED
  BY <1>1, Invariance, PTL

\* An application finds in its ContextVar what it has put there and nothing
\* of another request, and current_task() speaks for whoever runs.
THEOREM EachRunsAsItself == Spec => []RunsAsItself
<1>1. Inv => RunsAsItself
  BY DEF Inv, TypeOK, RunInv, CtxInv, RunsAsItself
<1> QED
  BY <1>1, Invariance, PTL

=============================================================================
