--------------------------- MODULE AsgiLoopProofs ---------------------------
(***************************************************************************)
(* Proofs about AsgiLoop.                                                  *)
(*                                                                         *)
(* Whether libuv may sleep is decided in its poll, by what was armed some  *)
(* callbacks earlier, and whether asyncio's select blocks by a timer armed *)
(* in an earlier iteration.  The invariant says, for each place libuv can  *)
(* be in between callbacks, how far what is armed still fits what asyncio  *)
(* has; what asyncio does inside a callback does not matter, since each    *)
(* ends by arming again.                                                   *)
(***************************************************************************)
EXTENDS AsgiLoop, FiniteSetTheorems, WellFoundedInduction, TLAPS

\* Where libuv is while a callback is inside asyncio, and where asyncio is.
Nested ==
  /\ cb.who = Nobody <=> cb.stage = "none"
  /\ cb.who = "check" => uv.phase = "check"
  /\ cb.who = "timer" => uv.phase = "timers"
  /\ cb.who = "poll" => uv.phase = "events"

\* The sets a select makes sequences of are finite, the timers no more than
\* MaxTimers, and only a descriptor that someone waits for is reported.
Finite(a) ==
  /\ IsFiniteSet(a.scheduled) /\ Cardinality(a.scheduled) <= MaxTimers
  /\ IsFiniteSet(a.io) /\ a.avail \subseteq a.io

\* libuv's clock does not run ahead, and a report of the selector is not stale.
Clocked ==
  /\ TPM * uv.time <= now
  /\ uv.fd => uv.phase = "events" /\ cb.who = Nobody /\ Readable

\* The timer is armed for the earliest of S: no more than a millisecond late,
\* unless it is due already.
ArmedFor(u, S) ==
  S # {} => u.timer /\ (TPM * u.due <= Earliest(S) + TPM \/ u.due <= u.time)

\* The timer fires too early by less than libuv's clock lagged.
FiresFor(u, S) ==
  u.timer => S # {} /\ (Earliest(S) <= now \/ Earliest(S) < TPM * u.due + u.lag)

\* What is ready keeps the next poll from sleeping.
Noticed ==
  cb.who = Nobody /\ uv.phase \in {"timers", "pending", "poll"} /\ aio.ready # <<>> =>
    \/ uv.idle \/ aio.pipe \/ uv.stuck
    \/ uv.phase # "timers" /\ uv.pend

\* What is scheduled ends it, as long as the list asgi.c knows is asyncio's.
Scheduled ==
  aio.bound /\ cb.who = Nobody =>
    /\ uv.phase \in {"timers", "pending", "poll"} => ArmedFor(uv, aio.scheduled)
    /\ FiresFor(uv, aio.scheduled)

\* A poll that has something to do at once does not wait.
PollEnds ==
  uv.phase = "poll" =>
    /\ uv.idle \/ uv.pend => Expired(uv.wake)
    /\ uv.timer /\ uv.due <= uv.time => Expired(uv.wake)

\* Why asyncio's select returns.
SelectEnds ==
  cb.stage = "select" =>
    /\ cb.who = "check" => Expired(cb.until)
    /\ cb.who = "poll" => Readable
    /\ cb.who = "timer" /\ aio.bound =>
         cb.cut \/ Expired(cb.until) \/ (cb.until # Never /\ cb.until - now < uv.lag)

\* The inductive invariant.
Inv ==
  /\ TypeOK /\ Nested /\ Finite(aio) /\ Clocked
  /\ Noticed /\ Scheduled /\ PollEnds /\ SelectEnds

-----------------------------------------------------------------------------
(* Arithmetic and minima *)

\* Division by the positive b.
LEMMA DivLemma ==
  ASSUME NEW a \in Nat, NEW b \in Nat \ {0}
  PROVE  a \div b \in Nat /\ b * (a \div b) <= a /\ a < b * (a \div b) + b
OBVIOUS

\* The quotient is the largest number of b's that fit.
LEMMA DivLargest ==
  ASSUME NEW a \in Nat, NEW b \in Nat \ {0}, NEW t \in Nat, b * t <= a
  PROVE  t <= a \div b
BY DivLemma

\* Multiplication by b is monotone.
LEMMA TimesMonotone ==
  ASSUME NEW b \in Nat, NEW s \in Nat, NEW t \in Nat, s <= t
  PROVE  b * s <= b * t
OBVIOUS

\* The naturals are well founded: every set of them has a least element.
LEMMA LeastNatural ==
  ASSUME NEW T, T \subseteq Nat, T # {}
  PROVE  \E m \in T : \A k \in T : m <= k
<1> DEFINE R == OpToRel(<, Nat)
<1>1. IsWellFoundedOn(R, Nat)
  BY NatLessThanWellFounded
<1>2. \A x, y \in Nat : x < y => <<x, y>> \in R
  BY DEF OpToRel
<1> HIDE DEF R
<1>3. PICK x \in T : \A y \in T : ~(<<y, x>> \in R)
  BY <1>1, WFMin
<1>4. \A y \in T : ~(y < x)
  BY <1>2, <1>3, Zenon
<1> QED
  BY <1>4

\* The earliest deadline is one of the deadlines, and none is earlier.
LEMMA EarliestLemma ==
  ASSUME NEW S \in SUBSET Timer, S # {}
  PROVE  /\ Earliest(S) \in Nat
         /\ \E s \in S : s.when = Earliest(S)
         /\ \A s \in S : Earliest(S) <= s.when
<1> DEFINE T == {s.when : s \in S}
<1>1. T \subseteq Nat /\ T # {}
  BY DEF Timer
<1>2. \E m \in T : \A k \in T : m <= k
  BY <1>1, LeastNatural
<1>3. \E m \in T : \A s \in S : m <= s.when
  BY <1>2
<1>4. Earliest(S) \in T /\ \A s \in S : Earliest(S) <= s.when
  BY <1>3 DEF Earliest
<1> QED
  BY <1>1, <1>4

-----------------------------------------------------------------------------
(* Arming *)

\* What asgi_arm_wakeups leaves alone.
SameLoop(u, d) ==
  /\ d.phase = u.phase /\ d.time = u.time /\ d.pend = u.pend /\ d.batch = u.batch
  /\ d.stuck = u.stuck /\ d.fd = u.fd /\ d.wake = u.wake

\* The delay the timer is given, and what its rounding up is worth.
LEMMA DelayLemma ==
  ASSUME now \in Nat, NEW w \in Nat, NEW t \in Nat, TPM * t <= now
  PROVE  /\ Delay(w) \in Nat
         /\ TPM * (t + Delay(w)) <= w + TPM \/ t + Delay(w) = t
         /\ w <= now \/ w < TPM * (t + Delay(w)) + (now - TPM * t)
<1>1. TPM \in Nat \ {0} /\ TPM * t \in Nat
  BY LoopAssumption
<1>2. CASE w <= now
  BY <1>1, <1>2 DEF Delay
<1>3. CASE w > now
  <2>1. PICK x \in Nat : x = w - now
    BY <1>3
  <2>2. PICK q \in Nat : q = x \div TPM /\ TPM * q <= x /\ x < TPM * q + TPM
    BY <1>1, <2>1, DivLemma
  <2>3. Delay(w) = q + 1
    BY <1>3, <2>1, <2>2 DEF Delay
  <2>4. TPM * (t + (q + 1)) = TPM * t + TPM * q + TPM /\ TPM * q \in Nat
    BY <1>1
  <2> QED
    BY <1>1, <1>3, <2>1, <2>2, <2>3, <2>4
<1> QED
  BY <1>2, <1>3

\* asgi_arm_wakeups arms for what asyncio has at this moment.
LEMMA ArmLemma ==
  ASSUME now \in Nat, NEW u \in Loop, NEW a \in Asyncio, TPM * u.time <= now,
         NEW d, d = asgi_arm_wakeups(u, a)
  PROVE  /\ d \in Loop /\ SameLoop(u, d) /\ (d.idle <=> a.ready # <<>>)
         /\ a.bound => ArmedFor(d, a.scheduled) /\ FiresFor(d, a.scheduled)
<1> DEFINE S   == CachedScheduled(a)
           due == IF S = {} THEN 0 ELSE u.time + Delay(Earliest(S))
           lag == IF S = {} THEN 0 ELSE now - TPM * u.time
<1>1. S \in SUBSET Timer /\ (a.bound => S = a.scheduled)
  BY DEF CachedScheduled, Asyncio
<1>2. u.time \in Nat /\ TPM \in Nat /\ TPM * u.time \in Nat
  BY LoopAssumption DEF Loop
<1>3. S # {} => Earliest(S) \in Nat
  BY <1>1, EarliestLemma
<1>4. S # {} => /\ Delay(Earliest(S)) \in Nat
                /\ TPM * due <= Earliest(S) + TPM \/ due = u.time
                /\ Earliest(S) <= now \/ Earliest(S) < TPM * due + lag
  BY <1>2, <1>3, DelayLemma
<1>5. due \in Nat /\ lag \in Nat
  BY <1>2, <1>4
<1> HIDE DEF S
<1>6. d = [u EXCEPT !.idle = a.ready # <<>>, !.timer = S # {}, !.due = due, !.lag = lag]
  BY DEF asgi_arm_wakeups, S
<1> HIDE DEF due, lag
<1>7. /\ d \in Loop /\ SameLoop(u, d) /\ (d.idle <=> a.ready # <<>>)
      /\ (d.timer <=> S # {}) /\ d.due = due /\ d.lag = lag
  <2>1. (a.ready # <<>>) \in BOOLEAN /\ (S # {}) \in BOOLEAN
    OBVIOUS
  <2>2. d \in Loop
    BY <1>5, <1>6, <2>1 DEF Loop
  <2>3. SameLoop(u, d)
    BY <1>6 DEF Loop, SameLoop
  <2>4. /\ (d.idle <=> a.ready # <<>>) /\ (d.timer <=> S # {}) /\ d.due = due /\ d.lag = lag
    BY <1>6 DEF Loop
  <2> QED BY <2>2, <2>3, <2>4
<1>8. d.time = u.time
  BY <1>7 DEF SameLoop
<1> QED
  BY <1>1, <1>2, <1>4, <1>7, <1>8 DEF ArmedFor, FiresFor

-----------------------------------------------------------------------------
(* What applications do to asyncio's loop *)

\* Resume's Kill, on a set of timers.
Killed(S, t) == {IF s.task = t THEN [s EXCEPT !.dead = TRUE] ELSE s : s \in S}

\* A cancelled timer stays a timer, and cancelling adds none.
LEMMA KilledLemma ==
  ASSUME NEW S \in SUBSET Timer, NEW t
  PROVE  /\ Killed(S, t) \in SUBSET Timer
         /\ IsFiniteSet(S) =>
              IsFiniteSet(Killed(S, t)) /\ Cardinality(Killed(S, t)) <= Cardinality(S)
<1> DEFINE K(s) == IF s.task = t THEN [s EXCEPT !.dead = TRUE] ELSE s
           f    == [x \in Killed(S, t) |-> CHOOSE s \in S : K(s) = x]
<1>1. \A s \in S : K(s) \in Timer
  BY DEF Timer
<1>2. \A x \in Killed(S, t) : \E s \in S : K(s) = x
  BY DEF Killed
<1>3. \A x \in Killed(S, t) : f[x] \in S /\ K(f[x]) = x
  BY <1>2
<1> HIDE DEF K
<1>4. f \in [Killed(S, t) -> S] /\ \A x, y \in Killed(S, t) : f[x] = f[y] => x = y
  BY <1>3
<1> HIDE DEF f
<1>5. f \in Injection(Killed(S, t), S)
  BY <1>4 DEF Injection, IsInjective
<1>6. Killed(S, t) = {K(s) : s \in S}
  BY DEF Killed, K
<1> QED
  BY <1>1, <1>5, <1>6, FS_Injection

\* Resuming a task cancels handles where they lie.
LEMMA ResumeLemma ==
  ASSUME NEW a \in Asyncio, Finite(a), NEW t, NEW r, r = Resume(a, t)
  PROVE  r \in Asyncio /\ Finite(r) /\ Len(r.ready) = Len(a.ready) /\ r.bound = a.bound
<1> DEFINE K(h) == IF h.task = t THEN [h EXCEPT !.dead = TRUE] ELSE h
           q == [i \in DOMAIN a.ready |-> K(a.ready[i])]
<1>1. r = [a EXCEPT !.ready = q, !.scheduled = Killed(a.scheduled, t),
                    !.old = Killed(a.old, t), !.io = a.io \ {t}, !.avail = a.avail \ {t}]
  BY DEF Resume, Killed, Asyncio
<1>2. q \in Seq(Handle) /\ Len(q) = Len(a.ready)
  <2>1. a.ready \in Seq(Handle)
    BY DEF Asyncio
  <2>2. \A h \in Handle : K(h) \in Handle
    BY DEF Handle
  <2> HIDE DEF K
  <2>3. q \in [1..Len(a.ready) -> Handle]
    BY <2>1, <2>2
  <2> QED BY <2>1, <2>3
<1>3. Killed(a.scheduled, t) \in SUBSET Timer /\ Killed(a.old, t) \in SUBSET Timer
  BY KilledLemma DEF Asyncio
<1>4. /\ IsFiniteSet(Killed(a.scheduled, t))
      /\ Cardinality(Killed(a.scheduled, t)) <= Cardinality(a.scheduled)
  BY KilledLemma DEF Asyncio, Finite
<1>5. IsFiniteSet(a.io \ {t}) /\ (a.avail \ {t}) \subseteq (a.io \ {t})
  BY FS_RemoveElement DEF Finite
<1>6. a.io \ {t} \in SUBSET Task /\ a.avail \ {t} \in SUBSET Task
  BY DEF Asyncio
<1> HIDE DEF q
<1>7. r \in Asyncio
  BY <1>1, <1>2, <1>3, <1>6 DEF Asyncio
<1>8. /\ r.ready = q /\ r.scheduled = Killed(a.scheduled, t) /\ r.bound = a.bound
      /\ r.io = a.io \ {t} /\ r.avail = a.avail \ {t}
  BY <1>1 DEF Asyncio
<1>9. Cardinality(r.scheduled) <= MaxTimers
  <2>1. Cardinality(a.scheduled) \in Nat /\ Cardinality(r.scheduled) \in Nat
    BY <1>4, <1>8, FS_CardinalityType DEF Finite
  <2> QED BY <1>4, <1>8, <2>1, LoopAssumption DEF Finite
<1> QED
  BY <1>2, <1>4, <1>5, <1>7, <1>8, <1>9 DEF Finite

\* What a wait leaves alone.
SameButWaits(a, w) ==
  w.ready = a.ready /\ w.bound = a.bound /\ w.avail = a.avail /\ w.pipe = a.pipe

\* A task that waits adds a timer, a descriptor or an executor's thread.
LEMMA WaitsLemma ==
  ASSUME now \in Nat, NEW a \in Asyncio, Finite(a), NEW t \in Task, NEW w \in Waits(a, t)
  PROVE  w \in Asyncio /\ Finite(w) /\ SameButWaits(a, w)
<1>1. IsFiniteSet(a.io \cup {t}) /\ a.avail \subseteq a.io \cup {t} /\ a.io \cup {t} \in SUBSET Task
      /\ a.exec \cup {t} \in SUBSET Task
  BY FS_AddElement DEF Finite, Asyncio
<1> DEFINE New == {[task |-> t, when |-> now + d, dead |-> FALSE] :
                     d \in {e \in Delays : now + e <= MaxTime
                                         /\ Cardinality(a.scheduled) < MaxTimers}}
<1>2. ASSUME NEW s \in New
      PROVE  /\ a.scheduled \cup {s} \in SUBSET Timer /\ IsFiniteSet(a.scheduled \cup {s})
             /\ Cardinality(a.scheduled \cup {s}) <= MaxTimers
  <2>1. s \in Timer
    <3>1. PICK d \in Delays : s = [task |-> t, when |-> now + d, dead |-> FALSE]
      OBVIOUS
    <3>2. now + d \in Nat
      BY LoopAssumption
    <3> QED BY <3>1, <3>2 DEF Timer
  <2>2. Cardinality(a.scheduled) \in Nat /\ MaxTimers \in Nat /\ IsFiniteSet(a.scheduled)
    BY FS_CardinalityType, LoopAssumption DEF Finite
  <2>3. Cardinality(a.scheduled) < MaxTimers
    OBVIOUS
  <2>4. /\ IsFiniteSet(a.scheduled \cup {s})
        /\ \/ Cardinality(a.scheduled \cup {s}) = Cardinality(a.scheduled)
           \/ Cardinality(a.scheduled \cup {s}) = Cardinality(a.scheduled) + 1
    BY <2>2, FS_AddElement, Zenon
  <2>5. a.scheduled \cup {s} \in SUBSET Timer
    BY <2>1 DEF Asyncio
  <2> QED BY <2>2, <2>3, <2>4, <2>5
<1>3. PICK S \in SUBSET Timer, I \in SUBSET Task, X \in SUBSET Task :
        /\ w = [a EXCEPT !.scheduled = S, !.io = I, !.exec = X]
        /\ IsFiniteSet(S) /\ Cardinality(S) <= MaxTimers
        /\ IsFiniteSet(I) /\ a.avail \subseteq I
  <2>1. /\ a.scheduled \in SUBSET Timer /\ a.io \in SUBSET Task /\ a.exec \in SUBSET Task
        /\ IsFiniteSet(a.scheduled) /\ Cardinality(a.scheduled) <= MaxTimers
        /\ IsFiniteSet(a.io) /\ a.avail \subseteq a.io
    BY DEF Asyncio, Finite
  <2>2. ASSUME NEW s \in New, w = [a EXCEPT !.scheduled = @ \cup {s}]
        PROVE  w = [a EXCEPT !.scheduled = a.scheduled \cup {s}, !.io = a.io, !.exec = a.exec]
    BY <2>2 DEF Asyncio
  <2>3. ASSUME NEW s \in New, w = [a EXCEPT !.scheduled = @ \cup {s}, !.io = @ \cup {t}]
        PROVE  w = [a EXCEPT !.scheduled = a.scheduled \cup {s}, !.io = a.io \cup {t},
                             !.exec = a.exec]
    BY <2>3 DEF Asyncio
  <2>4. w = [a EXCEPT !.io = @ \cup {t}] =>
          w = [a EXCEPT !.scheduled = a.scheduled, !.io = a.io \cup {t}, !.exec = a.exec]
    BY DEF Asyncio
  <2>5. w = [a EXCEPT !.exec = @ \cup {t}] =>
          w = [a EXCEPT !.scheduled = a.scheduled, !.io = a.io, !.exec = a.exec \cup {t}]
    BY DEF Asyncio
  <2>6. \/ \E s \in New : w = [a EXCEPT !.scheduled = @ \cup {s}]
        \/ \E s \in New : w = [a EXCEPT !.scheduled = @ \cup {s}, !.io = @ \cup {t}]
        \/ w = [a EXCEPT !.io = @ \cup {t}]
        \/ w = [a EXCEPT !.exec = @ \cup {t}]
    BY Zenon DEF Waits
  <2> HIDE DEF New
  <2>7. CASE \E s \in New : w = [a EXCEPT !.scheduled = @ \cup {s}]
    BY <1>2, <2>1, <2>2, <2>7, Zenon
  <2>8. CASE \E s \in New : w = [a EXCEPT !.scheduled = @ \cup {s}, !.io = @ \cup {t}]
    BY <1>1, <1>2, <2>1, <2>3, <2>8, Zenon
  <2>9. CASE w = [a EXCEPT !.io = @ \cup {t}]
    BY <1>1, <2>1, <2>4, <2>9, Zenon
  <2>10. CASE w = [a EXCEPT !.exec = @ \cup {t}]
    BY <1>1, <2>1, <2>5, <2>10, Zenon
  <2> QED
    BY <2>6, <2>7, <2>8, <2>9, <2>10
<1>4. w \in Asyncio
  BY <1>3 DEF Asyncio
<1>5. /\ w.scheduled = S /\ w.io = I /\ w.ready = a.ready /\ w.bound = a.bound
      /\ w.avail = a.avail /\ w.pipe = a.pipe
  BY <1>3 DEF Asyncio
<1> QED
  BY <1>3, <1>4, <1>5 DEF Finite, SameButWaits

\* A call joins the queue, and nothing else changes.
Queued(a, h, d) == d = [a EXCEPT !.ready = Append(@, h)]

\* Putting a handle on the queue.
LEMMA QueuedLemma ==
  ASSUME NEW a \in Asyncio, Finite(a), NEW h \in Handle, NEW d, Queued(a, h, d)
  PROVE  /\ d \in Asyncio /\ Finite(d) /\ Len(d.ready) = Len(a.ready) + 1 /\ d.ready # <<>>
         /\ d.bound = a.bound /\ d.scheduled = a.scheduled
         /\ d.avail = a.avail /\ d.pipe = a.pipe
<1>1. PICK q \in Seq(Handle) : q = Append(a.ready, h) /\ Len(q) = Len(a.ready) + 1
  <2>1. a.ready \in Seq(Handle)
    BY DEF Asyncio
  <2>2. Append(a.ready, h) \in Seq(Handle) /\ Len(Append(a.ready, h)) = Len(a.ready) + 1
    BY <2>1
  <2> QED BY <2>2, Zenon
<1>2. d = [a EXCEPT !.ready = q]
  BY <1>1 DEF Queued
<1>3. d \in Asyncio
  BY <1>2 DEF Asyncio
<1>4. /\ d.ready = q /\ d.bound = a.bound /\ d.scheduled = a.scheduled
      /\ d.avail = a.avail /\ d.pipe = a.pipe /\ d.io = a.io
  BY <1>2 DEF Asyncio
<1>5. q # <<>>
  <2>1. Len(a.ready) \in Nat
    BY DEF Asyncio
  <2> QED BY <1>1, <2>1
<1> QED
  BY <1>1, <1>3, <1>4, <1>5 DEF Finite

\* The application that is dispatched, or the one that ends, and what it leaves.
LEMMA EndedLemma ==
  ASSUME NEW a \in Asyncio, Finite(a), NEW t, NEW d \in Ended(a, t)
  PROVE  /\ d \in Asyncio /\ Finite(d) /\ Len(d.ready) >= Len(a.ready)
         /\ d.bound = a.bound /\ d.scheduled = a.scheduled
         /\ d.avail = a.avail /\ d.pipe = a.pipe
<1>1. CASE d = a
  BY <1>1 DEF Asyncio
<1>2. CASE \E b \in Task : Queued(a, Call(b), d)
  <2>1. PICK b \in Task : Queued(a, Call(b), d)
    BY <1>2
  <2>2. Call(b) \in Handle
    BY DEF Call, Handle
  <2>3. Len(a.ready) \in Nat
    BY DEF Asyncio
  <2> QED BY <2>1, <2>2, <2>3, QueuedLemma
<1> QED
  BY <1>1, <1>2 DEF Ended, Queued

\* A suspended application leaves something to run.
LEMMA ContinuedLemma ==
  ASSUME now \in Nat, aio \in Asyncio, Finite(aio), NEW t \in Task, NEW d \in Continued(t)
  PROVE  /\ d \in Asyncio /\ Finite(d) /\ Len(d.ready) >= Len(aio.ready)
         /\ d.bound = aio.bound /\ d.avail = aio.avail /\ d.pipe = aio.pipe
<1>1. Call(t) \in Handle /\ [task |-> t, dead |-> TRUE] \in Handle
  BY DEF Call, Handle
<1>2. Len(aio.ready) \in Nat
  BY DEF Asyncio
<1>3. CASE Queued(aio, Call(t), d)
  BY <1>1, <1>2, <1>3, QueuedLemma
<1>4. CASE \E a \in Waits(aio, t) : Queued(a, [task |-> t, dead |-> TRUE], d)
  <2>1. PICK a \in Waits(aio, t) : Queued(a, [task |-> t, dead |-> TRUE], d)
    BY <1>4
  <2>2. a \in Asyncio /\ Finite(a) /\ SameButWaits(aio, a)
    BY WaitsLemma
  <2> QED BY <1>1, <1>2, <2>1, <2>2, QueuedLemma DEF SameButWaits
<1> QED
  BY <1>3, <1>4 DEF Continued, Yields, Queued

\* The head of _run_once: asyncio drops timers or replaces its list.
LEMMA PrunedLemma ==
  ASSUME NEW a \in Asyncio, Finite(a), NEW d, d = Pruned(a)
  PROVE  /\ d \in Asyncio /\ Finite(d) /\ d.ready = a.ready
         /\ d.avail = a.avail /\ d.pipe = a.pipe
         /\ d.bound => a.bound
         /\ a.bound /\ MaxTimers <= MinScheduled => d.bound
<1> DEFINE S     == a.scheduled
           alive == {s \in S : ~s.dead}
           head  == {s \in S : \E k \in alive : k.when <= s.when}
           many  == Cardinality(S) > MinScheduled
                    /\ 2 * Cardinality(S \ alive) > Cardinality(S)
<1>1. \/ many /\ d = [a EXCEPT !.scheduled = alive, !.bound = FALSE,
                               !.old = IF a.bound THEN S ELSE @]
      \/ ~many /\ d = [a EXCEPT !.scheduled = head]
  BY DEF Pruned
<1>2. S \in SUBSET Timer /\ IsFiniteSet(S) /\ Cardinality(S) <= MaxTimers
      /\ MaxTimers \in Nat /\ MinScheduled \in Nat /\ Cardinality(S) \in Nat
  BY LoopAssumption, FS_CardinalityType DEF Asyncio, Finite
<1>3. ASSUME NEW T \in SUBSET S
      PROVE  T \in SUBSET Timer /\ IsFiniteSet(T) /\ Cardinality(T) <= MaxTimers
  <2>1. IsFiniteSet(T) /\ Cardinality(T) <= Cardinality(S) /\ T \in SUBSET Timer
    BY <1>2, FS_Subset
  <2>2. Cardinality(T) \in Nat
    BY <2>1, FS_CardinalityType
  <2> QED BY <1>2, <2>1, <2>2
<1>4. many => ~(MaxTimers <= MinScheduled)
  BY <1>2
<1>5. alive \in SUBSET S /\ head \in SUBSET S
  OBVIOUS
<1>6. PICK T \in SUBSET S, o \in SUBSET Timer, b \in BOOLEAN :
        /\ d = [a EXCEPT !.scheduled = T, !.bound = b, !.old = o]
        /\ b => a.bound
        /\ a.bound /\ MaxTimers <= MinScheduled => b
  <2>1. a.old \in SUBSET Timer /\ a.bound \in BOOLEAN
    BY DEF Asyncio
  <2>2. CASE many /\ d = [a EXCEPT !.scheduled = alive, !.bound = FALSE,
                                   !.old = IF a.bound THEN S ELSE @]
    <3>1. PICK o \in SUBSET Timer : o = IF a.bound THEN S ELSE a.old
      BY <1>2, <2>1
    <3>2. d = [a EXCEPT !.scheduled = alive, !.bound = FALSE, !.old = o]
      BY <2>2, <3>1 DEF Asyncio
    <3> HIDE DEF many, alive, S
    <3> QED BY <1>4, <1>5, <2>2, <3>2
  <2>3. CASE ~many /\ d = [a EXCEPT !.scheduled = head]
    <3>1. d = [a EXCEPT !.scheduled = head, !.bound = a.bound, !.old = a.old]
      BY <2>3 DEF Asyncio
    <3> HIDE DEF many, head, S
    <3> QED BY <1>5, <2>1, <3>1
  <2> QED BY <1>1, <2>2, <2>3
<1> HIDE DEF S, alive, head, many
<1>7. d \in Asyncio
  BY <1>3, <1>6, ZenonT(40) DEF Asyncio
<1>8. /\ d.scheduled = T /\ d.bound = b /\ d.ready = a.ready /\ d.io = a.io
      /\ d.avail = a.avail /\ d.pipe = a.pipe
  BY <1>6 DEF Asyncio
<1> QED
  BY <1>3, <1>6, <1>7, <1>8 DEF Finite

-----------------------------------------------------------------------------
(* Dispatch *)

\* What the next poll is armed with.
SameArming(u, d) ==
  /\ d.idle = u.idle /\ d.timer = u.timer /\ d.due = u.due /\ d.lag = u.lag

\* The bounds of the timer are about these fields only.
LEMMA SameArmingLemma ==
  ASSUME NEW u, NEW d, NEW S, SameArming(u, d)
  PROVE  /\ FiresFor(u, S) => FiresFor(d, S)
         /\ d.time = u.time /\ ArmedFor(u, S) => ArmedFor(d, S)
BY DEF SameArming, FiresFor, ArmedFor

\* A response adds to what the next poll will not sleep over, or gets stuck.
LEMMA WrittenLemma ==
  ASSUME NEW u \in Loop, NEW d \in Written(u)
  PROVE  /\ d \in Loop /\ SameArming(u, d) /\ (d.pend \/ d.stuck)
         /\ d.phase = u.phase /\ d.time = u.time /\ d.fd = u.fd
<1>1. d = [u EXCEPT !.pend = TRUE] \/ d = [u EXCEPT !.stuck = TRUE]
  BY DEF Written
<1>2. d \in Loop
  BY <1>1 DEF Loop
<1>3. SameArming(u, d)
  BY <1>1 DEF Loop, SameArming
<1>4. (d.pend \/ d.stuck) /\ d.phase = u.phase /\ d.time = u.time /\ d.fd = u.fd
  BY <1>1 DEF Loop
<1> QED
  BY <1>2, <1>3, <1>4

\* asgi_dispatch between two callbacks, from on_read or from on_write.
LEMMA DispatchLemma ==
  ASSUME Inv, cb.who = Nobody, uv.phase \in {"events", "pending"},
         NEW t \in Task, asgi_dispatch(t, uv), UNCHANGED <<env, now, cb>>
  PROVE  Inv'
<1>1. /\ now \in Nat /\ uv \in Loop /\ aio \in Asyncio /\ cb \in Callback /\ env \in Environment
      /\ cb.n <= Len(aio.ready) /\ Finite(aio) /\ TPM * uv.time <= now
      /\ cb.stage = "none" /\ cb.n \in Nat /\ Len(aio.ready) \in Nat
  BY DEF Inv, TypeOK, Nested, Clocked, Callback, Asyncio
<1>2. CASE \E a \in Continued(t) : aio' = a /\ uv' = asgi_arm_wakeups(uv, a)
  <2>1. /\ aio' \in Asyncio /\ Finite(aio)' /\ Len(aio'.ready) >= Len(aio.ready)
        /\ aio'.avail = aio.avail /\ aio'.pipe = aio.pipe
    BY <1>1, <1>2, ContinuedLemma DEF Finite
  <2>2. /\ uv' \in Loop /\ SameLoop(uv, uv') /\ (uv'.idle <=> aio'.ready # <<>>)
        /\ aio'.bound => ArmedFor(uv', aio'.scheduled) /\ FiresFor(uv', aio'.scheduled)
    BY <1>1, <1>2, <2>1, ArmLemma
  <2>3. TypeOK'
    <3>1. Len(aio'.ready) \in Nat
      BY <2>1 DEF Asyncio
    <3> QED BY <1>1, <2>1, <2>2, <3>1 DEF TypeOK
  <2>4. Nested' /\ Clocked'
    BY <1>1, <2>1, <2>2 DEF Inv, Nested, Clocked, SameLoop, Readable
  <2>5. Noticed' /\ Scheduled'
    BY <2>2 DEF Noticed, Scheduled, ArmedFor, FiresFor
  <2>6. PollEnds' /\ SelectEnds'
    BY <1>1, <2>2 DEF PollEnds, SelectEnds, SameLoop
  <2> QED BY <2>1, <2>3, <2>4, <2>5, <2>6 DEF Inv
<1>3. CASE \E a \in Ended(aio, t) : aio' = a /\ uv' \in Written(uv)
  <2>1. /\ aio' \in Asyncio /\ Finite(aio)' /\ Len(aio'.ready) >= Len(aio.ready)
        /\ aio'.avail = aio.avail /\ aio'.pipe = aio.pipe
        /\ aio'.bound = aio.bound /\ aio'.scheduled = aio.scheduled
    BY <1>1, <1>3, EndedLemma DEF Finite
  <2>2. /\ uv' \in Loop /\ SameArming(uv, uv') /\ (uv'.pend \/ uv'.stuck)
        /\ uv'.phase = uv.phase /\ uv'.time = uv.time /\ uv'.fd = uv.fd
    BY <1>1, <1>3, WrittenLemma
  <2>3. TypeOK'
    <3>1. Len(aio'.ready) \in Nat
      BY <2>1 DEF Asyncio
    <3> QED BY <1>1, <2>1, <2>2, <3>1 DEF TypeOK
  <2>4. Nested' /\ Clocked'
    BY <1>1, <2>1, <2>2 DEF Inv, Nested, Clocked, Readable
  <2>5. Noticed'
    BY <2>2 DEF Noticed
  <2>6. Scheduled'
    <3>1. aio'.bound => /\ FiresFor(uv', aio.scheduled)
                        /\ uv.phase = "pending" => ArmedFor(uv', aio.scheduled)
      BY <2>1, <2>2, SameArmingLemma DEF Inv, Scheduled
    <3> QED BY <2>1, <2>2, <3>1 DEF Scheduled, ArmedFor, FiresFor
  <2>7. PollEnds' /\ SelectEnds'
    BY <1>1, <2>2 DEF PollEnds, SelectEnds
  <2> QED BY <2>1, <2>3, <2>4, <2>5, <2>6, <2>7 DEF Inv
<1> QED
  BY <1>2, <1>3 DEF asgi_dispatch

-----------------------------------------------------------------------------
(* asyncio's turn *)

\* The head of _run_once: its select has a deadline if anything is ready or
\* scheduled.
LEMMA RunOnceLemma ==
  ASSUME now \in Nat, aio \in Asyncio, Finite(aio),
         NEW who \in {"check", "timer", "poll"}, asgi_run_once(who)
  PROVE  /\ aio' \in Asyncio /\ Finite(aio)' /\ aio'.ready = aio.ready
         /\ aio'.avail = aio.avail /\ aio'.pipe = aio.pipe
         /\ aio'.bound => aio.bound
         /\ aio.bound /\ MaxTimers <= MinScheduled => aio'.bound
         /\ cb' \in Callback /\ cb'.who = who /\ cb'.stage = "select" /\ cb'.n = 0
         /\ aio.ready # <<>> => cb'.until = now
         /\ aio.scheduled # {} =>
              cb'.cut \/ cb'.until = now \/ cb'.until = Earliest(aio.scheduled)
<1> DEFINE a     == Pruned(aio)
           until == IF a.ready # <<>> THEN now
                    ELSE IF a.scheduled = {} THEN Never
                    ELSE IF Earliest(a.scheduled) <= now THEN now
                    ELSE Earliest(a.scheduled)
           cut   == a.scheduled # aio.scheduled
<1>1. /\ aio' = a
      /\ cb' = [who |-> who, stage |-> "select", n |-> 0, cut |-> cut, until |-> until]
  BY DEF asgi_run_once
<1>2. /\ a \in Asyncio /\ Finite(a) /\ a.ready = aio.ready
      /\ a.avail = aio.avail /\ a.pipe = aio.pipe
      /\ a.bound => aio.bound
      /\ aio.bound /\ MaxTimers <= MinScheduled => a.bound
  BY PrunedLemma
<1> HIDE DEF a
<1>3. a.scheduled # {} => Earliest(a.scheduled) \in Nat
  BY <1>2, EarliestLemma DEF Asyncio
<1>4. until \in Nat \cup {Never} /\ cut \in BOOLEAN
  BY <1>3
<1>5. /\ aio.ready # <<>> => until = now
      /\ aio.scheduled # {} => cut \/ until = now \/ until = Earliest(aio.scheduled)
  BY <1>2
<1> HIDE DEF until, cut
<1>6. /\ cb' \in Callback /\ cb'.who = who /\ cb'.stage = "select" /\ cb'.n = 0
      /\ cb'.until = until /\ cb'.cut = cut
  BY <1>1, <1>4 DEF Callback
<1> QED
  BY <1>1, <1>2, <1>5, <1>6

\* What a callback that goes into asyncio needs to keep the invariant: libuv is
\* where it was, and the select has its reason to return.
LEMMA EnterLemma ==
  ASSUME Inv, UNCHANGED <<env, now>>,
         aio' \in Asyncio, Finite(aio)', cb' \in Callback, cb'.n <= Len(aio'.ready),
         cb'.stage # "none", cb'.who # Nobody,
         uv' \in Loop, uv'.phase = uv.phase, uv'.time = uv.time, ~uv'.fd,
         cb'.who = "check" => uv.phase = "check",
         cb'.who = "timer" => uv.phase = "timers",
         cb'.who = "poll" => uv.phase = "events",
         SelectEnds'
  PROVE  Inv'
<1>1. TypeOK'
  BY DEF Inv, TypeOK
<1>2. Nested' /\ Clocked'
  BY DEF Inv, Nested, Clocked
<1>3. Noticed' /\ Scheduled'
  BY DEF Noticed, Scheduled
<1>4. uv.phase # "poll"
  BY DEF Callback
<1>5. PollEnds'
  BY <1>4 DEF PollEnds
<1> QED
  BY <1>1, <1>2, <1>3, <1>5 DEF Inv

\* What is known between two callbacks.
LEMMA Between ==
  ASSUME Inv, NEW p, In(p)
  PROVE  /\ now \in Nat /\ uv \in Loop /\ aio \in Asyncio /\ cb \in Callback
         /\ env \in Environment /\ cb.n <= Len(aio.ready) /\ Finite(aio)
         /\ TPM * uv.time <= now /\ cb.stage = "none" /\ cb.who = Nobody /\ uv.phase = p
         /\ uv.time \in Nat /\ uv.due \in Nat /\ uv.lag \in Nat /\ TPM \in Nat \ {0}
         /\ cb.n \in Nat /\ Len(aio.ready) \in Nat
BY LoopAssumption DEF Inv, TypeOK, Nested, Clocked, In, Loop, Callback, Asyncio

\* asgi_timer_cb: if asyncio's deadline has not come, libuv's clock lagged.
LEMMA TimerLemma ==
  ASSUME Inv, asgi_timer_cb
  PROVE  Inv'
<1>1. /\ In("timers") /\ uv.timer /\ uv.due <= uv.time /\ UNCHANGED <<env, now>>
      /\ uv' = [uv EXCEPT !.timer = FALSE] /\ asgi_run_once("timer")
  BY DEF asgi_timer_cb
<1>2. /\ now \in Nat /\ uv \in Loop /\ aio \in Asyncio /\ Finite(aio) /\ TPM * uv.time <= now
      /\ uv.time \in Nat /\ uv.due \in Nat /\ uv.lag \in Nat /\ TPM \in Nat \ {0}
      /\ cb.who = Nobody /\ uv.phase = "timers" /\ Len(aio.ready) \in Nat
  BY <1>1, Between
<1>3. "timer" \in {"check", "timer", "poll"}
  OBVIOUS
<1>4. /\ aio' \in Asyncio /\ Finite(aio)' /\ aio'.ready = aio.ready /\ (aio'.bound => aio.bound)
      /\ cb' \in Callback /\ cb'.who = "timer" /\ cb'.stage = "select" /\ cb'.n = 0
      /\ aio.scheduled # {} =>
           cb'.cut \/ cb'.until = now \/ cb'.until = Earliest(aio.scheduled)
  BY <1>1, <1>2, <1>3, RunOnceLemma
<1>5. /\ uv' \in Loop /\ uv'.phase = uv.phase /\ uv'.time = uv.time /\ uv'.fd = uv.fd
      /\ uv'.lag = uv.lag
  BY <1>1, <1>2 DEF Loop
<1>6. ~uv.fd
  BY <1>2 DEF Inv, Clocked
<1>7. SelectEnds'
  <2> SUFFICES ASSUME aio'.bound, ~cb'.cut
               PROVE  (cb'.until # Never /\ cb'.until <= now)
                      \/ (cb'.until # Never /\ cb'.until - now < uv.lag)
    BY <1>1, <1>4, <1>5 DEF SelectEnds, Expired
  <2>1. aio.scheduled # {} /\ (Earliest(aio.scheduled) <= now
                               \/ Earliest(aio.scheduled) < TPM * uv.due + uv.lag)
    BY <1>1, <1>2, <1>4 DEF Inv, Scheduled, FiresFor
  <2>2. Earliest(aio.scheduled) \in Nat
    BY <1>2, <2>1, EarliestLemma DEF Asyncio
  <2>3. TPM * uv.due <= TPM * uv.time /\ TPM * uv.due \in Nat /\ TPM * uv.time \in Nat
    <3>1. TPM \in Nat
      BY <1>2
    <3>2. TPM * uv.due <= TPM * uv.time
      BY <1>1, <1>2, <3>1, TimesMonotone, Zenon
    <3> QED BY <1>2, <3>1, <3>2
  <2>4. PICK e \in Nat, x \in Nat, y \in Nat :
          e = Earliest(aio.scheduled) /\ x = TPM * uv.due /\ y = TPM * uv.time
    BY <2>2, <2>3
  <2>5. e <= now \/ e - now < uv.lag
    <3>1. (e <= now \/ e < x + uv.lag) /\ x <= y /\ y <= now
      BY <1>2, <2>1, <2>3, <2>4
    <3> QED BY <1>2, <3>1
  <2>6. cb'.until = now \/ cb'.until = e
    BY <1>4, <2>1, <2>4
  <2>7. now # Never /\ e # Never
    BY <1>2 DEF Never
  <2> QED
    BY <1>2, <2>5, <2>6, <2>7
<1>8. cb'.n <= Len(aio'.ready) /\ cb'.stage # "none" /\ cb'.who # Nobody
  BY <1>2, <1>4 DEF Nobody
<1> QED
  BY <1>1, <1>2, <1>4, <1>5, <1>6, <1>7, <1>8, EnterLemma

\* asgi_poll_cb: the selector has something to return.
LEMMA PollLemma ==
  ASSUME Inv, asgi_poll_cb
  PROVE  Inv'
<1>1. /\ In("events") /\ uv.fd /\ UNCHANGED <<env, now>>
      /\ uv' = [uv EXCEPT !.fd = FALSE] /\ asgi_run_once("poll")
  BY DEF asgi_poll_cb
<1>2. /\ now \in Nat /\ uv \in Loop /\ aio \in Asyncio /\ Finite(aio)
      /\ cb.who = Nobody /\ uv.phase = "events" /\ Len(aio.ready) \in Nat
  BY <1>1, Between
<1>3. "poll" \in {"check", "timer", "poll"}
  OBVIOUS
<1>4. /\ aio' \in Asyncio /\ Finite(aio)' /\ aio'.ready = aio.ready
      /\ aio'.avail = aio.avail /\ aio'.pipe = aio.pipe
      /\ cb' \in Callback /\ cb'.who = "poll" /\ cb'.stage = "select" /\ cb'.n = 0
  BY <1>1, <1>2, <1>3, RunOnceLemma
<1>5. uv' \in Loop /\ uv'.phase = uv.phase /\ uv'.time = uv.time /\ ~uv'.fd
  BY <1>1, <1>2 DEF Loop
<1>6. Readable
  BY <1>1 DEF Inv, Clocked
<1>7. SelectEnds'
  BY <1>4, <1>6 DEF SelectEnds, Readable
<1>8. cb'.n <= Len(aio'.ready) /\ cb'.stage # "none" /\ cb'.who # Nobody
  BY <1>2, <1>4 DEF Nobody
<1> QED
  BY <1>1, <1>2, <1>4, <1>5, <1>7, <1>8, EnterLemma

\* uv__update_time before the timers.
LEMMA ToTimersLemma ==
  ASSUME now \in Nat, NEW u \in Loop, TPM * u.time <= now, NEW d, d = ToTimers(u)
  PROVE  /\ d \in Loop /\ d.phase = "timers" /\ TPM * d.time <= now /\ u.time <= d.time
         /\ SameArming(u, d) /\ d.fd = u.fd
<1>1. PICK q \in Nat : q = now \div TPM /\ TPM * q <= now /\ u.time <= q
  <2>1. TPM \in Nat \ {0} /\ u.time \in Nat
    BY LoopAssumption DEF Loop
  <2>2. now \div TPM \in Nat /\ TPM * (now \div TPM) <= now
    BY <2>1, DivLemma
  <2>3. u.time <= now \div TPM
    BY <2>1, DivLargest
  <2> QED BY <2>2, <2>3
<1>2. d = [u EXCEPT !.phase = "timers", !.time = q]
  BY <1>1 DEF ToTimers
<1>3. d \in Loop /\ d.phase = "timers" /\ d.time = q /\ d.fd = u.fd
  BY <1>2 DEF Loop
<1>4. SameArming(u, d)
  BY <1>2 DEF Loop, SameArming
<1> QED
  BY <1>1, <1>3, <1>4

\* The completions of the iteration that ends become the batch of the next.
LEMMA ToPendingLemma ==
  ASSUME NEW u \in Loop, NEW d, d = ToPending(u)
  PROVE  /\ d \in Loop /\ d.phase = "pending" /\ d.time = u.time
         /\ SameArming(u, d) /\ d.fd = u.fd /\ d.stuck = u.stuck
<1>1. d = [u EXCEPT !.phase = "pending", !.batch = u.pend, !.pend = FALSE]
  BY DEF ToPending
<1>2. d \in Loop /\ d.phase = "pending" /\ d.time = u.time /\ d.fd = u.fd /\ d.stuck = u.stuck
  BY <1>1 DEF Loop
<1>3. SameArming(u, d)
  BY <1>1 DEF Loop, SameArming
<1> QED
  BY <1>2, <1>3

\* Time brings a deadline nearer: what was due at once still is.
LEMMA LaterLemma ==
  ASSUME NEW u \in Loop, NEW d \in Loop, NEW S, SameArming(u, d), u.time <= d.time
  PROVE  ArmedFor(u, S) => ArmedFor(d, S)
<1>1. u.due \in Nat /\ u.time \in Nat /\ d.time \in Nat
  BY DEF Loop
<1> QED
  BY <1>1 DEF ArmedFor, SameArming

\* libuv goes on after arming, in the phase that follows.
LEMMA ArmedGoesOn ==
  ASSUME Inv, UNCHANGED <<env, now, aio>>, cb' \in Callback, cb'.n <= Len(aio.ready),
         cb'.who = Nobody, cb'.stage = "none", ~uv.fd,
         NEW d, d = asgi_arm_wakeups(uv, aio),
         \/ uv' = ToTimers(d)
         \/ uv' = ToPending(d)
         \/ uv' = d /\ uv.phase = "events"
  PROVE  Inv'
<1>1. /\ now \in Nat /\ uv \in Loop /\ aio \in Asyncio /\ Finite(aio)
      /\ TPM * uv.time <= now /\ env \in Environment
  BY DEF Inv, TypeOK, Clocked
<1>2. /\ d \in Loop /\ SameLoop(uv, d) /\ (d.idle <=> aio.ready # <<>>)
      /\ aio.bound => ArmedFor(d, aio.scheduled) /\ FiresFor(d, aio.scheduled)
  BY <1>1, ArmLemma
<1>3. TPM * d.time <= now /\ ~d.fd /\ d.phase = uv.phase /\ d.time \in Nat
  BY <1>1, <1>2 DEF SameLoop, Loop
<1>4. /\ uv' \in Loop /\ SameArming(d, uv') /\ TPM * uv'.time <= now /\ d.time <= uv'.time
      /\ ~uv'.fd /\ uv'.phase \in {"timers", "pending", "events"}
  <2>1. CASE uv' = ToTimers(d)
    BY <1>1, <1>2, <1>3, <2>1, ToTimersLemma
  <2>2. CASE uv' = ToPending(d)
    BY <1>2, <1>3, <2>2, ToPendingLemma
  <2>3. CASE uv' = d /\ uv.phase = "events"
    BY <1>2, <1>3, <2>3 DEF SameArming
  <2> QED BY <2>1, <2>2, <2>3
<1>5. TypeOK'
  BY <1>1, <1>4 DEF TypeOK
<1>6. Nested' /\ Clocked' /\ Finite(aio)'
  BY <1>1, <1>4 DEF Nested, Clocked, Finite, Nobody
<1>7. Noticed'
  BY <1>2, <1>4 DEF Noticed, SameArming
<1>8. Scheduled'
  <2>1. aio.bound => ArmedFor(uv', aio.scheduled) /\ FiresFor(uv', aio.scheduled)
    BY <1>2, <1>4, LaterLemma, SameArmingLemma
  <2> QED BY <2>1 DEF Scheduled, ArmedFor, FiresFor
<1>9. PollEnds' /\ SelectEnds'
  BY <1>4 DEF PollEnds, SelectEnds
<1> QED
  BY <1>5, <1>6, <1>7, <1>8, <1>9 DEF Inv

\* asgi_check_cb: it arms, or runs what is ready without waiting for more.
LEMMA CheckLemma ==
  ASSUME Inv, asgi_check_cb
  PROVE  Inv'
<1>1. In("check") /\ UNCHANGED <<env, now>>
  BY DEF asgi_check_cb
<1>2. /\ now \in Nat /\ uv \in Loop /\ aio \in Asyncio /\ Finite(aio) /\ cb \in Callback
      /\ cb.who = Nobody /\ cb.stage = "none" /\ uv.phase = "check"
      /\ cb.n <= Len(aio.ready) /\ Len(aio.ready) \in Nat
  BY <1>1, Between
<1>3. ~uv.fd
  BY <1>2 DEF Inv, Clocked
<1>4. CASE aio.ready = <<>>
  <2>1. uv' = ToTimers(asgi_arm_wakeups(uv, aio)) /\ UNCHANGED <<aio, cb>>
    BY <1>4 DEF asgi_check_cb
  <2> QED BY <1>1, <1>2, <1>3, <2>1, ArmedGoesOn
<1>5. CASE aio.ready # <<>> /\ env.poll
  <2>1. UNCHANGED <<uv, aio>> /\ cb' = [Idle EXCEPT !.who = "check", !.stage = "run",
                                                    !.n = Len(aio.ready)]
    BY <1>5 DEF asgi_check_cb, asgi_drain_ready, Ntodo
  <2>2. cb' \in Callback /\ cb'.who = "check" /\ cb'.stage = "run" /\ cb'.n = Len(aio.ready)
    BY <1>2, <2>1 DEF Idle, Callback, Never
  <2>3. SelectEnds'
    BY <2>2 DEF SelectEnds
  <2>4. cb'.n <= Len(aio'.ready) /\ cb'.stage # "none" /\ cb'.who # Nobody
    BY <1>2, <2>1, <2>2 DEF Nobody
  <2> QED
    BY <1>1, <1>2, <1>3, <2>1, <2>2, <2>3, <2>4, EnterLemma DEF Finite
<1>6. CASE aio.ready # <<>> /\ ~env.poll
  <2>1. uv' = uv /\ asgi_run_once("check")
    BY <1>6 DEF asgi_check_cb
  <2>2. "check" \in {"check", "timer", "poll"}
    OBVIOUS
  <2>3. /\ aio' \in Asyncio /\ Finite(aio)' /\ aio'.ready = aio.ready
        /\ cb' \in Callback /\ cb'.who = "check" /\ cb'.stage = "select" /\ cb'.n = 0
        /\ cb'.until = now
    BY <1>2, <1>6, <2>1, <2>2, RunOnceLemma
  <2>4. SelectEnds'
    BY <1>1, <1>2, <2>3 DEF SelectEnds, Expired, Never
  <2>5. cb'.n <= Len(aio'.ready) /\ cb'.stage # "none" /\ cb'.who # Nobody
    BY <1>2, <2>3 DEF Nobody
  <2> QED
    BY <1>1, <1>2, <1>3, <2>1, <2>3, <2>4, <2>5, EnterLemma
<1> QED
  BY <1>4, <1>5, <1>6

\* What is known while a callback is inside asyncio.
LEMMA Inside ==
  ASSUME Inv, cb.stage # "none"
  PROVE  /\ now \in Nat /\ uv \in Loop /\ aio \in Asyncio /\ cb \in Callback
         /\ env \in Environment /\ cb.n <= Len(aio.ready) /\ Finite(aio)
         /\ cb.who \in {"check", "timer", "poll"} /\ cb.who # Nobody /\ ~uv.fd
         /\ cb.n \in Nat /\ Len(aio.ready) \in Nat /\ aio.ready \in Seq(Handle)
         /\ cb.who = "check" => uv.phase = "check"
         /\ cb.who = "timer" => uv.phase = "timers"
         /\ cb.who = "poll" => uv.phase = "events"
<1>1. now \in Nat /\ uv \in Loop /\ aio \in Asyncio /\ cb \in Callback /\ env \in Environment
      /\ cb.n <= Len(aio.ready) /\ Finite(aio)
  BY DEF Inv, TypeOK
<1>2. cb.who # Nobody
  BY DEF Inv, Nested
<1>3. cb.who \in {"check", "timer", "poll"} /\ ~uv.fd
  BY <1>1, <1>2 DEF Inv, Clocked, Callback
<1>4. cb.n \in Nat /\ Len(aio.ready) \in Nat /\ aio.ready \in Seq(Handle)
  BY <1>1 DEF Callback, Asyncio
<1> QED
  BY <1>1, <1>2, <1>3, <1>4 DEF Inv, Nested

\* The end of a turn arms for all that it left.
LEMMA TurnEndsLemma ==
  ASSUME Inv, TurnEnds
  PROVE  Inv'
<1> DEFINE d == asgi_arm_wakeups(uv, aio)
<1>1. /\ cb.stage = "run" /\ cb' = Idle /\ UNCHANGED <<env, now, aio>>
      /\ uv' = CASE cb.who = "check" -> ToTimers(d)
                 [] cb.who = "timer" -> ToPending(d)
                 [] cb.who = "poll"  -> d
  BY DEF TurnEnds
<1>2. /\ cb.who \in {"check", "timer", "poll"} /\ ~uv.fd /\ Len(aio.ready) \in Nat
      /\ cb.who = "poll" => uv.phase = "events"
  BY <1>1, Inside
<1> HIDE DEF d
<1>3. \/ uv' = ToTimers(d)
      \/ uv' = ToPending(d)
      \/ uv' = d /\ uv.phase = "events"
  <2>1. CASE cb.who = "check"
    BY <1>1, <2>1
  <2>2. CASE cb.who = "timer"
    BY <1>1, <2>2
  <2>3. CASE cb.who = "poll"
    BY <1>1, <1>2, <2>3
  <2> QED BY <1>2, <2>1, <2>2, <2>3
<1>4. cb' \in Callback /\ cb'.n <= Len(aio.ready) /\ cb'.who = Nobody /\ cb'.stage = "none"
  BY <1>1, <1>2 DEF Idle, Callback, Never
<1> QED
  BY <1>1, <1>2, <1>3, <1>4, ArmedGoesOn DEF d

\* An enumeration of a finite set is a sequence.
LEMMA EnumerationLemma ==
  ASSUME NEW S, IsFiniteSet(S), NEW e \in SetToSeqs(S)
  PROVE  /\ DOMAIN e = 1..Cardinality(S) /\ Cardinality(S) \in Nat
         /\ \A i \in DOMAIN e : e[i] \in S
<1>1. e \in [1..Cardinality(S) -> S]
  BY DEF SetToSeqs
<1>2. Cardinality(S) \in Nat
  BY FS_CardinalityType
<1> QED
  BY <1>1, <1>2

\* The select gathers what is ready: the turn's work is all of it.
LEMMA SelectLemma ==
  ASSUME Inv, Select
  PROVE  Inv'
<1> DEFINE due == {s \in aio.scheduled : s.when <= now}
<1> DEFINE Ready(es, ts) ==
             aio.ready \o [i \in DOMAIN es |-> Call(es[i])]
               \o [i \in DOMAIN ts |-> [task |-> ts[i].task, dead |-> ts[i].dead]]
<1>0. PICK events \in SetToSeqs(aio.avail), timers \in SetToSeqs(due) :
        /\ aio' = [aio EXCEPT !.ready = Ready(events, timers), !.scheduled = @ \ due,
                              !.io = @ \ aio.avail, !.avail = {}, !.pipe = FALSE]
        /\ cb' = [cb EXCEPT !.stage = "run", !.n = Len(Ready(events, timers)), !.until = Never]
  BY Zenon DEF Select, Ntodo
<1>1. PICK ready :
        /\ ready = aio.ready \o [i \in DOMAIN events |-> Call(events[i])]
                     \o [i \in DOMAIN timers |->
                           [task |-> timers[i].task, dead |-> timers[i].dead]]
        /\ aio' = [aio EXCEPT !.ready = ready, !.scheduled = @ \ due,
                              !.io = @ \ aio.avail, !.avail = {}, !.pipe = FALSE]
        /\ cb' = [cb EXCEPT !.stage = "run", !.n = Len(ready), !.until = Never]
  BY <1>0, Zenon
<1> HIDE DEF Ready
<1>2. cb.stage = "select" /\ UNCHANGED <<env, now, uv>>
  BY DEF Select
<1>3. /\ now \in Nat /\ uv \in Loop /\ aio \in Asyncio /\ cb \in Callback
      /\ Finite(aio) /\ cb.who # Nobody /\ ~uv.fd /\ aio.ready \in Seq(Handle)
      /\ cb.who = "check" => uv.phase = "check"
      /\ cb.who = "timer" => uv.phase = "timers"
      /\ cb.who = "poll" => uv.phase = "events"
  BY <1>2, Inside
<1>4. /\ aio.avail \in SUBSET Task /\ due \in SUBSET Timer
      /\ IsFiniteSet(aio.avail) /\ IsFiniteSet(due)
  <2>1. due \in SUBSET aio.scheduled /\ aio.avail \in SUBSET aio.io
    BY <1>3 DEF Finite
  <2>2. IsFiniteSet(aio.avail) /\ IsFiniteSet(due)
    BY <1>3, <2>1, FS_Subset DEF Finite
  <2> QED BY <1>3, <2>1, <2>2 DEF Asyncio
<1> HIDE DEF due
<1>5. PICK es \in Seq(Handle) : es = [i \in DOMAIN events |-> Call(events[i])]
  <2>1. /\ DOMAIN events = 1..Cardinality(aio.avail) /\ Cardinality(aio.avail) \in Nat
        /\ \A i \in DOMAIN events : events[i] \in aio.avail
    BY <1>4, EnumerationLemma
  <2>2. \A i \in DOMAIN events : Call(events[i]) \in Handle
    BY <1>4, <2>1 DEF Call, Handle
  <2>3. [i \in DOMAIN events |-> Call(events[i])] \in [1..Cardinality(aio.avail) -> Handle]
    BY <2>1, <2>2
  <2>4. [i \in DOMAIN events |-> Call(events[i])] \in Seq(Handle)
    BY <2>1, <2>3
  <2> QED BY <2>4
<1>6. PICK ts \in Seq(Handle) :
        ts = [i \in DOMAIN timers |-> [task |-> timers[i].task, dead |-> timers[i].dead]]
  <2> DEFINE H(s) == [task |-> s.task, dead |-> s.dead]
  <2>1. /\ DOMAIN timers = 1..Cardinality(due) /\ Cardinality(due) \in Nat
        /\ \A i \in DOMAIN timers : timers[i] \in due
    BY <1>4, EnumerationLemma
  <2>2. \A s \in Timer : H(s) \in Handle
    BY DEF Timer, Handle
  <2> HIDE DEF H
  <2>3. [i \in DOMAIN timers |-> H(timers[i])] \in [1..Cardinality(due) -> Handle]
    BY <1>4, <2>1, <2>2
  <2>4. [i \in DOMAIN timers |-> H(timers[i])] \in Seq(Handle)
    BY <2>1, <2>3
  <2> QED BY <2>4 DEF H
<1>7. ready \in Seq(Handle) /\ Len(ready) \in Nat
  <2>1. ready = (aio.ready \o es) \o ts
    BY <1>1, <1>5, <1>6
  <2>2. aio.ready \o es \in Seq(Handle)
    BY <1>3
  <2>3. (aio.ready \o es) \o ts \in Seq(Handle)
    BY <2>2
  <2> QED BY <2>1, <2>3
<1>8. PICK S, I : S = aio.scheduled \ due /\ I = aio.io \ aio.avail
  OBVIOUS
<1>9. /\ S \in SUBSET Timer /\ I \in SUBSET Task
      /\ IsFiniteSet(S) /\ IsFiniteSet(I) /\ Cardinality(S) <= MaxTimers
  <2>1. S \in SUBSET aio.scheduled /\ I \in SUBSET aio.io
    BY <1>8
  <2>2. /\ IsFiniteSet(S) /\ IsFiniteSet(I) /\ Cardinality(S) <= Cardinality(aio.scheduled)
    BY <1>3, <2>1, FS_Subset DEF Finite
  <2>3. Cardinality(S) \in Nat /\ Cardinality(aio.scheduled) \in Nat /\ MaxTimers \in Nat
    BY <1>3, <2>2, FS_CardinalityType, LoopAssumption DEF Finite
  <2> QED BY <1>3, <2>1, <2>2, <2>3 DEF Asyncio, Finite
<1>10. aio' = [aio EXCEPT !.ready = ready, !.scheduled = S, !.io = I, !.avail = {},
                          !.pipe = FALSE]
  BY <1>1, <1>8
<1>11. aio' \in Asyncio
  BY <1>3, <1>7, <1>9, <1>10 DEF Asyncio
<1>12. aio'.ready = ready /\ aio'.scheduled = S /\ aio'.io = I /\ aio'.avail = {}
  BY <1>3, <1>10 DEF Asyncio
<1>13. Finite(aio)'
  BY <1>9, <1>12 DEF Finite
<1>14. cb' \in Callback /\ cb'.who = cb.who /\ cb'.stage = "run" /\ cb'.n = Len(ready)
  BY <1>1, <1>3, <1>7 DEF Callback
<1>15. cb'.n <= Len(aio'.ready) /\ cb'.stage # "none" /\ cb'.who # Nobody
  BY <1>3, <1>7, <1>12, <1>14
<1>16. SelectEnds'
  BY <1>14 DEF SelectEnds
<1> QED
  BY <1>2, <1>3, <1>11, <1>13, <1>14, <1>15, <1>16, EnterLemma

\* One handle of the turn, whatever the application does in it.
LEMMA RunHandleLemma ==
  ASSUME Inv, RunHandle
  PROVE  Inv'
<1> DEFINE h      == Head(aio.ready)
           popped == [aio EXCEPT !.ready = Tail(@)]
           fresh  == Resume(popped, h.task)
<1>1. cb.stage = "run" /\ cb.n > 0 /\ UNCHANGED <<env, now>>
  BY DEF RunHandle
<1>2. /\ now \in Nat /\ uv \in Loop /\ aio \in Asyncio /\ cb \in Callback
      /\ Finite(aio) /\ cb.who # Nobody /\ ~uv.fd /\ aio.ready \in Seq(Handle)
      /\ cb.n <= Len(aio.ready) /\ cb.n \in Nat /\ Len(aio.ready) \in Nat
      /\ cb.who = "check" => uv.phase = "check"
      /\ cb.who = "timer" => uv.phase = "timers"
      /\ cb.who = "poll" => uv.phase = "events"
  BY <1>1, Inside
<1>3. /\ h \in Handle /\ Tail(aio.ready) \in Seq(Handle)
      /\ Len(Tail(aio.ready)) = Len(aio.ready) - 1
  BY <1>1, <1>2
<1>4. h.task \in Task
  BY <1>3 DEF Handle
<1>5. popped \in Asyncio /\ popped.ready = Tail(aio.ready) /\ Finite(popped)
  <2>1. PICK q \in Seq(Handle) : q = Tail(aio.ready)
    BY <1>3
  <2>2. PICK p : p = [aio EXCEPT !.ready = q]
    OBVIOUS
  <2>3. p \in Asyncio
    BY <1>2, <2>2 DEF Asyncio
  <2>4. p.ready = q /\ p.scheduled = aio.scheduled /\ p.io = aio.io /\ p.avail = aio.avail
    BY <1>2, <2>2 DEF Asyncio
  <2>5. Finite(p)
    BY <1>2, <2>4 DEF Finite
  <2>6. p = popped
    BY <2>1, <2>2
  <2> QED BY <2>1, <2>3, <2>4, <2>5, <2>6
<1> HIDE DEF popped
<1>6. fresh \in Asyncio /\ Finite(fresh) /\ Len(fresh.ready) = Len(popped.ready)
  BY <1>5, ResumeLemma
<1> HIDE DEF h, fresh
<1>7. ASSUME NEW a \in Asyncio, Finite(a), Len(a.ready) >= Len(aio.ready) - 1, aio' = a,
             cb' = [cb EXCEPT !.n = cb.n - 1] \/ cb' = [cb EXCEPT !.n = 0],
             uv' = uv \/ uv' \in Written(uv)
      PROVE  Inv'
  <2>1. cb.n - 1 \in Nat /\ Len(a.ready) \in Nat
    BY <1>1, <1>2, <1>7 DEF Asyncio
  <2>2. PICK n \in Nat : n \in {0, cb.n - 1} /\ cb' = [cb EXCEPT !.n = n]
    BY <1>7, <2>1
  <2>3. cb' \in Callback /\ cb'.n = n /\ cb'.stage = cb.stage /\ cb'.who = cb.who
    BY <1>2, <2>2 DEF Callback
  <2>4. cb'.n <= Len(aio'.ready) /\ cb'.stage # "none" /\ cb'.who # Nobody
    BY <1>1, <1>2, <1>7, <2>1, <2>2, <2>3
  <2>5. uv' \in Loop /\ uv'.phase = uv.phase /\ uv'.time = uv.time /\ ~uv'.fd
    BY <1>2, <1>7, WrittenLemma
  <2>6. SelectEnds'
    BY <1>1, <2>3 DEF SelectEnds
  <2>7. aio' \in Asyncio /\ Finite(aio)'
    BY <1>7 DEF Finite
  <2> QED BY <1>1, <1>2, <2>3, <2>4, <2>5, <2>6, <2>7, EnterLemma
<1>8. \/ aio' = popped /\ cb' = [cb EXCEPT !.n = cb.n - 1] /\ UNCHANGED uv
      \/ \E a \in Waits(fresh, h.task) \cup {Yields(fresh, h.task)} :
           aio' = a /\ cb' = [cb EXCEPT !.n = cb.n - 1] /\ UNCHANGED uv
      \/ \E a \in Ended(fresh, h.task) :
           aio' = a /\ cb' = [cb EXCEPT !.n = cb.n - 1] /\ uv' \in {uv} \cup Written(uv)
      \/ aio' = fresh /\ cb' = [cb EXCEPT !.n = 0] /\ UNCHANGED uv
  BY DEF RunHandle, NextHandle, h, popped, fresh
<1>9. Len(popped.ready) = Len(aio.ready) - 1 /\ Len(fresh.ready) = Len(aio.ready) - 1
      /\ Len(fresh.ready) \in Nat
  BY <1>3, <1>5, <1>6 DEF Asyncio
<1>10. CASE aio' = popped /\ cb' = [cb EXCEPT !.n = cb.n - 1] /\ UNCHANGED uv
  <2>1. Len(popped.ready) >= Len(aio.ready) - 1
    BY <1>2, <1>9
  <2> QED BY <1>5, <1>7, <1>10, <2>1
<1>11. CASE \E a \in Waits(fresh, h.task) \cup {Yields(fresh, h.task)} :
              aio' = a /\ cb' = [cb EXCEPT !.n = cb.n - 1] /\ UNCHANGED uv
  <2>1. PICK a \in Waits(fresh, h.task) \cup {Yields(fresh, h.task)} :
          aio' = a /\ cb' = [cb EXCEPT !.n = cb.n - 1] /\ UNCHANGED uv
    BY <1>11
  <2>2. CASE a \in Waits(fresh, h.task)
    <3>1. a \in Asyncio /\ Finite(a) /\ a.ready = fresh.ready
      BY <1>2, <1>4, <1>6, <2>2, WaitsLemma DEF SameButWaits
    <3> QED BY <1>2, <1>7, <1>9, <2>1, <3>1
  <2>3. CASE a = Yields(fresh, h.task)
    <3>1. Call(h.task) \in Handle
      BY <1>4 DEF Call, Handle
    <3>2. Queued(fresh, Call(h.task), a)
      BY <2>3 DEF Yields, Queued
    <3>3. a \in Asyncio /\ Finite(a) /\ Len(a.ready) = Len(fresh.ready) + 1
      BY <1>6, <3>1, <3>2, QueuedLemma
    <3>4. Len(a.ready) >= Len(aio.ready) - 1
      BY <1>2, <1>9, <3>3
    <3> QED BY <1>7, <2>1, <3>3, <3>4
  <2> QED BY <2>2, <2>3
<1>12. CASE \E a \in Ended(fresh, h.task) :
              aio' = a /\ cb' = [cb EXCEPT !.n = cb.n - 1] /\ uv' \in {uv} \cup Written(uv)
  <2>1. PICK a \in Ended(fresh, h.task) :
          aio' = a /\ cb' = [cb EXCEPT !.n = cb.n - 1] /\ uv' \in {uv} \cup Written(uv)
    BY <1>12
  <2>2. a \in Asyncio /\ Finite(a) /\ Len(a.ready) >= Len(fresh.ready)
    BY <1>6, EndedLemma
  <2>3. Len(a.ready) >= Len(aio.ready) - 1
    BY <1>9, <2>2
  <2> QED BY <1>7, <2>1, <2>2, <2>3
<1>13. CASE aio' = fresh /\ cb' = [cb EXCEPT !.n = 0] /\ UNCHANGED uv
  BY <1>2, <1>6, <1>7, <1>9, <1>13
<1> QED
  BY <1>8, <1>10, <1>11, <1>12, <1>13

-----------------------------------------------------------------------------
(* libuv's loop and the surroundings *)

\* libuv goes on without arming.
LEMMA GoesOn ==
  ASSUME Inv, NEW p, In(p), UNCHANGED <<env, now, aio, cb>>, uv' \in Loop, SameArming(uv, uv'),
         TPM * uv'.time <= now, uv'.fd => uv'.phase = "events" /\ Readable,
         Noticed', PollEnds',
         uv'.phase \in {"timers", "pending", "poll"} =>
           uv.phase \in {"timers", "pending", "poll"} /\ uv'.time = uv.time
  PROVE  Inv'
<1>1. /\ now \in Nat /\ aio \in Asyncio /\ cb \in Callback /\ env \in Environment
      /\ cb.n <= Len(aio.ready) /\ Finite(aio) /\ cb.stage = "none" /\ cb.who = Nobody
  BY Between
<1>2. TypeOK' /\ Finite(aio)'
  BY <1>1 DEF TypeOK, Finite
<1>3. Nested' /\ Clocked' /\ SelectEnds'
  BY <1>1 DEF Nested, Clocked, SelectEnds, Nobody, Readable
<1>4. Scheduled'
  <2>1. aio.bound => /\ FiresFor(uv', aio.scheduled)
                     /\ uv'.phase \in {"timers", "pending", "poll"} =>
                          ArmedFor(uv', aio.scheduled)
    BY <1>1, SameArmingLemma DEF Inv, Scheduled
  <2> QED BY <2>1 DEF Scheduled, ArmedFor, FiresFor
<1> QED
  BY <1>2, <1>3, <1>4 DEF Inv

\* The poll's timeout is what the handles ask for.
LEMMA PollBeginsLemma ==
  ASSUME Inv, PollBegins
  PROVE  Inv'
<1> DEFINE wake == IF uv.idle \/ uv.pend THEN now
                   ELSE IF ~uv.timer THEN Never
                   ELSE IF uv.due <= uv.time THEN now
                   ELSE now + TPM * (uv.due - uv.time)
<1>1. /\ In("pending") /\ UNCHANGED <<env, now, aio, cb>>
      /\ uv' = [uv EXCEPT !.phase = "poll", !.batch = FALSE, !.wake = wake]
  BY DEF PollBegins
<1>2. /\ now \in Nat /\ uv \in Loop /\ TPM * uv.time <= now /\ uv.phase = "pending"
      /\ uv.time \in Nat /\ uv.due \in Nat /\ TPM \in Nat \ {0} /\ cb.who = Nobody
  BY <1>1, Between
<1>3. wake \in Nat \cup {Never}
  <2>1. ~(uv.due <= uv.time) => TPM * (uv.due - uv.time) \in Nat
    BY <1>2
  <2> QED BY <1>2, <2>1
<1>4. /\ uv.idle \/ uv.pend => wake = now
      /\ uv.timer /\ uv.due <= uv.time => wake = now
  OBVIOUS
<1> HIDE DEF wake
<1>5. /\ uv' \in Loop /\ uv'.phase = "poll" /\ uv'.time = uv.time /\ uv'.fd = uv.fd
      /\ uv'.pend = uv.pend /\ uv'.stuck = uv.stuck /\ uv'.wake = wake
  BY <1>1, <1>2, <1>3 DEF Loop
<1>6. SameArming(uv, uv')
  BY <1>1, <1>2 DEF Loop, SameArming
<1>7. ~uv.fd
  BY <1>2 DEF Inv, Clocked
<1>8. PollEnds'
  BY <1>1, <1>2, <1>4, <1>5, <1>6 DEF PollEnds, Expired, SameArming, Never
<1>9. Noticed'
  BY <1>1, <1>2, <1>5, <1>6 DEF Inv, Noticed, SameArming
<1> QED
  BY <1>1, <1>2, <1>5, <1>6, <1>7, <1>8, <1>9, GoesOn

\* The poll returns, for whatever reason.
LEMMA WokenLemma ==
  ASSUME Inv, In("poll"), UNCHANGED <<env, now, aio, cb>>,
         uv' = Woken(uv) \/ uv' = Woken([uv EXCEPT !.stuck = FALSE])
  PROVE  Inv'
<1>1. now \in Nat /\ uv \in Loop /\ TPM * uv.time <= now /\ uv.phase = "poll" /\ TPM \in Nat \ {0}
      /\ env \in Environment
  BY Between
<1>2. PICK q \in Nat : q = now \div TPM /\ TPM * q <= now
  BY <1>1, DivLemma
<1>3. PICK f \in BOOLEAN : (f <=> env.poll /\ Readable)
  <2>1. (env.poll /\ Readable) \in BOOLEAN
    BY DEF Readable
  <2> QED BY <2>1
<1>4. PICK s \in BOOLEAN :
        uv' = [uv EXCEPT !.phase = "events", !.time = q, !.wake = Never, !.fd = f, !.stuck = s]
  <2>1. (env.poll /\ Readable) = f
    BY <1>1, <1>3 DEF Environment, Readable
  <2>2. CASE uv' = Woken(uv)
    <3>1. uv' = [uv EXCEPT !.phase = "events", !.time = q, !.wake = Never, !.fd = f,
                           !.stuck = uv.stuck]
      BY <1>1, <1>2, <2>1, <2>2 DEF Woken, Loop
    <3> QED BY <1>1, <3>1 DEF Loop
  <2>3. CASE uv' = Woken([uv EXCEPT !.stuck = FALSE])
    <3>1. uv' = [uv EXCEPT !.phase = "events", !.time = q, !.wake = Never, !.fd = f,
                           !.stuck = FALSE]
      BY <1>1, <1>2, <2>1, <2>3 DEF Woken, Loop
    <3> QED BY <3>1
  <2> QED BY <2>2, <2>3
<1>5. /\ uv' \in Loop /\ uv'.phase = "events" /\ uv'.time = q /\ uv'.fd = f
  BY <1>1, <1>4 DEF Loop
<1>6. SameArming(uv, uv')
  BY <1>1, <1>4 DEF Loop, SameArming
<1>7. Noticed' /\ PollEnds'
  BY <1>5 DEF Noticed, PollEnds
<1> QED
  BY <1>2, <1>3, <1>5, <1>6, <1>7, GoesOn

\* The end of the poll's callbacks: the check phase arms whatever is left.
LEMMA EventsEndLemma ==
  ASSUME Inv, EventsEnd
  PROVE  Inv'
<1>1. /\ In("events") /\ ~uv.fd /\ UNCHANGED <<env, now, aio, cb>>
  BY DEF EventsEnd
<1>2. uv \in Loop /\ TPM * uv.time <= now
  BY <1>1, Between
<1>3. PICK b \in BOOLEAN : uv' = [uv EXCEPT !.phase = "check", !.pend = b]
  BY <1>2 DEF EventsEnd, Loop
<1>4. uv' \in Loop /\ uv'.phase = "check" /\ uv'.time = uv.time /\ uv'.fd = uv.fd
  BY <1>2, <1>3 DEF Loop
<1>5. SameArming(uv, uv')
  BY <1>2, <1>3 DEF Loop, SameArming
<1>6. Noticed' /\ PollEnds'
  BY <1>4 DEF Noticed, PollEnds
<1> QED
  BY <1>1, <1>2, <1>4, <1>5, <1>6, GoesOn

\* The end of the timers: completions that wait become the next batch.
LEMMA TimersEndLemma ==
  ASSUME Inv, TimersEnd
  PROVE  Inv'
<1>1. In("timers") /\ uv' = ToPending(uv) /\ UNCHANGED <<env, now, aio, cb>>
  BY DEF TimersEnd
<1>2. uv \in Loop /\ TPM * uv.time <= now /\ uv.phase = "timers" /\ cb.who = Nobody
  BY <1>1, Between
<1>3. /\ uv' \in Loop /\ uv'.phase = "pending" /\ uv'.time = uv.time
      /\ SameArming(uv, uv') /\ uv'.fd = uv.fd /\ uv'.stuck = uv.stuck
  BY <1>1, <1>2, ToPendingLemma
<1>4. ~uv.fd
  BY <1>2 DEF Inv, Clocked
<1>5. Noticed' /\ PollEnds'
  BY <1>1, <1>2, <1>3 DEF Inv, Noticed, PollEnds, SameArming
<1> QED
  BY <1>1, <1>2, <1>3, <1>4, <1>5, GoesOn

\* The surroundings add to asyncio's loop what wakes it.
LEMMA OutsideLemma ==
  ASSUME Inv, UNCHANGED <<env, now, uv, cb>>, aio' \in Asyncio, Finite(aio)',
         Len(aio.ready) <= Len(aio'.ready), Readable => Readable',
         aio'.ready = aio.ready \/ aio'.pipe, aio.pipe => aio'.pipe,
         aio'.scheduled = aio.scheduled, aio'.bound = aio.bound
  PROVE  Inv'
<1>1. TypeOK'
  <2>1. cb.n \in Nat /\ Len(aio.ready) \in Nat /\ Len(aio'.ready) \in Nat
    BY DEF Inv, TypeOK, Callback, Asyncio
  <2> QED BY <2>1 DEF Inv, TypeOK
<1>2. Nested' /\ Clocked'
  BY DEF Inv, Nested, Clocked
<1>3. Noticed' /\ Scheduled'
  BY DEF Inv, Noticed, Scheduled, ArmedFor, FiresFor
<1>4. PollEnds' /\ SelectEnds'
  BY DEF Inv, PollEnds, SelectEnds, Expired
<1> QED
  BY <1>1, <1>2, <1>3, <1>4 DEF Inv

\* A descriptor becomes readable.
LEMMA IoLemma ==
  ASSUME Inv, IoCompletes
  PROVE  Inv'
<1>1. PICK t \in aio.io \ aio.avail : aio' = [aio EXCEPT !.avail = @ \cup {t}]
  BY DEF IoCompletes
<1>2. aio \in Asyncio /\ Finite(aio) /\ UNCHANGED <<env, now, uv, cb>>
  BY DEF Inv, TypeOK, IoCompletes
<1>3. PICK A \in SUBSET Task : A = aio.avail \cup {t} /\ A \subseteq aio.io
  <2>1. aio.avail \cup {t} \subseteq aio.io /\ aio.io \subseteq Task
    BY <1>2 DEF Finite, Asyncio
  <2> QED BY <2>1
<1>4. aio' = [aio EXCEPT !.avail = A]
  BY <1>1, <1>3
<1>5. aio' \in Asyncio
  BY <1>2, <1>4 DEF Asyncio
<1>6. /\ aio'.avail = A /\ aio'.ready = aio.ready /\ aio'.pipe = aio.pipe /\ aio'.io = aio.io
      /\ aio'.scheduled = aio.scheduled /\ aio'.bound = aio.bound
  BY <1>2, <1>4 DEF Asyncio
<1>7. Finite(aio)' /\ Readable'
  BY <1>2, <1>3, <1>6 DEF Finite, Readable
<1>8. Len(aio.ready) <= Len(aio'.ready)
  BY <1>2, <1>6 DEF Asyncio
<1> QED
  BY <1>2, <1>5, <1>6, <1>7, <1>8, OutsideLemma

\* An executor's thread calls back through the self-pipe.
LEMMA ThreadLemma ==
  ASSUME Inv, ThreadCalls
  PROVE  Inv'
<1>1. PICK t \in aio.exec :
        aio' = [aio EXCEPT !.exec = @ \ {t}, !.ready = Append(@, Call(t)), !.pipe = TRUE]
  BY DEF ThreadCalls
<1>2. aio \in Asyncio /\ Finite(aio) /\ UNCHANGED <<env, now, uv, cb>>
  BY DEF Inv, TypeOK, ThreadCalls
<1>3. /\ aio.ready \in Seq(Handle) /\ Call(t) \in Handle /\ aio.exec \ {t} \in SUBSET Task
      /\ Len(aio.ready) \in Nat
  BY <1>2 DEF Asyncio, Call, Handle
<1>4. PICK q \in Seq(Handle) : q = Append(aio.ready, Call(t)) /\ Len(q) = Len(aio.ready) + 1
  <2>1. /\ Append(aio.ready, Call(t)) \in Seq(Handle)
        /\ Len(Append(aio.ready, Call(t))) = Len(aio.ready) + 1
    BY <1>3
  <2> QED BY <2>1, Zenon
<1>5. PICK x \in SUBSET Task : x = aio.exec \ {t}
  BY <1>3
<1>6. aio' = [aio EXCEPT !.exec = x, !.ready = q, !.pipe = TRUE]
  BY <1>1, <1>4, <1>5
<1>7. aio' \in Asyncio
  BY <1>2, <1>6 DEF Asyncio
<1>8. /\ aio'.ready = q /\ aio'.pipe = TRUE /\ aio'.io = aio.io /\ aio'.avail = aio.avail
      /\ aio'.scheduled = aio.scheduled /\ aio'.bound = aio.bound
  BY <1>2, <1>6 DEF Asyncio
<1>9. Finite(aio)' /\ Readable'
  BY <1>2, <1>8 DEF Finite, Readable
<1>10. Len(aio.ready) <= Len(aio'.ready)
  BY <1>3, <1>4, <1>8
<1> QED
  BY <1>2, <1>7, <1>8, <1>9, <1>10, OutsideLemma

\* Time passes.
LEMMA TickLemma ==
  ASSUME Inv, Tick
  PROVE  Inv'
<1>1. now' = now + 1 /\ UNCHANGED <<env, uv, aio, cb>>
  BY DEF Tick
<1>2. /\ now \in Nat /\ uv \in Loop /\ aio \in Asyncio /\ cb \in Callback /\ TPM * uv.time <= now
  BY DEF Inv, TypeOK, Clocked
<1>3. uv.time \in Nat /\ TPM * uv.time \in Nat /\ uv.wake \in Int /\ cb.until \in Int
      /\ uv.lag \in Nat
  BY <1>2, LoopAssumption DEF Loop, Callback, Never
<1>4. TypeOK' /\ Nested' /\ Finite(aio)'
  BY <1>1, <1>2 DEF Inv, TypeOK, Nested, Finite
<1>5. Clocked' /\ Noticed'
  BY <1>1, <1>2, <1>3 DEF Inv, Clocked, Noticed, Readable
<1>6. Scheduled'
  <2>1. aio.bound /\ cb.who = Nobody /\ uv.timer => aio.scheduled # {}
                                                    /\ Earliest(aio.scheduled) \in Nat
    BY <1>2, EarliestLemma DEF Inv, Scheduled, FiresFor, Asyncio
  <2>2. \A e \in Nat : e <= now => e <= now'
    BY <1>1, <1>2
  <2>3. aio.bound /\ cb.who = Nobody /\ uv.timer =>
          \/ Earliest(aio.scheduled) <= now'
          \/ Earliest(aio.scheduled) < TPM * uv.due + uv.lag
    BY <2>1, <2>2 DEF Inv, Scheduled, FiresFor
  <2> QED BY <1>1, <2>1, <2>3 DEF Inv, Scheduled, ArmedFor, FiresFor
<1>7. /\ Expired(uv.wake) => Expired(uv.wake)'
      /\ Expired(cb.until) => Expired(cb.until)'
      /\ cb.until - now < uv.lag => cb.until - now' < uv.lag
  BY <1>1, <1>2, <1>3 DEF Expired
<1>8. PollEnds'
  BY <1>1, <1>7 DEF Inv, PollEnds
<1>9. SelectEnds'
  BY <1>1, <1>7 DEF Inv, SelectEnds, Readable
<1> QED
  BY <1>4, <1>5, <1>6, <1>8, <1>9 DEF Inv

-----------------------------------------------------------------------------
(* The theorems *)

\* Nothing runs, nothing is armed and nothing sleeps.
LEMMA InitLemma ==
  ASSUME Init
  PROVE  Inv /\ aio.bound
<1>1. env \in Environment /\ now \in Nat /\ MaxTimers \in Nat /\ TPM \in Nat
  BY LoopAssumption DEF Init
<1>2. uv \in Loop
  BY DEF Init, Loop
<1>3. aio \in Asyncio
  BY DEF Init, Asyncio
<1>4. cb \in Callback
  BY DEF Init, Idle, Callback, Nobody, Never
<1>5. /\ uv.phase = "pending" /\ uv.time = 0 /\ ~uv.timer /\ ~uv.fd /\ now = 0
      /\ aio.ready = <<>> /\ aio.scheduled = {} /\ aio.bound /\ aio.io = {} /\ aio.avail = {}
      /\ cb.who = Nobody /\ cb.stage = "none" /\ cb.n = 0
  BY DEF Init, Idle
<1>6. Finite(aio)
  BY <1>1, <1>5, FS_EmptySet DEF Finite
<1>7. TypeOK
  BY <1>1, <1>2, <1>3, <1>4, <1>5 DEF TypeOK
<1>8. Nested /\ Clocked
  BY <1>1, <1>5 DEF Nested, Clocked, Nobody
<1>9. Noticed /\ Scheduled /\ PollEnds /\ SelectEnds
  BY <1>5 DEF Noticed, Scheduled, ArmedFor, FiresFor, PollEnds, SelectEnds
<1> QED
  BY <1>5, <1>6, <1>7, <1>8, <1>9 DEF Inv

\* Every step keeps the invariant.
LEMMA NextLemma ==
  ASSUME Inv, [Next]_vars
  PROVE  Inv'
<1>1. CASE OnReadDispatch
  BY <1>1, DispatchLemma DEF OnReadDispatch, In
<1>2. CASE OnWriteDispatch
  BY <1>2, DispatchLemma DEF OnWriteDispatch, In
<1>3. CASE PollReturns \/ PollTraffic
  BY <1>3, WokenLemma DEF PollReturns, PollTraffic
<1>4. CASE UNCHANGED vars
  <2>1. UNCHANGED <<env, now, uv, aio, cb>>
    BY <1>4 DEF vars
  <2>2. TypeOK' /\ Nested' /\ Finite(aio)' /\ Clocked'
    BY <2>1 DEF Inv, TypeOK, Nested, Finite, Clocked, Readable
  <2>3. Noticed' /\ Scheduled' /\ PollEnds' /\ SelectEnds'
    BY <2>1 DEF Inv, Noticed, Scheduled, ArmedFor, FiresFor, PollEnds, SelectEnds,
                Expired, Readable
  <2> QED BY <2>2, <2>3 DEF Inv
<1> QED
  BY <1>1, <1>2, <1>3, <1>4, CheckLemma, TimerLemma, PollLemma, SelectLemma, RunHandleLemma,
     TurnEndsLemma, PollBeginsLemma, EventsEndLemma, TimersEndLemma, IoLemma, ThreadLemma,
     TickLemma DEF Next

\* While libuv sleeps, what is ready was put there by another thread or left
\* behind a stuck response.
LEMMA SleepsIdle == Inv => SleepsOnlyIfIdle
<1> SUFFICES ASSUME Inv, Asleep, aio.ready # <<>>
             PROVE  aio.pipe \/ uv.stuck
  BY DEF SleepsOnlyIfIdle
<1>1. uv.phase = "poll" /\ ~Expired(uv.wake)
  BY DEF Asleep
<1>2. cb.who = Nobody
  BY <1>1 DEF Inv, TypeOK, Callback, Nested
<1> QED
  BY <1>1, <1>2 DEF Inv, Noticed, PollEnds

\* While libuv sleeps, its timer is set for asyncio's earliest deadline.
LEMMA SleepsArmed == Inv /\ aio.bound => ArmedForEarliest
<1> SUFFICES ASSUME Inv, aio.bound, Asleep, aio.scheduled # {}
             PROVE  uv.timer /\ TPM * uv.due <= Earliest(aio.scheduled) + TPM
  BY DEF ArmedForEarliest
<1>1. uv.phase = "poll" /\ ~Expired(uv.wake)
  BY DEF Asleep
<1>2. cb.who = Nobody
  BY <1>1 DEF Inv, TypeOK, Callback, Nested
<1> QED
  BY <1>1, <1>2 DEF Inv, Scheduled, ArmedFor, PollEnds

\* A select that blocks is the timer callback's.
LEMMA BlocksInTimer == Inv /\ aio.bound => BlocksForCause
<1> SUFFICES ASSUME Inv, aio.bound, Blocked
             PROVE  cb.who = "timer"
                    /\ (cb.cut \/ (cb.until # Never /\ cb.until - now < uv.lag))
  BY DEF BlocksForCause
<1>1. cb.stage = "select" /\ ~Expired(cb.until) /\ ~Readable
  BY DEF Blocked
<1>2. cb.who \in {"check", "timer", "poll"}
  BY <1>1, Inside
<1> QED
  BY <1>1, <1>2 DEF Inv, SelectEnds

\* With no more timers than asyncio keeps without a clean-up, it never replaces
\* its list.
LEMMA NeverRebound ==
  ASSUME MaxTimers <= MinScheduled, Inv, aio.bound, [Next]_vars
  PROVE  aio'.bound
<1>1. now \in Nat /\ aio \in Asyncio /\ Finite(aio)
  BY DEF Inv, TypeOK
<1>2. ASSUME NEW who \in {"check", "timer", "poll"}, asgi_run_once(who)
      PROVE  aio'.bound
  BY <1>1, <1>2, RunOnceLemma
<1>3. "check" \in {"check", "timer", "poll"} /\ "timer" \in {"check", "timer", "poll"}
      /\ "poll" \in {"check", "timer", "poll"}
  OBVIOUS
<1>4. CASE asgi_check_cb
  <2>1. aio' = aio \/ asgi_run_once("check")
    BY <1>4 DEF asgi_check_cb, asgi_drain_ready
  <2> QED BY <1>2, <1>3, <2>1
<1>5. CASE asgi_timer_cb \/ asgi_poll_cb
  BY <1>2, <1>3, <1>5 DEF asgi_timer_cb, asgi_poll_cb
<1>6. CASE OnReadDispatch \/ OnWriteDispatch
  <2>1. PICK t \in Task : asgi_dispatch(t, uv)
    BY <1>6 DEF OnReadDispatch, OnWriteDispatch
  <2>2. aio' \in Continued(t) \/ aio' \in Ended(aio, t)
    BY <2>1 DEF asgi_dispatch
  <2> QED BY <1>1, <2>2, ContinuedLemma, EndedLemma
<1>7. CASE Select
  <2>1. PICK q : aio' = [aio EXCEPT !.ready = q,
                            !.scheduled = @ \ {s \in aio.scheduled : s.when <= now},
                            !.io = @ \ aio.avail, !.avail = {}, !.pipe = FALSE]
    BY <1>7, Zenon DEF Select
  <2> QED BY <1>1, <2>1 DEF Asyncio
<1>8. CASE RunHandle
  <2> DEFINE popped == [aio EXCEPT !.ready = Tail(@)]
             t      == Head(aio.ready).task
             fresh  == Resume(popped, t)
  <2>1. cb.stage = "run" /\ cb.n > 0
    BY <1>8 DEF RunHandle
  <2>2. aio.ready \in Seq(Handle) /\ cb.n <= Len(aio.ready) /\ cb.n \in Nat
        /\ Len(aio.ready) \in Nat
    BY <2>1, Inside
  <2>3. t \in Task /\ Tail(aio.ready) \in Seq(Handle)
    <3>1. Head(aio.ready) \in Handle /\ Tail(aio.ready) \in Seq(Handle)
      BY <2>1, <2>2
    <3> QED BY <3>1 DEF Handle
  <2>4. popped \in Asyncio /\ popped.bound = aio.bound /\ Finite(popped)
    <3>1. PICK p : p = popped
      OBVIOUS
    <3>2. p \in Asyncio
      BY <1>1, <2>3, <3>1 DEF Asyncio
    <3>3. /\ p.bound = aio.bound /\ p.scheduled = aio.scheduled /\ p.io = aio.io
          /\ p.avail = aio.avail
      BY <1>1, <3>1 DEF Asyncio
    <3>4. Finite(p)
      BY <1>1, <3>3 DEF Finite
    <3> QED BY <3>1, <3>2, <3>3, <3>4
  <2>5. \/ aio' = popped
        \/ aio' \in Waits(fresh, t)
        \/ aio' = Yields(fresh, t)
        \/ aio' \in Ended(fresh, t)
        \/ aio' = fresh
    BY <1>8, Zenon DEF RunHandle
  <2> HIDE DEF popped, t
  <2>6. fresh \in Asyncio /\ Finite(fresh) /\ fresh.bound = aio.bound
    BY <2>4, ResumeLemma
  <2> HIDE DEF fresh
  <2>7. aio' = Yields(fresh, t) => aio'.bound = fresh.bound
    BY <2>6 DEF Yields, Asyncio
  <2>8. aio' \in Waits(fresh, t) => aio'.bound = fresh.bound
    BY <1>1, <2>3, <2>6, WaitsLemma DEF SameButWaits
  <2>9. aio' \in Ended(fresh, t) => aio'.bound = fresh.bound
    BY <2>6, EndedLemma
  <2> QED BY <2>4, <2>5, <2>6, <2>7, <2>8, <2>9
<1>9. CASE IoCompletes \/ ThreadCalls
  <2>1. \/ \E t : aio' = [aio EXCEPT !.avail = @ \cup {t}]
        \/ \E t : aio' = [aio EXCEPT !.exec = @ \ {t}, !.ready = Append(@, Call(t)),
                                     !.pipe = TRUE]
    BY <1>9, Zenon DEF IoCompletes, ThreadCalls
  <2> QED BY <1>1, <2>1 DEF Asyncio
<1>10. CASE \/ TurnEnds \/ PollBegins \/ PollReturns \/ PollTraffic \/ EventsEnd
            \/ TimersEnd \/ Tick \/ UNCHANGED vars
  BY <1>10 DEF TurnEnds, PollBegins, PollReturns, PollTraffic, EventsEnd, TimersEnd, Tick, vars
<1> QED
  BY <1>4, <1>5, <1>6, <1>7, <1>8, <1>9, <1>10 DEF Next

(***************************************************************************)
(* libuv never sleeps over a callback that asgi.c put on _ready or that a  *)
(* turn left there: asgi_arm_wakeups at the end of every turn and of every *)
(* suspended dispatch is enough, in every environment.                     *)
(***************************************************************************)
THEOREM NeverSleepsOverReady == Spec => [](TypeOK /\ SleepsOnlyIfIdle)
<1>1. Inv => TypeOK /\ SleepsOnlyIfIdle
  BY SleepsIdle DEF Inv
<1> QED
  BY <1>1, InitLemma, NextLemma, PTL DEF Spec

(***************************************************************************)
(* As long as _scheduled is the list that asgi_server_init found, libuv    *)
(* sleeps until asyncio's earliest deadline, a millisecond late at most,   *)
(* and asyncio's select blocks only for a cancelled timer or for less than *)
(* libuv's clock lagged.                                                   *)
(***************************************************************************)
THEOREM SoundWhileBound == Spec => [](aio.bound => SleepsSoundly /\ BlocksForCause)
<1>1. Inv => (aio.bound => SleepsSoundly /\ BlocksForCause)
  BY SleepsIdle, SleepsArmed, BlocksInTimer DEF Inv, SleepsSoundly
<1> QED
  BY <1>1, InitLemma, NextLemma, PTL DEF Spec

\* When there are never more timers than asyncio keeps in one list, libuv
\* sleeps only while asyncio has nothing to run, and no longer.
THEOREM LoopSleepsSoundly ==
  ASSUME MaxTimers <= MinScheduled
  PROVE  Spec => []SleepsSoundly
<1>1. Inv /\ aio.bound => SleepsSoundly
  BY SleepsIdle, SleepsArmed DEF Inv, SleepsSoundly
<1>2. Init => Inv /\ aio.bound
  BY InitLemma
<1>3. Inv /\ aio.bound /\ [Next]_vars => (Inv /\ aio.bound)'
  BY NextLemma, NeverRebound
<1> QED
  BY <1>1, <1>2, <1>3, PTL DEF Spec

\* Under the same condition the thread blocks in asyncio's select only in
\* asgi_timer_cb, for a cancelled timer or for less than the clocks differed.
THEOREM SelectBlocksForCause ==
  ASSUME MaxTimers <= MinScheduled
  PROVE  Spec => []BlocksForCause
<1>1. Inv /\ aio.bound => BlocksForCause
  BY BlocksInTimer
<1>2. Init => Inv /\ aio.bound
  BY InitLemma
<1>3. Inv /\ aio.bound /\ [Next]_vars => (Inv /\ aio.bound)'
  BY NextLemma, NeverRebound
<1> QED
  BY <1>1, <1>2, <1>3, PTL DEF Spec

=============================================================================
