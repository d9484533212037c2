----------------------------- MODULE TicketKeys -----------------------------
(***************************************************************************)
(* The life of the session-ticket keys that the workers of one server      *)
(* share: the owner's rotation thread (_TicketKeyRotator), the deadline it *)
(* publishes with every key, the workers that seal and unseal with what    *)
(* they find in the ring, drop it when the owner stops rotating, and ask   *)
(* for an early rotation with SIGUSR1.                                     *)
(*                                                                         *)
(* The ring is read and written as a whole here, which TicketRing shows    *)
(* its sequence lock to justify; what is left of the lock is that seq is   *)
(* odd while a publication is under way, and that nothing can be read then *)
(***************************************************************************)
EXTENDS Integers, FiniteSets

CONSTANTS
  Workers,
  TLS_TICKET_RING,            \* slots
  TLS_TICKET_ROTATE,          \* period of rotation
  TLS_TICKET_STALE_GRACE,     \* how late the owner may be
  TLS_TICKET_LIFETIME,        \* how long a client may offer a ticket
  Late,      \* how late the rotation thread wakes while its process runs
  Dawdle,    \* how long a client takes from connecting to its ClientHello
  MaxTime,   \* bound: the clock
  MaxKicks   \* bound: rotations asked for

\* The two static asserts of server.h, and a scheduler better than the grace.
ASSUME KeysAssumption ==
  /\ TLS_TICKET_RING \in Nat \ {0} /\ TLS_TICKET_ROTATE \in Nat \ {0}
  /\ TLS_TICKET_LIFETIME \in Nat
  /\ TLS_TICKET_LIFETIME <= (TLS_TICKET_RING - 1) * TLS_TICKET_ROTATE
  /\ TLS_TICKET_STALE_GRACE \in 0..TLS_TICKET_ROTATE
  /\ Late \in 0..TLS_TICKET_STALE_GRACE
  /\ Dawdle \in Nat /\ MaxTime \in Nat /\ MaxKicks \in Nat

Slots == 0..(TLS_TICKET_RING - 1)

\* A key and when it was minted; NoKey is a zeroed slot, or a one-shot key
\* that is in no ring.
Key == [id : Nat, born : Nat]
NoKey == [id |-> 0, born |-> 0]

NoTicket == [key |-> 0, at |-> 0, early |-> 0]

VARIABLES
  now,      \* the monotonic clock
  ring,     \* the shared page: seq, cur, due and the keys
  owner,    \* "up", "killed", or "done" (the ring was destroyed)
  rot,      \* the rotation thread
  wake,     \* its Event
  kicks,    \* rotations asked for so far
  early,    \* rotations made before they were due
  shared,   \* the workers that still use the ring
  conn,     \* per worker, when its pending connection was accepted, or -1
  hook,     \* per worker, seq when its rotation hook was called, or -1
  asked,    \* the workers whose hook has sent its SIGUSR1
  ticket    \* a ticket some client holds

vars == <<now, ring, owner, rot, wake, kicks, early, shared, conn, hook, asked, ticket>>

TypeOK ==
  /\ now \in 0..MaxTime
  /\ ring \in [seq : Nat, cur : Slots, due : Nat, keys : [Slots -> Key]]
  /\ owner \in {"up", "killed", "done"}
  /\ rot \in {"waiting", "returned", "awake", "publishing", "ended"}
  /\ wake \in BOOLEAN
  /\ kicks \in 0..MaxKicks /\ early \in Nat
  /\ shared \in SUBSET Workers
  /\ conn \in [Workers -> Nat \cup {-1}]
  /\ hook \in [Workers -> Nat \cup {-1}] /\ asked \subseteq Workers
  /\ ticket \in [key : Nat, at : Nat, early : Nat]

\* tls_ticket_ring_create, and the workers started on the result.
Init ==
  /\ now = 0
  /\ ring = [seq |-> 2, cur |-> 0, due |-> TLS_TICKET_ROTATE,
             keys |-> [i \in Slots |-> IF i = 0 THEN [id |-> 1, born |-> 0] ELSE NoKey]]
  /\ owner = "up" /\ rot = "waiting" /\ wake = FALSE
  /\ kicks = 0 /\ early = 0
  /\ shared = Workers
  /\ conn = [w \in Workers |-> -1] /\ hook = [w \in Workers |-> -1]
  /\ asked = {} /\ ticket = NoTicket

(***************************************************************************)
(* Time passes while nobody is due to act: a running owner rotates within  *)
(* Late of its deadline, a client sends its ClientHello within Dawdle, and *)
(* the hook's five seconds are less than a tick.                           *)
(***************************************************************************)
Tick ==
  /\ now < MaxTime
  /\ owner = "up" => now < ring.due + Late
  /\ \A w \in Workers : conn[w] >= 0 => now < conn[w] + Dawdle
  /\ \A w \in Workers : hook[w] = -1
  /\ now' = now + 1
  /\ UNCHANGED <<ring, owner, rot, wake, kicks, early, shared, conn, hook, asked, ticket>>

-----------------------------------------------------------------------------
(* The rotation thread: wait, clear, rotate *)

WaitReturns ==
  /\ rot = "waiting" /\ (wake \/ now >= ring.due)
  /\ rot' = "returned"
  /\ UNCHANGED <<now, ring, owner, wake, kicks, early, shared, conn, hook, asked, ticket>>

\* _wake.clear(), and the return of a thread that was stopped; after the
\* ring's destruction _ticket_ring_rotate would raise, to the same end.
ClearWake ==
  /\ rot = "returned"
  /\ wake' = FALSE
  /\ rot' = IF owner = "up" THEN "awake" ELSE "ended"
  /\ UNCHANGED <<now, ring, owner, kicks, early, shared, conn, hook, asked, ticket>>

BeginPublish ==
  /\ rot = "awake"
  /\ IF owner = "up" THEN rot' = "publishing" /\ ring' = [ring EXCEPT !.seq = @ + 1]
                     ELSE rot' = "ended" /\ ring' = ring
  /\ UNCHANGED <<now, owner, wake, kicks, early, shared, conn, hook, asked, ticket>>

\* Mutant: the newest key is overwritten instead of the oldest.
NextSlot_Same == ring.cur

NextSlot == (ring.cur + 1) % TLS_TICKET_RING

\* Keys are numbered by the publication that brought them.
RotatedRing ==
  [seq  |-> ring.seq + 1, cur |-> NextSlot, due |-> now + TLS_TICKET_ROTATE,
   keys |-> [ring.keys EXCEPT ![NextSlot] = [id |-> ring.seq \div 2 + 1, born |-> now]]]

\* Mutant: the Event is cleared after the rotation, not before it.
EndPublish_ClearsWake ==
  /\ rot = "publishing" /\ owner = "up"
  /\ ring' = RotatedRing
  /\ rot' = "waiting" /\ wake' = FALSE
  /\ early' = IF now < ring.due THEN early + 1 ELSE early
  /\ UNCHANGED <<now, owner, kicks, shared, conn, hook, asked, ticket>>

EndPublish ==
  /\ rot = "publishing" /\ owner = "up"
  /\ ring' = RotatedRing
  /\ rot' = "waiting"
  /\ early' = IF now < ring.due THEN early + 1 ELSE early
  /\ UNCHANGED <<now, owner, wake, kicks, shared, conn, hook, asked, ticket>>

\* rotator.kick: SIGUSR1 from an operator.  Event.set() is one step: no second
\* SIGUSR1 is handled inside it.
Kick ==
  /\ owner = "up" /\ kicks < MaxKicks
  /\ kicks' = kicks + 1 /\ wake' = TRUE
  /\ UNCHANGED <<now, ring, owner, rot, early, shared, conn, hook, asked, ticket>>

\* The finally of _run_workers, with workers that may still run: stop() and
\* the wipe.  Both it and a rotation hold the GIL from start to end.
Destroy ==
  /\ owner = "up" /\ rot # "publishing"
  /\ owner' = "done" /\ wake' = TRUE
  /\ ring' = [seq |-> 0, cur |-> 0, due |-> 0, keys |-> [i \in Slots |-> NoKey]]
  /\ UNCHANGED <<now, rot, kicks, early, shared, conn, hook, asked, ticket>>

\* SIGKILL, at any point of the thread.
OwnerKilled ==
  /\ owner = "up"
  /\ owner' = "killed" /\ rot' = "ended"
  /\ UNCHANGED <<now, ring, wake, kicks, early, shared, conn, hook, asked, ticket>>

-----------------------------------------------------------------------------
(* The workers *)

Readable == ring.seq # 0 /\ ring.seq % 2 = 0

\* Mutant: no grace.
is_stale_NoGrace == Readable /\ now > ring.due

\* tls_ticket_ring_is_stale: a lost race counts as "not stale".
is_stale == Readable /\ now > ring.due + TLS_TICKET_STALE_GRACE

\* tls_ticket_ring_disable: the worker unmaps the ring and turns tickets off,
\* which nothing turns on again.
ring_disable(w) == shared \ {w}

\* tls_conn_init: the one place where a worker looks at the deadline.
ConnInit(w) ==
  /\ conn[w] = -1
  /\ conn' = [conn EXCEPT ![w] = now]
  /\ shared' = IF w \in shared /\ is_stale THEN ring_disable(w) ELSE shared
  /\ UNCHANGED <<now, ring, owner, rot, wake, kicks, early, hook, asked, ticket>>

\* The connection goes before its ClientHello arrives.
ConnLost(w) ==
  /\ conn[w] >= 0
  /\ conn' = [conn EXCEPT ![w] = -1]
  /\ UNCHANGED <<now, ring, owner, rot, wake, kicks, early, shared, hook, asked, ticket>>

\* tls_ticket_key_pick_shared, unsealing: the key of that name, or none.
Unsealer(t) == {k \in {ring.keys[i] : i \in Slots} : Readable /\ k.id = t.key /\ k.id # 0}

\* Sealing: the newest key, or a one-shot one when the ring cannot be read.
Sealer == IF Readable THEN ring.keys[ring.cur] ELSE NoKey

\* The client may keep the new ticket sealed for it.
Seals(w) ==
  ticket' \in {ticket} \cup {[key |-> Sealer.id, at |-> now, early |-> early] : x \in {w} \cap shared}

(***************************************************************************)
(* The ptls_handshake() call that asks tls_ticket_key_cb for keys: it      *)
(* opens the ticket the client offers, if any, and seals a new one, unless *)
(* the worker has given up the ring.  Picotls refuses a ticket past its    *)
(* lifetime, and goes on to a full handshake with no harm done.            *)
(***************************************************************************)
Handshake(w) ==
  /\ conn[w] >= 0
  /\ conn' = [conn EXCEPT ![w] = -1]
  /\ Seals(w)
  /\ UNCHANGED <<now, ring, owner, rot, wake, kicks, early, shared, hook, asked>>

Resumed(w) ==
  /\ w \in shared /\ ticket # NoTicket
  /\ Unsealer(ticket) # {} /\ now - ticket.at <= TLS_TICKET_LIFETIME
  /\ Handshake(w)

Refused(w) ==
  /\ w \in shared /\ ticket # NoTicket
  /\ Unsealer(ticket) = {} \/ now - ticket.at > TLS_TICKET_LIFETIME
  /\ Handshake(w)

\* tls_ticket_rotate_hook in a worker: read seq ...
HookCalled(w) ==
  /\ hook[w] = -1 /\ w \in shared /\ kicks < MaxKicks
  /\ hook' = [hook EXCEPT ![w] = ring.seq]
  /\ kicks' = kicks + 1
  /\ UNCHANGED <<now, ring, owner, rot, wake, early, shared, conn, asked, ticket>>

\* ... then kill(owner, SIGUSR1), which fails when the owner is gone.  A hook
\* that finds the page wiped reads 0 for the owner and signals its own process
\* group, whose workers end by it; here it fails, and they may go on.
HookAsks(w) ==
  /\ hook[w] >= 0 /\ w \notin asked
  /\ IF owner = "up" THEN wake' = TRUE /\ asked' = asked \cup {w} /\ hook' = hook
                     ELSE hook' = [hook EXCEPT ![w] = -1] /\ UNCHANGED <<wake, asked>>
  /\ UNCHANGED <<now, ring, owner, rot, kicks, early, shared, conn, ticket>>

HookSees(before) == ring.seq >= before + 2 /\ ring.seq % 2 = 0

HookReturns(w) ==
  /\ w \in asked /\ HookSees(hook[w])
  /\ hook' = [hook EXCEPT ![w] = -1] /\ asked' = asked \ {w}
  /\ UNCHANGED <<now, ring, owner, rot, wake, kicks, early, shared, conn, ticket>>

\* Five seconds are enough for a running owner.
HookTimesOut(w) ==
  /\ w \in asked /\ owner # "up"
  /\ hook' = [hook EXCEPT ![w] = -1] /\ asked' = asked \ {w}
  /\ UNCHANGED <<now, ring, owner, rot, wake, kicks, early, shared, conn, ticket>>

-----------------------------------------------------------------------------

Rotator == WaitReturns \/ ClearWake \/ BeginPublish \/ EndPublish

Next ==
  \/ Tick \/ Rotator \/ Kick \/ Destroy \/ OwnerKilled
  \/ \E w \in Workers :
       \/ ConnInit(w) \/ ConnLost(w)
       \/ Handshake(w) \/ Resumed(w) \/ Refused(w)
       \/ HookCalled(w) \/ HookAsks(w) \/ HookReturns(w) \/ HookTimesOut(w)

Spec == Init /\ [][Next]_vars

\* The thread runs while its process does; connections keep arriving at
\* every worker and end one way or the other; a hook polls until it returns.
FairSpec ==
  /\ Spec
  /\ WF_vars(Rotator)
  /\ \A w \in Workers :
       /\ WF_vars(ConnInit(w)) /\ WF_vars(ConnLost(w) \/ Handshake(w))
       /\ WF_vars(HookReturns(w) \/ HookTimesOut(w))

-----------------------------------------------------------------------------
(* Properties *)

(***************************************************************************)
(* The first static assert of server.h, as behaviour: a ticket offered     *)
(* within its lifetime, to any worker, is refused only because a rotation  *)
(* was asked for early, the ring could not be read, or it was sealed under *)
(* a one-shot key.                                                         *)
(***************************************************************************)
RefusedForCause ==
  [][\A w \in Workers : Refused(w) =>
       \/ now - ticket.at >= TLS_TICKET_LIFETIME
       \/ early > ticket.early
       \/ ~Readable \/ ticket.key = 0]_vars

(***************************************************************************)
(* The exposure bound of server.h: no worker seals or opens with a key     *)
(* older than RING*ROTATE + GRACE, give or take the lateness of each       *)
(* rotation and of the ClientHello.                                        *)
(***************************************************************************)
KeyAgeBounded ==
  \A w \in shared, i \in Slots :
    conn[w] >= 0 /\ Readable /\ ring.keys[i] # NoKey =>
      now - ring.keys[i].born <= TLS_TICKET_RING * TLS_TICKET_ROTATE + TLS_TICKET_STALE_GRACE
                                 + (TLS_TICKET_RING - 1) * Late + Dawdle

(***************************************************************************)
(* A worker gives up the ring, which it cannot take back, only when its    *)
(* owner is gone, not when it is a little late.                            *)
(***************************************************************************)
DropsOnlyAbandoned == shared # Workers => owner # "up"

\* What holds of every key in use, and of the ring it is in.
KeysInUse == TypeOK /\ KeyAgeBounded /\ DropsOnlyAbandoned

(***************************************************************************)
(* "One rotation step of the ring the next connection will be sealed       *)
(* under": when the hook returns, a key is in force whose publication was  *)
(* not complete when it was called.                                        *)
(***************************************************************************)
HookShowsNewKey ==
  [][\A w \in Workers : HookReturns(w) => Sealer.id > hook[w] \div 2]_vars

\* A refused ticket has its cause, and a hook that returns has its new key.
KeysAsAsked == RefusedForCause /\ HookShowsNewKey

\* A request for a rotation is never lost, whatever the thread was doing
\* when the signal arrived: the hook returns, or the owner has gone.
KickIsServed ==
  \A w \in Workers : (w \in asked) ~> (w \notin asked \/ owner # "up")

\* A ring whose owner stopped rotating it is dropped by every worker that
\* still gets connections, provided the owner died between publications.
StaleRingDropped ==
  \A w \in Workers :
    (w \in shared /\ Readable /\ now > ring.due + TLS_TICKET_STALE_GRACE) ~> w \notin shared

\* Rotations that were asked for happen, and rings that no longer rotate go.
RingKeepsMoving == KickIsServed /\ StaleRingDropped

\* The same wherever the owner died: tls.c says of a lost race that it
\* "means the owner was writing, which is the opposite of absent".
AbandonedRingDropped ==
  \A w \in Workers :
    (w \in shared /\ owner = "killed" /\ now > ring.due + TLS_TICKET_STALE_GRACE)
      ~> w \notin shared
=============================================================================
