----------------------------- MODULE TicketRing -----------------------------
(***************************************************************************)
(* The session-ticket key ring that the workers of one server share: a     *)
(* page of memory written by one process (tls_ticket_ring_publish) and     *)
(* read by the others (tls_ticket_ring_read, tls_ticket_ring_is_stale)     *)
(* under a sequence lock, with no other synchronisation between them.      *)
(*                                                                         *)
(* Every store to the page and every load from it is a step.  Between two  *)
(* fences the stores and the loads happen in any order, which is what the  *)
(* compiler, memcpy and the processor are free to do.                      *)
(***************************************************************************)
EXTENDS Integers, FiniteSets

CONSTANTS
  Workers,                 \* the processes that map the page read-only
  TLS_TICKET_RING,         \* slots
  TLS_TICKET_SEQ_RETRIES,  \* attempts a reader makes
  MaxKeys                  \* bound: keys minted in all

ASSUME RingAssumption ==
  /\ TLS_TICKET_RING \in Nat \ {0}
  /\ TLS_TICKET_SEQ_RETRIES \in Nat \ {0}
  /\ MaxKeys \in Nat \ {0}

(***************************************************************************)
(* The words under the lock.  A key is numbered as it is minted, and its   *)
(* number stands in its name and in its secret (aes, hmac and live); due   *)
(* grows with every publication, so the number stands for it too.  0 is    *)
(* zeroed memory.                                                          *)
(***************************************************************************)
Slots == 0..(TLS_TICKET_RING - 1)
KeyWords(i) == {<<i, "name">>, <<i, "secret">>}
Cur == <<0, "cur">>
Due == <<0, "due">>
Words == (Slots \X {"name", "secret"}) \cup {Cur, Due}

Zero == [w \in Words |-> 0]

\* What tls_ticket_ring_read and tls_ticket_ring_is_stale copy out.
Scopes == {Words \ {Due}, {Due}}

\* The page after key n was published into slot i.
WithKey(old, i, n) ==
  [w \in Words |-> IF w = Cur THEN i
                   ELSE IF w \in KeyWords(i) \cup {Due} THEN n
                   ELSE old[w]]

VARIABLES
  seq,     \* the sequence number; odd while the owner publishes
  page,    \* the words under it
  owner,   \* "idle", "publishing", "wiping", and at the end "wiped", "killed"
  target,  \* what the publication under way will leave
  left,    \* the words it, or the wipe, has still to store
  minted,  \* keys minted so far
  rd       \* one read per worker

vars == <<seq, page, owner, target, left, minted, rd>>

Reader ==
  [pc    : {"idle", "load", "copy", "done", "declined"},
   tries : 0..TLS_TICKET_SEQ_RETRIES,
   s1    : Nat,
   scope : Scopes \cup {{}},
   snap  : [Words -> Nat],
   todo  : SUBSET Words]

Idle == [pc |-> "idle", tries |-> 0, s1 |-> 0, scope |-> {}, snap |-> Zero,
         todo |-> {}]

TypeOK ==
  /\ seq \in Nat
  /\ page \in [Words -> Nat] /\ target \in [Words -> Nat]
  /\ owner \in {"idle", "publishing", "wiping", "wiped", "killed"}
  /\ left \in SUBSET (Words \cup {<<0, "seq">>})
  /\ minted \in 0..MaxKeys
  /\ rd \in [Workers -> Reader]

-----------------------------------------------------------------------------
(* The owner *)

\* tls_ticket_ring_create has published the first key before any worker runs.
Init ==
  /\ seq = 2
  /\ page = WithKey(Zero, 0, 1) /\ target = page
  /\ owner = "idle" /\ left = {} /\ minted = 1
  /\ rd = [r \in Workers |-> Idle]

\* Mutant: the slots are not walked in a circle.
NextSlot_NoWrap == page[Cur] + 1

NextSlot == (page[Cur] + 1) % TLS_TICKET_RING

\* Mutant: the window opens with an even number.
BeginPublish_Even ==
  /\ owner = "idle" /\ minted < MaxKeys
  /\ owner' = "publishing" /\ seq' = seq + 2
  /\ target' = WithKey(page, NextSlot, minted + 1)
  /\ left' = KeyWords(NextSlot) \cup {Cur, Due}
  /\ minted' = minted + 1
  /\ UNCHANGED <<page, rd>>

\* tls_ticket_ring_rotate_owned mints, and publish makes seq odd.
BeginPublish ==
  /\ owner = "idle" /\ minted < MaxKeys
  /\ owner' = "publishing" /\ seq' = seq + 1
  /\ target' = WithKey(page, NextSlot, minted + 1)
  /\ left' = KeyWords(NextSlot) \cup {Cur, Due}
  /\ minted' = minted + 1
  /\ UNCHANGED <<page, rd>>

\* ptls_clear_memory of the slot, one word at a time.
ClearWord ==
  /\ owner = "publishing"
  /\ \E w \in left \ {Cur, Due} : page' = [page EXCEPT ![w] = 0]
  /\ UNCHANGED <<seq, owner, target, left, minted, rd>>

\* The memcpy of the key, and the stores to cur and rotate_due_ms.
StoreWord ==
  /\ owner = "publishing"
  /\ \E w \in left : /\ page' = [page EXCEPT ![w] = target[w]]
                     /\ left' = left \ {w}
  /\ UNCHANGED <<seq, owner, target, minted, rd>>

EndPublish ==
  /\ owner = "publishing" /\ left = {}
  /\ owner' = "idle" /\ seq' = seq + 1
  /\ UNCHANGED <<page, target, left, minted, rd>>

\* tls_ticket_ring_destroy, outside the lock: workers may still be reading,
\* when Process.start() or join() raised.
BeginWipe ==
  /\ owner = "idle"
  /\ owner' = "wiping" /\ left' = Words \cup {<<0, "seq">>}
  /\ UNCHANGED <<seq, page, target, minted, rd>>

WipeWord ==
  /\ owner = "wiping"
  /\ \E w \in left :
       /\ left' = left \ {w}
       /\ IF w = <<0, "seq">> THEN seq' = 0 /\ page' = page
                              ELSE seq' = seq /\ page' = [page EXCEPT ![w] = 0]
  /\ owner' = IF left' = {} THEN "wiped" ELSE "wiping"
  /\ UNCHANGED <<target, minted, rd>>

\* SIGKILL: whatever was stored stays.
OwnerKilled ==
  /\ owner \in {"idle", "publishing", "wiping"}
  /\ owner' = IF owner = "wiping" THEN "wiped" ELSE "killed"
  /\ UNCHANGED <<seq, page, target, left, minted, rd>>

-----------------------------------------------------------------------------
(* A worker *)

BeginRead(r) ==
  /\ rd[r].pc = "idle"
  /\ \E s \in Scopes : rd' = [rd EXCEPT ![r] = [Idle EXCEPT !.pc = "load", !.scope = s]]
  /\ UNCHANGED <<seq, page, owner, target, left, minted>>

\* Mutant: a reader that finds the lock held spins until it is free.
Retry_Spins(k) == [k EXCEPT !.pc = "load", !.snap = Zero, !.todo = {}]

\* Mutant: the scratch copy outlives the attempt.
Retry_KeepsCopy(k) ==
  [k EXCEPT !.tries = @ + 1, !.todo = {},
            !.pc = IF k.tries + 1 < TLS_TICKET_SEQ_RETRIES THEN "load" ELSE "declined"]

\* One attempt failed: clear what was copied, and try again within budget.
Retry(k) ==
  [k EXCEPT !.tries = @ + 1, !.snap = Zero, !.todo = {},
            !.pc = IF k.tries + 1 < TLS_TICKET_SEQ_RETRIES THEN "load" ELSE "declined"]

\* s1, refused when 0 (never published, or wiped) or odd.
LoadSeq(r) ==
  /\ rd[r].pc = "load"
  /\ rd' = [rd EXCEPT ![r] =
       IF seq = 0 \/ seq % 2 = 1
         THEN Retry(rd[r])
         ELSE [rd[r] EXCEPT !.pc = "copy", !.s1 = seq, !.todo = rd[r].scope]]
  /\ UNCHANGED <<seq, page, owner, target, left, minted>>

CopyWord(r) ==
  /\ rd[r].pc = "copy"
  /\ \E w \in rd[r].todo :
       rd' = [rd EXCEPT ![r].snap[w] = page[w], ![r].todo = @ \ {w}]
  /\ UNCHANGED <<seq, page, owner, target, left, minted>>

\* Mutant: the copy is trusted whatever happened meanwhile.
CheckSeq_Trusts(r) ==
  /\ rd[r].pc = "copy" /\ rd[r].todo = {}
  /\ rd' = [rd EXCEPT ![r].pc = "done"]
  /\ UNCHANGED <<seq, page, owner, target, left, minted>>

CheckSeq(r) ==
  /\ rd[r].pc = "copy" /\ rd[r].todo = {}
  /\ rd' = [rd EXCEPT ![r] = IF seq = rd[r].s1 THEN [rd[r] EXCEPT !.pc = "done"]
                                               ELSE Retry(rd[r])]
  /\ UNCHANGED <<seq, page, owner, target, left, minted>>

\* The caller has used the copy, and zeroizes it.
EndRead(r) ==
  /\ rd[r].pc \in {"done", "declined"}
  /\ rd' = [rd EXCEPT ![r] = Idle]
  /\ UNCHANGED <<seq, page, owner, target, left, minted>>

ReadStep(r) == BeginRead(r) \/ LoadSeq(r) \/ CopyWord(r) \/ CheckSeq(r) \/ EndRead(r)

Next ==
  \/ BeginPublish \/ ClearWord \/ StoreWord \/ EndPublish
  \/ BeginWipe \/ WipeWord \/ OwnerKilled
  \/ \E r \in Workers : ReadStep(r)

Spec == Init /\ [][Next]_vars

\* A worker inside a read runs on; nobody else owes it anything.
FairSpec ==
  /\ Spec
  /\ \A r \in Workers : WF_vars(LoadSeq(r) \/ CopyWord(r) \/ CheckSeq(r))

-----------------------------------------------------------------------------
(* Properties *)

(***************************************************************************)
(* server.h: "a worker can never read a slot mid-write and pair one key's  *)
(* name with another key's bytes".  Blanks left by a wipe are no key's.    *)
(***************************************************************************)
NeverMixed ==
  \A r \in Workers : rd[r].pc = "done" /\ rd[r].scope # {Due} =>
    \A i \in Slots : \/ rd[r].snap[<<i, "name">>] = rd[r].snap[<<i, "secret">>]
                     \/ rd[r].snap[<<i, "name">>] = 0
                     \/ rd[r].snap[<<i, "secret">>] = 0

(***************************************************************************)
(* A key pushed out of the ring is destroyed: once a rotation is complete  *)
(* only the youngest TLS_TICKET_RING keys are left on the page, and a      *)
(* worker that is not in the middle of a read holds none at all.           *)
(***************************************************************************)
RetiredKeysErased ==
  /\ owner = "idle" =>
       \A i \in Slots : \/ page[<<i, "secret">>] = 0
                        \/ page[<<i, "secret">>] > minted - TLS_TICKET_RING
  /\ \A r \in Workers :
       rd[r].pc \in {"idle", "load", "declined"} => rd[r].snap = Zero

\* A read ends, in an answer or a refusal, even when the owner died inside
\* its window: TLS_TICKET_SEQ_RETRIES bounds the loop.
ReadsEnd == \A r \in Workers : rd[r].pc = "load" ~> rd[r].pc \in {"done", "declined"}

\* What each worker's finished read answered.
Answers ==
  [r \in Workers |->
    CASE rd[r].pc = "done" -> [state |-> "done", scope |-> rd[r].scope, read |-> rd[r].snap]
      [] rd[r].pc = "declined" -> [state |-> "declined", scope |-> {}, read |-> Zero]
      [] OTHER -> [state |-> "none", scope |-> {}, read |-> Zero]]

Atomic == INSTANCE AtomicRing
            WITH table <- target, wiped <- owner \in {"wiping", "wiped"}, got <- Answers

(***************************************************************************)
(* The page and its sequence lock implement AtomicRing: a read returns the *)
(* keys of one instant, that of its last look at seq, or declines.         *)
(***************************************************************************)
ImplementsAtomicRing == Atomic!Spec
=============================================================================
