-------------------------- MODULE TicketKeysProofs --------------------------
(***************************************************************************)
(* Proofs about TicketKeys, for any number of workers and slots, any       *)
(* periods that satisfy server.h's static asserts, and any lateness within *)
(* the grace: how old a key in use can be, who gives up the ring, why a    *)
(* ticket is refused, and what the rotation hook returns on.               *)
(***************************************************************************)
EXTENDS TicketKeys, TLAPS

\* Publications so far, and the key in force.
Count == ring.seq \div 2
Newest == ring.keys[ring.cur]

\* Publications since slot i was filled, when slot j was filled last.
Since(i, j) == IF i <= j THEN j - i ELSE j - i + TLS_TICKET_RING

\* The longest time from one key to the next while the owner runs.
Gap == TLS_TICKET_ROTATE + Late

\* The slots are filled in turn, no more than Gap apart.
InTurn(keys, cur, n) ==
  \A i \in Slots :
    IF n > Since(i, cur)
      THEN /\ keys[i].id = n - Since(i, cur)
           /\ keys[cur].born - keys[i].born <= Since(i, cur) * Gap
      ELSE keys[i] = NoKey

RingInv ==
  /\ owner = "up" => /\ ring.seq # 0 /\ now <= ring.due + Late
                     /\ (ring.seq % 2 = 1) <=> (rot = "publishing")
  /\ owner = "done" => ring.seq = 0
  /\ ring.seq # 0 => /\ ring.seq >= 2
                     /\ ring.due = Newest.born + TLS_TICKET_ROTATE /\ Newest.born <= now
                     /\ InTurn(ring.keys, ring.cur, Count)

\* A worker looked at the deadline when it accepted the connection.
ConnInv ==
  \A w \in Workers : conn[w] >= 0 =>
    /\ conn[w] <= now /\ now <= conn[w] + Dawdle
    /\ (w \in shared /\ Readable) => conn[w] <= ring.due + TLS_TICKET_STALE_GRACE

\* The ticket's key was the newest when it was sealed; each rotation since
\* then that was not early came a period after the one before it.
TicketInv ==
  /\ ticket.early <= early /\ ticket.at <= now
  /\ (ring.seq # 0 /\ ticket.key # 0) =>
       /\ ticket.key <= Count
       /\ (ticket.early = early /\ ticket.key < Count) =>
            Newest.born - ticket.at >= (Count - ticket.key - 1) * TLS_TICKET_ROTATE

HookInv == \A w \in asked : hook[w] >= 0

Inv == TypeOK /\ RingInv /\ ConnInv /\ TicketInv /\ HookInv /\ DropsOnlyAbandoned

-----------------------------------------------------------------------------
(* Arithmetic *)

\* Multiplication by a natural number is monotonic, and distributes.
LEMMA MulLemma ==
  ASSUME NEW m \in Int, NEW n \in Int, NEW z \in Nat, m <= n
  PROVE  m * z \in Int /\ n * z \in Int /\ m * z <= n * z /\ (m + 1) * z = m * z + z
<1>1. n * z = m * z + (n - m) * z /\ (m + 1) * z = m * z + z /\ m * z \in Int /\ n * z \in Int
  OBVIOUS
<1>2. n - m \in Nat
  OBVIOUS
<1>3. (n - m) * z >= 0
  BY <1>2
<1> QED
  BY <1>1, <1>3

\* Where the next key goes, every slot but that one is a publication older.
LEMMA SinceLemma ==
  ASSUME NEW j \in Slots
  PROVE  LET next == (j + 1) % TLS_TICKET_RING
         IN /\ next \in Slots /\ Since(next, next) = 0
            /\ \A i \in Slots : Since(i, j) \in 0..(TLS_TICKET_RING - 1)
            /\ \A i \in Slots \ {next} : Since(i, next) = Since(i, j) + 1
<1> DEFINE next == (j + 1) % TLS_TICKET_RING
<1>1. next = IF j + 1 = TLS_TICKET_RING THEN 0 ELSE j + 1
  BY KeysAssumption DEF Slots
<1> HIDE DEF next
<1>2. next \in Slots /\ Since(next, next) = 0
  BY <1>1, KeysAssumption DEF Slots, Since
<1>3. \A i \in Slots : Since(i, j) \in 0..(TLS_TICKET_RING - 1)
  BY KeysAssumption DEF Slots, Since
<1>4. \A i \in Slots \ {next} : Since(i, next) = Since(i, j) + 1
  BY <1>1, KeysAssumption DEF Slots, Since
<1> QED
  BY <1>2, <1>3, <1>4 DEF next

\* Each age below the number of slots is that of some slot.
LEMMA SlotOfAge ==
  ASSUME NEW j \in Slots, NEW d \in 0..(TLS_TICKET_RING - 1)
  PROVE  \E i \in Slots : Since(i, j) = d
<1>1. CASE d <= j
  <2>1. j - d \in Slots /\ Since(j - d, j) = d
    BY <1>1, KeysAssumption DEF Slots, Since
  <2> QED
    BY <2>1
<1>2. CASE d > j
  <2>1. j - d + TLS_TICKET_RING \in Slots /\ Since(j - d + TLS_TICKET_RING, j) = d
    BY <1>2, KeysAssumption DEF Slots, Since
  <2> QED
    BY <2>1
<1> QED
  BY <1>1, <1>2, KeysAssumption DEF Slots

-----------------------------------------------------------------------------
(* The steps *)

\* The ring as it is created.
LEMMA InitLemma == Init => Inv
<1> SUFFICES ASSUME Init PROVE Inv
  OBVIOUS
<1> USE KeysAssumption DEF Init
<1>1. 0 \in Slots /\ ring.seq = 2 /\ ring.cur = 0 /\ Newest = [id |-> 1, born |-> 0] /\ Count = 1
  BY DEF Slots, Newest, Count
<1>2. TypeOK
  <2>1. ring.keys \in [Slots -> Key]
    BY DEF Key, NoKey
  <2>2. ring \in [seq : Nat, cur : Slots, due : Nat, keys : [Slots -> Key]]
    BY <1>1, <2>1
  <2>3. conn \in [Workers -> Nat \cup {-1}] /\ hook \in [Workers -> Nat \cup {-1}]
    OBVIOUS
  <2>4. ticket \in [key : Nat, at : Nat, early : Nat]
    BY DEF NoTicket
  <2>5. wake \in BOOLEAN
    OBVIOUS
  <2>6. now = 0 /\ owner = "up" /\ rot = "waiting" /\ kicks = 0 /\ early = 0 /\ shared = Workers /\ asked = {}
    OBVIOUS
  <2> HIDE DEF Init
  <2> QED
    BY <2>2, <2>3, <2>4, <2>5, <2>6 DEF TypeOK
<1>3. InTurn(ring.keys, ring.cur, Count)
  <2> SUFFICES ASSUME NEW i \in Slots
               PROVE  IF 1 > Since(i, 0)
                        THEN /\ ring.keys[i].id = 1 - Since(i, 0)
                             /\ ring.keys[0].born - ring.keys[i].born <= Since(i, 0) * Gap
                        ELSE ring.keys[i] = NoKey
    BY <1>1 DEF InTurn
  <2>1. CASE i = 0
    <3>1. Since(i, 0) = 0 /\ 0 * Gap = 0 /\ ring.keys[i] = [id |-> 1, born |-> 0]
      BY <2>1 DEF Since, Gap
    <3> QED
      BY <2>1, <3>1
  <2>2. CASE i # 0
    BY <2>2 DEF Since, Slots
  <2> QED
    BY <2>1, <2>2
<1>4. RingInv
  BY <1>1, <1>3 DEF RingInv
<1>5. ConnInv /\ HookInv /\ TicketInv /\ DropsOnlyAbandoned
  BY DEF ConnInv, HookInv, TicketInv, NoTicket, DropsOnlyAbandoned
<1> QED
  BY <1>2, <1>4, <1>5 DEF Inv

\* Time passes for a running owner no further than Late beyond its deadline.
LEMMA TickLemma ==
  ASSUME Inv, Tick
  PROVE  Inv'
<1> USE KeysAssumption DEF Inv, Tick
<1>1. TypeOK'
  BY DEF TypeOK
<1>2. Newest \in Key /\ ring.due \in Nat /\ now \in Nat
  BY DEF TypeOK, Newest
<1>3. RingInv'
  BY <1>2 DEF RingInv, Newest, Count, Key
<1>4. ConnInv'
  BY DEF TypeOK, ConnInv, Readable
<1>5. TicketInv' /\ HookInv' /\ DropsOnlyAbandoned'
  BY DEF TypeOK, TicketInv, HookInv, DropsOnlyAbandoned, Newest, Count
<1> QED
  BY <1>1, <1>3, <1>4, <1>5

\* The rotation thread before it writes.
LEMMA WaitLemma ==
  ASSUME Inv, WaitReturns \/ ClearWake \/ Kick
  PROVE  Inv'
<1> USE KeysAssumption DEF Inv, WaitReturns, ClearWake, Kick
<1>1. TypeOK' /\ HookInv' /\ DropsOnlyAbandoned' /\ TicketInv'
  <2>1. wake' \in BOOLEAN
    BY DEF TypeOK
  <2>2. rot' \in {"waiting", "returned", "awake", "publishing", "ended"} /\ kicks' \in 0..MaxKicks
    BY DEF TypeOK
  <2>3. UNCHANGED <<now, ring, owner, early, shared, conn, hook, asked, ticket>>
    OBVIOUS
  <2> HIDE DEF WaitReturns, ClearWake, Kick
  <2>4. TypeOK'
    BY <2>1, <2>2, <2>3 DEF TypeOK
  <2> QED
    BY <2>3, <2>4 DEF HookInv, DropsOnlyAbandoned, TicketInv, Newest, Count
<1>2. RingInv'
  BY DEF RingInv, Newest, Count, TypeOK
<1>3. ConnInv'
  BY DEF ConnInv, Readable
<1> QED
  BY <1>1, <1>2, <1>3

\* It makes seq odd; the number of publications stays the same.
LEMMA BeginPublishLemma ==
  ASSUME Inv, BeginPublish
  PROVE  Inv'
<1> USE KeysAssumption DEF Inv
<1>1. ring \in [seq : Nat, cur : Slots, due : Nat, keys : [Slots -> Key]]
  BY DEF TypeOK
<1>2. CASE owner # "up"
  <2>1. rot' = "ended" /\ UNCHANGED <<now, ring, owner, wake, kicks, early, shared, conn, hook, asked, ticket>>
    BY <1>2 DEF BeginPublish
  <2>2. TypeOK' /\ HookInv' /\ DropsOnlyAbandoned' /\ TicketInv'
    BY <2>1 DEF TypeOK, HookInv, DropsOnlyAbandoned, TicketInv, Newest, Count
  <2>3. RingInv' /\ ConnInv'
    BY <1>2, <2>1 DEF RingInv, Newest, Count, ConnInv, Readable
  <2> QED
    BY <2>2, <2>3
<1>3. CASE owner = "up"
  <2>1. rot' = "publishing" /\ UNCHANGED <<now, owner, wake, kicks, early, shared, conn, hook, asked, ticket>>
        /\ ring' = [ring EXCEPT !.seq = ring.seq + 1] /\ rot = "awake"
    BY <1>3 DEF BeginPublish
  <2>2. ring' \in [seq : Nat, cur : Slots, due : Nat, keys : [Slots -> Key]]
        /\ ring'.seq = ring.seq + 1 /\ ring'.cur = ring.cur /\ ring'.due = ring.due /\ ring'.keys = ring.keys
    BY <1>1, <2>1
  <2>3. ring.seq \in Nat /\ ring.seq % 2 = 0 /\ ring.seq >= 2
    BY <1>1, <1>3, <2>1 DEF RingInv
  <2>4. (ring.seq + 1) \div 2 = ring.seq \div 2 /\ (ring.seq + 1) % 2 = 1
    BY <2>3
  <2>5. Count' = Count /\ Newest' = Newest /\ ~Readable'
    BY <2>2, <2>4 DEF Count, Newest, Readable
  <2>6. TypeOK' /\ HookInv' /\ DropsOnlyAbandoned'
    BY <2>1, <2>2 DEF TypeOK, HookInv, DropsOnlyAbandoned
  <2>7. RingInv'
    BY <1>3, <2>1, <2>2, <2>3, <2>4, <2>5 DEF RingInv
  <2>8. ConnInv'
    BY <2>1, <2>5 DEF ConnInv
  <2>9. TicketInv'
    BY <2>1, <2>2, <2>3, <2>5 DEF TicketInv
  <2> QED
    BY <2>6, <2>7, <2>8, <2>9
<1> QED
  BY <1>2, <1>3

\* It publishes: the new key takes the oldest one's slot.
LEMMA EndPublishLemma ==
  ASSUME Inv, EndPublish
  PROVE  Inv'
<1> DEFINE n == Count j == ring.cur next == NextSlot k == [id |-> n + 1, born |-> now]
<1> USE KeysAssumption DEF Inv
<1>1. ring \in [seq : Nat, cur : Slots, due : Nat, keys : [Slots -> Key]] /\ now \in Nat
      /\ early \in Nat /\ ticket \in [key : Nat, at : Nat, early : Nat] /\ conn \in [Workers -> Nat \cup {-1}]
  BY DEF TypeOK
<1>2. /\ rot = "publishing" /\ owner = "up" /\ ring' = RotatedRing /\ rot' = "waiting"
      /\ early' = IF now < ring.due THEN early + 1 ELSE early
      /\ UNCHANGED <<now, owner, wake, kicks, shared, conn, hook, asked, ticket>>
  BY DEF EndPublish
<1>3. ring.seq \in Nat /\ ring.seq % 2 = 1 /\ ring.seq >= 2
  BY <1>1, <1>2 DEF RingInv
<1>4. (ring.seq + 1) \div 2 = ring.seq \div 2 + 1 /\ (ring.seq + 1) % 2 = 0 /\ n \in Nat /\ n >= 1
  BY <1>3 DEF Count
<1>5. next \in Slots /\ Since(next, next) = 0
      /\ \A i \in Slots \ {next} : Since(i, next) = Since(i, j) + 1 /\ Since(i, j) \in Nat
  BY <1>1, SinceLemma DEF NextSlot
<1>6. k \in Key
  BY <1>1, <1>4 DEF Key
<1>7. /\ ring'.seq = ring.seq + 1 /\ ring'.cur = next /\ ring'.due = now + TLS_TICKET_ROTATE
      /\ ring'.keys = [ring.keys EXCEPT ![next] = k]
  BY <1>2 DEF RotatedRing, Count
<1> HIDE DEF next, k
<1>8. ring'.keys \in [Slots -> Key] /\ ring'.keys[next] = k
      /\ \A i \in Slots \ {next} : ring'.keys[i] = ring.keys[i]
  BY <1>1, <1>5, <1>6, <1>7
<1>9. ring' \in [seq : Nat, cur : Slots, due : Nat, keys : [Slots -> Key]]
  <2>1. ring' = [seq |-> ring'.seq, cur |-> ring'.cur, due |-> ring'.due, keys |-> ring'.keys]
    BY <1>2 DEF RotatedRing
  <2> QED
    BY <1>1, <1>5, <1>7, <1>8, <2>1
<1>10. Count' = n + 1 /\ Newest' = k /\ k.born = now /\ k.id = n + 1
  BY <1>4, <1>7, <1>8 DEF Count, Newest, k
<1>11. Newest \in Key /\ Newest.born \in Nat /\ Newest.born <= now /\ ring.due = Newest.born + TLS_TICKET_ROTATE
       /\ now <= Newest.born + Gap /\ Gap \in Nat
  BY <1>1, <1>2, <1>3 DEF RingInv, Newest, Key, Gap
<1>12. InTurn(ring'.keys, next, n + 1)
  <2>0. ring'.keys[next].born = now
    BY <1>8, <1>10
  <2> HIDE DEF n
  <2>1. \A i \in Slots :
          IF n + 1 > Since(i, next)
            THEN /\ ring'.keys[i].id = (n + 1) - Since(i, next)
                 /\ ring'.keys[next].born - ring'.keys[i].born <= Since(i, next) * Gap
            ELSE ring'.keys[i] = NoKey
    <3> TAKE i \in Slots
    <3>1. CASE i = next
      <4>1. 0 * Gap = 0
        BY <1>11
      <4> QED
        BY <1>1, <1>4, <1>5, <1>8, <1>10, <2>0, <3>1, <4>1
    <3>2. CASE i # next
      <4> DEFINE d == Since(i, j)
      <4>1. d \in Nat /\ Since(i, next) = d + 1 /\ ring'.keys[i] = ring.keys[i] /\ ring.keys[i] \in Key
        BY <1>1, <1>5, <1>8, <3>2
      <4>2. IF n > d THEN ring.keys[i].id = n - d /\ Newest.born - ring.keys[i].born <= d * Gap
                     ELSE ring.keys[i] = NoKey
        BY <1>3 DEF RingInv, InTurn, Newest, n
      <4> HIDE DEF d
      <4> DEFINE p == d * Gap
      <4>3. p \in Int /\ Since(i, next) * Gap = p + Gap
        BY <1>11, <4>1, MulLemma
      <4>4. ring.keys[i].born \in Nat /\ ring.keys[i].id \in Nat
        BY <4>1 DEF Key
      <4>5. IF n > d THEN ring.keys[i].id = n - d /\ Newest.born - ring.keys[i].born <= p
                     ELSE ring.keys[i] = NoKey
        BY <4>2
      <4> HIDE DEF p
      <4>6. n \in Nat /\ (n + 1 > d + 1 <=> n > d) /\ (n + 1) - (d + 1) = n - d
        BY <1>4, <4>1
      <4>7. CASE n > d
        <5>1. now - ring.keys[i].born <= p + Gap
          BY <1>1, <1>11, <4>3, <4>4, <4>5, <4>7
        <5> QED
          BY <2>0, <4>1, <4>3, <4>5, <4>6, <4>7, <5>1
      <4>8. CASE ~(n > d)
        BY <4>1, <4>5, <4>6, <4>8
      <4> QED
        BY <4>7, <4>8
    <3> QED
      BY <3>1, <3>2
  <2> QED
    BY <2>1, Zenon DEF InTurn
<1>13. TypeOK' /\ HookInv' /\ DropsOnlyAbandoned'
  BY <1>1, <1>2, <1>9 DEF TypeOK, HookInv, DropsOnlyAbandoned
<1>14. RingInv'
  BY <1>1, <1>2, <1>3, <1>4, <1>7, <1>10, <1>12 DEF RingInv
<1>15. ConnInv'
  BY <1>1, <1>2, <1>7 DEF ConnInv
<1>16. TicketInv'
  <2>1. ticket.key \in Nat /\ ticket.at \in Nat /\ ticket.early \in Nat
    BY <1>1
  <2>2. ticket.early <= early /\ ticket.at <= now
    BY DEF TicketInv
  <2>3. ASSUME ticket.key # 0
        PROVE  /\ ticket.key <= n + 1
               /\ (ticket.early = early' /\ ticket.key < n + 1) =>
                    now - ticket.at >= ((n + 1) - ticket.key - 1) * TLS_TICKET_ROTATE
    <3> DEFINE d == n - ticket.key
    <3>1. ticket.key <= n /\ d \in Nat
      BY <1>3, <1>4, <2>1, <2>3 DEF TicketInv
    <3>2. (ticket.early = early /\ ticket.key < n) => Newest.born - ticket.at >= (d - 1) * TLS_TICKET_ROTATE
      BY <1>3, <2>3 DEF TicketInv
    <3>3. d * TLS_TICKET_ROTATE = (d - 1) * TLS_TICKET_ROTATE + TLS_TICKET_ROTATE
          /\ (d - 1) * TLS_TICKET_ROTATE \in Int
      BY <3>1, MulLemma
    <3>4. (n + 1) - ticket.key - 1 = d
      BY <1>4, <2>1
    <3> HIDE DEF d
    <3>5. ticket.key < n <=> d # 0
      BY <1>4, <2>1, <3>1 DEF d
    <3>6. d = 0 => d * TLS_TICKET_ROTATE = 0
      OBVIOUS
    <3>7. CASE now < ring.due
      <4>1. early' = early + 1
        BY <1>2, <3>7
      <4> QED
        BY <1>1, <1>4, <2>1, <2>2, <3>1, <4>1
    <3>8. CASE ~(now < ring.due)
      <4>1. early' = early /\ now >= Newest.born + TLS_TICKET_ROTATE
        BY <1>1, <1>2, <1>11, <3>8
      <4> QED
        BY <1>1, <1>4, <1>11, <2>1, <2>2, <3>1, <3>2, <3>3, <3>4, <3>5, <3>6, <4>1
    <3> QED
      BY <3>7, <3>8
  <2>4. ticket.early <= early'
    BY <1>1, <1>2, <2>1, <2>2
  <2>5. ticket' = ticket /\ now' = now /\ Count' = n + 1 /\ Newest'.born = now
    BY <1>2, <1>10
  <2> HIDE DEF n
  <2>6. (Count' - ticket'.key - 1) * TLS_TICKET_ROTATE = ((n + 1) - ticket.key - 1) * TLS_TICKET_ROTATE
    <3>1. Count' - ticket'.key - 1 = (n + 1) - ticket.key - 1
      BY <1>4, <2>1, <2>5
    <3> QED
      BY <3>1, Zenon
  <2>7. Newest'.born - ticket'.at = now - ticket.at
    BY <2>5, Zenon
  <2> QED
    BY <2>2, <2>3, <2>4, <2>5, <2>6, <2>7, Zenon DEF TicketInv
<1> QED
  BY <1>13, <1>14, <1>15, <1>16

\* The ring is wiped, and nothing can be read any more.
LEMMA DestroyLemma ==
  ASSUME Inv, Destroy
  PROVE  Inv'
<1> USE KeysAssumption DEF Inv
<1>1. ring' \in [seq : Nat, cur : Slots, due : Nat, keys : [Slots -> Key]] /\ ring'.seq = 0
  BY DEF Destroy, Slots, Key, NoKey
<1>2. owner' = "done" /\ wake' \in BOOLEAN /\ UNCHANGED <<now, rot, kicks, early, shared, conn, hook, asked, ticket>>
  BY DEF Destroy
<1>3. TypeOK' /\ HookInv' /\ DropsOnlyAbandoned'
  BY <1>1, <1>2 DEF TypeOK, HookInv, DropsOnlyAbandoned
<1>4. RingInv' /\ TicketInv' /\ ConnInv'
  BY <1>1, <1>2 DEF RingInv, TicketInv, ConnInv, Readable
<1> QED
  BY <1>3, <1>4

\* The owner is killed, wherever it was.
LEMMA OwnerKilledLemma ==
  ASSUME Inv, OwnerKilled
  PROVE  Inv'
<1> USE DEF Inv, OwnerKilled
<1>1. TypeOK' /\ HookInv' /\ DropsOnlyAbandoned' /\ TicketInv'
  BY DEF TypeOK, HookInv, DropsOnlyAbandoned, TicketInv, Newest, Count
<1>2. RingInv' /\ ConnInv'
  BY DEF RingInv, Newest, Count, ConnInv, Readable
<1> QED
  BY <1>1, <1>2

\* A worker drops the ring only if its owner is later than the grace, and so
\* is not running.
LEMMA ConnInitLemma ==
  ASSUME Inv, NEW w \in Workers, ConnInit(w)
  PROVE  Inv'
<1> USE KeysAssumption DEF Inv, ConnInit
<1>1. TypeOK'
  BY DEF TypeOK, ring_disable
<1>2. owner = "up" => ~is_stale
  BY DEF RingInv, is_stale, TypeOK
<1>3. DropsOnlyAbandoned'
  BY <1>2 DEF DropsOnlyAbandoned
<1>4. RingInv' /\ TicketInv' /\ HookInv'
  BY DEF RingInv, TicketInv, HookInv, Newest, Count
<1>5. ConnInv'
  <2> SUFFICES ASSUME NEW v \in Workers, conn'[v] >= 0
               PROVE  /\ conn'[v] <= now /\ now <= conn'[v] + Dawdle
                      /\ (v \in shared' /\ Readable) => conn'[v] <= ring.due + TLS_TICKET_STALE_GRACE
    BY DEF ConnInv, Readable
  <2>1. CASE v = w
    <3>1. conn'[v] = now /\ (v \in shared' => ~is_stale)
      BY <2>1 DEF TypeOK, ring_disable
    <3> QED
      BY <3>1 DEF TypeOK, is_stale
  <2>2. CASE v # w
    BY <2>2 DEF TypeOK, ConnInv, ring_disable
  <2> QED
    BY <2>1, <2>2
<1> QED
  BY <1>1, <1>3, <1>4, <1>5

\* A connection ends before its handshake.
LEMMA ConnLostLemma ==
  ASSUME Inv, NEW w \in Workers, ConnLost(w)
  PROVE  Inv'
<1> USE DEF Inv, ConnLost
<1>1. TypeOK' /\ ConnInv'
  BY DEF TypeOK, ConnInv, Readable
<1>2. RingInv' /\ TicketInv' /\ HookInv' /\ DropsOnlyAbandoned'
  BY DEF RingInv, TicketInv, HookInv, DropsOnlyAbandoned, Newest, Count
<1> QED
  BY <1>1, <1>2

\* A ticket is sealed under the newest key, or under one that is in no ring.
LEMMA HandshakeLemma ==
  ASSUME Inv, NEW w \in Workers, Handshake(w)
  PROVE  Inv'
<1> USE KeysAssumption DEF Inv
<1>1. ring \in [seq : Nat, cur : Slots, due : Nat, keys : [Slots -> Key]] /\ now \in Nat
      /\ early \in Nat /\ ticket \in [key : Nat, at : Nat, early : Nat]
  BY DEF TypeOK
<1>2. conn' = [conn EXCEPT ![w] = -1] /\ Seals(w)
      /\ UNCHANGED <<now, ring, owner, rot, wake, kicks, early, shared, hook, asked>>
  BY DEF Handshake
<1>3. ticket' = ticket \/ ticket' = [key |-> Sealer.id, at |-> now, early |-> early]
  BY <1>2 DEF Seals
<1>4. Sealer.id \in Nat /\ (Sealer.id # 0 => ring.seq # 0 /\ Sealer.id = Count)
  <2>1. CASE Readable
    <3>1. Sealer = Newest /\ Newest \in Key /\ ring.seq # 0
      BY <1>1, <2>1 DEF Sealer, Newest, Readable
    <3>2. Since(ring.cur, ring.cur) = 0 /\ Count \in Nat /\ Count >= 1
      BY <1>1, <3>1 DEF Since, Slots, Count, RingInv
    <3>3. Newest.id = Count
      BY <1>1, <3>1, <3>2 DEF RingInv, InTurn, Newest
    <3> QED
      BY <3>1, <3>3 DEF Key
  <2>2. CASE ~Readable
    BY <2>2 DEF Sealer, NoKey
  <2> QED
    BY <2>1, <2>2
<1>5. ticket' \in [key : Nat, at : Nat, early : Nat]
  BY <1>1, <1>3, <1>4
<1>6. TypeOK' /\ HookInv' /\ DropsOnlyAbandoned' /\ ConnInv'
  BY <1>2, <1>5 DEF TypeOK, HookInv, DropsOnlyAbandoned, ConnInv, Readable
<1>7. RingInv'
  BY <1>2 DEF RingInv, Newest, Count
<1>8. TicketInv'
  <2>1. CASE ticket' = ticket
    BY <1>2, <2>1 DEF TicketInv, Newest, Count
  <2>2. CASE ticket' = [key |-> Sealer.id, at |-> now, early |-> early]
    <3>1. ticket'.key = Sealer.id /\ ticket'.at = now /\ ticket'.early = early
      BY <2>2
    <3>2. Count' = Count /\ Newest' = Newest /\ Count \in Nat
      BY <1>1, <1>2 DEF Count, Newest
    <3> QED
      BY <1>1, <1>2, <1>4, <3>1, <3>2 DEF TicketInv
  <2> QED
    BY <1>3, <2>1, <2>2
<1> QED
  BY <1>6, <1>7, <1>8

\* The rotation hook.
LEMMA HookLemma ==
  ASSUME Inv, NEW w \in Workers,
         HookCalled(w) \/ HookAsks(w) \/ HookReturns(w) \/ HookTimesOut(w)
  PROVE  Inv'
<1> USE KeysAssumption DEF Inv, HookCalled, HookAsks, HookReturns, HookTimesOut
<1>1. TypeOK' /\ HookInv'
  <2>1. CASE HookCalled(w)
    BY <2>1 DEF TypeOK, HookInv
  <2>2. CASE HookAsks(w)
    <3>1. wake' \in BOOLEAN /\ asked' \subseteq Workers /\ hook' \in [Workers -> Nat \cup {-1}]
      BY <2>2 DEF TypeOK
    <3>2. UNCHANGED <<now, ring, owner, rot, kicks, early, shared, conn, ticket>>
      BY <2>2
    <3>3. HookInv'
      BY <2>2 DEF TypeOK, HookInv
    <3> HIDE DEF HookAsks
    <3> QED
      BY <3>1, <3>2, <3>3 DEF TypeOK
  <2>3. CASE HookReturns(w) \/ HookTimesOut(w)
    BY <2>3 DEF TypeOK, HookInv
  <2> QED
    BY <2>1, <2>2, <2>3
<1>2. RingInv' /\ TicketInv' /\ ConnInv' /\ DropsOnlyAbandoned'
  BY DEF RingInv, TicketInv, ConnInv, DropsOnlyAbandoned, Newest, Count, Readable
<1> QED
  BY <1>1, <1>2

-----------------------------------------------------------------------------
(* The theorems *)

\* Every step keeps the invariant.
LEMMA NextLemma ==
  ASSUME Inv, [Next]_vars
  PROVE  Inv'
<1>1. CASE UNCHANGED vars
  <2>1. UNCHANGED <<now, ring, owner, rot, wake, kicks, early, shared, conn, hook, asked, ticket>>
    BY <1>1 DEF vars
  <2>2. TypeOK' /\ HookInv' /\ DropsOnlyAbandoned' /\ TicketInv'
    BY <2>1 DEF Inv, TypeOK, HookInv, DropsOnlyAbandoned, TicketInv, Newest, Count
  <2>3. RingInv' /\ ConnInv'
    BY <2>1 DEF Inv, RingInv, ConnInv, Newest, Count, Readable
  <2> QED
    BY <2>2, <2>3 DEF Inv
<1>2. CASE \E w \in Workers : Handshake(w) \/ Resumed(w) \/ Refused(w)
  BY <1>2, HandshakeLemma DEF Resumed, Refused
<1> QED
  BY <1>1, <1>2, TickLemma, WaitLemma, BeginPublishLemma, EndPublishLemma, DestroyLemma, OwnerKilledLemma,
     ConnInitLemma, ConnLostLemma, HookLemma DEF Next, Rotator

\* The invariant holds throughout.
LEMMA Invariance == Spec => []Inv
BY InitLemma, NextLemma, PTL DEF Spec

\* No worker seals or opens with a key older than server.h's exposure bound,
\* give or take the lateness of each rotation and of the ClientHello; and a
\* worker gives up the ring only when its owner is gone.
THEOREM KeysInUseAreYoung == Spec => []KeysInUse
<1>1. Inv => KeysInUse
  <2> SUFFICES ASSUME Inv, NEW w \in shared, NEW i \in Slots, conn[w] >= 0, Readable, ring.keys[i] # NoKey
               PROVE  now - ring.keys[i].born <= TLS_TICKET_RING * TLS_TICKET_ROTATE + TLS_TICKET_STALE_GRACE
                                                 + (TLS_TICKET_RING - 1) * Late + Dawdle
    BY DEF Inv, KeysInUse, KeyAgeBounded
  <2> DEFINE d == Since(i, ring.cur)
  <2>1. ring \in [seq : Nat, cur : Slots, due : Nat, keys : [Slots -> Key]] /\ now \in Nat /\ w \in Workers
        /\ conn[w] \in Nat \cup {-1} /\ ring.seq # 0
    BY DEF Inv, TypeOK, Readable
  <2>2. ring.keys[i] \in Key /\ Newest \in Key /\ ring.keys[i].born \in Nat /\ Newest.born \in Nat
    BY <2>1 DEF Newest, Key
  <2>3. now <= ring.due + TLS_TICKET_STALE_GRACE + Dawdle
    BY <2>1, KeysAssumption DEF Inv, ConnInv
  <2>4. ring.due = Newest.born + TLS_TICKET_ROTATE
    BY <2>1 DEF Inv, RingInv
  <2>5. Newest.born - ring.keys[i].born <= d * Gap
    BY <2>1 DEF Inv, RingInv, InTurn, Newest
  <2>6. d \in 0..(TLS_TICKET_RING - 1)
    BY <2>1, SinceLemma
  <2> HIDE DEF d
  <2>7. d * Gap <= (TLS_TICKET_RING - 1) * Gap /\ d * Gap \in Int /\ Gap \in Nat
    BY <2>6, KeysAssumption, MulLemma DEF Gap
  <2>8. (TLS_TICKET_RING - 1) * Gap =
          TLS_TICKET_RING * TLS_TICKET_ROTATE - TLS_TICKET_ROTATE + (TLS_TICKET_RING - 1) * Late
    BY KeysAssumption DEF Gap
  <2>9. TLS_TICKET_RING * TLS_TICKET_ROTATE \in Int /\ (TLS_TICKET_RING - 1) * Late \in Int
    BY KeysAssumption
  <2> QED
    BY <2>1, <2>2, <2>3, <2>4, <2>5, <2>7, <2>8, <2>9, KeysAssumption
<1> QED
  BY <1>1, Invariance, PTL

\* A ticket that is not sealed under a one-shot key, and offered to a ring
\* that can be read before its lifetime is over, is found unless a rotation
\* was made early.
LEMMA TicketIsFound ==
  ASSUME Inv, Readable, ticket.key # 0, ticket.early = early, now - ticket.at < TLS_TICKET_LIFETIME
  PROVE  Unsealer(ticket) # {}
<1> DEFINE d == Count - ticket.key
<1>1. ring \in [seq : Nat, cur : Slots, due : Nat, keys : [Slots -> Key]] /\ now \in Nat
      /\ ticket \in [key : Nat, at : Nat, early : Nat] /\ ring.seq # 0
  BY DEF Inv, TypeOK, Readable
<1>2. Count \in Nat /\ ticket.key \in Nat /\ ticket.at \in Nat /\ ticket.key <= Count /\ d \in Nat
  BY <1>1 DEF Inv, TicketInv, Count
<1>3. Newest.born \in Nat /\ Newest.born <= now
  BY <1>1 DEF Inv, RingInv, Newest, Key
<1>4. d <= TLS_TICKET_RING - 1
  <2> SUFFICES ASSUME d >= TLS_TICKET_RING PROVE FALSE
    BY <1>2, KeysAssumption
  <2>1. Newest.born - ticket.at >= (d - 1) * TLS_TICKET_ROTATE
    BY <1>1, <1>2, KeysAssumption DEF Inv, TicketInv
  <2>2. (d - 1) * TLS_TICKET_ROTATE >= (TLS_TICKET_RING - 1) * TLS_TICKET_ROTATE
        /\ (d - 1) * TLS_TICKET_ROTATE \in Int /\ (TLS_TICKET_RING - 1) * TLS_TICKET_ROTATE \in Int
    BY <1>2, KeysAssumption, MulLemma
  <2> HIDE DEF d
  <2> QED
    BY <1>1, <1>2, <1>3, <2>1, <2>2, KeysAssumption
<1>5. PICK i \in Slots : Since(i, ring.cur) = d
  <2>1. d \in 0..(TLS_TICKET_RING - 1)
    BY <1>2, <1>4, KeysAssumption
  <2> QED
    BY <1>1, <2>1, SlotOfAge
<1>6. ring.keys[i].id = ticket.key
  <2>1. Count > d
    BY <1>2
  <2>2. ring.keys[i].id = Count - d
    BY <1>1, <1>5, <2>1 DEF Inv, RingInv, InTurn
  <2> QED
    BY <1>2, <2>2
<1> QED
  BY <1>6 DEF Unsealer

\* A ticket offered within its lifetime, to any worker, is refused only
\* because a rotation was asked for early, the ring could not be read, or it
\* was sealed under a one-shot key; and when the rotation hook returns, a key
\* is in force whose publication was not complete when it was called.
THEOREM TicketsAndHooksAsPromised == Spec => KeysAsAsked
<1>1. Inv /\ [Next]_vars =>
        [\A w \in Workers : Refused(w) =>
           \/ now - ticket.at >= TLS_TICKET_LIFETIME
           \/ early > ticket.early
           \/ ~Readable \/ ticket.key = 0]_vars
  <2> SUFFICES ASSUME Inv, NEW w \in Workers, Refused(w), Readable, ticket.key # 0,
                      ~(now - ticket.at >= TLS_TICKET_LIFETIME), ~(early > ticket.early)
               PROVE  FALSE
    OBVIOUS
  <2>1. now \in Nat /\ early \in Nat /\ ticket.at \in Nat /\ ticket.early \in Nat /\ ticket.early <= early
    BY DEF Inv, TypeOK, TicketInv
  <2>2. ticket.early = early /\ now - ticket.at < TLS_TICKET_LIFETIME
    BY <2>1, KeysAssumption
  <2>3. Unsealer(ticket) # {}
    BY <2>2, TicketIsFound
  <2> QED
    BY <2>1, <2>2, <2>3, KeysAssumption DEF Refused
<1>2. Inv /\ [Next]_vars => [\A w \in Workers : HookReturns(w) => Sealer.id > hook[w] \div 2]_vars
  <2> SUFFICES ASSUME Inv, NEW w \in Workers, HookReturns(w)
               PROVE  Sealer.id > hook[w] \div 2
    OBVIOUS
  <2>1. hook[w] \in Nat /\ ring.seq >= hook[w] + 2 /\ ring.seq % 2 = 0
    <3>1. w \in asked /\ HookSees(hook[w])
      BY DEF HookReturns
    <3> QED
      BY <3>1 DEF HookSees, Inv, TypeOK, HookInv
  <2>2. ring \in [seq : Nat, cur : Slots, due : Nat, keys : [Slots -> Key]]
    BY DEF Inv, TypeOK
  <2>3. ring.seq \in Nat /\ Readable /\ Count > hook[w] \div 2 /\ Count \in Nat /\ Count >= 1
    BY <2>1, <2>2 DEF Readable, Count
  <2>4. Since(ring.cur, ring.cur) = 0
    BY <2>2, KeysAssumption DEF Since, Slots
  <2>5. Newest.id = Count
    BY <2>2, <2>3, <2>4 DEF Inv, RingInv, InTurn, Newest, Readable
  <2> QED
    BY <2>3, <2>5 DEF Sealer, Newest
<1> QED
  BY <1>1, <1>2, Invariance, PTL DEF Spec, KeysAsAsked, RefusedForCause, HookShowsNewKey

=============================================================================
