----------------------------- MODULE PoolsProofs ----------------------------
(***************************************************************************)
(* Proofs about Pools, for any number of connections, any capacities, any  *)
(* responses and whatever malloc and picotls may do.                       *)
(*                                                                         *)
(* A pool operation is a function from memory to memory.  Held says that a *)
(* memory and three sets of addresses, which somebody else holds, share no *)
(* address and together account for everything given out; a getter moves   *)
(* an address from the memory into one of the sets and a putter moves it   *)
(* back.  The steps of a connection put such moves together, while what    *)
(* the other connections hold stays what it is.                            *)
(***************************************************************************)
EXTENDS Pools, FiniteSetTheorems, WellFoundedInduction, TLAPS


\* What a connection holds: its blocks, the oversized buffer, and the rest.
Blocks(c) == {c.chain[i].block : i \in DOMAIN c.chain}
Bigs(c) == {c.wbig} \ {NULL}
Swapped(c, i) == c.chain[i].base \notin {c.chain[i].block, c.wbig}
Swaps(c) == {c.chain[i].base : i \in {j \in DOMAIN c.chain : Swapped(c, j)}}
Others(c) == Swaps(c) \cup ({c.spill, c.client} \ {NULL})

\* No two of them are the same.
Tidy(c) ==
  /\ \A i, j \in DOMAIN c.chain : c.chain[i].block = c.chain[j].block => i = j
  /\ \A i, j \in DOMAIN c.chain :
       Swapped(c, i) /\ Swapped(c, j) /\ c.chain[i].base = c.chain[j].base => i = j
  /\ c.spill \notin Swaps(c) /\ c.client \notin Swaps(c)
  /\ c.spill = c.client => c.spill = NULL

\* What the pools hold.
Pooled(m) == ToSet(m.wpool) \cup ToSet(m.spool) \cup ({m.big} \ {NULL})

\* The free lists hold no address twice, and their counts are right.
Sane(m) ==
  /\ m \in Memory
  /\ IsInjective(m.wpool) /\ IsInjective(m.spool) /\ IsInjective(m.free)
  /\ ToSet(m.wpool) \cap ToSet(m.spool) = {}
  /\ m.big \notin ToSet(m.wpool) \cup ToSet(m.spool)
  /\ m.wn = Len(m.wpool) /\ m.wn <= TLS_WBUF_POOL_MAX
  /\ m.sn = Len(m.spool) /\ m.sn <= TLS_SPILL_POOL_MAX
  /\ m.bigcap <= TLS_BIGBUF_KEEP_MAX /\ ((m.big = NULL) <=> (m.bigcap = 0))

\* The blocks W, oversized buffers B and others O are held elsewhere.
Apart(m, W, B, O) ==
  /\ Pooled(m) \cap (W \cup B \cup O) = {} /\ ToSet(m.free) \cap O = {}
  /\ W \cap B = {} /\ W \cap O = {} /\ B \cap O = {} /\ O \subseteq Slab \cup Heap

\* With them, everything given out is held.
Accounted(m, W, B, O) ==
  /\ m.heap = Pooled(m) \cup W \cup B \cup (O \cap Heap)
  /\ 0..(m.used - 1) = ToSet(m.free) \cup (O \cap Slab)

\* m is right, given what is held elsewhere.
Held(m, W, B, O) ==
  /\ Sane(m) /\ Apart(m, W, B, O) /\ Accounted(m, W, B, O)
  /\ m.wlive = Cardinality(W) /\ m.blive = Cardinality(B)

\* What a connection has at each stage.
Stage(c) ==
  /\ c.at = "none" => c = NoConn
  /\ c.at # "none" => c.client # NULL
  /\ c.at = "open" => c.chain = <<>> /\ c.wbig = NULL
  /\ c.at = "final" => c.wbig = NULL
  /\ c.wbig # NULL => /\ Len(c.chain) = 1 /\ c.chain[1].base # c.chain[1].block
                      /\ c.chain[1].cap > 0

\* What all connections hold.
AllBlocks == UNION {Blocks(conn[k]) : k \in Conn}
AllBigs == UNION {Bigs(conn[k]) : k \in Conn}
AllOthers == UNION {Others(conn[k]) : k \in Conn}

\* The pools and the connections together account for the memory, and no two
\* connections hold the same.
MemInv ==
  /\ Held(mem, AllBlocks, AllBigs, AllOthers)
  /\ \A k \in Conn : Tidy(conn[k]) /\ Stage(conn[k])
  /\ \A k, l \in Conn : k # l =>
       /\ Blocks(conn[k]) \cap Blocks(conn[l]) = {}
       /\ Bigs(conn[k]) \cap Bigs(conn[l]) = {}
       /\ Others(conn[k]) \cap Others(conn[l]) = {}

\* A connection holds the oversized buffer: one of at least n that may be
\* retained, or one that picotls has displaced.
Lends(c, n) ==
  /\ c.wbig # NULL
  /\ c.chain[1].base = c.wbig => c.chain[1].cap \in n..TLS_BIGBUF_KEEP_MAX
\* The largest buffer is in the slot or lent from it.
KeepInv == mem.bigcap >= keep \/ \E k \in Conn : Lends(conn[k], keep)

\* Where in the header or the body the next record begins.
Cursor(c, j) ==
  \/ j.off = Total(c.shape)
  \/ j.off < c.shape[1] /\ j.veci = 1 /\ j.vecoff = j.off
  \/ /\ j.off < Total(c.shape) /\ j.veci = 2 /\ j.off = c.shape[1] + j.vecoff

\* The sizing: one buffer for everything, or one full record to a block.
Fits(c, j) ==
  LET s == Last(c.chain) IN
  IF j.whole
    THEN /\ c.wbig # NULL
         /\ j.off = 0 => /\ s.base = c.wbig /\ s.off = 0
                         /\ s.cap >= tls_encrypted_size(Total(c.shape))
         /\ j.off \in {0, Total(c.shape)}
    ELSE /\ c.wbig = NULL /\ tls_record_count(Total(c.shape)) <= TLS_WSEG_MAX
         /\ s.base = s.block => s.cap = TLS_WBUF_SIZE
         /\ j.off = 0 => Len(c.chain) = 1 /\ s.off = 0
         /\ 0 < j.off /\ j.off < Total(c.shape) =>
              s.off > 0 /\ Len(c.chain) * TLS_MAX_RECORD_PLAINTEXT <= j.off

\* A response that is being encrypted, as far as its job has come.
Encrypting(c, j) ==
  /\ c.shape \in Shapes /\ c.chain # <<>> /\ Len(c.chain) <= TLS_WSEG_MAX
  /\ j.off <= Total(c.shape)
  /\ Cursor(c, j) /\ Fits(c, j)
  /\ IF j.off = 0 THEN \A i \in DOMAIN c.chain : c.chain[i].data = <<>>
                  ELSE InOrder(c, j.off)

\* One response at a time is encrypted; those in flight are complete.
JobInv ==
  /\ \A k \in Conn : conn[k].at = "encrypting" <=> job.who = k
  /\ \A k \in Conn : job.who = k => Encrypting(conn[k], job)
  /\ \A k \in Conn : conn[k].at = "writing" =>
       Len(conn[k].chain) <= TLS_WSEG_MAX /\ InOrder(conn[k], Total(conn[k].shape))

\* The inductive invariant.
IInv == TypeOK /\ MemInv /\ KeepInv /\ JobInv

-----------------------------------------------------------------------------
(* Sequences without repetition, and sets *)

\* Pushing a new element keeps a sequence free of repetitions.
LEMMA Push ==
  ASSUME NEW S, NEW s \in Seq(S), NEW a \in S, a \notin ToSet(s), IsInjective(s)
  PROVE  /\ <<a>> \o s \in Seq(S) /\ Len(<<a>> \o s) = Len(s) + 1
         /\ ToSet(<<a>> \o s) = ToSet(s) \cup {a} /\ IsInjective(<<a>> \o s)
<1> DEFINE t == <<a>> \o s
<1>1. /\ t \in Seq(S) /\ Len(t) = Len(s) + 1 /\ DOMAIN t = 1..(Len(s) + 1)
      /\ DOMAIN s = 1..Len(s) /\ Len(s) \in Nat
  OBVIOUS
<1>2. t[1] = a /\ \A i \in 1..Len(s) : t[i + 1] = s[i]
  OBVIOUS
<1>3. \A i \in DOMAIN t : i # 1 => i - 1 \in DOMAIN s /\ t[i] = s[i - 1]
  OBVIOUS
<1> HIDE DEF t
<1>4. ToSet(t) = ToSet(s) \cup {a}
  <2>1. ASSUME NEW i \in DOMAIN t PROVE t[i] \in ToSet(s) \cup {a}
    BY <1>2, <1>3 DEF ToSet
  <2>2. ASSUME NEW i \in DOMAIN s PROVE \E j \in DOMAIN t : t[j] = s[i]
    <3>1. i + 1 \in DOMAIN t /\ t[i + 1] = s[i]
      BY <1>1, <1>2
    <3> QED
      BY <3>1
  <2>3. 1 \in DOMAIN t
    BY <1>1
  <2> QED
    BY <1>2, <2>1, <2>2, <2>3 DEF ToSet
<1>5. IsInjective(t)
  <2> SUFFICES ASSUME NEW i \in DOMAIN t, NEW j \in DOMAIN t, t[i] = t[j]
               PROVE  i = j
    BY DEF IsInjective
  <2>1. \A x \in DOMAIN s : s[x] # a
    BY DEF ToSet
  <2>2. \A x, y \in DOMAIN s : s[x] = s[y] => x = y
    BY DEF IsInjective
  <2> QED
    BY <1>1, <1>2, <1>3, <2>1, <2>2
<1> QED
  BY <1>1, <1>4, <1>5 DEF t

\* Popping takes exactly the first element out.
LEMMA Pop ==
  ASSUME NEW S, NEW s \in Seq(S), s # <<>>, IsInjective(s)
  PROVE  /\ Head(s) \in S /\ Head(s) \in ToSet(s)
         /\ Tail(s) \in Seq(S) /\ Len(Tail(s)) = Len(s) - 1
         /\ ToSet(Tail(s)) = ToSet(s) \ {Head(s)} /\ IsInjective(Tail(s))
<1> DEFINE t == Tail(s)
<1>1. /\ t \in Seq(S) /\ Len(t) = Len(s) - 1 /\ DOMAIN t = 1..(Len(s) - 1)
      /\ DOMAIN s = 1..Len(s) /\ Len(s) \in Nat /\ Len(s) >= 1
  OBVIOUS
<1>2. s[1] = Head(s) /\ \A i \in 1..(Len(s) - 1) : t[i] = s[i + 1]
  OBVIOUS
<1> HIDE DEF t
<1>3. \A x, y \in DOMAIN s : s[x] = s[y] => x = y
  BY DEF IsInjective
<1>4. ToSet(t) = ToSet(s) \ {Head(s)}
  <2>1. ASSUME NEW i \in DOMAIN t PROVE t[i] \in ToSet(s) \ {Head(s)}
    <3>1. i + 1 \in DOMAIN s /\ 1 \in DOMAIN s /\ i + 1 # 1 /\ t[i] = s[i + 1]
      BY <1>1, <1>2
    <3> QED
      BY <1>2, <1>3, <3>1 DEF ToSet
  <2>2. ASSUME NEW i \in DOMAIN s, s[i] # Head(s) PROVE s[i] \in ToSet(t)
    <3>1. i - 1 \in DOMAIN t /\ t[i - 1] = s[(i - 1) + 1] /\ (i - 1) + 1 = i
      BY <1>1, <1>2, <2>2
    <3> QED
      BY <3>1 DEF ToSet
  <2> QED
    BY <2>1, <2>2 DEF ToSet
<1>5. IsInjective(t)
  <2> SUFFICES ASSUME NEW i \in DOMAIN t, NEW j \in DOMAIN t, t[i] = t[j]
               PROVE  i = j
    BY DEF IsInjective
  <2>1. i + 1 \in DOMAIN s /\ j + 1 \in DOMAIN s /\ s[i + 1] = s[j + 1]
    BY <1>1, <1>2
  <2> QED
    BY <1>1, <1>3, <2>1
<1>6. Head(s) \in S /\ Head(s) \in ToSet(s)
  BY <1>1, <1>2 DEF ToSet
<1> QED
  BY <1>1, <1>4, <1>5, <1>6 DEF t

\* The naturals are well founded: every set of them has a least element.
LEMMA LeastNatural ==
  ASSUME NEW T, T \subseteq Nat, T # {}
  PROVE  \E m \in T : \A k \in T : m <= k
<1> DEFINE R == OpToRel(<, Nat)
<1>1. IsWellFoundedOn(R, Nat)
  BY NatLessThanWellFounded
<1>2. \A x, y \in Nat : x < y => <<x, y>> \in R
  BY DEF OpToRel
<1> HIDE DEF R
<1>3. PICK x \in T : \A y \in T : ~(<<y, x>> \in R)
  BY <1>1, WFMin
<1>4. \A y \in T : ~(y < x)
  BY <1>2, <1>3, Zenon
<1> QED
  BY <1>4

\* What malloc can give out is finite, and so is every set of it.
LEMMA HeapFinite ==
  ASSUME NEW W, W \subseteq Heap
  PROVE  IsFiniteSet(W)
<1>1. POOL_CAP \in Int /\ POOL_CAP + HeapSize - 1 \in Int
  BY PoolsAssumption
<1>2. IsFiniteSet(Heap)
  BY <1>1, FS_Interval DEF Heap
<1> QED
  BY <1>2, FS_Subset

\* Addresses are natural numbers: no NULL among them, slab and heap apart.
LEMMA Addresses ==
  /\ Slab \subseteq Nat /\ Heap \subseteq Nat /\ Slab \cap Heap = {}
  /\ NULL \notin Slab /\ NULL \notin Heap /\ NULL = -1
  /\ \A a \in Slab \cup Heap : a >= 0 /\ (a \in Slab <=> a < POOL_CAP)
BY PoolsAssumption DEF Slab, Heap, NULL

-----------------------------------------------------------------------------
(* malloc, free and the pools *)

\* The types of a memory's fields.
LEMMA MemFields ==
  ASSUME NEW m \in Memory
  PROVE  /\ m.heap \subseteq Heap /\ m.used \in 0..POOL_CAP /\ m.free \in Seq(Slab)
         /\ m.wpool \in Seq(Heap) /\ m.wn \in Int /\ m.wlive \in Int
         /\ m.spool \in Seq(Heap) /\ m.sn \in Int
         /\ m.big \in Heap \cup {NULL} /\ m.bigcap \in Nat /\ m.blive \in Int
BY DEF Memory

\* What is held by somebody has been given out, and its sets are finite.
LEMMA HeldSets ==
  ASSUME NEW m, NEW W, NEW B, NEW O, Held(m, W, B, O)
  PROVE  /\ m \in Memory
         /\ W \subseteq Heap /\ B \subseteq Heap /\ O \subseteq Slab \cup Heap
         /\ IsFiniteSet(W) /\ IsFiniteSet(B)
         /\ Cardinality(W) \in Nat /\ Cardinality(B) \in Nat
         /\ Pooled(m) \subseteq Heap /\ ToSet(m.free) \subseteq Slab
<1>1. m \in Memory /\ W \subseteq m.heap /\ B \subseteq m.heap /\ Pooled(m) \subseteq m.heap
  BY DEF Held, Sane, Accounted
<1>2. m.heap \subseteq Heap
  BY <1>1, MemFields
<1>3. W \subseteq Heap /\ B \subseteq Heap /\ Pooled(m) \subseteq Heap
  BY <1>1, <1>2, Zenon
<1>4. IsFiniteSet(W) /\ IsFiniteSet(B)
  BY <1>3, HeapFinite
<1>5. ToSet(m.free) \subseteq Slab
  BY <1>1, MemFields DEF ToSet
<1> QED
  BY <1>1, <1>3, <1>4, <1>5, FS_CardinalityType DEF Held, Apart

\* Counting changes the counter only.
LEMMA CountHeld ==
  ASSUME NEW m, NEW W, NEW B, NEW O, NEW a \in Heap, a \notin W \cup B \cup O,
         Held(m, W, B, O \cup {a})
  PROVE  /\ Held([m EXCEPT !.wlive = @ + 1], W \cup {a}, B, O)
         /\ Held([m EXCEPT !.blive = @ + 1], W, B \cup {a}, O)
         /\ [m EXCEPT !.wlive = @ + 1].bigcap = m.bigcap
         /\ [m EXCEPT !.blive = @ + 1].bigcap = m.bigcap
<1> DEFINE n == [m EXCEPT !.wlive = @ + 1]
           q == [m EXCEPT !.blive = @ + 1]
<1>0. m \in Memory /\ IsFiniteSet(W) /\ IsFiniteSet(B)
      /\ m.wlive + 1 \in Int /\ m.blive + 1 \in Int
  BY HeldSets, MemFields
<1>1. n \in Memory
  BY <1>0, ZenonT(40) DEF Memory
<1>2. q \in Memory
  BY <1>0, ZenonT(40) DEF Memory
<1>3. /\ n.heap = m.heap /\ n.used = m.used /\ n.free = m.free
      /\ n.wpool = m.wpool /\ n.wn = m.wn /\ n.wlive = m.wlive + 1
      /\ n.spool = m.spool /\ n.sn = m.sn
      /\ n.big = m.big /\ n.bigcap = m.bigcap /\ n.blive = m.blive
  BY <1>0 DEF Memory
<1>4. /\ q.heap = m.heap /\ q.used = m.used /\ q.free = m.free
      /\ q.wpool = m.wpool /\ q.wn = m.wn /\ q.wlive = m.wlive
      /\ q.spool = m.spool /\ q.sn = m.sn
      /\ q.big = m.big /\ q.bigcap = m.bigcap /\ q.blive = m.blive + 1
  BY <1>0 DEF Memory
<1> HIDE DEF n, q
<1>5. Pooled(n) = Pooled(m) /\ Pooled(q) = Pooled(m)
  BY <1>3, <1>4 DEF Pooled
<1>6. Sane(n) /\ Sane(q)
  BY <1>1, <1>2, <1>3, <1>4 DEF Held, Sane
<1>7. Apart(n, W \cup {a}, B, O) /\ Apart(q, W, B \cup {a}, O)
  BY <1>3, <1>4, <1>5 DEF Held, Apart
<1>8. (O \cup {a}) \cap Slab = O \cap Slab
  BY Addresses
<1>9. Accounted(n, W \cup {a}, B, O) /\ Accounted(q, W, B \cup {a}, O)
  BY <1>3, <1>4, <1>5, <1>8 DEF Held, Accounted
<1>10. /\ Cardinality(W \cup {a}) = Cardinality(W) + 1
       /\ Cardinality(B \cup {a}) = Cardinality(B) + 1
  BY <1>0, FS_AddElement
<1>11. Held(n, W \cup {a}, B, O) /\ Held(q, W, B \cup {a}, O)
  BY <1>3, <1>4, <1>6, <1>7, <1>9, <1>10 DEF Held
<1> QED
  BY <1>3, <1>4, <1>11 DEF n, q

\* malloc fails and changes nothing, or gives out what it had not given out.
LEMMA MallocOutcome ==
  ASSUME NEW m \in Memory, NEW g \in Malloc(m)
  PROVE  /\ g = [ptr |-> g.ptr, mem |-> g.mem]
         /\ \/ g.ptr = NULL /\ g.mem = m
            \/ /\ g.ptr \in Heap /\ g.ptr \notin m.heap
               /\ g.mem = [m EXCEPT !.heap = @ \cup {g.ptr}]
<1> DEFINE left == Heap \ m.heap
           low  == CHOOSE a \in left : \A b \in left : a <= b
<1>1. \/ g = [ptr |-> NULL, mem |-> m]
      \/ left # {} /\ g = [ptr |-> low, mem |-> [m EXCEPT !.heap = @ \cup {low}]]
  BY DEF Malloc
<1>2. ASSUME left # {} PROVE low \in left
  <2>1. \E a \in left : \A b \in left : a <= b
    BY <1>2, LeastNatural, Addresses
  <2> QED
    BY <2>1, Zenon
<1> HIDE DEF low
<1>3. CASE g = [ptr |-> NULL, mem |-> m]
  BY <1>3
<1>4. CASE left # {} /\ g = [ptr |-> low, mem |-> [m EXCEPT !.heap = @ \cup {low}]]
  <2>1. g.ptr = low /\ g.mem = [m EXCEPT !.heap = @ \cup {low}]
    BY <1>4
  <2> QED
    BY <1>2, <1>4, <2>1
<1> QED
  BY <1>1, <1>3, <1>4

\* An allocation that nobody counts.
LEMMA MallocHeld ==
  ASSUME NEW m, NEW W, NEW B, NEW O, Held(m, W, B, O), NEW g \in Malloc(m)
  PROVE  \/ g.ptr = NULL /\ g.mem = m
         \/ /\ g.ptr \in Heap /\ g.ptr \notin W \cup B \cup O
            /\ Held(g.mem, W, B, O \cup {g.ptr})
            /\ g.mem = [m EXCEPT !.heap = @ \cup {g.ptr}]
            /\ g.mem.bigcap = m.bigcap
<1>0. m \in Memory /\ ToSet(m.free) \subseteq Slab
  BY HeldSets
<1>1. CASE g.ptr = NULL /\ g.mem = m
  BY <1>1
<1>2. CASE /\ g.ptr \in Heap /\ g.ptr \notin m.heap
           /\ g.mem = [m EXCEPT !.heap = @ \cup {g.ptr}]
  <2>0. PICK a : a = g.ptr
    OBVIOUS
  <2> DEFINE n == [m EXCEPT !.heap = @ \cup {a}]
  <2>1. n \in Memory
    BY <1>0, <1>2, <2>0 DEF Memory
  <2>2. /\ n.heap = m.heap \cup {a} /\ n.used = m.used /\ n.free = m.free
        /\ n.wpool = m.wpool /\ n.wn = m.wn /\ n.wlive = m.wlive
        /\ n.spool = m.spool /\ n.sn = m.sn
        /\ n.big = m.big /\ n.bigcap = m.bigcap /\ n.blive = m.blive
    BY <1>0 DEF Memory
  <2> HIDE DEF n
  <2>3. Pooled(n) = Pooled(m)
    BY <2>2 DEF Pooled
  <2>4. /\ a \in Heap /\ a \notin W \cup B \cup O /\ a \notin Pooled(m) /\ a \notin Slab
        /\ a \notin ToSet(m.free)
    BY <1>0, <1>2, <2>0, Addresses DEF Held, Accounted
  <2>5. Sane(n)
    BY <2>1, <2>2 DEF Held, Sane
  <2>6. Apart(n, W, B, O \cup {a})
    BY <2>2, <2>3, <2>4 DEF Held, Apart
  <2>7. Accounted(n, W, B, O \cup {a})
    <3>1. (O \cup {a}) \cap Slab = O \cap Slab
      BY <2>4
    <3> QED
      BY <2>2, <2>3, <2>4, <3>1 DEF Held, Accounted
  <2>8. Held(n, W, B, O \cup {a})
    BY <2>2, <2>5, <2>6, <2>7 DEF Held
  <2> QED
    BY <1>2, <2>0, <2>2, <2>4, <2>8 DEF n
<1> QED
  BY <1>0, <1>1, <1>2, MallocOutcome

\* What is freed, and was not counted, is gone.
LEMMA FreeHeld ==
  ASSUME NEW m, NEW W, NEW B, NEW O, Held(m, W, B, O), NEW a \in O, a \in Heap
  PROVE  Held(Free(m, a), W, B, O \ {a}) /\ Free(m, a).bigcap = m.bigcap
<1> DEFINE n == Free(m, a)
<1>0. m \in Memory
  BY HeldSets
<1>1. n \in Memory
  BY <1>0 DEF Memory, Free
<1>2. /\ n.heap = m.heap \ {a} /\ n.used = m.used /\ n.free = m.free
      /\ n.wpool = m.wpool /\ n.wn = m.wn /\ n.wlive = m.wlive
      /\ n.spool = m.spool /\ n.sn = m.sn
      /\ n.big = m.big /\ n.bigcap = m.bigcap /\ n.blive = m.blive
  BY <1>0 DEF Memory, Free
<1> HIDE DEF n
<1>3. Pooled(n) = Pooled(m)
  BY <1>2 DEF Pooled
<1>4. a \notin W \cup B /\ a \notin Pooled(m) /\ a \notin Slab
  BY Addresses DEF Held, Apart
<1>5. Sane(n)
  BY <1>1, <1>2 DEF Held, Sane
<1>6. Apart(n, W, B, O \ {a})
  BY <1>2, <1>3 DEF Held, Apart
<1>7. Accounted(n, W, B, O \ {a})
  <2>1. (O \ {a}) \cap Slab = O \cap Slab
    BY <1>4
  <2> QED
    BY <1>2, <1>3, <1>4, <2>1 DEF Held, Accounted
<1>8. Held(n, W, B, O \ {a})
  BY <1>2, <1>5, <1>6, <1>7 DEF Held
<1> QED
  BY <1>2, <1>8 DEF n

\* A block from the pool or from malloc, counted as live.
LEMMA WbufGetHeld ==
  ASSUME NEW m, NEW W, NEW B, NEW O, Held(m, W, B, O), NEW g \in tls_wbuf_get(m)
  PROVE  \/ g.ptr = NULL /\ g.mem = m
         \/ /\ g.ptr \in Heap /\ g.ptr \notin W \cup B \cup O
            /\ Held(g.mem, W \cup {g.ptr}, B, O) /\ g.mem.bigcap = m.bigcap
<1>0. m \in Memory /\ IsFiniteSet(W)
  BY HeldSets
<1>1. CASE m.wpool # <<>>
  <2> DEFINE a == Head(m.wpool)
             n == [m EXCEPT !.wpool = Tail(@), !.wn = @ - 1, !.wlive = @ + 1]
  <2>1. g.ptr = a /\ g.mem = n
    BY <1>1 DEF tls_wbuf_get
  <2>2. m.wpool \in Seq(Heap) /\ IsInjective(m.wpool) /\ Len(m.wpool) \in Nat
    BY <1>0, MemFields DEF Held, Sane
  <2>3. /\ a \in Heap /\ a \in ToSet(m.wpool)
        /\ Tail(m.wpool) \in Seq(Heap) /\ Len(Tail(m.wpool)) = Len(m.wpool) - 1
        /\ ToSet(Tail(m.wpool)) = ToSet(m.wpool) \ {a} /\ IsInjective(Tail(m.wpool))
    BY <1>1, <2>2, Pop
  <2>4. n \in Memory
    <3>1. m.wn - 1 \in Int /\ m.wlive + 1 \in Int
      BY <1>0, MemFields
    <3> QED
      BY <1>0, <2>3, <3>1, ZenonT(40) DEF Memory
  <2>5. /\ n.heap = m.heap /\ n.used = m.used /\ n.free = m.free
        /\ n.wpool = Tail(m.wpool) /\ n.wn = m.wn - 1 /\ n.wlive = m.wlive + 1
        /\ n.spool = m.spool /\ n.sn = m.sn
        /\ n.big = m.big /\ n.bigcap = m.bigcap /\ n.blive = m.blive
    BY <1>0 DEF Memory
  <2> HIDE DEF n, a
  <2>6. a # m.big /\ a \notin ToSet(m.spool) /\ a \notin W \cup B \cup O /\ a \in Pooled(m)
    BY <2>3 DEF Held, Sane, Apart, Pooled
  <2>7. Pooled(n) = Pooled(m) \ {a}
    BY <2>3, <2>5, <2>6 DEF Pooled
  <2>8. Cardinality(W \cup {a}) = Cardinality(W) + 1
    BY <1>0, <2>6, FS_AddElement
  <2>9. n.wn = Len(n.wpool) /\ n.wn <= TLS_WBUF_POOL_MAX
    BY <1>0, <2>2, <2>3, <2>5, PoolsAssumption DEF Held, Sane
  <2>10. Sane(n)
    BY <2>3, <2>4, <2>5, <2>9 DEF Held, Sane
  <2>11. Apart(n, W \cup {a}, B, O)
    BY <2>5, <2>6, <2>7 DEF Held, Apart
  <2>12. Accounted(n, W \cup {a}, B, O)
    BY <2>5, <2>6, <2>7 DEF Held, Accounted
  <2>13. Held(n, W \cup {a}, B, O)
    BY <2>5, <2>8, <2>10, <2>11, <2>12 DEF Held
  <2> QED
    BY <2>1, <2>3, <2>5, <2>6, <2>13
<1>2. CASE m.wpool = <<>>
  <2>1. PICK h \in Malloc(m) :
          g = [ptr |-> h.ptr, mem |-> IF h.ptr = NULL THEN m ELSE [h.mem EXCEPT !.wlive = @ + 1]]
    BY <1>2 DEF tls_wbuf_get
  <2>2. CASE h.ptr = NULL
    BY <2>1, <2>2
  <2>3. CASE h.ptr # NULL
    <3>1. g.ptr = h.ptr /\ g.mem = [h.mem EXCEPT !.wlive = @ + 1]
      BY <2>1, <2>3
    <3>2. /\ h.ptr \in Heap /\ h.ptr \notin W \cup B \cup O
          /\ Held(h.mem, W, B, O \cup {h.ptr}) /\ h.mem.bigcap = m.bigcap
      BY <2>3, MallocHeld
    <3>3. /\ Held([h.mem EXCEPT !.wlive = @ + 1], W \cup {h.ptr}, B, O)
          /\ [h.mem EXCEPT !.wlive = @ + 1].bigcap = h.mem.bigcap
      BY <3>2, CountHeld
    <3> QED
      BY <3>1, <3>2, <3>3
  <2> QED
    BY <2>2, <2>3
<1> QED
  BY <1>1, <1>2

\* A block given back goes to the pool or, if that is full, to free.
LEMMA WbufPutHeld ==
  ASSUME NEW m, NEW W, NEW B, NEW O, Held(m, W, B, O), NEW a \in W
  PROVE  Held(tls_wbuf_put(m, a), W \ {a}, B, O) /\ tls_wbuf_put(m, a).bigcap = m.bigcap
<1> DEFINE n == tls_wbuf_put(m, a)
<1>0. m \in Memory /\ IsFiniteSet(W) /\ a \in Heap
  BY HeldSets
<1>1. Cardinality(W \ {a}) = Cardinality(W) - 1
  BY <1>0, FS_RemoveElement
<1>2. /\ a \notin B \cup O /\ a \notin Pooled(m) /\ a \notin ToSet(m.wpool)
      /\ a \notin ToSet(m.spool) /\ a # m.big
  BY <1>0, Addresses DEF Held, Apart, Pooled
<1>3. CASE m.wn >= TLS_WBUF_POOL_MAX
  <2>1. n = [Free(m, a) EXCEPT !.wlive = @ - 1]
    BY <1>3 DEF tls_wbuf_put
  <2>2. n \in Memory
    <3> DEFINE q == Free(m, a)
    <3>1. q \in Memory
      BY <1>0, ZenonT(40) DEF Memory, Free
    <3>2. n = [q EXCEPT !.wlive = @ - 1] /\ q.wlive - 1 \in Int
      BY <2>1, <3>1, MemFields
    <3> HIDE DEF q
    <3> QED
      BY <3>1, <3>2, ZenonT(40) DEF Memory
  <2>3. /\ n.heap = m.heap \ {a} /\ n.used = m.used /\ n.free = m.free
        /\ n.wpool = m.wpool /\ n.wn = m.wn /\ n.wlive = m.wlive - 1
        /\ n.spool = m.spool /\ n.sn = m.sn
        /\ n.big = m.big /\ n.bigcap = m.bigcap /\ n.blive = m.blive
    BY <1>0, <2>1 DEF Memory, Free
  <2> HIDE DEF n
  <2>4. Pooled(n) = Pooled(m)
    BY <2>3 DEF Pooled
  <2>5. Sane(n)
    BY <2>2, <2>3 DEF Held, Sane
  <2>6. Apart(n, W \ {a}, B, O)
    BY <2>3, <2>4 DEF Held, Apart
  <2>7. Accounted(n, W \ {a}, B, O)
    BY <1>2, <2>3, <2>4 DEF Held, Accounted
  <2>8. Held(n, W \ {a}, B, O)
    BY <1>1, <2>3, <2>5, <2>6, <2>7 DEF Held
  <2> QED
    BY <2>3, <2>8 DEF n
<1>4. CASE ~(m.wn >= TLS_WBUF_POOL_MAX)
  <2>1. n = [m EXCEPT !.wpool = <<a>> \o @, !.wn = @ + 1, !.wlive = @ - 1]
    BY <1>4 DEF tls_wbuf_put
  <2>2. m.wpool \in Seq(Heap) /\ IsInjective(m.wpool) /\ Len(m.wpool) \in Nat
    BY <1>0, MemFields DEF Held, Sane
  <2>3. /\ <<a>> \o m.wpool \in Seq(Heap) /\ Len(<<a>> \o m.wpool) = Len(m.wpool) + 1
        /\ ToSet(<<a>> \o m.wpool) = ToSet(m.wpool) \cup {a} /\ IsInjective(<<a>> \o m.wpool)
    BY <1>0, <1>2, <2>2, Push
  <2>4. n \in Memory
    <3>1. m.wn + 1 \in Int /\ m.wlive - 1 \in Int
      BY <1>0, MemFields
    <3> QED
      BY <1>0, <2>1, <2>3, <3>1, ZenonT(40) DEF Memory
  <2>5. /\ n.heap = m.heap /\ n.used = m.used /\ n.free = m.free
        /\ n.wpool = <<a>> \o m.wpool /\ n.wn = m.wn + 1 /\ n.wlive = m.wlive - 1
        /\ n.spool = m.spool /\ n.sn = m.sn
        /\ n.big = m.big /\ n.bigcap = m.bigcap /\ n.blive = m.blive
    BY <1>0, <2>1 DEF Memory
  <2> HIDE DEF n
  <2>6. Pooled(n) = Pooled(m) \cup {a}
    BY <2>3, <2>5 DEF Pooled
  <2>7. n.wn = Len(n.wpool) /\ n.wn <= TLS_WBUF_POOL_MAX
    BY <1>0, <1>4, <2>2, <2>3, <2>5, PoolsAssumption DEF Held, Sane
  <2>8. Sane(n)
    BY <1>2, <2>3, <2>4, <2>5, <2>7 DEF Held, Sane
  <2>9. Apart(n, W \ {a}, B, O)
    BY <1>2, <2>5, <2>6 DEF Held, Apart
  <2>10. Accounted(n, W \ {a}, B, O)
    BY <2>5, <2>6 DEF Held, Accounted
  <2>11. Held(n, W \ {a}, B, O)
    BY <1>1, <2>5, <2>8, <2>9, <2>10 DEF Held
  <2> QED
    BY <2>5, <2>11 DEF n
<1> QED
  BY <1>3, <1>4

\* The oversized buffer: the retained one if it is large enough, or a new one.
LEMMA BigGetHeld ==
  ASSUME NEW m, NEW W, NEW B, NEW O, Held(m, W, B, O), NEW need \in Nat,
         NEW g \in tls_bigbuf_get(m, need)
  PROVE  \/ g.ptr = NULL /\ g.mem = m
         \/ /\ g.ptr \in Heap /\ g.ptr \notin W \cup B \cup O
            /\ Held(g.mem, W, B \cup {g.ptr}, O) /\ g.cap \in Nat /\ g.cap >= need
            /\ g.mem.bigcap = m.bigcap \/ g.cap = m.bigcap
<1>0. m \in Memory /\ IsFiniteSet(B)
  BY HeldSets
<1>1. CASE m.big # NULL /\ m.bigcap >= need
  <2> DEFINE a == m.big
             n == [m EXCEPT !.big = NULL, !.bigcap = 0, !.blive = @ + 1]
  <2>1. g.ptr = a /\ g.mem = n /\ g.cap = m.bigcap
    BY <1>1 DEF tls_bigbuf_get
  <2>2. a \in Heap /\ m.bigcap \in Nat
    BY <1>0, <1>1, MemFields
  <2>3. n \in Memory
    <3>1. m.blive + 1 \in Int /\ NULL \in Heap \cup {NULL} /\ 0 \in Nat
      BY <1>0, MemFields
    <3> QED
      BY <1>0, <3>1, ZenonT(40) DEF Memory
  <2>4. /\ n.heap = m.heap /\ n.used = m.used /\ n.free = m.free
        /\ n.wpool = m.wpool /\ n.wn = m.wn /\ n.wlive = m.wlive
        /\ n.spool = m.spool /\ n.sn = m.sn
        /\ n.big = NULL /\ n.bigcap = 0 /\ n.blive = m.blive + 1
    BY <1>0 DEF Memory
  <2> HIDE DEF n
  <2>5. a \notin ToSet(m.wpool) \cup ToSet(m.spool) /\ a \in Pooled(m) /\ a \notin W \cup B \cup O
    BY <1>1 DEF Held, Sane, Apart, Pooled
  <2>6. Pooled(n) = Pooled(m) \ {a}
    BY <2>4, <2>5 DEF Pooled
  <2>7. Cardinality(B \cup {a}) = Cardinality(B) + 1
    BY <1>0, <2>5, FS_AddElement
  <2>8. Sane(n)
    <3>1. NULL \notin ToSet(m.wpool) \cup ToSet(m.spool)
      BY <1>0, HeldSets, Addresses DEF Pooled
    <3> QED
      BY <2>3, <2>4, <3>1, PoolsAssumption DEF Held, Sane
  <2>9. Apart(n, W, B \cup {a}, O)
    BY <2>4, <2>5, <2>6 DEF Held, Apart
  <2>10. Accounted(n, W, B \cup {a}, O)
    BY <2>4, <2>5, <2>6 DEF Held, Accounted
  <2>11. Held(n, W, B \cup {a}, O)
    BY <2>4, <2>7, <2>8, <2>9, <2>10 DEF Held
  <2> QED
    BY <1>1, <2>1, <2>2, <2>5, <2>11
<1>2. CASE ~(m.big # NULL /\ m.bigcap >= need)
  <2>1. PICK h \in Malloc(m) :
          g = [ptr |-> h.ptr, cap |-> need,
               mem |-> IF h.ptr = NULL THEN m ELSE [h.mem EXCEPT !.blive = @ + 1]]
    BY <1>2 DEF tls_bigbuf_get
  <2>2. CASE h.ptr = NULL
    BY <2>1, <2>2
  <2>3. CASE h.ptr # NULL
    <3>1. g.ptr = h.ptr /\ g.mem = [h.mem EXCEPT !.blive = @ + 1] /\ g.cap = need
      BY <2>1, <2>3
    <3>2. /\ h.ptr \in Heap /\ h.ptr \notin W \cup B \cup O
          /\ Held(h.mem, W, B, O \cup {h.ptr}) /\ h.mem.bigcap = m.bigcap
      BY <2>3, MallocHeld
    <3>3. /\ Held([h.mem EXCEPT !.blive = @ + 1], W, B \cup {h.ptr}, O)
          /\ [h.mem EXCEPT !.blive = @ + 1].bigcap = h.mem.bigcap
      BY <3>2, CountHeld
    <3> QED
      BY <3>1, <3>2, <3>3
  <2> QED
    BY <2>2, <2>3
<1> QED
  BY <1>1, <1>2

\* An oversized buffer that picotls displaced, or that is not worth keeping.
LEMMA FreeBigHeld ==
  ASSUME NEW m, NEW W, NEW B, NEW O, Held(m, W, B, O), NEW a \in B, NEW n \in Memory,
         n.heap = m.heap \ {a}, n.used = m.used, n.free = m.free,
         n.wpool = m.wpool, n.wn = m.wn, n.wlive = m.wlive, n.spool = m.spool, n.sn = m.sn,
         n.big = m.big, n.bigcap = m.bigcap, n.blive = m.blive - 1
  PROVE  Held(n, W, B \ {a}, O)
<1>0. IsFiniteSet(B) /\ a \in Heap
  BY HeldSets
<1>1. Cardinality(B \ {a}) = Cardinality(B) - 1
  BY <1>0, FS_RemoveElement
<1>2. a \notin W \cup O /\ a \notin Pooled(m)
  BY DEF Held, Apart
<1>3. Pooled(n) = Pooled(m)
  BY DEF Pooled
<1>4. Sane(n)
  BY DEF Held, Sane
<1>5. Apart(n, W, B \ {a}, O)
  BY <1>3 DEF Held, Apart
<1>6. Accounted(n, W, B \ {a}, O)
  BY <1>2, <1>3 DEF Held, Accounted
<1> QED
  BY <1>1, <1>4, <1>5, <1>6 DEF Held

\* What becomes of the buffer that picotls displaced.
LEMMA DisplacedHeld ==
  ASSUME NEW m, NEW W, NEW B, NEW O, Held(m, W, B, O), NEW a \in B
  PROVE  LET n == [Free(m, a) EXCEPT !.blive = @ - 1]
         IN Held(n, W, B \ {a}, O) /\ n.bigcap = m.bigcap
<1> DEFINE q == Free(m, a)
           n == [q EXCEPT !.blive = @ - 1]
<1>0. m \in Memory
  BY HeldSets
<1>1. q \in Memory
  BY <1>0, ZenonT(40) DEF Memory, Free
<1>2. n \in Memory
  <2>1. q.blive - 1 \in Int
    BY <1>1, MemFields
  <2> HIDE DEF q
  <2> QED
    BY <1>1, <2>1, ZenonT(40) DEF Memory
<1>3. /\ n.heap = m.heap \ {a} /\ n.used = m.used /\ n.free = m.free
      /\ n.wpool = m.wpool /\ n.wn = m.wn /\ n.wlive = m.wlive
      /\ n.spool = m.spool /\ n.sn = m.sn
      /\ n.big = m.big /\ n.bigcap = m.bigcap /\ n.blive = m.blive - 1
  BY <1>0 DEF Memory, Free
<1> HIDE DEF n
<1>4. Held(n, W, B \ {a}, O)
  BY <1>2, <1>3, FreeBigHeld
<1> QED
  BY <1>3, <1>4 DEF n

\* The oversized buffer given back: freed, or retained in place of a smaller one.
LEMMA BigPutHeld ==
  ASSUME NEW m, NEW W, NEW B, NEW O, Held(m, W, B, O), NEW a \in B,
         NEW cap \in Nat, cap > 0
  PROVE  LET n == tls_bigbuf_put(m, a, cap)
         IN /\ Held(n, W, B \ {a}, O) /\ n.bigcap >= m.bigcap
            /\ cap <= TLS_BIGBUF_KEEP_MAX => n.bigcap >= cap
<1> DEFINE n == tls_bigbuf_put(m, a, cap)
           q == [m EXCEPT !.blive = @ - 1]
<1>0. m \in Memory /\ a \in Heap /\ IsFiniteSet(B) /\ m.bigcap \in Nat /\ m.big \in Heap \cup {NULL}
  BY HeldSets, MemFields
<1>1. q \in Memory
  <2>1. m.blive - 1 \in Int
    BY <1>0, MemFields
  <2> QED
    BY <1>0, <2>1, ZenonT(40) DEF Memory
<1>2. /\ q.heap = m.heap /\ q.used = m.used /\ q.free = m.free
      /\ q.wpool = m.wpool /\ q.wn = m.wn /\ q.wlive = m.wlive
      /\ q.spool = m.spool /\ q.sn = m.sn
      /\ q.big = m.big /\ q.bigcap = m.bigcap /\ q.blive = m.blive - 1
  BY <1>0 DEF Memory
<1>3. CASE cap > TLS_BIGBUF_KEEP_MAX \/ (m.big # NULL /\ cap <= m.bigcap)
  <2>1. n = Free(q, a)
    BY <1>2, <1>3 DEF tls_bigbuf_put
  <2> HIDE DEF q, n
  <2>2. n \in Memory
    BY <1>1, <2>1, ZenonT(40) DEF Memory, Free
  <2>3. /\ n.heap = q.heap \ {a} /\ n.used = q.used /\ n.free = q.free
        /\ n.wpool = q.wpool /\ n.wn = q.wn /\ n.wlive = q.wlive
        /\ n.spool = q.spool /\ n.sn = q.sn
        /\ n.big = q.big /\ n.bigcap = q.bigcap /\ n.blive = q.blive
    BY <1>1, <2>1 DEF Memory, Free
  <2>4. Held(n, W, B \ {a}, O)
    BY <1>2, <2>2, <2>3, FreeBigHeld
  <2>5. n.bigcap >= m.bigcap /\ (cap <= TLS_BIGBUF_KEEP_MAX => n.bigcap >= cap)
    BY <1>0, <1>2, <1>3, <2>3, PoolsAssumption
  <2> QED
    BY <2>4, <2>5 DEF n
<1>4. CASE ~(cap > TLS_BIGBUF_KEEP_MAX \/ (m.big # NULL /\ cap <= m.bigcap))
  <2> DEFINE p == IF m.big # NULL THEN Free(q, m.big) ELSE q
  <2>1. n = [p EXCEPT !.big = a, !.bigcap = cap]
    BY <1>2, <1>4 DEF tls_bigbuf_put
  <2> HIDE DEF q, n
  <2>2. p \in Memory
    <3>1. Free(q, m.big) \in Memory
      BY <1>1, ZenonT(40) DEF Memory, Free
    <3> QED
      BY <1>1, <3>1
  <2>3. /\ p.heap = m.heap \ {m.big} /\ p.used = m.used /\ p.free = m.free
        /\ p.wpool = m.wpool /\ p.wn = m.wn /\ p.wlive = m.wlive
        /\ p.spool = m.spool /\ p.sn = m.sn /\ p.blive = m.blive - 1
    <3>1. CASE m.big # NULL
      BY <1>1, <1>2, <3>1 DEF Memory, Free
    <3>2. CASE m.big = NULL
      <4>1. NULL \notin m.heap
        BY <1>0, MemFields, Addresses
      <4> QED
        BY <1>2, <3>2, <4>1
    <3> QED
      BY <3>1, <3>2
  <2> HIDE DEF p
  <2>4. n \in Memory
    BY <1>0, <2>1, <2>2, ZenonT(40) DEF Memory
  <2>5. /\ n.heap = p.heap /\ n.used = p.used /\ n.free = p.free
        /\ n.wpool = p.wpool /\ n.wn = p.wn /\ n.wlive = p.wlive
        /\ n.spool = p.spool /\ n.sn = p.sn
        /\ n.big = a /\ n.bigcap = cap /\ n.blive = p.blive
    BY <2>1, <2>2 DEF Memory
  <2>6. /\ a \notin W \cup O /\ a \notin Pooled(m) /\ a # m.big /\ a # NULL
        /\ a \notin ToSet(m.wpool) /\ a \notin ToSet(m.spool)
    BY <1>0, Addresses DEF Held, Apart, Pooled
  <2>7. /\ Pooled(n) = (Pooled(m) \ {m.big}) \cup {a} /\ m.big \notin W \cup B \cup (O \cap Heap)
    <3>1. m.big \notin ToSet(m.wpool) \cup ToSet(m.spool)
      BY DEF Held, Sane
    <3>2. m.big \notin W \cup B \cup (O \cap Heap)
      <4>1. CASE m.big = NULL
        BY <4>1, HeldSets, Addresses
      <4>2. CASE m.big # NULL
        BY <4>2 DEF Held, Apart, Pooled
      <4> QED
        BY <4>1, <4>2
    <3> QED
      BY <2>3, <2>5, <2>6, <3>1, <3>2 DEF Pooled
  <2>8. Cardinality(B \ {a}) = Cardinality(B) - 1
    BY <1>0, FS_RemoveElement
  <2>9. Sane(n)
    BY <1>4, <2>3, <2>4, <2>5, <2>6, PoolsAssumption DEF Held, Sane
  <2>10. Apart(n, W, B \ {a}, O)
    BY <2>3, <2>5, <2>6, <2>7 DEF Held, Apart
  <2>11. Accounted(n, W, B \ {a}, O)
    BY <2>3, <2>5, <2>7 DEF Held, Accounted
  <2>12. Held(n, W, B \ {a}, O)
    BY <2>3, <2>5, <2>8, <2>9, <2>10, <2>11 DEF Held
  <2>13. n.bigcap >= m.bigcap /\ (cap <= TLS_BIGBUF_KEEP_MAX => n.bigcap >= cap)
    BY <1>0, <1>4, <2>5, PoolsAssumption DEF Held, Sane
  <2> QED
    BY <2>12, <2>13 DEF n
<1> QED
  BY <1>3, <1>4

\* A spill from its pool or from malloc.
LEMMA SpillGetHeld ==
  ASSUME NEW m, NEW W, NEW B, NEW O, Held(m, W, B, O), NEW g \in tls_spill_get(m)
  PROVE  \/ g.ptr = NULL /\ g.mem = m
         \/ /\ g.ptr \in Heap /\ g.ptr \notin W \cup B \cup O
            /\ Held(g.mem, W, B, O \cup {g.ptr}) /\ g.mem.bigcap = m.bigcap
<1>0. m \in Memory
  BY HeldSets
<1>1. CASE m.spool # <<>>
  <2> DEFINE a == Head(m.spool)
             n == [m EXCEPT !.spool = Tail(@), !.sn = @ - 1]
  <2>1. g.ptr = a /\ g.mem = n
    BY <1>1 DEF tls_spill_get
  <2>2. m.spool \in Seq(Heap) /\ IsInjective(m.spool) /\ Len(m.spool) \in Nat
    BY <1>0, MemFields DEF Held, Sane
  <2>3. /\ a \in Heap /\ a \in ToSet(m.spool)
        /\ Tail(m.spool) \in Seq(Heap) /\ Len(Tail(m.spool)) = Len(m.spool) - 1
        /\ ToSet(Tail(m.spool)) = ToSet(m.spool) \ {a} /\ IsInjective(Tail(m.spool))
    BY <1>1, <2>2, Pop
  <2>4. n \in Memory
    <3>1. m.sn - 1 \in Int
      BY <1>0, MemFields
    <3> QED
      BY <1>0, <2>3, <3>1, ZenonT(40) DEF Memory
  <2>5. /\ n.heap = m.heap /\ n.used = m.used /\ n.free = m.free
        /\ n.wpool = m.wpool /\ n.wn = m.wn /\ n.wlive = m.wlive
        /\ n.spool = Tail(m.spool) /\ n.sn = m.sn - 1
        /\ n.big = m.big /\ n.bigcap = m.bigcap /\ n.blive = m.blive
    BY <1>0 DEF Memory
  <2> HIDE DEF n, a
  <2>6. /\ a # m.big /\ a \notin ToSet(m.wpool) /\ a \notin W \cup B \cup O /\ a \in Pooled(m)
        /\ a \notin ToSet(m.free) /\ a \notin Slab
    BY <2>3, HeldSets, Addresses DEF Held, Sane, Apart, Pooled
  <2>7. Pooled(n) = Pooled(m) \ {a}
    BY <2>3, <2>5, <2>6 DEF Pooled
  <2>8. n.sn = Len(n.spool) /\ n.sn <= TLS_SPILL_POOL_MAX
    BY <1>0, <2>2, <2>3, <2>5, PoolsAssumption DEF Held, Sane
  <2>9. Sane(n)
    BY <2>3, <2>4, <2>5, <2>8 DEF Held, Sane
  <2>10. Apart(n, W, B, O \cup {a})
    BY <2>3, <2>5, <2>6, <2>7 DEF Held, Apart
  <2>11. Accounted(n, W, B, O \cup {a})
    <3>1. (O \cup {a}) \cap Slab = O \cap Slab
      BY <2>6
    <3> QED
      BY <2>3, <2>5, <2>6, <2>7, <3>1 DEF Held, Accounted
  <2>12. Held(n, W, B, O \cup {a})
    BY <2>5, <2>9, <2>10, <2>11 DEF Held
  <2> QED
    BY <2>1, <2>3, <2>5, <2>6, <2>12
<1>2. CASE m.spool = <<>>
  <2>1. g \in Malloc(m)
    BY <1>2 DEF tls_spill_get
  <2> QED
    BY <2>1, MallocHeld
<1> QED
  BY <1>1, <1>2

\* A spill given back goes to its pool or, if that is full, to free.
LEMMA SpillPutHeld ==
  ASSUME NEW m, NEW W, NEW B, NEW O, Held(m, W, B, O), NEW a \in O, a \in Heap
  PROVE  Held(tls_spill_put(m, a), W, B, O \ {a}) /\ tls_spill_put(m, a).bigcap = m.bigcap
<1>0. m \in Memory
  BY HeldSets
<1>1. CASE m.sn >= TLS_SPILL_POOL_MAX
  BY <1>1, FreeHeld DEF tls_spill_put
<1>2. CASE ~(m.sn >= TLS_SPILL_POOL_MAX)
  <2> DEFINE n == [m EXCEPT !.spool = <<a>> \o @, !.sn = @ + 1]
  <2>1. tls_spill_put(m, a) = n
    BY <1>2 DEF tls_spill_put
  <2>2. /\ a \notin W \cup B /\ a \notin Pooled(m) /\ a \notin ToSet(m.wpool)
        /\ a \notin ToSet(m.spool) /\ a # m.big /\ a \notin Slab
    BY Addresses DEF Held, Apart, Pooled
  <2>3. m.spool \in Seq(Heap) /\ IsInjective(m.spool) /\ Len(m.spool) \in Nat
    BY <1>0, MemFields DEF Held, Sane
  <2>4. /\ <<a>> \o m.spool \in Seq(Heap) /\ Len(<<a>> \o m.spool) = Len(m.spool) + 1
        /\ ToSet(<<a>> \o m.spool) = ToSet(m.spool) \cup {a} /\ IsInjective(<<a>> \o m.spool)
    BY <2>2, <2>3, Push
  <2>5. n \in Memory
    <3>1. m.sn + 1 \in Int
      BY <1>0, MemFields
    <3> QED
      BY <1>0, <2>4, <3>1, ZenonT(40) DEF Memory
  <2>6. /\ n.heap = m.heap /\ n.used = m.used /\ n.free = m.free
        /\ n.wpool = m.wpool /\ n.wn = m.wn /\ n.wlive = m.wlive
        /\ n.spool = <<a>> \o m.spool /\ n.sn = m.sn + 1
        /\ n.big = m.big /\ n.bigcap = m.bigcap /\ n.blive = m.blive
    BY <1>0 DEF Memory
  <2> HIDE DEF n
  <2>7. Pooled(n) = Pooled(m) \cup {a}
    BY <2>4, <2>6 DEF Pooled
  <2>8. n.sn = Len(n.spool) /\ n.sn <= TLS_SPILL_POOL_MAX
    BY <1>0, <1>2, <2>3, <2>4, <2>6, PoolsAssumption DEF Held, Sane
  <2>9. Sane(n)
    BY <2>2, <2>4, <2>5, <2>6, <2>8 DEF Held, Sane
  <2>10. Apart(n, W, B, O \ {a})
    BY <2>2, <2>6, <2>7 DEF Held, Apart
  <2>11. Accounted(n, W, B, O \ {a})
    <3>1. (O \ {a}) \cap Slab = O \cap Slab
      BY <2>2
    <3> QED
      BY <2>6, <2>7, <3>1 DEF Held, Accounted
  <2>12. Held(n, W, B, O \ {a})
    BY <2>6, <2>9, <2>10, <2>11 DEF Held
  <2> QED
    BY <2>1, <2>6, <2>12
<1> QED
  BY <1>1, <1>2

\* A client_t from the slab's free list, from behind its bump pointer, or from
\* malloc.
LEMMA ClientAllocHeld ==
  ASSUME NEW m, NEW W, NEW B, NEW O, Held(m, W, B, O), NEW g \in client_alloc(m)
  PROVE  \/ g.ptr = NULL /\ g.mem = m
         \/ /\ g.ptr \in Slab \cup Heap /\ g.ptr \notin W \cup B \cup O
            /\ Held(g.mem, W, B, O \cup {g.ptr}) /\ g.mem.bigcap = m.bigcap
<1>0. /\ m \in Memory /\ W \subseteq Heap /\ B \subseteq Heap /\ Pooled(m) \subseteq Heap
      /\ m.used \in 0..POOL_CAP /\ POOL_CAP \in Nat
  BY HeldSets, MemFields, PoolsAssumption
<1>1. CASE m.free # <<>>
  <2> DEFINE a == Head(m.free)
             n == [m EXCEPT !.free = Tail(@)]
  <2>1. g.ptr = a /\ g.mem = n
    BY <1>1 DEF client_alloc
  <2>2. m.free \in Seq(Slab) /\ IsInjective(m.free)
    BY <1>0, MemFields DEF Held, Sane
  <2>3. /\ a \in Slab /\ a \in ToSet(m.free)
        /\ Tail(m.free) \in Seq(Slab)
        /\ ToSet(Tail(m.free)) = ToSet(m.free) \ {a} /\ IsInjective(Tail(m.free))
    BY <1>1, <2>2, Pop
  <2>4. n \in Memory
    BY <1>0, <2>3, ZenonT(40) DEF Memory
  <2>5. /\ n.heap = m.heap /\ n.used = m.used /\ n.free = Tail(m.free)
        /\ n.wpool = m.wpool /\ n.wn = m.wn /\ n.wlive = m.wlive
        /\ n.spool = m.spool /\ n.sn = m.sn
        /\ n.big = m.big /\ n.bigcap = m.bigcap /\ n.blive = m.blive
    BY <1>0 DEF Memory
  <2> HIDE DEF n, a
  <2>6. a \notin Heap /\ a \notin W \cup B \cup O /\ a \notin Pooled(m)
    BY <1>0, <2>3, Addresses DEF Held, Apart
  <2>7. Pooled(n) = Pooled(m)
    BY <2>5 DEF Pooled
  <2>8. Sane(n)
    BY <2>3, <2>4, <2>5 DEF Held, Sane
  <2>9. Apart(n, W, B, O \cup {a})
    BY <2>3, <2>5, <2>6, <2>7 DEF Held, Apart
  <2>10. Accounted(n, W, B, O \cup {a})
    <3>1. (O \cup {a}) \cap Heap = O \cap Heap /\ (O \cup {a}) \cap Slab = (O \cap Slab) \cup {a}
      BY <2>3, <2>6
    <3> QED
      BY <2>3, <2>5, <2>7, <3>1 DEF Held, Accounted
  <2>11. Held(n, W, B, O \cup {a})
    BY <2>5, <2>8, <2>9, <2>10 DEF Held
  <2> QED
    BY <2>1, <2>3, <2>5, <2>6, <2>11
<1>2. CASE m.free = <<>> /\ m.used < POOL_CAP
  <2> DEFINE a == m.used
             n == [m EXCEPT !.used = @ + 1]
  <2>1. g.ptr = a /\ g.mem = n
    BY <1>2 DEF client_alloc
  <2>2. a \in Slab /\ a + 1 \in 0..POOL_CAP
    BY <1>0, <1>2 DEF Slab
  <2>3. n \in Memory
    BY <1>0, <2>2, ZenonT(40) DEF Memory
  <2>4. /\ n.heap = m.heap /\ n.used = a + 1 /\ n.free = m.free
        /\ n.wpool = m.wpool /\ n.wn = m.wn /\ n.wlive = m.wlive
        /\ n.spool = m.spool /\ n.sn = m.sn
        /\ n.big = m.big /\ n.bigcap = m.bigcap /\ n.blive = m.blive
    BY <1>0 DEF Memory
  <2>5. a \notin 0..(m.used - 1) /\ 0..((a + 1) - 1) = 0..(m.used - 1) \cup {a}
    BY <1>0
  <2> HIDE DEF n, a
  <2>6. a \notin Heap /\ a \notin W \cup B \cup O /\ a \notin Pooled(m) /\ a \notin ToSet(m.free)
    BY <1>0, <2>2, <2>5, Addresses DEF Held, Accounted
  <2>7. Pooled(n) = Pooled(m)
    BY <2>4 DEF Pooled
  <2>8. Sane(n)
    BY <2>3, <2>4 DEF Held, Sane
  <2>9. Apart(n, W, B, O \cup {a})
    BY <2>2, <2>4, <2>6, <2>7 DEF Held, Apart
  <2>10. Accounted(n, W, B, O \cup {a})
    <3>1. (O \cup {a}) \cap Heap = O \cap Heap /\ (O \cup {a}) \cap Slab = (O \cap Slab) \cup {a}
      BY <2>2, <2>6
    <3>2. 0..(n.used - 1) = 0..(m.used - 1) \cup {a}
      BY <2>4, <2>5
    <3> QED
      BY <2>4, <2>7, <3>1, <3>2 DEF Held, Accounted
  <2>11. Held(n, W, B, O \cup {a})
    BY <2>4, <2>8, <2>9, <2>10 DEF Held
  <2> QED
    BY <2>1, <2>2, <2>4, <2>6, <2>11
<1>3. CASE m.free = <<>> /\ ~(m.used < POOL_CAP)
  <2>1. g \in Malloc(m)
    BY <1>3 DEF client_alloc
  <2> QED
    BY <2>1, MallocHeld
<1> QED
  BY <1>1, <1>2, <1>3

\* A client_t given back goes where its address says it is from.
LEMMA ClientFreeHeld ==
  ASSUME NEW m, NEW W, NEW B, NEW O, Held(m, W, B, O), NEW a \in O
  PROVE  Held(client_free(m, a), W, B, O \ {a}) /\ client_free(m, a).bigcap = m.bigcap
<1>0. m \in Memory /\ a \in Slab \cup Heap /\ a >= 0 /\ (a \in Slab <=> a < POOL_CAP)
  BY HeldSets, Addresses
<1>1. CASE a \in Heap
  <2>1. a \notin Slab
    BY <1>1, Addresses
  <2>2. client_free(m, a) = Free(m, a)
    BY <1>0, <2>1 DEF client_free
  <2> QED
    BY <1>1, <2>2, FreeHeld
<1>2. CASE a \in Slab
  <2> DEFINE n == [m EXCEPT !.free = <<a>> \o @]
  <2>1. client_free(m, a) = n
    BY <1>0, <1>2 DEF client_free
  <2>2. a \notin ToSet(m.free) /\ a \notin Heap
    BY <1>2, Addresses DEF Held, Apart
  <2>3. m.free \in Seq(Slab) /\ IsInjective(m.free)
    BY <1>0, MemFields DEF Held, Sane
  <2>4. /\ <<a>> \o m.free \in Seq(Slab)
        /\ ToSet(<<a>> \o m.free) = ToSet(m.free) \cup {a} /\ IsInjective(<<a>> \o m.free)
    BY <1>2, <2>2, <2>3, Push
  <2>5. n \in Memory
    BY <1>0, <2>4, ZenonT(40) DEF Memory
  <2>6. /\ n.heap = m.heap /\ n.used = m.used /\ n.free = <<a>> \o m.free
        /\ n.wpool = m.wpool /\ n.wn = m.wn /\ n.wlive = m.wlive
        /\ n.spool = m.spool /\ n.sn = m.sn
        /\ n.big = m.big /\ n.bigcap = m.bigcap /\ n.blive = m.blive
    BY <1>0 DEF Memory
  <2> HIDE DEF n
  <2>7. Pooled(n) = Pooled(m)
    BY <2>6 DEF Pooled
  <2>8. Sane(n)
    BY <2>4, <2>5, <2>6 DEF Held, Sane
  <2>9. Apart(n, W, B, O \ {a})
    BY <2>4, <2>6, <2>7 DEF Held, Apart
  <2>10. Accounted(n, W, B, O \ {a})
    <3>1. (O \ {a}) \cap Heap = O \cap Heap /\ (O \ {a}) \cap Slab = (O \cap Slab) \ {a}
      BY <2>2
    <3> QED
      BY <1>2, <2>4, <2>6, <2>7, <3>1 DEF Held, Accounted
  <2>11. Held(n, W, B, O \ {a})
    BY <2>6, <2>8, <2>9, <2>10 DEF Held
  <2> QED
    BY <2>1, <2>6, <2>11
<1> QED
  BY <1>0, <1>1, <1>2

-----------------------------------------------------------------------------
(* tls_release_wbuf *)

\* The walk is what its definition says: the recursion is well founded.
LEMMA WalkDef ==
  ASSUME NEW m, NEW c, Len(c.chain) \in Nat
  PROVE  /\ Walk(m, c)[0] = m
         /\ \A i \in 1..Len(c.chain) :
              Walk(m, c)[i] = ReleaseSegment(Walk(m, c)[i - 1], c.chain[i], c.wbig)
<1> DEFINE n == Len(c.chain)
           R(x, i) == ReleaseSegment(x, c.chain[i], c.wbig)
           Is(w, k) == w = [i \in 0..k |-> IF i = 0 THEN m ELSE R(w[i - 1], i)]
           T == {k \in 0..n : ~\E w : Is(w, k)}
<1>1. Walk(m, c) = CHOOSE w : Is(w, n)
  BY DEF Walk
<1> HIDE DEF R
<1>2. \E w : Is(w, n)
  <2> SUFFICES ASSUME ~\E w : Is(w, n)
               PROVE  FALSE
    OBVIOUS
  <2>1. T # {} /\ T \subseteq Nat
    OBVIOUS
  <2>2. PICK k \in T : \A l \in T : k <= l
    BY <2>1, LeastNatural
  <2>3. k \in 0..n /\ ~\E w : Is(w, k)
    BY <2>2, Zenon
  <2>4. CASE k = 0
    <3>1. Is([i \in 0..0 |-> m], 0)
      OBVIOUS
    <3> QED
      BY <2>3, <2>4, <3>1, Zenon
  <2>5. CASE k # 0
    <3>1. k - 1 \in 0..n /\ k - 1 \in Nat /\ ~(k <= k - 1)
      BY <2>3, <2>5
    <3>2. \E w : Is(w, k - 1)
      BY <2>2, <3>1, Zenon
    <3>3. PICK w : Is(w, k - 1)
      BY <3>2, Zenon
    <3> DEFINE v == [i \in 0..k |-> IF i = k THEN R(w[k - 1], k) ELSE w[i]]
    <3>4. \A i \in 0..(k - 1) : w[i] = IF i = 0 THEN m ELSE R(w[i - 1], i)
      <4> DEFINE u == [i \in 0..(k - 1) |-> IF i = 0 THEN m ELSE R(w[i - 1], i)]
      <4>1. w = u
        BY <3>3, Zenon
      <4>2. \A i \in 0..(k - 1) : u[i] = IF i = 0 THEN m ELSE R(w[i - 1], i)
        OBVIOUS
      <4> HIDE DEF u
      <4> QED
        BY <4>1, <4>2, Zenon
    <3>5. \A i \in 0..k : v[i] = IF i = k THEN R(w[k - 1], k) ELSE w[i]
      OBVIOUS
    <3>6. ASSUME NEW i \in 0..k PROVE v[i] = IF i = 0 THEN m ELSE R(v[i - 1], i)
      <4>1. CASE i = k
        <5>1. v[k - 1] = w[k - 1] /\ v[k] = R(w[k - 1], k)
          BY <3>1, <3>5
        <5> HIDE DEF v
        <5> QED
          BY <2>5, <4>1, <5>1
      <4>2. CASE i # k /\ i = 0
        BY <3>1, <3>4, <3>5, <4>2
      <4>3. CASE i # k /\ i # 0
        <5>1. i \in 0..(k - 1) /\ i - 1 \in 0..k /\ i - 1 # k
          BY <3>1, <4>3
        <5>2. v[i] = w[i] /\ v[i - 1] = w[i - 1] /\ w[i] = R(w[i - 1], i)
          BY <3>4, <3>5, <4>3, <5>1
        <5> HIDE DEF v
        <5> QED
          BY <4>3, <5>2
      <4> QED
        BY <4>1, <4>2, <4>3
    <3>7. Is(v, k)
      <4>1. v = [i \in 0..k |-> v[i]]
        OBVIOUS
      <4> HIDE DEF v
      <4> QED
        BY <3>6, <4>1
    <3> QED
      BY <2>3, <3>7, Zenon
  <2> QED
    BY <2>4, <2>5
<1>3. Is(Walk(m, c), n)
  BY <1>1, <1>2, Zenon
<1>4. PICK w : w = Walk(m, c)
  OBVIOUS
<1>5. \A i \in 0..n : w[i] = IF i = 0 THEN m ELSE R(w[i - 1], i)
  <2> DEFINE u == [i \in 0..n |-> IF i = 0 THEN m ELSE R(w[i - 1], i)]
  <2>1. w = u
    BY <1>3, <1>4, Zenon
  <2>2. \A i \in 0..n : u[i] = IF i = 0 THEN m ELSE R(w[i - 1], i)
    OBVIOUS
  <2> HIDE DEF u
  <2> QED
    BY <2>1, <2>2, Zenon
<1>6. 0 \in 0..n /\ \A i \in 1..n : i \in 0..n /\ i # 0
  OBVIOUS
<1> QED
  BY <1>4, <1>5, <1>6 DEF R

\* The types of a connection's fields.
LEMMA ConnFields ==
  ASSUME NEW c \in Connection
  PROVE  /\ c.client \in Slab \cup Heap \cup {NULL} /\ c.chain \in Seq(Segment)
         /\ c.wbig \in Heap \cup {NULL} /\ c.spill \in Heap \cup {NULL}
         /\ Len(c.chain) \in Nat /\ DOMAIN c.chain = 1..Len(c.chain)
         /\ \A i \in 1..Len(c.chain) :
              /\ c.chain[i] \in Segment /\ c.chain[i].block \in Heap /\ c.chain[i].base \in Heap
              /\ c.chain[i].cap \in Nat /\ c.chain[i].off \in Nat
              /\ c.chain[i].data \in Seq(Nat \X Nat \X Nat)
<1>1. c.chain \in Seq(Segment)
  BY DEF Connection
<1>2. \A i \in 1..Len(c.chain) : c.chain[i] \in Segment
  BY <1>1
<1>3. \A s \in Segment : /\ s.block \in Heap /\ s.base \in Heap /\ s.cap \in Nat /\ s.off \in Nat
                         /\ s.data \in Seq(Nat \X Nat \X Nat)
  BY DEF Segment
<1> QED
  BY <1>1, <1>2, <1>3 DEF Connection

\* A chain without an oversized buffer, released segment by segment.
LEMMA ChainReleased ==
  ASSUME NEW m, NEW W, NEW B, NEW O, Held(m, W, B, O), NEW c \in Connection, Tidy(c),
         c.wbig = NULL, Blocks(c) \subseteq W, Swaps(c) \subseteq O
  PROVE  LET n == Walk(m, c)[Len(c.chain)]
         IN Held(n, W \ Blocks(c), B, O \ Swaps(c)) /\ n.bigcap = m.bigcap
<1> DEFINE len == Len(c.chain)
           w == Walk(m, c)
           BL(i) == {c.chain[j].block : j \in 1..i}
           SW(i) == {c.chain[j].base : j \in {x \in 1..i : Swapped(c, x)}}
           Good(i) == Held(w[i], W \ BL(i), B, O \ SW(i)) /\ w[i].bigcap = m.bigcap
           T == {i \in 0..len : ~Good(i)}
<1>0. /\ len \in Nat /\ DOMAIN c.chain = 1..len
      /\ \A i \in 1..len : c.chain[i].block \in Heap /\ c.chain[i].base \in Heap
  BY ConnFields
<1>1. w[0] = m /\ \A i \in 1..len : w[i] = ReleaseSegment(w[i - 1], c.chain[i], NULL)
  BY <1>0, WalkDef
<1>2. Good(0)
  <2>1. BL(0) = {} /\ SW(0) = {}
    OBVIOUS
  <2>2. W \ BL(0) = W /\ O \ SW(0) = O
    BY <2>1
  <2> QED
    BY <1>1, <2>2
<1> HIDE DEF w
<1>3. ASSUME NEW i \in 1..len, Good(i - 1) PROVE Good(i)
  <2>0. PICK a, b, x : a = c.chain[i].block /\ b = c.chain[i].base /\ x = w[i - 1]
    OBVIOUS
  <2>1. BL(i) = BL(i - 1) \cup {a} /\ a \notin BL(i - 1) /\ a \in W
    <3>1. \A j \in 1..i : j = i \/ j \in 1..(i - 1)
      BY <1>0
    <3>2. \A j \in 1..(i - 1) : j \in 1..len /\ j \in 1..i /\ j # i
      BY <1>0
    <3>3. i \in 1..i
      BY <1>0
    <3>4. \A j \in 1..(i - 1) : c.chain[j].block # a
      BY <1>0, <2>0, <3>2 DEF Tidy
    <3>5. a \in Blocks(c)
      BY <1>0, <2>0 DEF Blocks
    <3>6. a \notin BL(i - 1)
      BY <3>4
    <3>7. BL(i) = BL(i - 1) \cup {a}
      BY <2>0, <3>1, <3>2, <3>3
    <3> QED
      BY <3>5, <3>6, <3>7
  <2>00. PICK P, Q : P = W \ BL(i - 1) /\ Q = O \ SW(i - 1)
    OBVIOUS
  <2>2. /\ Held(x, P, B, Q) /\ x.bigcap = m.bigcap
        /\ w[i] = ReleaseSegment(x, c.chain[i], NULL)
    BY <1>1, <1>3, <2>0, <2>00
  <2>3. P \ {a} = W \ BL(i) /\ a \in P
    BY <2>00, <2>1
  <2>4. CASE b = a
    <3>1. SW(i) = SW(i - 1)
      <4>1. ~Swapped(c, i)
        BY <2>0, <2>4 DEF Swapped
      <4>2. \A j \in 1..i : Swapped(c, j) => j \in 1..(i - 1)
        BY <1>0, <4>1
      <4>3. \A j \in 1..(i - 1) : j \in 1..i
        BY <1>0
      <4> QED
        BY <4>2, <4>3
    <3>2. w[i] = tls_wbuf_put(x, a)
      BY <2>0, <2>2, <2>4 DEF ReleaseSegment
    <3>3. Held(tls_wbuf_put(x, a), P \ {a}, B, Q) /\ tls_wbuf_put(x, a).bigcap = x.bigcap
      BY <2>2, <2>3, WbufPutHeld
    <3>4. Q = O \ SW(i)
      BY <2>00, <3>1
    <3> HIDE DEF BL, SW
    <3> QED
      BY <2>2, <2>3, <3>2, <3>3, <3>4
  <2>5. CASE b # a
    <3>1. Swapped(c, i) /\ b \in Heap
      BY <1>0, <2>0, <2>5, Addresses DEF Swapped
    <3>2. SW(i) = SW(i - 1) \cup {b} /\ b \notin SW(i - 1) /\ b \in O
      <4>1. \A j \in 1..i : j = i \/ j \in 1..(i - 1)
        BY <1>0
      <4>2. \A j \in 1..(i - 1) : j \in 1..len /\ j \in 1..i /\ j # i
        BY <1>0
      <4>3. i \in 1..i
        BY <1>0
      <4>4. \A j \in 1..(i - 1) : Swapped(c, j) => c.chain[j].base # b
        BY <1>0, <2>0, <3>1, <4>2 DEF Tidy
      <4>5. b \in Swaps(c)
        BY <1>0, <2>0, <3>1 DEF Swaps
      <4>6. b \notin SW(i - 1)
        BY <4>4
      <4>7. SW(i) = SW(i - 1) \cup {b}
        BY <2>0, <3>1, <4>1, <4>2, <4>3
      <4> QED
        BY <4>5, <4>6, <4>7
    <3>3. w[i] = tls_wbuf_put(Free(x, b), a)
      BY <2>0, <2>2, <2>5 DEF ReleaseSegment
    <3>4. Q \ {b} = O \ SW(i) /\ b \in Q
      BY <2>00, <3>2
    <3>5. Held(Free(x, b), P, B, Q \ {b}) /\ Free(x, b).bigcap = x.bigcap
      BY <2>2, <3>1, <3>4, FreeHeld
    <3>6. PICK y : y = Free(x, b)
      OBVIOUS
    <3>7. Held(tls_wbuf_put(y, a), P \ {a}, B, Q \ {b}) /\ tls_wbuf_put(y, a).bigcap = y.bigcap
      BY <2>3, <3>5, <3>6, WbufPutHeld
    <3> HIDE DEF BL, SW
    <3> QED
      BY <2>2, <2>3, <3>3, <3>4, <3>5, <3>6, <3>7
  <2> QED
    BY <2>4, <2>5
<1>4. Good(len)
  <2> HIDE DEF Good
  <2> SUFFICES ASSUME ~Good(len)
               PROVE  FALSE
    OBVIOUS
  <2>1. T # {} /\ T \subseteq Nat
    BY <1>0
  <2>2. PICK i \in T : \A j \in T : i <= j
    BY <2>1, LeastNatural
  <2>3. i \in 0..len /\ ~Good(i)
    BY <2>2
  <2>4. i # 0
    BY <1>2, <2>3
  <2>5. i \in 1..len /\ i - 1 \in 0..len /\ ~(i <= i - 1)
    BY <1>0, <2>3, <2>4
  <2>6. Good(i - 1)
    BY <2>2, <2>5
  <2> QED
    BY <1>3, <2>3, <2>5, <2>6
<1>5. BL(len) = Blocks(c) /\ SW(len) = Swaps(c)
  BY <1>0 DEF Blocks, Swaps
<1> QED
  BY <1>4, <1>5 DEF w

\* Everything that a chain holds goes back, and to where it came from; the
\* oversized buffer makes the retained slot at least as large as itself.
LEMMA ReleaseHeld ==
  ASSUME NEW m, NEW W, NEW B, NEW O, Held(m, W, B, O), NEW c \in Connection, Tidy(c), Stage(c),
         Blocks(c) \subseteq W, Bigs(c) \subseteq B, Swaps(c) \subseteq O
  PROVE  LET n == tls_release_wbuf(m, c)
         IN /\ Held(n, W \ Blocks(c), B \ Bigs(c), O \ Swaps(c))
            /\ n.bigcap >= m.bigcap
            /\ (c.wbig = NULL \/ c.chain[1].base # c.wbig) => n.bigcap = m.bigcap
            /\ (/\ c.wbig # NULL /\ c.chain[1].base = c.wbig
                /\ c.chain[1].cap <= TLS_BIGBUF_KEEP_MAX) => n.bigcap >= c.chain[1].cap
<1> DEFINE n == tls_release_wbuf(m, c)
<1>0. /\ Len(c.chain) \in Nat /\ DOMAIN c.chain = 1..Len(c.chain) /\ c.wbig \in Heap \cup {NULL}
      /\ \A i \in 1..Len(c.chain) : c.chain[i].block \in Heap /\ c.chain[i].base \in Heap
                                    /\ c.chain[i].cap \in Nat
      /\ m.bigcap \in Nat
  BY ConnFields, HeldSets, MemFields
<1>1. CASE c.wbig = NULL
  <2>1. n = Walk(m, c)[Len(c.chain)]
    BY <1>1 DEF tls_release_wbuf
  <2>2. B \ Bigs(c) = B
    BY <1>1 DEF Bigs
  <2> HIDE DEF n
  <2>3. Held(n, W \ Blocks(c), B, O \ Swaps(c)) /\ n.bigcap = m.bigcap
    BY <1>1, <2>1, ChainReleased, SMTT(60)
  <2>4. Held(n, W \ Blocks(c), B \ Bigs(c), O \ Swaps(c))
    BY <2>2, <2>3
  <2>5. n.bigcap >= m.bigcap /\ n.bigcap = m.bigcap
    BY <1>0, <2>3
  <2> QED
    BY <1>1, <2>4, <2>5 DEF n
<1>2. CASE c.wbig # NULL
  <2>0. PICK s, big : s = c.chain[1] /\ big = c.wbig
    OBVIOUS
  <2>1. /\ Len(c.chain) = 1 /\ DOMAIN c.chain = {1} /\ s.base # s.block /\ s.cap \in Nat /\ s.cap > 0
        /\ s.block \in Heap /\ s.base \in Heap /\ big \in Heap
    BY <1>0, <1>2, <2>0 DEF Stage
  <2>2. Walk(m, c)[1] = ReleaseSegment(m, s, big)
    <3>1. 1 \in 1..Len(c.chain) /\ 1 - 1 = 0
      BY <2>1
    <3> QED
      BY <1>0, <2>0, <3>1, WalkDef
  <2>3. Blocks(c) = {s.block} /\ Bigs(c) = {big} /\ s.block \in W /\ big \in B
    BY <1>2, <2>0, <2>1 DEF Blocks, Bigs
  <2>4. CASE s.base = big
    <3>1. Swaps(c) = {} /\ O \ Swaps(c) = O
      BY <2>0, <2>1, <2>4 DEF Swaps, Swapped
    <3> DEFINE x == tls_bigbuf_put(m, big, s.cap)
    <3>2. n = tls_wbuf_put(x, s.block)
      <4>1. \E i \in DOMAIN c.chain : c.chain[i].base = c.wbig
        BY <2>0, <2>1, <2>4
      <4>2. n = Walk(m, c)[1]
        BY <2>1, <4>1 DEF tls_release_wbuf
      <4>3. Walk(m, c)[1] = tls_wbuf_put(x, s.block)
        BY <1>2, <2>0, <2>1, <2>2, <2>4 DEF ReleaseSegment
      <4> QED
        BY <4>2, <4>3
    <3>3. /\ Held(x, W, B \ {big}, O) /\ x.bigcap >= m.bigcap
          /\ s.cap <= TLS_BIGBUF_KEEP_MAX => x.bigcap >= s.cap
      BY <2>1, <2>3, BigPutHeld
    <3> HIDE DEF x, n
    <3>4. Held(n, W \ {s.block}, B \ {big}, O) /\ n.bigcap = x.bigcap
      BY <2>3, <3>2, <3>3, WbufPutHeld
    <3>5. Held(n, W \ Blocks(c), B \ Bigs(c), O \ Swaps(c))
      BY <2>3, <3>1, <3>4
    <3>6. n.bigcap >= m.bigcap /\ (s.cap <= TLS_BIGBUF_KEEP_MAX => n.bigcap >= s.cap)
      BY <3>3, <3>4
    <3> QED
      BY <1>2, <2>0, <2>4, <3>5, <3>6 DEF n
  <2>5. CASE s.base # big
    <3>1. Swaps(c) = {s.base} /\ s.base \in O
      BY <2>0, <2>1, <2>5 DEF Swaps, Swapped
    <3> DEFINE x == Free(m, s.base)
               y == tls_wbuf_put(x, s.block)
    <3>2. n = [Free(y, big) EXCEPT !.blive = @ - 1]
      <4>1. ~\E i \in DOMAIN c.chain : c.chain[i].base = c.wbig
        BY <2>0, <2>1, <2>5
      <4>2. Walk(m, c)[1] = y
        BY <1>2, <2>0, <2>1, <2>2, <2>5 DEF ReleaseSegment
      <4> HIDE DEF y
      <4> QED
        BY <1>2, <2>0, <2>1, <4>1, <4>2 DEF tls_release_wbuf
    <3>3. Held(x, W, B, O \ {s.base}) /\ x.bigcap = m.bigcap
      BY <2>1, <3>1, FreeHeld
    <3> HIDE DEF x
    <3>4. Held(y, W \ {s.block}, B, O \ {s.base}) /\ y.bigcap = m.bigcap
      BY <2>3, <3>3, WbufPutHeld
    <3> HIDE DEF y, n
    <3>5. Held(n, W \ {s.block}, B \ {big}, O \ {s.base}) /\ n.bigcap = m.bigcap
      BY <2>3, <3>2, <3>4, DisplacedHeld
    <3> QED
      BY <1>0, <1>2, <2>0, <2>3, <2>5, <3>1, <3>5 DEF n
  <2> QED
    BY <2>4, <2>5
<1> QED
  BY <1>1, <1>2

-----------------------------------------------------------------------------
(* What one connection holds, the others being left alone *)

\* Two connections that hold the same.
Alike(c, d) ==
  /\ d.client = c.client /\ d.wbig = c.wbig /\ d.spill = c.spill /\ Len(d.chain) = Len(c.chain)
  /\ \A i \in 1..Len(c.chain) :
       d.chain[i].block = c.chain[i].block /\ d.chain[i].base = c.chain[i].base

\* m is right for a connection c, when the others hold W, B and O.
Owns(m, W, B, O, c) ==
  /\ c \in Connection /\ Tidy(c)
  /\ Held(m, W \cup Blocks(c), B \cup Bigs(c), O \cup Others(c))
  /\ W \cap Blocks(c) = {} /\ B \cap Bigs(c) = {} /\ O \cap Others(c) = {}

\* Only where the pointers lead matters.
LEMMA OwnsAlike ==
  ASSUME NEW m, NEW W, NEW B, NEW O, NEW c, Owns(m, W, B, O, c), NEW d \in Connection, Alike(c, d)
  PROVE  Owns(m, W, B, O, d)
<1>1. c \in Connection /\ Tidy(c)
  BY DEF Owns
<1>2. /\ Len(c.chain) \in Nat /\ DOMAIN c.chain = 1..Len(c.chain)
      /\ DOMAIN d.chain = 1..Len(c.chain)
  BY <1>1, ConnFields DEF Alike
<1>3. Blocks(d) = Blocks(c) /\ Bigs(d) = Bigs(c)
  BY <1>2 DEF Alike, Blocks, Bigs
<1>4. \A i \in 1..Len(c.chain) : Swapped(d, i) <=> Swapped(c, i)
  BY DEF Alike, Swapped
<1>5. Swaps(d) = Swaps(c)
  BY <1>2, <1>4 DEF Alike, Swaps
<1>6. Others(d) = Others(c)
  BY <1>5 DEF Alike, Others
<1>7. Tidy(d)
  BY <1>1, <1>2, <1>4, <1>5 DEF Alike, Tidy
<1> QED
  BY <1>3, <1>6, <1>7 DEF Owns

\* The chain and the oversized buffer go back.
LEMMA OwnsRelease ==
  ASSUME NEW m, NEW W, NEW B, NEW O, NEW c, Owns(m, W, B, O, c), Stage(c),
         NEW d \in Connection, d.client = c.client, d.spill = c.spill,
         d.chain = <<>>, d.wbig = NULL
  PROVE  Owns(tls_release_wbuf(m, c), W, B, O, d)
<1> DEFINE n == tls_release_wbuf(m, c)
<1>1. PICK P, Q, R : P = W \cup Blocks(c) /\ Q = B \cup Bigs(c) /\ R = O \cup Others(c)
  OBVIOUS
<1>2. /\ c \in Connection /\ Tidy(c) /\ Held(m, P, Q, R)
      /\ W \cap Blocks(c) = {} /\ B \cap Bigs(c) = {} /\ O \cap Others(c) = {}
  BY <1>1 DEF Owns
<1>3. Blocks(c) \subseteq P /\ Bigs(c) \subseteq Q /\ Swaps(c) \subseteq R
  BY <1>1 DEF Others
<1>4. Held(n, P \ Blocks(c), Q \ Bigs(c), R \ Swaps(c))
  BY <1>2, <1>3, ReleaseHeld
<1> HIDE DEF n
<1>5. Blocks(d) = {} /\ Bigs(d) = {} /\ Swaps(d) = {}
  BY DEF Blocks, Bigs, Swaps
<1>6. Others(d) = {c.spill, c.client} \ {NULL} /\ Others(d) \subseteq Others(c)
  BY <1>5 DEF Others
<1>7. Swaps(c) \cap Others(d) = {}
  BY <1>2, <1>6 DEF Tidy
<1>8. P \ Blocks(c) = W \cup Blocks(d) /\ Q \ Bigs(c) = B \cup Bigs(d)
  BY <1>1, <1>2, <1>5
<1>9. R \ Swaps(c) = O \cup Others(d)
  BY <1>1, <1>2, <1>6, <1>7 DEF Others
<1>10. Tidy(d)
  BY <1>2, <1>5 DEF Tidy
<1>11. W \cap Blocks(d) = {} /\ B \cap Bigs(d) = {} /\ O \cap Others(d) = {}
  BY <1>2, <1>5, <1>6
<1> QED
  BY <1>4, <1>8, <1>9, <1>10, <1>11 DEF Owns, n

\* The spill goes back.
LEMMA OwnsSpillRelease ==
  ASSUME NEW m, NEW W, NEW B, NEW O, NEW c, Owns(m, W, B, O, c),
         NEW d \in Connection, d.client = c.client, d.spill = NULL,
         d.chain = c.chain, d.wbig = c.wbig
  PROVE  /\ Owns(tls_release_spill(m, c), W, B, O, d)
         /\ tls_release_spill(m, c).bigcap = m.bigcap
<1>1. PICK P, Q, R : P = W \cup Blocks(c) /\ Q = B \cup Bigs(c) /\ R = O \cup Others(c)
  OBVIOUS
<1>2. /\ c \in Connection /\ Tidy(c) /\ Held(m, P, Q, R)
      /\ W \cap Blocks(c) = {} /\ B \cap Bigs(c) = {} /\ O \cap Others(c) = {}
  BY <1>1 DEF Owns
<1>3. Blocks(d) = Blocks(c) /\ Bigs(d) = Bigs(c) /\ Swaps(d) = Swaps(c)
  BY DEF Blocks, Bigs, Swaps, Swapped
<1>4. Others(d) = Others(c) \ ({c.spill} \ {NULL})
  BY <1>2, <1>3 DEF Others, Tidy
<1>5. Tidy(d)
  <2>1. \A i : Swapped(d, i) <=> Swapped(c, i)
    BY DEF Swapped
  <2>2. NULL \notin Swaps(c)
    BY <1>2, ConnFields, Addresses DEF Swaps
  <2> QED
    BY <1>2, <1>3, <2>1, <2>2 DEF Tidy
<1>6. W \cap Blocks(d) = {} /\ B \cap Bigs(d) = {} /\ O \cap Others(d) = {}
  BY <1>2, <1>3, <1>4
<1>7. CASE c.spill = NULL
  <2>1. Others(d) = Others(c) /\ tls_release_spill(m, c) = m
    BY <1>4, <1>7 DEF tls_release_spill
  <2> QED
    BY <1>1, <1>2, <1>3, <1>5, <1>6, <2>1 DEF Owns
<1>8. CASE c.spill # NULL
  <2>1. c.spill \in R /\ c.spill \in Heap /\ tls_release_spill(m, c) = tls_spill_put(m, c.spill)
    BY <1>1, <1>2, <1>8, ConnFields DEF tls_release_spill, Others
  <2>2. PICK a : a = c.spill
    OBVIOUS
  <2>3. Held(tls_spill_put(m, a), P, Q, R \ {a}) /\ tls_spill_put(m, a).bigcap = m.bigcap
    BY <1>2, <2>1, <2>2, SpillPutHeld
  <2>4. R \ {a} = O \cup Others(d)
    BY <1>1, <1>2, <1>4, <1>8, <2>2 DEF Others
  <2> QED
    BY <1>1, <1>3, <1>5, <1>6, <2>1, <2>2, <2>3, <2>4 DEF Owns
<1> QED
  BY <1>7, <1>8

\* on_close: everything goes back.
LEMMA OwnsClose ==
  ASSUME NEW m, NEW W, NEW B, NEW O, NEW c, Owns(m, W, B, O, c), Stage(c), c.client # NULL
  PROVE  LET n == client_free(tls_conn_free(m, c), c.client)
         IN /\ Owns(n, W, B, O, NoConn)
            /\ n.bigcap >= m.bigcap
            /\ (c.wbig = NULL \/ c.chain[1].base # c.wbig) => n.bigcap = m.bigcap
            /\ (/\ c.wbig # NULL /\ c.chain[1].base = c.wbig
                /\ c.chain[1].cap <= TLS_BIGBUF_KEEP_MAX) => n.bigcap >= c.chain[1].cap
<1> DEFINE x == tls_release_spill(m, c)
           y == tls_release_wbuf(x, c)
           n == client_free(y, c.client)
           d == [c EXCEPT !.spill = NULL]
<1>1. c \in Connection /\ NoConn \in Connection
  BY Addresses DEF Owns, NoConn, Connection
<1>2. d \in Connection /\ d.client = c.client /\ d.spill = NULL /\ d.chain = c.chain /\ d.wbig = c.wbig
  BY <1>1 DEF Connection
<1> HIDE DEF d
<1>3. Owns(x, W, B, O, d) /\ x.bigcap = m.bigcap
  BY <1>2, OwnsSpillRelease
<1> HIDE DEF x
<1>4. Blocks(d) = Blocks(c) /\ Bigs(d) = Bigs(c) /\ Swaps(d) = Swaps(c)
  BY <1>2 DEF Blocks, Bigs, Swaps, Swapped
<1>5. Others(d) = Swaps(c) \cup {c.client}
  BY <1>2, <1>4 DEF Others
<1>6. PICK P, Q, R : P = W \cup Blocks(c) /\ Q = B \cup Bigs(c) /\ R = O \cup Others(d)
  OBVIOUS
<1>7. /\ Held(x, P, Q, R) /\ W \cap Blocks(c) = {} /\ B \cap Bigs(c) = {} /\ O \cap Others(d) = {}
      /\ Tidy(c)
  BY <1>3, <1>4, <1>6 DEF Owns
<1>8. Blocks(c) \subseteq P /\ Bigs(c) \subseteq Q /\ Swaps(c) \subseteq R
  BY <1>5, <1>6
<1>9. /\ Held(y, P \ Blocks(c), Q \ Bigs(c), R \ Swaps(c)) /\ y.bigcap >= x.bigcap
      /\ (c.wbig = NULL \/ c.chain[1].base # c.wbig) => y.bigcap = x.bigcap
      /\ (/\ c.wbig # NULL /\ c.chain[1].base = c.wbig
          /\ c.chain[1].cap <= TLS_BIGBUF_KEEP_MAX) => y.bigcap >= c.chain[1].cap
  BY <1>1, <1>7, <1>8, ReleaseHeld
<1> HIDE DEF y
<1>10. P \ Blocks(c) = W /\ Q \ Bigs(c) = B /\ R \ Swaps(c) = O \cup {c.client} /\ c.client \notin O
  BY <1>5, <1>6, <1>7 DEF Tidy
<1>11. PICK a, S : a = c.client /\ S = O \cup {a} /\ S \ {a} = O /\ a \in S
  BY <1>10
<1>12. Held(y, W, B, S)
  BY <1>9, <1>10, <1>11
<1>13. Held(n, W, B, S \ {a}) /\ n.bigcap = y.bigcap
  BY <1>11, <1>12, ClientFreeHeld
<1>14. n = client_free(tls_conn_free(m, c), c.client)
  BY DEF x, y, tls_conn_free
<1> HIDE DEF n
<1>15. Blocks(NoConn) = {} /\ Bigs(NoConn) = {} /\ Others(NoConn) = {} /\ Tidy(NoConn)
  BY DEF NoConn, Blocks, Bigs, Others, Swaps, Swapped, Tidy
<1>16. Held(n, W, B, O) /\ W \cup {} = W /\ B \cup {} = B /\ O \cup {} = O
  BY <1>11, <1>13
<1>17. Owns(n, W, B, O, NoConn)
  BY <1>1, <1>15, <1>16 DEF Owns
<1> QED
  BY <1>3, <1>9, <1>13, <1>14, <1>17

\* Accepting: a client_t for a connection that holds nothing.
LEMMA OwnsAccept ==
  ASSUME NEW m, NEW W, NEW B, NEW O, Owns(m, W, B, O, NoConn), NEW g \in client_alloc(m),
         g.ptr # NULL, NEW d \in Connection, d.client = g.ptr, d.spill = NULL,
         d.chain = <<>>, d.wbig = NULL
  PROVE  Owns(g.mem, W, B, O, d) /\ g.mem.bigcap = m.bigcap
<1>1. Blocks(NoConn) = {} /\ Bigs(NoConn) = {} /\ Others(NoConn) = {}
  BY DEF NoConn, Blocks, Bigs, Others, Swaps, Swapped
<1>2. W \cup {} = W /\ B \cup {} = B /\ O \cup {} = O
  OBVIOUS
<1>3. Held(m, W, B, O)
  BY <1>1, <1>2 DEF Owns
<1>0. \A x \in client_alloc(m) :
        \/ x.ptr = NULL /\ x.mem = m
        \/ /\ x.ptr \in Slab \cup Heap /\ x.ptr \notin W \cup B \cup O
           /\ Held(x.mem, W, B, O \cup {x.ptr}) /\ x.mem.bigcap = m.bigcap
  BY <1>3, ClientAllocHeld
<1>4. /\ g.ptr \notin W \cup B \cup O /\ Held(g.mem, W, B, O \cup {g.ptr})
      /\ g.mem.bigcap = m.bigcap
  BY <1>0
<1>5. Blocks(d) = {} /\ Bigs(d) = {} /\ Swaps(d) = {}
  BY DEF Blocks, Bigs, Swaps
<1>6. Others(d) = {g.ptr}
  BY <1>5 DEF Others
<1>7. Tidy(d)
  BY <1>5 DEF Tidy
<1> QED
  BY <1>2, <1>4, <1>5, <1>6, <1>7 DEF Owns

\* A further block at the end of the chain.
LEMMA OwnsBlock ==
  ASSUME NEW m, NEW W, NEW B, NEW O, NEW c, Owns(m, W, B, O, c), NEW g \in tls_wbuf_get(m)
  PROVE  \/ g.ptr = NULL /\ g.mem = m
         \/ /\ g.ptr \in Heap /\ g.mem.bigcap = m.bigcap
            /\ \A d \in Connection :
                 /\ d.client = c.client /\ d.spill = c.spill /\ d.wbig = c.wbig
                 /\ d.chain = Append(c.chain, tls_wseg_open(g.ptr))
                 => Owns(g.mem, W, B, O, d)
<1>1. PICK P, Q, R : P = W \cup Blocks(c) /\ Q = B \cup Bigs(c) /\ R = O \cup Others(c)
  OBVIOUS
<1>2. /\ c \in Connection /\ Tidy(c) /\ Held(m, P, Q, R)
      /\ W \cap Blocks(c) = {} /\ B \cap Bigs(c) = {} /\ O \cap Others(c) = {}
  BY <1>1 DEF Owns
<1>3. \/ g.ptr = NULL /\ g.mem = m
      \/ /\ g.ptr \in Heap /\ g.ptr \notin P \cup Q \cup R
         /\ Held(g.mem, P \cup {g.ptr}, Q, R) /\ g.mem.bigcap = m.bigcap
  BY <1>2, WbufGetHeld
<1> SUFFICES ASSUME g.ptr \in Heap, g.ptr \notin P \cup Q \cup R,
                    Held(g.mem, P \cup {g.ptr}, Q, R), g.mem.bigcap = m.bigcap,
                    NEW d \in Connection,
                    d.client = c.client, d.spill = c.spill, d.wbig = c.wbig,
                    d.chain = Append(c.chain, tls_wseg_open(g.ptr))
             PROVE  Owns(g.mem, W, B, O, d)
  BY <1>3
<1>4. PICK a, n, s : a = g.ptr /\ n = Len(c.chain) /\ s = tls_wseg_open(a)
  OBVIOUS
<1>5. /\ n \in Nat /\ DOMAIN c.chain = 1..n /\ c.chain \in Seq(Segment)
  BY <1>2, <1>4, ConnFields
<1>6. /\ DOMAIN d.chain = 1..(n + 1) /\ d.chain[n + 1] = s
      /\ \A i \in 1..n : d.chain[i] = c.chain[i]
  BY <1>4, <1>5
<1>7. s.block = a /\ s.base = a
  BY <1>4 DEF tls_wseg_open
<1>8. \A i \in 1..(n + 1) : i \in 1..n \/ i = n + 1
  BY <1>5
<1>9. \A i \in 1..n : i \in 1..(n + 1) /\ i # n + 1
  BY <1>5
<1>10. n + 1 \in 1..(n + 1)
  BY <1>5
<1>11. Blocks(d) = Blocks(c) \cup {a}
  BY <1>5, <1>6, <1>7, <1>8, <1>9, <1>10 DEF Blocks
<1>12. Bigs(d) = Bigs(c)
  BY DEF Bigs
<1>13. ~Swapped(d, n + 1) /\ \A i \in 1..n : Swapped(d, i) <=> Swapped(c, i)
  BY <1>6, <1>7 DEF Swapped
<1>14. Swaps(d) = Swaps(c)
  BY <1>5, <1>6, <1>8, <1>9, <1>13 DEF Swaps
<1>15. Others(d) = Others(c)
  BY <1>14 DEF Others
<1>16. a \notin Blocks(c)
  BY <1>1, <1>4
<1>17. \A i, j \in DOMAIN d.chain : d.chain[i].block = d.chain[j].block => i = j
  <2>1. \A i \in 1..n : c.chain[i].block # a
    BY <1>5, <1>16 DEF Blocks
  <2> QED
    BY <1>2, <1>5, <1>6, <1>7, <1>8, <2>1 DEF Tidy
<1>18. \A i, j \in DOMAIN d.chain :
         Swapped(d, i) /\ Swapped(d, j) /\ d.chain[i].base = d.chain[j].base => i = j
  BY <1>2, <1>5, <1>6, <1>8, <1>13 DEF Tidy
<1>19. Tidy(d)
  BY <1>2, <1>14, <1>17, <1>18 DEF Tidy
<1>20. P \cup {a} = W \cup Blocks(d) /\ W \cap Blocks(d) = {}
  BY <1>1, <1>2, <1>4, <1>11
<1> QED
  BY <1>1, <1>2, <1>4, <1>12, <1>15, <1>19, <1>20 DEF Owns

\* An oversized buffer for a chain of one block.
LEMMA OwnsBig ==
  ASSUME NEW m, NEW W, NEW B, NEW O, NEW c, Owns(m, W, B, O, c),
         Len(c.chain) = 1, c.chain[1].base = c.chain[1].block, c.wbig = NULL,
         NEW need \in Nat, NEW g \in tls_bigbuf_get(m, need)
  PROVE  \/ g.ptr = NULL /\ g.mem = m
         \/ /\ g.ptr \in Heap /\ g.ptr # c.chain[1].block /\ g.cap \in Nat /\ g.cap >= need
            /\ g.mem.bigcap = m.bigcap \/ g.cap = m.bigcap
            /\ \A d \in Connection :
                 /\ d.client = c.client /\ d.spill = c.spill /\ d.wbig = g.ptr
                 /\ Len(d.chain) = 1 /\ d.chain[1].block = c.chain[1].block
                 /\ d.chain[1].base = g.ptr
                 => Owns(g.mem, W, B, O, d)
<1>1. PICK P, Q, R : P = W \cup Blocks(c) /\ Q = B \cup Bigs(c) /\ R = O \cup Others(c)
  OBVIOUS
<1>2. /\ c \in Connection /\ Tidy(c) /\ Held(m, P, Q, R)
      /\ W \cap Blocks(c) = {} /\ B \cap Bigs(c) = {} /\ O \cap Others(c) = {}
  BY <1>1 DEF Owns
<1>3. \A x \in tls_bigbuf_get(m, need) :
        \/ x.ptr = NULL /\ x.mem = m
        \/ /\ x.ptr \in Heap /\ x.ptr \notin P \cup Q \cup R
           /\ Held(x.mem, P, Q \cup {x.ptr}, R) /\ x.cap \in Nat /\ x.cap >= need
           /\ x.mem.bigcap = m.bigcap \/ x.cap = m.bigcap
  BY <1>2, BigGetHeld
<1>4. DOMAIN c.chain = {1}
  BY <1>2, ConnFields
<1>5. c.chain[1].block \in Blocks(c)
  BY <1>4 DEF Blocks
<1> SUFFICES ASSUME g.ptr \in Heap, g.ptr \notin P \cup Q \cup R,
                    Held(g.mem, P, Q \cup {g.ptr}, R),
                    NEW d \in Connection,
                    d.client = c.client, d.spill = c.spill, d.wbig = g.ptr,
                    Len(d.chain) = 1, d.chain[1].block = c.chain[1].block,
                    d.chain[1].base = g.ptr
             PROVE  Owns(g.mem, W, B, O, d)
  BY <1>1, <1>3, <1>5
<1>6. DOMAIN d.chain = {1}
  BY ConnFields
<1>7. Blocks(d) = Blocks(c)
  BY <1>4, <1>6 DEF Blocks
<1>8. Bigs(c) = {} /\ Bigs(d) = {g.ptr}
  BY Addresses DEF Bigs
<1>9. Swaps(c) = {} /\ Swaps(d) = {}
  BY <1>4, <1>6 DEF Swaps, Swapped
<1>10. Others(d) = Others(c)
  BY <1>9 DEF Others
<1>11. Tidy(d)
  BY <1>2, <1>6, <1>9 DEF Tidy
<1>12. Q \cup {g.ptr} = B \cup Bigs(d) /\ B \cap Bigs(d) = {}
  BY <1>1, <1>8
<1> QED
  BY <1>1, <1>2, <1>7, <1>10, <1>11, <1>12 DEF Owns

\* A spill.
LEMMA OwnsSpill ==
  ASSUME NEW m, NEW W, NEW B, NEW O, NEW c, Owns(m, W, B, O, c), c.spill = NULL,
         NEW g \in tls_spill_get(m)
  PROVE  \/ g.ptr = NULL /\ g.mem = m
         \/ /\ g.ptr \in Heap /\ g.mem.bigcap = m.bigcap
            /\ \A d \in Connection :
                 /\ d.client = c.client /\ d.spill = g.ptr /\ d.wbig = c.wbig
                 /\ d.chain = c.chain
                 => Owns(g.mem, W, B, O, d)
<1>1. PICK P, Q, R : P = W \cup Blocks(c) /\ Q = B \cup Bigs(c) /\ R = O \cup Others(c)
  OBVIOUS
<1>2. /\ c \in Connection /\ Tidy(c) /\ Held(m, P, Q, R)
      /\ W \cap Blocks(c) = {} /\ B \cap Bigs(c) = {} /\ O \cap Others(c) = {}
  BY <1>1 DEF Owns
<1>3. \/ g.ptr = NULL /\ g.mem = m
      \/ /\ g.ptr \in Heap /\ g.ptr \notin P \cup Q \cup R
         /\ Held(g.mem, P, Q, R \cup {g.ptr}) /\ g.mem.bigcap = m.bigcap
  BY <1>2, SpillGetHeld
<1> SUFFICES ASSUME g.ptr \in Heap, g.ptr \notin P \cup Q \cup R,
                    Held(g.mem, P, Q, R \cup {g.ptr}),
                    NEW d \in Connection,
                    d.client = c.client, d.spill = g.ptr, d.wbig = c.wbig, d.chain = c.chain
             PROVE  Owns(g.mem, W, B, O, d)
  BY <1>3
<1>4. Blocks(d) = Blocks(c) /\ Bigs(d) = Bigs(c) /\ Swaps(d) = Swaps(c)
  BY DEF Blocks, Bigs, Swaps, Swapped
<1>5. Others(d) = Others(c) \cup {g.ptr}
  BY <1>4, Addresses DEF Others
<1>6. Tidy(d)
  <2>1. \A i : Swapped(d, i) <=> Swapped(c, i)
    BY DEF Swapped
  <2>2. g.ptr \notin Others(c)
    BY <1>1
  <2>3. g.ptr \notin Swaps(c) /\ (g.ptr = c.client => g.ptr = NULL)
    BY <2>2 DEF Others
  <2> QED
    BY <1>2, <1>4, <2>1, <2>3 DEF Tidy
<1>7. R \cup {g.ptr} = O \cup Others(d) /\ O \cap Others(d) = {}
  BY <1>1, <1>2, <1>5
<1> QED
  BY <1>1, <1>2, <1>4, <1>6, <1>7 DEF Owns

-----------------------------------------------------------------------------
(* ptls_send_v *)

\* Sequences of runs of plaintext.
Runs == Seq(Nat \X Nat \X Nat)

\* The last block of c's chain became s.
Rewritten(c, s, d) ==
  /\ d.client = c.client /\ d.spill = c.spill /\ d.wbig = c.wbig
  /\ Len(d.chain) = Len(c.chain) /\ d.chain[Len(c.chain)] = s
  /\ \A i \in 1..(Len(c.chain) - 1) : d.chain[i] = c.chain[i]

\* What is written grows by the chunk and one overhead at least.
LEMMA Grows ==
  ASSUME NEW s, s.off \in Nat, NEW chunk \in Nat \ {0}
  PROVE  SizeAfter(s, chunk) \in Nat /\ SizeAfter(s, chunk) > 0
<1>1. PICK M, H, o : M = TLS_MAX_RECORD_PLAINTEXT /\ H = Overhead /\ o = s.off
  OBVIOUS
<1>2. M \in Nat /\ M > 0 /\ H \in Nat /\ H > 0 /\ o \in Nat
  BY <1>1, PoolsAssumption
<1>3. PICK q : q = (chunk + M - 1) \div M
  OBVIOUS
<1>4. q \in Nat
  BY <1>2, <1>3
<1>5. H * q \in Nat
  BY <1>2, <1>4
<1>6. SizeAfter(s, chunk) = o + chunk + H * q
  BY <1>1, <1>3 DEF SizeAfter
<1> QED
  BY <1>2, <1>5, <1>6

\* The three outcomes: declined, in place, and in a new allocation.
Outcome(m, s, big, parts, r) ==
  /\ r.seg \in Segment /\ r.seg.block = s.block
  /\ r.ok \in BOOLEAN
  /\ ~r.ok => r.seg = s /\ r.mem = m
  /\ r.ok => r.seg.data = s.data \o parts /\ r.seg.off > 0
  /\ \/ r.seg.base = s.base /\ r.seg.cap = s.cap /\ r.mem = m
     \/ /\ r.ok /\ r.seg.cap > 0
        /\ \E g \in Malloc(m) :
             /\ g.ptr \in Heap /\ r.seg.base = g.ptr
             /\ r.mem = IF s.base # s.block /\ s.base # big THEN Free(g.mem, s.base) ELSE g.mem

\* There are no others.
LEMMA SendOutcome ==
  ASSUME NEW m \in Memory, NEW s \in Segment, NEW big, NEW chunk \in Nat \ {0},
         NEW parts \in Runs, NEW r \in ptls_send_v(m, s, big, parts, chunk)
  PROVE  Outcome(m, s, big, parts, r)
<1> DEFINE size == SizeAfter(s, chunk)
           into == [s EXCEPT !.off = size, !.data = @ \o parts]
           owns == s.base # s.block /\ s.base # big
           moved(a) == [into EXCEPT !.base = a, !.cap = size + Overhead, !.off = size + Overhead]
<1>1. /\ s.block \in Heap /\ s.base \in Heap /\ s.cap \in Nat /\ s.off \in Nat
      /\ s.data \in Seq(Nat \X Nat \X Nat)
  BY DEF Segment
<1>2. /\ size \in Nat /\ size > 0 /\ size + Overhead \in Nat /\ size + Overhead > 0
  <2>1. size \in Nat /\ size > 0
    BY <1>1, Grows
  <2> HIDE DEF size
  <2> QED
    BY <2>1, PoolsAssumption
<1>3. \/ r = [ok |-> TRUE, seg |-> into, mem |-> m]
      \/ r = [ok |-> FALSE, seg |-> s, mem |-> m]
      \/ \E g \in Malloc(m) :
           r = IF g.ptr = NULL THEN [ok |-> FALSE, seg |-> s, mem |-> m]
               ELSE [ok |-> TRUE, seg |-> moved(g.ptr),
                     mem |-> IF owns THEN Free(g.mem, s.base) ELSE g.mem]
  BY DEF ptls_send_v
<1> HIDE DEF size
<1>4. s.data \o parts \in Seq(Nat \X Nat \X Nat)
  BY <1>1 DEF Runs
<1>5. /\ into \in Segment /\ into.block = s.block /\ into.base = s.base /\ into.cap = s.cap
      /\ into.off = size /\ into.data = s.data \o parts
  BY <1>1, <1>2, <1>4 DEF Segment
<1>6. ASSUME NEW a \in Heap
      PROVE  /\ moved(a) \in Segment /\ moved(a).block = s.block /\ moved(a).base = a
             /\ moved(a).cap = size + Overhead /\ moved(a).off = size + Overhead
             /\ moved(a).data = s.data \o parts
  <2> HIDE DEF into
  <2> QED
    BY <1>2, <1>5 DEF Segment
<1> HIDE DEF into, moved, owns
<1>7. CASE r = [ok |-> TRUE, seg |-> into, mem |-> m]
  BY <1>2, <1>5, <1>7 DEF Outcome
<1>8. CASE r = [ok |-> FALSE, seg |-> s, mem |-> m]
  BY <1>8 DEF Outcome
<1>9. ASSUME NEW g \in Malloc(m), g.ptr # NULL,
             r = [ok |-> TRUE, seg |-> moved(g.ptr),
                  mem |-> IF owns THEN Free(g.mem, s.base) ELSE g.mem]
      PROVE  /\ r.ok = TRUE /\ r.seg \in Segment /\ r.seg.block = s.block
             /\ r.seg.data = s.data \o parts /\ r.seg.off > 0 /\ r.seg.cap > 0
             /\ g.ptr \in Heap /\ r.seg.base = g.ptr
             /\ r.mem = IF s.base # s.block /\ s.base # big THEN Free(g.mem, s.base) ELSE g.mem
  <2>1. g.ptr \in Heap
    BY <1>9, MallocOutcome
  <2>2. r.ok = TRUE /\ r.seg = moved(g.ptr) /\ r.mem = IF owns THEN Free(g.mem, s.base) ELSE g.mem
    BY <1>9
  <2> QED
    BY <1>2, <1>6, <2>1, <2>2 DEF owns
<1> QED
  BY <1>3, <1>7, <1>8, <1>9 DEF Outcome

\* picotls writes into the last block of the chain, and may move it.
LEMMA OwnsSend ==
  ASSUME NEW m, NEW W, NEW B, NEW O, NEW c, Owns(m, W, B, O, c), Len(c.chain) > 0,
         NEW chunk \in Nat \ {0}, NEW parts \in Runs,
         NEW r \in ptls_send_v(m, c.chain[Len(c.chain)], c.wbig, parts, chunk),
         NEW d \in Connection, Rewritten(c, r.seg, d)
  PROVE  /\ Owns(r.mem, W, B, O, d) /\ r.mem.bigcap = m.bigcap
         /\ \/ r.seg.base = c.chain[Len(c.chain)].base /\ r.seg.cap = c.chain[Len(c.chain)].cap
            \/ r.seg.base # r.seg.block /\ r.seg.base # c.wbig /\ r.seg.cap > 0
<1>1. PICK P, Q, R : P = W \cup Blocks(c) /\ Q = B \cup Bigs(c) /\ R = O \cup Others(c)
  OBVIOUS
<1>2. /\ c \in Connection /\ Tidy(c) /\ Held(m, P, Q, R)
      /\ W \cap Blocks(c) = {} /\ B \cap Bigs(c) = {} /\ O \cap Others(c) = {}
  BY <1>1 DEF Owns
<1>3. PICK s, n : n = Len(c.chain) /\ s = c.chain[n]
  OBVIOUS
<1>a. /\ d.client = c.client /\ d.spill = c.spill /\ d.wbig = c.wbig
      /\ Len(d.chain) = n /\ d.chain[n] = r.seg /\ \A i \in 1..(n - 1) : d.chain[i] = c.chain[i]
  BY <1>3 DEF Rewritten
<1>4. /\ n \in Nat /\ DOMAIN c.chain = 1..n /\ DOMAIN d.chain = 1..n /\ n \in 1..n
      /\ s \in Segment /\ s.block \in Heap /\ s.base \in Heap
  BY <1>2, <1>3, <1>a, ConnFields
<1>5. m \in Memory
  BY <1>2, HeldSets
<1>6. \A i \in 1..n : i = n \/ i \in 1..(n - 1)
  BY <1>4
<1>7. /\ r.seg.block = s.block
      /\ \/ r.seg.base = s.base /\ r.seg.cap = s.cap /\ r.mem = m
         \/ r.seg.cap > 0 /\ \E g \in Malloc(m) :
              /\ g.ptr \in Heap /\ r.seg.base = g.ptr
              /\ r.mem = IF s.base # s.block /\ s.base # c.wbig THEN Free(g.mem, s.base)
                                                               ELSE g.mem
  <2>1. Outcome(m, s, c.wbig, parts, r)
    BY <1>3, <1>4, <1>5, SendOutcome
  <2> QED
    BY <2>1 DEF Outcome
<1>8. CASE r.seg.base = s.base /\ r.seg.cap = s.cap /\ r.mem = m
  <2>1. Alike(c, d)
    BY <1>3, <1>4, <1>6, <1>7, <1>8, <1>a DEF Alike
  <2> QED
    BY <1>3, <1>8, <2>1, OwnsAlike
<1>9. ASSUME NEW g \in Malloc(m), g.ptr \in Heap, r.seg.base = g.ptr,
             r.mem = IF s.base # s.block /\ s.base # c.wbig THEN Free(g.mem, s.base)
                                                           ELSE g.mem
      PROVE  /\ Owns(r.mem, W, B, O, d) /\ r.mem.bigcap = m.bigcap
             /\ r.seg.base # r.seg.block /\ r.seg.base # c.wbig
  <2>0. PICK a, b, x, y : a = g.ptr /\ b = s.base /\ x = g.mem /\ y = r.mem
    OBVIOUS
  <2>1. a \in Heap /\ a \notin P \cup Q \cup R /\ Held(x, P, Q, R \cup {a}) /\ x.bigcap = m.bigcap
    <3>1. \A h \in Malloc(m) :
            \/ h.ptr = NULL /\ h.mem = m
            \/ /\ h.ptr \in Heap /\ h.ptr \notin P \cup Q \cup R
               /\ Held(h.mem, P, Q, R \cup {h.ptr})
               /\ h.mem.bigcap = m.bigcap
      BY <1>2, MallocHeld
    <3> QED
      BY <1>9, <2>0, <3>1, Addresses
  <2>2. /\ \A i \in 1..n : d.chain[i].block = c.chain[i].block
        /\ \A i \in 1..(n - 1) : d.chain[i].base = c.chain[i].base
        /\ d.chain[n].base = a
    BY <1>3, <1>6, <1>7, <1>9, <1>a, <2>0
  <2>3. Blocks(d) = Blocks(c) /\ Bigs(d) = Bigs(c)
    BY <1>4, <1>a, <2>2 DEF Blocks, Bigs
  <2>4. s.block \in Blocks(c) /\ a # s.block /\ a # c.wbig
    <3>1. s.block \in Blocks(c)
      BY <1>3, <1>4 DEF Blocks
    <3>2. a # c.wbig
      BY <1>1, <2>1, Addresses DEF Bigs
    <3> QED
      BY <1>1, <2>1, <3>1, <3>2
  <2>5. /\ Swapped(d, n) /\ \A i \in 1..(n - 1) : Swapped(d, i) <=> Swapped(c, i)
        /\ Swapped(c, n) <=> b # s.block /\ b # c.wbig
    <3>1. \A i \in 1..(n - 1) : i \in 1..n
      BY <1>4
    <3> QED
      BY <1>3, <1>4, <1>a, <2>0, <2>2, <2>4, <3>1 DEF Swapped
  <2> DEFINE old == IF b # s.block /\ b # c.wbig THEN {b} ELSE {}
  <2>6. a \notin Swaps(c)
    BY <1>1, <2>1 DEF Others
  <2>7. \A i \in 1..(n - 1) : Swapped(c, i) => c.chain[i].base \in Swaps(c) /\ c.chain[i].base \notin old
    <3>1. \A i \in 1..(n - 1) : i \in 1..n /\ i # n
      BY <1>4
    <3>2. ASSUME NEW i \in 1..(n - 1), Swapped(c, i), c.chain[i].base = b, Swapped(c, n) PROVE FALSE
      BY <1>2, <1>3, <1>4, <2>0, <3>1, <3>2 DEF Tidy
    <3> QED
      BY <1>4, <2>5, <3>1, <3>2 DEF Swaps
  <2>8. Swaps(d) = (Swaps(c) \ old) \cup {a}
    <3>1. \A v \in Swaps(d) : v = a \/ \E i \in 1..(n - 1) : Swapped(c, i) /\ v = c.chain[i].base
      BY <1>4, <1>6, <2>2, <2>5 DEF Swaps
    <3>2. a \in Swaps(d)
      BY <1>4, <2>2, <2>5 DEF Swaps
    <3>3. ASSUME NEW v \in Swaps(c), v \notin old PROVE v \in Swaps(d)
      <4>1. PICK i \in 1..n : Swapped(c, i) /\ v = c.chain[i].base
        BY <1>4 DEF Swaps
      <4>2. i # n
        BY <1>3, <2>0, <2>5, <3>3, <4>1
      <4>3. i \in 1..(n - 1) /\ d.chain[i].base = v /\ Swapped(d, i)
        BY <1>6, <2>2, <2>5, <4>1, <4>2
      <4> QED
        BY <1>4, <4>1, <4>3 DEF Swaps
    <3> QED
      BY <2>7, <3>1, <3>2, <3>3
  <2>9. old \subseteq Swaps(c)
    BY <1>3, <1>4, <2>0, <2>5 DEF Swaps
  <2>10. old \cap ({c.spill, c.client} \ {NULL}) = {} /\ a \notin {c.spill, c.client}
    <3>1. a \notin Others(c) /\ a # NULL
      BY <1>1, <2>1, Addresses
    <3> QED
      BY <1>2, <2>9, <3>1 DEF Others, Tidy
  <2>11. Others(d) = (Others(c) \ old) \cup {a}
    BY <1>a, <2>8, <2>10 DEF Others
  <2>12. Tidy(d)
    <3>1. \A i, j \in DOMAIN d.chain : d.chain[i].block = d.chain[j].block => i = j
      BY <1>2, <1>4, <2>2 DEF Tidy
    <3>2. ASSUME NEW i \in 1..n, NEW j \in 1..n, Swapped(d, i), Swapped(d, j),
                 d.chain[i].base = d.chain[j].base
          PROVE  i = j
      <4>0. \A l \in 1..(n - 1) : l \in 1..n
        BY <1>4
      <4>1. \A l \in 1..(n - 1) : Swapped(d, l) => d.chain[l].base # a
        BY <2>2, <2>5, <2>6, <2>7
      <4>2. CASE i = n \/ j = n
        BY <1>6, <2>2, <3>2, <4>1, <4>2
      <4>3. CASE i \in 1..(n - 1) /\ j \in 1..(n - 1)
        <5>1. Swapped(c, i) /\ Swapped(c, j) /\ c.chain[i].base = c.chain[j].base
          BY <2>2, <2>5, <3>2, <4>3
        <5> QED
          BY <1>2, <1>4, <5>1 DEF Tidy
      <4> QED
        BY <1>6, <4>2, <4>3
    <3>3. d.spill \notin Swaps(d) /\ d.client \notin Swaps(d)
      BY <1>2, <1>a, <2>8, <2>10 DEF Tidy
    <3> QED
      BY <1>2, <1>4, <1>a, <3>1, <3>2, <3>3 DEF Tidy
  <2>13. W \cap Blocks(d) = {} /\ B \cap Bigs(d) = {} /\ O \cap Others(d) = {}
    BY <1>1, <1>2, <2>1, <2>3, <2>11
  <2>16. r.seg.base # r.seg.block /\ r.seg.base # c.wbig
    BY <1>7, <1>9, <2>0, <2>4
  <2>14. CASE b # s.block /\ b # c.wbig
    <3>1. y = Free(x, b) /\ old = {b}
      BY <1>9, <2>0, <2>14
    <3>2. b \in R /\ b \in R \cup {a} /\ b \in Heap /\ b # a /\ b \notin O
      BY <1>1, <1>2, <1>4, <2>0, <2>1, <2>9, <3>1 DEF Others
    <3>3. PICK R1 : R1 = R \cup {a}
      OBVIOUS
    <3>a. Held(x, P, Q, R1) /\ b \in R1 /\ b \in Heap
      BY <2>1, <3>2, <3>3
    <3>b. Held(Free(x, b), P, Q, R1 \ {b}) /\ Free(x, b).bigcap = x.bigcap
      BY <3>a, FreeHeld
    <3>4. Held(y, P, Q, R1 \ {b}) /\ y.bigcap = x.bigcap
      BY <3>1, <3>b
    <3>5. R1 \ {b} = O \cup Others(d)
      BY <1>1, <2>11, <3>1, <3>2, <3>3
    <3> QED
      BY <1>1, <2>0, <2>1, <2>3, <2>12, <2>13, <3>4, <3>5, <2>16 DEF Owns
  <2>15. CASE ~(b # s.block /\ b # c.wbig)
    <3>1. y = x /\ old = {}
      BY <1>9, <2>0, <2>15
    <3>2. R \cup {a} = O \cup Others(d)
      BY <1>1, <2>11, <3>1
    <3> QED
      BY <1>1, <2>0, <2>1, <2>3, <2>12, <2>13, <3>1, <3>2, <2>16 DEF Owns
  <2> QED
    BY <2>14, <2>15
<1> QED
  BY <1>7, <1>8, <1>9

-----------------------------------------------------------------------------
(* One connection and the rest *)

\* What the connections other than k hold.
RestBlocks(k) == UNION {Blocks(conn[l]) : l \in Conn \ {k}}
RestBigs(k) == UNION {Bigs(conn[l]) : l \in Conn \ {k}}
RestOthers(k) == UNION {Others(conn[l]) : l \in Conn \ {k}}

\* m is right for k to become d.
Takes(k, m, d) == Owns(m, RestBlocks(k), RestBigs(k), RestOthers(k), d)

\* The invariant, seen from one connection.
LEMMA Split ==
  ASSUME TypeOK, MemInv, NEW k \in Conn
  PROVE  /\ Takes(k, mem, conn[k]) /\ Stage(conn[k]) /\ conn[k] \in Connection
         /\ mem \in Memory /\ mem.bigcap \in Nat /\ mem.bigcap <= TLS_BIGBUF_KEEP_MAX
<1>1. conn[k] \in Connection /\ Tidy(conn[k]) /\ Stage(conn[k])
  BY DEF TypeOK, MemInv
<1>2. Held(mem, AllBlocks, AllBigs, AllOthers)
  BY DEF MemInv
<1>3. /\ AllBlocks = RestBlocks(k) \cup Blocks(conn[k])
      /\ AllBigs = RestBigs(k) \cup Bigs(conn[k])
      /\ AllOthers = RestOthers(k) \cup Others(conn[k])
  BY DEF AllBlocks, AllBigs, AllOthers, RestBlocks, RestBigs, RestOthers
<1>4. /\ RestBlocks(k) \cap Blocks(conn[k]) = {}
      /\ RestBigs(k) \cap Bigs(conn[k]) = {}
      /\ RestOthers(k) \cap Others(conn[k]) = {}
  BY DEF RestBlocks, RestBigs, RestOthers, MemInv
<1>5. mem \in Memory /\ mem.bigcap \in Nat /\ mem.bigcap <= TLS_BIGBUF_KEEP_MAX
  BY <1>2, HeldSets, MemFields DEF Held, Sane
<1>6. Takes(k, mem, conn[k])
  BY <1>1, <1>2, <1>3, <1>4 DEF Takes, Owns
<1> QED
  BY <1>1, <1>5, <1>6

\* A step of one connection keeps the invariant if it is right for that one.
LEMMA Join ==
  ASSUME TypeOK, MemInv, NEW k \in Conn, NEW m, NEW d, Becomes(k, d, m), Takes(k, m, d), Stage(d)
  PROVE  /\ MemInv' /\ mem' = m /\ mem' \in Memory /\ conn' \in [Conn -> Connection]
         /\ conn'[k] = d /\ \A l \in Conn \ {k} : conn'[l] = conn[l]
<1>1. conn \in [Conn -> Connection] /\ mem' = m /\ conn' = [conn EXCEPT ![k] = d]
  BY DEF TypeOK, Becomes
<1>2. d \in Connection /\ Tidy(d)
  BY DEF Takes, Owns
<1>3. /\ conn' \in [Conn -> Connection] /\ conn'[k] = d
      /\ \A l \in Conn \ {k} : conn'[l] = conn[l]
  BY <1>1, <1>2
<1>4. Held(m, RestBlocks(k) \cup Blocks(d), RestBigs(k) \cup Bigs(d), RestOthers(k) \cup Others(d))
  BY DEF Takes, Owns
<1>5. /\ AllBlocks' = RestBlocks(k) \cup Blocks(d)
      /\ AllBigs' = RestBigs(k) \cup Bigs(d)
      /\ AllOthers' = RestOthers(k) \cup Others(d)
  BY <1>3 DEF AllBlocks, AllBigs, AllOthers, RestBlocks, RestBigs, RestOthers
<1>6. Held(mem', AllBlocks', AllBigs', AllOthers')
  BY <1>1, <1>4, <1>5
<1>7. \A l \in Conn : Tidy(conn'[l]) /\ Stage(conn'[l])
  BY <1>2, <1>3 DEF MemInv
<1>8. /\ RestBlocks(k) \cap Blocks(d) = {}
      /\ RestBigs(k) \cap Bigs(d) = {}
      /\ RestOthers(k) \cap Others(d) = {}
  BY DEF Takes, Owns
<1>9. \A l \in Conn \ {k} :
        /\ Blocks(conn[l]) \cap Blocks(d) = {} /\ Bigs(conn[l]) \cap Bigs(d) = {}
        /\ Others(conn[l]) \cap Others(d) = {}
  BY <1>8 DEF RestBlocks, RestBigs, RestOthers
<1>10. \A l, j \in Conn : l # j =>
         /\ Blocks(conn'[l]) \cap Blocks(conn'[j]) = {}
         /\ Bigs(conn'[l]) \cap Bigs(conn'[j]) = {}
         /\ Others(conn'[l]) \cap Others(conn'[j]) = {}
  <2> SUFFICES ASSUME NEW l \in Conn, NEW j \in Conn, l # j
               PROVE  /\ Blocks(conn'[l]) \cap Blocks(conn'[j]) = {}
                      /\ Bigs(conn'[l]) \cap Bigs(conn'[j]) = {}
                      /\ Others(conn'[l]) \cap Others(conn'[j]) = {}
    OBVIOUS
  <2>1. CASE l = k
    BY <1>3, <1>9, <2>1
  <2>2. CASE j = k
    BY <1>3, <1>9, <2>2
  <2>3. CASE l # k /\ j # k
    <3>1. conn'[l] = conn[l] /\ conn'[j] = conn[j]
      BY <1>3, <2>3
    <3> QED
      BY <3>1 DEF MemInv
  <2> QED
    BY <2>1, <2>2, <2>3
<1>11. MemInv'
  BY <1>6, <1>7, <1>10 DEF MemInv
<1>12. mem' \in Memory
  BY <1>6, HeldSets
<1> QED
  BY <1>1, <1>3, <1>11, <1>12

\* What a step of one connection must see to.
LEMMA Step ==
  ASSUME IInv, NEW k \in Conn, NEW m, NEW d, Becomes(k, d, m), Takes(k, m, d), Stage(d),
         keep' \in Nat, job' \in Job, job.who \in {Nobody, k}, job'.who \in {Nobody, k},
         mem.bigcap >= keep \/ Lends(conn[k], keep) => m.bigcap >= keep' \/ Lends(d, keep'),
         keep' = keep \/ m.bigcap >= keep',
         d.at = "encrypting" <=> job'.who = k,
         job'.who = k => Encrypting(d, job'),
         d.at = "writing" => Len(d.chain) <= TLS_WSEG_MAX /\ InOrder(d, Total(d.shape))
  PROVE  IInv'
<1>1. TypeOK /\ MemInv /\ KeepInv /\ JobInv
  BY DEF IInv
<1>2. /\ MemInv' /\ mem' = m /\ mem' \in Memory /\ conn' \in [Conn -> Connection]
      /\ conn'[k] = d /\ \A l \in Conn \ {k} : conn'[l] = conn[l]
  BY <1>1, Join
<1>3. TypeOK'
  BY <1>2 DEF TypeOK
<1>4. KeepInv'
  <2>1. CASE mem.bigcap >= keep \/ Lends(conn[k], keep)
    BY <1>2, <2>1 DEF KeepInv
  <2>2. CASE \E l \in Conn \ {k} : Lends(conn[l], keep)
    <3>1. PICK l \in Conn \ {k} : Lends(conn[l], keep)
      BY <2>2
    <3>2. conn'[l] = conn[l]
      BY <1>2
    <3>3. CASE keep' = keep
      <4>1. Lends(conn'[l], keep')
        BY <3>1, <3>2, <3>3
      <4> QED
        BY <4>1 DEF KeepInv
    <3>4. CASE m.bigcap >= keep'
      BY <1>2, <3>4 DEF KeepInv
    <3> QED
      BY <3>3, <3>4
  <2> QED
    BY <1>1, <2>1, <2>2 DEF KeepInv
<1>5. Nobody \notin Conn
  BY PoolsAssumption
<1>6. \A l \in Conn \ {k} : conn'[l].at # "encrypting" /\ job'.who # l
  BY <1>1, <1>2, <1>5 DEF JobInv
<1>7. \A l \in Conn \ {k} : conn'[l].at = "writing" =>
        Len(conn'[l].chain) <= TLS_WSEG_MAX /\ InOrder(conn'[l], Total(conn'[l].shape))
  BY <1>1, <1>2 DEF JobInv
<1>8. JobInv'
  <2>1. \A l \in Conn : conn'[l].at = "encrypting" <=> job'.who = l
    BY <1>2, <1>6
  <2>2. \A l \in Conn : job'.who = l => Encrypting(conn'[l], job')
    BY <1>2, <1>6
  <2>3. \A l \in Conn : conn'[l].at = "writing" =>
          Len(conn'[l].chain) <= TLS_WSEG_MAX /\ InOrder(conn'[l], Total(conn'[l].shape))
    BY <1>2, <1>7
  <2> QED
    BY <2>1, <2>2, <2>3 DEF JobInv
<1> QED
  BY <1>2, <1>3, <1>4, <1>8 DEF IInv

\* The same for a step with no response in the making, before or after it.
LEMMA QuietStep ==
  ASSUME IInv, NEW k \in Conn, NEW m, NEW d, Becomes(k, d, m), Takes(k, m, d), Stage(d),
         job.who = Nobody, job' = job, d.at # "encrypting",
         keep' = keep, m.bigcap = mem.bigcap, Lends(conn[k], keep) => Lends(d, keep),
         d.at = "writing" => Len(d.chain) <= TLS_WSEG_MAX /\ InOrder(d, Total(d.shape))
  PROVE  IInv'
<1>1. keep' \in Nat /\ job' \in Job
  BY DEF IInv, TypeOK
<1>2. job'.who = Nobody /\ job'.who # k
  BY PoolsAssumption
<1>3. mem.bigcap >= keep \/ Lends(conn[k], keep) => m.bigcap >= keep' \/ Lends(d, keep')
  OBVIOUS
<1> QED
  BY <1>1, <1>2, <1>3, Step

\* What the runs of plaintext are depends on the chain and the response alone.
LEMMA SameRuns ==
  ASSUME NEW c, NEW d, NEW n, d.chain = c.chain, d.shape = c.shape, InOrder(c, n)
  PROVE  InOrder(d, n) /\ Total(d.shape) = Total(c.shape)
<1>1. \A r : From(d, r) = From(c, r)
  BY DEF From
<1>2. \A r : To(d, r) = To(c, r)
  BY <1>1 DEF To
<1>3. Total(d.shape) = Total(c.shape)
  OBVIOUS
<1>4. InOrder(d, n)
  BY <1>1, <1>2 DEF InOrder
<1> QED
  BY <1>3, <1>4

\* Only the oversized buffer and the first block matter to the slot.
LEMMA SameLoan ==
  ASSUME NEW c, NEW d, NEW n, d.wbig = c.wbig,
         d.wbig # NULL => d.chain[1].base = c.chain[1].base /\ d.chain[1].cap = c.chain[1].cap
  PROVE  Lends(c, n) => Lends(d, n)
BY DEF Lends

-----------------------------------------------------------------------------
(* The callbacks *)

\* on_new_connection.
LEMMA AcceptStep ==
  ASSUME IInv, NEW k \in Conn, Accept(k)
  PROVE  IInv'
<1>1. PICK g \in client_alloc(mem) :
        g.ptr # NULL /\ Becomes(k, [NoConn EXCEPT !.at = "open", !.client = g.ptr], g.mem)
  BY DEF Accept
<1>2. job.who = Nobody /\ job' = job /\ keep' = keep /\ conn[k].at = "none"
  BY DEF Accept
<1>3. TypeOK /\ MemInv
  BY DEF IInv
<1>4. Takes(k, mem, conn[k]) /\ Stage(conn[k]) /\ mem \in Memory
  BY <1>3, Split
<1>5. conn[k] = NoConn
  BY <1>2, <1>4 DEF Stage
<1> DEFINE d == [NoConn EXCEPT !.at = "open", !.client = g.ptr]
<1>6. g.ptr \in Slab \cup Heap
  <2>1. Blocks(NoConn) = {} /\ Bigs(NoConn) = {} /\ Others(NoConn) = {}
    BY DEF NoConn, Blocks, Bigs, Others, Swaps, Swapped
  <2>2. PICK W, B, O : Held(mem, W, B, O)
    BY <1>4 DEF Takes, Owns
  <2>3. \A x \in client_alloc(mem) : x.ptr = NULL \/ x.ptr \in Slab \cup Heap
    BY <2>2, ClientAllocHeld
  <2> QED
    BY <1>1, <2>3
<1>7. /\ d \in Connection /\ d.at = "open" /\ d.client = g.ptr /\ d.spill = NULL /\ d.chain = <<>>
      /\ d.wbig = NULL
  <2>1. NoConn \in Connection
    BY DEF NoConn, Connection
  <2>2. d \in Connection
    BY <1>6, <2>1 DEF Connection
  <2> QED
    BY <2>2 DEF NoConn
<1>8. Becomes(k, d, g.mem)
  BY <1>1
<1> HIDE DEF d
<1>9. Takes(k, g.mem, d) /\ g.mem.bigcap = mem.bigcap
  BY <1>1, <1>4, <1>5, <1>7, OwnsAccept DEF Takes
<1>10. Stage(d)
  BY <1>1, <1>7 DEF Stage
<1>11. ~Lends(conn[k], keep)
  BY <1>5 DEF Lends, NoConn
<1> QED
  BY <1>2, <1>7, <1>8, <1>9, <1>10, <1>11, QuietStep

\* uv_close.
LEMMA ClosesStep ==
  ASSUME IInv, NEW k \in Conn, Closes(k)
  PROVE  IInv'
<1>1. TypeOK /\ MemInv
  BY DEF IInv
<1>2. Takes(k, mem, conn[k]) /\ Stage(conn[k]) /\ conn[k] \in Connection
  BY <1>1, Split
<1>3. PICK c : c = conn[k]
  OBVIOUS
<1> DEFINE d == [c EXCEPT !.at = "closing"]
<1>4. /\ Becomes(k, d, mem) /\ c.at = "open" /\ job.who = Nobody /\ job' = job /\ keep' = keep
  BY <1>3 DEF Closes
<1>5. /\ d \in Connection /\ d.at = "closing" /\ d.chain = c.chain /\ d.client = c.client
      /\ d.wbig = c.wbig /\ d.spill = c.spill
  BY <1>2, <1>3 DEF Connection
<1> HIDE DEF d
<1>6. Alike(c, d)
  BY <1>5 DEF Alike
<1>7. Takes(k, mem, d)
  BY <1>2, <1>3, <1>5, <1>6, OwnsAlike DEF Takes
<1>8. Stage(d)
  BY <1>2, <1>3, <1>4, <1>5 DEF Stage
<1>9. Lends(conn[k], keep) => Lends(d, keep)
  BY <1>3, <1>5, SameLoan
<1> QED
  BY <1>4, <1>5, <1>7, <1>8, <1>9, QuietStep

\* tls_spill_drain.
LEMMA DrainStep ==
  ASSUME IInv, NEW k \in Conn, Drain(k)
  PROVE  IInv'
<1>1. TypeOK /\ MemInv /\ JobInv
  BY DEF IInv
<1>2. Takes(k, mem, conn[k]) /\ Stage(conn[k]) /\ conn[k] \in Connection
  BY <1>1, Split
<1>3. PICK c, m : c = conn[k] /\ m = tls_release_spill(mem, c)
  OBVIOUS
<1> DEFINE d == [c EXCEPT !.spill = NULL]
<1>4. /\ Becomes(k, d, m) /\ c.at \in {"open", "writing"} /\ job.who = Nobody /\ job' = job
      /\ keep' = keep
  BY <1>3 DEF Drain
<1>5. /\ d \in Connection /\ d.at = c.at /\ d.chain = c.chain /\ d.client = c.client
      /\ d.wbig = c.wbig /\ d.spill = NULL /\ d.shape = c.shape
  BY <1>2, <1>3 DEF Connection
<1> HIDE DEF d
<1>6. Takes(k, m, d) /\ m.bigcap = mem.bigcap
  BY <1>2, <1>3, <1>5, OwnsSpillRelease DEF Takes
<1>7. Stage(d)
  BY <1>2, <1>3, <1>4, <1>5 DEF Stage
<1>8. Lends(conn[k], keep) => Lends(d, keep)
  BY <1>3, <1>5, SameLoan
<1>9. d.at = "writing" => Len(d.chain) <= TLS_WSEG_MAX /\ InOrder(d, Total(d.shape))
  BY <1>1, <1>3, <1>5, SameRuns DEF JobInv
<1>10. d.at # "encrypting"
  BY <1>4, <1>5
<1> QED
  BY <1>4, <1>6, <1>7, <1>8, <1>9, <1>10, QuietStep

\* tls_spill_stash.
LEMMA StashStep ==
  ASSUME IInv, NEW k \in Conn, Stash(k)
  PROVE  IInv'
<1>1. TypeOK /\ MemInv /\ JobInv
  BY DEF IInv
<1>2. Takes(k, mem, conn[k]) /\ Stage(conn[k]) /\ conn[k] \in Connection
  BY <1>1, Split
<1>3. PICK c : c = conn[k]
  OBVIOUS
<1>4. PICK g \in tls_spill_get(mem) :
        Becomes(k, IF g.ptr = NULL /\ c.at = "open" THEN [c EXCEPT !.at = "closing"]
                                                    ELSE [c EXCEPT !.spill = g.ptr], g.mem)
  BY <1>3 DEF Stash
<1>5. /\ c.at \in {"open", "writing"} /\ job.who = Nobody /\ job' = job /\ keep' = keep
      /\ c.spill = NULL
  BY <1>3 DEF Stash
<1> DEFINE d == IF g.ptr = NULL /\ c.at = "open" THEN [c EXCEPT !.at = "closing"]
                                                 ELSE [c EXCEPT !.spill = g.ptr]
<1>6. \/ g.ptr = NULL /\ g.mem = mem
      \/ /\ g.ptr \in Heap /\ g.mem.bigcap = mem.bigcap
         /\ \A x \in Connection :
              /\ x.client = c.client /\ x.spill = g.ptr /\ x.wbig = c.wbig /\ x.chain = c.chain
              => Takes(k, g.mem, x)
  BY <1>2, <1>3, <1>5, OwnsSpill DEF Takes
<1>7. /\ d \in Connection /\ d.at \in {c.at, "closing"} /\ d.chain = c.chain
      /\ d.client = c.client /\ d.wbig = c.wbig /\ d.spill = g.ptr /\ d.shape = c.shape
  <2>1. g.ptr \in Heap \cup {NULL}
    BY <1>6
  <2>2. [c EXCEPT !.at = "closing"] \in Connection /\ [c EXCEPT !.spill = g.ptr] \in Connection
    BY <1>2, <1>3, <2>1 DEF Connection
  <2> QED
    BY <1>2, <1>3, <1>5, <2>2 DEF Connection
<1>8. Becomes(k, d, g.mem)
  BY <1>4
<1> HIDE DEF d
<1>9. Takes(k, g.mem, d) /\ g.mem.bigcap = mem.bigcap
  <2>1. CASE g.ptr = NULL /\ g.mem = mem
    <3>1. Alike(c, d)
      BY <1>5, <1>7, <2>1 DEF Alike
    <3> QED
      BY <1>2, <1>3, <1>7, <2>1, <3>1, OwnsAlike DEF Takes
  <2> QED
    BY <1>6, <1>7, <2>1
<1>10. Stage(d)
  BY <1>2, <1>3, <1>5, <1>7 DEF Stage
<1>11. Lends(conn[k], keep) => Lends(d, keep)
  BY <1>3, <1>7, SameLoan
<1>12. d.at = "writing" => Len(d.chain) <= TLS_WSEG_MAX /\ InOrder(d, Total(d.shape))
  BY <1>1, <1>3, <1>7, SameRuns DEF JobInv
<1>13. d.at # "encrypting"
  BY <1>5, <1>7
<1> QED
  BY <1>5, <1>8, <1>9, <1>10, <1>11, <1>12, <1>13, QuietStep

\* A fresh block as a segment.
LEMMA FreshSegment ==
  ASSUME NEW a \in Heap
  PROVE  /\ tls_wseg_open(a) \in Segment /\ tls_wseg_open(a).block = a /\ tls_wseg_open(a).base = a
         /\ tls_wseg_open(a).cap = TLS_WBUF_SIZE /\ tls_wseg_open(a).off = 0
         /\ tls_wseg_open(a).data = <<>>
BY PoolsAssumption DEF tls_wseg_open, Segment

\* A connection with another chain is still one.
LEMMA ConnUpdates ==
  ASSUME NEW c \in Connection, NEW ch \in Seq(Segment)
  PROVE  LET d == [c EXCEPT !.chain = ch]
         IN /\ d \in Connection /\ d.client = c.client /\ d.spill = c.spill /\ d.wbig = c.wbig
            /\ d.chain = ch /\ d.at = c.at /\ d.shape = c.shape
BY DEF Connection

\* And with nothing to write.
LEMMA ReleasedConn ==
  ASSUME NEW c \in Connection
  PROVE  /\ Released(c) \in Connection /\ Released(c).client = c.client
         /\ Released(c).spill = c.spill /\ Released(c).chain = <<>> /\ Released(c).wbig = NULL
<1>1. <<>> \in Seq(Segment) /\ <<0, 0>> \in Shapes \cup {<<0, 0>>} /\ NULL \in Heap \cup {NULL}
  OBVIOUS
<1>2. Released(c) \in Connection
  BY <1>1, ZenonT(40) DEF Connection, Released
<1> QED
  BY <1>2 DEF Connection, Released

\* tls_send_final takes a block at most, and leaves it with the connection.
LEMMA SendFinalTakes ==
  ASSUME NEW k \in Conn, NEW m, NEW c, Takes(k, m, c), c.chain = <<>>, c.wbig = NULL,
         c.client # NULL, SendFinal(m, k, c)
  PROVE  \E n, d : /\ Becomes(k, d, n) /\ Takes(k, n, d) /\ Stage(d) /\ n.bigcap = m.bigcap
                   /\ d.at \in {"final", "closing"}
<1>1. PICK g \in tls_wbuf_get(m) :
        LET seg == tls_wseg_open(g.ptr)
            d   == [c EXCEPT !.chain = <<seg>>]
        IN IF g.ptr = NULL THEN Becomes(k, [c EXCEPT !.at = "closing"], g.mem)
           ELSE \E r \in ptls_send_v(g.mem, seg, NULL, <<>>, 1) :
                  \E how \in IF r.ok THEN {"final", "closing"} ELSE {"closing"} :
                    Becomes(k, [d EXCEPT !.at = how, !.chain = <<r.seg>>], r.mem)
  BY DEF SendFinal
<1>2. c \in Connection
  BY DEF Takes, Owns
<1>3. PICK x : x = g.mem
  OBVIOUS
<1>4. \/ g.ptr = NULL /\ x = m
      \/ /\ g.ptr \in Heap /\ x.bigcap = m.bigcap
         /\ \A d \in Connection :
              /\ d.client = c.client /\ d.spill = c.spill /\ d.wbig = c.wbig
              /\ d.chain = Append(c.chain, tls_wseg_open(g.ptr))
              => Takes(k, x, d)
  BY <1>3, OwnsBlock DEF Takes
<1>5. CASE g.ptr = NULL /\ x = m
  <2> DEFINE d == [c EXCEPT !.at = "closing"]
  <2>1. /\ d \in Connection /\ d.at = "closing" /\ d.client = c.client /\ d.spill = c.spill
        /\ d.wbig = c.wbig /\ d.chain = c.chain
    BY <1>2 DEF Connection
  <2>2. Becomes(k, d, m)
    BY <1>1, <1>3, <1>5
  <2> HIDE DEF d
  <2>3. Alike(c, d)
    BY <2>1 DEF Alike
  <2>4. Takes(k, m, d)
    BY <2>1, <2>3, OwnsAlike DEF Takes
  <2>5. Stage(d)
    BY <2>1 DEF Stage
  <2> QED
    BY <2>1, <2>2, <2>4, <2>5
<1>6. CASE g.ptr \in Heap
  <2>0. PICK s : s = tls_wseg_open(g.ptr)
    OBVIOUS
  <2> DEFINE e == [c EXCEPT !.chain = <<s>>]
  <2>1. s \in Segment
    BY <1>6, <2>0, FreshSegment
  <2>2. /\ e \in Connection /\ e.client = c.client /\ e.spill = c.spill /\ e.wbig = NULL
        /\ e.chain = <<s>>
    <3>1. <<s>> \in Seq(Segment)
      BY <2>1
    <3> QED
      BY <1>2, <3>1, ConnUpdates
  <2>3. PICK r \in ptls_send_v(x, s, NULL, <<>>, 1) :
          \E how \in {"final", "closing"} : Becomes(k, [e EXCEPT !.at = how, !.chain = <<r.seg>>], r.mem)
    BY <1>1, <1>3, <1>6, <2>0, Addresses
  <2>4. PICK how \in {"final", "closing"} : Becomes(k, [e EXCEPT !.at = how, !.chain = <<r.seg>>], r.mem)
    BY <2>3
  <2>5. Takes(k, x, e)
    <3>1. Append(<<>>, s) = <<s>>
      OBVIOUS
    <3> HIDE DEF e
    <3> QED
      BY <1>4, <1>6, <2>0, <2>2, <3>1, Addresses
  <2>6. <<>> \in Runs /\ 1 \in Nat \ {0}
    BY DEF Runs
  <2>7. x \in Memory
    BY <2>5, HeldSets DEF Takes, Owns
  <2>8. Outcome(x, s, NULL, <<>>, r)
    BY <2>1, <2>6, <2>7, SendOutcome
  <2>9. PICK t : t = r.seg /\ t \in Segment
    BY <2>8 DEF Outcome
  <2> DEFINE d == [e EXCEPT !.at = how, !.chain = <<t>>]
  <2> HIDE DEF e
  <2>10. /\ d \in Connection /\ d.client = e.client /\ d.spill = e.spill /\ d.wbig = e.wbig
         /\ d.chain = <<t>> /\ d.at = how
    <3>1. PICK ch, w : ch = <<t>> /\ w = how
      OBVIOUS
    <3>2. ch \in Seq(Segment) /\ w \in {"none", "open", "encrypting", "writing", "final", "closing"}
      BY <2>9, <3>1
    <3>3. LET x1 == [e EXCEPT !.at = w, !.chain = ch]
          IN /\ x1 \in Connection /\ x1.client = e.client /\ x1.spill = e.spill
             /\ x1.wbig = e.wbig /\ x1.chain = ch /\ x1.at = w
      BY <2>2, <3>2 DEF Connection
    <3> QED
      BY <3>1, <3>3
  <2>11. Becomes(k, d, r.mem)
    BY <2>4, <2>9
  <2> HIDE DEF d
  <2>12. Len(e.chain) = 1 /\ e.chain[1] = s /\ Len(d.chain) = 1 /\ d.chain[1] = t
    BY <2>2, <2>10
  <2>13. Rewritten(e, r.seg, d)
    BY <2>9, <2>10, <2>12 DEF Rewritten
  <2>14. r \in ptls_send_v(x, e.chain[Len(e.chain)], e.wbig, <<>>, 1) /\ Len(e.chain) > 0
    BY <2>2, <2>12
  <2>15. Takes(k, r.mem, d) /\ r.mem.bigcap = x.bigcap
    BY <2>5, <2>6, <2>10, <2>13, <2>14, OwnsSend DEF Takes
  <2>16. Stage(d)
    BY <2>2, <2>4, <2>10 DEF Stage
  <2> QED
    BY <1>4, <1>6, <2>4, <2>10, <2>11, <2>15, <2>16, Addresses
<1> QED
  BY <1>4, <1>5, <1>6

\* The slot is at least what the history says, once the buffer is back.
LEMMA KeepHolds ==
  ASSUME IInv, NEW k \in Conn, NEW c, c = conn[k], NEW m, m.bigcap \in Nat,
         m.bigcap >= mem.bigcap,
         (c.wbig = NULL \/ c.chain[1].base # c.wbig) => m.bigcap = mem.bigcap,
         (/\ c.wbig # NULL /\ c.chain[1].base = c.wbig
          /\ c.chain[1].cap <= TLS_BIGBUF_KEEP_MAX) => m.bigcap >= c.chain[1].cap
  PROVE  /\ KeepAfter(c, m) \in Nat
         /\ mem.bigcap >= keep \/ Lends(c, keep) => m.bigcap >= KeepAfter(c, m)
         /\ KeepAfter(c, m) = keep \/ m.bigcap >= KeepAfter(c, m)
<1>1. TypeOK /\ MemInv
  BY DEF IInv
<1>2. c \in Connection /\ Stage(c) /\ mem.bigcap \in Nat
  BY <1>1, Split
<1>3. keep \in Nat /\ TLS_BIGBUF_KEEP_MAX \in Nat
  BY <1>1, PoolsAssumption DEF TypeOK
<1> DEFINE own == {i \in DOMAIN c.chain : c.wbig # NULL /\ c.chain[i].base = c.wbig}
           cap == IF own = {} THEN 0 ELSE c.chain[CHOOSE i \in own : TRUE].cap
<1>4. KeepAfter(c, m) = IF c.wbig # NULL /\ own = {} THEN m.bigcap
                        ELSE IF cap > keep /\ cap <= TLS_BIGBUF_KEEP_MAX THEN cap ELSE keep
  BY DEF KeepAfter
<1>5. CASE c.wbig = NULL
  <2>1. own = {} /\ cap = 0
    BY <1>5
  <2>2. KeepAfter(c, m) = keep
    BY <1>3, <1>4, <1>5, <2>1
  <2> QED
    BY <1>3, <1>5, <2>2 DEF Lends
<1>6. CASE c.wbig # NULL
  <2>1. Len(c.chain) = 1 /\ DOMAIN c.chain = {1} /\ c.chain[1].cap \in Nat
    BY <1>2, <1>6, ConnFields DEF Stage
  <2>2. CASE c.chain[1].base = c.wbig
    <3>1. own = {1}
      BY <1>6, <2>1, <2>2
    <3>2. cap = c.chain[1].cap
      BY <3>1
    <3> HIDE DEF own, cap
    <3>3. PICK z : z = c.chain[1].cap
      OBVIOUS
    <3>4. KeepAfter(c, m) = IF z > keep /\ z <= TLS_BIGBUF_KEEP_MAX THEN z ELSE keep
      BY <1>4, <3>1, <3>2, <3>3
    <3>5. z \in Nat /\ (z <= TLS_BIGBUF_KEEP_MAX => m.bigcap >= z)
      BY <1>6, <2>1, <2>2, <3>3
    <3>6. Lends(c, keep) => keep <= z /\ z <= TLS_BIGBUF_KEEP_MAX
      BY <1>3, <2>2, <3>3, <3>5 DEF Lends
    <3> QED
      BY <1>2, <1>3, <3>4, <3>5, <3>6
  <2>3. CASE c.chain[1].base # c.wbig
    <3>1. own = {}
      BY <2>1, <2>3
    <3>2. KeepAfter(c, m) = m.bigcap
      BY <1>4, <1>6, <3>1
    <3> QED
      BY <3>2
  <2> QED
    BY <2>2, <2>3
<1> QED
  BY <1>5, <1>6

\* on_close.
LEMMA OnCloseStep ==
  ASSUME IInv, NEW k \in Conn, OnClose(k)
  PROVE  IInv'
<1>1. TypeOK /\ MemInv
  BY DEF IInv
<1>2. Takes(k, mem, conn[k]) /\ Stage(conn[k]) /\ conn[k] \in Connection
  BY <1>1, Split
<1>3. PICK c, m : c = conn[k] /\ m = client_free(tls_conn_free(mem, c), c.client)
  OBVIOUS
<1>4. /\ Becomes(k, NoConn, m) /\ keep' = KeepAfter(c, m) /\ job.who = Nobody /\ job' = job
      /\ c.at = "closing"
  BY <1>3 DEF OnClose
<1>5. c.client # NULL
  BY <1>2, <1>3, <1>4 DEF Stage
<1>6. /\ Takes(k, m, NoConn) /\ m.bigcap >= mem.bigcap
      /\ (c.wbig = NULL \/ c.chain[1].base # c.wbig) => m.bigcap = mem.bigcap
      /\ (/\ c.wbig # NULL /\ c.chain[1].base = c.wbig
          /\ c.chain[1].cap <= TLS_BIGBUF_KEEP_MAX) => m.bigcap >= c.chain[1].cap
  BY <1>2, <1>3, <1>5, OwnsClose DEF Takes
<1>7. m.bigcap \in Nat
  BY <1>6, HeldSets, MemFields DEF Takes, Owns
<1>8. /\ keep' \in Nat
      /\ mem.bigcap >= keep \/ Lends(c, keep) => m.bigcap >= keep'
      /\ keep' = keep \/ m.bigcap >= keep'
  BY <1>3, <1>4, <1>6, <1>7, KeepHolds
<1>9. Stage(NoConn) /\ NoConn.at = "none"
  BY DEF Stage, NoConn
<1>10. job' \in Job /\ job'.who # k
  BY <1>1, <1>4, PoolsAssumption DEF TypeOK
<1> QED
  BY <1>3, <1>4, <1>6, <1>8, <1>9, <1>10, Step

\* What is left after the chain went back.
LEMMA ReleasedTakes ==
  ASSUME IInv, NEW k \in Conn, NEW c, NEW m, c = conn[k], m = tls_release_wbuf(mem, c)
  PROVE  /\ m.bigcap \in Nat /\ m.bigcap >= mem.bigcap
         /\ (c.wbig = NULL \/ c.chain[1].base # c.wbig) => m.bigcap = mem.bigcap
         /\ (/\ c.wbig # NULL /\ c.chain[1].base = c.wbig
             /\ c.chain[1].cap <= TLS_BIGBUF_KEEP_MAX) => m.bigcap >= c.chain[1].cap
         /\ \A d \in Connection :
              d.client = c.client /\ d.spill = c.spill /\ d.chain = <<>> /\ d.wbig = NULL
              => Takes(k, m, d)
<1>1. TypeOK /\ MemInv
  BY DEF IInv
<1>2. Takes(k, mem, c) /\ Stage(c) /\ c \in Connection
  BY <1>1, Split
<1>3. \A d \in Connection :
        d.client = c.client /\ d.spill = c.spill /\ d.chain = <<>> /\ d.wbig = NULL
        => Takes(k, m, d)
  BY <1>2, OwnsRelease DEF Takes
<1>4. PICK W, B, O : /\ Held(mem, W, B, O) /\ Tidy(c) /\ Blocks(c) \subseteq W /\ Bigs(c) \subseteq B
                     /\ Swaps(c) \subseteq O
  <2>1. /\ Held(mem, RestBlocks(k) \cup Blocks(c), RestBigs(k) \cup Bigs(c),
                RestOthers(k) \cup Others(c))
        /\ Tidy(c)
    BY <1>2 DEF Takes, Owns
  <2>2. /\ Blocks(c) \subseteq RestBlocks(k) \cup Blocks(c) /\ Bigs(c) \subseteq RestBigs(k) \cup Bigs(c)
        /\ Swaps(c) \subseteq RestOthers(k) \cup Others(c)
    BY DEF Others
  <2> QED
    BY <2>1, <2>2
<1>5. /\ Held(m, W \ Blocks(c), B \ Bigs(c), O \ Swaps(c)) /\ m.bigcap >= mem.bigcap
      /\ (c.wbig = NULL \/ c.chain[1].base # c.wbig) => m.bigcap = mem.bigcap
      /\ (/\ c.wbig # NULL /\ c.chain[1].base = c.wbig
          /\ c.chain[1].cap <= TLS_BIGBUF_KEEP_MAX) => m.bigcap >= c.chain[1].cap
  BY <1>2, <1>4, ReleaseHeld, SMTT(60)
<1>6. m.bigcap \in Nat
  BY <1>5, HeldSets, MemFields
<1> QED
  BY <1>3, <1>5, <1>6

\* on_final_write.
LEMMA OnFinalWriteStep ==
  ASSUME IInv, NEW k \in Conn, OnFinalWrite(k)
  PROVE  IInv'
<1>1. TypeOK /\ MemInv
  BY DEF IInv
<1>2. Takes(k, mem, conn[k]) /\ Stage(conn[k]) /\ conn[k] \in Connection
  BY <1>1, Split
<1>3. PICK c, m : c = conn[k] /\ m = tls_release_wbuf(mem, c)
  OBVIOUS
<1> DEFINE e == Released(c)
           d == [e EXCEPT !.at = "closing"]
<1>4. Becomes(k, d, m) /\ job.who = Nobody /\ job' = job /\ keep' = keep /\ c.at = "final"
  BY <1>3 DEF OnFinalWrite
<1>5. /\ e \in Connection /\ e.client = c.client /\ e.spill = c.spill /\ e.chain = <<>>
      /\ e.wbig = NULL
  BY <1>2, <1>3, ReleasedConn
<1> HIDE DEF e
<1>6. /\ d \in Connection /\ d.client = c.client /\ d.spill = c.spill /\ d.chain = <<>>
      /\ d.wbig = NULL /\ d.at = "closing"
  BY <1>5 DEF Connection
<1> HIDE DEF d
<1>7. c.wbig = NULL /\ c.client # NULL
  BY <1>2, <1>3, <1>4 DEF Stage
<1>8. Takes(k, m, d) /\ m.bigcap = mem.bigcap
  BY <1>3, <1>6, <1>7, ReleasedTakes
<1>9. Stage(d)
  BY <1>6, <1>7 DEF Stage
<1>10. ~Lends(conn[k], keep)
  BY <1>3, <1>7 DEF Lends
<1> QED
  BY <1>4, <1>6, <1>8, <1>9, <1>10, QuietStep

\* The 400 of http_dispatch.
LEMMA BadRequestStep ==
  ASSUME IInv, NEW k \in Conn, BadRequest(k)
  PROVE  IInv'
<1>1. TypeOK /\ MemInv
  BY DEF IInv
<1>2. Takes(k, mem, conn[k]) /\ Stage(conn[k])
  BY <1>1, Split
<1>3. PICK c : c = conn[k]
  OBVIOUS
<1>4. /\ SendFinal(mem, k, c) /\ c.at = "open" /\ job.who = Nobody /\ job' = job /\ keep' = keep
  BY <1>3 DEF BadRequest
<1>5. c.chain = <<>> /\ c.wbig = NULL /\ c.client # NULL
  BY <1>2, <1>3, <1>4 DEF Stage
<1>6. PICK n, d : /\ Becomes(k, d, n) /\ Takes(k, n, d) /\ Stage(d) /\ n.bigcap = mem.bigcap
                  /\ d.at \in {"final", "closing"}
  BY <1>2, <1>3, <1>4, <1>5, SendFinalTakes
<1>7. ~Lends(conn[k], keep)
  BY <1>3, <1>5 DEF Lends
<1> QED
  BY <1>4, <1>6, <1>7, QuietStep

\* on_write.
LEMMA OnWriteStep ==
  ASSUME IInv, NEW k \in Conn, OnWrite(k)
  PROVE  IInv'
<1>1. TypeOK /\ MemInv
  BY DEF IInv
<1>2. Takes(k, mem, conn[k]) /\ Stage(conn[k]) /\ conn[k] \in Connection
  BY <1>1, Split
<1>3. PICK c, m, e : c = conn[k] /\ m = tls_release_wbuf(mem, c) /\ e = Released(c)
  OBVIOUS
<1>4. /\ \/ Becomes(k, [e EXCEPT !.at = "open"], m)
         \/ SendFinal(m, k, e)
         \/ Becomes(k, [e EXCEPT !.at = "closing"], m)
      /\ keep' = KeepAfter(c, m) /\ job.who = Nobody /\ job' = job /\ c.at = "writing"
  BY <1>3 DEF OnWrite
<1>5. /\ e \in Connection /\ e.client = c.client /\ e.spill = c.spill /\ e.chain = <<>>
      /\ e.wbig = NULL
  BY <1>2, <1>3, ReleasedConn
<1>6. c.client # NULL
  BY <1>2, <1>3, <1>4 DEF Stage
<1>7. /\ m.bigcap \in Nat /\ m.bigcap >= mem.bigcap
      /\ (c.wbig = NULL \/ c.chain[1].base # c.wbig) => m.bigcap = mem.bigcap
      /\ (/\ c.wbig # NULL /\ c.chain[1].base = c.wbig
          /\ c.chain[1].cap <= TLS_BIGBUF_KEEP_MAX) => m.bigcap >= c.chain[1].cap
      /\ \A d \in Connection :
           d.client = c.client /\ d.spill = c.spill /\ d.chain = <<>> /\ d.wbig = NULL
           => Takes(k, m, d)
  BY <1>3, ReleasedTakes
<1>8. /\ keep' \in Nat
      /\ mem.bigcap >= keep \/ Lends(c, keep) => m.bigcap >= keep'
      /\ keep' = keep \/ m.bigcap >= keep'
  BY <1>3, <1>4, <1>7, KeepHolds
<1>9. job' \in Job /\ job'.who = Nobody /\ job'.who # k
  BY <1>1, <1>4, PoolsAssumption DEF TypeOK
<1>10. PICK n, d : /\ Becomes(k, d, n) /\ Takes(k, n, d) /\ Stage(d) /\ n.bigcap = m.bigcap
                   /\ d.at \in {"open", "final", "closing"}
  <2>1. ASSUME NEW how \in {"open", "closing"}, Becomes(k, [e EXCEPT !.at = how], m)
        PROVE  \E n, d : /\ Becomes(k, d, n) /\ Takes(k, n, d) /\ Stage(d) /\ n.bigcap = m.bigcap
                         /\ d.at \in {"open", "final", "closing"}
    <3> DEFINE d == [e EXCEPT !.at = how]
    <3>1. /\ d \in Connection /\ d.client = c.client /\ d.spill = c.spill /\ d.chain = <<>>
          /\ d.wbig = NULL /\ d.at = how
      BY <1>5 DEF Connection
    <3>2. Becomes(k, d, m)
      BY <2>1
    <3> HIDE DEF d
    <3>3. Takes(k, m, d) /\ Stage(d)
      BY <1>6, <1>7, <3>1 DEF Stage
    <3> QED
      BY <3>1, <3>2, <3>3
  <2>2. CASE SendFinal(m, k, e)
    <3>1. Takes(k, m, e)
      BY <1>5, <1>7
    <3>2. \E n, d : /\ Becomes(k, d, n) /\ Takes(k, n, d) /\ Stage(d) /\ n.bigcap = m.bigcap
                    /\ d.at \in {"final", "closing"}
      BY <1>5, <1>6, <2>2, <3>1, SendFinalTakes
    <3> QED
      BY <3>2
  <2> QED
    BY <1>4, <2>1, <2>2
<1>11. mem.bigcap >= keep \/ Lends(conn[k], keep) => n.bigcap >= keep'
  BY <1>3, <1>8, <1>10
<1>12. keep' = keep \/ n.bigcap >= keep'
  BY <1>8, <1>10
<1>13. d.at # "encrypting" /\ d.at # "writing" /\ job.who \in {Nobody, k} /\ job'.who \in {Nobody, k}
  BY <1>4, <1>9, <1>10
<1> QED
  BY <1>8, <1>9, <1>10, <1>11, <1>12, <1>13, Step

-----------------------------------------------------------------------------
(* The sizing *)

\* Division, as the sizing uses it.
LEMMA Division ==
  ASSUME NEW a \in Nat, NEW M \in Nat, M > 0
  PROVE  a \div M \in Nat /\ (a \div M) * M <= a /\ a < (a \div M) * M + M
OBVIOUS

\* Multiples of one number are ordered as their factors are.
LEMMA Multiples ==
  ASSUME NEW x \in Int, NEW y \in Int, NEW M \in Nat, M > 0, x * M < y * M
  PROVE  x < y
<1> SUFFICES ASSUME x >= y
             PROVE  FALSE
  OBVIOUS
<1>1. PICK z \in Nat : x = y + z
  <2>1. x - y \in Nat /\ x = y + (x - y)
    OBVIOUS
  <2> QED
    BY <2>1
<1>2. x * M = y * M + z * M
  BY <1>1
<1>3. z * M >= 0 /\ y * M \in Int /\ z * M \in Int
  BY <1>1
<1> QED
  BY <1>2, <1>3

\* A chunk that fits one record takes one.
LEMMA OneRecord ==
  ASSUME NEW chunk \in Nat, chunk > 0, chunk <= TLS_MAX_RECORD_PLAINTEXT
  PROVE  (chunk + TLS_MAX_RECORD_PLAINTEXT - 1) \div TLS_MAX_RECORD_PLAINTEXT = 1
<1>1. PICK M, q : M = TLS_MAX_RECORD_PLAINTEXT /\ q = (chunk + M - 1) \div M
  OBVIOUS
<1>2. M \in Nat /\ M > 0 /\ chunk + M - 1 \in Nat
  BY <1>1, PoolsAssumption
<1>3. q \in Nat /\ q * M <= chunk + M - 1 /\ chunk + M - 1 < q * M + M
  BY <1>1, <1>2, Division
<1>4. q * M \in Int /\ (q + 1) * M = q * M + M /\ 1 * M = M /\ 2 * M = M + M
  BY <1>2, <1>3
<1>5. 1 * M < (q + 1) * M /\ q * M < 2 * M
  BY <1>1, <1>2, <1>3, <1>4
<1>6. 1 < q + 1 /\ q < 2
  BY <1>2, <1>3, <1>5, Multiples
<1> QED
  BY <1>1, <1>3, <1>6

\* Counting records bounds the stream: that many full ones hold it.
LEMMA CountBounds ==
  ASSUME NEW n \in Nat, NEW b \in Nat, NEW len \in Nat, tls_record_count(n) <= b,
         len * TLS_MAX_RECORD_PLAINTEXT < n
  PROVE  len < b
<1>1. PICK M, q : M = TLS_MAX_RECORD_PLAINTEXT /\ q = tls_record_count(n)
  OBVIOUS
<1>2. M \in Nat /\ M > 0 /\ n + M - 1 \in Nat /\ q = (n + M - 1) \div M
  BY <1>1, PoolsAssumption DEF tls_record_count
<1>3. q \in Nat /\ q * M <= n + M - 1 /\ n + M - 1 < q * M + M
  BY <1>2, Division
<1>4. q * M \in Int /\ len * M \in Int
  BY <1>2, <1>3
<1>5. len * M < q * M
  BY <1>1, <1>2, <1>3, <1>4
<1>6. len < q
  BY <1>2, <1>3, <1>5, Multiples
<1> QED
  BY <1>1, <1>3, <1>6

\* tls_encrypted_size is enough for the records that picotls makes of it.
LEMMA SizeIsEnough ==
  ASSUME NEW s, s.off = 0, NEW n \in Nat
  PROVE  SizeAfter(s, n) <= tls_encrypted_size(n)
<1>1. PICK M, H, q, p : /\ M = TLS_MAX_RECORD_PLAINTEXT /\ H = Overhead
                        /\ q = (n + M - 1) \div M /\ p = n \div M
  OBVIOUS
<1>2. M \in Nat /\ M > 0 /\ n + M - 1 \in Nat /\ H \in Nat
  BY <1>1, PoolsAssumption
<1>3. q \in Nat /\ q * M <= n + M - 1
  BY <1>1, <1>2, Division
<1>4. p \in Nat /\ n < p * M + M
  BY <1>1, <1>2, Division
<1>5. q * M \in Int /\ p * M \in Int /\ (p + 2) * M = p * M + M + M
  BY <1>2, <1>3, <1>4
<1>6. q * M < (p + 2) * M
  BY <1>2, <1>3, <1>4, <1>5
<1>7. q < p + 2
  BY <1>2, <1>3, <1>4, <1>6, Multiples
<1>8. PICK z \in Nat : p + 1 = q + z
  <2>1. (p + 1) - q \in Nat /\ p + 1 = q + ((p + 1) - q)
    BY <1>3, <1>4, <1>7
  <2> QED
    BY <2>1
<1>9. (p + 1) * H = H * q + z * H /\ z * H >= 0 /\ H * q \in Int /\ z * H \in Int
  BY <1>2, <1>3, <1>4, <1>8
<1>10. SizeAfter(s, n) = 0 + n + H * q /\ tls_encrypted_size(n) = n + (p + 1) * H
  BY <1>1 DEF SizeAfter, tls_encrypted_size
<1>11. PICK u, v, w : u = H * q /\ v = (p + 1) * H /\ w = z * H
  OBVIOUS
<1>12. v = u + w /\ w >= 0 /\ u \in Int /\ w \in Int
  BY <1>9, <1>11
<1>13. 0 + n + u <= n + v
  BY <1>12
<1> QED
  BY <1>10, <1>11, <1>13

\* It is a number, and no less than what is encrypted.
LEMMA SizeIsNatural ==
  ASSUME NEW n \in Nat
  PROVE  tls_encrypted_size(n) \in Nat /\ tls_encrypted_size(n) >= n
<1>1. PICK M, H, p : M = TLS_MAX_RECORD_PLAINTEXT /\ H = Overhead /\ p = n \div M
  OBVIOUS
<1>2. M \in Nat /\ M > 0 /\ H \in Nat /\ p \in Nat
  BY <1>1, PoolsAssumption, Division
<1>3. (p + 1) * H \in Nat
  BY <1>2
<1>4. tls_encrypted_size(n) = n + (p + 1) * H
  BY <1>1 DEF tls_encrypted_size
<1> QED
  BY <1>3, <1>4

-----------------------------------------------------------------------------
(* The runs of plaintext *)

\* The runs of data lead from one place in the response to another.
Chained(c, data, from, to) ==
  /\ data # <<>>
  /\ \A j \in DOMAIN data :
       /\ data[j][1] \in 1..2 /\ data[j][2] + data[j][3] <= c.shape[data[j][1]]
       /\ From(c, data[j]) = IF j > 1 THEN To(c, data[j - 1]) ELSE from
  /\ To(c, Last(data)) = to

\* Putting two such sequences together.
LEMMA ChainedJoin ==
  ASSUME NEW c, NEW x \in Runs, NEW y \in Runs, NEW f, NEW g, NEW h,
         Chained(c, x, f, g), Chained(c, y, g, h)
  PROVE  Chained(c, x \o y, f, h)
<1> DEFINE z == x \o y
<1>1. PICK n, k : n = Len(x) /\ k = Len(y)
  OBVIOUS
<1>2. /\ n \in Nat /\ k \in Nat /\ n > 0 /\ k > 0 /\ DOMAIN x = 1..n /\ DOMAIN y = 1..k
  BY <1>1, SMTT(60) DEF Chained, Runs
<1>3. /\ z \in Runs /\ Len(z) = n + k /\ DOMAIN z = 1..(n + k)
      /\ \A j \in 1..(n + k) : z[j] = IF j <= n THEN x[j] ELSE y[j - n]
  BY <1>1 DEF Runs
<1> HIDE DEF z
<1>4. z # <<>>
  BY <1>2, <1>3
<1>5. Last(z) = Last(y) /\ Last(x) = x[n]
  <2>1. n + k \in 1..(n + k) /\ ~(n + k <= n) /\ (n + k) - n = k
    BY <1>2
  <2> QED
    BY <1>1, <1>3, <2>1 DEF Last
<1>6. ASSUME NEW j \in 1..(n + k)
      PROVE  /\ z[j][1] \in 1..2 /\ z[j][2] + z[j][3] <= c.shape[z[j][1]]
             /\ From(c, z[j]) = IF j > 1 THEN To(c, z[j - 1]) ELSE f
  <2>1. CASE j <= n
    <3>1. j \in DOMAIN x /\ z[j] = x[j]
      BY <1>2, <1>3, <2>1
    <3>2. j > 1 => z[j - 1] = x[j - 1]
      BY <1>2, <1>3, <2>1
    <3> QED
      BY <3>1, <3>2 DEF Chained
  <2>2. CASE j > n
    <3>1. j - n \in DOMAIN y /\ z[j] = y[j - n] /\ j > 1
      BY <1>2, <1>3, <2>2
    <3>2. PICK i : i = j - n
      OBVIOUS
    <3>3. i \in DOMAIN y /\ z[j] = y[i]
      BY <3>1, <3>2
    <3>4. z[j - 1] = IF i > 1 THEN y[i - 1] ELSE x[n]
      <4>1. j - 1 \in 1..(n + k) /\ i \in 1..k
        BY <1>2, <2>2, <3>2
      <4>2. CASE i > 1
        <5>1. ~(j - 1 <= n) /\ (j - 1) - n = i - 1
          BY <1>2, <3>2, <4>1, <4>2
        <5> QED
          BY <1>3, <4>1, <4>2, <5>1
      <4>3. CASE ~(i > 1)
        <5>1. j - 1 <= n /\ j - 1 = n
          BY <1>2, <3>2, <4>1, <4>3
        <5> QED
          BY <1>3, <4>1, <4>3, <5>1
      <4> QED
        BY <4>2, <4>3
    <3>5. From(c, y[i]) = IF i > 1 THEN To(c, y[i - 1]) ELSE To(c, x[n])
      BY <1>5, <3>3 DEF Chained
    <3>6. From(c, z[j]) = To(c, z[j - 1])
      BY <3>3, <3>4, <3>5
    <3> QED
      BY <3>1, <3>3, <3>6 DEF Chained
  <2> QED
    BY <1>2, <2>1, <2>2
<1>7. To(c, Last(z)) = h
  BY <1>5 DEF Chained
<1> QED
  BY <1>3, <1>4, <1>6, <1>7 DEF Chained, z

\* One block after another.
LEMMA InOrderChained ==
  ASSUME NEW c, NEW n
  PROVE  InOrder(c, n) <=>
           /\ \A i \in DOMAIN c.chain :
                Chained(c, c.chain[i].data,
                        IF i > 1 THEN To(c, Last(c.chain[i - 1].data)) ELSE 0,
                        To(c, Last(c.chain[i].data)))
           /\ c.chain # <<>> /\ To(c, Last(Last(c.chain).data)) = n
<1>1. ASSUME NEW i \in DOMAIN c.chain
      PROVE  LET data == c.chain[i].data IN
             (/\ data # <<>>
              /\ \A j \in DOMAIN data :
                   /\ data[j][1] \in 1..2 /\ data[j][2] + data[j][3] <= c.shape[data[j][1]]
                   /\ From(c, data[j]) = IF j > 1 THEN To(c, data[j - 1])
                                         ELSE IF i > 1 THEN To(c, Last(c.chain[i - 1].data)) ELSE 0)
             <=> Chained(c, data, IF i > 1 THEN To(c, Last(c.chain[i - 1].data)) ELSE 0,
                         To(c, Last(data)))
  BY DEF Chained
<1> QED
  BY <1>1 DEF InOrder

\* The two vectors of a response.
LEMMA ShapeFields ==
  ASSUME NEW c, c.shape \in Shapes
  PROVE  /\ c.shape[1] \in Nat /\ c.shape[1] > 0 /\ c.shape[2] \in Nat
         /\ Total(c.shape) = c.shape[1] + c.shape[2] /\ Total(c.shape) \in Nat
         /\ Total(c.shape) > 0
<1>1. c.shape \in (Nat \ {0}) \X Nat
  BY PoolsAssumption
<1> QED
  BY <1>1 DEF Total

\* A single run.
LEMMA OneRun ==
  ASSUME NEW c, c.shape \in Shapes, NEW o \in Nat, NEW t \in Nat, NEW v \in 1..2,
         o + t <= c.shape[v], NEW p, p = <<v, o, t>>,
         NEW a, a = IF v = 1 THEN o ELSE c.shape[1] + o, NEW b, b = a + t
  PROVE  <<p>> \in Runs /\ Chained(c, <<p>>, a, b)
<1>1. PICK q : q = <<p>>
  OBVIOUS
<1>2. p \in Nat \X Nat \X Nat /\ p[1] = v /\ p[2] = o /\ p[3] = t
  OBVIOUS
<1>3. q \in Runs /\ DOMAIN q = {1} /\ Len(q) = 1 /\ q[1] = p /\ q # <<>> /\ Last(q) = p
  BY <1>1, <1>2 DEF Runs, Last
<1>4. From(c, p) = a /\ To(c, p) = b
  BY <1>2 DEF From, To
<1>5. Chained(c, q, a, b)
  BY <1>2, <1>3, <1>4 DEF Chained
<1> QED
  BY <1>1, <1>3, <1>5

\* Two runs, one after the other.
LEMMA TwoRuns ==
  ASSUME NEW p, NEW q
  PROVE  <<p>> \o <<q>> = <<p, q>>
<1> DEFINE z == <<p>> \o <<q>>
           t == <<p, q>>
<1>1. PICK S : S = {p, q}
  OBVIOUS
<1>2. z \in Seq(S) /\ Len(z) = 2 /\ z[1] = p /\ z[2] = q
  BY <1>1
<1>3. t \in Seq(S) /\ Len(t) = 2 /\ t[1] = p /\ t[2] = q
  BY <1>1
<1> HIDE DEF z, t
<1>4. \A i \in 1..2 : z[i] = t[i]
  BY <1>2, <1>3
<1>5. z = t
  BY <1>2, <1>3, <1>4
<1> QED
  BY <1>5 DEF z, t

\* A slice of one cut, and of two.
LEMMA SliceOne ==
  ASSUME NEW s, NEW i, NEW o, NEW want, NEW a, a = Cut(s, i, o, want), a.left = 0
  PROVE  /\ tls_slice(s, i, o, want).parts = <<a.part>>
         /\ tls_slice(s, i, o, want).veci = a.veci /\ tls_slice(s, i, o, want).vecoff = a.vecoff
BY DEF tls_slice

\* tls_slice in two turns.
LEMMA SliceTwo ==
  ASSUME NEW s, NEW i, NEW o, NEW want, NEW a, a = Cut(s, i, o, want), a.left # 0,
         NEW b, b = Cut(s, a.veci, a.vecoff, a.left)
  PROVE  /\ tls_slice(s, i, o, want).parts = <<a.part, b.part>>
         /\ tls_slice(s, i, o, want).veci = b.veci /\ tls_slice(s, i, o, want).vecoff = b.vecoff
BY DEF tls_slice

\* What a slice is to be: the next chunk, and the cursor after it.
Sliced(c, off, chunk, cut) ==
  /\ cut.parts \in Runs /\ Chained(c, cut.parts, off, off + chunk)
  /\ cut.veci \in 1..3 /\ cut.vecoff \in Nat
  /\ \/ off + chunk = Total(c.shape)
     \/ off + chunk < c.shape[1] /\ cut.veci = 1 /\ cut.vecoff = off + chunk
     \/ /\ off + chunk < Total(c.shape) /\ cut.veci = 2 /\ off + chunk = c.shape[1] + cut.vecoff

\* tls_slice is that, across the end of the header too.
LEMMA SliceIsNext ==
  ASSUME NEW c, c.shape \in Shapes, NEW j \in Job, j.off < Total(c.shape), Cursor(c, j),
         NEW chunk \in Nat \ {0}, j.off + chunk <= Total(c.shape)
  PROVE  Sliced(c, j.off, chunk, tls_slice(c.shape, j.veci, j.vecoff, chunk))
<1>1. PICK s, x, y, off : s = c.shape /\ x = c.shape[1] /\ y = c.shape[2] /\ off = j.off
  OBVIOUS
<1>2. x \in Nat /\ x > 0 /\ y \in Nat /\ Total(c.shape) = x + y /\ s[1] = x /\ s[2] = y
  BY <1>1, ShapeFields
<1>3. off \in Nat /\ j.vecoff \in Nat /\ chunk \in Nat /\ chunk > 0
  BY <1>1 DEF Job
<1>4. ASSUME NEW v \in 1..2, NEW o \in Nat, j.veci = v, j.vecoff = o,
             off = IF v = 1 THEN o ELSE x + o, o + chunk <= c.shape[v]
      PROVE  Sliced(c, off, chunk, tls_slice(s, v, o, chunk))
  <2>1. PICK a, cut, p, n : /\ a = Cut(s, v, o, chunk) /\ cut = tls_slice(s, v, o, chunk)
                            /\ p = <<v, o, chunk>> /\ n = s[v]
    OBVIOUS
  <2>2. n \in Nat /\ n = (IF v = 1 THEN x ELSE y) /\ o + chunk <= n
    BY <1>1, <1>2, <1>4, <2>1
  <2>3. /\ a.part = p /\ a.left = 0
        /\ \/ o + chunk < n /\ a.veci = v /\ a.vecoff = o + chunk
           \/ o + chunk = n /\ a.veci = v + 1 /\ a.vecoff = 0
    <3>0. o \in Nat /\ n \in Nat /\ o + chunk <= n
      BY <1>4, <2>2
    <3>1. /\ (IF n - o < chunk THEN n - o ELSE chunk) = chunk /\ chunk - chunk = 0
          /\ (o + chunk < n \/ o + chunk = n)
      BY <1>3, <3>0
    <3>2. a = [part |-> <<v, o, chunk>>, left |-> 0,
               veci |-> IF o + chunk = n THEN v + 1 ELSE v,
               vecoff |-> IF o + chunk = n THEN 0 ELSE o + chunk]
      BY <2>1, <3>1 DEF Cut
    <3>3. /\ a.part = p /\ a.left = 0 /\ a.veci = (IF o + chunk = n THEN v + 1 ELSE v)
          /\ a.vecoff = IF o + chunk = n THEN 0 ELSE o + chunk
      BY <2>1, <3>2
    <3> QED
      BY <1>3, <3>0, <3>1, <3>3
  <2>4. cut.parts = <<p>> /\ cut.veci = a.veci /\ cut.vecoff = a.vecoff
    BY <2>1, <2>3, SliceOne
  <2>5. PICK h : h = off + chunk
    OBVIOUS
  <2>6. <<p>> \in Runs /\ Chained(c, <<p>>, off, h)
    <3>1. o + chunk <= c.shape[v] /\ off = (IF v = 1 THEN o ELSE c.shape[1] + o)
      BY <1>1, <1>4
    <3> QED
      BY <1>3, <2>1, <2>5, <3>1, OneRun
  <2>7. cut.veci \in 1..3 /\ cut.vecoff \in Nat
    BY <1>3, <2>3, <2>4
  <2>8. \/ h = x + y
        \/ h < x /\ cut.veci = 1 /\ cut.vecoff = h
        \/ h < x + y /\ cut.veci = 2 /\ h = x + cut.vecoff
    <3>1. v = 1 \/ v = 2
      OBVIOUS
    <3> QED
      BY <1>2, <1>3, <1>4, <2>2, <2>3, <2>4, <2>5, <3>1
  <2> QED
    BY <1>1, <1>2, <2>1, <2>4, <2>5, <2>6, <2>7, <2>8 DEF Sliced
<1>5. CASE j.off < c.shape[1] /\ j.veci = 1 /\ j.vecoff = j.off
  <2>1. CASE off + chunk <= x
    BY <1>1, <1>3, <1>4, <1>5, <2>1
  <2>2. CASE off + chunk > x
    <3>1. PICK a, t, left : a = Cut(s, 1, off, chunk) /\ t = x - off /\ left = chunk - t
      OBVIOUS
    <3>2. /\ t \in Nat /\ left \in Nat /\ left > 0 /\ left <= y /\ off + t = x /\ t < chunk
          /\ x + left = off + chunk /\ 0 + left = left /\ off <= x
      BY <1>1, <1>2, <1>3, <1>5, <2>2, <3>1
    <3>3. a.part = <<1, off, t>> /\ a.left = left /\ a.veci = 2 /\ a.vecoff = 0
      <4>1. (IF x - off < chunk THEN x - off ELSE chunk) = t
        BY <1>2, <1>3, <3>1, <3>2
      <4>2. a = [part |-> <<1, off, t>>, left |-> left, veci |-> 2, vecoff |-> 0]
        BY <1>2, <3>1, <3>2, <4>1 DEF Cut
      <4> QED
        BY <4>2
    <3>4. PICK b, p, q, cut : /\ b = Cut(s, 2, 0, left) /\ p = <<1, off, t>> /\ q = <<2, 0, left>>
                              /\ cut = tls_slice(s, 1, off, chunk)
      OBVIOUS
    <3>5. /\ b.part = q
          /\ \/ left < y /\ b.veci = 2 /\ b.vecoff = left
             \/ left = y /\ b.veci = 3 /\ b.vecoff = 0
      <4>1. (IF y - 0 < left THEN y - 0 ELSE left) = left /\ left - left = 0
        BY <1>2, <3>2
      <4>2. b = [part |-> <<2, 0, left>>, left |-> 0, veci |-> IF left = y THEN 3 ELSE 2,
                 vecoff |-> IF left = y THEN 0 ELSE left]
        BY <1>2, <3>2, <3>4, <4>1 DEF Cut
      <4>3. /\ b.part = q /\ b.veci = (IF left = y THEN 3 ELSE 2)
            /\ b.vecoff = IF left = y THEN 0 ELSE left
        BY <3>4, <4>2
      <4> QED
        BY <1>2, <3>2, <4>3
    <3>6. cut.parts = <<p, q>> /\ cut.veci = b.veci /\ cut.vecoff = b.vecoff
      <4>1. a.left # 0 /\ b = Cut(s, a.veci, a.vecoff, a.left) /\ a.part = p
        BY <3>2, <3>3, <3>4
      <4>2. /\ tls_slice(s, 1, off, chunk).parts = <<a.part, b.part>>
            /\ tls_slice(s, 1, off, chunk).veci = b.veci
            /\ tls_slice(s, 1, off, chunk).vecoff = b.vecoff
        BY <3>1, <4>1, SliceTwo
      <4> QED
        BY <3>4, <3>5, <4>1, <4>2
    <3>7. <<p>> \in Runs /\ Chained(c, <<p>>, off, x)
      <4>1. off + t <= c.shape[1] /\ x = off + t /\ off = (IF 1 = 1 THEN off ELSE c.shape[1] + off)
        BY <1>1, <1>2, <1>3, <3>2
      <4> QED
        BY <1>3, <3>2, <3>4, <4>1, OneRun
    <3>8. PICK h : h = x + left
      OBVIOUS
    <3>9. <<q>> \in Runs /\ Chained(c, <<q>>, x, h)
      <4>1. 0 + left <= c.shape[2] /\ x = (IF 2 = 1 THEN 0 ELSE c.shape[1] + 0)
        BY <1>1, <1>2, <3>2
      <4> QED
        BY <3>2, <3>4, <3>8, <4>1, OneRun
    <3>10. <<p>> \o <<q>> = <<p, q>>
      BY TwoRuns
    <3>11. Chained(c, <<p>> \o <<q>>, off, h)
      BY <3>7, <3>9, ChainedJoin
    <3>12. <<p>> \o <<q>> \in Runs
      BY <3>7, <3>9 DEF Runs
    <3>13. cut.parts \in Runs /\ Chained(c, cut.parts, off, h)
      BY <3>6, <3>10, <3>11, <3>12
    <3>14. cut.veci \in 1..3 /\ cut.vecoff \in Nat
      BY <3>2, <3>5, <3>6
    <3>15. \/ h = x + y
           \/ h < x + y /\ cut.veci = 2 /\ h = x + cut.vecoff
      BY <1>2, <3>2, <3>5, <3>6, <3>8
    <3>16. h = off + chunk
      BY <3>2, <3>8
    <3>17. Sliced(c, off, chunk, cut)
      BY <1>1, <1>2, <3>13, <3>14, <3>15, <3>16 DEF Sliced
    <3> QED
      BY <1>1, <1>5, <3>4, <3>17
  <2> QED
    BY <1>2, <1>3, <2>1, <2>2
<1>6. CASE j.veci = 2 /\ j.off = c.shape[1] + j.vecoff
  <2>1. j.vecoff + chunk <= c.shape[2]
    BY <1>1, <1>2, <1>3, <1>6
  <2> QED
    BY <1>1, <1>3, <1>4, <1>6, <2>1
<1> QED
  BY <1>1, <1>2, <1>3, <1>5, <1>6 DEF Cursor

\* A chain whose last block has taken the next runs is in order again.
LEMMA InOrderGrows ==
  ASSUME NEW c \in Connection, NEW d \in Connection, d.shape = c.shape, NEW n, n = Len(d.chain),
         n > 0, NEW f, NEW h, NEW old \in Runs, NEW parts \in Runs,
         d.chain[n].data = old \o parts, Chained(c, parts, f, h),
         \/ n = 1 /\ old = <<>> /\ f = 0
         \/ n = Len(c.chain) + 1 /\ old = <<>> /\ InOrder(c, f)
         \/ n = Len(c.chain) /\ old = c.chain[n].data /\ InOrder(c, f),
         \A i \in 1..(n - 1) : d.chain[i] = c.chain[i]
  PROVE  InOrder(d, h)
<1>1. /\ n \in Nat /\ DOMAIN d.chain = 1..n /\ d.chain # <<>>
      /\ Len(c.chain) \in Nat /\ DOMAIN c.chain = 1..Len(c.chain)
  BY ConnFields
<1>2. \A r : From(d, r) = From(c, r) /\ To(d, r) = To(c, r)
  BY DEF From, To
<1>3. \A data, a, b : Chained(c, data, a, b) => Chained(d, data, a, b)
  BY <1>2 DEF Chained
<1> DEFINE At(i) == IF i > 1 THEN To(c, Last(d.chain[i - 1].data)) ELSE 0
<1>4. ASSUME NEW i \in 1..(n - 1)
      PROVE  Chained(c, d.chain[i].data, At(i), To(c, Last(d.chain[i].data)))
  <2>1. i \in DOMAIN c.chain /\ InOrder(c, f) /\ d.chain[i] = c.chain[i]
    BY <1>1
  <2>2. i > 1 => d.chain[i - 1] = c.chain[i - 1]
    BY <1>1
  <2>3. Chained(c, c.chain[i].data, IF i > 1 THEN To(c, Last(c.chain[i - 1].data)) ELSE 0,
                To(c, Last(c.chain[i].data)))
    BY <2>1, InOrderChained
  <2> QED
    BY <2>1, <2>2, <2>3
<1>5. Chained(c, d.chain[n].data, At(n), h)
  <2>1. CASE n = 1 /\ old = <<>> /\ f = 0
    <3>1. <<>> \o parts = parts
      BY DEF Runs
    <3> QED
      BY <2>1, <3>1
  <2>2. CASE n = Len(c.chain) + 1 /\ old = <<>> /\ InOrder(c, f)
    <3>1. <<>> \o parts = parts
      BY DEF Runs
    <3>2. c.chain # <<>> /\ To(c, Last(Last(c.chain).data)) = f
      BY <2>2, InOrderChained
    <3>3. n > 1 /\ n - 1 = Len(c.chain) /\ n - 1 \in 1..(n - 1)
      BY <1>1, <2>2, <3>2
    <3>4. d.chain[n - 1] = Last(c.chain)
      BY <3>3 DEF Last
    <3>5. At(n) = f
      BY <3>2, <3>3, <3>4
    <3> HIDE DEF At
    <3> QED
      BY <2>2, <3>1, <3>5
  <2>3. CASE n = Len(c.chain) /\ old = c.chain[n].data /\ InOrder(c, f)
    <3>1. n \in DOMAIN c.chain /\ Last(c.chain) = c.chain[n]
      BY <1>1, <2>3 DEF Last
    <3>2. To(c, Last(old)) = f
      BY <2>3, <3>1, InOrderChained
    <3>3. Chained(c, c.chain[n].data, IF n > 1 THEN To(c, Last(c.chain[n - 1].data)) ELSE 0,
                  To(c, Last(c.chain[n].data)))
      BY <2>3, <3>1, InOrderChained
    <3>4. n > 1 => d.chain[n - 1] = c.chain[n - 1]
      BY <1>1
    <3>5. Chained(c, old, At(n), f)
      BY <2>3, <3>2, <3>3, <3>4
    <3> HIDE DEF At
    <3>6. PICK z : z = At(n)
      OBVIOUS
    <3>7. Chained(c, old \o parts, z, h)
      BY <3>5, <3>6, ChainedJoin
    <3> QED
      BY <3>6, <3>7
  <2> QED
    BY <2>1, <2>2, <2>3
<1>6. To(c, Last(d.chain[n].data)) = h /\ Last(d.chain) = d.chain[n]
  BY <1>5 DEF Chained, Last
<1>7. ASSUME NEW i \in DOMAIN d.chain
      PROVE  Chained(d, d.chain[i].data,
                     IF i > 1 THEN To(d, Last(d.chain[i - 1].data)) ELSE 0,
                     To(d, Last(d.chain[i].data)))
  <2>1. Chained(c, d.chain[i].data, At(i), To(c, Last(d.chain[i].data)))
    <3>1. i = n \/ i \in 1..(n - 1)
      BY <1>1
    <3> QED
      BY <1>4, <1>5, <1>6, <3>1
  <2>2. Chained(d, d.chain[i].data, At(i), To(c, Last(d.chain[i].data)))
    BY <1>3, <2>1
  <2> QED
    BY <1>2, <2>2
<1>8. To(d, Last(Last(d.chain).data)) = h
  BY <1>2, <1>6
<1> QED
  BY <1>1, <1>7, <1>8, InOrderChained

-----------------------------------------------------------------------------
(* Encrypting *)

\* Giving up: the connection keeps what it has.
LEMMA AbandonStep ==
  ASSUME IInv, NEW k \in Conn, job.who \in {Nobody, k}, NEW c, NEW m, Takes(k, m, c), Stage(c),
         c.at # "none", m.bigcap = mem.bigcap, Lends(conn[k], keep) => Lends(c, keep),
         Abandon(k, c, m), keep' = keep
  PROVE  IInv'
<1>1. c \in Connection
  BY DEF Takes, Owns
<1>2. /\ c.chain \in Seq(Segment) /\ Len(c.chain) \in Nat /\ DOMAIN c.chain = 1..Len(c.chain)
      /\ \A i \in 1..Len(c.chain) : c.chain[i] \in Segment
  BY <1>1, ConnFields
<1> DEFINE ch == [i \in DOMAIN c.chain |-> [c.chain[i] EXCEPT !.data = <<>>]]
           d == [c EXCEPT !.at = "closing", !.shape = <<0, 0>>, !.chain = ch]
<1>3. Becomes(k, d, m) /\ job' = Idle
  BY DEF Abandon
<1>4. ASSUME NEW s \in Segment
      PROVE  LET t == [s EXCEPT !.data = <<>>]
             IN t \in Segment /\ t.block = s.block /\ t.base = s.base /\ t.cap = s.cap
  <2>1. <<>> \in Seq(Nat \X Nat \X Nat)
    OBVIOUS
  <2>2. [s EXCEPT !.data = <<>>] \in Segment
    BY <2>1, ZenonT(40) DEF Segment
  <2> QED
    BY <2>2 DEF Segment
<1>5. /\ ch \in Seq(Segment) /\ Len(ch) = Len(c.chain)
      /\ \A i \in 1..Len(c.chain) :
           /\ ch[i].block = c.chain[i].block /\ ch[i].base = c.chain[i].base
           /\ ch[i].cap = c.chain[i].cap
  BY <1>2, <1>4
<1> HIDE DEF ch
<1>6. /\ d \in Connection /\ d.at = "closing" /\ d.client = c.client /\ d.spill = c.spill
      /\ d.wbig = c.wbig /\ d.chain = ch
  <2>1. <<0, 0>> \in Shapes \cup {<<0, 0>>}
    OBVIOUS
  <2>2. d \in Connection
    BY <1>1, <1>5, <2>1, ZenonT(40) DEF Connection
  <2> QED
    BY <1>1, <2>2 DEF Connection
<1> HIDE DEF d
<1>7. Alike(c, d)
  BY <1>5, <1>6 DEF Alike
<1>8. Takes(k, m, d)
  BY <1>6, <1>7, OwnsAlike DEF Takes
<1>9. c.wbig # NULL => /\ Len(c.chain) = 1 /\ c.chain[1].base # c.chain[1].block
                       /\ c.chain[1].cap > 0 /\ c.client # NULL
  BY DEF Stage
<1>10. c.wbig # NULL => /\ Len(d.chain) = 1 /\ d.chain[1].base # d.chain[1].block
                        /\ d.chain[1].cap > 0 /\ d.chain[1].base = c.chain[1].base
                        /\ d.chain[1].cap = c.chain[1].cap
  BY <1>5, <1>6, <1>9
<1>11. Stage(d)
  BY <1>6, <1>10 DEF Stage
<1>12. Lends(c, keep) => Lends(d, keep)
  BY <1>6, <1>10, SameLoan
<1>13. job' \in Job /\ job'.who = Nobody /\ job'.who # k
  BY <1>3, PoolsAssumption DEF Idle, Job
<1>14. keep' \in Nat
  BY DEF IInv, TypeOK
<1>15. mem.bigcap >= keep \/ Lends(conn[k], keep) => m.bigcap >= keep' \/ Lends(d, keep')
  BY <1>12
<1>16. d.at # "encrypting" /\ d.at # "writing"
  BY <1>6
<1> QED
  BY <1>3, <1>8, <1>11, <1>13, <1>14, <1>15, <1>16, Step

\* tls_write_response_impl up to its loop.
LEMMA WriteResponseStep ==
  ASSUME IInv, NEW k \in Conn, WriteResponse(k)
  PROVE  IInv'
<1>1. TypeOK /\ MemInv
  BY DEF IInv
<1>2. PICK c0 : c0 = conn[k]
  OBVIOUS
<1>3. /\ Takes(k, mem, c0) /\ Stage(c0) /\ c0 \in Connection
      /\ mem.bigcap \in Nat /\ mem.bigcap <= TLS_BIGBUF_KEEP_MAX
  BY <1>1, <1>2, Split
<1>4. job.who = Nobody /\ job.who \in {Nobody, k} /\ c0.at = "open" /\ keep' = keep
  BY <1>2 DEF WriteResponse
<1>5. c0.chain = <<>> /\ c0.wbig = NULL /\ c0.client # NULL
  BY <1>3, <1>4 DEF Stage
<1>6. ~Lends(conn[k], keep)
  BY <1>2, <1>5 DEF Lends
<1>7. keep \in Nat
  BY <1>1 DEF TypeOK
<1>8. PICK shape \in Shapes, g \in tls_wbuf_get(mem) :
        LET whole == tls_record_count(Total(shape)) > TLS_WSEG_MAX
            seg   == tls_wseg_open(g.ptr)
            c     == [conn[k] EXCEPT !.at = "encrypting", !.shape = shape, !.chain = <<seg>>]
            begun == [who |-> k, off |-> 0, veci |-> 1, vecoff |-> 0, whole |-> whole]
        IN \/ g.ptr = NULL /\ Abandon(k, conn[k], g.mem)
           \/ /\ g.ptr # NULL /\ ~whole
              /\ Becomes(k, c, g.mem)
              /\ job' = begun
           \/ /\ g.ptr # NULL /\ whole
              /\ \E b \in tls_bigbuf_get(g.mem, tls_encrypted_size(Total(shape))) :
                   IF b.ptr = NULL
                     THEN Abandon(k, c, b.mem)
                     ELSE /\ Becomes(k, [c EXCEPT !.wbig = b.ptr, !.chain[1].base = b.ptr,
                                                  !.chain[1].cap = b.cap], b.mem)
                          /\ job' = begun
  BY DEF WriteResponse
<1>9. PICK x, a, s : x = g.mem /\ a = g.ptr /\ s = tls_wseg_open(a)
  OBVIOUS
<1> DEFINE whole == tls_record_count(Total(shape)) > TLS_WSEG_MAX
           c == [c0 EXCEPT !.at = "encrypting", !.shape = shape, !.chain = <<s>>]
           begun == [who |-> k, off |-> 0, veci |-> 1, vecoff |-> 0, whole |-> whole]
<1>10. \/ a = NULL /\ x = mem
       \/ /\ a \in Heap /\ x.bigcap = mem.bigcap
          /\ \A d \in Connection :
               /\ d.client = c0.client /\ d.spill = c0.spill /\ d.wbig = c0.wbig
               /\ d.chain = Append(c0.chain, s)
               => Takes(k, x, d)
  BY <1>3, <1>9, OwnsBlock DEF Takes
<1>11. CASE a = NULL
  <2>1. Abandon(k, c0, mem)
    BY <1>2, <1>8, <1>9, <1>10, <1>11, Addresses
  <2> QED
    BY <1>3, <1>4, <1>6, <2>1, AbandonStep
<1>12. CASE a # NULL
  <2>1. /\ a \in Heap /\ s \in Segment /\ s.block = a /\ s.base = a /\ s.cap = TLS_WBUF_SIZE
        /\ s.off = 0 /\ s.data = <<>>
    BY <1>9, <1>10, <1>12, FreshSegment
  <2>2. <<s>> \in Seq(Segment) /\ Len(<<s>>) = 1 /\ <<s>>[1] = s /\ Append(<<>>, s) = <<s>>
    BY <2>1
  <2>3. PICK ch : ch = <<s>>
    OBVIOUS
  <2>4. /\ c \in Connection /\ c.at = "encrypting" /\ c.shape = shape /\ c.client = c0.client
        /\ c.spill = c0.spill /\ c.wbig = c0.wbig /\ c.chain = ch
    <3>1. ch \in Seq(Segment) /\ shape \in Shapes \cup {<<0, 0>>}
      BY <2>2, <2>3
    <3>2. [c0 EXCEPT !.at = "encrypting", !.shape = shape, !.chain = ch] \in Connection
      BY <1>3, <3>1, ZenonT(40) DEF Connection
    <3> QED
      BY <1>3, <2>3, <3>2 DEF Connection
  <2>5. \/ /\ ~whole /\ Becomes(k, c, x) /\ job' = begun
        \/ /\ whole
           /\ \E b \in tls_bigbuf_get(x, tls_encrypted_size(Total(shape))) :
                IF b.ptr = NULL
                  THEN Abandon(k, c, b.mem)
                  ELSE /\ Becomes(k, [c EXCEPT !.wbig = b.ptr, !.chain[1].base = b.ptr,
                                               !.chain[1].cap = b.cap], b.mem)
                       /\ job' = begun
    BY <1>2, <1>8, <1>9, <1>12
  <2>6. PICK w : w = whole /\ w \in BOOLEAN
    <3>1. PICK u, v : u = tls_record_count(Total(shape)) /\ v = TLS_WSEG_MAX
      OBVIOUS
    <3>2. (u > v) \in BOOLEAN
      OBVIOUS
    <3> QED
      BY <3>1, <3>2
  <2>7. begun \in Job /\ begun.who = k /\ begun.off = 0 /\ begun.veci = 1 /\ begun.vecoff = 0
        /\ begun.whole = w
    BY <2>6 DEF Job
  <2>8. w <=> tls_record_count(Total(shape)) > TLS_WSEG_MAX
    BY <2>6
  <2> HIDE DEF c, begun, whole
  <2>9. Takes(k, x, c) /\ x.bigcap = mem.bigcap
    BY <1>5, <1>10, <1>12, <2>2, <2>3, <2>4
  <2>10. Len(c.chain) = 1 /\ c.chain[1] = s /\ c.chain # <<>> /\ DOMAIN c.chain = {1} /\ Last(c.chain) = s
    BY <2>2, <2>3, <2>4 DEF Last
  <2>11. Stage(c)
    BY <1>5, <2>4 DEF Stage
  <2>12. PICK T : T = Total(shape)
    OBVIOUS
  <2>13. /\ c.shape \in Shapes /\ T \in Nat /\ T > 0 /\ T = Total(c.shape) /\ c.shape[1] \in Nat
         /\ c.shape[1] > 0 /\ tls_record_count(T) \in Nat /\ TLS_WSEG_MAX \in Nat /\ TLS_WSEG_MAX >= 1
    <3>1. T \in Nat /\ T > 0 /\ c.shape[1] \in Nat /\ c.shape[1] > 0 /\ T = Total(c.shape)
      BY <2>4, <2>12, ShapeFields
    <3>2. tls_record_count(T) \in Nat
      <4>1. PICK M : M = TLS_MAX_RECORD_PLAINTEXT
        OBVIOUS
      <4>2. M \in Nat /\ M > 0 /\ T + M - 1 \in Nat
        BY <3>1, <4>1, PoolsAssumption
      <4>3. (T + M - 1) \div M \in Nat
        BY <4>2, Division
      <4> QED
        BY <4>1, <4>3 DEF tls_record_count
    <3> QED
      BY <2>4, <3>1, <3>2, PoolsAssumption
  <2>14. CASE ~whole /\ Becomes(k, c, x) /\ job' = begun
    <3>1. ~w /\ tls_record_count(T) <= TLS_WSEG_MAX
      BY <2>6, <2>8, <2>12, <2>13, <2>14
    <3>2. Fits(c, begun)
      BY <1>5, <2>1, <2>4, <2>7, <2>10, <2>13, <3>1 DEF Fits
    <3>3. Cursor(c, begun)
      BY <2>7, <2>13 DEF Cursor
    <3>4. Encrypting(c, begun)
      BY <2>1, <2>7, <2>10, <2>13, <3>2, <3>3 DEF Encrypting
    <3> QED
      BY <1>4, <1>6, <1>7, <2>4, <2>7, <2>9, <2>11, <2>14, <3>4, Step
  <2>15. ASSUME NEW b \in tls_bigbuf_get(x, tls_encrypted_size(Total(shape))), whole,
                IF b.ptr = NULL
                  THEN Abandon(k, c, b.mem)
                  ELSE /\ Becomes(k, [c EXCEPT !.wbig = b.ptr, !.chain[1].base = b.ptr,
                                               !.chain[1].cap = b.cap], b.mem)
                       /\ job' = begun
         PROVE IInv'
    <3>1. PICK need, y, p, z : /\ need = tls_encrypted_size(T) /\ y = b.mem /\ p = b.ptr
                               /\ z = b.cap
      OBVIOUS
    <3>2. need \in Nat /\ need >= T
      BY <2>13, <3>1, SizeIsNatural
    <3>3. \/ p = NULL /\ y = x
          \/ /\ p \in Heap /\ p # s.block /\ z \in Nat /\ z >= need
             /\ y.bigcap = x.bigcap \/ z = x.bigcap
             /\ \A d \in Connection :
                  /\ d.client = c.client /\ d.spill = c.spill /\ d.wbig = p
                  /\ Len(d.chain) = 1 /\ d.chain[1].block = s.block /\ d.chain[1].base = p
                  => Takes(k, y, d)
      <4>1. b \in tls_bigbuf_get(x, need)
        BY <2>12, <3>1
      <4>2. c.chain[1].base = c.chain[1].block /\ c.wbig = NULL /\ Len(c.chain) = 1
        BY <1>5, <2>1, <2>4, <2>10
      <4>3. \/ b.ptr = NULL /\ b.mem = x
            \/ /\ b.ptr \in Heap /\ b.ptr # c.chain[1].block /\ b.cap \in Nat /\ b.cap >= need
               /\ b.mem.bigcap = x.bigcap \/ b.cap = x.bigcap
               /\ \A d \in Connection :
                    /\ d.client = c.client /\ d.spill = c.spill /\ d.wbig = b.ptr
                    /\ Len(d.chain) = 1 /\ d.chain[1].block = c.chain[1].block
                    /\ d.chain[1].base = b.ptr
                    => Takes(k, b.mem, d)
        BY <2>9, <3>2, <4>1, <4>2, OwnsBig DEF Takes
      <4> QED
        BY <2>10, <3>1, <4>3
    <3>4. CASE p = NULL
      <4>1. Abandon(k, c, y) /\ y = x
        BY <2>15, <3>1, <3>3, <3>4, Addresses
      <4> QED
        BY <1>4, <1>6, <2>4, <2>9, <2>11, <4>1, AbandonStep
    <3>5. CASE p # NULL
      <4> DEFINE d == [c EXCEPT !.wbig = p, !.chain[1].base = p, !.chain[1].cap = z]
                 t == [s EXCEPT !.base = p, !.cap = z]
      <4>1. Becomes(k, d, y) /\ job' = begun
        BY <2>15, <3>1, <3>5
      <4>2. /\ t \in Segment /\ t.block = s.block /\ t.base = p /\ t.cap = z /\ t.off = 0
            /\ t.data = <<>>
        BY <2>1, <3>3, <3>5 DEF Segment
      <4>3. /\ d \in Connection /\ d.at = "encrypting" /\ d.shape = c.shape /\ d.client = c.client
            /\ d.spill = c.spill /\ d.wbig = p /\ d.chain = <<t>>
        <5>1. d.chain = [[c.chain EXCEPT ![1].base = p] EXCEPT ![1].cap = z]
          BY <2>4 DEF Connection
        <5>2. d.chain = <<t>>
          BY <2>3, <2>4, <5>1
        <5>3. <<t>> \in Seq(Segment) /\ p \in Heap \cup {NULL}
          BY <3>3, <3>5, <4>2
        <5>4. d = [c EXCEPT !.wbig = p, !.chain = <<t>>]
          BY <2>4, <5>2 DEF Connection
        <5> HIDE DEF d, t
        <5>5. PICK cc : cc = <<t>>
          OBVIOUS
        <5>6. cc \in Seq(Segment) /\ d = [c EXCEPT !.wbig = p, !.chain = cc]
          BY <5>3, <5>4, <5>5
        <5>7. d \in Connection
          BY <2>4, <5>3, <5>6 DEF Connection
        <5> QED
          BY <2>4, <5>2, <5>6, <5>7 DEF Connection
      <4> HIDE DEF d, t
      <4>4. Len(d.chain) = 1 /\ d.chain[1] = t /\ DOMAIN d.chain = {1} /\ d.chain # <<>> /\ Last(d.chain) = t
        BY <4>3 DEF Last
      <4>5. Takes(k, y, d)
        BY <3>3, <3>5, <4>2, <4>3, <4>4
      <4>6. z \in Nat /\ z >= need /\ z > 0 /\ p \in Heap /\ p # s.block
        BY <2>13, <3>2, <3>3, <3>5
      <4>7. Stage(d)
        BY <1>5, <2>4, <4>2, <4>3, <4>4, <4>6 DEF Stage
      <4>8. Fits(d, begun)
        BY <2>6, <2>7, <2>13, <2>15, <3>1, <3>5, <4>2, <4>3, <4>4, <4>6 DEF Fits
      <4>9. Cursor(d, begun)
        BY <2>7, <2>13, <4>3 DEF Cursor
      <4>10. Encrypting(d, begun)
        BY <2>7, <2>13, <4>2, <4>3, <4>4, <4>8, <4>9 DEF Encrypting
      <4>11. mem.bigcap >= keep => y.bigcap >= keep \/ Lends(d, keep)
        <5>1. y.bigcap = mem.bigcap \/ z = mem.bigcap
          BY <2>9, <3>3, <3>5
        <5>2. CASE z = mem.bigcap /\ mem.bigcap >= keep
          <6>1. z \in keep..TLS_BIGBUF_KEEP_MAX
            BY <1>3, <1>7, <4>6, <5>2, PoolsAssumption
          <6> QED
            BY <3>5, <4>2, <4>3, <4>4, <6>1 DEF Lends
        <5> QED
          BY <5>1, <5>2
      <4> QED
        BY <1>4, <1>6, <1>7, <2>7, <4>1, <4>3, <4>5, <4>7, <4>10, <4>11, Step
    <3> QED
      BY <3>4, <3>5
  <2> QED
    BY <2>5, <2>14, <2>15
<1> QED
  BY <1>11, <1>12

\* The response in the making, and how much of it the next record takes.
LEMMA NextChunk ==
  ASSUME IInv, NEW k \in Conn, job.who = k, NEW c, c = conn[k], job.off < Total(c.shape)
  PROVE  /\ Encrypting(c, job) /\ c \in Connection /\ Stage(c) /\ c.at = "encrypting"
         /\ job \in Job /\ job.off \in Nat /\ Total(c.shape) \in Nat
         /\ Chunk \in Nat \ {0} /\ job.off + Chunk <= Total(c.shape)
         /\ job.whole => job.off = 0 /\ Chunk = Total(c.shape) /\ ~OpensBlock
         /\ ~job.whole => /\ Chunk <= TLS_MAX_RECORD_PLAINTEXT
                          /\ job.off + Chunk < Total(c.shape) => Chunk = TLS_MAX_RECORD_PLAINTEXT
         /\ OpensBlock => job.off > 0
         /\ OpensBlock <=> ~job.whole /\ Last(c.chain).off + Chunk + Overhead > TLS_WBUF_SIZE
<1>1. TypeOK /\ MemInv /\ JobInv
  BY DEF IInv
<1>2. c \in Connection /\ Stage(c)
  BY <1>1, Split
<1>3. Encrypting(c, job) /\ c.at = "encrypting"
  BY <1>1 DEF JobInv
<1>4. job \in Job /\ job.off \in Nat /\ job.whole \in BOOLEAN
  BY <1>1 DEF TypeOK, Job
<1>5. PICK T, M, H, off, chunk : /\ T = Total(c.shape) /\ M = TLS_MAX_RECORD_PLAINTEXT
                                 /\ H = Overhead /\ off = job.off /\ chunk = Chunk
  OBVIOUS
<1>6. T \in Nat /\ M \in Nat /\ M > 0 /\ H \in Nat /\ off \in Nat /\ off < T
      /\ TLS_WBUF_SIZE \in Nat /\ TLS_WBUF_SIZE >= M + H
  BY <1>3, <1>4, <1>5, ShapeFields, PoolsAssumption DEF Encrypting
<1>7. chunk = IF job.whole \/ T - off <= M THEN T - off ELSE M
  BY <1>5 DEF Chunk
<1>8. chunk \in Nat \ {0} /\ off + chunk <= T
  BY <1>6, <1>7
<1>9. OpensBlock <=> ~job.whole /\ Last(c.chain).off + chunk + H > TLS_WBUF_SIZE
  BY <1>5 DEF OpensBlock
<1>10. job.whole => off = 0 /\ chunk = T /\ ~OpensBlock
  <2>1. job.whole => off \in {0, T}
    BY <1>3, <1>5 DEF Encrypting, Fits
  <2> QED
    BY <1>6, <1>7, <1>9, <2>1
<1>11. ~job.whole => chunk <= M /\ (off + chunk < T => chunk = M)
  BY <1>6, <1>7
<1>12. OpensBlock => off > 0
  <2> SUFFICES ASSUME OpensBlock, off = 0
               PROVE  FALSE
    BY <1>6
  <2>1. ~job.whole /\ Last(c.chain).off + chunk + H > TLS_WBUF_SIZE
    BY <1>9
  <2>2. Last(c.chain).off = 0
    BY <1>3, <1>5, <2>1 DEF Encrypting, Fits
  <2> QED
    BY <1>6, <1>8, <1>11, <2>1, <2>2
<1> QED
  BY <1>2, <1>3, <1>4, <1>5, <1>6, <1>8, <1>9, <1>10, <1>11, <1>12

\* The sizing holds: a further block is within uvbufs[], and the record fits.
LEMMA SizingHolds ==
  ASSUME IInv, NEW k \in Conn, job.who = k, NEW c, c = conn[k], job.off < Total(c.shape)
  PROVE  SizedRight(c)
<1>1. PICK T, M, H, off, chunk, s :
        /\ T = Total(c.shape) /\ M = TLS_MAX_RECORD_PLAINTEXT
        /\ H = Overhead /\ off = job.off /\ chunk = Chunk /\ s = Last(c.chain)
  OBVIOUS
<1>2. /\ Encrypting(c, job) /\ c \in Connection /\ T \in Nat /\ off \in Nat /\ off < T
      /\ chunk \in Nat /\ chunk > 0
      /\ job.whole => off = 0 /\ chunk = T /\ ~OpensBlock
      /\ ~job.whole => chunk <= M
      /\ OpensBlock => off > 0
      /\ OpensBlock <=> ~job.whole /\ s.off + chunk + H > TLS_WBUF_SIZE
  <2>1. chunk \in Nat \ {0}
    BY <1>1, NextChunk
  <2> QED
    BY <1>1, <2>1, NextChunk
<1>3. M \in Nat /\ M > 0 /\ H \in Nat /\ TLS_WBUF_SIZE \in Nat /\ TLS_WSEG_MAX \in Nat
  BY <1>1, PoolsAssumption
<1>4. Fits(c, job) /\ c.chain # <<>>
  BY <1>2 DEF Encrypting
<1>5. Len(c.chain) \in Nat /\ s \in Segment /\ s.off \in Nat /\ s.base \in Heap /\ s.cap \in Nat
  <2>1. Len(c.chain) \in 1..Len(c.chain) /\ Len(c.chain) \in Nat
    BY <1>2, <1>4, ConnFields
  <2> QED
    BY <1>1, <1>2, <2>1, ConnFields DEF Last
<1>6. OpensBlock => Len(c.chain) < TLS_WSEG_MAX
  <2> SUFFICES ASSUME OpensBlock
               PROVE  Len(c.chain) < TLS_WSEG_MAX
    OBVIOUS
  <2>1. /\ tls_record_count(T) <= TLS_WSEG_MAX
        /\ Len(c.chain) * TLS_MAX_RECORD_PLAINTEXT <= off
    BY <1>1, <1>2, <1>4 DEF Fits
  <2>2. Len(c.chain) * TLS_MAX_RECORD_PLAINTEXT < T
    <3>1. PICK z : z = Len(c.chain) * TLS_MAX_RECORD_PLAINTEXT
      OBVIOUS
    <3>2. z \in Int
      BY <1>1, <1>3, <1>5, <3>1
    <3>3. z < T
      BY <1>2, <2>1, <3>1, <3>2
    <3> QED
      BY <3>1, <3>3
  <2> QED
    BY <1>2, <1>3, <1>5, <2>1, <2>2, CountBounds
<1>7. ASSUME ~OpensBlock, s.base \in {s.block, c.wbig}
      PROVE  SizeAfter(s, chunk) <= s.cap
  <2>1. CASE job.whole
    <3>1. off = 0 /\ chunk = T /\ s.off = 0 /\ s.cap >= tls_encrypted_size(T)
      BY <1>1, <1>2, <1>4, <2>1 DEF Fits
    <3>2. SizeAfter(s, T) <= tls_encrypted_size(T) /\ tls_encrypted_size(T) \in Nat
      BY <1>2, <3>1, SizeIsEnough, SizeIsNatural
    <3>3. SizeAfter(s, T) \in Nat
      BY <1>2, <1>5, <3>1, Grows
    <3> QED
      BY <1>5, <3>1, <3>2, <3>3
  <2>2. CASE ~job.whole
    <3>1. c.wbig = NULL /\ (s.base = s.block => s.cap = TLS_WBUF_SIZE)
      BY <1>1, <1>4, <2>2 DEF Fits
    <3>2. s.cap = TLS_WBUF_SIZE
      BY <1>5, <1>7, <3>1, Addresses
    <3>3. (chunk + TLS_MAX_RECORD_PLAINTEXT - 1) \div TLS_MAX_RECORD_PLAINTEXT = 1
      BY <1>1, <1>2, <2>2, OneRecord
    <3>4. SizeAfter(s, chunk) = s.off + chunk + H * 1
      BY <1>1, <3>3 DEF SizeAfter
    <3>5. s.off + chunk + H <= TLS_WBUF_SIZE
      BY <1>2, <1>3, <1>5, <1>7, <2>2
    <3> QED
      BY <1>2, <1>3, <1>5, <3>2, <3>4, <3>5
  <2> QED
    BY <2>1, <2>2
<1> QED
  BY <1>1, <1>6, <1>7 DEF SizedRight

\* uv_write.
LEMMA EndEncryptingStep ==
  ASSUME IInv, EndEncrypting
  PROVE  IInv'
<1>1. TypeOK /\ MemInv /\ JobInv
  BY DEF IInv
<1>2. PICK k : k = job.who
  OBVIOUS
<1>3. k \in Conn /\ job.off >= Total(conn[k].shape) /\ job' = Idle /\ keep' = keep
  BY <1>1, <1>2 DEF EndEncrypting, TypeOK, Job
<1>4. Takes(k, mem, conn[k]) /\ Stage(conn[k]) /\ conn[k] \in Connection
  BY <1>1, <1>3, Split
<1>5. PICK c : c = conn[k]
  OBVIOUS
<1> DEFINE d == [c EXCEPT !.at = "writing"]
<1>6. Becomes(k, d, mem)
  BY <1>2, <1>5 DEF EndEncrypting
<1>7. /\ d \in Connection /\ d.at = "writing" /\ d.chain = c.chain /\ d.client = c.client
      /\ d.wbig = c.wbig /\ d.spill = c.spill /\ d.shape = c.shape
  BY <1>4, <1>5 DEF Connection
<1> HIDE DEF d
<1>8. Encrypting(c, job) /\ c.at = "encrypting"
  BY <1>1, <1>2, <1>3, <1>5 DEF JobInv
<1>9. /\ job.off \in Nat /\ Total(c.shape) \in Nat /\ Total(c.shape) > 0
      /\ job.off <= Total(c.shape) /\ job.off >= Total(c.shape)
  BY <1>1, <1>3, <1>5, <1>8, ShapeFields DEF TypeOK, Job, Encrypting
<1>10. job.off = Total(c.shape) /\ job.off # 0
  BY <1>9
<1>11. InOrder(c, Total(c.shape)) /\ Len(c.chain) <= TLS_WSEG_MAX
  BY <1>8, <1>10 DEF Encrypting
<1>12. Len(d.chain) <= TLS_WSEG_MAX /\ InOrder(d, Total(d.shape))
  BY <1>7, <1>11, SameRuns
<1>13. Alike(c, d)
  BY <1>7 DEF Alike
<1>14. Takes(k, mem, d)
  BY <1>4, <1>5, <1>7, <1>13, OwnsAlike DEF Takes
<1>15. Stage(d)
  BY <1>4, <1>5, <1>7, <1>8 DEF Stage
<1>16. Lends(conn[k], keep) => Lends(d, keep)
  BY <1>5, <1>7, SameLoan
<1>17. job' \in Job /\ job'.who = Nobody /\ job'.who # k
  BY <1>3, PoolsAssumption DEF Idle, Job
<1>18. keep' \in Nat
  BY <1>1, <1>3 DEF TypeOK
<1>19. job.who \in {Nobody, k} /\ d.at # "encrypting"
  BY <1>2, <1>7
<1>20. mem.bigcap >= keep \/ Lends(conn[k], keep) => mem.bigcap >= keep' \/ Lends(d, keep')
  BY <1>3, <1>16
<1> QED
  BY <1>3, <1>6, <1>12, <1>14, <1>15, <1>17, <1>18, <1>19, <1>20, Step

\* The connection with the block that the next record goes into: its last one,
\* or a further one.
Opened(c, e) ==
  /\ e.at = "encrypting" /\ e.shape = c.shape /\ e.wbig = c.wbig
  /\ \/ ~OpensBlock /\ e = c
     \/ OpensBlock /\ \E a \in Heap : e.chain = Append(c.chain, tls_wseg_open(a))

\* That block is the last of at most TLS_WSEG_MAX, and the others are c's.
Placed(c, e, n, s) ==
  /\ n \in Nat /\ n > 0 /\ n <= TLS_WSEG_MAX /\ Last(e.chain) = s
  /\ s \in Segment /\ s.data \in Runs
  /\ \A i \in 1..(n - 1) : e.chain[i] = c.chain[i]

\* It is the first and empty, or a further and empty one, or c's last.
Filled(c, n, s, off) ==
  \/ n = 1 /\ s.data = <<>> /\ off = 0
  \/ n = Len(c.chain) + 1 /\ s.data = <<>> /\ InOrder(c, off)
  \/ n = Len(c.chain) /\ s.data = c.chain[n].data /\ InOrder(c, off)

\* What the sizing has promised of it.
Roomy(c, e, n, s) ==
  /\ ~job.whole => /\ c.wbig = NULL /\ tls_record_count(Total(c.shape)) <= TLS_WSEG_MAX
                   /\ s.base = s.block => s.cap = TLS_WBUF_SIZE
                   /\ job.off + Chunk < Total(c.shape) =>
                        n * TLS_MAX_RECORD_PLAINTEXT <= job.off + Chunk
  /\ job.whole => c.wbig # NULL /\ e = c /\ n = 1

\* Where that block stands, and what is in it.
LEMMA OpenedBlock ==
  ASSUME IInv, NEW k \in Conn, job.who = k, NEW c, c = conn[k], job.off < Total(c.shape),
         NEW e \in Connection, Opened(c, e), NEW n, n = Len(e.chain), NEW s, s = e.chain[n]
  PROVE  Placed(c, e, n, s) /\ Filled(c, n, s, job.off) /\ Roomy(c, e, n, s)
<1>1. PICK T, M, off, chunk, len :
        /\ T = Total(c.shape) /\ M = TLS_MAX_RECORD_PLAINTEXT /\ off = job.off /\ chunk = Chunk
        /\ len = Len(c.chain)
  OBVIOUS
<1>2. /\ Encrypting(c, job) /\ c \in Connection /\ Stage(c) /\ T \in Nat /\ off \in Nat /\ off < T
      /\ chunk \in Nat
      /\ job.whole => off = 0 /\ ~OpensBlock
      /\ ~job.whole => (off + chunk < T => chunk = M)
      /\ OpensBlock => off > 0
      /\ OpensBlock => ~job.whole
  <2>1. chunk \in Nat \ {0}
    BY <1>1, NextChunk
  <2> QED
    BY <1>1, <2>1, NextChunk
<1>3. M \in Nat /\ M > 0 /\ TLS_WSEG_MAX \in Nat
  BY <1>1, PoolsAssumption
<1>4. /\ Fits(c, job) /\ c.chain # <<>> /\ Len(c.chain) <= TLS_WSEG_MAX
      /\ IF job.off = 0 THEN \A i \in DOMAIN c.chain : c.chain[i].data = <<>>
                        ELSE InOrder(c, job.off)
  BY <1>2 DEF Encrypting
<1>5. /\ len \in Nat /\ len > 0 /\ DOMAIN c.chain = 1..len /\ c.chain \in Seq(Segment)
      /\ n \in Nat /\ e.chain \in Seq(Segment) /\ DOMAIN e.chain = 1..n
  BY <1>1, <1>2, <1>4, ConnFields
<1>6. ~job.whole => c.wbig = NULL /\ tls_record_count(Total(c.shape)) <= TLS_WSEG_MAX
  BY <1>4 DEF Fits
<1>7. job.whole => c.wbig # NULL /\ e = c /\ n = 1
  <2> SUFFICES ASSUME job.whole
               PROVE  c.wbig # NULL /\ e = c /\ n = 1
    OBVIOUS
  <2>1. c.wbig # NULL
    BY <1>4 DEF Fits
  <2>2. e = c
    BY <1>2 DEF Opened
  <2> QED
    BY <1>2, <2>1, <2>2 DEF Stage
<1>8. CASE ~OpensBlock
  <2>1. e = c /\ n = len
    BY <1>1, <1>8 DEF Opened
  <2>2. n > 0 /\ Last(e.chain) = s /\ s \in Segment /\ n \in 1..n /\ n <= TLS_WSEG_MAX
    BY <1>1, <1>4, <1>5, <2>1 DEF Last
  <2>3. s.data \in Runs
    BY <2>2, ConnFields DEF Runs
  <2>4. CASE off = 0
    <3>1. s.data = <<>>
      BY <1>1, <1>4, <1>5, <2>1, <2>2, <2>4
    <3>2. n = 1
      BY <1>1, <1>4, <1>7, <2>1, <2>4 DEF Fits
    <3>3. ~job.whole => (s.base = s.block => s.cap = TLS_WBUF_SIZE)
      BY <1>4, <2>1, <2>2 DEF Fits
    <3>4. ~job.whole => (off + chunk < T => n * M <= off + chunk)
      BY <1>2, <1>3, <2>4, <3>2
    <3>5. Placed(c, e, n, s)
      BY <1>5, <2>1, <2>2, <2>3 DEF Placed
    <3>6. Filled(c, n, s, job.off)
      BY <1>1, <2>4, <3>1, <3>2 DEF Filled
    <3>7. Roomy(c, e, n, s)
      BY <1>1, <1>6, <1>7, <3>3, <3>4 DEF Roomy
    <3> QED
      BY <3>5, <3>6, <3>7
  <2>5. CASE off # 0
    <3>1. InOrder(c, job.off) /\ s.data = c.chain[n].data
      BY <1>1, <1>4, <2>1, <2>5
    <3>2. ~job.whole => (s.base = s.block => s.cap = TLS_WBUF_SIZE)
      BY <1>4, <2>1, <2>2 DEF Fits
    <3>3. ~job.whole => len * M <= off
      BY <1>1, <1>2, <1>4, <2>5 DEF Fits
    <3>4. ~job.whole => n * M <= off + chunk
      <4>1. PICK z : z = len * M
        OBVIOUS
      <4>2. z \in Int
        BY <1>3, <1>5, <4>1
      <4>3. ~job.whole => z <= off + chunk
        BY <1>2, <3>3, <4>1, <4>2
      <4> QED
        BY <2>1, <4>1, <4>3
    <3>5. Placed(c, e, n, s)
      BY <1>5, <2>1, <2>2, <2>3 DEF Placed
    <3>6. Filled(c, n, s, job.off)
      BY <1>1, <2>1, <3>1 DEF Filled
    <3>7. Roomy(c, e, n, s)
      BY <1>1, <1>6, <1>7, <3>2, <3>4 DEF Roomy
    <3> QED
      BY <3>5, <3>6, <3>7
  <2> QED
    BY <2>4, <2>5
<1>9. CASE OpensBlock
  <2>1. PICK a \in Heap : e.chain = Append(c.chain, tls_wseg_open(a))
    BY <1>9 DEF Opened
  <2>2. PICK w : w = tls_wseg_open(a)
    OBVIOUS
  <2>3. w \in Segment /\ w.cap = TLS_WBUF_SIZE /\ w.data = <<>>
    BY <2>2, FreshSegment
  <2>4. n = len + 1 /\ s = w /\ \A i \in 1..len : e.chain[i] = c.chain[i]
    BY <1>1, <1>5, <2>1, <2>2
  <2>5. n > 0 /\ Last(e.chain) = s /\ n - 1 = len
    BY <1>5, <2>4 DEF Last
  <2>6. off > 0 /\ ~job.whole /\ InOrder(c, job.off)
    BY <1>1, <1>2, <1>4, <1>9
  <2>7. len < TLS_WSEG_MAX
    <3>1. SizedRight(c)
      BY SizingHolds
    <3> QED
      BY <1>1, <1>9, <3>1 DEF SizedRight
  <2>8. n <= TLS_WSEG_MAX
    BY <1>3, <1>5, <2>4, <2>7
  <2>9. len * M <= off
    BY <1>1, <1>2, <1>4, <2>6 DEF Fits
  <2>10. off + chunk < T => n * M <= off + chunk
    <3>1. PICK z : z = len * M
      OBVIOUS
    <3>2. z \in Int /\ n * M = z + M
      BY <1>3, <1>5, <2>4, <3>1
    <3>3. off + chunk < T => z + M <= off + chunk
      BY <1>2, <1>3, <2>6, <2>9, <3>1, <3>2
    <3> QED
      BY <3>2, <3>3
  <2>11. s.data \in Runs
    <3>1. s.data = <<>>
      BY <2>3, <2>4
    <3>2. <<>> \in Runs
      BY DEF Runs
    <3> QED
      BY <3>1, <3>2
  <2>12. Placed(c, e, n, s)
    BY <1>5, <2>3, <2>4, <2>5, <2>8, <2>11 DEF Placed
  <2>13. Filled(c, n, s, job.off)
    BY <1>1, <2>3, <2>4, <2>6 DEF Filled
  <2>14. s.base = s.block => s.cap = TLS_WBUF_SIZE
    BY <2>3, <2>4
  <2>15. Roomy(c, e, n, s)
    BY <1>1, <1>6, <2>6, <2>10, <2>14 DEF Roomy
  <2> QED
    BY <2>12, <2>13, <2>15
<1> QED
  BY <1>8, <1>9

\* d is c with the runs added, which go on from f to h, in its n-th block.
Added(c, d, n, old, parts, f, h) ==
  /\ c \in Connection /\ d \in Connection /\ d.shape = c.shape /\ n = Len(d.chain) /\ n > 0
  /\ old \in Runs /\ parts \in Runs
  /\ d.chain[n].data = old \o parts /\ Chained(c, parts, f, h)
  /\ \/ n = 1 /\ old = <<>> /\ f = 0
     \/ n = Len(c.chain) + 1 /\ old = <<>> /\ InOrder(c, f)
     \/ n = Len(c.chain) /\ old = c.chain[n].data /\ InOrder(c, f)
  /\ \A i \in 1..(n - 1) : d.chain[i] = c.chain[i]

\* Then d's runs are in order up to h.
LEMMA AddedInOrder ==
  ASSUME NEW c, NEW d, NEW n, NEW old, NEW parts, NEW f, NEW h, Added(c, d, n, old, parts, f, h)
  PROVE  InOrder(d, h)
<1>1. /\ c \in Connection /\ d \in Connection /\ d.shape = c.shape /\ n = Len(d.chain) /\ n > 0
      /\ old \in Runs /\ parts \in Runs
      /\ d.chain[n].data = old \o parts /\ Chained(c, parts, f, h)
      /\ \A i \in 1..(n - 1) : d.chain[i] = c.chain[i]
  BY DEF Added
<1>2. \/ n = 1 /\ old = <<>> /\ f = 0
      \/ n = Len(c.chain) + 1 /\ old = <<>> /\ InOrder(c, f)
      \/ n = Len(c.chain) /\ old = c.chain[n].data /\ InOrder(c, f)
  BY DEF Added
<1> QED
  BY <1>1, <1>2, InOrderGrows

\* One record, once there is a block for it.
LEMMA RecordStep ==
  ASSUME IInv, NEW k \in Conn, job.who = k, NEW c, c = conn[k], job.off < Total(c.shape),
         NEW e, NEW x, Takes(k, x, e), Stage(e), x.bigcap = mem.bigcap, Opened(c, e),
         NEW cut, cut = tls_slice(c.shape, job.veci, job.vecoff, Chunk),
         NEW r \in ptls_send_v(x, Last(e.chain), e.wbig, cut.parts, Chunk), r.ok,
         Becomes(k, [e EXCEPT !.chain[Len(e.chain)] = r.seg], r.mem),
         job' = [job EXCEPT !.off = @ + Chunk, !.veci = cut.veci, !.vecoff = cut.vecoff],
         keep' = keep
  PROVE  IInv'
<1>0. PICK n, s, T, chunk, off : /\ n = Len(e.chain) /\ s = e.chain[n] /\ T = Total(c.shape)
                                 /\ chunk = Chunk /\ off = job.off
  OBVIOUS
<1>1. e \in Connection /\ x \in Memory
  BY HeldSets DEF Takes, Owns
<1>2. /\ n \in Nat /\ n > 0 /\ n <= TLS_WSEG_MAX /\ Last(e.chain) = s
      /\ s \in Segment /\ s.data \in Runs
      /\ \A i \in 1..(n - 1) : e.chain[i] = c.chain[i]
      /\ Filled(c, n, s, off)
      /\ ~job.whole => /\ c.wbig = NULL /\ tls_record_count(T) <= TLS_WSEG_MAX
                       /\ s.base = s.block => s.cap = TLS_WBUF_SIZE
                       /\ off + chunk < T => n * TLS_MAX_RECORD_PLAINTEXT <= off + chunk
      /\ job.whole => c.wbig # NULL /\ e = c /\ n = 1
  <2>1. Placed(c, e, n, s) /\ Filled(c, n, s, job.off) /\ Roomy(c, e, n, s)
    BY <1>0, <1>1, OpenedBlock
  <2>2. /\ n \in Nat /\ n > 0 /\ n <= TLS_WSEG_MAX /\ Last(e.chain) = s
        /\ s \in Segment /\ s.data \in Runs
        /\ \A i \in 1..(n - 1) : e.chain[i] = c.chain[i]
    BY <2>1 DEF Placed
  <2>3. Filled(c, n, s, off)
    BY <1>0, <2>1
  <2>4. /\ ~job.whole => /\ c.wbig = NULL /\ tls_record_count(T) <= TLS_WSEG_MAX
                         /\ s.base = s.block => s.cap = TLS_WBUF_SIZE
                         /\ off + chunk < T => n * TLS_MAX_RECORD_PLAINTEXT <= off + chunk
        /\ job.whole => c.wbig # NULL /\ e = c /\ n = 1
    BY <1>0, <2>1 DEF Roomy
  <2> QED
    BY <2>2, <2>3, <2>4
<1>3. /\ Encrypting(c, job) /\ c \in Connection /\ Stage(c) /\ job \in Job
      /\ chunk \in Nat \ {0} /\ off + chunk <= T /\ off \in Nat /\ T \in Nat
      /\ job.whole => off = 0 /\ chunk = T
  BY <1>0, NextChunk
<1>4. c.shape \in Shapes /\ Cursor(c, job)
  BY <1>3 DEF Encrypting
<1>5. Sliced(c, off, chunk, cut)
  BY <1>0, <1>3, <1>4, SliceIsNext
<1>6. PICK parts : parts = cut.parts
  OBVIOUS
<1>7. /\ parts \in Runs /\ Chained(c, parts, off, off + chunk)
      /\ cut.veci \in 1..3 /\ cut.vecoff \in Nat
  BY <1>5, <1>6 DEF Sliced
<1>8. r \in ptls_send_v(x, s, e.wbig, parts, chunk)
  BY <1>0, <1>2, <1>6
<1>9. Outcome(x, s, e.wbig, parts, r)
  BY <1>1, <1>2, <1>3, <1>7, <1>8, SendOutcome
<1>10. PICK t : t = r.seg
  OBVIOUS
<1>11. t \in Segment /\ t.block = s.block /\ t.data = s.data \o parts /\ t.off > 0
  BY <1>9, <1>10 DEF Outcome
<1> DEFINE d == [e EXCEPT !.chain[n] = t]
<1>12. Becomes(k, d, r.mem)
  BY <1>0, <1>10
<1>13. /\ e.chain \in Seq(Segment) /\ DOMAIN e.chain = 1..n /\ n \in 1..n
       /\ e.at = "encrypting" /\ e.shape = c.shape /\ e.wbig = c.wbig
  BY <1>0, <1>1, <1>2, ConnFields DEF Opened
<1>14. PICK ch : ch = [e.chain EXCEPT ![n] = t]
  OBVIOUS
<1>15. /\ ch \in Seq(Segment) /\ Len(ch) = n /\ ch[n] = t
       /\ \A i \in 1..(n - 1) : ch[i] = e.chain[i]
  BY <1>0, <1>2, <1>11, <1>13, <1>14
<1>16. d = [e EXCEPT !.chain = ch]
  BY <1>1, <1>14 DEF Connection
<1> HIDE DEF d
<1>17. /\ d \in Connection /\ d.at = "encrypting" /\ d.shape = c.shape /\ d.client = e.client
       /\ d.spill = e.spill /\ d.wbig = e.wbig /\ d.chain = ch
  BY <1>1, <1>13, <1>15, <1>16, ConnUpdates
<1>18. Rewritten(e, r.seg, d)
  BY <1>0, <1>10, <1>15, <1>17 DEF Rewritten
<1>19. /\ Takes(k, r.mem, d) /\ r.mem.bigcap = x.bigcap
       /\ \/ t.base = s.base /\ t.cap = s.cap
          \/ t.base # t.block /\ t.base # e.wbig /\ t.cap > 0
  <2>1. r \in ptls_send_v(x, e.chain[Len(e.chain)], e.wbig, parts, chunk) /\ Len(e.chain) > 0
    BY <1>0, <1>2, <1>8
  <2>2. /\ Takes(k, r.mem, d) /\ r.mem.bigcap = x.bigcap
        /\ \/ r.seg.base = e.chain[Len(e.chain)].base /\ r.seg.cap = e.chain[Len(e.chain)].cap
           \/ r.seg.base # r.seg.block /\ r.seg.base # e.wbig /\ r.seg.cap > 0
    BY <1>3, <1>7, <1>17, <1>18, <2>1, OwnsSend DEF Takes
  <2> QED
    BY <1>0, <1>10, <2>2
<1>20. e.client # NULL /\ (e.wbig # NULL => n = 1 /\ s.base # s.block /\ s.cap > 0)
  BY <1>0, <1>13 DEF Stage
<1>21. Stage(d)
  BY <1>11, <1>15, <1>17, <1>19, <1>20 DEF Stage
<1>22. Lends(conn[k], keep) => Lends(d, keep)
  <2>1. CASE c.wbig = NULL
    BY <2>1 DEF Lends
  <2>2. CASE c.wbig # NULL
    <3>1. e = c /\ n = 1
      <4>1. job.whole
        BY <1>2, <2>2
      <4> QED
        BY <1>2, <4>1
    <3>2. d.chain[1] = t /\ c.chain[1] = s /\ d.wbig = c.wbig
      BY <1>0, <1>15, <1>17, <3>1
    <3> QED
      BY <1>19, <3>1, <3>2 DEF Lends
  <2> QED
    BY <2>1, <2>2
<1>23. PICK j : j = job'
  OBVIOUS
<1>24. /\ j \in Job /\ j.who = k /\ j.off = off + chunk /\ j.veci = cut.veci
       /\ j.vecoff = cut.vecoff /\ j.whole = job.whole
  <2>1. off + chunk \in Nat
    BY <1>3
  <2>2. j = [job EXCEPT !.off = off + chunk, !.veci = cut.veci, !.vecoff = cut.vecoff]
    BY <1>0, <1>23
  <2> QED
    BY <1>3, <1>7, <2>1, <2>2 DEF Job
<1>25. Cursor(d, j)
  BY <1>5, <1>17, <1>24 DEF Cursor, Sliced
<1>26. Last(d.chain) = t /\ d.chain # <<>> /\ Len(d.chain) = n
  BY <1>2, <1>15, <1>17 DEF Last
<1>27. Fits(d, j)
  <2>1. CASE job.whole
    BY <1>0, <1>2, <1>3, <1>13, <1>17, <1>24, <2>1 DEF Fits
  <2>2. CASE ~job.whole
    <3>1. d.wbig = NULL /\ tls_record_count(Total(d.shape)) <= TLS_WSEG_MAX
      BY <1>0, <1>2, <1>13, <1>17, <2>2
    <3>2. t.base = t.block => t.cap = TLS_WBUF_SIZE
      BY <1>2, <1>11, <1>19, <2>2
    <3>3. j.off # 0
      BY <1>3, <1>24
    <3>4. j.off < Total(d.shape) => Len(d.chain) * TLS_MAX_RECORD_PLAINTEXT <= j.off
      BY <1>0, <1>2, <1>17, <1>24, <1>26, <2>2
    <3> QED
      BY <1>11, <1>24, <1>26, <2>2, <3>1, <3>2, <3>3, <3>4 DEF Fits
  <2> QED
    BY <2>1, <2>2
<1>28. InOrder(d, j.off)
  <2>1. PICK h, old : h = off + chunk /\ old = s.data
    OBVIOUS
  <2>2. /\ d.chain[n].data = old \o parts /\ old \in Runs /\ Chained(c, parts, off, h)
        /\ n = Len(d.chain) /\ d.shape = c.shape
    BY <1>2, <1>7, <1>11, <1>15, <1>17, <1>26, <2>1
  <2>4. \/ n = 1 /\ old = <<>> /\ off = 0
        \/ n = Len(c.chain) + 1 /\ old = <<>> /\ InOrder(c, off)
        \/ n = Len(c.chain) /\ old = c.chain[n].data /\ InOrder(c, off)
    BY <1>2, <2>1 DEF Filled
  <2>5. \A i \in 1..(n - 1) : d.chain[i] = c.chain[i]
    BY <1>2, <1>15, <1>17
  <2>6. c \in Connection /\ d \in Connection /\ n > 0 /\ parts \in Runs
    BY <1>2, <1>3, <1>7, <1>17
  <2>3. Added(c, d, n, old, parts, off, h)
    BY <2>2, <2>4, <2>5, <2>6 DEF Added
  <2>7. InOrder(d, h)
    BY <2>3, AddedInOrder
  <2> QED
    BY <1>24, <2>1, <2>7
<1>29. Encrypting(d, j)
  <2>1. d.shape \in Shapes /\ j.off <= Total(d.shape) /\ j.off # 0
    BY <1>0, <1>3, <1>4, <1>17, <1>24
  <2> QED
    BY <1>2, <1>25, <1>26, <1>27, <1>28, <2>1 DEF Encrypting
<1>30. keep' \in Nat
  BY DEF IInv, TypeOK
<1>31. mem.bigcap >= keep \/ Lends(conn[k], keep) => r.mem.bigcap >= keep' \/ Lends(d, keep')
  BY <1>19, <1>22
<1> QED
  BY <1>12, <1>17, <1>19, <1>21, <1>23, <1>24, <1>29, <1>30, <1>31, Step

\* One turn of the loop.
LEMMA EncryptRecordStep ==
  ASSUME IInv, EncryptRecord
  PROVE  IInv'
<1>1. TypeOK /\ MemInv /\ JobInv
  BY DEF IInv
<1>2. PICK k, c, cut : /\ k = job.who /\ c = conn[k]
                       /\ cut = tls_slice(c.shape, job.veci, job.vecoff, Chunk)
  OBVIOUS
<1>3. k \in Conn /\ job.off < Total(c.shape) /\ keep' = keep
  BY <1>1, <1>2 DEF EncryptRecord, TypeOK, Job
<1>4. \/ OpensBlock /\ Len(c.chain) = TLS_WSEG_MAX /\ Abandon(k, c, mem)
      \/ \E g \in IF OpensBlock THEN tls_wbuf_get(mem) ELSE {[ptr |-> 0, mem |-> mem]} :
           IF g.ptr = NULL THEN Abandon(k, c, g.mem)
           ELSE LET d == IF OpensBlock THEN [c EXCEPT !.chain = Append(@, tls_wseg_open(g.ptr))]
                                       ELSE c
                IN \E r \in ptls_send_v(g.mem, Last(d.chain), d.wbig, cut.parts, Chunk) :
                     IF ~r.ok THEN Abandon(k, d, r.mem)
                     ELSE /\ Becomes(k, [d EXCEPT !.chain[Len(d.chain)] = r.seg], r.mem)
                          /\ job' = [job EXCEPT !.off = @ + Chunk, !.veci = cut.veci,
                                                !.vecoff = cut.vecoff]
  BY <1>2 DEF EncryptRecord
<1>5. Takes(k, mem, c) /\ Stage(c) /\ c \in Connection
  BY <1>1, <1>2, <1>3, Split
<1>6. c.at = "encrypting" /\ job.who \in {Nobody, k} /\ job.who = k
  BY <1>2, <1>3, NextChunk
<1>7. CASE Abandon(k, c, mem)
  BY <1>2, <1>3, <1>5, <1>6, <1>7, AbandonStep
<1>8. ASSUME NEW e, NEW x, Takes(k, x, e), Stage(e), x.bigcap = mem.bigcap, Opened(c, e),
             Lends(c, keep) => Lends(e, keep),
             \E r \in ptls_send_v(x, Last(e.chain), e.wbig, cut.parts, Chunk) :
               IF ~r.ok THEN Abandon(k, e, r.mem)
               ELSE /\ Becomes(k, [e EXCEPT !.chain[Len(e.chain)] = r.seg], r.mem)
                    /\ job' = [job EXCEPT !.off = @ + Chunk, !.veci = cut.veci,
                                          !.vecoff = cut.vecoff]
      PROVE  IInv'
  <2>1. PICK r \in ptls_send_v(x, Last(e.chain), e.wbig, cut.parts, Chunk) :
          IF ~r.ok THEN Abandon(k, e, r.mem)
          ELSE /\ Becomes(k, [e EXCEPT !.chain[Len(e.chain)] = r.seg], r.mem)
               /\ job' = [job EXCEPT !.off = @ + Chunk, !.veci = cut.veci, !.vecoff = cut.vecoff]
    BY <1>8
  <2>2. CASE r.ok
    BY <1>2, <1>3, <1>6, <1>8, <2>1, <2>2, RecordStep
  <2>3. CASE ~r.ok
    <3>1. e \in Connection /\ x \in Memory /\ e.at = "encrypting"
      BY <1>8, HeldSets DEF Takes, Owns, Opened
    <3>2. Last(e.chain) \in Segment
      <4>1. PICK n, s : n = Len(e.chain) /\ s = e.chain[n]
        OBVIOUS
      <4>2. Last(e.chain) = s /\ s \in Segment
        BY <1>2, <1>3, <1>6, <1>8, <3>1, <4>1, OpenedBlock DEF Placed
      <4> QED
        BY <4>2
    <3>3. cut.parts \in Runs /\ Chunk \in Nat \ {0}
      <4>1. /\ Encrypting(c, job) /\ job \in Job /\ Chunk \in Nat \ {0}
            /\ job.off + Chunk <= Total(c.shape)
        BY <1>2, <1>3, <1>6, NextChunk
      <4>2. c.shape \in Shapes /\ Cursor(c, job)
        BY <4>1 DEF Encrypting
      <4>3. Sliced(c, job.off, Chunk, cut)
        BY <1>2, <1>3, <4>1, <4>2, SliceIsNext
      <4> QED
        BY <4>1, <4>3 DEF Sliced
    <3>4. Outcome(x, Last(e.chain), e.wbig, cut.parts, r)
      BY <3>1, <3>2, <3>3, SendOutcome
    <3>5. r.mem = x /\ Abandon(k, e, x)
      BY <2>1, <2>3, <3>4 DEF Outcome
    <3> QED
      BY <1>2, <1>3, <1>6, <1>8, <3>1, <3>5, AbandonStep
  <2> QED
    BY <2>2, <2>3
<1>9. ASSUME NEW g \in IF OpensBlock THEN tls_wbuf_get(mem) ELSE {[ptr |-> 0, mem |-> mem]},
             IF g.ptr = NULL THEN Abandon(k, c, g.mem)
             ELSE LET d == IF OpensBlock THEN [c EXCEPT !.chain = Append(@, tls_wseg_open(g.ptr))]
                                         ELSE c
                  IN \E r \in ptls_send_v(g.mem, Last(d.chain), d.wbig, cut.parts, Chunk) :
                       IF ~r.ok THEN Abandon(k, d, r.mem)
                       ELSE /\ Becomes(k, [d EXCEPT !.chain[Len(d.chain)] = r.seg], r.mem)
                            /\ job' = [job EXCEPT !.off = @ + Chunk, !.veci = cut.veci,
                                                  !.vecoff = cut.vecoff]
      PROVE  IInv'
  <2>1. CASE ~OpensBlock
    <3>1. g.ptr = 0 /\ g.ptr # NULL /\ g.mem = mem
      BY <1>9, <2>1, Addresses
    <3>2. Opened(c, c)
      BY <1>6, <2>1 DEF Opened
    <3>3. \E r \in ptls_send_v(mem, Last(c.chain), c.wbig, cut.parts, Chunk) :
            IF ~r.ok THEN Abandon(k, c, r.mem)
            ELSE /\ Becomes(k, [c EXCEPT !.chain[Len(c.chain)] = r.seg], r.mem)
                 /\ job' = [job EXCEPT !.off = @ + Chunk, !.veci = cut.veci,
                                       !.vecoff = cut.vecoff]
      BY <1>9, <2>1, <3>1
    <3> QED
      BY <1>5, <1>8, <3>2, <3>3
  <2>2. CASE OpensBlock
    <3>1. g \in tls_wbuf_get(mem)
      BY <1>9, <2>2
    <3>2. PICK a, x : a = g.ptr /\ x = g.mem
      OBVIOUS
    <3>3. \/ a = NULL /\ x = mem
          \/ /\ a \in Heap /\ x.bigcap = mem.bigcap
             /\ \A d \in Connection :
                  /\ d.client = c.client /\ d.spill = c.spill /\ d.wbig = c.wbig
                  /\ d.chain = Append(c.chain, tls_wseg_open(a))
                  => Takes(k, x, d)
      BY <1>5, <3>1, <3>2, OwnsBlock DEF Takes
    <3>4. CASE a = NULL
      <4>1. Abandon(k, c, mem)
        BY <1>9, <3>2, <3>3, <3>4, Addresses
      <4> QED
        BY <1>7, <4>1
    <3>5. CASE a # NULL
      <4>1. a \in Heap
        BY <3>3, <3>5
      <4>2. PICK ch : ch = Append(c.chain, tls_wseg_open(a))
        OBVIOUS
      <4>3. ch \in Seq(Segment)
        BY <1>5, <4>1, <4>2, ConnFields, FreshSegment
      <4> DEFINE e == [c EXCEPT !.chain = ch]
      <4>4. /\ e \in Connection /\ e.client = c.client /\ e.spill = c.spill /\ e.wbig = c.wbig
            /\ e.chain = ch /\ e.at = c.at /\ e.shape = c.shape
        BY <1>5, <4>3, ConnUpdates
      <4>5. e = [c EXCEPT !.chain = Append(@, tls_wseg_open(a))]
        BY <4>2
      <4>6. \E r \in ptls_send_v(x, Last(e.chain), e.wbig, cut.parts, Chunk) :
              IF ~r.ok THEN Abandon(k, e, r.mem)
              ELSE /\ Becomes(k, [e EXCEPT !.chain[Len(e.chain)] = r.seg], r.mem)
                   /\ job' = [job EXCEPT !.off = @ + Chunk, !.veci = cut.veci,
                                         !.vecoff = cut.vecoff]
        <5> HIDE DEF e
        <5> QED
          BY <1>9, <2>2, <3>2, <3>5, <4>5
      <4> HIDE DEF e
      <4>7. Takes(k, x, e) /\ x.bigcap = mem.bigcap
        BY <3>3, <3>5, <4>2, <4>4
      <4>8. c.wbig = NULL
        <5>1. Encrypting(c, job) /\ ~job.whole
          BY <1>2, <1>3, <1>6, <2>2, NextChunk
        <5> QED
          BY <5>1 DEF Encrypting, Fits
      <4>9. Stage(e)
        BY <1>5, <1>6, <4>4, <4>8 DEF Stage
      <4>10. Opened(c, e)
        BY <1>6, <2>2, <4>1, <4>2, <4>4 DEF Opened
      <4>11. ~Lends(c, keep)
        BY <4>8 DEF Lends
      <4> QED
        BY <1>8, <4>6, <4>7, <4>9, <4>10, <4>11
    <3> QED
      BY <3>4, <3>5
  <2> QED
    BY <2>1, <2>2
<1> QED
  BY <1>4, <1>7, <1>9

-----------------------------------------------------------------------------
(* The invariant *)

\* Nothing is held at first.
LEMMA InitInv ==
  ASSUME Init
  PROVE  IInv
<1>1. /\ mem = [heap |-> {}, used |-> 0, free |-> <<>>, wpool |-> <<>>, wn |-> 0, wlive |-> 0,
                spool |-> <<>>, sn |-> 0, big |-> NULL, bigcap |-> 0, blive |-> 0]
      /\ conn = [k \in Conn |-> NoConn] /\ job = Idle /\ keep = 0
  BY DEF Init
<1>2. /\ mem.heap = {} /\ mem.used = 0 /\ mem.free = <<>> /\ mem.wpool = <<>> /\ mem.wn = 0
      /\ mem.wlive = 0 /\ mem.spool = <<>> /\ mem.sn = 0 /\ mem.big = NULL /\ mem.bigcap = 0
      /\ mem.blive = 0
  BY <1>1
<1>3. mem \in Memory
  <2>1. /\ 0 \in 0..POOL_CAP /\ <<>> \in Seq(Slab) /\ <<>> \in Seq(Heap)
        /\ 0 \in Int /\ 0 \in Nat /\ {} \in SUBSET Heap /\ NULL \in Heap \cup {NULL}
    BY PoolsAssumption
  <2> QED
    BY <1>1, <2>1, ZenonT(40) DEF Memory
<1>4. NoConn \in Connection
  <2>1. /\ <<>> \in Seq(Segment) /\ NULL \in Slab \cup Heap \cup {NULL}
        /\ NULL \in Heap \cup {NULL} /\ <<0, 0>> \in Shapes \cup {<<0, 0>>}
    OBVIOUS
  <2> QED
    BY <2>1, ZenonT(40) DEF NoConn, Connection
<1>5. /\ NoConn.at = "none" /\ NoConn.client = NULL /\ NoConn.chain = <<>> /\ NoConn.wbig = NULL
      /\ NoConn.spill = NULL /\ NoConn.shape = <<0, 0>>
  BY DEF NoConn
<1>6. /\ Idle \in Job /\ Idle.who = Nobody
  BY DEF Idle, Job
<1>7. TypeOK
  <2>1. conn \in [Conn -> Connection]
    BY <1>1, <1>4
  <2> QED
    BY <1>1, <1>3, <1>6, <2>1 DEF TypeOK
<1>8. \A k \in Conn : conn[k] = NoConn
  BY <1>1
<1>9. Blocks(NoConn) = {} /\ Bigs(NoConn) = {} /\ Swaps(NoConn) = {} /\ Others(NoConn) = {}
  <2>1. DOMAIN NoConn.chain = {}
    BY <1>5
  <2>2. Blocks(NoConn) = {}
    BY <2>1 DEF Blocks
  <2>3. Swaps(NoConn) = {}
    BY <2>1 DEF Swaps
  <2> QED
    BY <1>5, <2>2, <2>3 DEF Bigs, Others
<1>10. AllBlocks = {} /\ AllBigs = {} /\ AllOthers = {}
  BY <1>8, <1>9 DEF AllBlocks, AllBigs, AllOthers
<1>11. Tidy(NoConn) /\ Stage(NoConn)
  <2>1. DOMAIN NoConn.chain = {}
    BY <1>5
  <2> QED
    BY <1>5, <1>9, <2>1 DEF Tidy, Stage
<1>12. Held(mem, {}, {}, {})
  <2>1. ToSet(mem.wpool) = {} /\ ToSet(mem.spool) = {} /\ ToSet(mem.free) = {}
    BY <1>2 DEF ToSet
  <2>2. Pooled(mem) = {}
    BY <1>2, <2>1 DEF Pooled
  <2>3. IsInjective(mem.wpool) /\ IsInjective(mem.spool) /\ IsInjective(mem.free)
    BY <1>2 DEF IsInjective
  <2>4. Sane(mem)
    BY <1>2, <1>3, <2>1, <2>3, PoolsAssumption DEF Sane
  <2>5. Apart(mem, {}, {}, {})
    BY <2>1, <2>2 DEF Apart
  <2>6. 0..(mem.used - 1) = {}
    BY <1>2
  <2>7. Accounted(mem, {}, {}, {})
    BY <1>2, <2>1, <2>2, <2>6 DEF Accounted
  <2> QED
    BY <1>2, <2>4, <2>5, <2>7, FS_EmptySet DEF Held
<1>13. MemInv
  BY <1>8, <1>9, <1>10, <1>11, <1>12 DEF MemInv
<1>14. KeepInv
  BY <1>1, <1>2 DEF KeepInv
<1>15. JobInv
  BY <1>1, <1>5, <1>6, <1>8, PoolsAssumption DEF JobInv
<1> QED
  BY <1>7, <1>13, <1>14, <1>15 DEF IInv

\* Every step keeps it.
LEMMA NextInv ==
  ASSUME IInv, [Next]_vars
  PROVE  IInv'
<1>1. ASSUME NEW k \in Conn, Accept(k) PROVE IInv'
  BY <1>1, AcceptStep
<1>2. ASSUME NEW k \in Conn, WriteResponse(k) PROVE IInv'
  BY <1>2, WriteResponseStep
<1>3. ASSUME NEW k \in Conn, OnWrite(k) PROVE IInv'
  BY <1>3, OnWriteStep
<1>4. ASSUME NEW k \in Conn, BadRequest(k) PROVE IInv'
  BY <1>4, BadRequestStep
<1>5. ASSUME NEW k \in Conn, OnFinalWrite(k) PROVE IInv'
  BY <1>5, OnFinalWriteStep
<1>6. ASSUME NEW k \in Conn, Closes(k) PROVE IInv'
  BY <1>6, ClosesStep
<1>7. ASSUME NEW k \in Conn, OnClose(k) PROVE IInv'
  BY <1>7, OnCloseStep
<1>8. ASSUME NEW k \in Conn, Stash(k) PROVE IInv'
  BY <1>8, StashStep
<1>9. ASSUME NEW k \in Conn, Drain(k) PROVE IInv'
  BY <1>9, DrainStep
<1>10. CASE EncryptRecord
  BY <1>10, EncryptRecordStep
<1>11. CASE EndEncrypting
  BY <1>11, EndEncryptingStep
<1>12. CASE UNCHANGED vars
  <2>1. mem' = mem /\ conn' = conn /\ job' = job /\ keep' = keep
    BY <1>12 DEF vars
  <2>2. TypeOK'
    BY <2>1 DEF IInv, TypeOK
  <2>3. MemInv'
    <3>1. MemInv
      BY DEF IInv
    <3>2. AllBlocks' = AllBlocks /\ AllBigs' = AllBigs /\ AllOthers' = AllOthers
      BY <2>1 DEF AllBlocks, AllBigs, AllOthers
    <3> QED
      BY <2>1, <3>1, <3>2 DEF MemInv
  <2>4. KeepInv'
    BY <2>1 DEF IInv, KeepInv
  <2>5. JobInv'
    BY <2>1 DEF IInv, JobInv
  <2> QED
    BY <2>2, <2>3, <2>4, <2>5 DEF IInv
<1> QED
  BY <1>1, <1>2, <1>3, <1>4, <1>5, <1>6, <1>7, <1>8, <1>9, <1>10, <1>11, <1>12 DEF Next

\* The inductive invariant always holds.
LEMMA Invariant == Spec => []IInv
<1>1. Init => IInv
  BY InitInv
<1>2. IInv /\ [Next]_vars => IInv'
  BY NextInv
<1> QED
  BY <1>1, <1>2, PTL DEF Spec

-----------------------------------------------------------------------------
(* What it says of the properties *)

\* When no address occurs twice among the holders they are as many as it.
LEMMA OnceEach ==
  ASSUME NEW H, NEW G, IsFiniteSet(G), {h[4] : h \in H} = G,
         \A g, h \in H : g[4] = h[4] => g = h
  PROVE  Cardinality(H) = Cardinality(G)
<1> DEFINE f == [h \in H |-> h[4]]
<1>1. f \in [H -> G]
  OBVIOUS
<1>2. \A g, h \in H : f[g] = f[h] => g = h
  OBVIOUS
<1>3. \A a \in G : \E h \in H : f[h] = a
  OBVIOUS
<1> HIDE DEF f
<1>4. f \in Injection(H, G)
  BY <1>1, <1>2 DEF Injection, IsInjective
<1>5. f \in Surjection(H, G)
  BY <1>1, <1>3 DEF Surjection
<1> QED
  BY <1>4, <1>5, FS_Injection

\* The holders by what they are: pools, chains, oversized buffers, the rest.
PoolHolders ==
  {<<Nobody, "wpool", i, mem.wpool[i]>> : i \in DOMAIN mem.wpool}
  \cup {<<Nobody, "spool", i, mem.spool[i]>> : i \in DOMAIN mem.spool}
  \cup {<<Nobody, "slot", 0, a>> : a \in {mem.big} \ {NULL}}
ChainHolders ==
  UNION {{<<k, "chain", i, conn[k].chain[i].block>> : i \in DOMAIN conn[k].chain} : k \in Conn}
BigHolders == UNION {{<<k, "big", 0, a>> : a \in {conn[k].wbig} \ {NULL}} : k \in Conn}
OtherHolders ==
  UNION {
      {<<k, "ptls", i, conn[k].chain[i].base>> :
         i \in {j \in DOMAIN conn[k].chain :
                  conn[k].chain[j].base \notin {conn[k].chain[j].block, conn[k].wbig}}}
      \cup {<<k, "spill", 0, a>> : a \in {conn[k].spill} \ {NULL}}
      \cup {<<k, "client", 0, a>> : a \in {conn[k].client} \cap Heap} : k \in Conn}

\* These are all of them, and a holder's second part tells which it is.
LEMMA HolderParts ==
  /\ Holders = PoolHolders \cup ChainHolders \cup BigHolders \cup OtherHolders
  /\ {h \in Holders : h[2] = "chain"} = ChainHolders
  /\ {h \in Holders : h[2] = "big"} = BigHolders
<1>1. Holders = PoolHolders \cup ChainHolders \cup BigHolders \cup OtherHolders
  BY DEF Holders, PoolHolders, ChainHolders, BigHolders, OtherHolders
<1>2. \A h \in PoolHolders : h[2] \in {"wpool", "spool", "slot"}
  BY DEF PoolHolders
<1>3. \A h \in ChainHolders : h[2] = "chain"
  BY DEF ChainHolders
<1>4. \A h \in BigHolders : h[2] = "big"
  BY DEF BigHolders
<1>5. \A h \in OtherHolders : h[2] \in {"ptls", "spill", "client"}
  BY DEF OtherHolders
<1> QED
  BY <1>1, <1>2, <1>3, <1>4, <1>5

\* H holds the addresses A, each once.
Covers(H, A) ==
  /\ {h[4] : h \in H} = A
  /\ \A g, h \in H : g[4] = h[4] => g = h

\* Two groups of holders without a common address.
LEMMA CoversBoth ==
  ASSUME NEW H, NEW I, NEW A, NEW B, Covers(H, A), Covers(I, B), A \cap B = {}
  PROVE  Covers(H \cup I, A \cup B)
<1>1. \A h \in H : h[4] \in A
  BY DEF Covers
<1>2. \A h \in I : h[4] \in B
  BY DEF Covers
<1>3. {h[4] : h \in H \cup I} = A \cup B
  BY DEF Covers
<1>4. ASSUME NEW g \in H \cup I, NEW h \in H \cup I, g[4] = h[4]
      PROVE  g = h
  BY <1>1, <1>2, <1>4 DEF Covers
<1> QED
  BY <1>3, <1>4 DEF Covers

\* The entries of a free list.
LEMMA CoversList ==
  ASSUME NEW s, IsInjective(s), NEW who, NEW what
  PROVE  Covers({<<who, what, i, s[i]>> : i \in DOMAIN s}, ToSet(s))
<1> DEFINE H == {<<who, what, i, s[i]>> : i \in DOMAIN s}
<1>1. {h[4] : h \in H} = ToSet(s)
  <2>1. ASSUME NEW h \in H PROVE h[4] \in ToSet(s)
    BY DEF ToSet
  <2>2. ASSUME NEW i \in DOMAIN s PROVE \E h \in H : h[4] = s[i]
    <3>1. <<who, what, i, s[i]>> \in H /\ <<who, what, i, s[i]>>[4] = s[i]
      OBVIOUS
    <3> QED
      BY <3>1, Zenon
  <2> HIDE DEF H
  <2> QED
    BY <2>1, <2>2 DEF ToSet
<1>2. ASSUME NEW g \in H, NEW h \in H, g[4] = h[4]
      PROVE  g = h
  <2>1. PICK i \in DOMAIN s : g = <<who, what, i, s[i]>>
    OBVIOUS
  <2>2. PICK j \in DOMAIN s : h = <<who, what, j, s[j]>>
    OBVIOUS
  <2>3. s[i] = s[j]
    BY <1>2, <2>1, <2>2
  <2>4. i = j
    BY <2>3 DEF IsInjective
  <2> QED
    BY <2>1, <2>2, <2>4
<1> QED
  BY <1>1, <1>2 DEF Covers

\* A set with one holder for each address.
LEMMA CoversSet ==
  ASSUME NEW A, NEW who, NEW what
  PROVE  Covers({<<who, what, 0, a>> : a \in A}, A)
<1> DEFINE H == {<<who, what, 0, a>> : a \in A}
<1>1. {h[4] : h \in H} = A
  <2>1. ASSUME NEW h \in H PROVE h[4] \in A
    OBVIOUS
  <2>2. ASSUME NEW a \in A PROVE \E h \in H : h[4] = a
    <3>1. <<who, what, 0, a>> \in H /\ <<who, what, 0, a>>[4] = a
      OBVIOUS
    <3> QED
      BY <3>1, Zenon
  <2> HIDE DEF H
  <2> QED
    BY <2>1, <2>2
<1>2. \A g, h \in H : g[4] = h[4] => g = h
  OBVIOUS
<1> QED
  BY <1>1, <1>2 DEF Covers

\* What the pools hold.
LEMMA CoversPools ==
  ASSUME Sane(mem)
  PROVE  Covers(PoolHolders, Pooled(mem))
<1> DEFINE P == {<<Nobody, "wpool", i, mem.wpool[i]>> : i \in DOMAIN mem.wpool}
           Q == {<<Nobody, "spool", i, mem.spool[i]>> : i \in DOMAIN mem.spool}
           R == {<<Nobody, "slot", 0, a>> : a \in {mem.big} \ {NULL}}
<1>1. Covers(P, ToSet(mem.wpool)) /\ Covers(Q, ToSet(mem.spool))
  BY CoversList DEF Sane
<1>2. Covers(R, {mem.big} \ {NULL})
  BY CoversSet
<1>3. PoolHolders = (P \cup Q) \cup R
  BY DEF PoolHolders
<1> HIDE DEF P, Q, R
<1>4. Covers(P \cup Q, ToSet(mem.wpool) \cup ToSet(mem.spool))
  BY <1>1, CoversBoth DEF Sane
<1>5. (ToSet(mem.wpool) \cup ToSet(mem.spool)) \cap ({mem.big} \ {NULL}) = {}
  BY DEF Sane
<1>6. Covers((P \cup Q) \cup R, (ToSet(mem.wpool) \cup ToSet(mem.spool)) \cup ({mem.big} \ {NULL}))
  BY <1>2, <1>4, <1>5, CoversBoth
<1> QED
  BY <1>3, <1>6 DEF Pooled

\* The connections together, when each covers what no other has.
LEMMA CoversAll ==
  ASSUME NEW H, NEW A, \A k \in Conn : Covers(H[k], A[k]),
         \A k, l \in Conn : k # l => A[k] \cap A[l] = {}
  PROVE  Covers(UNION {H[k] : k \in Conn}, UNION {A[k] : k \in Conn})
<1> DEFINE U == UNION {H[k] : k \in Conn}
<1>1. \A k \in Conn : {h[4] : h \in H[k]} = A[k]
  BY DEF Covers
<1>2. {h[4] : h \in U} = UNION {A[k] : k \in Conn}
  BY <1>1
<1>3. ASSUME NEW g \in U, NEW h \in U, g[4] = h[4]
      PROVE  g = h
  <2>1. PICK k \in Conn : g \in H[k]
    OBVIOUS
  <2>2. PICK l \in Conn : h \in H[l]
    OBVIOUS
  <2>3. g[4] \in A[k] /\ h[4] \in A[l]
    BY <1>1, <2>1, <2>2
  <2>4. k = l
    BY <1>3, <2>3
  <2> QED
    BY <1>3, <2>1, <2>2, <2>4 DEF Covers
<1> QED
  BY <1>2, <1>3 DEF Covers

\* The blocks of a connection's chain, and of all of them.
LEMMA CoversChains ==
  ASSUME MemInv
  PROVE  Covers(ChainHolders, AllBlocks)
<1> DEFINE H == [k \in Conn |-> {<<k, "chain", i, conn[k].chain[i].block>> :
                                   i \in DOMAIN conn[k].chain}]
           A == [k \in Conn |-> Blocks(conn[k])]
<1>1. ASSUME NEW k \in Conn PROVE Covers(H[k], A[k])
  <2>1. PICK c, I : c = conn[k] /\ I = DOMAIN c.chain
    OBVIOUS
  <2> DEFINE s == [i \in I |-> c.chain[i].block]
  <2>2. \A i, j \in I : c.chain[i].block = c.chain[j].block => i = j
    BY <2>1 DEF MemInv, Tidy
  <2>3. IsInjective(s)
    BY <2>2 DEF IsInjective
  <2>4. Covers({<<k, "chain", i, s[i]>> : i \in DOMAIN s}, ToSet(s))
    <3> HIDE DEF s
    <3> QED
      BY <2>3, CoversList
  <2>5. ToSet(s) = Blocks(c)
    BY <2>1 DEF ToSet, Blocks
  <2>6. {<<k, "chain", i, s[i]>> : i \in DOMAIN s} = H[k]
    BY <2>1
  <2>7. A[k] = Blocks(c)
    BY <2>1
  <2> QED
    BY <2>4, <2>5, <2>6, <2>7
<1>2. \A k, l \in Conn : k # l => A[k] \cap A[l] = {}
  BY DEF MemInv
<1>3. ChainHolders = UNION {H[k] : k \in Conn} /\ AllBlocks = UNION {A[k] : k \in Conn}
  BY DEF ChainHolders, AllBlocks
<1> HIDE DEF H, A
<1> QED
  BY <1>1, <1>2, <1>3, CoversAll

\* Their oversized buffers.
LEMMA CoversBigs ==
  ASSUME MemInv
  PROVE  Covers(BigHolders, AllBigs)
<1> DEFINE H == [k \in Conn |-> {<<k, "big", 0, a>> : a \in {conn[k].wbig} \ {NULL}}]
           A == [k \in Conn |-> Bigs(conn[k])]
<1>1. ASSUME NEW k \in Conn PROVE Covers(H[k], A[k])
  <2>1. Covers({<<k, "big", 0, a>> : a \in {conn[k].wbig} \ {NULL}}, {conn[k].wbig} \ {NULL})
    BY CoversSet
  <2> QED
    BY <2>1 DEF Bigs
<1>2. \A k, l \in Conn : k # l => A[k] \cap A[l] = {}
  BY DEF MemInv
<1>3. BigHolders = UNION {H[k] : k \in Conn} /\ AllBigs = UNION {A[k] : k \in Conn}
  BY DEF BigHolders, AllBigs
<1> HIDE DEF H, A
<1> QED
  BY <1>1, <1>2, <1>3, CoversAll

\* What picotls put in the place of blocks.
LEMMA CoversSwaps ==
  ASSUME NEW c, Tidy(c), NEW k, NEW I, I = {j \in DOMAIN c.chain : Swapped(c, j)}
  PROVE  Covers({<<k, "ptls", i, c.chain[i].base>> : i \in I}, Swaps(c))
<1> DEFINE s == [i \in I |-> c.chain[i].base]
<1>1. \A i, j \in I : c.chain[i].base = c.chain[j].base => i = j
  BY DEF Tidy
<1>2. IsInjective(s)
  BY <1>1 DEF IsInjective
<1>3. Covers({<<k, "ptls", i, s[i]>> : i \in DOMAIN s}, ToSet(s))
  <2> HIDE DEF s
  <2> QED
    BY <1>2, CoversList
<1>4. ToSet(s) = Swaps(c)
  BY DEF ToSet, Swaps
<1>5. {<<k, "ptls", i, s[i]>> : i \in DOMAIN s} = {<<k, "ptls", i, c.chain[i].base>> : i \in I}
  OBVIOUS
<1> QED
  BY <1>3, <1>4, <1>5

\* The rest of what connections hold, but for slab entries.
LEMMA CoversOthers ==
  ASSUME TypeOK, MemInv
  PROVE  Covers(OtherHolders, AllOthers \cap Heap)
<1> DEFINE P(k) == {<<k, "ptls", i, conn[k].chain[i].base>> :
                      i \in {j \in DOMAIN conn[k].chain :
                               conn[k].chain[j].base \notin {conn[k].chain[j].block, conn[k].wbig}}}
           Q(k) == {<<k, "spill", 0, a>> : a \in {conn[k].spill} \ {NULL}}
           R(k) == {<<k, "client", 0, a>> : a \in {conn[k].client} \cap Heap}
           H == [k \in Conn |-> P(k) \cup Q(k) \cup R(k)]
           A == [k \in Conn |-> Others(conn[k]) \cap Heap]
<1>1. ASSUME NEW k \in Conn PROVE Covers(H[k], A[k])
  <2>1. PICK c : c = conn[k]
    OBVIOUS
  <2>2. c \in Connection /\ Tidy(c)
    BY <2>1 DEF TypeOK, MemInv
  <2>3. /\ c.spill \in Heap \cup {NULL} /\ c.client \in Slab \cup Heap \cup {NULL}
        /\ \A i \in DOMAIN c.chain : c.chain[i].base \in Heap
    BY <2>2, ConnFields DEF Segment
  <2>4. Covers(P(k), Swaps(c))
    <3>1. PICK I : I = {j \in DOMAIN c.chain : Swapped(c, j)}
      OBVIOUS
    <3>2. P(k) = {<<k, "ptls", i, c.chain[i].base>> : i \in I}
      BY <2>1, <3>1 DEF Swapped
    <3> QED
      BY <2>2, <3>1, <3>2, CoversSwaps
  <2>5. Covers(Q(k), {c.spill} \ {NULL}) /\ Covers(R(k), {c.client} \cap Heap)
    BY <2>1, CoversSet
  <2>6. Swaps(c) \subseteq Heap
    BY <2>3 DEF Swaps
  <2> HIDE DEF P, Q, R
  <2>7. Covers(P(k) \cup Q(k), Swaps(c) \cup ({c.spill} \ {NULL}))
    <3>1. Swaps(c) \cap ({c.spill} \ {NULL}) = {}
      BY <2>2 DEF Tidy
    <3> QED
      BY <2>4, <2>5, <3>1, CoversBoth
  <2>8. Covers((P(k) \cup Q(k)) \cup R(k),
               (Swaps(c) \cup ({c.spill} \ {NULL})) \cup ({c.client} \cap Heap))
    <3>1. (Swaps(c) \cup ({c.spill} \ {NULL})) \cap ({c.client} \cap Heap) = {}
      BY <2>2, Addresses DEF Tidy
    <3> QED
      BY <2>5, <2>7, <3>1, CoversBoth
  <2>9. (Swaps(c) \cup ({c.spill} \ {NULL})) \cup ({c.client} \cap Heap) = Others(c) \cap Heap
    BY <2>3, <2>6, Addresses DEF Others
  <2>10. H[k] = (P(k) \cup Q(k)) \cup R(k) /\ A[k] = Others(c) \cap Heap
    BY <2>1
  <2> QED
    BY <2>8, <2>9, <2>10
<1>2. \A k, l \in Conn : k # l => A[k] \cap A[l] = {}
  BY DEF MemInv
<1>3. OtherHolders = UNION {H[k] : k \in Conn}
  BY DEF OtherHolders
<1>4. AllOthers \cap Heap = UNION {A[k] : k \in Conn}
  BY DEF AllOthers
<1> HIDE DEF H, A
<1> QED
  BY <1>1, <1>2, <1>3, <1>4, CoversAll

\* All of them hold what malloc has given out.
LEMMA CoversHeap ==
  ASSUME TypeOK, MemInv
  PROVE  Covers(Holders, mem.heap)
<1>1. PICK W, B, O, m, L : /\ W = AllBlocks /\ B = AllBigs /\ O = AllOthers /\ m = mem
                           /\ L = Pooled(mem)
  OBVIOUS
<1>2. Held(m, W, B, O)
  BY <1>1 DEF MemInv
<1>3. Covers(PoolHolders, L)
  BY <1>1, <1>2, CoversPools DEF Held
<1>4. Covers(ChainHolders, W) /\ Covers(BigHolders, B) /\ Covers(OtherHolders, O \cap Heap)
  BY <1>1, CoversChains, CoversBigs, CoversOthers
<1>5. L \cap (W \cup B \cup O) = {} /\ W \cap B = {} /\ W \cap O = {} /\ B \cap O = {}
  BY <1>1, <1>2 DEF Held, Apart
<1>6. m.heap = L \cup W \cup B \cup (O \cap Heap)
  BY <1>1, <1>2 DEF Held, Accounted
<1>7. Covers(PoolHolders \cup ChainHolders, L \cup W)
  <2>1. L \cap W = {}
    BY <1>5
  <2> QED
    BY <1>3, <1>4, <2>1, CoversBoth
<1>8. Covers((PoolHolders \cup ChainHolders) \cup BigHolders, (L \cup W) \cup B)
  <2>1. (L \cup W) \cap B = {}
    BY <1>5
  <2> QED
    BY <1>4, <1>7, <2>1, CoversBoth
<1>9. Covers(((PoolHolders \cup ChainHolders) \cup BigHolders) \cup OtherHolders,
             ((L \cup W) \cup B) \cup (O \cap Heap))
  <2>1. ((L \cup W) \cup B) \cap (O \cap Heap) = {}
    BY <1>5
  <2> QED
    BY <1>4, <1>8, <2>1, CoversBoth
<1> QED
  BY <1>1, <1>6, <1>9, HolderParts

\* And the free list and the connections hold the slab below the bump pointer.
LEMMA CoversSlab ==
  ASSUME TypeOK, MemInv
  PROVE  Covers(SlabHolders, 0..(mem.used - 1))
<1> DEFINE H == [k \in Conn |-> {<<k, "client", 0, a>> : a \in {conn[k].client} \cap Slab}]
           A == [k \in Conn |-> Others(conn[k]) \cap Slab]
           F == {<<Nobody, "free", i, mem.free[i]>> : i \in DOMAIN mem.free}
<1>1. ASSUME NEW k \in Conn PROVE Covers(H[k], A[k])
  <2>1. PICK c : c = conn[k]
    OBVIOUS
  <2>2. c \in Connection
    BY <2>1 DEF TypeOK
  <2>3. c.spill \in Heap \cup {NULL} /\ \A i \in DOMAIN c.chain : c.chain[i].base \in Heap
    BY <2>2, ConnFields DEF Segment
  <2>4. Swaps(c) \subseteq Heap
    BY <2>3 DEF Swaps
  <2>5. Others(c) \cap Slab = {c.client} \cap Slab
    BY <2>3, <2>4, Addresses DEF Others
  <2>6. Covers({<<k, "client", 0, a>> : a \in {c.client} \cap Slab}, {c.client} \cap Slab)
    BY CoversSet
  <2>7. /\ H[k] = {<<k, "client", 0, a>> : a \in {c.client} \cap Slab}
        /\ A[k] = Others(c) \cap Slab
    BY <2>1
  <2> QED
    BY <2>5, <2>6, <2>7
<1>2. \A k, l \in Conn : k # l => A[k] \cap A[l] = {}
  BY DEF MemInv
<1>3. SlabHolders = F \cup UNION {H[k] : k \in Conn}
  BY DEF SlabHolders
<1>4. AllOthers \cap Slab = UNION {A[k] : k \in Conn}
  BY DEF AllOthers
<1> HIDE DEF H, A
<1>5. Covers(UNION {H[k] : k \in Conn}, AllOthers \cap Slab)
  BY <1>1, <1>2, <1>4, CoversAll
<1>6. Held(mem, AllBlocks, AllBigs, AllOthers)
  BY DEF MemInv
<1>7. Covers(F, ToSet(mem.free))
  BY <1>6, CoversList DEF Held, Sane
<1>8. ToSet(mem.free) \cap (AllOthers \cap Slab) = {}
  BY <1>6 DEF Held, Apart
<1>9. 0..(mem.used - 1) = ToSet(mem.free) \cup (AllOthers \cap Slab)
  BY <1>6 DEF Held, Accounted
<1> HIDE DEF F
<1>10. PICK U, L, S : /\ U = UNION {H[k] : k \in Conn} /\ L = ToSet(mem.free)
                      /\ S = AllOthers \cap Slab
  OBVIOUS
<1>11. Covers(U, S) /\ Covers(F, L) /\ L \cap S = {}
  BY <1>5, <1>7, <1>8, <1>10
<1>12. Covers(F \cup U, L \cup S)
  BY <1>11, CoversBoth
<1>13. SlabHolders = F \cup U /\ 0..(mem.used - 1) = L \cup S
  BY <1>3, <1>9, <1>10
<1> QED
  BY <1>12, <1>13

\* No memory leaks, is held twice or is given back while it is held, whatever
\* order the connections' callbacks come in and wherever malloc or picotls
\* fails: HeldByOne, of the client slab, the write buffers, the oversized
\* buffer and the spills (client_alloc and client_free of server.c, the pools
\* of tls.c and tls_release_wbuf).
THEOREM MemoryHeldByOne == Spec => []HeldByOne
<1>1. IInv => HeldByOne
  <2> SUFFICES ASSUME IInv PROVE HeldByOne
    OBVIOUS
  <2>1. TypeOK /\ MemInv
    BY DEF IInv
  <2>2. Covers(Holders, mem.heap) /\ Covers(SlabHolders, 0..(mem.used - 1))
    BY <2>1, CoversHeap, CoversSlab
  <2>3. IsFiniteSet(mem.heap) /\ IsFiniteSet(0..(mem.used - 1))
    <3>1. mem.heap \subseteq Heap /\ mem.used \in 0..POOL_CAP
      BY <2>1, MemFields DEF TypeOK
    <3>2. 0 \in Int /\ mem.used - 1 \in Int
      BY <3>1, PoolsAssumption
    <3> QED
      BY <3>1, <3>2, HeapFinite, FS_Interval
  <2>4. \A H, G : Covers(H, G) /\ IsFiniteSet(G) => HeldOnce(H, G)
    BY OnceEach DEF Covers, HeldOnce
  <2> QED
    BY <2>2, <2>3, <2>4 DEF HeldByOne
<1> QED
  BY <1>1, Invariant, PTL

\* The pools' counters are the truth, and no free list grows past its cap:
\* CountersHold, of g_server's wbuf_live, bigbuf_live and free counts, which
\* tls_wbuf_put, tls_spill_put and the memory report go by.
THEOREM CountersAreTrue == Spec => []CountersHold
<1>1. IInv => CountersHold
  <2> SUFFICES ASSUME IInv PROVE CountersHold
    OBVIOUS
  <2>1. TypeOK /\ MemInv
    BY DEF IInv
  <2>2. Held(mem, AllBlocks, AllBigs, AllOthers)
    BY <2>1 DEF MemInv
  <2>3. IsFiniteSet(AllBlocks) /\ IsFiniteSet(AllBigs)
    BY <2>2, HeldSets
  <2>4. Covers(ChainHolders, AllBlocks) /\ Covers(BigHolders, AllBigs)
    BY <2>1, CoversChains, CoversBigs
  <2>5. \A H, G : Covers(H, G) /\ IsFiniteSet(G) => Cardinality(H) = Cardinality(G)
    BY OnceEach DEF Covers
  <2>6. /\ Cardinality(ChainHolders) = Cardinality(AllBlocks)
        /\ Cardinality(BigHolders) = Cardinality(AllBigs)
    BY <2>3, <2>4, <2>5
  <2>7. mem.wlive = Cardinality(ChainHolders) /\ mem.blive = Cardinality(BigHolders)
    BY <2>2, <2>6 DEF Held
  <2> QED
    BY <2>1, <2>2, <2>7, HolderParts DEF CountersHold, Held, Sane
<1> QED
  BY <1>1, Invariant, PTL

\* What uv_write sends is the header and the body once and in order, in no more
\* blocks than uvbufs[] has room for, and each record fits the buffer picotls
\* was given for it: SendsTheResponse, of tls_write_response_impl with
\* tls_record_count, tls_encrypted_size and tls_slice.
THEOREM ResponseIsSent == Spec => []SendsTheResponse
<1>1. IInv => SendsTheResponse
  <2> SUFFICES ASSUME IInv, NEW k \in Conn
               PROVE  /\ (job.who = k /\ job.off < Total(conn[k].shape)) => SizedRight(conn[k])
                      /\ conn[k].at = "writing" =>
                           Len(conn[k].chain) <= TLS_WSEG_MAX
                           /\ InOrder(conn[k], Total(conn[k].shape))
    BY DEF SendsTheResponse
  <2>1. (job.who = k /\ job.off < Total(conn[k].shape)) => SizedRight(conn[k])
    BY SizingHolds
  <2>2. JobInv
    BY DEF IInv
  <2> QED
    BY <2>1, <2>2 DEF JobInv
<1> QED
  BY <1>1, Invariant, PTL

\* The retained oversized buffer only ever gives way to a larger one, and is
\* never larger than the cap: SlotRatchets, of tls_bigbuf_get and
\* tls_bigbuf_put.
THEOREM SlotOnlyGrows == Spec => []SlotRatchets
<1>1. IInv => SlotRatchets
  <2> SUFFICES ASSUME IInv PROVE SlotRatchets
    OBVIOUS
  <2>1. MemInv /\ KeepInv
    BY DEF IInv
  <2>2. Sane(mem)
    BY <2>1 DEF MemInv, Held
  <2>3. (\A k \in Conn : conn[k].wbig = NULL) => mem.bigcap >= keep
    BY <2>1 DEF KeepInv, Lends
  <2> QED
    BY <2>2, <2>3 DEF Sane, SlotRatchets
<1> QED
  BY <1>1, Invariant, PTL

=============================================================================
