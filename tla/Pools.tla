------------------------------- MODULE Pools --------------------------------
(***************************************************************************)
(* Who holds which memory.  A worker's connections take their client_t     *)
(* from a slab, their encryption blocks, the oversized buffer and the      *)
(* spills from free lists, and hand them back from several callbacks; what *)
(* a pool cannot give or keep goes to malloc and free.  picotls may put an *)
(* allocation of its own in the place of a buffer it was given.            *)
(*                                                                         *)
(* tls_write_response_impl is modelled with its packing of records into    *)
(* blocks, one action per record: nothing else runs while job is set.      *)
(* libuv, picotls and malloc are external.  A chain of blocks, or a free   *)
(* list, is the sequence that following its links yields.                  *)
(***************************************************************************)
EXTENDS Integers, Sequences, FiniteSets, SequencesExt

CONSTANTS
  Conn, Nobody,              \* connections; Nobody is none of them
  POOL_CAP,                  \* client_t's in the slab
  HeapSize,                  \* bound: allocations that malloc can serve
  TLS_WBUF_POOL_MAX, TLS_SPILL_POOL_MAX,
  TLS_WSEG_MAX,              \* blocks to a response
  TLS_MAX_RECORD_PLAINTEXT, TLS_WBUF_SIZE, TLS_BIGBUF_KEEP_MAX,
  Overhead,                  \* ptls_get_record_overhead
  Shapes,                    \* header and body lengths of the responses
  Faults                     \* what malloc and picotls may do, see below

\* nomem: any malloc may fail; swaps: picotls needs more room than the sizing
\* foresaw, as for a KeyUpdate; refuses: it declines to encrypt.
ASSUME PoolsAssumption ==
  /\ Nobody \notin Conn /\ POOL_CAP \in Nat /\ HeapSize \in Nat
  /\ TLS_WBUF_POOL_MAX \in Nat /\ TLS_SPILL_POOL_MAX \in Nat
  /\ TLS_WSEG_MAX \in Nat \ {0} /\ TLS_MAX_RECORD_PLAINTEXT \in Nat \ {0}
  /\ Overhead \in Nat \ {0} /\ TLS_BIGBUF_KEEP_MAX \in Nat
  /\ TLS_WBUF_SIZE \in Nat /\ TLS_WBUF_SIZE >= TLS_MAX_RECORD_PLAINTEXT + Overhead
  /\ Shapes \subseteq (Nat \ {0}) \X Nat
  /\ Faults \subseteq {"nomem", "swaps", "refuses"}

\* The slab's addresses, and malloc's, which begin where the slab ends.
Slab == 0..(POOL_CAP - 1)
Heap == POOL_CAP..(POOL_CAP + HeapSize - 1)
NULL == -1

VARIABLES
  mem,    \* g_server's pools and counters, and what malloc has given out
  conn,   \* per connection, its state and what it holds
  job,    \* the response that is being encrypted
  keep    \* history: the largest buffer handed back that may be retained

vars == <<mem, conn, job, keep>>

(***************************************************************************)
(* mem.used and mem.free are the slab's bump pointer and free list.  A     *)
(* segment of the chain (tls_wseg_t) has its block, and buf: where picotls *)
(* writes (base), how much fits (cap) and is written (off).  data is       *)
(* history: the runs of plaintext in it, <<vector, from, length>>.         *)
(***************************************************************************)
Memory ==
  [heap : SUBSET Heap, used : 0..POOL_CAP, free : Seq(Slab),
   wpool : Seq(Heap), wn : Int, wlive : Int, spool : Seq(Heap), sn : Int,
   big : Heap \cup {NULL}, bigcap : Nat, blive : Int]
Segment == [block : Heap, base : Heap, cap : Nat, off : Nat, data : Seq(Nat \X Nat \X Nat)]
Connection ==
  [at : {"none", "open", "encrypting", "writing", "final", "closing"},
   client : Slab \cup Heap \cup {NULL}, chain : Seq(Segment),
   wbig : Heap \cup {NULL}, spill : Heap \cup {NULL}, shape : Shapes \cup {<<0, 0>>}]
Job == [who : Conn \cup {Nobody}, off : Nat, veci : 1..3, vecoff : Nat, whole : BOOLEAN]

TypeOK ==
  /\ mem \in Memory /\ conn \in [Conn -> Connection] /\ job \in Job
  /\ keep \in Nat

NoConn == [at |-> "none", client |-> NULL, chain |-> <<>>, wbig |-> NULL, spill |-> NULL,
           shape |-> <<0, 0>>]
Idle == [who |-> Nobody, off |-> 0, veci |-> 1, vecoff |-> 0, whole |-> FALSE]

\* pool_init, and empty free lists.
Init ==
  /\ mem = [heap |-> {}, used |-> 0, free |-> <<>>, wpool |-> <<>>, wn |-> 0, wlive |-> 0,
            spool |-> <<>>, sn |-> 0, big |-> NULL, bigcap |-> 0, blive |-> 0]
  /\ conn = [k \in Conn |-> NoConn]
  /\ job = Idle /\ keep = 0

-----------------------------------------------------------------------------
(* malloc and the pools: what a getter may return, with the memory after it *)

\* The lowest address is as good as any: only the slab's place matters.
Malloc(m) ==
  LET left == Heap \ m.heap
      low  == CHOOSE a \in left : \A b \in left : a <= b
  IN (IF left = {} \/ "nomem" \in Faults THEN {[ptr |-> NULL, mem |-> m]} ELSE {})
     \cup (IF left = {} THEN {} ELSE {[ptr |-> low, mem |-> [m EXCEPT !.heap = @ \cup {low}]]})

Free(m, a) == [m EXCEPT !.heap = @ \ {a}]

client_alloc(m) ==
  IF m.free # <<>>
    THEN {[ptr |-> Head(m.free), mem |-> [m EXCEPT !.free = Tail(@)]]}
    ELSE IF m.used < POOL_CAP
    THEN {[ptr |-> m.used, mem |-> [m EXCEPT !.used = @ + 1]]}
    ELSE Malloc(m)

client_free(m, a) ==
  IF a >= 0 /\ a < POOL_CAP THEN [m EXCEPT !.free = <<a>> \o @] ELSE Free(m, a)

tls_wbuf_get(m) ==
  IF m.wpool # <<>>
    THEN {[ptr |-> Head(m.wpool),
           mem |-> [m EXCEPT !.wpool = Tail(@), !.wn = @ - 1, !.wlive = @ + 1]]}
    ELSE {[ptr |-> g.ptr,
           mem |-> IF g.ptr = NULL THEN m ELSE [g.mem EXCEPT !.wlive = @ + 1]] : g \in Malloc(m)}

\* Mutant: a block that the full pool does not take is not counted as gone.
tls_wbuf_put_Miscounted(m, a) ==
  IF m.wn >= TLS_WBUF_POOL_MAX THEN Free(m, a)
    ELSE [m EXCEPT !.wpool = <<a>> \o @, !.wn = @ + 1, !.wlive = @ - 1]

tls_wbuf_put(m, a) ==
  IF m.wn >= TLS_WBUF_POOL_MAX THEN [Free(m, a) EXCEPT !.wlive = @ - 1]
    ELSE [m EXCEPT !.wpool = <<a>> \o @, !.wn = @ + 1, !.wlive = @ - 1]

\* The capacity is the retained buffer's, or what was asked for.
tls_bigbuf_get(m, need) ==
  IF m.big # NULL /\ m.bigcap >= need
    THEN {[ptr |-> m.big, cap |-> m.bigcap,
           mem |-> [m EXCEPT !.big = NULL, !.bigcap = 0, !.blive = @ + 1]]}
    ELSE {[ptr |-> g.ptr, cap |-> need,
           mem |-> IF g.ptr = NULL THEN m ELSE [g.mem EXCEPT !.blive = @ + 1]] : g \in Malloc(m)}

\* Mutant: whatever comes back last is retained.
tls_bigbuf_put_Last(m, a, cap) ==
  LET n == [m EXCEPT !.blive = @ - 1] IN
  IF cap > TLS_BIGBUF_KEEP_MAX THEN Free(n, a)
    ELSE [(IF n.big # NULL THEN Free(n, n.big) ELSE n) EXCEPT !.big = a, !.bigcap = cap]

tls_bigbuf_put(m, a, cap) ==
  LET n == [m EXCEPT !.blive = @ - 1] IN
  IF cap > TLS_BIGBUF_KEEP_MAX \/ (n.big # NULL /\ cap <= n.bigcap)
    THEN Free(n, a)
    ELSE [(IF n.big # NULL THEN Free(n, n.big) ELSE n) EXCEPT !.big = a, !.bigcap = cap]

tls_spill_get(m) ==
  IF m.spool # <<>>
    THEN {[ptr |-> Head(m.spool), mem |-> [m EXCEPT !.spool = Tail(@), !.sn = @ - 1]]}
    ELSE Malloc(m)

tls_spill_put(m, a) ==
  IF m.sn >= TLS_SPILL_POOL_MAX THEN Free(m, a)
    ELSE [m EXCEPT !.spool = <<a>> \o @, !.sn = @ + 1]

-----------------------------------------------------------------------------
(* Releasing what a connection holds *)

\* One segment of the walk: base tells whose the buffer is.
ReleaseSegment(m, s, big) ==
  LET n == IF s.base = s.block THEN m
             ELSE IF big # NULL /\ s.base = big THEN tls_bigbuf_put(m, big, s.cap)
             ELSE Free(m, s.base)              \* ptls_buffer_dispose
  IN tls_wbuf_put(n, s.block)

\* The memory after the first i segments of c's chain.
Walk(m, c) ==
  LET walk[i \in 0..Len(c.chain)] ==
        IF i = 0 THEN m ELSE ReleaseSegment(walk[i - 1], c.chain[i], c.wbig)
  IN walk

tls_release_wbuf(m, c) ==
  LET n == Walk(m, c)[Len(c.chain)]
      returned == \E i \in DOMAIN c.chain : c.chain[i].base = c.wbig
  IN IF c.wbig # NULL /\ ~returned THEN [Free(n, c.wbig) EXCEPT !.blive = @ - 1] ELSE n

tls_release_spill(m, c) == IF c.spill = NULL THEN m ELSE tls_spill_put(m, c.spill)

Released(c) == [c EXCEPT !.chain = <<>>, !.wbig = NULL, !.shape = <<0, 0>>]

Becomes(k, c, m) ==
  /\ conn' = [conn EXCEPT ![k] = c]
  /\ mem' = m

\* What the retained slot is known to have been given: with a buffer that
\* picotls displaced, its capacity is lost.
KeepAfter(c, m) ==
  LET own == {i \in DOMAIN c.chain : c.wbig # NULL /\ c.chain[i].base = c.wbig}
      cap == IF own = {} THEN 0 ELSE c.chain[CHOOSE i \in own : TRUE].cap
  IN IF c.wbig # NULL /\ own = {} THEN m.bigcap
     ELSE IF cap > keep /\ cap <= TLS_BIGBUF_KEEP_MAX THEN cap ELSE keep

-----------------------------------------------------------------------------
(* Encrypting a response *)

\* Mutant: rounds down.
tls_record_count_Floor(len) == len \div TLS_MAX_RECORD_PLAINTEXT

tls_record_count(len) ==
  (len + TLS_MAX_RECORD_PLAINTEXT - 1) \div TLS_MAX_RECORD_PLAINTEXT

tls_encrypted_size(len) == len + (len \div TLS_MAX_RECORD_PLAINTEXT + 1) * Overhead

tls_wseg_open(a) == [block |-> a, base |-> a, cap |-> TLS_WBUF_SIZE, off |-> 0, data |-> <<>>]

\* One turn of tls_slice: as much of `want` as the vector under the cursor has.
Cut(shape, i, o, want) ==
  LET avail == shape[i] - o
      take  == IF avail < want THEN avail ELSE want
      ends  == o + take = shape[i]
  IN [part |-> <<i, o, take>>, left |-> want - take,
      veci |-> IF ends THEN i + 1 ELSE i, vecoff |-> IF ends THEN 0 ELSE o + take]

tls_slice(shape, i, o, want) ==
  LET a == Cut(shape, i, o, want)
      b == Cut(shape, a.veci, a.vecoff, a.left)
  IN IF a.left = 0 THEN [parts |-> <<a.part>>, veci |-> a.veci, vecoff |-> a.vecoff]
                   ELSE [parts |-> <<a.part, b.part>>, veci |-> b.veci, vecoff |-> b.vecoff]

\* picotls cuts what it is given into full records and a last one.
SizeAfter(s, chunk) ==
  s.off + chunk + Overhead * ((chunk + TLS_MAX_RECORD_PLAINTEXT - 1) \div TLS_MAX_RECORD_PLAINTEXT)

\* ptls_send_v: in place, or into an allocation of picotls's own, for which it
\* gives up an earlier one of its own; or it fails.
ptls_send_v(m, s, big, parts, chunk) ==
  LET size == SizeAfter(s, chunk)
      into == [s EXCEPT !.off = size, !.data = @ \o parts]
      owns == s.base # s.block /\ s.base # big
  IN (IF size <= s.cap THEN {[ok |-> TRUE, seg |-> into, mem |-> m]} ELSE {})
     \cup (IF "refuses" \in Faults THEN {[ok |-> FALSE, seg |-> s, mem |-> m]} ELSE {})
     \cup (IF size <= s.cap /\ "swaps" \notin Faults THEN {}
           ELSE {IF g.ptr = NULL THEN [ok |-> FALSE, seg |-> s, mem |-> m]
                 ELSE [ok |-> TRUE,
                       seg |-> [into EXCEPT !.base = g.ptr, !.cap = size + Overhead,
                                            !.off = size + Overhead],
                       mem |-> IF owns THEN Free(g.mem, s.base) ELSE g.mem]
                 : g \in Malloc(m)})

Total(shape) == shape[1] + shape[2]

\* The blocks stay with the connection until on_close; the history ends.
Abandon(k, c, m) ==
  /\ Becomes(k, [c EXCEPT !.at = "closing", !.shape = <<0, 0>>,
                          !.chain = [i \in DOMAIN @ |-> [@[i] EXCEPT !.data = <<>>]]], m)
  /\ job' = Idle

\* tls_write_response_impl up to its loop.
WriteResponse(k) ==
  /\ job.who = Nobody /\ conn[k].at = "open"
  /\ \E shape \in Shapes, g \in tls_wbuf_get(mem) :
       LET whole == tls_record_count(Total(shape)) > TLS_WSEG_MAX
           seg   == tls_wseg_open(g.ptr)
           c     == [conn[k] EXCEPT !.at = "encrypting", !.shape = shape, !.chain = <<seg>>]
           begun == [who |-> k, off |-> 0, veci |-> 1, vecoff |-> 0, whole |-> whole]
       IN \/ g.ptr = NULL /\ Abandon(k, conn[k], g.mem)
          \/ /\ g.ptr # NULL /\ ~whole
             /\ Becomes(k, c, g.mem)
             /\ job' = begun
          \/ /\ g.ptr # NULL /\ whole
             /\ \E b \in tls_bigbuf_get(g.mem, tls_encrypted_size(Total(shape))) :
                  IF b.ptr = NULL
                    THEN Abandon(k, c, b.mem)
                    ELSE /\ Becomes(k, [c EXCEPT !.wbig = b.ptr, !.chain[1].base = b.ptr,
                                                 !.chain[1].cap = b.cap], b.mem)
                         /\ job' = begun
  /\ UNCHANGED keep

\* How much the next record takes, and whether it opens a further block.
Chunk ==
  LET rest == Total(conn[job.who].shape) - job.off
  IN IF job.whole \/ rest <= TLS_MAX_RECORD_PLAINTEXT THEN rest ELSE TLS_MAX_RECORD_PLAINTEXT
OpensBlock == ~job.whole /\ Last(conn[job.who].chain).off + Chunk + Overhead > TLS_WBUF_SIZE

\* One turn of the loop: perhaps a further block, then one record.
EncryptRecord ==
  /\ job.who # Nobody
  /\ LET k     == job.who
         c     == conn[k]
         chunk == Chunk
         more  == OpensBlock
         cut   == tls_slice(c.shape, job.veci, job.vecoff, chunk)
     IN /\ job.off < Total(c.shape)
        /\ \/ more /\ Len(c.chain) = TLS_WSEG_MAX /\ Abandon(k, c, mem)
           \/ /\ more => Len(c.chain) < TLS_WSEG_MAX
              /\ \E g \in IF more THEN tls_wbuf_get(mem) ELSE {[ptr |-> 0, mem |-> mem]} :
                   IF g.ptr = NULL THEN Abandon(k, c, g.mem)
                   ELSE LET d == IF more THEN [c EXCEPT !.chain = Append(@, tls_wseg_open(g.ptr))]
                                         ELSE c
                        IN \E r \in ptls_send_v(g.mem, Last(d.chain), d.wbig, cut.parts, chunk) :
                             IF ~r.ok THEN Abandon(k, d, r.mem)
                             ELSE /\ Becomes(k, [d EXCEPT !.chain[Len(d.chain)] = r.seg], r.mem)
                                  /\ job' = [job EXCEPT !.off = @ + chunk, !.veci = cut.veci,
                                                        !.vecoff = cut.vecoff]
  /\ UNCHANGED keep

\* The chain goes to uv_write.
EndEncrypting ==
  /\ job.who # Nobody /\ job.off >= Total(conn[job.who].shape)
  /\ Becomes(job.who, [conn[job.who] EXCEPT !.at = "writing"], mem)
  /\ job' = Idle
  /\ UNCHANGED keep

-----------------------------------------------------------------------------
(* The callbacks *)

\* on_new_connection.
Accept(k) ==
  /\ job.who = Nobody /\ conn[k].at = "none"
  /\ \E g \in client_alloc(mem) :
       g.ptr # NULL /\ Becomes(k, [NoConn EXCEPT !.at = "open", !.client = g.ptr], g.mem)
  /\ UNCHANGED <<job, keep>>

\* tls_send_final with one record before the alert or none; what it leaves in
\* the chain, should it fail, is on_close's.
SendFinal(m, k, c) ==
  \E g \in tls_wbuf_get(m) :
    LET seg == tls_wseg_open(g.ptr)
        d   == [c EXCEPT !.chain = <<seg>>]
    IN IF g.ptr = NULL THEN Becomes(k, [c EXCEPT !.at = "closing"], g.mem)
       ELSE \E r \in ptls_send_v(g.mem, seg, NULL, <<>>, 1) :
              \* "closing": picotls declined, or uv_write did.
              \E how \in IF r.ok THEN {"final", "closing"} ELSE {"closing"} :
                Becomes(k, [d EXCEPT !.at = how, !.chain = <<r.seg>>], r.mem)

\* on_write: the chain back to the pools, and then the next request, the
\* close that the peer is told of, or the close at once.
OnWrite(k) ==
  /\ job.who = Nobody /\ conn[k].at = "writing"
  /\ LET m == tls_release_wbuf(mem, conn[k])
         c == Released(conn[k])
     IN /\ \/ Becomes(k, [c EXCEPT !.at = "open"], m)
           \/ SendFinal(m, k, c)
           \/ Becomes(k, [c EXCEPT !.at = "closing"], m)
        /\ keep' = KeepAfter(conn[k], m)
  /\ UNCHANGED job

\* The 400 of http_dispatch.
BadRequest(k) ==
  /\ job.who = Nobody /\ conn[k].at = "open"
  /\ SendFinal(mem, k, conn[k])
  /\ UNCHANGED <<job, keep>>

OnFinalWrite(k) ==
  /\ job.who = Nobody /\ conn[k].at = "final"
  /\ Becomes(k, [Released(conn[k]) EXCEPT !.at = "closing"], tls_release_wbuf(mem, conn[k]))
  /\ UNCHANGED <<job, keep>>

\* Any uv_close of a connection without a response in flight.
Closes(k) ==
  /\ job.who = Nobody /\ conn[k].at = "open"
  /\ Becomes(k, [conn[k] EXCEPT !.at = "closing"], mem)
  /\ UNCHANGED <<job, keep>>

\* Mutant: the chain is left to on_write alone.
tls_conn_free_NoWbuf(m, c) == tls_release_spill(m, c)

tls_conn_free(m, c) == tls_release_wbuf(tls_release_spill(m, c), c)

OnClose(k) ==
  /\ job.who = Nobody /\ conn[k].at = "closing"
  /\ LET m == client_free(tls_conn_free(mem, conn[k]), conn[k].client)
     IN Becomes(k, NoConn, m) /\ keep' = KeepAfter(conn[k], m)
  /\ UNCHANGED job

\* tls_spill_stash: plaintext beyond read_buf.  Without a block the connection
\* fails, at once or, with a response in flight, when that is written.
Stash(k) ==
  /\ job.who = Nobody /\ conn[k].at \in {"open", "writing"} /\ conn[k].spill = NULL
  /\ \E g \in tls_spill_get(mem) :
       Becomes(k, IF g.ptr = NULL /\ conn[k].at = "open" THEN [conn[k] EXCEPT !.at = "closing"]
                                                         ELSE [conn[k] EXCEPT !.spill = g.ptr],
               g.mem)
  /\ UNCHANGED <<job, keep>>

\* tls_spill_drain, when it empties the spill.
Drain(k) ==
  /\ job.who = Nobody /\ conn[k].at \in {"open", "writing"} /\ conn[k].spill # NULL
  /\ Becomes(k, [conn[k] EXCEPT !.spill = NULL], tls_release_spill(mem, conn[k]))
  /\ UNCHANGED <<job, keep>>

Next ==
  \/ \E k \in Conn :
       \/ Accept(k) \/ WriteResponse(k) \/ OnWrite(k) \/ BadRequest(k) \/ OnFinalWrite(k)
       \/ Closes(k) \/ OnClose(k) \/ Stash(k) \/ Drain(k)
  \/ EncryptRecord \/ EndEncrypting

Spec == Init /\ [][Next]_vars

-----------------------------------------------------------------------------
(***************************************************************************)
(* Every address that malloc has given out has exactly one holder: a free  *)
(* list, the retained slot, or a connection, which holds the blocks of its *)
(* chain, what picotls put in their place, its oversized buffer, its spill *)
(* and its client_t; and nothing is held that malloc has not given out.  A *)
(* slab entry is held by one connection, is on the free list once, or lies *)
(* beyond the bump pointer.                                                *)
(***************************************************************************)
Holders ==
  {<<Nobody, "wpool", i, mem.wpool[i]>> : i \in DOMAIN mem.wpool}
  \cup {<<Nobody, "spool", i, mem.spool[i]>> : i \in DOMAIN mem.spool}
  \cup {<<Nobody, "slot", 0, a>> : a \in {mem.big} \ {NULL}}
  \cup UNION {
      {<<k, "chain", i, conn[k].chain[i].block>> : i \in DOMAIN conn[k].chain}
      \cup {<<k, "ptls", i, conn[k].chain[i].base>> :
              i \in {j \in DOMAIN conn[k].chain :
                       conn[k].chain[j].base \notin {conn[k].chain[j].block, conn[k].wbig}}}
      \cup {<<k, "big", 0, a>> : a \in {conn[k].wbig} \ {NULL}}
      \cup {<<k, "spill", 0, a>> : a \in {conn[k].spill} \ {NULL}}
      \cup {<<k, "client", 0, a>> : a \in {conn[k].client} \cap Heap} : k \in Conn}

SlabHolders ==
  {<<Nobody, "free", i, mem.free[i]>> : i \in DOMAIN mem.free}
  \cup UNION {{<<k, "client", 0, a>> : a \in {conn[k].client} \cap Slab} : k \in Conn}

\* No address has two holders, and those held are exactly `given`.
HeldOnce(holders, given) ==
  /\ {h[4] : h \in holders} = given
  /\ Cardinality(holders) = Cardinality(given)

\* No block, buffer, spill or client_t leaks, is freed twice, or is freed or
\* pooled while a connection still uses it: whatever mix of pool, malloc and
\* picotls it came from, and on whichever path (on_write, abandon, on_close)
\* the connection gave it back.
HeldByOne == HeldOnce(Holders, mem.heap) /\ HeldOnce(SlabHolders, 0..(mem.used - 1))

\* The pools' counters, which the caps and the memory report rely on, are the
\* truth: as many blocks live as the connections have in their chains, as many
\* oversized buffers live as they hold, and as many entries in each free list
\* as its count says, never more than its cap.
CountersHold ==
  /\ TypeOK
  /\ mem.wlive = Cardinality({h \in Holders : h[2] = "chain"})
  /\ mem.blive = Cardinality({h \in Holders : h[2] = "big"})
  /\ mem.wn = Len(mem.wpool) /\ mem.wn <= TLS_WBUF_POOL_MAX
  /\ mem.sn = Len(mem.spool) /\ mem.sn <= TLS_SPILL_POOL_MAX

\* Where a run of plaintext begins and ends in the response.
From(c, r) == IF r[1] = 1 THEN r[2] ELSE c.shape[1] + r[2]
To(c, r) == From(c, r) + r[3]

\* Every run lies in its vector and begins where the one before it ends, in its
\* own block or the block before; the first begins at 0 and the last ends at n.
InOrder(c, n) ==
  /\ \A i \in DOMAIN c.chain :
       LET data == c.chain[i].data IN
       /\ data # <<>>
       /\ \A j \in DOMAIN data :
            /\ data[j][1] \in 1..2 /\ data[j][2] + data[j][3] <= c.shape[data[j][1]]
            /\ From(c, data[j]) = IF j > 1 THEN To(c, data[j - 1])
                                  ELSE IF i > 1 THEN To(c, Last(c.chain[i - 1].data)) ELSE 0
  /\ c.chain # <<>> /\ To(c, Last(Last(c.chain).data)) = n

(***************************************************************************)
(* What a response's uv_write sends is its header and its body, once and   *)
(* in order: the runs of plaintext in the chain, block after block, are    *)
(* the two vectors from end to end.  Before that, the sizing is right: the *)
(* chain fits uvbufs[], for counting records over the whole stream bounds  *)
(* the blocks that packing opens ("unreachable: nrec bounds nseg"), and    *)
(* every record fits what picotls was given for it, so that it allocates   *)
(* only where the sizing could not know better.                            *)
(***************************************************************************)
SizedRight(c) ==
  LET s == Last(c.chain) IN
  /\ OpensBlock => Len(c.chain) < TLS_WSEG_MAX
  /\ (~OpensBlock /\ s.base \in {s.block, c.wbig}) => SizeAfter(s, Chunk) <= s.cap

SendsTheResponse ==
  \A k \in Conn :
    LET c == conn[k] IN
    /\ (job.who = k /\ job.off < Total(c.shape)) => SizedRight(c)
    /\ c.at = "writing" => Len(c.chain) <= TLS_WSEG_MAX /\ InOrder(c, Total(c.shape))

\* The retained slot ratchets: while no response holds an oversized buffer it
\* is as large as the largest that came back and may be kept, so that a run of
\* large responses settles on one buffer, and it is never larger than the cap.
SlotRatchets ==
  /\ (\A k \in Conn : conn[k].wbig = NULL) => mem.bigcap >= keep
  /\ mem.bigcap <= TLS_BIGBUF_KEEP_MAX
  /\ (mem.big = NULL) <=> (mem.bigcap = 0)

=============================================================================
