-------------------------- MODULE ConnectionProofs --------------------------
(***************************************************************************)
(* Proofs about Connection, for every buffer size, stream and environment. *)
(*                                                                         *)
(* Handlers are operators on a client record, so the invariant is stated   *)
(* on a record too and every operator gets a lemma saying what it keeps of *)
(* it; the theorems only put those lemmas together, one action at a time.  *)
(*                                                                         *)
(* The first part is about types, handles, writes and room; the second,    *)
(* which begins at Size, about the bytes a connection holds, its answers,  *)
(* what they are written from, and why it hangs up.                        *)
(***************************************************************************)
EXTENDS Connection, Integers, FiniteSetTheorems, WellFoundedInduction, TLAPS

\* The buffers are within bounds, and only a TLS connection spills.
Fits(k) ==
  /\ k.read_off <= Len(k.read_buf)
  /\ Len(k.read_buf) <= READ_BUF_SIZE
  /\ Len(k.spill) <= TLS_SPILL_SIZE
  /\ k.tls \/ k.spill = <<>>

Typed(k) == k \in Client /\ Fits(k)

\* What the libuv handle, c->write_req and the suspended application allow.
Protocol(k) ==
  /\ k.handle \in {"open", "closing", "closed"}
  /\ k.write \in {"idle", "response", "final"}
  /\ k.write # "idle" => k.handle = "open"
  /\ k.write = "response" => k.in_flight /\ k.waiting = {}
  /\ k.write = "final" => ~k.read_armed /\ k.waiting = {}
  /\ k.waiting # {} => k.in_flight /\ k.handle = "open"
  /\ \A r, s \in k.waiting : r = s

\* An armed read has room for what it delivers.
Roomy(k) ==
  k.handle = "open" /\ k.read_armed =>
    /\ k.spill = <<>>
    /\ k.in_flight \/ k.tls => Len(k.read_buf) < READ_BUF_SIZE

SameBuffers(k, d) ==
  /\ d.read_buf = k.read_buf /\ d.read_off = k.read_off /\ d.spill = k.spill
  /\ d.tls = k.tls

\* All that answering a request leaves alone.
Kept(k, d) ==
  /\ d \in Client /\ SameBuffers(k, d)
  /\ d.in_flight = k.in_flight /\ d.waiting = k.waiting
  /\ d.read_armed = k.read_armed

\* Ready for c->write_req to be used.
Ready(k) == k.handle = "open" /\ k.write = "idle"

\* What one write, with user as its callback, or one close makes of that.
Spent(user, d) ==
  \/ d.handle = "open" /\ d.write \in {"idle", user}
  \/ d.handle = "closing" /\ d.write = "idle"

\* The types of the client_t fields that the later steps compute with.
LEMMA ClientFields ==
  ASSUME NEW k \in Client
  PROVE  /\ k.read_buf \in Seq(Byte) /\ k.spill \in Seq(Byte)
         /\ Len(k.read_buf) \in Nat /\ Len(k.spill) \in Nat
         /\ k.read_off \in Nat /\ k.consumed \in Nat /\ k.served \in Nat
         /\ k.flights \in Nat
<1>1. /\ k.read_buf \in Seq(Byte) /\ k.spill \in Seq(Byte)
      /\ k.read_off \in Nat /\ k.consumed \in Nat /\ k.served \in Nat
      /\ k.flights \in Nat
  BY DEF Client
<1> QED
  BY <1>1

\* A client_t whose buffers were not touched is still within bounds.
LEMMA SameTyped ==
  ASSUME NEW k, Typed(k), NEW d \in Client, SameBuffers(k, d)
  PROVE  Typed(d)
BY DEF Typed, Fits, SameBuffers

\* What two operations in a row leave alone, both together leave alone.
LEMMA KeptTransitive ==
  ASSUME NEW k, NEW q, NEW d, Kept(k, q), Kept(q, d)
  PROVE  Kept(k, d)
BY DEF Kept, SameBuffers

\* Answering keeps the buffers within bounds.
LEMMA KeptTyped ==
  ASSUME NEW k, NEW d, Typed(k), Kept(k, d)
  PROVE  Typed(d)
BY SameTyped DEF Kept

-----------------------------------------------------------------------------
(* libuv *)

\* uv_close changes the handle only, and an open one becomes "closing".
LEMMA CloseLemma ==
  ASSUME NEW k \in Client
  PROVE  /\ Kept(k, uv_close(k))
         /\ uv_close(k).write = k.write
         /\ Ready(k) => uv_close(k).handle = "closing" /\ Spent("idle", uv_close(k))
<1>1. uv_close(k) \in Client
  BY DEF uv_close, Client
<1>2. SameBuffers(k, uv_close(k))
  BY DEF uv_close, Client, SameBuffers
<1>3. /\ uv_close(k).write = k.write /\ uv_close(k).in_flight = k.in_flight
      /\ uv_close(k).waiting = k.waiting /\ uv_close(k).read_armed = k.read_armed
      /\ k.handle = "open" => uv_close(k).handle = "closing"
  BY DEF uv_close, Client
<1> QED
  BY <1>1, <1>2, <1>3 DEF Kept, Ready, Spent

\* uv_write on an idle c->write_req takes it or, failing, leaves it idle; it
\* never touches the read side of the connection.
LEMMA WriteLemma ==
  ASSUME NEW k \in Client, NEW user \in {"idle", "response", "final"},
         NEW rs \in Seq(Nat)
  PROVE  /\ Kept(k, uv_write(k, user, rs))
         /\ Ready(k) => uv_write(k, user, rs).handle = "open"
                        /\ Spent(user, uv_write(k, user, rs))
<1> DEFINE pins == IF k.tls THEN {"block"} ELSE k.objs \cap {"body"}
           sent == [k EXCEPT !.write = user, !.wire = k.wire \o rs, !.pins = pins]
           lost == [k EXCEPT !.write = "corrupt"]
<1>1. k.wire \o rs \in Seq(Nat)
  BY DEF Client
<1>2. pins \in SUBSET {"body", "block"}
  OBVIOUS
<1>3. uv_write(k, user, rs) \in {k, sent, lost}
      /\ (Ready(k) => uv_write(k, user, rs) \in {k, sent})
  BY DEF uv_write, Ready
<1> HIDE DEF pins
<1>4. sent \in Client /\ lost \in Client
  BY <1>1, <1>2 DEF Client
<1>5. /\ sent.handle = k.handle /\ sent.write = user
      /\ sent.in_flight = k.in_flight /\ sent.waiting = k.waiting
      /\ sent.read_armed = k.read_armed /\ SameBuffers(k, sent)
  BY DEF SameBuffers, Client
<1>6. /\ lost.in_flight = k.in_flight /\ lost.waiting = k.waiting
      /\ lost.read_armed = k.read_armed /\ SameBuffers(k, lost)
  BY DEF SameBuffers, Client
<1>7. Kept(k, k) /\ Kept(k, sent) /\ Kept(k, lost)
  <2> HIDE DEF sent, lost
  <2> QED BY <1>4, <1>5, <1>6 DEF Kept, SameBuffers
<1>8. Ready(k) => /\ k.handle = "open" /\ Spent(user, k)
                  /\ sent.handle = "open" /\ Spent(user, sent)
  <2> HIDE DEF sent, lost
  <2> QED BY <1>5 DEF Ready, Spent
<1> HIDE DEF sent, lost
<1> QED
  BY <1>3, <1>7, <1>8

-----------------------------------------------------------------------------
(* Answering *)

\* The response is outstanding, refused by libuv, or the connection dropped.
Answered(k, d) == Kept(k, d) /\ (Ready(k) => Spent("response", d))

\* A field that none of the invariants mention.
LEMMA UnmentionedLemma ==
  ASSUME NEW k \in Client, NEW b \in BOOLEAN,
         NEW s \in SUBSET {"status", "body", "task", "conn"}
  PROVE  /\ Kept(k, [k EXCEPT !.wblock = b])
         /\ Ready(k) => Ready([k EXCEPT !.wblock = b])
         /\ Kept(k, [k EXCEPT !.keep_alive = b])
         /\ Ready(k) => Ready([k EXCEPT !.keep_alive = b])
         /\ Kept(k, [k EXCEPT !.objs = s])
         /\ Ready(k) => Ready([k EXCEPT !.objs = s])
<1>1. Kept(k, [k EXCEPT !.wblock = b]) /\ (Ready(k) => Ready([k EXCEPT !.wblock = b]))
  BY DEF Client, Kept, SameBuffers, Ready
<1>2. /\ Kept(k, [k EXCEPT !.keep_alive = b])
      /\ Ready(k) => Ready([k EXCEPT !.keep_alive = b])
  BY DEF Client, Kept, SameBuffers, Ready
<1>3. Kept(k, [k EXCEPT !.objs = s]) /\ (Ready(k) => Ready([k EXCEPT !.objs = s]))
  BY DEF Client, Kept, SameBuffers, Ready
<1> QED
  BY <1>1, <1>2, <1>3

\* The application goes on after it has sent.
LEMMA LingerLemma ==
  ASSUME NEW k \in Client, NEW d, NEW s \in SUBSET {"status", "body", "task", "conn"},
         NEW L \in SUBSET Nat, d = [k EXCEPT !.objs = s, !.lingering = L]
  PROVE  Kept(k, d) /\ d.handle = k.handle /\ d.write = k.write
BY DEF Client, Kept, SameBuffers

\* The application suspends before it has sent.
Suspended(k, s, w) == [k EXCEPT !.objs = s, !.waiting = w]

\* A suspended coroutine adds its task and its name and nothing else.
LEMMA SuspendLemma ==
  ASSUME NEW k \in Client, NEW s \in SUBSET {"status", "body", "task", "conn"},
         NEW w \in SUBSET Nat, NEW d, d = Suspended(k, s, w)
  PROVE  /\ d \in Client /\ SameBuffers(k, d)
         /\ d.in_flight = k.in_flight /\ d.read_armed = k.read_armed
         /\ d.handle = k.handle /\ d.write = k.write
         /\ d.waiting = w
<1>1. d \in Client
  BY DEF Client, Suspended
<1>2. /\ SameBuffers(k, d)
      /\ d.in_flight = k.in_flight /\ d.read_armed = k.read_armed
      /\ d.handle = k.handle /\ d.write = k.write /\ d.waiting = w
  BY DEF Client, SameBuffers, Suspended
<1> QED
  BY <1>1, <1>2

\* write_response, plain or TLS, uses c->write_req at most once.
LEMMA WriteResponseLemma ==
  ASSUME NEW k \in Client, NEW r \in Nat, NEW d \in write_response(k, r)
  PROVE  Answered(k, d)
<1> DEFINE held == [k EXCEPT !.wblock = TRUE]
<1>1. Kept(k, held) /\ (Ready(k) => Ready(held)) /\ held \in Client
  BY UnmentionedLemma DEF Kept
<1>2. <<r>> \in Seq(Nat)
  OBVIOUS
<1>3. \/ d = uv_write(held, "response", <<r>>) \/ d = uv_write(k, "response", <<r>>)
      \/ d = uv_close(k) \/ d = uv_close(held)
  BY DEF write_response, tls_write_response_impl
<1> HIDE DEF held
<1>4. ASSUME NEW q \in Client, Kept(k, q), Ready(k) => Ready(q)
      PROVE  Answered(k, uv_write(q, "response", <<r>>)) /\ Answered(k, uv_close(q))
  <2>1. "response" \in {"idle", "response", "final"}
    OBVIOUS
  <2>2. Kept(q, uv_write(q, "response", <<r>>))
        /\ (Ready(q) => Spent("response", uv_write(q, "response", <<r>>)))
    BY <1>2, <2>1, WriteLemma, Zenon
  <2>3. Kept(q, uv_close(q)) /\ (Ready(q) => Spent("response", uv_close(q)))
    BY CloseLemma DEF Spent
  <2> QED
    BY <1>4, <2>2, <2>3, KeptTransitive DEF Answered
<1>5. Kept(k, k)
  BY DEF Kept, SameBuffers
<1>6. Answered(k, uv_write(k, "response", <<r>>)) /\ Answered(k, uv_close(k))
  BY <1>4, <1>5, Zenon
<1>7. Answered(k, uv_write(held, "response", <<r>>)) /\ Answered(k, uv_close(held))
  BY <1>1, <1>4, Zenon
<1> QED
  BY <1>3, <1>6, <1>7

\* The same, after fields outside the invariant were set.
LEMMA AnswerAfterLemma ==
  ASSUME NEW k \in Client, NEW q, Kept(k, q), Ready(k) => Ready(q),
         NEW r \in Nat, NEW d \in write_response(q, r)
  PROVE  Answered(k, d)
<1>1. q \in Client
  BY DEF Kept
<1>2. Answered(q, d)
  BY <1>1, WriteResponseLemma
<1> QED
  BY <1>2, KeptTransitive DEF Answered

\* So does a 500, which only clears keep_alive first.
LEMMA Send500Lemma ==
  ASSUME NEW k \in Client, NEW r \in Nat, NEW d \in send_500(k, r)
  PROVE  Answered(k, d)
<1> DEFINE q == [k EXCEPT !.keep_alive = FALSE]
<1>1. Kept(k, q) /\ (Ready(k) => Ready(q))
  BY UnmentionedLemma
<1>2. d \in write_response(q, r)
  BY DEF send_500
<1> HIDE DEF q
<1> QED
  BY <1>1, <1>2, AnswerAfterLemma

\* wsgi_call_application answers exactly once, as a response or a 500.
LEMMA WsgiLemma ==
  ASSUME NEW k \in Client, NEW r \in Nat, NEW d \in wsgi_call_application(k, r)
  PROVE  Answered(k, d)
<1> DEFINE q == [k EXCEPT !.objs = k.objs \cup {"status", "body"}]
           p == [k EXCEPT !.objs = k.objs \cup {"status"}]
<1>1. /\ k.objs \cup {"status", "body"} \in SUBSET {"status", "body", "task", "conn"}
      /\ k.objs \cup {"status"} \in SUBSET {"status", "body", "task", "conn"}
  BY DEF Client
<1>2. Kept(k, q) /\ (Ready(k) => Ready(q)) /\ Kept(k, p) /\ (Ready(k) => Ready(p))
  BY <1>1, UnmentionedLemma
<1>3. d \in write_response(q, r) \/ d \in send_500(p, r)
  BY DEF wsgi_call_application
<1> HIDE DEF q, p
<1>4. CASE d \in write_response(q, r)
  BY <1>2, <1>4, AnswerAfterLemma
<1>5. CASE d \in send_500(p, r)
  <2>1. Answered(p, d)
    BY <1>2, <1>5, Send500Lemma DEF Kept
  <2> QED
    BY <1>2, <2>1, KeptTransitive DEF Answered
<1> QED
  BY <1>3, <1>4, <1>5

\* asgi_send_response takes the body and answers.
LEMMA AsgiSendLemma ==
  ASSUME NEW k \in Client, NEW r \in Nat, NEW d \in asgi_send_response(k, r)
  PROVE  Answered(k, d)
<1> DEFINE q == [k EXCEPT !.objs = k.objs \cup {"body"}]
<1>1. k.objs \cup {"body"} \in SUBSET {"status", "body", "task", "conn"}
  BY DEF Client
<1>2. Kept(k, q) /\ (Ready(k) => Ready(q))
  BY <1>1, UnmentionedLemma
<1>3. d \in write_response(q, r)
  BY DEF asgi_send_response
<1> HIDE DEF q
<1> QED
  BY <1>2, <1>3, AnswerAfterLemma

\* What dispatching a request leaves: an answer, or an application that owes it.
Served(k, d, r) ==
  \/ Answered(k, d)
  \/ /\ d \in Client /\ SameBuffers(k, d)
     /\ d.in_flight = k.in_flight /\ d.read_armed = k.read_armed
     /\ d.handle = k.handle /\ d.write = k.write
     /\ d.waiting = k.waiting \cup {r}

\* asgi_dispatch answers at most once; an application that suspended before
\* sending is the only one waiting.
LEMMA AsgiLemma ==
  ASSUME NEW k \in Client, NEW r \in Nat, NEW d \in asgi_dispatch(k, r)
  PROVE  Served(k, d, r)
<1>1. CASE d \in asgi_send_response(k, r)
  BY <1>1, AsgiSendLemma DEF Served
<1>2. CASE d \in send_500(k, r)
  BY <1>2, Send500Lemma DEF Served
<1>3. CASE d \in {[e EXCEPT !.objs = @ \cup {"task"}, !.lingering = @ \cup {r}] :
                    e \in asgi_send_response(k, r)}
  <2>1. PICK e \in asgi_send_response(k, r) :
          d = [e EXCEPT !.objs = e.objs \cup {"task"}, !.lingering = e.lingering \cup {r}]
    BY <1>3
  <2>2. Answered(k, e)
    BY AsgiSendLemma
  <2>3. e \in Client
    BY <2>2 DEF Answered, Kept
  <2>4. /\ e.objs \cup {"task"} \in SUBSET {"status", "body", "task", "conn"}
        /\ e.lingering \cup {r} \in SUBSET Nat
    BY <2>3 DEF Client
  <2>5. Kept(e, d) /\ d.handle = e.handle /\ d.write = e.write
    BY <2>1, <2>3, <2>4, LingerLemma
  <2> QED
    BY <2>2, <2>5, KeptTransitive DEF Answered, Served, Spent
<1>4. CASE d = [k EXCEPT !.objs = @ \cup {"task"}, !.waiting = @ \cup {r}]
  <2>1. /\ k.objs \cup {"task"} \in SUBSET {"status", "body", "task", "conn"}
        /\ k.waiting \cup {r} \in SUBSET Nat
    BY DEF Client
  <2>2. PICK s, w : /\ s = k.objs \cup {"task"} /\ w = k.waiting \cup {r}
                    /\ s \in SUBSET {"status", "body", "task", "conn"} /\ w \in SUBSET Nat
    BY <2>1
  <2>3. d = Suspended(k, s, w)
    BY <1>4, <2>2 DEF Suspended
  <2>4. /\ d \in Client /\ SameBuffers(k, d)
        /\ d.in_flight = k.in_flight /\ d.read_armed = k.read_armed
        /\ d.handle = k.handle /\ d.write = k.write
        /\ d.waiting = w
    BY <2>2, <2>3, SuspendLemma
  <2> QED
    BY <2>2, <2>4 DEF Served
<1> QED
  BY <1>1, <1>2, <1>3, <1>4 DEF asgi_dispatch

-----------------------------------------------------------------------------
(* The last write of a TLS connection, and the malformed request *)

\* tls_send_final, or the close in its place, leaves reading stopped.
LEMMA FinalLemma ==
  ASSUME NEW k \in Client, NEW rs \in Seq(Nat), NEW d \in FinalOrClose(k, rs)
  PROVE  /\ d \in Client /\ SameBuffers(k, d)
         /\ d.in_flight = k.in_flight /\ d.waiting = k.waiting
         /\ ~d.read_armed
         /\ Ready(k) => Spent("final", d)
<1> DEFINE quiet == [k EXCEPT !.read_armed = FALSE]
           held  == [quiet EXCEPT !.wblock = TRUE]
           sent  == uv_write(held, "final", rs)
<1>1. /\ quiet \in Client /\ SameBuffers(k, quiet) /\ ~quiet.read_armed
      /\ quiet.in_flight = k.in_flight /\ quiet.waiting = k.waiting
      /\ Ready(k) => Ready(quiet)
  BY DEF Client, SameBuffers, Ready
<1>2. d \in {[sent EXCEPT !.alert = TRUE], uv_close(quiet), uv_close(held)}
  BY DEF FinalOrClose
<1> HIDE DEF quiet
<1>3. Kept(quiet, held) /\ held \in Client /\ (Ready(quiet) => Ready(held))
  BY <1>1, UnmentionedLemma DEF Kept
<1> HIDE DEF held
<1>4. "final" \in {"idle", "response", "final"}
  OBVIOUS
<1>5. Kept(held, sent) /\ (Ready(held) => Spent("final", sent))
  BY <1>3, <1>4, WriteLemma, Zenon
<1> HIDE DEF sent
<1>6. CASE d = [sent EXCEPT !.alert = TRUE]
  <2>1. sent \in Client
    BY <1>5 DEF Kept
  <2>2. Kept(sent, d) /\ d.handle = sent.handle /\ d.write = sent.write
    BY <1>6, <2>1 DEF Client, Kept, SameBuffers
  <2>3. Kept(quiet, d)
    BY <1>3, <1>5, <2>2, KeptTransitive
  <2> QED
    BY <1>1, <1>3, <1>5, <2>2, <2>3 DEF Kept, SameBuffers, Spent
<1>7. CASE d = uv_close(quiet)
  <2>1. Kept(quiet, d) /\ (Ready(quiet) => Spent("idle", d))
    BY <1>1, <1>7, CloseLemma
  <2> QED
    BY <1>1, <2>1 DEF Kept, SameBuffers, Spent
<1>8. CASE d = uv_close(held)
  <2>1. Kept(held, d) /\ (Ready(held) => Spent("idle", d))
    BY <1>3, <1>8, CloseLemma
  <2>2. Kept(quiet, d)
    BY <1>3, <2>1, KeptTransitive
  <2> QED
    BY <1>1, <1>3, <2>1, <2>2 DEF Kept, SameBuffers, Spent
<1> QED
  BY <1>2, <1>6, <1>7, <1>8

\* A connection on which nothing is under way.
Resting(k) == Ready(k) /\ k.waiting = {} /\ ~k.in_flight

\* The byte the parser starts from exists.
LEMMA FrontByteType ==
  ASSUME NEW k, Typed(k), client_buffered(k) > 0
  PROVE  FrontByte(k) \in Byte
<1>1. k.read_buf \in Seq(Byte) /\ k.read_off \in Nat
  BY ClientFields DEF Typed
<1>2. k.read_off + 1 \in 1..Len(k.read_buf)
  BY <1>1 DEF Typed, Fits, client_buffered
<1> QED
  BY <1>1, <1>2 DEF FrontByte

\* A malformed request ends the connection, behind a last write if it is TLS.
LEMMA BadRequestLemma ==
  ASSUME NEW k, Typed(k), client_buffered(k) > 0, NEW d \in bad_request(k)
  PROVE  /\ Typed(d)
         /\ Resting(k) => Protocol(d) /\ Roomy(d)
<1>1. k \in Client
  BY DEF Typed
<1>2. FrontByte(k).req \in Nat
  BY FrontByteType DEF Byte
<1>3. PICK rs \in Seq(Nat) : rs = <<FrontByte(k).req>>
  <2>1. <<FrontByte(k).req>> \in Seq(Nat)
    BY <1>2
  <2> QED BY <2>1
<1>4. CASE d \in FinalOrClose(k, rs)
  <2>1. /\ d \in Client /\ SameBuffers(k, d) /\ ~d.read_armed
        /\ d.in_flight = k.in_flight /\ d.waiting = k.waiting
        /\ Ready(k) => Spent("final", d)
    BY <1>1, <1>4, FinalLemma
  <2>2. Typed(d)
    BY <2>1, SameTyped
  <2>3. Resting(k) => Protocol(d) /\ Roomy(d)
    BY <2>1 DEF Resting, Spent, Protocol, Roomy
  <2> QED
    BY <2>2, <2>3
<1>5. ASSUME NEW q \in Client, Kept(k, q), Ready(k) => Ready(q), d = uv_close(q)
      PROVE  Typed(d) /\ (Resting(k) => Protocol(d) /\ Roomy(d))
  <2>1. Kept(q, d) /\ d.write = q.write /\ (Ready(q) => d.handle = "closing")
    BY <1>5, CloseLemma
  <2>2. Kept(k, d)
    BY <1>5, <2>1, KeptTransitive
  <2>3. Typed(d)
    BY <2>2, KeptTyped
  <2>4. Resting(k) => Protocol(d) /\ Roomy(d)
    BY <1>5, <2>1, <2>2 DEF Resting, Ready, Kept, Protocol, Roomy
  <2> QED
    BY <2>3, <2>4
<1>6. CASE d = uv_close(k)
  <2>1. Kept(k, k)
    BY <1>1 DEF Kept, SameBuffers
  <2> QED
    BY <1>1, <1>5, <1>6, <2>1
<1>7. CASE d = uv_close(uv_write(k, "idle", rs))
  <2>1. "idle" \in {"idle", "response", "final"}
    OBVIOUS
  <2>2. /\ Kept(k, uv_write(k, "idle", rs))
        /\ Ready(k) => uv_write(k, "idle", rs).handle = "open"
                       /\ Spent("idle", uv_write(k, "idle", rs))
    BY <1>1, <2>1, WriteLemma, Zenon
  <2>3. Ready(k) => Ready(uv_write(k, "idle", rs))
    BY <2>2 DEF Spent, Ready
  <2>4. uv_write(k, "idle", rs) \in Client
    BY <2>2 DEF Kept
  <2> QED
    BY <1>5, <1>7, <2>2, <2>3, <2>4
<1> QED
  BY <1>3, <1>4, <1>6, <1>7 DEF bad_request

-----------------------------------------------------------------------------
(* Dispatching a request *)

\* What http_dispatch leaves when it does not refuse the request.
Dispatched(k, d) ==
  /\ SameBuffers(k, d) /\ d.read_armed = k.read_armed
  /\ Resting(k) => Protocol(d) /\ d.write # "final"

\* http_dispatch keeps the buffers; a refused request leaves the protocol
\* state sound, any other one is left pending, unfinished or in flight.
LEMMA DispatchLemma ==
  ASSUME NEW k, Typed(k), client_buffered(k) > 0, NEW d \in http_dispatch(k)
  PROVE  /\ Typed(d)
         /\ Parse(k) = "bad" /\ Resting(k) => Protocol(d) /\ Roomy(d)
         /\ Parse(k) # "bad" => Dispatched(k, d)
<1> DEFINE need   == FrontByte(k).hdr + FrontByte(k).body
           parsed == [k EXCEPT !.consumed = need, !.keep_alive = FrontByte(k).keep]
           tied   == k.objs \cup {"conn"}
           begun  == [parsed EXCEPT !.in_flight = TRUE, !.objs = tied]
           r      == FrontByte(k).req
<1>1. k \in Client
  BY DEF Typed
<1>2. need \in Nat /\ FrontByte(k).keep \in BOOLEAN /\ r \in Nat
  BY FrontByteType DEF Byte
<1>3. tied \in SUBSET {"status", "body", "task", "conn"}
  BY <1>1 DEF Client
<1>4. client_buffered(k) \in Nat
  <2>1. k.read_off \in Nat /\ Len(k.read_buf) \in Nat
    BY <1>1 DEF Client
  <2> QED BY <2>1 DEF Typed, Fits, client_buffered
<1>5. PICK keep \in BOOLEAN : keep = FrontByte(k).keep
  BY <1>2
<1>6. parsed.objs = k.objs
  BY <1>1 DEF Client
<1>7. \/ Parse(k) = "bad" /\ d \in bad_request(k)
      \/ Parse(k) # "bad" /\ d = [k EXCEPT !.last_len = client_buffered(k)]
      \/ Parse(k) # "bad" /\ d = parsed
      \/ Parse(k) # "bad" /\ d \in asgi_dispatch(begun, r)
      \/ Parse(k) # "bad" /\ d \in wsgi_call_application(begun, r)
  <2>1. begun = [parsed EXCEPT !.in_flight = TRUE, !.objs = @ \cup {"conn"}]
    BY <1>6
  <2> HIDE DEF begun, tied
  <2> QED BY <2>1 DEF http_dispatch
<1> HIDE DEF need, tied, r
<1>8. /\ parsed \in Client /\ SameBuffers(k, parsed) /\ parsed.read_armed = k.read_armed
      /\ parsed.in_flight = k.in_flight /\ parsed.waiting = k.waiting
      /\ parsed.handle = k.handle /\ parsed.write = k.write
  BY <1>1, <1>2, <1>5 DEF Client, SameBuffers
<1>9. /\ begun \in Client /\ SameBuffers(k, begun) /\ begun.read_armed = k.read_armed
      /\ begun.in_flight /\ begun.waiting = k.waiting
      /\ Ready(k) => Ready(begun)
  BY <1>1, <1>2, <1>3, <1>5 DEF Client, SameBuffers, Ready
<1>10. CASE Parse(k) = "bad" /\ d \in bad_request(k)
  BY <1>10, BadRequestLemma
<1>11. CASE Parse(k) # "bad" /\ d = [k EXCEPT !.last_len = client_buffered(k)]
  <2>1. /\ d \in Client /\ SameBuffers(k, d) /\ d.read_armed = k.read_armed
        /\ d.in_flight = k.in_flight /\ d.waiting = k.waiting
        /\ d.handle = k.handle /\ d.write = k.write
    BY <1>1, <1>4, <1>11 DEF Client, SameBuffers
  <2> QED
    BY <1>11, <2>1, SameTyped DEF Dispatched, Resting, Ready, Protocol
<1>12. CASE Parse(k) # "bad" /\ d = parsed
  <2> HIDE DEF parsed
  <2> QED
    BY <1>8, <1>12, SameTyped DEF Dispatched, Resting, Ready, Protocol
<1> HIDE DEF begun, parsed
<1>13. ASSUME Served(begun, d, r), Parse(k) # "bad"
       PROVE  Typed(d) /\ Dispatched(k, d)
  <2>1. d \in Client /\ SameBuffers(begun, d) /\ d.read_armed = begun.read_armed
        /\ d.in_flight
    BY <1>9, <1>13 DEF Served, Answered, Kept, SameBuffers
  <2>2. SameBuffers(k, d) /\ d.read_armed = k.read_armed
    BY <1>9, <2>1 DEF SameBuffers
  <2>3. Typed(d)
    BY <2>1, <2>2, SameTyped
  <2>4. Resting(k) => Protocol(d) /\ d.write # "final"
    <3>1. CASE Answered(begun, d)
      BY <1>9, <2>1, <3>1 DEF Answered, Kept, Spent, Resting, Protocol
    <3>2. CASE /\ d.handle = begun.handle /\ d.write = begun.write
               /\ d.waiting = begun.waiting \cup {r}
      BY <1>9, <2>1, <3>2 DEF Resting, Ready, Protocol
    <3> QED
      BY <1>13, <3>1, <3>2 DEF Served
  <2> QED
    BY <2>2, <2>3, <2>4 DEF Dispatched
<1>14. CASE Parse(k) # "bad" /\ d \in asgi_dispatch(begun, r)
  <2>1. Served(begun, d, r)
    BY <1>2, <1>9, <1>14, AsgiLemma
  <2> QED
    BY <1>13, <1>14, <2>1
<1>15. CASE Parse(k) # "bad" /\ d \in wsgi_call_application(begun, r)
  <2>1. Served(begun, d, r)
    BY <1>2, <1>9, <1>15, WsgiLemma DEF Served
  <2> QED
    BY <1>13, <1>15, <2>1
<1> QED
  BY <1>7, <1>10, <1>11, <1>12, <1>14, <1>15

-----------------------------------------------------------------------------
(* The read buffer and flow control *)

\* All that does not say where the buffered bytes are.
SameControl(k, q) ==
  /\ q.handle = k.handle /\ q.write = k.write /\ q.in_flight = k.in_flight
  /\ q.waiting = k.waiting /\ q.read_armed = k.read_armed /\ q.tls = k.tls

\* Nothing is lost or gained by moving the bytes of q to where k has them.
Moved(k, q) ==
  /\ Typed(q) /\ SameControl(k, q) /\ q.spill = k.spill
  /\ Len(q.read_buf) <= Len(k.read_buf)
  /\ client_buffered(q) = client_buffered(k)

\* The window is the buffered bytes: client_buffered of them.
LEMMA WindowType ==
  ASSUME NEW k, Typed(k)
  PROVE  /\ Window(k) \in Seq(Byte) /\ Len(Window(k)) = client_buffered(k)
         /\ client_buffered(k) \in Nat /\ client_buffered(k) <= Len(k.read_buf)
<1>1. k.read_buf \in Seq(Byte) /\ k.read_off \in Nat /\ k.read_off <= Len(k.read_buf)
  BY ClientFields DEF Typed, Fits
<1>2. Len(k.read_buf) \in Nat
  BY <1>1
<1> QED
  BY <1>1, <1>2 DEF Window, client_buffered

\* client_compact moves the window to the front and nothing else.
LEMMA CompactLemma ==
  ASSUME NEW k, Typed(k)
  PROVE  /\ Moved(k, client_compact(k)) /\ client_compact(k).read_off = 0
         /\ client_compact(k).read_buf = Window(k)
<1>1. k \in Client
  BY DEF Typed
<1>2. PICK w \in Seq(Byte) : w = Window(k) /\ Len(w) = client_buffered(k)
  BY WindowType
<1> DEFINE q == client_compact(k)
<1>3. q = [k EXCEPT !.read_buf = w, !.read_off = 0]
  BY <1>2 DEF client_compact
<1> HIDE DEF q
<1>4. /\ q \in Client /\ SameControl(k, q) /\ q.spill = k.spill
      /\ q.read_buf = w /\ q.read_off = 0
  <2>1. q \in Client
    BY <1>1, <1>3 DEF Client
  <2>2. SameControl(k, q) /\ q.spill = k.spill /\ q.read_buf = w /\ q.read_off = 0
    BY <1>1, <1>3 DEF Client, SameControl
  <2> QED BY <2>1, <2>2
<1>5. Len(w) \in Nat /\ Len(k.read_buf) \in Nat
  BY <1>1, <1>2, ClientFields
<1>6. client_buffered(q) = client_buffered(k) /\ Len(q.read_buf) <= Len(k.read_buf)
  BY <1>2, <1>4, <1>5, WindowType DEF client_buffered
<1>7. Fits(q)
  BY <1>2, <1>4, <1>5, <1>6, SizesAssumption DEF Typed, Fits, SameControl
<1> QED
  BY <1>2, <1>4, <1>6, <1>7 DEF Moved, Typed, q

\* The guarded compaction of alloc_cb and the TLS reads does so too.
LEMMA CompactUnlessLemma ==
  ASSUME NEW k, Typed(k)
  PROVE  /\ Moved(k, CompactUnlessInFlight(k))
         /\ ~k.in_flight => CompactUnlessInFlight(k).read_off = 0
<1>1. Moved(k, k)
  <2>1. Len(k.read_buf) \in Nat
    BY ClientFields DEF Typed
  <2> QED BY <2>1 DEF Moved, SameControl
<1> QED
  BY <1>1, CompactLemma DEF CompactUnlessInFlight

\* A connection whose control state did not change is as sound as before.
LEMMA SameControlProtocol ==
  ASSUME NEW k, NEW q, SameControl(k, q), Protocol(k)
  PROVE  Protocol(q)
BY DEF SameControl, Protocol

\* Reading is switched on or off.
LEMMA ArmLemma ==
  ASSUME NEW k, Typed(k), NEW b \in BOOLEAN, NEW d, d = [k EXCEPT !.read_armed = b]
  PROVE  /\ Typed(d) /\ SameBuffers(k, d) /\ d.read_armed = b
         /\ d.handle = k.handle /\ d.write = k.write
         /\ d.in_flight = k.in_flight /\ d.waiting = k.waiting
         /\ Protocol(k) /\ k.write # "final" => Protocol(d)
<1>1. k \in Client
  BY DEF Typed
<1>2. /\ d \in Client /\ SameBuffers(k, d) /\ d.read_armed = b
      /\ d.handle = k.handle /\ d.write = k.write
      /\ d.in_flight = k.in_flight /\ d.waiting = k.waiting
  BY <1>1 DEF Client, SameBuffers
<1> QED
  BY <1>2, SameTyped DEF Protocol

\* Closing a connection on which nothing is outstanding.
LEMMA CloseReadyLemma ==
  ASSUME NEW k, Typed(k)
  PROVE  /\ Typed(uv_close(k))
         /\ Ready(k) /\ k.waiting = {} => Protocol(uv_close(k)) /\ Roomy(uv_close(k))
<1>1. k \in Client
  BY DEF Typed
<1>2. /\ Kept(k, uv_close(k)) /\ uv_close(k).write = k.write
      /\ Ready(k) => uv_close(k).handle = "closing"
  BY <1>1, CloseLemma
<1>3. Typed(uv_close(k))
  BY <1>2, KeptTyped
<1> QED
  BY <1>2, <1>3 DEF Ready, Kept, Protocol, Roomy

\* Closing a connection with nothing in flight is always in order.
LEMMA CloseIdleLemma ==
  ASSUME NEW k, Typed(k)
  PROVE  /\ Typed(uv_close(k))
         /\ Resting(k) => Protocol(uv_close(k)) /\ Roomy(uv_close(k))
BY CloseReadyLemma DEF Resting

\* Without a request in flight, c->write_req is idle and nobody waits.
LEMMA IdleIsResting ==
  ASSUME NEW k, Protocol(k), k.handle = "open", k.write # "final", ~k.in_flight
  PROVE  Resting(k)
BY DEF Protocol, Resting, Ready

\* tls_read_flow re-establishes that an armed read has room.
LEMMA TlsFlowLemma ==
  ASSUME NEW k, Typed(k)
  PROVE  /\ Typed(tls_read_flow(k))
         /\ Protocol(k) /\ k.write # "final" =>
              Protocol(tls_read_flow(k)) /\ Roomy(tls_read_flow(k))
<1> DEFINE q    == CompactUnlessInFlight(k)
           room == Len(q.read_buf) < READ_BUF_SIZE /\ q.spill = <<>>
           shut == [q EXCEPT !.read_armed = FALSE]
           flow == [q EXCEPT !.read_armed = room]
<1>1. Moved(k, q)
  BY CompactUnlessLemma
<1>2. \/ tls_read_flow(k) = k /\ k.handle # "open"
      \/ tls_read_flow(k) = uv_close(shut) /\ k.handle = "open" /\ ~q.in_flight
      \/ tls_read_flow(k) = flow
  BY DEF tls_read_flow
<1> HIDE DEF q
<1>3. Typed(q) /\ SameControl(k, q)
  BY <1>1 DEF Moved
<1>4. PICK b \in BOOLEAN : b = room
  OBVIOUS
<1>5. flow = [q EXCEPT !.read_armed = b]
  BY <1>4
<1>6. CASE tls_read_flow(k) = k /\ k.handle # "open"
  BY <1>6 DEF Roomy
<1>7. CASE tls_read_flow(k) = uv_close(shut) /\ k.handle = "open" /\ ~q.in_flight
  <2>1. /\ Typed(shut) /\ SameBuffers(q, shut)
        /\ shut.handle = q.handle /\ shut.write = q.write
        /\ shut.in_flight = q.in_flight /\ shut.waiting = q.waiting
    BY <1>3, ArmLemma
  <2> HIDE DEF shut
  <2>2. Typed(uv_close(shut))
        /\ (Resting(shut) => Protocol(uv_close(shut)) /\ Roomy(uv_close(shut)))
    BY <2>1, CloseIdleLemma
  <2>3. Protocol(k) /\ k.write # "final" => Resting(shut)
    BY <1>3, <1>7, <2>1 DEF SameControl, Protocol, Resting, Ready
  <2> QED
    BY <1>7, <2>2, <2>3
<1>8. CASE tls_read_flow(k) = flow
  <2>1. /\ Typed(flow) /\ SameBuffers(q, flow) /\ flow.read_armed = b
        /\ Protocol(q) /\ q.write # "final" => Protocol(flow)
    BY <1>3, <1>5, ArmLemma
  <2> HIDE DEF flow
  <2>2. Roomy(flow)
    BY <1>4, <2>1 DEF Roomy, SameBuffers
  <2>3. Protocol(k) /\ k.write # "final" => Protocol(q) /\ q.write # "final"
    BY <1>3, SameControlProtocol DEF SameControl
  <2> QED
    BY <1>8, <2>1, <2>2, <2>3
<1> QED
  BY <1>2, <1>6, <1>7, <1>8

\* So does the tail of on_read, whichever of the two it is.
LEMMA FlowLemma ==
  ASSUME NEW k, Typed(k)
  PROVE  /\ Typed(FlowControl(k))
         /\ Protocol(k) /\ k.write # "final" =>
              Protocol(FlowControl(k)) /\ Roomy(FlowControl(k))
<1>1. CASE k.tls
  BY <1>1, TlsFlowLemma DEF FlowControl
<1>2. CASE ~k.tls
  <2>1. FlowControl(k) = StopIfFull(k)
    BY <1>2 DEF FlowControl
  <2>2. k.spill = <<>>
    BY <1>2 DEF Typed, Fits
  <2>3. Len(k.read_buf) \in Nat
    BY ClientFields DEF Typed
  <2>4. CASE Len(k.read_buf) >= READ_BUF_SIZE /\ k.in_flight
    <3> DEFINE d == [k EXCEPT !.read_armed = FALSE]
    <3>1. Typed(d) /\ ~d.read_armed /\ (Protocol(k) /\ k.write # "final" => Protocol(d))
      BY ArmLemma
    <3>2. StopIfFull(k) = d
      BY <2>4 DEF StopIfFull
    <3> HIDE DEF d
    <3> QED
      BY <2>1, <3>1, <3>2 DEF Roomy
  <2>5. CASE ~(Len(k.read_buf) >= READ_BUF_SIZE /\ k.in_flight)
    <3>1. StopIfFull(k) = k
      BY <2>5 DEF StopIfFull
    <3> QED
      BY <1>2, <2>1, <2>2, <2>3, <2>5, <3>1, SizesAssumption DEF Roomy
  <2> QED
    BY <2>4, <2>5
<1> QED
  BY <1>1, <1>2

\* Dispatch and flow control together, on an open connection with input.
LEMMA DispatchThenFlowLemma ==
  ASSUME NEW k, Typed(k), k.in_flight \/ client_buffered(k) > 0,
         NEW d \in DispatchThenFlow(k)
  PROVE  /\ Typed(d)
         /\ Protocol(k) /\ k.handle = "open" /\ k.write # "final" => Protocol(d) /\ Roomy(d)
<1>1. CASE k.in_flight
  BY <1>1, FlowLemma DEF DispatchThenFlow
<1>2. CASE ~k.in_flight /\ Parse(k) = "bad"
  <2>1. d \in http_dispatch(k)
    BY <1>2 DEF DispatchThenFlow
  <2> QED
    BY <1>2, <2>1, DispatchLemma, IdleIsResting
<1>3. CASE ~k.in_flight /\ Parse(k) # "bad"
  <2>1. PICK e \in http_dispatch(k) : d = FlowControl(e)
    BY <1>3 DEF DispatchThenFlow
  <2>2. Typed(e) /\ (Resting(k) => Protocol(e) /\ e.write # "final")
    BY <1>3, DispatchLemma DEF Dispatched
  <2> QED
    BY <1>3, <2>1, <2>2, FlowLemma, IdleIsResting
<1> QED
  BY <1>1, <1>2, <1>3

\* A read that cannot go on: on_read and tls_read_failed alike.
LEMMA ReadFailedLemma ==
  ASSUME NEW k, Typed(k)
  PROVE  /\ Typed(tls_read_failed(k))
         /\ Protocol(k) /\ k.handle = "open" /\ k.write # "final" =>
              Protocol(tls_read_failed(k)) /\ Roomy(tls_read_failed(k))
<1> DEFINE off == [k EXCEPT !.tls_broken = TRUE, !.keep_alive = FALSE, !.read_armed = FALSE]
           bad == [k EXCEPT !.tls_broken = TRUE]
<1>1. k \in Client
  BY DEF Typed
<1>2. CASE k.in_flight
  <2>1. tls_read_failed(k) = off
    BY <1>2 DEF tls_read_failed
  <2>2. /\ off \in Client /\ SameBuffers(k, off) /\ ~off.read_armed
        /\ off.handle = k.handle /\ off.write = k.write
        /\ off.in_flight = k.in_flight /\ off.waiting = k.waiting
    BY <1>1 DEF Client, SameBuffers
  <2> HIDE DEF off
  <2>3. Typed(off)
    BY <2>2, SameTyped
  <2> QED
    BY <2>1, <2>2, <2>3 DEF Protocol, Roomy
<1>3. CASE ~k.in_flight
  <2>1. tls_read_failed(k) = uv_close(bad)
    BY <1>3 DEF tls_read_failed
  <2>2. Kept(k, bad) /\ bad.handle = k.handle /\ bad.write = k.write
    BY <1>1 DEF Client, Kept, SameBuffers
  <2> HIDE DEF bad
  <2>3. Typed(bad)
    BY <2>2, KeptTyped
  <2>4. Protocol(k) /\ k.handle = "open" /\ k.write # "final" => Resting(bad)
    BY <1>3, <2>2, IdleIsResting DEF Resting, Ready, Kept
  <2> QED
    BY <2>1, <2>3, <2>4, CloseIdleLemma
<1> QED
  BY <1>2, <1>3

\* The error branch of on_read closes, or leaves the close to on_write.
LEMMA ReadErrorLemma ==
  ASSUME NEW k, Typed(k)
  PROVE  /\ Typed(ReadError(k))
         /\ Protocol(k) /\ k.handle = "open" /\ k.write # "final" =>
              Protocol(ReadError(k)) /\ Roomy(ReadError(k))
<1> DEFINE off  == [k EXCEPT !.keep_alive = FALSE, !.read_armed = FALSE]
           left == k.objs \ {"status", "body", "conn"}
           bare == [k EXCEPT !.objs = left]
<1>1. k \in Client
  BY DEF Typed
<1>2. CASE k.in_flight
  <2>1. ReadError(k) = off
    BY <1>2 DEF ReadError
  <2>2. /\ off \in Client /\ SameBuffers(k, off) /\ ~off.read_armed
        /\ off.handle = k.handle /\ off.write = k.write
        /\ off.in_flight = k.in_flight /\ off.waiting = k.waiting
    BY <1>1 DEF Client, SameBuffers
  <2> HIDE DEF off
  <2>3. Typed(off)
    BY <2>2, SameTyped
  <2> QED
    BY <2>1, <2>2, <2>3 DEF Protocol, Roomy
<1>3. CASE ~k.in_flight
  <2>1. ReadError(k) = uv_close(bare)
    BY <1>3 DEF ReadError
  <2>2. left \in SUBSET {"status", "body", "task", "conn"}
    BY <1>1 DEF Client
  <2> HIDE DEF left
  <2>3. Kept(k, bare) /\ (Ready(k) => Ready(bare))
    BY <1>1, <2>2, UnmentionedLemma
  <2> HIDE DEF bare
  <2>4. Typed(bare)
    BY <2>3, KeptTyped
  <2>5. Protocol(k) /\ k.handle = "open" /\ k.write # "final" => Resting(bare)
    BY <1>3, <2>3, IdleIsResting DEF Resting, Kept
  <2> QED
    BY <2>1, <2>4, <2>5, CloseIdleLemma
<1> QED
  BY <1>2, <1>3

-----------------------------------------------------------------------------
(* Bytes that arrive *)

\* The rest of a sequence after its first m elements.
LEMMA TailLemma ==
  ASSUME NEW S, NEW b \in Seq(S), NEW m \in Nat, m <= Len(b)
  PROVE  SubSeq(b, m + 1, Len(b)) \in Seq(S) /\ Len(SubSeq(b, m + 1, Len(b))) = Len(b) - m
OBVIOUS

\* As much as fits is taken.
LEMMA TakeLemma ==
  ASSUME NEW n \in Nat, NEW room \in Nat, NEW take, take = IF n < room THEN n ELSE room
  PROVE  /\ take \in Nat /\ take <= room /\ take <= n
         /\ take = 0 => n = 0 \/ room = 0
OBVIOUS

\* What is taken and what is left are sequences again.
LEMMA SplitLemma ==
  ASSUME NEW S, NEW a \in Seq(S), NEW b \in Seq(S), NEW t \in Nat, t <= Len(b)
  PROVE  /\ SubSeq(b, t + 1, Len(b)) \in Seq(S)
         /\ Len(SubSeq(b, t + 1, Len(b))) = Len(b) - t
         /\ a \o SubSeq(b, 1, t) \in Seq(S)
         /\ Len(a \o SubSeq(b, 1, t)) = Len(a) + t
<1> DEFINE h == SubSeq(b, 1, t)
<1>1. h \in Seq(S) /\ Len(h) = t
  OBVIOUS
<1>2. a \o h \in Seq(S) /\ Len(a \o h) = Len(a) + t
  <2> HIDE DEF h
  <2> QED BY <1>1
<1> QED
  BY <1>2, TailLemma

\* memcpy behind what is buffered: the lengths add up.
LEMMA ConcatLemma ==
  ASSUME NEW S, NEW a \in Seq(S), NEW b \in Seq(S)
  PROVE  a \o b \in Seq(S) /\ Len(a \o b) = Len(a) + Len(b) /\ Len(a \o b) \in Nat
OBVIOUS

\* read_buf grows to s, and that fits.
LEMMA GrowLemma ==
  ASSUME NEW k, Typed(k), NEW s \in Seq(Byte),
         Len(s) <= READ_BUF_SIZE, Len(k.read_buf) <= Len(s),
         NEW d, d = [k EXCEPT !.read_buf = s]
  PROVE  /\ Typed(d) /\ SameControl(k, d) /\ d.spill = k.spill
         /\ d.read_buf = s /\ d.read_off = k.read_off
         /\ client_buffered(d) = client_buffered(k) + (Len(s) - Len(k.read_buf))
<1>1. k \in Client /\ k.read_off \in Nat
  BY DEF Typed, Client
<1>2. d \in Client
  BY <1>1 DEF Client
<1>3. SameControl(k, d) /\ d.spill = k.spill /\ d.read_buf = s /\ d.read_off = k.read_off
  BY <1>1 DEF Client, SameControl
<1>4. Len(s) \in Nat /\ Len(k.read_buf) \in Nat
  BY <1>1 DEF Client
<1>5. Fits(d)
  BY <1>1, <1>3, <1>4, SizesAssumption DEF Typed, Fits, SameControl
<1> QED
  BY <1>1, <1>2, <1>3, <1>4, <1>5 DEF Typed, client_buffered

\* What is put in an empty spill of a TLS connection fits.
LEMMA SpillLemma ==
  ASSUME NEW k, Typed(k), k.tls, NEW bytes \in Seq(Byte), Len(bytes) <= TLS_SPILL_SIZE,
         NEW d, d = [k EXCEPT !.spill = bytes]
  PROVE  /\ Typed(d) /\ SameControl(k, d) /\ d.read_buf = k.read_buf
         /\ client_buffered(d) = client_buffered(k)
<1>1. k \in Client
  BY DEF Typed
<1>2. d \in Client
  BY <1>1 DEF Client
<1>3. /\ SameControl(k, d) /\ d.spill = bytes /\ d.read_buf = k.read_buf
      /\ d.read_off = k.read_off
  BY <1>1 DEF Client, SameControl
<1> QED
  BY <1>2, <1>3 DEF Typed, Fits, SameControl, client_buffered

\* The data half of tls_on_read_data: at most a spill block of plaintext is
\* stored, spilled and dispatched within the bounds.
LEMMA ReceiveLemma ==
  ASSUME NEW k, Typed(k), k.tls, NEW bytes \in Seq(Byte), Len(bytes) <= TLS_SPILL_SIZE,
         NEW d \in tls_receive(k, bytes)
  PROVE  /\ Typed(d)
         /\ Protocol(k) /\ Roomy(k) /\ k.handle = "open" /\ k.read_armed =>
              Protocol(d) /\ Roomy(d)
<1> DEFINE q    == CompactUnlessInFlight(k)
           room == READ_BUF_SIZE - Len(q.read_buf)
           take == IF Len(bytes) < room THEN Len(bytes) ELSE room
           head == SubSeq(bytes, 1, take)
           rest == SubSeq(bytes, take + 1, Len(bytes))
           buf  == q.read_buf \o head
           kept == [q EXCEPT !.read_buf = buf]
           more == kept.spill \o rest
           full == [kept EXCEPT !.spill = more]
<1>1. Moved(k, q) /\ (~k.in_flight => q.read_off = 0)
  BY CompactUnlessLemma
<1>2. /\ q.read_buf \in Seq(Byte) /\ q.spill \in Seq(Byte) /\ room \in Nat
      /\ Typed(q) /\ SameControl(k, q) /\ q.spill = k.spill
  <2>1. Typed(q) /\ SameControl(k, q) /\ q.spill = k.spill
    BY <1>1 DEF Moved
  <2> HIDE DEF q
  <2>2. q.read_buf \in Seq(Byte) /\ q.spill \in Seq(Byte) /\ Len(q.read_buf) \in Nat
    BY <2>1, ClientFields DEF Typed
  <2> QED
    BY <2>1, <2>2, SizesAssumption DEF Typed, Fits
<1>3. d \in IF bytes = <<>> THEN {q}
            ELSE IF rest = <<>> THEN DispatchThenFlow(kept)
            ELSE IF Len(full.spill) > TLS_SPILL_SIZE THEN {tls_read_failed(kept)}
            ELSE DispatchThenFlow(full)
                 \cup (IF Fault("nomem") THEN {tls_read_failed(kept)} ELSE {})
  BY DEF tls_receive, tls_spill_stash
<1> HIDE DEF q
<1>4. Len(bytes) \in Nat /\ Len(q.read_buf) \in Nat
  BY <1>2
<1> HIDE DEF room
<1>6. /\ take \in Nat /\ take <= room
      /\ take = 0 => Len(bytes) = 0 \/ room = 0
      /\ rest \in Seq(Byte) /\ buf \in Seq(Byte) /\ Len(buf) = Len(q.read_buf) + take
  <2>1. take = IF Len(bytes) < room THEN Len(bytes) ELSE room
    OBVIOUS
  <2> HIDE DEF take
  <2>2. /\ take \in Nat /\ take <= room /\ take <= Len(bytes)
        /\ take = 0 => Len(bytes) = 0 \/ room = 0
    BY <1>2, <1>4, <2>1, TakeLemma
  <2>3. rest \in Seq(Byte) /\ buf \in Seq(Byte) /\ Len(buf) = Len(q.read_buf) + take
    BY <1>2, <2>2, SplitLemma, ZenonT(40)
  <2> QED BY <2>2, <2>3
<1> HIDE DEF take, rest, buf
<1>7. /\ Typed(kept) /\ SameControl(q, kept) /\ kept.spill = q.spill
      /\ client_buffered(kept) = client_buffered(q) + take
  <2>1. /\ Len(buf) <= READ_BUF_SIZE /\ Len(q.read_buf) <= Len(buf)
        /\ Len(buf) - Len(q.read_buf) = take
    BY <1>2, <1>4, <1>6, SizesAssumption DEF room
  <2> HIDE DEF kept
  <2>2. /\ Typed(kept) /\ SameControl(q, kept) /\ kept.spill = q.spill
        /\ client_buffered(kept) = client_buffered(q) + (Len(buf) - Len(q.read_buf))
    BY <1>2, <1>6, <2>1, GrowLemma DEF kept
  <2> QED
    BY <2>1, <2>2
<1>8. bytes # <<>> => kept.in_flight \/ client_buffered(kept) > 0
  <2>1. SUFFICES ASSUME bytes # <<>>, ~kept.in_flight
                 PROVE  client_buffered(kept) > 0
    OBVIOUS
  <2> HIDE DEF kept
  <2>2. q.read_off = 0
    BY <1>1, <1>2, <1>7, <2>1 DEF SameControl
  <2>3. Len(bytes) > 0
    BY <2>1
  <2>4. client_buffered(q) = Len(q.read_buf)
    BY <1>4, <2>2 DEF client_buffered
  <2> QED
    BY <1>4, <1>6, <1>7, <2>3, <2>4, SizesAssumption DEF room
<1> HIDE DEF kept
<1>9. kept.spill \in Seq(Byte) /\ kept.tls
  BY <1>2, <1>7 DEF SameControl
<1>10. more \in Seq(Byte) /\ Len(more) \in Nat
  BY <1>6, <1>9, ConcatLemma
<1> HIDE DEF more
<1>12. full.spill = more
  BY <1>7, <1>10 DEF Typed, Client
<1> HIDE DEF full
<1>13. Protocol(k) /\ k.handle = "open" /\ k.read_armed =>
         /\ Protocol(q) /\ q.handle = "open" /\ q.write # "final"
         /\ Protocol(kept) /\ kept.handle = "open" /\ kept.write # "final"
  <2>1. Protocol(k) /\ k.read_armed => k.write # "final"
    BY DEF Protocol
  <2> QED
    BY <1>2, <1>7, <2>1, SameControlProtocol DEF SameControl
<1>14. CASE bytes = <<>>
  <2>1. d = q
    BY <1>3, <1>14
  <2>2. Roomy(k) => Roomy(q)
    <3>1. Len(q.read_buf) <= Len(k.read_buf) /\ Len(k.read_buf) \in Nat
      BY <1>1, ClientFields DEF Moved, Typed
    <3> QED BY <1>2, <1>4, <3>1, SizesAssumption DEF Roomy, SameControl
  <2> QED
    BY <1>2, <1>13, <2>1, <2>2
<1>15. CASE bytes # <<>> /\ d \in DispatchThenFlow(kept)
  BY <1>7, <1>8, <1>13, <1>15, DispatchThenFlowLemma
<1>16. CASE d = tls_read_failed(kept)
  BY <1>7, <1>13, <1>16, ReadFailedLemma
<1>17. CASE bytes # <<>> /\ Len(full.spill) <= TLS_SPILL_SIZE /\ d \in DispatchThenFlow(full)
  <2>1. /\ Typed(full) /\ SameControl(kept, full)
        /\ client_buffered(full) = client_buffered(kept)
    BY <1>7, <1>9, <1>10, <1>12, <1>17, SpillLemma DEF full
  <2>2. Protocol(kept) => Protocol(full)
    BY <2>1, SameControlProtocol
  <2>3. full.in_flight \/ client_buffered(full) > 0
    BY <1>8, <1>17, <2>1 DEF SameControl
  <2> QED
    BY <1>13, <1>17, <2>1, <2>2, <2>3, DispatchThenFlowLemma DEF SameControl
<1>18. ~(Len(full.spill) > TLS_SPILL_SIZE) => Len(full.spill) <= TLS_SPILL_SIZE
  BY <1>10, <1>12, SizesAssumption
<1> QED
  BY <1>3, <1>14, <1>15, <1>16, <1>17, <1>18

-----------------------------------------------------------------------------
(* The end of a response *)

\* What client_reset, in_flight = false and tls_spill_drain leave of k.
Renewed(k, d) ==
  /\ Typed(d) /\ ~d.in_flight
  /\ d.handle = k.handle /\ d.write = k.write /\ d.waiting = k.waiting
  /\ d.read_armed = k.read_armed /\ d.tls = k.tls

\* The assignments of client_reset and of on_write behind it.
ResetTo(k, o, b, n) ==
  [k EXCEPT !.read_off = o, !.read_buf = b, !.last_len = 0, !.consumed = 0,
            !.served = n, !.in_flight = FALSE]

WasReset(k, o, b, d) ==
  /\ d \in Client
  /\ d.read_buf = b /\ d.read_off = o /\ d.spill = k.spill /\ ~d.in_flight
  /\ d.handle = k.handle /\ d.write = k.write /\ d.waiting = k.waiting
  /\ d.read_armed = k.read_armed /\ d.tls = k.tls

\* The fields client_reset sets, and the ones it leaves.
LEMMA ResetFields ==
  ASSUME NEW k \in Client, NEW o \in Nat, NEW b \in Seq(Byte), NEW n \in Nat
  PROVE  WasReset(k, o, b, ResetTo(k, o, b, n))
<1> DEFINE d == ResetTo(k, o, b, n)
<1>1. d \in Client
  BY DEF Client, ResetTo
<1>2. /\ d.read_buf = b /\ d.read_off = o /\ d.spill = k.spill /\ ~d.in_flight
      /\ d.handle = k.handle /\ d.write = k.write /\ d.waiting = k.waiting
      /\ d.read_armed = k.read_armed /\ d.tls = k.tls
  BY DEF Client, ResetTo
<1> HIDE DEF d
<1>3. WasReset(k, o, b, d)
  BY <1>1, <1>2 DEF WasReset
<1> QED
  BY <1>3 DEF d

\* client_reset advances within the buffer, or empties it.
LEMMA ResetLemma ==
  ASSUME NEW k, Typed(k)
  PROVE  LET d == [client_reset(k) EXCEPT !.in_flight = FALSE]
         IN  Renewed(k, d) /\ Len(d.read_buf) <= Len(k.read_buf)
<1> DEFINE d == [client_reset(k) EXCEPT !.in_flight = FALSE]
<1>1. /\ k \in Client /\ k.read_off \in Nat /\ k.consumed \in Nat /\ k.served \in Nat
      /\ Len(k.read_buf) \in Nat
  BY ClientFields DEF Typed
<1>2. PICK n \in Nat : n = k.served + 1
  BY <1>1
<1>3. CASE 0 < k.consumed /\ k.consumed < client_buffered(k)
  <2>1. PICK o \in Nat : o = k.read_off + k.consumed
    BY <1>1
  <2>2. d = ResetTo(k, o, k.read_buf, n)
    BY <1>1, <1>2, <1>3, <2>1 DEF client_reset, Client, ResetTo
  <2> HIDE DEF d
  <2>3. k.read_buf \in Seq(Byte)
    BY <1>1, ClientFields
  <2>4. WasReset(k, o, k.read_buf, d)
    BY <1>1, <1>2, <2>1, <2>2, <2>3, ResetFields
  <2>5. o <= Len(k.read_buf)
    BY <1>1, <1>3, <2>1 DEF client_buffered
  <2>6. Typed(d)
    BY <2>4, <2>5 DEF WasReset, Typed, Fits
  <2>7. Renewed(k, d) /\ Len(d.read_buf) <= Len(k.read_buf)
    BY <1>1, <2>4, <2>6 DEF WasReset, Renewed
  <2> QED
    BY <2>7 DEF d
<1>4. CASE ~(0 < k.consumed /\ k.consumed < client_buffered(k))
  <2> DEFINE b == <<>>
  <2>1. b \in Seq(Byte) /\ Len(b) = 0
    OBVIOUS
  <2>2. d = ResetTo(k, 0, b, n)
    BY <1>1, <1>2, <1>4, <2>1 DEF client_reset, Client, ResetTo
  <2> HIDE DEF b, d
  <2>3. WasReset(k, 0, b, d)
    <3>1. 0 \in Nat
      OBVIOUS
    <3> QED BY <1>1, <1>2, <2>1, <2>2, <3>1, ResetFields, Zenon
  <2>5. Typed(d)
    BY <2>1, <2>3, SizesAssumption DEF WasReset, Typed, Fits
  <2>6. Renewed(k, d) /\ Len(d.read_buf) <= Len(k.read_buf)
    BY <1>1, <2>1, <2>3, <2>5 DEF WasReset, Renewed
  <2> QED
    BY <2>6 DEF d
<1> QED
  BY <1>3, <1>4

\* tls_spill_drain moves no more than read_buf can take.
LEMMA DrainLemma ==
  ASSUME NEW k, Typed(k), ~k.in_flight, k.tls
  PROVE  Renewed(k, tls_spill_drain(k))
<1> DEFINE q    == client_compact(k)
           room == READ_BUF_SIZE - Len(q.read_buf)
           take == IF Len(q.spill) < room THEN Len(q.spill) ELSE room
           rest == SubSeq(q.spill, take + 1, Len(q.spill))
           buf  == q.read_buf \o SubSeq(q.spill, 1, take)
           grown == [q EXCEPT !.read_buf = buf]
           d    == [grown EXCEPT !.spill = rest]
<1>1. Typed(q) /\ SameControl(k, q)
  BY CompactLemma DEF Moved
<1>2. tls_spill_drain(k) = IF k.spill = <<>> THEN k
                           ELSE [q EXCEPT !.read_buf = buf, !.spill = rest]
  BY DEF tls_spill_drain
<1> HIDE DEF q
<1>3. /\ q.read_buf \in Seq(Byte) /\ q.spill \in Seq(Byte)
      /\ Len(q.read_buf) \in Nat /\ Len(q.spill) \in Nat
  BY <1>1, ClientFields DEF Typed
<1>4. room \in Nat
  BY <1>1, <1>3, SizesAssumption DEF Typed, Fits
<1> HIDE DEF room
<1>5. take = IF Len(q.spill) < room THEN Len(q.spill) ELSE room
  OBVIOUS
<1> HIDE DEF take
<1>6. take \in Nat /\ take <= room /\ take <= Len(q.spill)
  BY <1>3, <1>4, <1>5, TakeLemma
<1>7. /\ rest \in Seq(Byte) /\ Len(rest) = Len(q.spill) - take
      /\ buf \in Seq(Byte) /\ Len(buf) = Len(q.read_buf) + take
  <2>1. /\ SubSeq(q.spill, take + 1, Len(q.spill)) \in Seq(Byte)
        /\ Len(SubSeq(q.spill, take + 1, Len(q.spill))) = Len(q.spill) - take
    BY <1>3, <1>6, TailLemma, ZenonT(40)
  <2>2. buf \in Seq(Byte) /\ Len(buf) = Len(q.read_buf) + take
    BY <1>3, <1>6, SplitLemma, ZenonT(40)
  <2> QED BY <2>1, <2>2
<1> HIDE DEF rest, buf
<1>8. Len(buf) <= READ_BUF_SIZE /\ Len(q.read_buf) <= Len(buf) /\ Len(rest) <= TLS_SPILL_SIZE
  BY <1>1, <1>3, <1>6, <1>7, SizesAssumption DEF room, Typed, Fits
<1>9. Typed(grown) /\ SameControl(q, grown)
  <2> HIDE DEF grown
  <2> QED BY <1>1, <1>7, <1>8, GrowLemma DEF grown
<1>10. [q EXCEPT !.read_buf = buf, !.spill = rest] = d
  BY <1>1 DEF Typed, Client
<1> HIDE DEF grown
<1>11. Typed(d) /\ SameControl(grown, d)
  <2>1. grown.tls
    BY <1>1, <1>9 DEF SameControl
  <2> HIDE DEF d
  <2> QED BY <1>7, <1>8, <1>9, <2>1, SpillLemma DEF d
<1> HIDE DEF d
<1> QED
  BY <1>1, <1>2, <1>9, <1>10, <1>11 DEF Renewed, SameControl

\* A response is over: nothing outstanding, and an armed read has room.
Over(k) ==
  /\ Ready(k) /\ k.waiting = {}
  /\ k.read_armed => k.spill = <<>> /\ Len(k.read_buf) < READ_BUF_SIZE

\* The end of on_write: flow control, or reading goes on again.
Rearmed(k) ==
  IF k.tls THEN tls_read_flow(k)
  ELSE [k EXCEPT !.read_armed = k.read_armed \/ ~k.in_flight]

\* Re-arming after a response leaves an armed read with room.
LEMMA RearmLemma ==
  ASSUME NEW k, Typed(k)
  PROVE  /\ Typed(Rearmed(k))
         /\ /\ Protocol(k) /\ k.write # "final"
            /\ ~k.tls /\ k.read_armed => Len(k.read_buf) < READ_BUF_SIZE
            => Protocol(Rearmed(k)) /\ Roomy(Rearmed(k))
<1> DEFINE d == Rearmed(k)
<1>1. CASE k.tls
  BY <1>1, TlsFlowLemma DEF Rearmed
<1>2. CASE ~k.tls
  <2> DEFINE b == k.read_armed \/ ~k.in_flight
  <2>1. b \in BOOLEAN
    BY DEF Typed, Client
  <2>2. d = [k EXCEPT !.read_armed = b]
    BY <1>2 DEF Rearmed
  <2>3. b => k.read_armed \/ ~k.in_flight
    OBVIOUS
  <2> HIDE DEF b, d
  <2>4. /\ Typed(d) /\ SameBuffers(k, d) /\ d.read_armed = b
        /\ d.in_flight = k.in_flight
        /\ Protocol(k) /\ k.write # "final" => Protocol(d)
    BY <2>1, <2>2, ArmLemma
  <2>5. k.spill = <<>>
    BY <1>2 DEF Typed, Fits
  <2>6. (k.read_armed => Len(k.read_buf) < READ_BUF_SIZE) => Roomy(d)
    BY <1>2, <2>3, <2>4, <2>5 DEF Roomy, SameBuffers
  <2> QED
    BY <1>2, <2>4, <2>6 DEF d
<1> QED
  BY <1>1, <1>2

\* The keep-alive half of on_write, the dispatch of a pipelined request in it
\* included, keeps the invariant.
LEMMA NextRequestLemma ==
  ASSUME NEW k, Typed(k), NEW d \in NextRequest(k)
  PROVE  Typed(d) /\ (Over(k) => Protocol(d) /\ Roomy(d))
<1> DEFINE reset   == [client_reset(k) EXCEPT !.in_flight = FALSE]
           drained == IF reset.tls THEN tls_spill_drain(reset) ELSE reset
<1>1. Renewed(k, reset) /\ Len(reset.read_buf) <= Len(k.read_buf)
  BY ResetLemma
<1>2. d \in IF client_buffered(drained) = 0 THEN {Rearmed(drained)}
            ELSE IF Parse(drained) = "bad" THEN http_dispatch(drained)
            ELSE {Rearmed(e) : e \in http_dispatch(drained)}
  BY DEF NextRequest, Rearmed
<1> HIDE DEF reset
<1>3. /\ Renewed(k, drained)
      /\ ~drained.tls => Len(drained.read_buf) <= Len(k.read_buf)
  <2>1. CASE reset.tls
    <3>1. Renewed(reset, drained)
      BY <1>1, <2>1, DrainLemma DEF Renewed
    <3> HIDE DEF drained
    <3> QED BY <1>1, <2>1, <3>1 DEF Renewed
  <2>2. CASE ~reset.tls
    BY <1>1, <2>2
  <2> QED BY <2>1, <2>2
<1> HIDE DEF drained
<1>4. Typed(drained)
  BY <1>3 DEF Renewed
<1>5. Over(k) => Resting(drained)
  BY <1>3 DEF Over, Renewed, Resting, Ready
<1>6. ASSUME Over(k), ~drained.tls, drained.read_armed
      PROVE  Len(drained.read_buf) < READ_BUF_SIZE
  <2>1. Len(k.read_buf) \in Nat /\ Len(drained.read_buf) \in Nat
    BY <1>4, ClientFields DEF Typed
  <2> QED
    BY <1>3, <1>6, <2>1, SizesAssumption DEF Over, Renewed
<1>7. CASE client_buffered(drained) = 0
  <2>1. d = Rearmed(drained)
    BY <1>2, <1>7
  <2>2. Over(k) => Protocol(drained) /\ drained.write # "final"
    BY <1>5 DEF Resting, Ready, Protocol
  <2> QED
    BY <1>4, <1>6, <2>1, <2>2, RearmLemma
<1>8. client_buffered(drained) # 0 => client_buffered(drained) > 0
  BY <1>4, WindowType
<1>9. CASE client_buffered(drained) # 0 /\ Parse(drained) = "bad"
  <2>1. d \in http_dispatch(drained)
    BY <1>2, <1>9
  <2> QED
    BY <1>4, <1>5, <1>8, <1>9, <2>1, DispatchLemma
<1>10. CASE client_buffered(drained) # 0 /\ Parse(drained) # "bad"
  <2>1. PICK e \in http_dispatch(drained) : d = Rearmed(e)
    BY <1>2, <1>10
  <2>2. Typed(e) /\ Dispatched(drained, e)
    BY <1>4, <1>8, <1>10, DispatchLemma
  <2>3. Over(k) => Protocol(e) /\ e.write # "final"
    BY <1>5, <2>2 DEF Dispatched
  <2>4. Over(k) /\ ~e.tls /\ e.read_armed => Len(e.read_buf) < READ_BUF_SIZE
    BY <1>6, <2>2 DEF Dispatched, SameBuffers
  <2> QED
    BY <2>1, <2>2, <2>3, <2>4, RearmLemma
<1> QED
  BY <1>7, <1>9, <1>10

\* on_write keeps the invariant, whatever the status.
LEMMA OnWriteLemma ==
  ASSUME NEW k, Typed(k), k.write = "response", NEW ok \in BOOLEAN, NEW d \in on_write(k, ok)
  PROVE  Typed(d) /\ (Protocol(k) /\ Roomy(k) => Protocol(d) /\ Roomy(d))
<1> DEFINE cache == k.objs \cap {"conn"}
           none  == {}
           done  == [k EXCEPT !.write = "idle", !.pins = none, !.wblock = FALSE,
                              !.objs  = cache]
           ended == [done EXCEPT !.objs = none]
<1>1. k \in Client
  BY DEF Typed
<1>2. cache \in SUBSET {"status", "body", "task", "conn"}
      /\ none \in SUBSET {"status", "body", "task", "conn"}
      /\ none \in SUBSET {"body", "block"}
  BY <1>1 DEF Client
<1>3. \/ d \in NextRequest(done)
      \/ d \in FinalOrClose(ended, <<>>)
      \/ d = uv_close(ended)
  BY DEF on_write
<1> HIDE DEF cache, none
<1>4. /\ done \in Client /\ SameBuffers(k, done) /\ done.handle = k.handle
      /\ done.write = "idle" /\ done.waiting = k.waiting /\ done.read_armed = k.read_armed
  BY <1>1, <1>2 DEF Client, SameBuffers
<1> HIDE DEF done
<1>5. /\ ended \in Client /\ SameBuffers(done, ended) /\ ended.handle = done.handle
      /\ ended.write = "idle" /\ ended.waiting = done.waiting
  BY <1>2, <1>4 DEF Client, SameBuffers
<1> HIDE DEF ended
<1>6. Typed(done) /\ Typed(ended)
  BY <1>4, <1>5, SameTyped
<1>7. Protocol(k) /\ Roomy(k) => Over(done) /\ Ready(ended) /\ ended.waiting = {}
  BY <1>4, <1>5 DEF Protocol, Roomy, Over, Ready, SameBuffers
<1>8. CASE d \in NextRequest(done)
  BY <1>6, <1>7, <1>8, NextRequestLemma
<1>9. CASE d \in FinalOrClose(ended, <<>>)
  <2>1. <<>> \in Seq(Nat)
    OBVIOUS
  <2>2. /\ d \in Client /\ SameBuffers(ended, d) /\ ~d.read_armed
        /\ d.waiting = ended.waiting
        /\ Ready(ended) => Spent("final", d)
    BY <1>5, <1>9, <2>1, FinalLemma
  <2>3. Typed(d)
    BY <1>6, <2>2, SameTyped
  <2>4. Ready(ended) /\ ended.waiting = {} => Protocol(d) /\ Roomy(d)
    BY <2>2 DEF Spent, Protocol, Roomy
  <2> QED
    BY <1>7, <2>3, <2>4
<1>10. CASE d = uv_close(ended)
  BY <1>6, <1>7, <1>10, CloseReadyLemma
<1> QED
  BY <1>3, <1>8, <1>9, <1>10

-----------------------------------------------------------------------------
(* The actions *)

\* The part of the invariant that holds in every environment.
TypeInv ==
  /\ Typed(c)
  /\ env \in Environment
  /\ stream \in Seq(Byte)
  /\ rcvd \in 0..Len(stream)
  /\ peer \in {"open", "eof", "reset"}

\* No handshake flight fails and no application sends a second body: the two
\* faults under which a handle is closed, or write_req used, a second time.
Tame == ~Fault("flightFails") /\ ~Fault("sendsAgain")

\* The inductive invariant of a tame environment.
SafeInv == TypeInv /\ Tame /\ Protocol(c) /\ Roomy(c)

\* What every action keeps.
Preserved ==
  /\ Typed(c') /\ rcvd' \in 0..Len(stream)
  /\ Tame /\ Protocol(c) /\ Roomy(c) => Protocol(c') /\ Roomy(c')

\* The next n bytes of the stream are n bytes.
LEMMA TakeType ==
  ASSUME TypeInv, NEW n \in Nat, rcvd + n <= Len(stream)
  PROVE  /\ Take(n) \in Seq(Byte) /\ Len(Take(n)) = n
         /\ rcvd + n \in 0..Len(stream)
<1>1. stream \in Seq(Byte) /\ rcvd \in Nat /\ rcvd <= Len(stream) /\ Len(stream) \in Nat
  BY DEF TypeInv
<1> QED
  BY <1>1 DEF Take

\* A plaintext read of any length keeps the invariant.
LEMMA ReadPlainStep ==
  ASSUME TypeInv, OnReadPlain
  PROVE  Preserved
<1> DEFINE k == CompactUnlessInFlight(c)
<1>1. PICK n \in 1..(READ_BUF_SIZE - Len(k.read_buf)) :
        /\ rcvd + n <= Len(stream)
        /\ rcvd' = rcvd + n
        /\ c' \in DispatchThenFlow([k EXCEPT !.read_buf = k.read_buf \o Take(n)])
  BY DEF OnReadPlain
<1>2. c.handle = "open" /\ c.read_armed
  BY DEF OnReadPlain, Reading
<1>3. Moved(c, k)
  BY CompactUnlessLemma DEF TypeInv
<1> HIDE DEF k
<1>4. Typed(k) /\ SameControl(c, k) /\ k.read_buf \in Seq(Byte) /\ Len(k.read_buf) \in Nat
  BY <1>3, ClientFields DEF Moved, Typed
<1>5. n \in Nat /\ n >= 1 /\ Len(k.read_buf) + n <= READ_BUF_SIZE
  BY <1>1, <1>4, SizesAssumption
<1>6. Take(n) \in Seq(Byte) /\ Len(Take(n)) = n /\ rcvd + n \in 0..Len(stream)
  BY <1>1, <1>5, TakeType
<1> DEFINE buf == k.read_buf \o Take(n)
           q   == [k EXCEPT !.read_buf = buf]
<1>7. buf \in Seq(Byte) /\ Len(buf) = Len(k.read_buf) + n
  BY <1>4, <1>6, ConcatLemma
<1>8. c' \in DispatchThenFlow(q)
  BY <1>1
<1> HIDE DEF buf
<1>9. /\ Typed(q) /\ SameControl(k, q)
      /\ client_buffered(q) = client_buffered(k) + (Len(buf) - Len(k.read_buf))
  <2>1. Len(buf) <= READ_BUF_SIZE /\ Len(k.read_buf) <= Len(buf)
    BY <1>4, <1>5, <1>7
  <2> HIDE DEF q
  <2> QED BY <1>4, <1>7, <2>1, GrowLemma DEF q
<1> HIDE DEF q
<1>10. client_buffered(q) > 0
  BY <1>4, <1>5, <1>7, <1>9, WindowType
<1>11. Protocol(c) => Protocol(q) /\ q.handle = "open" /\ q.write # "final"
  <2>1. SameControl(c, q)
    BY <1>4, <1>9 DEF SameControl
  <2> QED BY <1>2, <2>1, SameControlProtocol DEF SameControl, Protocol
<1>12. Typed(c') /\ (Protocol(c) => Protocol(c') /\ Roomy(c'))
  BY <1>8, <1>9, <1>10, <1>11, DispatchThenFlowLemma
<1> QED
  BY <1>1, <1>6, <1>12 DEF Preserved

\* A sweep of at most MaxSweep plaintext bytes fits in the spill.
LEMMA SweepStep ==
  ASSUME TypeInv, NEW k, Typed(k), k.tls, NEW n \in 0..MaxSweep, rcvd + n <= Len(stream),
         rcvd' = rcvd + n, c' \in tls_receive(k, Take(n)),
         Tame /\ Protocol(c) /\ Roomy(c) =>
           Protocol(k) /\ Roomy(k) /\ k.handle = "open" /\ k.read_armed
  PROVE  Preserved
<1>1. n \in Nat /\ n <= TLS_SPILL_SIZE
  BY SizesAssumption
<1>2. Take(n) \in Seq(Byte) /\ Len(Take(n)) = n /\ rcvd + n \in 0..Len(stream)
  BY <1>1, TakeType
<1>3. Len(Take(n)) <= TLS_SPILL_SIZE
  BY <1>1, <1>2
<1>4. /\ Typed(c')
      /\ Protocol(k) /\ Roomy(k) /\ k.handle = "open" /\ k.read_armed =>
           Protocol(c') /\ Roomy(c')
  BY <1>2, <1>3, ReceiveLemma
<1> QED
  BY <1>2, <1>4 DEF Preserved

\* A TLS read of any length keeps the invariant.
LEMMA ReadTlsStep ==
  ASSUME TypeInv, OnReadTls
  PROVE  Preserved
<1>1. PICK n \in 1..MaxSweep : /\ rcvd + n <= Len(stream) /\ rcvd' = rcvd + n
                               /\ c' \in tls_receive(c, Take(n))
  BY DEF OnReadTls
<1>2. n \in 0..MaxSweep
  BY <1>1, SizesAssumption
<1>3. Typed(c) /\ c.tls /\ c.handle = "open" /\ c.read_armed
  BY DEF OnReadTls, Reading, TypeInv
<1> QED
  BY <1>1, <1>2, <1>3, SweepStep

\* A handshake read, early application data included, keeps the invariant.
LEMMA HandshakeStep ==
  ASSUME TypeInv, OnReadHandshake
  PROVE  Preserved
<1>1. PICK k \in tls_hs_send(c) :
        \/ c' = k /\ rcvd' = rcvd
        \/ c' = tls_read_failed(k) /\ rcvd' = rcvd
        \/ \E n \in 0..MaxSweep :
             /\ rcvd + n <= Len(stream) /\ rcvd' = rcvd + n
             /\ c' \in tls_receive([k EXCEPT !.tls_hs_done = TRUE], Take(n))
  BY DEF OnReadHandshake
<1>2. c \in Client /\ c.tls /\ c.handle = "open" /\ c.read_armed /\ rcvd \in 0..Len(stream)
  BY DEF OnReadHandshake, Reading, TypeInv, Typed
<1>3. Kept(c, k) /\ k.handle = c.handle /\ k.write = c.write
  <2>1. PICK f \in Nat : f = c.flights + 1
    BY <1>2 DEF Client
  <2>2. k = c \/ k = [c EXCEPT !.flights = f]
    BY <2>1 DEF tls_hs_send
  <2> DEFINE q == [c EXCEPT !.flights = f]
  <2>3. q \in Client
    BY <1>2 DEF Client
  <2>4. /\ SameBuffers(c, q) /\ q.handle = c.handle /\ q.write = c.write
        /\ q.in_flight = c.in_flight /\ q.waiting = c.waiting
        /\ q.read_armed = c.read_armed
    BY <1>2 DEF Client, SameBuffers
  <2>5. k = c \/ k = q
    BY <2>2
  <2> HIDE DEF q
  <2> QED BY <1>2, <2>3, <2>4, <2>5 DEF Kept, SameBuffers
<1>4. Typed(k) /\ k \in Client
  BY <1>3, KeptTyped DEF TypeInv, Kept
<1>5. ASSUME NEW q, Kept(k, q), q.handle = k.handle, q.write = k.write
      PROVE  /\ Typed(q) /\ q.tls /\ q.handle = "open" /\ q.read_armed
             /\ Protocol(c) /\ Roomy(c) => Protocol(q) /\ Roomy(q)
             /\ Protocol(c) => q.write # "final"
  <2>1. Typed(q)
    BY <1>4, <1>5, KeptTyped
  <2>2. Kept(c, q)
    BY <1>3, <1>5, KeptTransitive
  <2>3. q.tls /\ q.handle = "open" /\ q.read_armed
    BY <1>2, <1>3, <1>5, <2>2 DEF Kept, SameBuffers
  <2>4. Protocol(c) /\ Roomy(c) => Protocol(q) /\ Roomy(q)
    BY <1>3, <1>5, <2>2 DEF Kept, SameBuffers, Protocol, Roomy
  <2>5. Protocol(c) => q.write # "final"
    BY <1>2, <1>3, <1>5 DEF Protocol
  <2> QED BY <2>1, <2>3, <2>4, <2>5
<1>6. Kept(k, k)
  BY <1>4 DEF Kept, SameBuffers
<1>7. CASE c' = k /\ rcvd' = rcvd
  BY <1>2, <1>5, <1>6, <1>7 DEF Preserved
<1>8. CASE c' = tls_read_failed(k) /\ rcvd' = rcvd
  BY <1>2, <1>4, <1>5, <1>6, <1>8, ReadFailedLemma DEF Preserved
<1>9. CASE \E n \in 0..MaxSweep :
             /\ rcvd + n <= Len(stream) /\ rcvd' = rcvd + n
             /\ c' \in tls_receive([k EXCEPT !.tls_hs_done = TRUE], Take(n))
  <2> DEFINE q == [k EXCEPT !.tls_hs_done = TRUE]
  <2>1. PICK n \in 0..MaxSweep : /\ rcvd + n <= Len(stream) /\ rcvd' = rcvd + n
                                 /\ c' \in tls_receive(q, Take(n))
    BY <1>9
  <2>2. Kept(k, q) /\ q.handle = k.handle /\ q.write = k.write
    BY <1>4 DEF Client, Kept, SameBuffers
  <2> HIDE DEF q
  <2> QED
    BY <1>5, <2>1, <2>2, SweepStep
<1> QED
  BY <1>1, <1>7, <1>8, <1>9

\* The connection is open and reading, so nothing final was written.
LEMMA ReadingLemma ==
  ASSUME TypeInv, Reading, NEW k, SameControl(c, k)
  PROVE  /\ rcvd \in 0..Len(stream)
         /\ Protocol(c) => Protocol(k) /\ k.handle = "open" /\ k.write # "final"
BY SameControlProtocol DEF TypeInv, Reading, SameControl, Protocol

\* A record that does not decrypt keeps the invariant.
LEMMA BadRecordStep ==
  ASSUME TypeInv, OnReadBadRecord
  PROVE  Preserved
<1> DEFINE k == CompactUnlessInFlight(c)
<1>1. Moved(c, k)
  BY CompactUnlessLemma DEF TypeInv
<1>2. c' = tls_read_failed(k) /\ rcvd' = rcvd /\ Reading
  BY DEF OnReadBadRecord
<1> HIDE DEF k
<1> QED
  BY <1>1, <1>2, ReadingLemma, ReadFailedLemma DEF Moved, Preserved

\* EOF, a reset and UV_ENOBUFS keep the invariant.
LEMMA ReadErrorStep ==
  ASSUME TypeInv, OnReadEof \/ OnReadReset \/ OnReadNoBufs
  PROVE  Preserved
<1>1. ASSUME NEW k, Typed(k), SameControl(c, k), c' = ReadError(k), rcvd' = rcvd, Reading
      PROVE  Preserved
  BY <1>1, ReadingLemma, ReadErrorLemma DEF Preserved
<1>2. Typed(c) /\ c \in Client
  BY DEF TypeInv, Typed
<1>3. CASE OnReadEof
  <2>1. SameControl(c, c)
    BY DEF SameControl
  <2> QED BY <1>1, <1>2, <1>3, <2>1 DEF OnReadEof
<1>4. CASE OnReadReset
  <2> DEFINE k == [c EXCEPT !.writable = FALSE]
  <2>1. k \in Client
    BY <1>2 DEF Client
  <2>2. SameBuffers(c, k) /\ SameControl(c, k)
    BY <1>2 DEF Client, SameBuffers, SameControl
  <2>3. c' = ReadError(k) /\ rcvd' = rcvd /\ Reading
    BY <1>4 DEF OnReadReset
  <2> HIDE DEF k
  <2>4. Typed(k)
    BY <1>2, <2>1, <2>2, SameTyped
  <2> QED BY <1>1, <2>2, <2>3, <2>4
<1>5. CASE OnReadNoBufs
  <2> DEFINE k == CompactUnlessInFlight(c)
  <2>1. Moved(c, k)
    BY <1>2, CompactUnlessLemma
  <2>2. c' = ReadError(k) /\ rcvd' = rcvd /\ Reading
    BY <1>5 DEF OnReadNoBufs
  <2> HIDE DEF k
  <2> QED BY <1>1, <2>1, <2>2 DEF Moved
<1> QED
  BY <1>3, <1>4, <1>5

\* The completion of a response keeps the invariant.
LEMMA WriteStep ==
  ASSUME TypeInv, OnWrite
  PROVE  Preserved
<1>1. PICK ok \in BOOLEAN : c' \in on_write(c, ok)
  BY DEF OnWrite
<1>2. Typed(c) /\ rcvd' \in 0..Len(stream) /\ c.write = "response"
  BY DEF TypeInv, OnWrite
<1> QED
  BY <1>1, <1>2, OnWriteLemma DEF Preserved

\* The completion of the final TLS write keeps the invariant.
LEMMA FinalWriteStep ==
  ASSUME TypeInv, OnTlsFinalWrite
  PROVE  Preserved
<1> DEFINE none == {}
           k == [c EXCEPT !.write = "idle", !.pins = none, !.wblock = FALSE]
<1>1. c \in Client /\ Typed(c) /\ rcvd' \in 0..Len(stream) /\ c.write = "final"
  BY DEF TypeInv, Typed, OnTlsFinalWrite
<1>2. c' = uv_close(k)
  BY DEF OnTlsFinalWrite
<1>3. none \in SUBSET {"body", "block"}
  OBVIOUS
<1> HIDE DEF none
<1>4. /\ k \in Client /\ SameBuffers(c, k) /\ k.handle = c.handle
      /\ k.write = "idle" /\ k.waiting = c.waiting
  BY <1>1, <1>3 DEF Client, SameBuffers
<1> HIDE DEF k
<1>5. Typed(k)
  BY <1>1, <1>4, SameTyped
<1>6. Protocol(c) => Ready(k) /\ k.waiting = {}
  BY <1>1, <1>4 DEF Protocol, Ready
<1> QED
  BY <1>1, <1>2, <1>5, <1>6, CloseReadyLemma DEF Preserved

\* The completion of a handshake flight keeps the invariant; a failed one
\* does so for the types only.
LEMMA HsWriteStep ==
  ASSUME TypeInv, OnTlsHsWrite
  PROVE  Preserved
<1> DEFINE k == [c EXCEPT !.flights = c.flights - 1]
<1>1. c \in Client /\ Typed(c) /\ rcvd' \in 0..Len(stream) /\ c.flights > 0
  BY DEF TypeInv, Typed, OnTlsHsWrite
<1>2. c' = k \/ (c' = uv_close(k) /\ Fault("flightFails"))
  BY DEF OnTlsHsWrite
<1>3. PICK f \in Nat : f = c.flights - 1
  BY <1>1 DEF Client
<1>4. k = [c EXCEPT !.flights = f]
  BY <1>3
<1> HIDE DEF k
<1>5. Kept(c, k) /\ k.handle = c.handle /\ k.write = c.write
  BY <1>1, <1>4 DEF Client, Kept, SameBuffers
<1>6. Typed(k)
  BY <1>1, <1>5, KeptTyped
<1>7. CASE c' = k
  BY <1>1, <1>5, <1>6, <1>7 DEF Preserved, Protocol, Roomy, Kept, SameBuffers
<1>8. CASE c' = uv_close(k) /\ Fault("flightFails")
  BY <1>1, <1>6, <1>8, CloseReadyLemma DEF Preserved, Tame
<1> QED
  BY <1>2, <1>7, <1>8

\* The assignments of on_close and tls_conn_free.
Freed(k, s, b) ==
  [k EXCEPT !.handle = "closed", !.objs = s, !.wblock = FALSE,
            !.spill = b, !.tls = FALSE, !.tls_hs_done = FALSE,
            !.tls_broken = FALSE]

WasFreed(k, b, d) ==
  /\ d \in Client
  /\ d.read_buf = k.read_buf /\ d.read_off = k.read_off /\ d.spill = b
  /\ d.handle = "closed" /\ d.write = k.write /\ d.waiting = k.waiting

\* The fields on_close sets, and the ones it leaves.
LEMMA FreedFields ==
  ASSUME NEW k \in Client, NEW s \in SUBSET {"status", "body", "task", "conn"},
         NEW b \in Seq(Byte)
  PROVE  WasFreed(k, b, Freed(k, s, b))
<1> DEFINE d == Freed(k, s, b)
<1>1. d \in Client
  BY ZenonT(60) DEF Client, Freed
<1>2. /\ d.read_buf = k.read_buf /\ d.read_off = k.read_off /\ d.spill = b
      /\ d.handle = "closed" /\ d.write = k.write /\ d.waiting = k.waiting
  BY DEF Client, Freed
<1> HIDE DEF d
<1>3. WasFreed(k, b, d)
  BY <1>1, <1>2 DEF WasFreed
<1> QED
  BY <1>3 DEF d

\* on_close keeps the invariant.
LEMMA CloseStep ==
  ASSUME TypeInv, OnClose
  PROVE  Preserved
<1> DEFINE left == c.objs \ {"conn"}
           none == <<>>
<1>1. c \in Client /\ Typed(c) /\ rcvd' \in 0..Len(stream)
      /\ c.handle = "closing" /\ c.write = "idle"
  BY DEF TypeInv, Typed, OnClose
<1>2. left \in SUBSET {"status", "body", "task", "conn"}
  BY <1>1 DEF Client
<1>3. none \in Seq(Byte) /\ Len(none) = 0 /\ none = <<>>
  OBVIOUS
<1>4. c' = Freed(c, left, none)
  BY DEF OnClose, Freed
<1> HIDE DEF left, none
<1>5. WasFreed(c, none, c')
  BY <1>1, <1>2, <1>3, <1>4, FreedFields
<1>7. Typed(c')
  BY <1>1, <1>3, <1>5, SizesAssumption DEF WasFreed, Typed, Fits
<1>8. Protocol(c) => Protocol(c') /\ Roomy(c')
  BY <1>1, <1>5 DEF WasFreed, Protocol, Roomy
<1> QED
  BY <1>1, <1>7, <1>8 DEF Preserved

\* A suspended application that sends keeps the invariant; one that sends
\* twice does so for the types only.
LEMMA AppSendsStep ==
  ASSUME TypeInv, AppSends
  PROVE  Preserved
<1>1. PICK r \in c.waiting \cup (IF Fault("sendsAgain") THEN c.lingering ELSE {}) :
        c' \in asgi_send_response([c EXCEPT !.waiting   = c.waiting \ {r},
                                            !.lingering = c.lingering \cup {r}], r)
  BY DEF AppSends
<1>2. c \in Client /\ Typed(c) /\ rcvd' \in 0..Len(stream)
  BY DEF TypeInv, Typed, AppSends
<1>3. r \in Nat
  BY <1>1, <1>2 DEF Client
<1> DEFINE owed == c.waiting \ {r}
           sent == c.lingering \cup {r}
           k    == [c EXCEPT !.waiting = owed, !.lingering = sent]
<1>4. owed \in SUBSET Nat /\ sent \in SUBSET Nat
  BY <1>2, <1>3 DEF Client
<1>5. Tame /\ Protocol(c) => r \in c.waiting /\ owed = {}
  BY <1>1 DEF Tame, Protocol
<1>6. c' \in asgi_send_response(k, r)
  BY <1>1
<1> HIDE DEF owed, sent
<1>7. k \in Client
  BY <1>2, <1>4 DEF Client
<1>8. /\ SameBuffers(c, k) /\ k.handle = c.handle /\ k.write = c.write
      /\ k.in_flight = c.in_flight /\ k.read_armed = c.read_armed /\ k.waiting = owed
  BY <1>2, <1>4 DEF Client, SameBuffers
<1> HIDE DEF k
<1>9. Answered(k, c')
  BY <1>3, <1>6, <1>7, AsgiSendLemma
<1>10. Typed(c')
  <2>1. Typed(k)
    BY <1>2, <1>7, <1>8, SameTyped
  <2> QED BY <1>9, <2>1, KeptTyped DEF Answered
<1>11. Tame /\ Protocol(c) => Ready(k) /\ k.waiting = {} /\ k.in_flight
  BY <1>5, <1>8 DEF Protocol, Ready
<1>12. Tame /\ Protocol(c) /\ Roomy(c) => Protocol(c') /\ Roomy(c')
  BY <1>8, <1>9, <1>11 DEF Answered, Kept, SameBuffers, Spent, Protocol, Roomy, Ready
<1> QED
  BY <1>2, <1>10, <1>12 DEF Preserved

\* An application that ends keeps the invariant.
LEMMA AppFinishesStep ==
  ASSUME TypeInv, AppFinishes
  PROVE  Preserved
<1>1. PICK r : c' = [c EXCEPT !.waiting   = IF r \in c.lingering THEN c.waiting
                                                            ELSE c.waiting \ {r},
                              !.lingering = c.lingering \ {r}]
  BY DEF AppFinishes
<1>2. c \in Client /\ Typed(c) /\ rcvd' \in 0..Len(stream)
  BY DEF TypeInv, Typed, AppFinishes
<1> DEFINE owed == IF r \in c.lingering THEN c.waiting ELSE c.waiting \ {r}
           left == c.lingering \ {r}
<1>3. owed \in SUBSET Nat /\ left \in SUBSET Nat /\ owed \subseteq c.waiting
  BY <1>2 DEF Client
<1>4. c' = [c EXCEPT !.waiting = owed, !.lingering = left]
  BY <1>1
<1> HIDE DEF owed, left
<1>5. c' \in Client
  BY <1>2, <1>3, <1>4 DEF Client
<1>6. /\ SameBuffers(c, c') /\ c'.handle = c.handle /\ c'.write = c.write
      /\ c'.in_flight = c.in_flight /\ c'.read_armed = c.read_armed /\ c'.waiting = owed
  BY <1>2, <1>3, <1>4 DEF Client, SameBuffers
<1>7. Typed(c')
  BY <1>2, <1>5, <1>6, SameTyped
<1>8. Protocol(c) /\ Roomy(c) => Protocol(c') /\ Roomy(c')
  BY <1>3, <1>6 DEF SameBuffers, Protocol, Roomy
<1> QED
  BY <1>2, <1>7, <1>8 DEF Preserved

-----------------------------------------------------------------------------
(* The theorems *)

\* on_new_connection establishes the invariant.
LEMMA InitTyped ==
  Init => TypeInv /\ Protocol(c) /\ Roomy(c)
<1> SUFFICES ASSUME Init PROVE TypeInv /\ Protocol(c) /\ Roomy(c)
  OBVIOUS
<1>1. PICK tls \in BOOLEAN : c = NewClient(tls)
  BY DEF Init
<1>2. env \in Environment /\ stream \in Seq(Byte) /\ rcvd = 0 /\ peer = "open"
  BY InputsAssumption DEF Init
<1>3. rcvd \in 0..Len(stream)
  BY <1>2
<1>4. c \in Client
  BY <1>1 DEF NewClient, Client
<1>5. /\ c.read_buf = <<>> /\ c.read_off = 0 /\ c.spill = <<>>
      /\ c.handle = "open" /\ c.write = "idle" /\ c.waiting = {} /\ ~c.in_flight
  BY <1>1 DEF NewClient
<1>6. Typed(c)
  BY <1>4, <1>5, SizesAssumption DEF Typed, Fits
<1>7. Protocol(c) /\ Roomy(c)
  BY <1>5, SizesAssumption DEF Protocol, Roomy
<1> QED
  BY <1>2, <1>3, <1>6, <1>7 DEF TypeInv

\* Every step, whatever the environment: env and stream never change.
LEMMA NextStep ==
  TypeInv /\ [Next]_vars => /\ TypeInv' /\ Preserved
                            /\ env' = env
<1> SUFFICES ASSUME TypeInv, [Next]_vars
             PROVE  TypeInv' /\ Preserved /\ env' = env
  OBVIOUS
<1>1. ASSUME UNCHANGED <<env, stream>>, peer' \in {"open", "eof", "reset"}, Preserved
      PROVE  TypeInv' /\ Preserved /\ env' = env
  BY <1>1 DEF TypeInv, Preserved
<1>2. ASSUME UNCHANGED <<c, rcvd>>
      PROVE  Preserved
  BY <1>2 DEF TypeInv, Preserved
<1>3. CASE OnReadPlain
  BY <1>1, <1>3, ReadPlainStep DEF OnReadPlain, TypeInv
<1>4. CASE OnReadHandshake
  BY <1>1, <1>4, HandshakeStep DEF OnReadHandshake, TypeInv
<1>5. CASE OnReadTls
  BY <1>1, <1>5, ReadTlsStep DEF OnReadTls, TypeInv
<1>6. CASE OnReadBadRecord
  BY <1>1, <1>6, BadRecordStep DEF OnReadBadRecord, TypeInv
<1>7. CASE OnReadEof
  BY <1>1, <1>7, ReadErrorStep DEF OnReadEof, TypeInv
<1>8. CASE OnReadReset
  BY <1>1, <1>8, ReadErrorStep DEF OnReadReset, TypeInv
<1>9. CASE OnReadNoBufs
  BY <1>1, <1>9, ReadErrorStep DEF OnReadNoBufs, TypeInv
<1>10. CASE OnWrite
  BY <1>1, <1>10, WriteStep DEF OnWrite, TypeInv
<1>11. CASE OnTlsFinalWrite
  BY <1>1, <1>11, FinalWriteStep DEF OnTlsFinalWrite, TypeInv
<1>12. CASE OnTlsHsWrite
  BY <1>1, <1>12, HsWriteStep DEF OnTlsHsWrite, TypeInv
<1>13. CASE OnClose
  BY <1>1, <1>13, CloseStep DEF OnClose, TypeInv
<1>14. CASE AppSends
  BY <1>1, <1>14, AppSendsStep DEF AppSends, TypeInv
<1>15. CASE AppFinishes
  BY <1>1, <1>15, AppFinishesStep DEF AppFinishes, TypeInv
<1>16. CASE PeerCloses
  BY <1>1, <1>2, <1>16 DEF PeerCloses
<1>17. CASE PeerResets
  BY <1>1, <1>2, <1>17 DEF PeerResets
<1>18. CASE UNCHANGED vars
  BY <1>1, <1>2, <1>18 DEF vars, TypeInv
<1> QED
  BY <1>3, <1>4, <1>5, <1>6, <1>7, <1>8, <1>9, <1>10, <1>11, <1>12, <1>13,
     <1>14, <1>15, <1>16, <1>17, <1>18 DEF Next

(***************************************************************************)
(* Type correctness in every environment, faults included: the cursor      *)
(* client_reset advances and client_compact rewinds stays inside read_buf  *)
(* whatever order libuv runs the callbacks in.                             *)
(***************************************************************************)
THEOREM TypeCorrect == Spec => []TypeOK
<1>1. Init => TypeInv
  BY InitTyped
<1>2. TypeInv /\ [Next]_vars => TypeInv'
  BY NextStep
<1>3. TypeInv => TypeOK
  BY DEF TypeInv, TypeOK, Typed, Fits
<1> QED
  BY <1>1, <1>2, <1>3, PTL DEF Spec

\* The invariant holds throughout, when no handshake flight fails and no
\* application sends twice.
LEMMA SafeInductive == Spec /\ Tame => []SafeInv
<1>1. Init /\ Tame => SafeInv
  BY InitTyped DEF SafeInv
<1>2. SafeInv /\ [Next]_vars => SafeInv'
  <2>1. env' = env => (Tame => Tame')
    BY DEF Tame, Fault
  <2> QED BY <2>1, NextStep DEF SafeInv, Preserved
<1> QED
  BY <1>1, <1>2, PTL DEF Spec

(***************************************************************************)
(* on_read, on_write, tls_read_failed, tls_read_flow, tls_send_final and   *)
(* the out-of-memory bail between them never close a handle twice, for     *)
(* every stream, every buffer size and every reset, end of file or memory  *)
(* shortage.  A handshake write that fails is the one way left.            *)
(***************************************************************************)
THEOREM NeverClosedTwice == Spec /\ Tame => []ClosedOnce
<1>1. SafeInv => ClosedOnce
  BY DEF SafeInv, Protocol, ClosedOnce
<1> QED
  BY <1>1, SafeInductive, PTL

(***************************************************************************)
(* c->write_req is never handed to uv_write while it is outstanding, nor   *)
(* after the client_t was freed, by response, final alert or 400.          *)
(***************************************************************************)
THEOREM OneWriteAtATime == Spec /\ Tame => []WriteReqExclusive
<1>1. SafeInv => WriteReqExclusive
  BY DEF SafeInv, Protocol, WriteReqExclusive
<1> QED
  BY <1>1, SafeInductive, PTL

(***************************************************************************)
(* Flow control is exact for every READ_BUF_SIZE, TLS_SPILL_SIZE and sweep *)
(* that fits the spill: no buffer overflows, and a read is never left      *)
(* armed with nowhere to put what it delivers.                             *)
(***************************************************************************)
THEOREM ReadsHaveRoom == Spec /\ Tame => []ReadHasRoom
<1>1. SafeInv => ReadHasRoom
  BY DEF SafeInv, TypeInv, Typed, Fits, Roomy, ReadHasRoom, Open
<1> QED
  BY <1>1, SafeInductive, PTL

-----------------------------------------------------------------------------
(***************************************************************************)
(* The bytes a connection holds are the ones it was sent and has not       *)
(* answered, its answers are those of its requests in order, no request is *)
(* forgotten, what a response is written from outlives it, and the server  *)
(* hangs up only for a reason.                                             *)
(*                                                                         *)
(* The invariant is again one on a client record, beside the number n of   *)
(* bytes received.  Base holds between any two of the C functions that     *)
(* pass the client_t on; Pending and Armed are what http_dispatch and the  *)
(* flow control behind it add before the callback returns.                 *)
(***************************************************************************)

\* The length of the request that byte b starts.
Size(b) == b.hdr + b.body

\* The first p bytes of the stream are those of the first n requests, and the
\* byte behind them starts the next one.
Boundary(p, n) ==
  /\ p \in 0..Len(stream)
  /\ \A i \in DOMAIN stream : stream[i].req <= n <=> i <= p
  /\ p < Len(stream) => stream[p + 1].at = 1 /\ stream[p + 1].req = n + 1

-----------------------------------------------------------------------------
(* The stream *)

\* The naturals are well founded: every set of them has a least element.
LEMMA LeastNatural ==
  ASSUME NEW T, T \subseteq Nat, T # {}
  PROVE  \E m \in T : \A k \in T : m <= k
<1> DEFINE R == OpToRel(<, Nat)
<1>1. IsWellFoundedOn(R, Nat)
  BY NatLessThanWellFounded
<1>2. \A x, y \in Nat : x < y => <<x, y>> \in R
  BY DEF OpToRel
<1> HIDE DEF R
<1>3. PICK x \in T : \A y \in T : ~(<<y, x>> \in R)
  BY <1>1, WFMin
<1>4. \A y \in T : ~(y < x)
  BY <1>2, <1>3, Zenon
<1> QED
  BY <1>4

\* The types of what a byte says of its request.
LEMMA ByteFields ==
  ASSUME stream \in Seq(Byte)
  PROVE  /\ Len(stream) \in Nat /\ DOMAIN stream = 1..Len(stream)
         /\ \A i \in 1..Len(stream) :
              /\ stream[i] \in Byte
              /\ stream[i].req \in Nat /\ stream[i].req >= 1
              /\ stream[i].at \in Nat
              /\ stream[i].hdr \in Nat /\ stream[i].hdr >= 1 /\ stream[i].body \in Nat
              /\ Size(stream[i]) \in Nat /\ Size(stream[i]) >= 1
<1>1. Len(stream) \in Nat /\ DOMAIN stream = 1..Len(stream)
  OBVIOUS
<1>2. \A i \in 1..Len(stream) : stream[i] \in Byte
  OBVIOUS
<1>3. \A b \in Byte : /\ b.req \in Nat /\ b.req >= 1 /\ b.at \in Nat
                      /\ b.hdr \in Nat /\ b.hdr >= 1 /\ b.body \in Nat
  BY DEF Byte
<1> QED
  BY <1>1, <1>2, <1>3 DEF Size

\* A byte continues the request of the one before it or starts the next.
LEMMA NextByte ==
  ASSUME stream \in Seq(Byte), Pipeline(stream), NEW i \in 1..Len(stream), i # 1
  PROVE  \/ /\ stream[i - 1].at < Size(stream[i - 1])
            /\ stream[i] = [stream[i - 1] EXCEPT !.at = stream[i - 1].at + 1]
         \/ /\ ~(stream[i - 1].at < Size(stream[i - 1]))
            /\ stream[i].req = stream[i - 1].req + 1 /\ stream[i].at = 1
BY DEF Pipeline, Size

\* The same, as what the fields of the byte are.
LEMMA NextByteFields ==
  ASSUME stream \in Seq(Byte), Pipeline(stream), NEW i \in 1..Len(stream), i # 1
  PROVE  LET a == stream[i - 1]
             b == stream[i]
         IN  \/ /\ a.at < Size(a) /\ b.req = a.req /\ b.at = a.at + 1
                /\ b.hdr = a.hdr /\ b.body = a.body /\ b.bad = a.bad
             \/ ~(a.at < Size(a)) /\ b.req = a.req + 1 /\ b.at = 1
<1> DEFINE a == stream[i - 1]
           b == stream[i]
<1>1. i - 1 \in 1..Len(stream)
  OBVIOUS
<1>2. a \in Byte
  BY <1>1, ByteFields
<1>3. \/ a.at < Size(a) /\ b = [a EXCEPT !.at = a.at + 1]
      \/ ~(a.at < Size(a)) /\ b.req = a.req + 1 /\ b.at = 1
  BY NextByte
<1> HIDE DEF a, b
<1>4. ASSUME b = [a EXCEPT !.at = a.at + 1]
      PROVE  /\ b.req = a.req /\ b.at = a.at + 1
             /\ b.hdr = a.hdr /\ b.body = a.body /\ b.bad = a.bad
  BY <1>2, <1>4 DEF Byte
<1> QED
  BY <1>3, <1>4 DEF a, b

\* Request numbers never go down along the stream.
LEMMA RequestsAscend ==
  ASSUME stream \in Seq(Byte), Pipeline(stream), NEW i \in 1..Len(stream),
         NEW j \in 1..Len(stream), i <= j
  PROVE  stream[i].req <= stream[j].req
<1> DEFINE T == {k \in 1..Len(stream) : i <= k /\ stream[k].req < stream[i].req}
<1>1. SUFFICES ASSUME T # {} PROVE FALSE
  BY ByteFields
<1>2. T \subseteq Nat
  OBVIOUS
<1>3. PICK m \in T : \A k \in T : m <= k
  BY <1>1, <1>2, LeastNatural
<1>4. m \in 1..Len(stream) /\ i <= m /\ stream[m].req < stream[i].req
  OBVIOUS
<1>5. m - 1 \notin T
  BY <1>3, <1>4
<1>6. m # i
  BY <1>4, ByteFields
<1>7. m # 1 /\ m - 1 \in 1..Len(stream) /\ i <= m - 1
  BY <1>4, <1>6
<1>8. ~(stream[m - 1].req < stream[i].req)
  BY <1>5, <1>7
<1>9. stream[m - 1].req <= stream[m].req
  <2>1. \/ stream[m].req = stream[m - 1].req
        \/ stream[m].req = stream[m - 1].req + 1
    BY <1>4, <1>7, NextByteFields
  <2>2. stream[m - 1].req \in Nat
    BY <1>7, ByteFields
  <2> QED
    BY <2>1, <2>2
<1>10. stream[i].req \in Nat /\ stream[m].req \in Nat /\ stream[m - 1].req \in Nat
  BY <1>4, <1>7, ByteFields
<1> QED
  BY <1>4, <1>8, <1>9, <1>10

\* The bytes behind a boundary are those of the request that starts there.
LEMMA WithinRequest ==
  ASSUME stream \in Seq(Byte), Pipeline(stream), NEW p, NEW n \in Nat, Boundary(p, n),
         p < Len(stream),
         NEW j \in 1..Size(stream[p + 1]), p + j <= Len(stream)
  PROVE  /\ stream[p + j].req = n + 1 /\ stream[p + j].at = j
         /\ Size(stream[p + j]) = Size(stream[p + 1])
         /\ stream[p + j].hdr = stream[p + 1].hdr /\ stream[p + j].bad = stream[p + 1].bad
<1> DEFINE size == Size(stream[p + 1])
           Good(i) == /\ stream[p + i].req = n + 1 /\ stream[p + i].at = i
                      /\ Size(stream[p + i]) = size
                      /\ stream[p + i].hdr = stream[p + 1].hdr
                      /\ stream[p + i].bad = stream[p + 1].bad
           T == {i \in 1..size : p + i <= Len(stream) /\ ~Good(i)}
<1>1. p \in Nat /\ Len(stream) \in Nat /\ p + 1 \in 1..Len(stream)
  BY ByteFields DEF Boundary
<1>2. size \in Nat
  BY <1>1, ByteFields
<1>3. Good(1)
  BY <1>1 DEF Boundary
<1> HIDE DEF size
<1>4. SUFFICES ASSUME T # {} PROVE FALSE
  BY DEF size
<1>5. T \subseteq Nat
  BY <1>2
<1>6. PICK m \in T : \A i \in T : m <= i
  BY <1>4, <1>5, LeastNatural
<1>7. m \in 1..size /\ p + m <= Len(stream) /\ ~Good(m)
  OBVIOUS
<1>8. m # 1
  BY <1>3, <1>7
<1>9. m - 1 \in 1..size /\ p + (m - 1) <= Len(stream) /\ m - 1 \notin T
  <2>1. m - 1 \in 1..size /\ p + (m - 1) <= Len(stream) /\ ~(m <= m - 1)
    BY <1>1, <1>2, <1>7, <1>8
  <2> QED
    BY <1>6, <2>1, Zenon
<1>10. Good(m - 1)
  BY <1>9
<1>11. p + m \in 1..Len(stream) /\ p + m # 1 /\ (p + m) - 1 = p + (m - 1)
  BY SMTT(30), <1>1, <1>2, <1>7, <1>8
<1>12. /\ stream[(p + m) - 1].req = n + 1 /\ stream[(p + m) - 1].at = m - 1
       /\ Size(stream[(p + m) - 1]) = size
       /\ stream[(p + m) - 1].hdr = stream[p + 1].hdr
       /\ stream[(p + m) - 1].bad = stream[p + 1].bad
  BY <1>10, <1>11
<1>13. m - 1 < size
  BY <1>2, <1>7
<1>14. /\ stream[p + m].req = n + 1 /\ stream[p + m].at = (m - 1) + 1
       /\ stream[p + m].hdr = stream[(p + m) - 1].hdr
       /\ stream[p + m].body = stream[(p + m) - 1].body
       /\ stream[p + m].bad = stream[(p + m) - 1].bad
  BY <1>11, <1>12, <1>13, NextByteFields
<1>15. Size(stream[p + m]) = size
  BY <1>12, <1>14 DEF Size
<1> QED
  BY <1>7, <1>12, <1>14, <1>15

\* The byte of it that makes it answerable.
LEMMA CompletingByte ==
  ASSUME stream \in Seq(Byte), Pipeline(stream), NEW p, NEW n \in Nat, Boundary(p, n),
         p < Len(stream),
         NEW j \in 1..Size(stream[p + 1]), p + j <= Len(stream),
         j = IF stream[p + 1].bad THEN stream[p + 1].hdr ELSE Size(stream[p + 1])
  PROVE  stream[p + j].req = n + 1 /\ Completes(stream[p + j])
<1>1. /\ stream[p + j].req = n + 1 /\ stream[p + j].at = j
      /\ Size(stream[p + j]) = Size(stream[p + 1])
      /\ stream[p + j].hdr = stream[p + 1].hdr /\ stream[p + j].bad = stream[p + 1].bad
  BY WithinRequest
<1> QED
  BY <1>1 DEF Completes, Size

\* Stepping over a whole request leads from one boundary to the next.
LEMMA BoundaryAdvances ==
  ASSUME stream \in Seq(Byte), Pipeline(stream), NEW p, NEW n \in Nat, Boundary(p, n),
         p < Len(stream), p + Size(stream[p + 1]) <= Len(stream)
  PROVE  Boundary(p + Size(stream[p + 1]), n + 1)
<1> DEFINE size == Size(stream[p + 1])
           q == p + size
<1>1. p \in Nat /\ Len(stream) \in Nat /\ p + 1 \in 1..Len(stream)
      /\ DOMAIN stream = 1..Len(stream)
  BY ByteFields DEF Boundary
<1>2. size \in Nat /\ size >= 1
  BY <1>1, ByteFields
<1>3. \A j \in 1..size : stream[p + j].req = n + 1
  <2> SUFFICES ASSUME NEW j \in 1..size PROVE stream[p + j].req = n + 1
    OBVIOUS
  <2>1. p + j <= Len(stream)
    BY <1>1, <1>2
  <2> QED
    BY <2>1, WithinRequest
<1>4. stream[p + size].at = size /\ Size(stream[p + size]) = size
      /\ stream[p + size].req = n + 1
  <2>1. size \in 1..size
    BY <1>2
  <2> QED
    BY <2>1, WithinRequest
<1> HIDE DEF size
<1>5. q < Len(stream) => stream[q + 1].at = 1 /\ stream[q + 1].req = (n + 1) + 1
  <2> SUFFICES ASSUME q < Len(stream)
               PROVE  stream[q + 1].at = 1 /\ stream[q + 1].req = (n + 1) + 1
    OBVIOUS
  <2>1. q + 1 \in 1..Len(stream) /\ q + 1 # 1 /\ (q + 1) - 1 = q
    BY <1>1, <1>2
  <2>2. ~(stream[q].at < Size(stream[q])) /\ stream[q].req = n + 1
    BY <1>2, <1>4
  <2> QED
    BY <2>1, <2>2, NextByteFields
<1>6. ASSUME NEW i \in 1..Len(stream)
      PROVE  stream[i].req <= n + 1 <=> i <= q
  <2>1. CASE i <= p
    <3>1. stream[i].req <= n
      BY <1>1, <2>1 DEF Boundary
    <3> QED
      BY <1>1, <1>2, <2>1, <3>1, ByteFields
  <2>2. CASE p < i /\ i <= q
    <3>1. i - p \in 1..size /\ p + (i - p) = i
      BY <1>1, <1>2, <2>2
    <3>2. stream[i].req = n + 1
      BY <1>3, <3>1
    <3> QED
      BY <2>2, <3>2
  <2>3. CASE q < i
    <3>1. q + 1 \in 1..Len(stream) /\ q + 1 <= i /\ q < Len(stream)
      BY <1>1, <1>2, <2>3
    <3>2. stream[q + 1].req <= stream[i].req /\ stream[q + 1].req = (n + 1) + 1
      BY <1>5, <3>1, RequestsAscend
    <3> QED
      BY <1>1, <1>2, <2>3, <3>2, ByteFields
  <2> QED
    BY <1>1, <1>2, <2>1, <2>2, <2>3
<1>7. q \in 0..Len(stream)
  BY <1>1, <1>2 DEF size
<1>8. Boundary(q, n + 1)
  BY <1>1, <1>5, <1>6, <1>7 DEF Boundary
<1> QED
  BY <1>8 DEF size

\* Before the first byte no request has been received.
LEMMA FirstBoundary ==
  ASSUME stream \in Seq(Byte), Pipeline(stream)
  PROVE  Boundary(0, 0)
<1>1. 0 < Len(stream) => stream[1].at = 1 /\ stream[1].req = 0 + 1
  BY DEF Pipeline
<1>2. \A i \in DOMAIN stream : stream[i].req <= 0 <=> i <= 0
  BY ByteFields
<1> QED
  BY <1>1, <1>2, ByteFields DEF Boundary

\* BytesOf counts what the boundary says.
LEMMA BoundaryBytes ==
  ASSUME stream \in Seq(Byte), NEW p, NEW n \in Nat, Boundary(p, n)
  PROVE  BytesOf(n) = p
<1>1. p \in Nat /\ DOMAIN stream = 1..Len(stream) /\ p <= Len(stream) /\ Len(stream) \in Nat
  BY ByteFields DEF Boundary
<1>2. {i \in DOMAIN stream : stream[i].req <= n} = 1..p
  BY <1>1 DEF Boundary
<1>3. Cardinality(1..p) = p
  BY <1>1, FS_Interval
<1> QED
  BY <1>2, <1>3 DEF BytesOf

-----------------------------------------------------------------------------
(* The invariant *)

\* The buffer and behind it the spill hold the bytes of the stream from p on.
InPlace(k, p, n) ==
  /\ p + client_buffered(k) + Len(k.spill) = n
  /\ \A i \in 1..client_buffered(k) : k.read_buf[k.read_off + i] = stream[p + i]
  /\ \A i \in 1..Len(k.spill) : k.spill[i] = stream[p + client_buffered(k) + i]

\* A connection that still takes requests.
Live(k) == k.handle = "open" /\ k.write # "final"

\* What is held is what was received and not answered.
Contents(k, n) ==
  /\ Boundary(BytesOf(k.served), k.served)
  /\ k.handle = "open" /\ ~k.tls_broken => InPlace(k, BytesOf(k.served), n)

\* A broken session only waits for the response in flight, which closes it.
Broken(k) ==
  Live(k) /\ k.tls_broken => k.in_flight /\ ~k.keep_alive /\ ~k.read_armed

\* A request in flight lies whole at the front of the buffer.
Begun(k) ==
  Live(k) /\ k.in_flight =>
    /\ client_buffered(k) > 0 /\ k.consumed = Size(FrontByte(k))
    /\ k.consumed <= client_buffered(k)
    /\ k.tls => k.tls_hs_done
    /\ k.spill # <<>> => Len(k.read_buf) = READ_BUF_SIZE

\* With none in flight the parser has not yet seen the end of the headers.
Fresh(k) ==
  Live(k) /\ ~k.in_flight =>
    /\ k.objs \subseteq {"conn"}
    /\ client_buffered(k) = 0 => k.last_len = 0
    /\ client_buffered(k) > 0 => k.last_len < FrontByte(k).hdr
    /\ k.spill # <<>> => client_buffered(k) = READ_BUF_SIZE

\* The answers written are those of the requests stepped over, and of the one
\* in flight if its response is outstanding.
Replying(k) ==
  /\ \A i \in DOMAIN k.wire : k.wire[i] = i
  /\ Live(k) => /\ Len(k.wire) = IF k.write = "response" THEN k.served + 1 ELSE k.served
                /\ k.waiting \subseteq {k.served + 1}

\* WriteBuffersHeld, of a record.
Held(k) ==
  k.write \in {"response", "final"} =>
    /\ "body" \in k.pins => "body" \in k.objs
    /\ "block" \in k.pins => k.wblock

\* The reasons of ClosesForCause.
Cause(k) ==
  \/ peer # "open" \/ k.tls_broken \/ Fault("nomem")
  \/ k.in_flight /\ ~k.keep_alive
  \/ client_buffered(k) > 0 /\ FrontByte(k).bad
  \/ client_buffered(k) > 0 /\ Size(FrontByte(k)) > READ_BUF_SIZE

\* A connection about to end has a reason to, and little left to release.
Ending(k) ==
  /\ ~k.writable => peer = "reset"
  /\ k.handle = "closing" \/ k.write = "final" => Cause(k)
  /\ k.write = "final" => k.alert
  /\ ~Fault("nomem") =>
       /\ k.handle = "closing" \/ k.write = "final" => k.objs \subseteq {"conn"}
       /\ k.handle = "closed" => k.objs = {}
       /\ k.handle = "closing" /\ k.tls /\ ~k.tls_broken /\ k.in_flight /\ peer = "open"
            => k.alert

\* What holds between any two of the functions a callback is made of.
Sound(k, n) ==
  /\ Contents(k, n) /\ Broken(k) /\ Begun(k) /\ Fresh(k) /\ Replying(k)
  /\ Held(k) /\ Ending(k)

\* A request in flight has someone to end it.
Owned(k) ==
  ~Fault("endsSilently") /\ Live(k) /\ k.in_flight /\ k.writable =>
    k.write = "response" \/ k.waiting # {}

Base(k, n) == Sound(k, n) /\ Owned(k)

\* No complete request waits undispatched.
Pending(k) ==
  Live(k) /\ ~k.in_flight /\ client_buffered(k) > 0 =>
    client_buffered(k) < Size(FrontByte(k))

\* A connection with nothing in flight is reading.
Armed(k) == Live(k) /\ ~k.in_flight => k.read_armed

\* Request r is among the first n bytes, as far as it takes to answer it.
Complete(r, n) == \E i \in 1..n : stream[i].req = r /\ Completes(stream[i])

\* So is every request that was answered, or whose application was called.
Settled(k, n) ==
  /\ \A i \in DOMAIN k.wire : Complete(k.wire[i], n)
  /\ \A r \in k.waiting : Complete(r, n)

DataInv ==
  /\ Pipeline(stream)
  /\ Base(c, rcvd) /\ Pending(c) /\ Armed(c)
  /\ Settled(c, rcvd)

\* What a function may do to the answers: one at most, to a request that is
\* complete, on a connection that was open.
Answers(k, d, n) ==
  /\ d.handle = "open" => k.handle = "open"
  /\ \A r \in d.waiting : r \in k.waiting \/ Complete(r, n)
  /\ \/ d.wire = k.wire
     \/ /\ k.handle = "open"
        /\ \E r \in Nat : d.wire = k.wire \o <<r>> /\ Complete(r, n)

\* None at all.
Silent(k, d) ==
  /\ d.handle = "open" => k.handle = "open"
  /\ d.waiting \subseteq k.waiting /\ d.wire = k.wire

\* A silent function before or behind another leaves it the answers.
LEMMA SilentAnswers ==
  ASSUME NEW k, NEW q, NEW d, NEW n
  PROVE  /\ Silent(k, d) => Answers(k, d, n)
         /\ Answers(k, q, n) /\ Silent(q, d) => Answers(k, d, n)
         /\ Silent(k, q) /\ Answers(q, d, n) => Answers(k, d, n)
<1>1. Silent(k, d) => Answers(k, d, n)
  BY DEF Silent, Answers
<1>2. Answers(k, q, n) /\ Silent(q, d) => Answers(k, d, n)
  BY DEF Silent, Answers
<1>3. Silent(k, q) /\ Answers(q, d, n) => Answers(k, d, n)
  BY DEF Silent, Answers
<1> QED
  BY <1>1, <1>2, <1>3

-----------------------------------------------------------------------------
(* Answering *)

\* Nothing the read side of the connection depends on changes.
SameRead(k, d) ==
  /\ d \in Client /\ SameBuffers(k, d)
  /\ d.last_len = k.last_len /\ d.consumed = k.consumed /\ d.served = k.served
  /\ d.in_flight = k.in_flight /\ d.writable = k.writable
  /\ d.tls_hs_done = k.tls_hs_done /\ d.tls_broken = k.tls_broken

\* Only what a response is made of changes, and keep_alive may be cleared.
Aside(k, d) ==
  /\ SameRead(k, d)
  /\ d.handle = k.handle /\ d.write = k.write /\ d.wire = k.wire
  /\ d.waiting = k.waiting /\ d.alert = k.alert /\ d.read_armed = k.read_armed
  /\ d.keep_alive => k.keep_alive

\* One answer r: outstanding, refused by libuv, or dropped for want of memory.
Replied(k, d, r) ==
  /\ SameRead(k, d)
  /\ d.waiting = k.waiting /\ d.read_armed = k.read_armed
  /\ d.keep_alive => k.keep_alive
  /\ Ready(k) =>
       \/ /\ k.writable /\ d.handle = "open" /\ d.write = "response"
          /\ d.wire = k.wire \o <<r>> /\ Held(d)
       \/ ~k.writable /\ d.handle = "open" /\ d.write = "idle" /\ d.wire = k.wire
       \/ Fault("nomem") /\ d.handle = "closing" /\ d.write = "idle" /\ d.wire = k.wire

\* Setting aside and then answering is answering.
LEMMA AsideReplied ==
  ASSUME NEW k, NEW q, NEW d, NEW r, Aside(k, q), Replied(q, d, r)
  PROVE  Replied(k, d, r)
<1>1. SameRead(k, d)
  BY DEF Aside, Replied, SameRead, SameBuffers
<1>2. Ready(k) => Ready(q)
  BY DEF Aside, Ready
<1>3. q.writable = k.writable /\ q.wire = k.wire
  BY DEF Aside, SameRead
<1> QED
  BY <1>1, <1>2, <1>3 DEF Aside, Replied

\* The fields a response is made of are aside.
LEMMA AsideFields ==
  ASSUME NEW k \in Client, NEW s \in SUBSET {"status", "body", "task", "conn"}
  PROVE  /\ Aside(k, [k EXCEPT !.objs = s])
         /\ Aside(k, [k EXCEPT !.wblock = TRUE])
         /\ Aside(k, [k EXCEPT !.keep_alive = FALSE])
<1>1. Aside(k, [k EXCEPT !.objs = s])
  BY DEF Aside, SameRead, SameBuffers, Client
<1>2. Aside(k, [k EXCEPT !.wblock = TRUE])
  BY DEF Aside, SameRead, SameBuffers, Client
<1>3. Aside(k, [k EXCEPT !.keep_alive = FALSE])
  BY DEF Aside, SameRead, SameBuffers, Client
<1> QED
  BY <1>1, <1>2, <1>3

\* uv_write on an idle request: the write is outstanding, or was refused.
LEMMA WriteOutcome ==
  ASSUME NEW k \in Client, NEW user \in {"idle", "response", "final"}, NEW rs \in Seq(Nat),
         NEW d, d = uv_write(k, user, rs)
  PROVE  /\ SameRead(k, d) /\ d.waiting = k.waiting /\ d.read_armed = k.read_armed
         /\ d.keep_alive = k.keep_alive /\ d.objs = k.objs /\ d.alert = k.alert
         /\ Ready(k) =>
              /\ d.handle = "open"
              /\ \/ /\ k.writable /\ d.write = user /\ d.wire = k.wire \o rs
                    /\ k.tls /\ k.wblock => Held(d)
                    /\ ~k.tls => Held(d)
                 \/ ~k.writable /\ d.write = "idle" /\ d.wire = k.wire
<1> DEFINE pins == IF k.tls THEN {"block"} ELSE k.objs \cap {"body"}
           all  == k.wire \o rs
           sent == [k EXCEPT !.write = user, !.wire = all, !.pins = pins]
           lost == [k EXCEPT !.write = "corrupt"]
<1>1. all \in Seq(Nat)
  BY DEF Client
<1>2. pins \in SUBSET {"body", "block"}
      /\ (k.tls => pins = {"block"}) /\ (~k.tls => pins = k.objs \cap {"body"})
  OBVIOUS
<1>3. /\ \/ d = lost /\ ~Ready(k)
         \/ d = sent /\ k.writable /\ k.handle = "open"
         \/ d = k /\ (Ready(k) => ~k.writable)
  BY DEF uv_write, Ready, CanWrite
<1> HIDE DEF pins, all
<1>4. CASE d = lost /\ ~Ready(k)
  <2>1. d \in Client
    BY <1>4, ZenonT(40) DEF Client
  <2>2. /\ SameBuffers(k, d) /\ d.last_len = k.last_len /\ d.consumed = k.consumed
        /\ d.served = k.served
        /\ d.in_flight = k.in_flight /\ d.writable = k.writable
        /\ d.tls_hs_done = k.tls_hs_done /\ d.tls_broken = k.tls_broken
    BY <1>4 DEF Client, SameBuffers
  <2>3. /\ d.waiting = k.waiting /\ d.read_armed = k.read_armed
        /\ d.keep_alive = k.keep_alive /\ d.objs = k.objs /\ d.alert = k.alert
    BY <1>4 DEF Client
  <2> QED BY <1>4, <2>1, <2>2, <2>3 DEF SameRead
<1>5. CASE d = sent /\ k.writable /\ k.handle = "open"
  <2>1. d \in Client
    <3>1. sent \in Client
      BY <1>1, <1>2 DEF Client
    <3> QED BY <1>5, <3>1
  <2>2. /\ SameBuffers(k, d) /\ d.last_len = k.last_len /\ d.consumed = k.consumed
        /\ d.served = k.served
        /\ d.in_flight = k.in_flight /\ d.writable = k.writable
        /\ d.tls_hs_done = k.tls_hs_done /\ d.tls_broken = k.tls_broken
    BY <1>5 DEF Client, SameBuffers
  <2>3. /\ d.waiting = k.waiting /\ d.read_armed = k.read_armed
        /\ d.keep_alive = k.keep_alive /\ d.objs = k.objs /\ d.alert = k.alert
        /\ d.handle = "open" /\ d.write = user /\ d.wire = all /\ d.pins = pins
        /\ d.wblock = k.wblock
    BY <1>5 DEF Client
  <2>4. (k.tls /\ k.wblock => Held(d)) /\ (~k.tls => Held(d))
    BY <1>2, <2>3 DEF Held
  <2> QED BY <1>5, <2>1, <2>2, <2>3, <2>4 DEF SameRead, all
<1>6. CASE d = k /\ (Ready(k) => ~k.writable)
  BY <1>6 DEF SameRead, SameBuffers, Ready
<1> QED
  BY <1>3, <1>4, <1>5, <1>6

\* uv_close changes the handle only.
LEMMA CloseOutcome ==
  ASSUME NEW k \in Client, NEW d, d = uv_close(k)
  PROVE  /\ SameRead(k, d) /\ d.waiting = k.waiting /\ d.read_armed = k.read_armed
         /\ d.keep_alive = k.keep_alive /\ d.objs = k.objs /\ d.alert = k.alert
         /\ d.write = k.write /\ d.wire = k.wire
         /\ k.handle = "open" => d.handle = "closing"
<1> DEFINE h == IF k.handle = "open" THEN "closing" ELSE "aborted"
<1>1. h \in {"closing", "aborted"} /\ (k.handle = "open" => h = "closing")
  OBVIOUS
<1>2. d = [k EXCEPT !.handle = h]
  BY DEF uv_close
<1> HIDE DEF h
<1>3. d \in Client
  BY <1>1, <1>2 DEF Client
<1>4. /\ SameBuffers(k, d) /\ d.last_len = k.last_len /\ d.consumed = k.consumed
      /\ d.served = k.served
      /\ d.in_flight = k.in_flight /\ d.writable = k.writable
      /\ d.tls_hs_done = k.tls_hs_done /\ d.tls_broken = k.tls_broken
  BY <1>2 DEF Client, SameBuffers
<1>5. /\ d.waiting = k.waiting /\ d.read_armed = k.read_armed
      /\ d.keep_alive = k.keep_alive /\ d.objs = k.objs /\ d.alert = k.alert
      /\ d.write = k.write /\ d.wire = k.wire /\ d.handle = h
  BY <1>2 DEF Client
<1> QED
  BY <1>1, <1>3, <1>4, <1>5 DEF SameRead

\* write_response answers once.
LEMMA WriteResponseOutcome ==
  ASSUME NEW k \in Client, NEW r \in Nat, NEW d \in write_response(k, r)
  PROVE  Replied(k, d, r)
<1> DEFINE held == [k EXCEPT !.wblock = TRUE]
<1>1. Aside(k, held) /\ held \in Client /\ held.wblock
  <2>1. {} \in SUBSET {"status", "body", "task", "conn"}
    OBVIOUS
  <2>2. held \in Client /\ held.wblock
    BY DEF Client
  <2> QED BY <2>1, <2>2, AsideFields
<1>2. PICK rs \in Seq(Nat) : rs = <<r>>
  <2>1. <<r>> \in Seq(Nat)
    OBVIOUS
  <2> QED BY <2>1
<1>3. \/ k.tls /\ d = uv_write(held, "response", rs)
      \/ ~k.tls /\ d = uv_write(k, "response", rs)
      \/ Fault("nomem") /\ (d = uv_close(k) \/ d = uv_close(held))
  BY <1>2 DEF write_response, tls_write_response_impl
<1> HIDE DEF held
<1>4. held.tls = k.tls /\ Aside(k, k)
  BY <1>1 DEF Aside, SameRead, SameBuffers
<1>5. ASSUME NEW q \in Client, q.tls => q.wblock, d = uv_write(q, "response", rs)
      PROVE  Replied(q, d, r)
  <2>1. "response" \in {"idle", "response", "final"}
    OBVIOUS
  <2>2. /\ SameRead(q, d) /\ d.waiting = q.waiting /\ d.read_armed = q.read_armed
        /\ d.keep_alive = q.keep_alive
        /\ Ready(q) =>
             /\ d.handle = "open"
             /\ \/ /\ q.writable /\ d.write = "response" /\ d.wire = q.wire \o rs
                   /\ q.tls /\ q.wblock => Held(d)
                   /\ ~q.tls => Held(d)
                \/ ~q.writable /\ d.write = "idle" /\ d.wire = q.wire
    BY <1>5, <2>1, WriteOutcome
  <2> QED
    BY <1>2, <1>5, <2>2 DEF Replied
<1>6. CASE k.tls /\ d = uv_write(held, "response", rs)
  <2>1. Replied(held, d, r)
    BY <1>1, <1>4, <1>6, <1>5
  <2> QED BY <1>1, <2>1, AsideReplied
<1>7. CASE ~k.tls /\ d = uv_write(k, "response", rs)
  BY <1>7, <1>5
<1>8. ASSUME NEW q \in Client, Aside(k, q), Fault("nomem"), d = uv_close(q)
      PROVE  Replied(k, d, r)
  <2>1. Replied(q, d, r)
    BY <1>8, CloseOutcome DEF Replied, Ready
  <2> QED BY <1>8, <2>1, AsideReplied
<1> QED
  BY <1>1, <1>3, <1>4, <1>6, <1>7, <1>8

\* So do send_500, wsgi_call_application and asgi_send_response.
LEMMA Send500Outcome ==
  ASSUME NEW k \in Client, NEW r \in Nat, NEW d \in send_500(k, r)
  PROVE  Replied(k, d, r)
<1> DEFINE q == [k EXCEPT !.keep_alive = FALSE]
<1>1. Aside(k, q)
  <2>1. {} \in SUBSET {"status", "body", "task", "conn"}
    OBVIOUS
  <2> QED BY <2>1, AsideFields
<1>2. d \in write_response(q, r)
  BY DEF send_500
<1> HIDE DEF q
<1>3. q \in Client
  BY <1>1 DEF Aside, SameRead
<1> QED
  BY <1>1, <1>2, <1>3, WriteResponseOutcome, AsideReplied

\* wsgi_call_application answers once, as a response or a 500.
LEMMA WsgiOutcome ==
  ASSUME NEW k \in Client, NEW r \in Nat, NEW d \in wsgi_call_application(k, r)
  PROVE  Replied(k, d, r)
<1> DEFINE q == [k EXCEPT !.objs = k.objs \cup {"status", "body"}]
           p == [k EXCEPT !.objs = k.objs \cup {"status"}]
<1>1. /\ k.objs \cup {"status", "body"} \in SUBSET {"status", "body", "task", "conn"}
      /\ k.objs \cup {"status"} \in SUBSET {"status", "body", "task", "conn"}
  BY DEF Client
<1>2. Aside(k, q) /\ Aside(k, p)
  BY <1>1, AsideFields
<1>3. d \in write_response(q, r) \/ d \in send_500(p, r)
  BY DEF wsgi_call_application
<1> HIDE DEF q, p
<1>4. q \in Client /\ p \in Client
  BY <1>2 DEF Aside, SameRead
<1> QED
  BY <1>2, <1>3, <1>4, WriteResponseOutcome, Send500Outcome, AsideReplied

\* asgi_send_response takes the body and answers once.
LEMMA AsgiSendOutcome ==
  ASSUME NEW k \in Client, NEW r \in Nat, NEW d \in asgi_send_response(k, r)
  PROVE  Replied(k, d, r)
<1> DEFINE q == [k EXCEPT !.objs = k.objs \cup {"body"}]
<1>1. k.objs \cup {"body"} \in SUBSET {"status", "body", "task", "conn"}
  BY DEF Client
<1>2. Aside(k, q)
  BY <1>1, AsideFields
<1>3. d \in write_response(q, r)
  BY DEF asgi_send_response
<1> HIDE DEF q
<1>4. q \in Client
  BY <1>2 DEF Aside, SameRead
<1> QED
  BY <1>2, <1>3, <1>4, WriteResponseOutcome, AsideReplied

\* The application suspended before it answered r.
Suspends(k, d, r) ==
  /\ SameRead(k, d)
  /\ d.handle = k.handle /\ d.write = k.write /\ d.wire = k.wire
  /\ d.waiting = k.waiting \cup {r} /\ d.read_armed = k.read_armed
  /\ d.keep_alive = k.keep_alive

\* asgi_dispatch answers once or leaves a suspended application that will.
LEMMA AsgiOutcome ==
  ASSUME NEW k \in Client, NEW r \in Nat, NEW d \in asgi_dispatch(k, r)
  PROVE  Replied(k, d, r) \/ Suspends(k, d, r)
<1>1. CASE d \in asgi_send_response(k, r)
  BY <1>1, AsgiSendOutcome
<1>2. CASE d \in send_500(k, r)
  BY <1>2, Send500Outcome
<1>3. CASE d \in {[e EXCEPT !.objs = @ \cup {"task"}, !.lingering = @ \cup {r}] :
                    e \in asgi_send_response(k, r)}
  <2>1. PICK e \in asgi_send_response(k, r) :
          d = [e EXCEPT !.objs = e.objs \cup {"task"}, !.lingering = e.lingering \cup {r}]
    BY <1>3
  <2>2. Replied(k, e, r)
    BY AsgiSendOutcome
  <2> DEFINE s == e.objs \cup {"task"}
             L == e.lingering \cup {r}
  <2>3. e \in Client
    BY <2>2 DEF Replied, SameRead
  <2>4. /\ s \in SUBSET {"status", "body", "task", "conn"} /\ L \in SUBSET Nat
        /\ "body" \in e.objs => "body" \in s
    BY <2>3 DEF Client
  <2>5. d = [e EXCEPT !.objs = s, !.lingering = L]
    BY <2>1
  <2> HIDE DEF s, L
  <2>6. d \in Client
    BY <2>3, <2>4, <2>5 DEF Client
  <2>7. /\ SameBuffers(e, d) /\ d.last_len = e.last_len /\ d.consumed = e.consumed
        /\ d.served = e.served
        /\ d.in_flight = e.in_flight /\ d.writable = e.writable
        /\ d.tls_hs_done = e.tls_hs_done /\ d.tls_broken = e.tls_broken
    BY <2>3, <2>5 DEF Client, SameBuffers
  <2>8. /\ d.waiting = e.waiting /\ d.read_armed = e.read_armed
        /\ d.keep_alive = e.keep_alive /\ d.objs = s /\ d.handle = e.handle
        /\ d.write = e.write /\ d.wire = e.wire /\ d.pins = e.pins /\ d.wblock = e.wblock
    BY <2>3, <2>5 DEF Client
  <2>9. Held(e) => Held(d)
    BY <2>4, <2>8 DEF Held
  <2>10. SameRead(k, d)
    BY <2>2, <2>6, <2>7 DEF Replied, SameRead, SameBuffers
  <2> QED
    BY <2>2, <2>8, <2>9, <2>10 DEF Replied
<1>4. CASE d = [k EXCEPT !.objs = k.objs \cup {"task"}, !.waiting = k.waiting \cup {r}]
  <2> DEFINE s == k.objs \cup {"task"}
             w == k.waiting \cup {r}
  <2>1. s \in SUBSET {"status", "body", "task", "conn"} /\ w \in SUBSET Nat
    BY DEF Client
  <2>2. d = [k EXCEPT !.objs = s, !.waiting = w]
    BY <1>4
  <2> HIDE DEF s, w
  <2>3. d \in Client
    BY <2>1, <2>2 DEF Client
  <2>4. /\ SameBuffers(k, d) /\ d.last_len = k.last_len /\ d.consumed = k.consumed
        /\ d.served = k.served
        /\ d.in_flight = k.in_flight /\ d.writable = k.writable
        /\ d.tls_hs_done = k.tls_hs_done /\ d.tls_broken = k.tls_broken
    BY <2>2 DEF Client, SameBuffers
  <2>5. /\ d.waiting = w /\ d.read_armed = k.read_armed /\ d.keep_alive = k.keep_alive
        /\ d.handle = k.handle /\ d.write = k.write /\ d.wire = k.wire
    BY <2>2 DEF Client
  <2> QED
    BY <2>3, <2>4, <2>5 DEF Suspends, SameRead, w
<1>5. \/ d \in asgi_send_response(k, r) \/ d \in send_500(k, r)
      \/ d \in {[e EXCEPT !.objs = @ \cup {"task"}, !.lingering = @ \cup {r}] :
                  e \in asgi_send_response(k, r)}
      \/ d = [k EXCEPT !.objs = k.objs \cup {"task"}, !.waiting = k.waiting \cup {r}]
  BY DEF asgi_dispatch
<1> QED
  BY <1>1, <1>2, <1>3, <1>4, <1>5

\* A stream that is a pipeline, of which n bytes have been received.
Received(n) ==
  /\ stream \in Seq(Byte) /\ Pipeline(stream)
  /\ n \in 0..Len(stream)

\* The views of the buffers are those of the fields they are made of.
LEMMA SameReadViews ==
  ASSUME NEW k, NEW d, SameRead(k, d)
  PROVE  /\ client_buffered(d) = client_buffered(k) /\ FrontByte(d) = FrontByte(k)
         /\ \A p, n : InPlace(k, p, n) => InPlace(d, p, n)
         /\ \A n : Contents(k, n) /\ k.handle = "open" => Contents(d, n)
<1>1. client_buffered(d) = client_buffered(k) /\ FrontByte(d) = FrontByte(k)
  BY DEF SameRead, SameBuffers, client_buffered, FrontByte
<1>2. \A p, n : InPlace(k, p, n) => InPlace(d, p, n)
  BY <1>1 DEF SameRead, SameBuffers, InPlace
<1>3. \A n : Contents(k, n) /\ k.handle = "open" => Contents(d, n)
  BY <1>2 DEF SameRead, Contents
<1> QED
  BY <1>1, <1>2, <1>3

\* One more answer, of the next request, keeps them in order.
LEMMA NextReply ==
  ASSUME NEW w \in Seq(Nat), NEW m \in Nat, Len(w) = m, \A i \in DOMAIN w : w[i] = i
  PROVE  /\ Len(w \o <<m + 1>>) = m + 1
         /\ \A i \in DOMAIN (w \o <<m + 1>>) : (w \o <<m + 1>>)[i] = i
OBVIOUS

\* Answering the request in flight keeps the invariant.
LEMMA ReplyBase ==
  ASSUME NEW k \in Client, NEW n, NEW d, Sound(k, n), Ready(k), k.in_flight,
         Replied(k, d, k.served + 1)
  PROVE  Base(d, n) /\ Pending(d) /\ Armed(d)
<1>1. SameRead(k, d) /\ Live(k)
  BY DEF Replied, Ready, Live
<1>2. /\ k.wire \in Seq(Nat) /\ k.served \in Nat /\ Len(k.wire) = k.served
      /\ \A i \in DOMAIN k.wire : k.wire[i] = i
  BY <1>1 DEF Client, Sound, Replying, Ready
<1>3. /\ Len(k.wire \o <<k.served + 1>>) = k.served + 1
      /\ \A i \in DOMAIN (k.wire \o <<k.served + 1>>) : (k.wire \o <<k.served + 1>>)[i] = i
  BY <1>2, NextReply
<1>4. client_buffered(d) = client_buffered(k) /\ FrontByte(d) = FrontByte(k) /\ Contents(d, n)
  BY <1>1, SameReadViews DEF Sound, Ready
<1>5. \/ k.writable /\ d.handle = "open" /\ d.write = "response"
         /\ d.wire = k.wire \o <<k.served + 1>> /\ Held(d)
      \/ ~k.writable /\ d.handle = "open" /\ d.write = "idle" /\ d.wire = k.wire
      \/ Fault("nomem") /\ d.handle = "closing" /\ d.write = "idle" /\ d.wire = k.wire
  BY DEF Replied
<1>6. d.in_flight /\ d.served = k.served /\ d.writable = k.writable
  BY <1>1 DEF SameRead
<1>7. Broken(d)
  BY <1>1 DEF Sound, Broken, Replied, SameRead, Live
<1>8. Begun(d)
  BY <1>1, <1>4 DEF Sound, Begun, SameRead, SameBuffers, Live
<1>9. Fresh(d) /\ Pending(d) /\ Armed(d)
  BY <1>6 DEF Fresh, Pending, Armed
<1>10. Replying(d)
  BY <1>1, <1>2, <1>3, <1>5, <1>6 DEF Sound, Replying, Replied, Live
<1>11. Held(d)
  BY <1>5 DEF Held
<1>12. Owned(d)
  BY <1>5, <1>6 DEF Owned, Live
<1>13. Ending(d)
  BY <1>5, <1>6 DEF Sound, Ending, Cause
<1> QED
  BY <1>4, <1>7, <1>8, <1>9, <1>10, <1>11, <1>12, <1>13 DEF Base, Sound

\* So does suspending before an answer was sent.
LEMMA SuspendBase ==
  ASSUME NEW k \in Client, NEW n, NEW d, Sound(k, n), Ready(k), k.in_flight, k.waiting = {},
         Suspends(k, d, k.served + 1)
  PROVE  Base(d, n) /\ Pending(d) /\ Armed(d)
<1>1. SameRead(k, d) /\ Live(k) /\ Live(d)
  BY DEF Suspends, Ready, Live
<1>2. client_buffered(d) = client_buffered(k) /\ FrontByte(d) = FrontByte(k) /\ Contents(d, n)
  BY <1>1, SameReadViews DEF Sound, Ready
<1>3. d.in_flight /\ d.served = k.served /\ d.writable = k.writable
  BY <1>1 DEF SameRead
<1>4. Broken(d) /\ Begun(d)
  BY <1>1, <1>2 DEF Sound, Broken, Begun, Suspends, SameRead, SameBuffers
<1>5. Fresh(d) /\ Pending(d) /\ Armed(d)
  BY <1>3 DEF Fresh, Pending, Armed
<1>6. d.handle = "open" /\ d.write = "idle" /\ d.wire = k.wire /\ d.waiting = {k.served + 1}
  BY DEF Suspends, Ready
<1>7. Replying(d) /\ Held(d) /\ Owned(d) /\ Ending(d)
  BY <1>1, <1>3, <1>6 DEF Sound, Replying, Held, Owned, Ending, Ready
<1> QED
  BY <1>2, <1>4, <1>5, <1>7 DEF Base, Sound

-----------------------------------------------------------------------------
(* Ending *)

\* The connection was closed, or its last write is outstanding.
Ends(k, d) ==
  /\ SameRead(k, d) /\ d.keep_alive = k.keep_alive
  /\ ~Fault("nomem") => d.objs \subseteq {"conn"}
  /\ \A i \in DOMAIN d.wire : d.wire[i] = i
  /\ \/ d.handle = "open" /\ d.write = "final" /\ d.alert /\ Held(d)
     \/ /\ d.handle = "closing" /\ d.write = "idle"
        /\ k.tls /\ ~k.tls_broken /\ k.in_flight
             => d.alert \/ peer # "open" \/ ~k.writable \/ Fault("nomem")

\* An end for a reason keeps the invariant.
LEMMA EndBase ==
  ASSUME NEW k, NEW n, NEW d, Ends(k, d), Contents(k, n), k.handle = "open",
         ~k.writable => peer = "reset", Cause(k)
  PROVE  Base(d, n) /\ Pending(d) /\ Armed(d) /\ ~Live(d)
<1>1. SameRead(k, d) /\ ~Live(d)
  BY DEF Ends, Live
<1>2. client_buffered(d) = client_buffered(k) /\ FrontByte(d) = FrontByte(k) /\ Contents(d, n)
  BY <1>1, SameReadViews
<1>3. Cause(d)
  BY <1>1, <1>2 DEF Cause, Ends, SameRead
<1>4. Broken(d) /\ Begun(d) /\ Fresh(d) /\ Owned(d) /\ Pending(d) /\ Armed(d)
  BY <1>1 DEF Broken, Begun, Fresh, Owned, Pending, Armed
<1>5. Replying(d) /\ Held(d)
  BY <1>1 DEF Ends, Replying, Held
<1>6. Ending(d)
  BY <1>1, <1>3 DEF Ends, Ending, SameRead, SameBuffers
<1> QED
  BY <1>1, <1>2, <1>4, <1>5, <1>6 DEF Base, Sound

\* tls_send_final, or the close in its place.
LEMMA FinalOutcome ==
  ASSUME NEW k \in Client, NEW rs \in Seq(Nat), NEW d \in FinalOrClose(k, rs), Ready(k)
  PROVE  /\ SameRead(k, d) /\ d.keep_alive = k.keep_alive /\ d.objs = k.objs
         /\ d.waiting = k.waiting
         /\ \/ /\ d.handle = "open" /\ d.write = "final" /\ d.wire = k.wire \o rs
               /\ d.alert /\ Held(d)
            \/ /\ d.handle = "closing" /\ d.write = "idle" /\ d.wire = k.wire
               /\ ~k.writable \/ Fault("nomem")
<1> DEFINE quiet == [k EXCEPT !.read_armed = FALSE]
           held  == [quiet EXCEPT !.wblock = TRUE]
           sent  == uv_write(held, "final", rs)
           last  == [sent EXCEPT !.alert = TRUE]
<1>1. quiet \in Client /\ held \in Client
  BY DEF Client
<1>2. /\ SameRead(k, quiet) /\ quiet.keep_alive = k.keep_alive /\ quiet.objs = k.objs
      /\ quiet.handle = "open" /\ quiet.write = "idle" /\ quiet.wire = k.wire
      /\ quiet.waiting = k.waiting
  <2>1. SameRead(k, quiet)
    BY <1>1 DEF Client, SameRead, SameBuffers
  <2>2. /\ quiet.keep_alive = k.keep_alive /\ quiet.objs = k.objs
        /\ quiet.handle = "open" /\ quiet.write = "idle" /\ quiet.wire = k.wire
      /\ quiet.waiting = k.waiting
    BY <1>1 DEF Client, Ready
  <2> QED BY <2>1, <2>2
<1>3. /\ SameRead(k, held) /\ held.keep_alive = k.keep_alive /\ held.objs = k.objs
      /\ held.handle = "open" /\ held.write = "idle" /\ held.wire = k.wire
      /\ held.waiting = k.waiting /\ held.wblock
  <2>1. SameRead(k, held)
    BY <1>1 DEF Client, SameRead, SameBuffers
  <2>2. /\ held.keep_alive = k.keep_alive /\ held.objs = k.objs
        /\ held.handle = "open" /\ held.write = "idle" /\ held.wire = k.wire
      /\ held.waiting = k.waiting /\ held.wblock
    BY <1>1 DEF Client, Ready
  <2> QED BY <2>1, <2>2
<1>4. \/ d = last /\ k.writable
      \/ d = uv_close(held) /\ (~k.writable \/ Fault("nomem"))
      \/ d = uv_close(quiet) /\ Fault("nomem")
  BY DEF FinalOrClose, CanWrite, Ready
<1> HIDE DEF quiet, held
<1>5. ASSUME NEW q \in Client, SameRead(k, q), q.keep_alive = k.keep_alive, q.objs = k.objs,
             q.handle = "open", q.write = "idle", q.wire = k.wire,
             q.waiting = k.waiting, d = uv_close(q)
      PROVE  /\ SameRead(k, d) /\ d.keep_alive = k.keep_alive /\ d.objs = k.objs
             /\ d.handle = "closing" /\ d.write = "idle" /\ d.wire = k.wire
             /\ d.waiting = k.waiting
  BY <1>5, CloseOutcome DEF SameRead, SameBuffers
<1>6. CASE d = last /\ k.writable
  <2>1. "final" \in {"idle", "response", "final"} /\ Ready(held) /\ held.writable
    BY <1>3, <1>6 DEF Ready, SameRead
  <2>2. /\ SameRead(held, sent) /\ sent.keep_alive = held.keep_alive
        /\ sent.objs = held.objs /\ sent.waiting = held.waiting
        /\ sent.handle = "open" /\ sent.write = "final" /\ sent.wire = held.wire \o rs
        /\ held.tls /\ held.wblock => Held(sent)
        /\ ~held.tls => Held(sent)
    BY <1>1, <2>1, WriteOutcome
  <2>3. sent \in Client
    BY <2>2 DEF SameRead
  <2> HIDE DEF sent
  <2>4. last \in Client
    BY <2>3 DEF Client
  <2>5. /\ SameBuffers(sent, last) /\ last.last_len = sent.last_len
        /\ last.consumed = sent.consumed /\ last.served = sent.served
        /\ last.in_flight = sent.in_flight /\ last.writable = sent.writable
        /\ last.tls_hs_done = sent.tls_hs_done /\ last.tls_broken = sent.tls_broken
    BY <2>3 DEF Client, SameBuffers
  <2>6. /\ last.keep_alive = sent.keep_alive /\ last.objs = sent.objs
        /\ last.handle = sent.handle /\ last.write = sent.write /\ last.wire = sent.wire
        /\ last.pins = sent.pins /\ last.wblock = sent.wblock /\ last.alert
        /\ last.waiting = sent.waiting
    BY <2>3 DEF Client
  <2>7. Held(sent) => Held(last)
    BY <2>6 DEF Held
  <2> HIDE DEF last
  <2>8. SameRead(k, last)
    BY <1>3, <2>2, <2>4, <2>5 DEF SameRead, SameBuffers
  <2> QED
    BY <1>3, <1>6, <2>2, <2>6, <2>7, <2>8
<1> QED
  BY <1>1, <1>2, <1>3, <1>4, <1>5, <1>6

\* A malformed request, answered 400 as the next reply, ends the connection.
LEMMA BadRequestBase ==
  ASSUME NEW k \in Client, NEW n, Sound(k, n), Ready(k), ~k.in_flight,
         client_buffered(k) > 0, FrontByte(k).bad, FrontByte(k).req = k.served + 1,
         Complete(k.served + 1, n), NEW d \in bad_request(k)
  PROVE  Base(d, n) /\ Pending(d) /\ Armed(d) /\ ~Live(d) /\ Answers(k, d, n)
<1>1. /\ k.wire \in Seq(Nat) /\ k.served \in Nat /\ Len(k.wire) = k.served
      /\ \A i \in DOMAIN k.wire : k.wire[i] = i
  BY DEF Client, Sound, Replying, Ready, Live
<1>2. PICK rs \in Seq(Nat) : rs = <<k.served + 1>>
  <2>1. <<k.served + 1>> \in Seq(Nat)
    BY <1>1
  <2> QED BY <2>1
<1>3. \A i \in DOMAIN (k.wire \o rs) : (k.wire \o rs)[i] = i
  BY <1>1, <1>2, NextReply
<1>4. Cause(k) /\ Contents(k, n) /\ k.handle = "open" /\ (~k.writable => peer = "reset")
      /\ k.objs \subseteq {"conn"}
  BY DEF Sound, Cause, Ending, Ready, Fresh, Live
<1>5. Ends(k, d) /\ d.waiting = k.waiting /\ d.wire \in {k.wire, k.wire \o rs}
  <2>1. CASE d \in FinalOrClose(k, rs)
    <3>1. /\ SameRead(k, d) /\ d.keep_alive = k.keep_alive /\ d.objs = k.objs
          /\ d.waiting = k.waiting /\ d.wire \in {k.wire, k.wire \o rs}
          /\ \/ d.handle = "open" /\ d.write = "final" /\ d.alert /\ Held(d)
             \/ d.handle = "closing" /\ d.write = "idle"
      BY <2>1, FinalOutcome
    <3>2. \A i \in DOMAIN d.wire : d.wire[i] = i
      BY <1>1, <1>3, <3>1
    <3> QED
      BY <1>4, <3>1, <3>2 DEF Ends
  <2>2. CASE d = uv_close(k)
    BY ZenonT(40), <1>1, <1>4, <2>2, CloseOutcome DEF Ends, Ready
  <2>3. CASE d = uv_close(uv_write(k, "idle", rs))
    <3> DEFINE q == uv_write(k, "idle", rs)
    <3>1. "idle" \in {"idle", "response", "final"}
      OBVIOUS
    <3>2. /\ SameRead(k, q) /\ q.keep_alive = k.keep_alive /\ q.objs = k.objs
          /\ q.handle = "open" /\ q.write = "idle" /\ q.wire \in {k.wire, k.wire \o rs}
          /\ q.waiting = k.waiting
      BY <3>1, WriteOutcome
    <3> HIDE DEF q
    <3>3. q \in Client
      BY <3>2 DEF SameRead
    <3>4. /\ SameRead(q, d) /\ d.keep_alive = q.keep_alive /\ d.objs = q.objs
          /\ d.write = q.write /\ d.wire = q.wire /\ d.handle = "closing"
          /\ d.waiting = q.waiting
      BY <2>3, <3>2, <3>3, CloseOutcome DEF q
    <3>5. SameRead(k, d)
      BY <3>2, <3>4 DEF SameRead, SameBuffers
    <3>6. \A i \in DOMAIN d.wire : d.wire[i] = i
      BY <1>1, <1>3, <3>2, <3>4
    <3> QED
      BY <1>4, <3>2, <3>4, <3>5, <3>6 DEF Ends
  <2> QED
    BY <1>2, <2>1, <2>2, <2>3 DEF bad_request
<1>6. Answers(k, d, n)
  <2>1. k.served + 1 \in Nat
    BY <1>1
  <2>2. \A r \in d.waiting : r \in k.waiting
    BY <1>5
  <2>3. d.wire = k.wire \/ d.wire = k.wire \o <<k.served + 1>>
    BY <1>2, <1>5
  <2> QED BY <1>4, <2>1, <2>2, <2>3 DEF Answers
<1> QED
  BY <1>4, <1>5, <1>6, EndBase

-----------------------------------------------------------------------------
(* Dispatch *)

\* Everything but where the bytes are, and whether more are read.
SameRest(k, d) ==
  /\ d \in Client
  /\ d.handle = k.handle /\ d.write = k.write /\ d.wire = k.wire /\ d.alert = k.alert
  /\ d.waiting = k.waiting /\ d.keep_alive = k.keep_alive /\ d.writable = k.writable
  /\ d.objs = k.objs /\ d.pins = k.pins /\ d.wblock = k.wblock
  /\ d.in_flight = k.in_flight /\ d.served = k.served
  /\ d.tls = k.tls /\ d.tls_broken = k.tls_broken

\* What SameRest leaves to show when bytes move.
LEMMA SoundFrom ==
  ASSUME NEW k, NEW d, NEW n, NEW m, Sound(k, n), Live(k), ~k.tls_broken, SameRest(k, d),
         Contents(d, m), Begun(d), Fresh(d)
  PROVE  Sound(d, m) /\ Live(d) /\ (Owned(k) => Owned(d))
<1>1. Live(d) /\ Broken(d)
  BY DEF Live, SameRest, Broken
<1>2. Replying(d)
  BY <1>1 DEF Sound, Replying, SameRest
<1>3. Held(d)
  BY DEF Sound, Held, SameRest
<1>4. Ending(d)
  BY <1>1 DEF Sound, Ending, Live, SameRest
<1>5. Owned(k) => Owned(d)
  BY <1>1 DEF Owned, SameRest
<1> QED
  BY <1>1, <1>2, <1>3, <1>4, <1>5 DEF Sound

\* A connection that is open and not broken holds bytes of the stream: the
\* first of them, with none in flight, starts the request to be answered next.
LEMMA FrontLemma ==
  ASSUME NEW k, NEW n, Typed(k), Received(n), Contents(k, n), k.handle = "open",
         ~k.tls_broken, client_buffered(k) > 0
  PROVE  LET p == BytesOf(k.served)
         IN  /\ p \in Nat /\ p < Len(stream) /\ FrontByte(k) = stream[p + 1]
             /\ FrontByte(k) \in Byte
             /\ FrontByte(k).at = 1 /\ FrontByte(k).req = k.served + 1
             /\ Boundary(p, k.served)
<1> DEFINE p == BytesOf(k.served)
<1>1. Boundary(p, k.served) /\ InPlace(k, p, n)
  BY DEF Contents
<1>2. p \in Nat /\ Len(stream) \in Nat /\ n \in Nat /\ n <= Len(stream)
  BY <1>1, ByteFields DEF Boundary, Received
<1> HIDE DEF p
<1>3. client_buffered(k) \in Nat /\ Len(k.spill) \in Nat /\ k.read_off \in Nat
  BY WindowType, ClientFields DEF Typed
<1>4. p + client_buffered(k) + Len(k.spill) = n
  BY <1>1 DEF InPlace
<1>5. p < Len(stream)
  BY <1>2, <1>3, <1>4
<1>6. FrontByte(k) = stream[p + 1]
  <2>1. 1 \in 1..client_buffered(k)
    BY <1>3
  <2> QED BY <1>1, <2>1 DEF InPlace, FrontByte
<1>7. FrontByte(k) \in Byte
  BY FrontByteType
<1>8. stream[p + 1].at = 1 /\ stream[p + 1].req = k.served + 1
  BY <1>1, <1>5 DEF Boundary
<1> QED
  BY <1>1, <1>2, <1>5, <1>6, <1>7, <1>8 DEF p

\* The request at the front can be answered once the parser has what it
\* refuses it for, or all of it is there.
LEMMA FrontComplete ==
  ASSUME NEW k, NEW n, Typed(k), Received(n), Contents(k, n), k.handle = "open",
         ~k.tls_broken, client_buffered(k) > 0,
         NEW j \in Nat,
         j = IF FrontByte(k).bad THEN FrontByte(k).hdr ELSE Size(FrontByte(k)),
         j <= client_buffered(k)
  PROVE  Complete(k.served + 1, n)
<1> DEFINE p == BytesOf(k.served)
<1>1. /\ p \in Nat /\ p < Len(stream) /\ FrontByte(k) = stream[p + 1]
      /\ FrontByte(k) \in Byte /\ Boundary(p, k.served)
  BY FrontLemma
<1>2. p + client_buffered(k) + Len(k.spill) = n
  BY DEF Contents, InPlace
<1> HIDE DEF p
<1>3. /\ client_buffered(k) \in Nat /\ Len(k.spill) \in Nat /\ k.served \in Nat
      /\ n \in Nat /\ n <= Len(stream) /\ Len(stream) \in Nat
      /\ stream \in Seq(Byte) /\ Pipeline(stream)
  <2>1. client_buffered(k) \in Nat /\ Len(k.spill) \in Nat
    BY WindowType, ClientFields DEF Typed
  <2>2. k.served \in Nat
    BY DEF Typed, Client
  <2>3. stream \in Seq(Byte) /\ Pipeline(stream) /\ n \in 0..Len(stream)
    BY DEF Received
  <2>4. Len(stream) \in Nat
    BY <2>3
  <2>5. n \in Nat /\ n <= Len(stream)
    BY <2>3, <2>4
  <2> QED BY <2>1, <2>2, <2>3, <2>4, <2>5
<1> DEFINE b == stream[p + 1]
<1>4. /\ b.hdr \in Nat /\ b.hdr >= 1 /\ b.body \in Nat
      /\ j = IF b.bad THEN b.hdr ELSE Size(b)
  BY <1>1 DEF Byte
<1>5. j \in 1..Size(b) /\ p + j \in 1..n /\ p + j <= Len(stream)
  <2> DEFINE size == Size(b)
  <2>1. size = b.hdr + b.body
    BY DEF Size
  <2>2. j = b.hdr \/ j = size
    BY <1>4
  <2> HIDE DEF b, size
  <2>3. size \in Nat /\ 1 <= j /\ j <= size
    BY <1>4, <2>1, <2>2
  <2>4. p + j <= n /\ 1 <= p + j /\ p + j \in Nat
    BY SMTT(30), <1>1, <1>2, <1>3, <2>3
  <2>5. j \in 1..size
    BY <2>3
  <2>6. p + j \in 1..n /\ p + j <= Len(stream)
    BY <1>3, <2>4
  <2> QED BY <2>5, <2>6 DEF size
<1>6. stream[p + j].req = k.served + 1 /\ Completes(stream[p + j])
  <2>1. PICK x \in Nat, m \in Nat : x = p /\ m = k.served
    BY <1>1, <1>3
  <2>2. Boundary(x, m) /\ x < Len(stream)
    BY <1>1, <2>1
  <2>3. PICK i \in 1..Size(stream[x + 1]) : i = j
    BY <1>5, <2>1
  <2>4. /\ x + i <= Len(stream)
        /\ i = IF stream[x + 1].bad THEN stream[x + 1].hdr ELSE Size(stream[x + 1])
    BY <1>4, <1>5, <2>1, <2>3
  <2>5. stream[x + i].req = m + 1 /\ Completes(stream[x + i])
    BY <1>3, <2>2, <2>4, CompletingByte
  <2> QED BY <2>1, <2>3, <2>5
<1> QED
  BY <1>5, <1>6 DEF Complete

\* http_dispatch: the request waits for more bytes, is in flight with someone
\* to answer it, or is refused.
LEMMA DispatchBase ==
  ASSUME NEW k, NEW n, Typed(k), Received(n), Sound(k, n), Ready(k), ~k.in_flight,
         k.waiting = {}, client_buffered(k) > 0, k.tls => k.tls_hs_done,
         NEW d \in http_dispatch(k)
  PROVE  /\ Base(d, n) /\ Pending(d) /\ Answers(k, d, n)
         /\ Parse(k) = "bad" => ~Live(d)
         /\ Parse(k) # "bad" => d.read_armed = k.read_armed /\ ~d.tls_broken
<1> DEFINE b      == FrontByte(k)
           need   == b.hdr + b.body
           len    == client_buffered(k)
           short  == [k EXCEPT !.last_len = len]
           parsed == [k EXCEPT !.consumed = need, !.keep_alive = b.keep]
           tied   == k.objs \cup {"conn"}
           begun  == [parsed EXCEPT !.in_flight = TRUE, !.objs = tied]
<1>1. k \in Client /\ Live(k) /\ k.handle = "open" /\ k.write = "idle"
  BY DEF Typed, Ready, Live
<1>2. ~k.tls_broken
  BY <1>1 DEF Sound, Broken
<1>3. /\ b \in Byte /\ b.at = 1 /\ b.req = k.served + 1
  BY <1>1, <1>2, FrontLemma DEF Sound
<1>4. /\ b.hdr \in Nat /\ b.body \in Nat /\ b.keep \in BOOLEAN /\ b.bad \in BOOLEAN
      /\ b.req \in Nat /\ need = Size(b) /\ need \in Nat /\ len \in Nat
  BY <1>3, WindowType DEF Byte, Size
<1>5. k.last_len \in Nat /\ k.last_len < b.hdr
  BY <1>1 DEF Sound, Fresh, Client
<1>6. Parse(k) = IF len < b.hdr THEN "partial" ELSE IF b.bad THEN "bad" ELSE "ok"
  BY <1>3, <1>4, <1>5 DEF Parse
<1>7. \/ Parse(k) = "partial" /\ len < b.hdr /\ d = short
      \/ Parse(k) = "bad" /\ b.bad /\ ~(len < b.hdr) /\ d \in bad_request(k)
      \/ Parse(k) = "ok" /\ len < need /\ d = parsed
      \/ /\ Parse(k) = "ok" /\ ~b.bad /\ need <= len
         /\ d \in asgi_dispatch(begun, b.req) \/ d \in wsgi_call_application(begun, b.req)
  <2>1. BodyComplete(k) <=> need <= len
    BY <1>4 DEF BodyComplete
  <2>2. begun = [parsed EXCEPT !.in_flight = TRUE, !.objs = parsed.objs \cup {"conn"}]
    <3>1. parsed.objs = k.objs
      BY <1>1 DEF Client
    <3> QED BY <3>1
  <2>3. http_dispatch(k) =
          IF Parse(k) = "partial" THEN {short}
          ELSE IF Parse(k) = "bad" THEN bad_request(k)
          ELSE IF ~BodyComplete(k) THEN {parsed}
          ELSE IF env.asgi THEN asgi_dispatch(begun, b.req)
          ELSE wsgi_call_application(begun, b.req)
    BY <2>2 DEF http_dispatch
  <2> HIDE DEF begun, parsed, short
  <2>4. need \in Nat /\ len \in Nat /\ (~(need <= len) => len < need)
    BY <1>4
  <2> HIDE DEF need, len, b
  <2> QED BY <1>6, <2>1, <2>3, <2>4
<1> HIDE DEF need, len
<1>8. Contents(k, n) /\ Fresh(k)
  BY DEF Sound
<1>9. CASE Parse(k) = "partial" /\ len < b.hdr /\ d = short
  <2>1. d \in Client
    BY <1>1, <1>4, <1>9 DEF Client
  <2>2. /\ SameRest(k, d) /\ SameBuffers(k, d) /\ d.last_len = len
        /\ d.read_armed = k.read_armed
    <3>1. SameRest(k, d)
      BY <1>1, <1>9, <2>1, ZenonT(40) DEF Client, SameRest
    <3>2. SameBuffers(k, d)
      BY <1>1, <1>9, <2>1 DEF Client, SameBuffers
    <3>3. d.last_len = len /\ d.read_armed = k.read_armed
      BY <1>1, <1>9, <2>1 DEF Client
    <3> QED BY <3>1, <3>2, <3>3
  <2>3. client_buffered(d) = len /\ FrontByte(d) = b
    BY <2>2 DEF SameBuffers, client_buffered, FrontByte, len
  <2>4. Contents(d, n)
    BY <1>8, <2>2 DEF Contents, InPlace, SameBuffers, SameRest, client_buffered
  <2>5. Begun(d) /\ Fresh(d)
    BY <1>1, <1>8, <1>9, <2>2, <2>3 DEF Begun, Fresh, SameRest, SameBuffers, len
  <2>6. Sound(d, n) /\ Owned(d)
    BY <1>1, <1>2, <2>2, <2>4, <2>5, SoundFrom DEF Owned, SameRest
  <2>7. Pending(d)
    BY <1>4, <1>9, <2>3 DEF Pending, Size, need
  <2>8. Answers(k, d, n)
    BY <2>2 DEF Answers, SameRest
  <2> QED
    BY <1>2, <1>9, <2>2, <2>6, <2>7, <2>8 DEF Base, SameRest
<1>10. CASE Parse(k) = "bad" /\ b.bad /\ ~(len < b.hdr) /\ d \in bad_request(k)
  <2>1. b.hdr <= client_buffered(k)
    BY <1>4, <1>10 DEF len
  <2>2. Complete(k.served + 1, n)
    BY <1>1, <1>2, <1>4, <1>8, <1>10, <2>1, FrontComplete
  <2> QED
    BY <1>1, <1>3, <1>10, <2>2, BadRequestBase
<1>11. parsed \in Client
  BY <1>1, <1>4 DEF Client
<1>12. /\ SameBuffers(k, parsed) /\ parsed.last_len = k.last_len /\ parsed.consumed = need
       /\ parsed.served = k.served
       /\ parsed.in_flight = k.in_flight /\ parsed.writable = k.writable
       /\ parsed.tls_hs_done = k.tls_hs_done /\ parsed.tls_broken = k.tls_broken
  BY <1>1 DEF Client, SameBuffers
<1>13. /\ parsed.handle = k.handle /\ parsed.write = k.write /\ parsed.wire = k.wire
       /\ parsed.alert = k.alert /\ parsed.waiting = k.waiting
       /\ parsed.objs = k.objs /\ parsed.pins = k.pins /\ parsed.wblock = k.wblock
       /\ parsed.read_armed = k.read_armed
  BY <1>1 DEF Client
<1> HIDE DEF parsed
<1>14. client_buffered(parsed) = len /\ FrontByte(parsed) = b /\ Contents(parsed, n)
  <2>1. client_buffered(parsed) = len /\ FrontByte(parsed) = b
    BY <1>12 DEF SameBuffers, client_buffered, FrontByte, len
  <2> QED BY <1>8, <1>12, <1>13, <2>1 DEF Contents, InPlace, SameBuffers, client_buffered
<1>15. CASE Parse(k) = "ok" /\ len < need /\ d = parsed
  <2>1. Live(parsed) /\ Broken(parsed) /\ Begun(parsed) /\ Owned(parsed)
    BY <1>1, <1>2, <1>12, <1>13 DEF Live, Broken, Begun, Owned
  <2>2. Fresh(parsed)
    BY <1>1, <1>8, <1>12, <1>13, <1>14 DEF Fresh, SameBuffers, len
  <2>3. Replying(parsed)
    BY <1>1, <1>12, <1>13, <2>1 DEF Sound, Replying
  <2>4. Held(parsed) /\ Ending(parsed)
    BY <1>1, <1>12, <1>13 DEF Sound, Held, Ending
  <2>5. Pending(parsed)
    BY <1>4, <1>14, <1>15 DEF Pending
  <2>6. Answers(k, d, n)
    BY <1>13, <1>15 DEF Answers
  <2> QED
    BY <1>2, <1>12, <1>13, <1>14, <1>15, <2>6, <2>1, <2>2, <2>3, <2>4, <2>5 DEF Base, Sound
<1>16. CASE /\ Parse(k) = "ok" /\ ~b.bad /\ need <= len
            /\ d \in asgi_dispatch(begun, b.req) \/ d \in wsgi_call_application(begun, b.req)
  <2>1. tied \in SUBSET {"status", "body", "task", "conn"}
    BY <1>1 DEF Client
  <2> HIDE DEF tied
  <2>2. begun \in Client
    BY <1>11, <2>1 DEF Client
  <2>3. /\ SameBuffers(parsed, begun) /\ begun.consumed = need
        /\ begun.served = k.served /\ begun.in_flight /\ begun.writable = k.writable
        /\ begun.tls_hs_done = k.tls_hs_done /\ begun.tls_broken = k.tls_broken
    BY <1>11, <1>12 DEF Client, SameBuffers
  <2>4. /\ begun.handle = k.handle /\ begun.write = k.write /\ begun.wire = k.wire
        /\ begun.alert = k.alert /\ begun.waiting = k.waiting
        /\ begun.read_armed = k.read_armed
    BY <1>11, <1>13 DEF Client
  <2> HIDE DEF begun
  <2>5. client_buffered(begun) = len /\ FrontByte(begun) = b /\ Contents(begun, n)
    <3>1. SameBuffers(k, begun)
      BY <1>12, <2>3 DEF SameBuffers
    <3>2. client_buffered(begun) = len /\ FrontByte(begun) = b
      BY <3>1 DEF SameBuffers, client_buffered, FrontByte, len
    <3> QED BY <1>8, <2>3, <2>4, <3>1, <3>2 DEF Contents, InPlace, SameBuffers, client_buffered
  <2>6. Broken(begun) /\ Fresh(begun) /\ Live(begun)
    BY <1>1, <1>2, <2>3, <2>4 DEF Broken, Fresh, Live
  <2>7. Begun(begun)
    <3>1. k.spill # <<>> => Len(k.read_buf) = READ_BUF_SIZE
      <4>1. k.spill # <<>> => client_buffered(k) = READ_BUF_SIZE
        BY <1>1, <1>8 DEF Fresh
      <4>2. client_buffered(k) <= Len(k.read_buf) /\ Len(k.read_buf) <= READ_BUF_SIZE
            /\ Len(k.read_buf) \in Nat /\ client_buffered(k) \in Nat
        BY <1>1, WindowType, ClientFields DEF Typed, Fits
      <4> QED BY <4>1, <4>2, SizesAssumption
    <3>2. begun.spill = k.spill /\ begun.read_buf = k.read_buf /\ begun.tls = k.tls
      BY <1>12, <2>3 DEF SameBuffers
    <3> QED
      BY <1>4, <1>16, <2>3, <2>5, <3>1, <3>2 DEF Begun, len
  <2>8. Replying(begun)
    BY <1>1, <2>3, <2>4, <2>6 DEF Sound, Replying
  <2>9. Held(begun) /\ Ending(begun) /\ Ready(begun) /\ begun.waiting = {}
    BY <1>1, <2>3, <2>4 DEF Sound, Held, Ending, Ready
  <2>10. Sound(begun, n)
    BY <2>5, <2>6, <2>7, <2>8, <2>9 DEF Sound
  <2>11. /\ Replied(begun, d, begun.served + 1) \/ Suspends(begun, d, begun.served + 1)
    BY <1>3, <1>4, <1>16, <2>2, <2>3, AsgiOutcome, WsgiOutcome
  <2>12. Base(d, n) /\ Pending(d)
    BY <2>2, <2>3, <2>9, <2>10, <2>11, ReplyBase, SuspendBase
  <2>13. d.read_armed = k.read_armed /\ d.tls_broken = k.tls_broken
    BY <2>3, <2>4, <2>11 DEF Replied, Suspends, SameRead
  <2>14. Complete(k.served + 1, n)
    <3>1. need <= client_buffered(k)
      BY <1>16 DEF len
    <3> QED BY <1>1, <1>2, <1>4, <1>8, <1>16, <3>1, FrontComplete
  <2>15. k.served + 1 \in Nat
    BY <1>1 DEF Client
  <2>16. Answers(k, d, n)
    BY <1>1, <2>3, <2>4, <2>9, <2>11, <2>14, <2>15 DEF Answers, Replied, Suspends
  <2> QED
    BY <1>2, <1>16, <2>12, <2>13, <2>16
<1> QED
  BY <1>7, <1>9, <1>10, <1>15, <1>16

-----------------------------------------------------------------------------
(* Compaction and flow control *)

\* The same bytes, somewhere else in read_buf.
Repacked(k, q) ==
  /\ SameRest(k, q) /\ q.spill = k.spill /\ q.read_armed = k.read_armed
  /\ q.last_len = k.last_len /\ q.consumed = k.consumed /\ q.tls_hs_done = k.tls_hs_done
  /\ client_buffered(q) = client_buffered(k)
  /\ \A i \in 1..client_buffered(k) : q.read_buf[q.read_off + i] = k.read_buf[k.read_off + i]

\* The elements behind the first a of a sequence.
LEMMA TailAt ==
  ASSUME NEW S, NEW s \in Seq(S), NEW a \in Nat, a <= Len(s)
  PROVE  \A i \in 1..(Len(s) - a) : SubSeq(s, a + 1, Len(s))[i] = s[a + i]
OBVIOUS

\* client_compact moves the window and changes no byte of it.
LEMMA CompactRepacks ==
  ASSUME NEW k, Typed(k), NEW q, q = client_compact(k)
  PROVE  Repacked(k, q) /\ q.read_off = 0 /\ Len(q.read_buf) = client_buffered(k)
<1>1. k \in Client
  BY DEF Typed
<1>2. /\ k.read_buf \in Seq(Byte) /\ k.read_off \in Nat /\ Len(k.read_buf) \in Nat
      /\ k.read_off <= Len(k.read_buf)
  BY <1>1, ClientFields DEF Typed, Fits
<1>3. PICK w \in Seq(Byte) : w = Window(k) /\ Len(w) = client_buffered(k)
  BY WindowType
<1>4. \A i \in 1..client_buffered(k) : w[i] = k.read_buf[k.read_off + i]
  <2>1. \A i \in 1..(Len(k.read_buf) - k.read_off) :
          SubSeq(k.read_buf, k.read_off + 1, Len(k.read_buf))[i] = k.read_buf[k.read_off + i]
    BY <1>2, TailAt
  <2> QED BY <1>3, <2>1 DEF Window, client_buffered
<1>5. q = [k EXCEPT !.read_buf = w, !.read_off = 0]
  BY <1>3 DEF client_compact
<1>6. q \in Client
  BY CompactLemma DEF Moved, Typed
<1>7. q.read_buf = w /\ q.read_off = 0 /\ q.spill = k.spill /\ q.read_armed = k.read_armed
      /\ q.last_len = k.last_len /\ q.consumed = k.consumed /\ q.tls_hs_done = k.tls_hs_done
  BY <1>1, <1>5 DEF Client
<1>8. SameRest(k, q)
  BY <1>1, <1>5, <1>6 DEF Client, SameRest
<1>9. client_buffered(k) \in Nat
  BY WindowType
<1>10. client_buffered(q) = client_buffered(k)
  BY <1>3, <1>7, <1>9 DEF client_buffered
<1>11. \A i \in 1..client_buffered(k) : q.read_buf[q.read_off + i] = k.read_buf[k.read_off + i]
  BY <1>4, <1>7, <1>9
<1> QED
  BY <1>3, <1>7, <1>8, <1>10, <1>11 DEF Repacked

\* Repacking with no request in flight, or not at all, keeps the invariant.
LEMMA RepackedSound ==
  ASSUME NEW k, NEW n, NEW q, Typed(k), Sound(k, n), Live(k), ~k.tls_broken, ~k.in_flight,
         Repacked(k, q)
  PROVE  /\ Sound(q, n) /\ Live(q)
         /\ client_buffered(q) = client_buffered(k)
         /\ client_buffered(k) > 0 => FrontByte(q) = FrontByte(k)
         /\ Pending(k) => Pending(q)
         /\ Owned(q)
<1>1. client_buffered(k) \in Nat /\ client_buffered(q) = client_buffered(k)
  BY WindowType DEF Repacked
<1>2. client_buffered(k) > 0 => FrontByte(q) = FrontByte(k)
  <2>1. client_buffered(k) > 0 => 1 \in 1..client_buffered(k)
    BY <1>1
  <2> QED BY <2>1 DEF Repacked, FrontByte
<1>3. Contents(q, n)
  <2>1. Contents(k, n) /\ k.handle = "open"
    BY DEF Sound, Live
  <2>2. InPlace(k, BytesOf(k.served), n)
    BY <2>1 DEF Contents
  <2>3. InPlace(q, BytesOf(k.served), n)
    BY <1>1, <2>2 DEF InPlace, Repacked
  <2> QED
    BY <2>1, <2>3 DEF Contents, Repacked, SameRest
<1>4. Begun(q)
  BY DEF Begun, Repacked, SameRest
<1>5. Fresh(q)
  BY <1>1, <1>2 DEF Sound, Fresh, Repacked, SameRest
<1>6. Sound(q, n) /\ Live(q)
  BY <1>3, <1>4, <1>5, SoundFrom DEF Repacked
<1>7. Pending(k) => Pending(q)
  BY <1>1, <1>2 DEF Pending, Repacked, SameRest, Live
<1>8. Owned(q)
  BY DEF Owned, Repacked, SameRest
<1> QED
  BY <1>1, <1>2, <1>6, <1>7, <1>8

\* Switching reading on or off.
LEMMA ArmSound ==
  ASSUME NEW k \in Client, NEW n, Sound(k, n), ~k.tls_broken, NEW b \in BOOLEAN,
         NEW d, d = [k EXCEPT !.read_armed = b]
  PROVE  /\ Sound(d, n) /\ (Owned(k) => Owned(d)) /\ (Pending(k) => Pending(d))
         /\ SameRead(k, d) /\ SameRest(k, d) /\ d.read_armed = b
<1>1. d \in Client
  BY DEF Client
<1>2. SameRest(k, d) /\ d.read_armed = b
  BY <1>1 DEF Client, SameRest
<1>3. SameRead(k, d)
  BY <1>1 DEF Client, SameRead, SameBuffers
<1>4. client_buffered(d) = client_buffered(k) /\ FrontByte(d) = FrontByte(k)
  BY <1>3, SameReadViews
<1>5. Contents(d, n)
  BY <1>2, <1>3, SameReadViews DEF Sound, Contents, SameRest
<1>6. Broken(d) /\ Begun(d)
  BY <1>2, <1>3, <1>4 DEF Sound, Broken, Begun, Live, SameRead, SameRest, SameBuffers
<1>7. Fresh(d)
  BY <1>2, <1>3, <1>4 DEF Sound, Fresh, Live, SameRead, SameRest, SameBuffers
<1>8. Replying(d) /\ Held(d)
  BY <1>2 DEF Sound, Replying, Held, Live, SameRest
<1>9. Ending(d)
  BY <1>2, <1>4 DEF Sound, Ending, Cause, SameRest
<1>10. (Owned(k) => Owned(d)) /\ (Pending(k) => Pending(d))
  BY <1>2, <1>4 DEF Owned, Pending, Live, SameRest
<1> QED
  BY <1>2, <1>3, <1>5, <1>6, <1>7, <1>8, <1>9, <1>10 DEF Sound

\* tls_read_flow closes only under a request that cannot fit, and otherwise
\* leaves a connection with nothing in flight reading.
LEMMA TlsFlowBase ==
  ASSUME NEW k, NEW n, Typed(k), Base(k, n), Pending(k), Protocol(k), k.write # "final",
         ~k.tls_broken, NEW d, d = tls_read_flow(k)
  PROVE  Base(d, n) /\ Pending(d) /\ Armed(d)
<1> DEFINE q    == CompactUnlessInFlight(k)
           room == Len(q.read_buf) < READ_BUF_SIZE /\ q.spill = <<>>
           shut == [q EXCEPT !.read_armed = FALSE]
           flow == [q EXCEPT !.read_armed = room]
<1>1. CASE k.handle # "open"
  <2>1. d = k
    BY <1>1 DEF tls_read_flow
  <2> QED BY <1>1, <2>1 DEF Armed, Live
<1>2. CASE k.handle = "open"
  <2>1. Live(k) /\ Sound(k, n) /\ Owned(k) /\ k \in Client
    BY <1>2 DEF Live, Base, Typed
  <2>2. Typed(q) /\ q \in Client
    BY CompactUnlessLemma DEF Moved, Typed
  <2>3. \/ d = uv_close(shut) /\ Len(q.read_buf) >= READ_BUF_SIZE /\ ~q.in_flight
        \/ d = flow /\ ~(Len(q.read_buf) >= READ_BUF_SIZE /\ ~q.in_flight)
    BY <1>2 DEF tls_read_flow
  <2>4. room \in BOOLEAN
    OBVIOUS
  <2>5. Len(q.read_buf) \in Nat
    BY <2>2, ClientFields
  <2>6. /\ Sound(q, n) /\ Live(q) /\ Pending(q) /\ Owned(q) /\ ~q.tls_broken
        /\ q.in_flight = k.in_flight
        /\ ~q.in_flight => Len(q.read_buf) = client_buffered(q)
    <3>1. CASE k.in_flight
      <4>1. q = k
        BY <3>1 DEF CompactUnlessInFlight
      <4> QED BY <2>1, <3>1, <4>1
    <3>2. CASE ~k.in_flight
      <4>1. q = client_compact(k)
        BY <3>2 DEF CompactUnlessInFlight
      <4>2. Repacked(k, q) /\ Len(q.read_buf) = client_buffered(k)
        BY <4>1, CompactRepacks
      <4> HIDE DEF q
      <4>3. /\ Sound(q, n) /\ Live(q) /\ Pending(q) /\ Owned(q)
            /\ client_buffered(q) = client_buffered(k)
        BY <2>1, <3>2, <4>2, RepackedSound
      <4> QED BY <3>2, <4>2, <4>3 DEF Repacked, SameRest
    <3> QED BY <3>1, <3>2
  <2> HIDE DEF q
  <2>7. CASE d = uv_close(shut) /\ Len(q.read_buf) >= READ_BUF_SIZE /\ ~q.in_flight
    <3>1. FALSE \in BOOLEAN
      OBVIOUS
    <3>2. Sound(shut, n) /\ SameRead(q, shut) /\ SameRest(q, shut)
      <4> HIDE DEF shut
      <4> QED BY <2>2, <2>6, <3>1, ArmSound DEF shut
    <3> HIDE DEF shut
    <3>3. client_buffered(q) > 0 /\ Size(FrontByte(q)) > READ_BUF_SIZE
      <4>1. client_buffered(q) > 0
        BY <2>5, <2>6, <2>7, SizesAssumption
      <4>2. client_buffered(q) < Size(FrontByte(q))
        BY <2>6, <2>7, <4>1 DEF Pending
      <4>3. FrontByte(q) \in Byte
        BY <2>2, <4>1, FrontByteType
      <4>4. Size(FrontByte(q)) \in Nat
        BY <4>3 DEF Byte, Size
      <4> QED BY <2>5, <2>6, <2>7, <4>1, <4>2, <4>4, SizesAssumption
    <3>4. client_buffered(shut) = client_buffered(q) /\ FrontByte(shut) = FrontByte(q)
      BY <3>2, SameReadViews
    <3>5. Cause(shut)
      BY <3>3, <3>4 DEF Cause
    <3>6. /\ shut \in Client /\ shut.handle = "open" /\ shut.write = "idle"
          /\ ~shut.in_flight /\ shut.objs \subseteq {"conn"}
      <4>1. q.handle = "open" /\ q.objs \subseteq {"conn"}
        BY <2>6, <2>7 DEF Live, Sound, Fresh
      <4>2. k.write = "idle"
        BY <1>2, <2>6, <2>7 DEF Protocol
      <4>3. q.write = "idle"
        BY <4>2, CompactUnlessLemma DEF q, Moved, SameControl
      <4> QED BY <2>7, <3>2, <4>1, <4>3 DEF SameRest
    <3>7. Ends(shut, d)
      <4>1. \A i \in DOMAIN shut.wire : shut.wire[i] = i
        BY <3>2 DEF Sound, Replying
      <4>2. /\ SameRead(shut, d) /\ d.keep_alive = shut.keep_alive /\ d.objs = shut.objs
            /\ d.write = shut.write /\ d.wire = shut.wire /\ d.handle = "closing"
        BY <2>7, <3>6, CloseOutcome
      <4> QED BY <3>6, <4>1, <4>2 DEF Ends
    <3>8. Contents(shut, n) /\ (~shut.writable => peer = "reset")
      BY <3>2 DEF Sound, Ending
    <3> QED
      BY <3>5, <3>6, <3>7, <3>8, EndBase
  <2>8. CASE d = flow /\ ~(Len(q.read_buf) >= READ_BUF_SIZE /\ ~q.in_flight)
    <3>1. /\ Sound(flow, n) /\ Owned(flow) /\ Pending(flow) /\ SameRest(q, flow)
          /\ flow.read_armed = room
      <4> HIDE DEF flow, room
      <4> QED BY <2>2, <2>4, <2>6, ArmSound DEF flow
    <3>2. ~q.in_flight => room
      <4>1. ~q.in_flight => Len(q.read_buf) < READ_BUF_SIZE
        BY <2>5, <2>8, SizesAssumption
      <4>2. ~q.in_flight /\ q.spill # <<>> => client_buffered(q) = READ_BUF_SIZE
        BY <2>6 DEF Sound, Fresh
      <4> QED BY <2>5, <2>6, <4>1, <4>2, SizesAssumption
    <3> HIDE DEF flow, room
    <3> QED
      BY <2>8, <3>1, <3>2 DEF Base, Armed, SameRest
  <2> QED
    BY <2>3, <2>7, <2>8
<1> QED
  BY <1>1, <1>2

\* The tail of on_read: flow control of a connection that was reading.
LEMMA FlowBase ==
  ASSUME NEW k, NEW n, Typed(k), Base(k, n), Pending(k), Protocol(k), k.write # "final",
         ~k.tls_broken, k.read_armed, NEW d, d = FlowControl(k)
  PROVE  Base(d, n) /\ Pending(d) /\ Armed(d)
<1>1. CASE k.tls
  <2>1. d = tls_read_flow(k)
    BY <1>1 DEF FlowControl
  <2> QED BY <2>1, TlsFlowBase
<1>2. CASE ~k.tls
  <2>1. d = k \/ (d = [k EXCEPT !.read_armed = FALSE] /\ k.in_flight)
    BY <1>2 DEF FlowControl, StopIfFull
  <2>2. CASE d = k
    BY <2>2 DEF Armed
  <2>3. CASE d = [k EXCEPT !.read_armed = FALSE] /\ k.in_flight
    <3>1. FALSE \in BOOLEAN /\ k \in Client /\ Sound(k, n) /\ Owned(k)
      BY DEF Typed, Base
    <3>2. Sound(d, n) /\ Owned(d) /\ Pending(d) /\ SameRest(k, d)
      BY <2>3, <3>1, ArmSound
    <3> QED BY <2>3, <3>2 DEF Base, Armed, SameRest
  <2> QED BY <2>1, <2>2, <2>3
<1> QED
  BY <1>1, <1>2

\* What only moves bytes, and what only arms the read, answers nothing.
LEMMA SameRestSilent ==
  ASSUME NEW k, NEW d, SameRest(k, d)
  PROVE  Silent(k, d)
BY DEF SameRest, Silent

\* Nor does flow control, before a response or behind it.
LEMMA FlowSilent ==
  ASSUME NEW k, Typed(k), NEW d, d = FlowControl(k) \/ d = Rearmed(k)
  PROVE  Silent(k, d)
<1>1. k \in Client
  BY DEF Typed
<1>2. ASSUME NEW q \in Client, NEW b \in BOOLEAN
      PROVE  [q EXCEPT !.read_armed = b] \in Client /\ Silent(q, [q EXCEPT !.read_armed = b])
  BY <1>2 DEF Client, Silent
<1>3. CASE k.tls /\ k.handle = "open"
  <2> DEFINE q    == CompactUnlessInFlight(k)
             room == Len(q.read_buf) < READ_BUF_SIZE /\ q.spill = <<>>
             shut == [q EXCEPT !.read_armed = FALSE]
             flow == [q EXCEPT !.read_armed = room]
  <2>1. d = uv_close(shut) \/ d = flow
    BY <1>3 DEF tls_read_flow, FlowControl, Rearmed
  <2>2. q \in Client /\ Silent(k, q)
    <3>1. CASE k.in_flight
      BY <1>1, <3>1 DEF CompactUnlessInFlight, Silent
    <3>2. CASE ~k.in_flight
      BY <3>2, CompactRepacks, SameRestSilent DEF CompactUnlessInFlight, Repacked, SameRest
    <3> QED BY <3>1, <3>2
  <2>3. room \in BOOLEAN /\ FALSE \in BOOLEAN
    OBVIOUS
  <2> HIDE DEF q, room
  <2>4. shut \in Client /\ Silent(q, shut) /\ Silent(q, flow)
    BY <1>2, <2>2, <2>3
  <2> HIDE DEF shut, flow
  <2>5. CASE d = uv_close(shut)
    <3>1. d.wire = shut.wire /\ d.waiting = shut.waiting
      BY <2>4, <2>5, CloseOutcome
    <3> QED BY <1>3, <2>2, <2>4, <3>1 DEF Silent
  <2>6. CASE d = flow
    BY <2>2, <2>4, <2>6 DEF Silent
  <2> QED BY <2>1, <2>5, <2>6
<1>4. CASE k.tls /\ k.handle # "open"
  BY <1>4 DEF tls_read_flow, FlowControl, Rearmed, Silent
<1>5. CASE ~k.tls
  <2>1. PICK b \in BOOLEAN : b = (k.read_armed \/ ~k.in_flight)
    OBVIOUS
  <2>2. d = k \/ d = [k EXCEPT !.read_armed = FALSE] \/ d = [k EXCEPT !.read_armed = b]
    BY <1>5, <2>1 DEF FlowControl, StopIfFull, Rearmed
  <2>3. Silent(k, k) /\ FALSE \in BOOLEAN
    BY DEF Silent
  <2> QED BY <1>1, <1>2, <2>2, <2>3
<1> QED
  BY <1>3, <1>4, <1>5

\* Nor do the ends of a connection that on_read makes.
LEMMA ReadEndsSilent ==
  ASSUME NEW k \in Client, k.handle = "open", NEW d, d = tls_read_failed(k) \/ d = ReadError(k)
  PROVE  Silent(k, d)
<1> DEFINE bad   == [k EXCEPT !.tls_broken = TRUE]
           freed == [k EXCEPT !.objs = k.objs \ {"status", "body", "conn"}]
<1>1. CASE k.in_flight
  BY <1>1 DEF tls_read_failed, ReadError, Client, Silent
<1>2. CASE ~k.in_flight
  <2>1. d = uv_close(bad) \/ d = uv_close(freed)
    BY <1>2 DEF tls_read_failed, ReadError
  <2>2. /\ bad \in Client /\ bad.wire = k.wire /\ bad.waiting = k.waiting
        /\ freed \in Client /\ freed.wire = k.wire /\ freed.waiting = k.waiting
    BY DEF Client
  <2> HIDE DEF bad, freed
  <2>3. d.wire = k.wire /\ d.waiting = k.waiting
    BY <2>1, <2>2, CloseOutcome
  <2> QED BY <2>3 DEF Silent
<1> QED
  BY <1>1, <1>2

\* Dispatch and flow control behind new bytes keep the invariant.
LEMMA DispatchThenFlowBase ==
  ASSUME NEW k, NEW n, Typed(k), Received(n), Sound(k, n), Owned(k), Protocol(k), Live(k),
         k.read_armed, client_buffered(k) > 0, k.tls => k.tls_hs_done,
         NEW d \in DispatchThenFlow(k)
  PROVE  Base(d, n) /\ Pending(d) /\ Armed(d) /\ Answers(k, d, n)
<1>1. ~k.tls_broken
  BY DEF Sound, Broken
<1>2. CASE k.in_flight
  <2>1. d = FlowControl(k)
    BY <1>2 DEF DispatchThenFlow
  <2>2. Pending(k) /\ k.write # "final"
    BY <1>2 DEF Pending, Live
  <2>3. Answers(k, d, n)
    BY <2>1, FlowSilent, SilentAnswers
  <2> QED BY <1>1, <2>1, <2>2, <2>3, FlowBase DEF Base
<1>3. CASE ~k.in_flight
  <2>1. Resting(k)
    BY <1>3, IdleIsResting DEF Live
  <2>2. Ready(k) /\ k.waiting = {}
    BY <2>1 DEF Resting
  <2>3. CASE Parse(k) = "bad"
    <3>1. d \in http_dispatch(k)
      BY <1>3, <2>3 DEF DispatchThenFlow
    <3>2. Base(d, n) /\ Pending(d) /\ ~Live(d) /\ Answers(k, d, n)
      BY <1>3, <2>2, <2>3, <3>1, DispatchBase
    <3> QED BY <3>2 DEF Armed
  <2>4. CASE Parse(k) # "bad"
    <3>1. PICK e \in http_dispatch(k) : d = FlowControl(e)
      BY <1>3, <2>4 DEF DispatchThenFlow
    <3>2. Base(e, n) /\ Pending(e) /\ e.read_armed /\ ~e.tls_broken /\ Answers(k, e, n)
      BY <1>3, <2>2, <2>4, DispatchBase
    <3>3. Typed(e) /\ Dispatched(k, e)
      BY <2>4, DispatchLemma
    <3>4. Protocol(e) /\ e.write # "final"
      BY <2>1, <3>3 DEF Dispatched
    <3>5. Answers(k, d, n)
      BY <3>1, <3>2, <3>3, FlowSilent, SilentAnswers
    <3> QED BY <3>1, <3>2, <3>3, <3>4, <3>5, FlowBase
  <2> QED BY <2>3, <2>4
<1> QED
  BY <1>2, <1>3

-----------------------------------------------------------------------------
(* Bytes that arrive *)

\* The elements of two sequences put together.
LEMMA ConcatAt ==
  ASSUME NEW S, NEW a \in Seq(S), NEW b \in Seq(S)
  PROVE  /\ \A i \in 1..Len(a) : (a \o b)[i] = a[i]
         /\ \A i \in 1..Len(b) : (a \o b)[Len(a) + i] = b[i]
         /\ \A i \in (Len(a) + 1)..(Len(a) + Len(b)) : (a \o b)[i] = b[i - Len(a)]
OBVIOUS

\* The first elements of a sequence.
LEMMA HeadAt ==
  ASSUME NEW S, NEW s \in Seq(S), NEW t \in Nat, t <= Len(s)
  PROVE  /\ SubSeq(s, 1, t) \in Seq(S) /\ Len(SubSeq(s, 1, t)) = t
         /\ \A i \in 1..t : SubSeq(s, 1, t)[i] = s[i]
OBVIOUS

\* The next bytes of the stream are stored behind the ones held: a in the
\* buffer and, if that is then full, b in the spill.
Stored(k, a, b, d) ==
  /\ SameRest(k, d) /\ d.read_armed = k.read_armed
  /\ d.last_len = k.last_len /\ d.consumed = k.consumed /\ d.tls_hs_done = k.tls_hs_done
  /\ d.read_off = k.read_off /\ d.read_buf = k.read_buf \o a /\ d.spill = b
  /\ b # <<>> => Len(d.read_buf) = READ_BUF_SIZE /\ (~k.in_flight => k.read_off = 0)

\* a and b are what the stream has behind its first n bytes.
Arriving(n, a, b) ==
  /\ a \in Seq(Byte) /\ b \in Seq(Byte)
  /\ \A i \in 1..Len(a) : a[i] = stream[n + i]
  /\ \A i \in 1..Len(b) : b[i] = stream[n + Len(a) + i]

\* Counting on from n, or from p with the q bytes behind it that end at n.
LEMMA ShiftedSum ==
  ASSUME NEW p \in Nat, NEW q \in Nat, NEW n \in Nat, NEW x \in Nat, NEW y \in Nat,
         NEW off \in Nat, NEW buf \in Nat, p + q = n, q = buf - off
  PROVE  /\ \A i \in 1..(q + x) : ~(i <= q) =>
               /\ i - q \in 1..x /\ off + i = buf + (i - q) /\ n + (i - q) = p + i
         /\ \A i \in 1..y : n + x + i = p + (q + x) + i
         /\ p + (q + x) + y = n + x + y
<1>1. ASSUME NEW i \in 1..(q + x), ~(i <= q)
      PROVE  i - q \in 1..x /\ off + i = buf + (i - q) /\ n + (i - q) = p + i
  BY <1>1
<1>2. ASSUME NEW i \in Nat
      PROVE  n + x + i = p + (q + x) + i
  OBVIOUS
<1>3. \A i \in 1..y : i \in Nat
  OBVIOUS
<1> QED
  BY <1>1, <1>2, <1>3

\* Storing them keeps every byte in its place.
LEMMA StoredSound ==
  ASSUME NEW k, NEW n, NEW a, NEW b, NEW d, Typed(k), Received(n), Sound(k, n), Owned(k),
         Live(k), ~k.tls_broken, k.spill = <<>>, Arriving(n, a, b), Stored(k, a, b, d)
  PROVE  /\ Sound(d, n + Len(a) + Len(b)) /\ Live(d) /\ Owned(d)
         /\ client_buffered(d) = client_buffered(k) + Len(a)
<1> DEFINE p   == BytesOf(k.served)
           len == client_buffered(k)
           m   == n + Len(a) + Len(b)
<1>1. /\ a \in Seq(Byte) /\ b \in Seq(Byte) /\ Len(a) \in Nat /\ Len(b) \in Nat
      /\ k.read_buf \in Seq(Byte) /\ k.read_off \in Nat /\ Len(k.read_buf) \in Nat
      /\ k.read_off <= Len(k.read_buf)
  BY ClientFields DEF Arriving, Typed, Fits
<1>2. len \in Nat /\ len = Len(k.read_buf) - k.read_off /\ Len(k.spill) = 0
  BY WindowType DEF client_buffered
<1>3. Contents(k, n) /\ Boundary(p, k.served) /\ InPlace(k, p, n)
  BY DEF Sound, Contents, Live
<1>4. p \in Nat /\ n \in Nat
  BY <1>3, ByteFields DEF Boundary, Received
<1> HIDE DEF p
<1>5. p + len + Len(k.spill) = n
  BY <1>3 DEF InPlace
<1>6. p + len = n
  BY <1>2, <1>4, <1>5
<1>7. /\ Len(d.read_buf) = Len(k.read_buf) + Len(a)
      /\ d.read_off = k.read_off /\ d.spill = b
      /\ \A i \in 1..Len(k.read_buf) : d.read_buf[i] = k.read_buf[i]
      /\ \A i \in 1..Len(a) : d.read_buf[Len(k.read_buf) + i] = a[i]
  <2>1. d.read_buf = k.read_buf \o a /\ d.read_off = k.read_off /\ d.spill = b
    BY DEF Stored
  <2> QED BY <1>1, <2>1, ConcatAt, ConcatLemma
<1>8. client_buffered(d) = len + Len(a)
  BY <1>1, <1>2, <1>7 DEF client_buffered
<1>9. len > 0 => FrontByte(d) = FrontByte(k)
  <2>1. len > 0 => k.read_off + 1 \in 1..Len(k.read_buf)
    BY <1>1, <1>2
  <2> QED BY <1>7, <2>1 DEF FrontByte
<1>10. InPlace(d, p, m)
  <2> HIDE DEF len
  <2>4. /\ \A i \in 1..(len + Len(a)) : ~(i <= len) =>
              /\ i - len \in 1..Len(a) /\ k.read_off + i = Len(k.read_buf) + (i - len)
              /\ n + (i - len) = p + i
        /\ \A i \in 1..Len(b) : n + Len(a) + i = p + (len + Len(a)) + i
        /\ p + (len + Len(a)) + Len(b) = n + Len(a) + Len(b)
    <3>1. /\ Len(a) \in Nat /\ Len(b) \in Nat /\ k.read_off \in Nat
          /\ Len(k.read_buf) \in Nat
      BY <1>1
    <3>2. /\ p \in Nat /\ len \in Nat /\ n \in Nat /\ p + len = n
          /\ len = Len(k.read_buf) - k.read_off
      BY <1>2, <1>4, <1>6
    <3>3. PICK w \in Nat, q \in Nat, v \in Nat, x \in Nat, y \in Nat, off \in Nat, buf \in Nat :
            /\ w = p /\ q = len /\ v = n /\ x = Len(a) /\ y = Len(b)
            /\ off = k.read_off /\ buf = Len(k.read_buf)
      BY <3>1, <3>2
    <3>4. w + q = v /\ q = buf - off
      BY <3>2, <3>3, Zenon
    <3>5. /\ \A i \in 1..(q + x) : ~(i <= q) =>
               /\ i - q \in 1..x /\ off + i = buf + (i - q) /\ v + (i - q) = w + i
          /\ \A i \in 1..y : v + x + i = w + (q + x) + i
          /\ w + (q + x) + y = v + x + y
      BY <3>4, ShiftedSum
    <3> QED BY <3>3, <3>5, Zenon
  <2>1. ASSUME NEW i \in 1..(len + Len(a))
        PROVE  d.read_buf[d.read_off + i] = stream[p + i]
    <3>1. CASE i <= len
      <4>1. i \in 1..len /\ k.read_off + i \in 1..Len(k.read_buf)
        BY <1>1, <1>2, <3>1
      <4>2. k.read_buf[k.read_off + i] = stream[p + i]
        BY <1>3, <4>1 DEF InPlace, len
      <4> QED BY <1>7, <4>1, <4>2
    <3>2. CASE ~(i <= len)
      <4>1. i - len \in 1..Len(a) /\ k.read_off + i = Len(k.read_buf) + (i - len)
            /\ n + (i - len) = p + i
        BY <2>4, <3>2
      <4>2. a[i - len] = stream[n + (i - len)]
        BY <4>1 DEF Arriving
      <4>3. d.read_buf[Len(k.read_buf) + (i - len)] = a[i - len]
        BY <1>7, <4>1
      <4> QED BY <1>7, <4>1, <4>2, <4>3
    <3> QED BY <3>1, <3>2
  <2>2. ASSUME NEW i \in 1..Len(b)
        PROVE  d.spill[i] = stream[p + (len + Len(a)) + i]
    <3>1. b[i] = stream[n + Len(a) + i]
      BY DEF Arriving
    <3>2. n + Len(a) + i = p + (len + Len(a)) + i
      BY <2>4
    <3> QED BY <1>7, <3>1, <3>2
  <2>3. p + (len + Len(a)) + Len(d.spill) = m
    BY <1>7, <2>4
  <2> QED
    BY <1>7, <1>8, <2>1, <2>2, <2>3 DEF InPlace
<1>11. Contents(d, m)
  BY <1>3, <1>10 DEF Contents, Stored, SameRest, p
<1> HIDE DEF len
<1>12. Begun(d)
  <2> SUFFICES ASSUME Live(d), d.in_flight
               PROVE  /\ client_buffered(d) > 0 /\ d.consumed = Size(FrontByte(d))
                      /\ d.consumed <= client_buffered(d)
                      /\ d.tls => d.tls_hs_done
                      /\ d.spill # <<>> => Len(d.read_buf) = READ_BUF_SIZE
    BY DEF Begun
  <2>1. k.in_flight /\ d.consumed = k.consumed /\ d.tls = k.tls
        /\ d.tls_hs_done = k.tls_hs_done
    BY DEF Stored, SameRest
  <2>2. /\ len > 0 /\ k.consumed = Size(FrontByte(k)) /\ k.consumed <= len
        /\ k.tls => k.tls_hs_done
    BY <2>1 DEF Sound, Begun, len
  <2>3. k.consumed \in Nat
    BY ClientFields DEF Typed
  <2> QED
    BY SMTT(30), <1>1, <1>2, <1>7, <1>8, <1>9, <2>1, <2>2, <2>3 DEF Stored
<1>13. Fresh(d)
  <2> SUFFICES ASSUME Live(d), ~d.in_flight
               PROVE  /\ d.objs \subseteq {"conn"}
                      /\ client_buffered(d) = 0 => d.last_len = 0
                      /\ client_buffered(d) > 0 => d.last_len < FrontByte(d).hdr
                      /\ d.spill # <<>> => client_buffered(d) = READ_BUF_SIZE
    BY DEF Fresh
  <2>1. ~k.in_flight /\ d.last_len = k.last_len /\ d.objs = k.objs
    BY DEF Stored, SameRest
  <2>2. /\ k.objs \subseteq {"conn"}
        /\ len = 0 => k.last_len = 0
        /\ len > 0 => k.last_len < FrontByte(k).hdr
    BY <2>1 DEF Sound, Fresh, len
  <2>3. client_buffered(d) > 0 => FrontByte(d).hdr \in Nat /\ FrontByte(d).hdr > 0
    <3> SUFFICES ASSUME client_buffered(d) > 0
                 PROVE  FrontByte(d).hdr \in Nat /\ FrontByte(d).hdr > 0
      OBVIOUS
    <3>1. d.read_off + 1 \in 1..Len(d.read_buf) /\ d.read_buf \in Seq(Byte)
      <4>1. d.read_buf \in Seq(Byte)
        BY <1>1, ConcatLemma DEF Stored
      <4> QED BY <1>1, <1>2, <1>7, <1>8, <4>1 DEF len
    <3>2. FrontByte(d) \in Byte
      BY <3>1 DEF FrontByte
    <3> QED BY <3>2 DEF Byte
  <2>4. d.spill # <<>> => client_buffered(d) = READ_BUF_SIZE
    <3>1. d.spill = b /\ d.read_off = k.read_off
          /\ (b # <<>> => Len(d.read_buf) = READ_BUF_SIZE /\ k.read_off = 0)
      BY <2>1 DEF Stored
    <3>2. client_buffered(d) = Len(d.read_buf) - d.read_off
      BY DEF client_buffered
    <3> QED BY <3>1, <3>2, SizesAssumption
  <2> QED
    BY <1>1, <1>2, <1>8, <1>9, <2>1, <2>2, <2>3, <2>4
<1>14. SameRest(k, d)
  BY DEF Stored
<1> QED
  BY <1>8, <1>11, <1>12, <1>13, <1>14, SoundFrom DEF len

\* tls_read_failed leaves the close to the response in flight, or closes.
LEMMA ReadFailedBase ==
  ASSUME NEW k, NEW n, NEW m, Typed(k), Sound(k, n), Owned(k), Protocol(k), Live(k),
         NEW d, d = tls_read_failed(k)
  PROVE  Base(d, m) /\ Pending(d) /\ Armed(d)
<1>1. k \in Client /\ k.handle = "open" /\ Boundary(BytesOf(k.served), k.served)
  BY DEF Typed, Live, Sound, Contents
<1>2. CASE k.in_flight
  <2>1. d = [k EXCEPT !.tls_broken = TRUE, !.keep_alive = FALSE, !.read_armed = FALSE]
    BY <1>2 DEF tls_read_failed
  <2>2. d \in Client
    BY <1>1, <2>1, ZenonT(40) DEF Client
  <2>3. /\ SameBuffers(k, d) /\ d.last_len = k.last_len /\ d.consumed = k.consumed
        /\ d.served = k.served /\ d.in_flight = k.in_flight /\ d.writable = k.writable
        /\ d.tls_hs_done = k.tls_hs_done
        /\ d.tls_broken /\ ~d.keep_alive /\ ~d.read_armed
    BY <1>1, <2>1 DEF Client, SameBuffers
  <2>4. /\ d.handle = k.handle /\ d.write = k.write /\ d.wire = k.wire /\ d.alert = k.alert
        /\ d.waiting = k.waiting /\ d.objs = k.objs /\ d.pins = k.pins /\ d.wblock = k.wblock
    BY <1>1, <2>1 DEF Client
  <2>5. client_buffered(d) = client_buffered(k) /\ FrontByte(d) = FrontByte(k)
    BY <2>3 DEF SameBuffers, client_buffered, FrontByte
  <2>6. Contents(d, m) /\ Broken(d) /\ Fresh(d) /\ Pending(d) /\ Armed(d) /\ Live(d)
    BY <1>1, <1>2, <2>3, <2>4 DEF Contents, Broken, Fresh, Pending, Armed, Live
  <2>7. Begun(d)
    BY <1>2, <2>3, <2>5 DEF Sound, Begun, SameBuffers
  <2>8. Replying(d) /\ Held(d) /\ Owned(d)
    BY <2>3, <2>4, <2>6 DEF Sound, Replying, Held, Owned
  <2>9. Ending(d)
    BY <2>3, <2>4, <2>6 DEF Sound, Ending, Live
  <2> QED
    BY <2>6, <2>7, <2>8, <2>9 DEF Base, Sound
<1>3. CASE ~k.in_flight
  <2> DEFINE bad == [k EXCEPT !.tls_broken = TRUE]
  <2>1. d = uv_close(bad)
    BY <1>3 DEF tls_read_failed
  <2>2. bad \in Client
    BY <1>1 DEF Client
  <2>3. /\ bad.handle = k.handle /\ bad.write = k.write /\ bad.wire = k.wire
        /\ bad.objs = k.objs /\ bad.in_flight = k.in_flight /\ bad.writable = k.writable
        /\ bad.served = k.served /\ bad.tls_broken
    BY <1>1 DEF Client
  <2> HIDE DEF bad
  <2>4. /\ SameRead(bad, d) /\ d.keep_alive = bad.keep_alive /\ d.objs = bad.objs
        /\ d.write = bad.write /\ d.wire = bad.wire /\ d.handle = "closing"
    BY <1>1, <2>1, <2>2, <2>3, CloseOutcome
  <2>5. bad.write = "idle" /\ bad.objs \subseteq {"conn"}
    BY <1>3, <2>3 DEF Protocol, Live, Sound, Fresh
  <2>6. \A i \in DOMAIN d.wire : d.wire[i] = i
    BY <2>3, <2>4 DEF Sound, Replying
  <2>7. Ends(bad, d)
    BY <2>3, <2>4, <2>5, <2>6 DEF Ends
  <2>8. Contents(bad, m) /\ Cause(bad) /\ (~bad.writable => peer = "reset")
    BY <1>1, <2>3 DEF Contents, Cause, Sound, Ending
  <2> QED
    BY <1>1, <2>3, <2>7, <2>8, EndBase
<1> QED
  BY <1>2, <1>3

\* The error branch of on_read leaves the close to the response in flight, or
\* closes a connection that has a reason to be.
LEMMA ReadErrorBase ==
  ASSUME NEW k, NEW n, Typed(k), Sound(k, n), Owned(k), Protocol(k), Live(k),
         ~k.tls_broken, ~k.in_flight => Cause(k), NEW d, d = ReadError(k)
  PROVE  Base(d, n) /\ Pending(d) /\ Armed(d)
<1>1. k \in Client /\ k.handle = "open"
  BY DEF Typed, Live
<1>2. CASE k.in_flight
  <2> DEFINE off == [k EXCEPT !.keep_alive = FALSE, !.read_armed = FALSE]
  <2>1. d = off
    BY <1>2 DEF ReadError
  <2>2. off \in Client
    BY <1>1 DEF Client
  <2>3. /\ SameBuffers(k, off) /\ off.last_len = k.last_len /\ off.consumed = k.consumed
        /\ off.served = k.served
        /\ off.in_flight = k.in_flight /\ off.writable = k.writable
        /\ off.tls_hs_done = k.tls_hs_done /\ off.tls_broken = k.tls_broken
    BY <1>1 DEF Client, SameBuffers
  <2>4. /\ off.handle = k.handle /\ off.write = k.write /\ off.wire = k.wire
        /\ off.alert = k.alert /\ off.waiting = k.waiting /\ off.objs = k.objs
        /\ off.pins = k.pins /\ off.wblock = k.wblock
    BY <1>1 DEF Client
  <2> HIDE DEF off
  <2>5. SameRead(k, off)
    BY <2>2, <2>3 DEF SameRead
  <2>6. /\ client_buffered(off) = client_buffered(k) /\ FrontByte(off) = FrontByte(k)
        /\ Contents(off, n)
    BY <1>1, <2>5, SameReadViews DEF Sound
  <2>7. Broken(off) /\ Fresh(off) /\ Pending(off) /\ Armed(off) /\ Live(off)
    BY <1>2, <2>3, <2>4 DEF Broken, Fresh, Pending, Armed, Live
  <2>8. Begun(off)
    BY <1>2, <2>3, <2>6 DEF Sound, Begun, SameBuffers
  <2>9. Replying(off) /\ Held(off) /\ Owned(off)
    BY <2>3, <2>4, <2>7 DEF Sound, Replying, Held, Owned
  <2>10. Ending(off)
    BY <2>3, <2>4, <2>7 DEF Sound, Ending, Live
  <2> QED
    BY <2>1, <2>6, <2>7, <2>8, <2>9, <2>10 DEF Base, Sound
<1>3. CASE ~k.in_flight
  <2> DEFINE left == k.objs \ {"status", "body", "conn"}
             bare == [k EXCEPT !.objs = left]
  <2>1. d = uv_close(bare)
    BY <1>3 DEF ReadError
  <2>2. left \in SUBSET {"status", "body", "task", "conn"} /\ left \subseteq {"conn"}
    BY <1>1, <1>3 DEF Client, Sound, Fresh
  <2> HIDE DEF left
  <2>3. bare \in Client
    BY <1>1, <2>2 DEF Client
  <2>4. /\ SameBuffers(k, bare) /\ bare.last_len = k.last_len
        /\ bare.consumed = k.consumed /\ bare.served = k.served
        /\ bare.in_flight = k.in_flight /\ bare.writable = k.writable
        /\ bare.tls_hs_done = k.tls_hs_done /\ bare.tls_broken = k.tls_broken
    BY <1>1 DEF Client, SameBuffers
  <2>5. /\ bare.handle = k.handle /\ bare.write = k.write /\ bare.wire = k.wire
        /\ bare.objs = left /\ bare.keep_alive = k.keep_alive
    BY <1>1 DEF Client
  <2> HIDE DEF bare
  <2>6. SameRead(k, bare)
    BY <2>3, <2>4 DEF SameRead
  <2>7. /\ SameRead(bare, d) /\ d.keep_alive = bare.keep_alive /\ d.objs = bare.objs
        /\ d.write = bare.write /\ d.wire = bare.wire /\ d.handle = "closing"
    BY <1>1, <2>1, <2>3, <2>5, CloseOutcome
  <2>8. \A i \in DOMAIN d.wire : d.wire[i] = i
    BY <2>5, <2>7 DEF Sound, Replying
  <2>9. bare.write = "idle"
    BY <1>3, <2>5 DEF Protocol, Live
  <2>10. Ends(bare, d)
    BY <1>3, <2>2, <2>4, <2>5, <2>7, <2>8, <2>9 DEF Ends
  <2>11. /\ client_buffered(bare) = client_buffered(k) /\ FrontByte(bare) = FrontByte(k)
         /\ Contents(bare, n)
    BY <1>1, <2>6, SameReadViews DEF Sound
  <2>12. Cause(bare) /\ (~bare.writable => peer = "reset")
    BY <1>3, <2>4, <2>5, <2>11 DEF Cause, Sound, Ending
  <2> QED
    BY <1>1, <2>5, <2>10, <2>11, <2>12, EndBase
<1> QED
  BY <1>2, <1>3

\* What the guarded compaction of alloc_cb and the TLS reads leaves.
Compacted(k, q, n) ==
  /\ Typed(q) /\ Protocol(q) /\ Live(q) /\ Sound(q, n) /\ Owned(q)
  /\ Pending(q) /\ Armed(q)
  /\ SameRest(k, q) /\ q.spill = k.spill /\ q.read_armed = k.read_armed
  /\ q.tls_hs_done = k.tls_hs_done
  /\ client_buffered(q) = client_buffered(k)
  /\ ~k.in_flight => q.read_off = 0

\* CompactUnlessInFlight keeps the invariant.
LEMMA CompactUnlessBase ==
  ASSUME NEW k, NEW n, Typed(k), Protocol(k), Live(k), ~k.tls_broken, Base(k, n),
         Pending(k), Armed(k), NEW q, q = CompactUnlessInFlight(k)
  PROVE  Compacted(k, q, n)
<1>1. Sound(k, n) /\ Owned(k) /\ k \in Client
  BY DEF Base, Typed
<1>2. Typed(q) /\ SameControl(k, q)
  BY CompactUnlessLemma DEF Moved
<1>3. Protocol(q)
  BY <1>2, SameControlProtocol
<1>4. CASE k.in_flight
  <2>1. q = k
    BY <1>4 DEF CompactUnlessInFlight
  <2>2. SameRest(k, k)
    BY <1>1 DEF SameRest
  <2> QED
    BY <1>1, <1>4, <2>1, <2>2 DEF Compacted
<1>5. CASE ~k.in_flight
  <2>1. q = client_compact(k)
    BY <1>5 DEF CompactUnlessInFlight
  <2>2. Repacked(k, q) /\ q.read_off = 0
    BY <2>1, CompactRepacks
  <2>3. /\ Sound(q, n) /\ Live(q) /\ Owned(q) /\ Pending(q)
        /\ client_buffered(q) = client_buffered(k)
    BY <1>1, <1>5, <2>2, RepackedSound
  <2>4. Armed(q)
    BY <2>2, <2>3 DEF Armed, Repacked, SameRest
  <2> QED
    BY <1>2, <1>3, <2>2, <2>3, <2>4 DEF Compacted, Repacked
<1> QED
  BY <1>4, <1>5

\* Storing bytes in the spill changes nothing else.
LEMMA StashFields ==
  ASSUME NEW k \in Client, NEW s \in Seq(Byte), NEW d, d = [k EXCEPT !.spill = s]
  PROVE  /\ SameRest(k, d) /\ d.read_armed = k.read_armed
         /\ d.last_len = k.last_len /\ d.consumed = k.consumed
         /\ d.tls_hs_done = k.tls_hs_done
         /\ d.read_off = k.read_off /\ d.read_buf = k.read_buf /\ d.spill = s
<1>1. d \in Client
  BY DEF Client
<1>2. SameRest(k, d)
  BY <1>1 DEF Client, SameRest
<1> QED
  BY <1>2 DEF Client

\* New bytes behind a compacted buffer: dispatched, or the session fails.
LEMMA ArrivalBase ==
  ASSUME NEW k, NEW q, NEW n, NEW a, NEW b, NEW d,
         Compacted(k, q, n), ~q.tls_broken, q.spill = <<>>, q.read_armed,
         q.tls => q.tls_hs_done,
         Received(n), n + Len(a) + Len(b) <= Len(stream),
         Arriving(n, a, b), Stored(q, a, b, d), Typed(d),
         client_buffered(q) + Len(a) > 0
  PROVE  /\ \A e \in DispatchThenFlow(d) :
              /\ Base(e, n + Len(a) + Len(b)) /\ Pending(e) /\ Armed(e)
              /\ Answers(k, e, n + Len(a) + Len(b))
         /\ \A m, e : e = tls_read_failed(d) =>
              Base(e, m) /\ Pending(e) /\ Armed(e) /\ Answers(k, e, m)
<1> DEFINE m == n + Len(a) + Len(b)
<1>1. /\ Sound(d, m) /\ Live(d) /\ Owned(d)
      /\ client_buffered(d) = client_buffered(q) + Len(a)
  BY StoredSound DEF Compacted
<1>2. Received(m)
  <2>1. n \in Nat /\ Len(stream) \in Nat /\ Len(a) \in Nat /\ Len(b) \in Nat
    BY ByteFields DEF Received, Arriving
  <2> QED BY <2>1 DEF Received
<1>3. Protocol(d)
  <2>1. SameControl(q, d)
    BY DEF Stored, SameRest, SameControl
  <2> QED BY <2>1, SameControlProtocol DEF Compacted
<1>4. d.read_armed /\ (d.tls => d.tls_hs_done)
  BY DEF Stored, SameRest
<1> HIDE DEF m
<1>5. Silent(k, d)
  <2>1. Silent(k, q) /\ Silent(q, d)
    BY SameRestSilent DEF Compacted, Stored
  <2> QED BY <2>1 DEF Silent
<1>6. \A e \in DispatchThenFlow(d) :
         Base(e, m) /\ Pending(e) /\ Armed(e) /\ Answers(k, e, m)
  <2> TAKE e \in DispatchThenFlow(d)
  <2>1. Base(e, m) /\ Pending(e) /\ Armed(e) /\ Answers(d, e, m)
    BY <1>1, <1>2, <1>3, <1>4, DispatchThenFlowBase
  <2> QED BY <1>5, <2>1, SilentAnswers
<1>7. \A x, e : e = tls_read_failed(d) =>
         Base(e, x) /\ Pending(e) /\ Armed(e) /\ Answers(k, e, x)
  <2> SUFFICES ASSUME NEW x, NEW e, e = tls_read_failed(d)
               PROVE  Base(e, x) /\ Pending(e) /\ Armed(e) /\ Answers(k, e, x)
    OBVIOUS
  <2>1. Base(e, x) /\ Pending(e) /\ Armed(e)
    BY <1>1, <1>3, ReadFailedBase
  <2>2. d \in Client /\ d.handle = "open"
    BY <1>1 DEF Typed, Live
  <2>3. Silent(d, e)
    BY <2>2, ReadEndsSilent
  <2>4. Silent(k, e)
    BY <1>5, <2>3 DEF Silent
  <2> QED BY <2>1, <2>4, SilentAnswers
<1> QED
  BY <1>6, <1>7 DEF m

\* The data half of tls_on_read_data keeps the invariant: every byte of the
\* sweep is in the buffer or in the spill behind it.
LEMMA ReceiveBase ==
  ASSUME NEW k, NEW n, Typed(k), k.tls, k.tls_hs_done, Received(n), Base(k, n), Pending(k),
         Armed(k), Protocol(k), Roomy(k), k.handle = "open", k.read_armed,
         NEW bytes \in Seq(Byte), n + Len(bytes) <= Len(stream),
         Len(bytes) <= TLS_SPILL_SIZE,
         \A i \in 1..Len(bytes) : bytes[i] = stream[n + i],
         NEW d \in tls_receive(k, bytes)
  PROVE  /\ Base(d, n + Len(bytes)) /\ Pending(d) /\ Armed(d)
         /\ Answers(k, d, n + Len(bytes))
<1> DEFINE q    == CompactUnlessInFlight(k)
           room == READ_BUF_SIZE - Len(q.read_buf)
           take == IF Len(bytes) < room THEN Len(bytes) ELSE room
           head == SubSeq(bytes, 1, take)
           rest == SubSeq(bytes, take + 1, Len(bytes))
           buf  == q.read_buf \o head
           kept == [q EXCEPT !.read_buf = buf]
           more == kept.spill \o rest
           full == [kept EXCEPT !.spill = more]
<1>1. Live(k) /\ ~k.tls_broken /\ k.spill = <<>>
  BY DEF Live, Protocol, Base, Sound, Broken, Roomy
<1>2. Compacted(k, q, n)
  BY <1>1, CompactUnlessBase
<1>3. d \in IF bytes = <<>> THEN {q}
            ELSE IF rest = <<>> THEN DispatchThenFlow(kept)
            ELSE IF Len(full.spill) > TLS_SPILL_SIZE THEN {tls_read_failed(kept)}
            ELSE DispatchThenFlow(full)
                 \cup (IF Fault("nomem") THEN {tls_read_failed(kept)} ELSE {})
  BY DEF tls_receive, tls_spill_stash
<1> HIDE DEF q
<1>4. /\ q \in Client /\ q.tls /\ ~q.tls_broken /\ q.spill = <<>> /\ q.read_armed
      /\ q.tls_hs_done /\ q.in_flight = k.in_flight
  BY <1>1, <1>2 DEF Compacted, SameRest
<1>5. /\ q.read_buf \in Seq(Byte) /\ Len(q.read_buf) \in Nat /\ q.read_off \in Nat
      /\ Len(q.read_buf) <= READ_BUF_SIZE /\ Len(bytes) \in Nat /\ n \in Nat
  BY <1>2, <1>4, ClientFields, ByteFields DEF Compacted, Typed, Fits, Received
<1>6. room \in Nat
  BY <1>5, SizesAssumption
<1> HIDE DEF room
<1>7. take = IF Len(bytes) < room THEN Len(bytes) ELSE room
  OBVIOUS
<1> HIDE DEF take
<1>8. take \in Nat /\ take <= room /\ take <= Len(bytes) /\ (take = 0 => Len(bytes) = 0 \/ room = 0)
  BY <1>5, <1>6, <1>7, TakeLemma
<1>9. head \in Seq(Byte) /\ Len(head) = take /\ \A i \in 1..take : head[i] = bytes[i]
  BY <1>8, HeadAt
<1>10. /\ rest \in Seq(Byte) /\ Len(rest) = Len(bytes) - take
       /\ \A i \in 1..(Len(bytes) - take) : rest[i] = bytes[take + i]
  BY <1>8, TailLemma, TailAt
<1> HIDE DEF head, rest
<1>11. rest # <<>> => take = room
  BY <1>5, <1>6, <1>7, <1>10
<1>12. Arriving(n, head, <<>>) /\ Arriving(n, head, rest)
  <2>1. \A i \in 1..Len(head) : head[i] = stream[n + i]
    <3> SUFFICES ASSUME NEW i \in 1..Len(head) PROVE head[i] = stream[n + i]
      OBVIOUS
    <3>1. i \in 1..take /\ i \in 1..Len(bytes)
      BY <1>5, <1>8, <1>9
    <3> QED BY <1>9, <3>1
  <2>2. \A i \in 1..Len(rest) : rest[i] = stream[n + Len(head) + i]
    <3> SUFFICES ASSUME NEW i \in 1..Len(rest) PROVE rest[i] = stream[n + Len(head) + i]
      OBVIOUS
    <3>1. i \in 1..(Len(bytes) - take) /\ take + i \in 1..Len(bytes)
          /\ n + (take + i) = n + Len(head) + i
      BY <1>5, <1>8, <1>9, <1>10
    <3>2. bytes[take + i] = stream[n + (take + i)]
      BY <3>1
    <3> QED BY <1>10, <3>1, <3>2
  <2>3. <<>> \in Seq(Byte) /\ Len(<<>>) = 0
    OBVIOUS
  <2>4. \A i \in 1..0 : <<>>[i] = stream[n + Len(head) + i]
    OBVIOUS
  <2>5. Arriving(n, head, rest)
    BY <1>9, <1>10, <2>1, <2>2 DEF Arriving
  <2> QED BY <1>9, <2>1, <2>3, <2>4, <2>5 DEF Arriving
<1>13. buf \in Seq(Byte) /\ Len(buf) = Len(q.read_buf) + take
  BY <1>5, <1>9, ConcatLemma
<1>14. buf = q.read_buf \o head
  OBVIOUS
<1> HIDE DEF buf
<1>15. Len(buf) <= READ_BUF_SIZE /\ Len(q.read_buf) <= Len(buf)
       /\ (rest # <<>> => Len(buf) = READ_BUF_SIZE)
  BY <1>5, <1>6, <1>8, <1>11, <1>13, SizesAssumption DEF room
<1>16. Typed(kept)
  <2> HIDE DEF kept
  <2> QED BY <1>2, <1>13, <1>15, GrowLemma DEF kept, Compacted
<1>17. /\ SameRest(q, kept) /\ kept.read_armed = q.read_armed
       /\ kept.last_len = q.last_len /\ kept.consumed = q.consumed
       /\ kept.tls_hs_done = q.tls_hs_done
       /\ kept.read_off = q.read_off /\ kept.read_buf = buf /\ kept.spill = <<>>
  <2>1. kept \in Client
    BY <1>4, <1>13 DEF Client
  <2>2. SameRest(q, kept)
    BY <1>4, <1>13, <2>1 DEF Client, SameRest
  <2>3. /\ kept.read_armed = q.read_armed
        /\ kept.last_len = q.last_len /\ kept.consumed = q.consumed
        /\ kept.tls_hs_done = q.tls_hs_done
        /\ kept.read_off = q.read_off /\ kept.read_buf = buf /\ kept.spill = q.spill
    BY <1>4, <1>13 DEF Client
  <2> HIDE DEF kept
  <2> QED BY <1>4, <2>2, <2>3
<1> HIDE DEF kept
<1>18. Stored(q, head, <<>>, kept)
  BY <1>14, <1>17 DEF Stored
<1>19. more = rest
  BY <1>10, <1>17
<1>20. more \in Seq(Byte) /\ kept \in Client /\ kept.tls
  BY <1>4, <1>10, <1>16, <1>17, <1>19 DEF Typed, SameRest
<1> HIDE DEF more
<1>21. /\ SameRest(kept, full) /\ full.read_armed = kept.read_armed
       /\ full.last_len = kept.last_len /\ full.consumed = kept.consumed
       /\ full.tls_hs_done = kept.tls_hs_done
       /\ full.read_off = kept.read_off /\ full.read_buf = kept.read_buf
       /\ full.spill = rest
  <2>1. full = [kept EXCEPT !.spill = more]
    OBVIOUS
  <2> HIDE DEF full
  <2> QED BY <1>19, <1>20, <2>1, StashFields
<1>22. Len(rest) <= TLS_SPILL_SIZE
  BY <1>5, <1>8, <1>10, SizesAssumption
<1>23. Typed(full)
  <2> HIDE DEF full
  <2> QED BY <1>16, <1>19, <1>20, <1>22, SpillLemma DEF full
<1> HIDE DEF full
<1>24. Stored(q, head, rest, full)
  <2>1. SameRest(q, full)
    BY <1>17, <1>21 DEF SameRest
  <2>2. rest # <<>> => Len(full.read_buf) = READ_BUF_SIZE /\ (~q.in_flight => q.read_off = 0)
    BY <1>2, <1>4, <1>15, <1>17, <1>21 DEF Compacted
  <2> QED BY <1>14, <1>17, <1>21, <2>1, <2>2 DEF Stored
<1>25. bytes # <<>> => client_buffered(q) + Len(head) > 0
  <2> SUFFICES ASSUME bytes # <<>> PROVE client_buffered(q) + Len(head) > 0
    OBVIOUS
  <2>1. Len(bytes) > 0
    OBVIOUS
  <2>2. client_buffered(q) \in Nat
    BY <1>2, WindowType DEF Compacted
  <2>3. CASE take > 0
    BY <1>8, <1>9, <2>2, <2>3
  <2>4. CASE ~(take > 0)
    <3>1. room = 0
      BY <1>8, <2>1, <2>4
    <3>2. Len(k.read_buf) < READ_BUF_SIZE
      BY DEF Roomy
    <3>3. Len(q.read_buf) <= Len(k.read_buf) /\ Len(k.read_buf) \in Nat
      BY CompactUnlessLemma, ClientFields DEF q, Moved, Typed
    <3> QED BY <1>5, <3>1, <3>2, <3>3, SizesAssumption DEF room
  <2> QED BY <2>3, <2>4
<1>26. /\ n + Len(head) + Len(rest) = n + Len(bytes)
       /\ n + Len(head) + Len(<<>>) <= Len(stream)
       /\ n + Len(head) + Len(rest) <= Len(stream)
  <2>1. Len(stream) \in Nat /\ Len(<<>>) = 0
    BY ByteFields DEF Received
  <2> QED BY <1>5, <1>8, <1>9, <1>10, <2>1
<1>27. bytes # <<>> =>
         /\ \A e \in DispatchThenFlow(full) :
              /\ Base(e, n + Len(bytes)) /\ Pending(e) /\ Armed(e)
              /\ Answers(k, e, n + Len(bytes))
         /\ \A m, e : e = tls_read_failed(kept) =>
              Base(e, m) /\ Pending(e) /\ Armed(e) /\ Answers(k, e, m)
  <2> SUFFICES ASSUME bytes # <<>>
               PROVE /\ \A e \in DispatchThenFlow(full) :
                          /\ Base(e, n + Len(bytes)) /\ Pending(e) /\ Armed(e)
                          /\ Answers(k, e, n + Len(bytes))
                     /\ \A m, e : e = tls_read_failed(kept) =>
                          Base(e, m) /\ Pending(e) /\ Armed(e) /\ Answers(k, e, m)
    OBVIOUS
  <2>1. \A e \in DispatchThenFlow(full) :
           /\ Base(e, n + Len(head) + Len(rest)) /\ Pending(e) /\ Armed(e)
           /\ Answers(k, e, n + Len(head) + Len(rest))
    BY <1>2, <1>4, <1>12, <1>23, <1>24, <1>25, <1>26, ArrivalBase
  <2>2. \A m, e : e = tls_read_failed(kept) =>
          Base(e, m) /\ Pending(e) /\ Armed(e) /\ Answers(k, e, m)
    BY <1>2, <1>4, <1>12, <1>16, <1>18, <1>25, <1>26, ArrivalBase
  <2> QED BY <1>26, <2>1, <2>2
<1>28. CASE bytes = <<>>
  <2>1. d = q /\ n + Len(bytes) = n
    BY <1>3, <1>5, <1>28
  <2>2. Answers(k, d, n)
    BY <1>2, <2>1, SameRestSilent, SilentAnswers DEF Compacted
  <2> QED BY <1>2, <2>1, <2>2 DEF Compacted, Base
<1>29. CASE bytes # <<>> /\ rest = <<>>
  <2>1. kept = full
    <3>1. kept.spill = rest
      BY <1>17, <1>29
    <3> QED BY <1>19, <1>20, <3>1 DEF full, Client
  <2> QED BY <1>3, <1>27, <1>29, <2>1
<1>30. CASE bytes # <<>> /\ rest # <<>>
  BY <1>3, <1>27, <1>30
<1> QED
  BY <1>28, <1>29, <1>30

-----------------------------------------------------------------------------
(* From one request to the next *)

\* Nothing is outstanding, and what ends badly has a reset peer to blame.
Calm(k) ==
  /\ Typed(k) /\ Ready(k) /\ k.waiting = {} /\ ~k.tls_broken
  /\ k.tls => k.tls_hs_done
  /\ k.objs \subseteq {"conn"}
  /\ ~k.writable => peer = "reset"
  /\ \A i \in DOMAIN k.wire : k.wire[i] = i

\* The response to the request in flight has been written.
Finished(k, n) ==
  /\ Calm(k) /\ Contents(k, n) /\ Len(k.wire) = k.served + 1
  /\ client_buffered(k) > 0 /\ k.consumed = Size(FrontByte(k))
  /\ k.consumed <= client_buffered(k)

\* client_reset has stepped over it.
Restarted(k, n) ==
  /\ Calm(k) /\ Contents(k, n) /\ Len(k.wire) = k.served
  /\ k.last_len = 0 /\ ~k.in_flight

\* The fields client_reset sets, and the others the invariant speaks of.
LEMMA ResetRest ==
  ASSUME NEW k \in Client, NEW o \in Nat, NEW b \in Seq(Byte), NEW m \in Nat,
         NEW d, d = ResetTo(k, o, b, m)
  PROVE  /\ WasReset(k, o, b, d) /\ d.served = m /\ d.last_len = 0
         /\ d.wire = k.wire /\ d.writable = k.writable /\ d.objs = k.objs
         /\ d.tls_broken = k.tls_broken /\ d.tls_hs_done = k.tls_hs_done
<1>1. WasReset(k, o, b, d)
  BY ResetFields
<1>2. /\ d.served = m /\ d.last_len = 0
      /\ d.wire = k.wire /\ d.writable = k.writable /\ d.objs = k.objs
      /\ d.tls_broken = k.tls_broken /\ d.tls_hs_done = k.tls_hs_done
  BY DEF ResetTo, Client
<1> QED
  BY <1>1, <1>2

\* client_reset steps over the request in place, or empties the buffer.
LEMMA ResetCases ==
  ASSUME NEW k, Typed(k), NEW d, d = [client_reset(k) EXCEPT !.in_flight = FALSE]
  PROVE  \E o \in Nat, b \in Seq(Byte), m \in Nat :
            /\ m = k.served + 1 /\ d = ResetTo(k, o, b, m)
            /\ \/ /\ 0 < k.consumed /\ k.consumed < client_buffered(k)
                  /\ o = k.read_off + k.consumed /\ b = k.read_buf
               \/ /\ ~(0 < k.consumed /\ k.consumed < client_buffered(k))
                  /\ o = 0 /\ b = <<>>
<1>1. /\ k \in Client /\ k.read_off \in Nat /\ k.consumed \in Nat /\ k.served \in Nat
      /\ Len(k.read_buf) \in Nat /\ k.read_buf \in Seq(Byte)
  BY ClientFields DEF Typed
<1>2. PICK m \in Nat : m = k.served + 1
  BY <1>1
<1>3. CASE 0 < k.consumed /\ k.consumed < client_buffered(k)
  <2>1. PICK o \in Nat : o = k.read_off + k.consumed
    BY <1>1
  <2>2. d = ResetTo(k, o, k.read_buf, m)
    BY <1>1, <1>2, <1>3, <2>1 DEF client_reset, Client, ResetTo
  <2> QED BY <1>1, <1>2, <1>3, <2>1, <2>2
<1>4. CASE ~(0 < k.consumed /\ k.consumed < client_buffered(k))
  <2>1. PICK b \in Seq(Byte) : b = <<>>
    <3>1. <<>> \in Seq(Byte)
      OBVIOUS
    <3> QED BY <3>1
  <2>2. PICK o \in Nat : o = 0
    OBVIOUS
  <2>3. d = ResetTo(k, o, b, m)
    BY <1>1, <1>2, <1>4, <2>1, <2>2 DEF client_reset, Client, ResetTo
  <2> QED BY <1>2, <1>4, <2>1, <2>2, <2>3
<1> QED
  BY <1>3, <1>4

\* Addition is associative.
LEMMA AddAssoc ==
  ASSUME NEW a \in Nat, NEW b \in Nat, NEW x \in Nat
  PROVE  a + (b + x) = (a + b) + x
OBVIOUS

\* Stepping over the request in flight moves the boundary over its bytes.
LEMMA SteppedOver ==
  ASSUME NEW k, NEW n, Received(n), Finished(k, n),
         NEW o \in Nat, NEW b \in Seq(Byte), NEW m \in Nat, m = k.served + 1,
         \/ /\ 0 < k.consumed /\ k.consumed < client_buffered(k)
            /\ o = k.read_off + k.consumed /\ b = k.read_buf
         \/ /\ ~(0 < k.consumed /\ k.consumed < client_buffered(k))
            /\ o = 0 /\ b = <<>>,
         NEW d, d = ResetTo(k, o, b, m), Typed(d)
  PROVE  Restarted(d, n)
<1> DEFINE p == BytesOf(k.served)
           size == k.consumed
           held == client_buffered(k)
<1>1. /\ Typed(k) /\ k \in Client /\ k.handle = "open" /\ ~k.tls_broken
      /\ Contents(k, n) /\ InPlace(k, p, n) /\ n \in Nat /\ n <= Len(stream)
  BY ByteFields DEF Finished, Calm, Typed, Ready, Contents, Received
<1>2. /\ p \in Nat /\ p < Len(stream) /\ FrontByte(k) = stream[p + 1]
      /\ FrontByte(k) \in Byte /\ Boundary(p, k.served)
  BY <1>1, FrontLemma DEF Finished
<1>3. /\ k.read_off \in Nat /\ Len(k.read_buf) \in Nat /\ k.served \in Nat
      /\ Len(k.spill) \in Nat /\ size \in Nat /\ held \in Nat
  BY <1>1, ClientFields, WindowType
<1>4. size = Size(stream[p + 1]) /\ size >= 1 /\ size <= held
  <2>1. Len(stream) \in Nat /\ p + 1 \in 1..Len(stream)
    BY <1>2, ByteFields DEF Received
  <2>2. Size(stream[p + 1]) >= 1
    BY <2>1, ByteFields DEF Received
  <2> QED BY <1>2, <2>2 DEF Finished
<1>5. /\ p + held + Len(k.spill) = n
      /\ \A i \in 1..held : k.read_buf[k.read_off + i] = stream[p + i]
      /\ \A i \in 1..Len(k.spill) : k.spill[i] = stream[p + held + i]
  BY <1>1 DEF InPlace
<1>6. \/ 0 < size /\ size < held /\ o = k.read_off + size /\ b = k.read_buf
      \/ ~(0 < size /\ size < held) /\ o = 0 /\ b = <<>>
  OBVIOUS
<1>7. /\ WasReset(k, o, b, d) /\ d.served = m /\ d.last_len = 0
      /\ d.wire = k.wire /\ d.writable = k.writable /\ d.objs = k.objs
      /\ d.tls_broken = k.tls_broken /\ d.tls_hs_done = k.tls_hs_done
  BY <1>1, ResetRest
<1>9. Calm(d)
  BY <1>7 DEF Finished, Calm, WasReset, Ready
<1>10. PICK q \in Nat : q = p + size
  BY <1>2, <1>3
<1>11. Boundary(q, m)
  <2>1. p + size <= Len(stream)
    <3>1. Len(stream) \in Nat
      BY ByteFields DEF Received
    <3> QED BY <1>1, <1>2, <1>3, <1>4, <1>5, <3>1
  <2> HIDE DEF p, size
  <2> QED BY <1>2, <1>3, <1>4, <1>10, <2>1, BoundaryAdvances DEF Received
<1>12. BytesOf(m) = q
  BY <1>11, BoundaryBytes DEF Received
<1> HIDE DEF p, size, held
<1>13. /\ client_buffered(d) = held - size
       /\ \A i \in 1..(held - size) : d.read_buf[d.read_off + i] = stream[q + i]
  <2>1. CASE 0 < size /\ size < held
    <3>1. o = k.read_off + size /\ b = k.read_buf
      BY <1>6, <2>1
    <3>2. d.read_off = k.read_off + size /\ d.read_buf = k.read_buf
      BY <1>7, <3>1 DEF WasReset
    <3>3. client_buffered(d) = held - size
      BY <1>3, <3>2 DEF client_buffered, held
    <3>4. ASSUME NEW i \in 1..(held - size)
          PROVE  d.read_buf[d.read_off + i] = stream[q + i]
      <4>0. i \in Nat /\ size + i \in 1..held
        BY <1>3, <1>4
      <4>1. k.read_off + (size + i) = (k.read_off + size) + i /\ p + (size + i) = q + i
        BY <1>2, <1>3, <1>10, <4>0, AddAssoc
      <4>2. k.read_buf[k.read_off + (size + i)] = stream[p + (size + i)]
        BY <1>5, <4>0
      <4> QED BY <3>2, <4>1, <4>2
    <3> QED BY <3>3, <3>4
  <2>2. CASE ~(0 < size /\ size < held)
    <3>1. size = held
      BY <1>3, <1>4, <2>2
    <3>2. d.read_off = 0 /\ d.read_buf = <<>>
      BY <1>6, <1>7, <2>2 DEF WasReset
    <3>3. client_buffered(d) = 0 /\ held - size = 0
      BY <1>3, <3>1, <3>2 DEF client_buffered
    <3> QED BY <3>3
  <2> QED BY <2>1, <2>2
<1>14. d.spill = k.spill
  BY <1>7 DEF WasReset
<1>15. InPlace(d, q, n)
  <2>1. q + (held - size) = p + held
    BY <1>2, <1>3, <1>10
  <2>2. q + (held - size) + Len(d.spill) = n
    BY <1>5, <1>14, <2>1
  <2>3. \A i \in 1..Len(d.spill) : d.spill[i] = stream[q + (held - size) + i]
    BY <1>5, <1>14, <2>1
  <2> QED BY <1>13, <2>2, <2>3 DEF InPlace
<1>16. Contents(d, n)
  BY <1>7, <1>11, <1>12, <1>15 DEF Contents
<1> QED
  BY <1>7, <1>9, <1>16 DEF Finished, Restarted, WasReset

\* client_reset leaves a connection ready for its next request.
LEMMA AdvanceLemma ==
  ASSUME NEW k, NEW n, Received(n), Finished(k, n),
         NEW d, d = [client_reset(k) EXCEPT !.in_flight = FALSE]
  PROVE  Restarted(d, n)
<1>1. Typed(k)
  BY DEF Finished, Calm
<1>2. Typed(d)
  BY <1>1, ResetLemma DEF Renewed
<1> QED
  BY <1>1, <1>2, ResetCases, SteppedOver
\* Repacking keeps every byte in its place.
LEMMA RepackedInPlace ==
  ASSUME NEW k, NEW q, NEW p, NEW n, Repacked(k, q), InPlace(k, p, n)
  PROVE  InPlace(q, p, n)
<1>1. client_buffered(q) = client_buffered(k) /\ q.spill = k.spill
  BY DEF Repacked
<1>2. \A i \in 1..client_buffered(k) : q.read_buf[q.read_off + i] = stream[p + i]
  BY DEF Repacked, InPlace
<1> QED
  BY <1>1, <1>2 DEF InPlace

\* Bytes that move from the front of the spill to the end of the buffer are
\* the same bytes in the same order.
LEMMA UnspilledInPlace ==
  ASSUME NEW q \in Client, NEW d, NEW p \in Nat, NEW n, InPlace(q, p, n), q.read_off = 0,
         NEW t \in Nat, t <= Len(q.spill), d.read_off = 0,
         d.read_buf = q.read_buf \o SubSeq(q.spill, 1, t),
         d.spill = SubSeq(q.spill, t + 1, Len(q.spill))
  PROVE  /\ InPlace(d, p, n) /\ client_buffered(d) = Len(q.read_buf) + t
         /\ Len(d.spill) = Len(q.spill) - t /\ Len(d.read_buf) = Len(q.read_buf) + t
<1>1. q.read_buf \in Seq(Byte) /\ q.spill \in Seq(Byte)
  BY ClientFields
<1>2. PICK a \in Seq(Byte) : a = q.read_buf
  BY <1>1
<1>3. PICK s \in Seq(Byte) : s = q.spill
  BY <1>1
<1>4. PICK la \in Nat : la = Len(a)
  OBVIOUS
<1>5. PICK ls \in Nat : ls = Len(s)
  OBVIOUS
<1>6. client_buffered(q) = la
  BY <1>2, <1>4 DEF client_buffered
<1>7. /\ p + la + ls = n
      /\ \A i \in 1..la : a[i] = stream[p + i]
      /\ \A i \in 1..ls : s[i] = stream[p + la + i]
  <2>1. \A i \in 1..la : q.read_buf[q.read_off + i] = stream[p + i]
    BY <1>6 DEF InPlace
  <2>2. ASSUME NEW i \in 1..la PROVE a[i] = stream[p + i]
    <3>1. q.read_off + i = i
      OBVIOUS
    <3> QED BY <1>2, <2>1, <3>1
  <2>3. p + la + ls = n /\ \A i \in 1..ls : s[i] = stream[p + la + i]
    BY <1>3, <1>5, <1>6 DEF InPlace
  <2> QED BY <2>2, <2>3
<1>8. PICK h \in Seq(Byte) : /\ h = SubSeq(s, 1, t) /\ Len(h) = t
                             /\ \A i \in 1..t : h[i] = s[i]
  <2>1. t <= Len(s)
    BY <1>3
  <2>2. /\ SubSeq(s, 1, t) \in Seq(Byte) /\ Len(SubSeq(s, 1, t)) = t
        /\ \A i \in 1..t : SubSeq(s, 1, t)[i] = s[i]
    BY <2>1, HeadAt
  <2> QED BY <2>2
<1>9. PICK r \in Seq(Byte) : /\ r = SubSeq(s, t + 1, Len(s)) /\ Len(r) = ls - t
                             /\ \A i \in 1..(ls - t) : r[i] = s[t + i]
  <2>1. t <= Len(s)
    BY <1>3
  <2>2. SubSeq(s, t + 1, Len(s)) \in Seq(Byte) /\ Len(SubSeq(s, t + 1, Len(s))) = Len(s) - t
    BY <2>1, TailLemma
  <2>3. \A i \in 1..(Len(s) - t) : SubSeq(s, t + 1, Len(s))[i] = s[t + i]
    BY <2>1, TailAt
  <2> QED BY <1>5, <2>2, <2>3
<1>10. d.read_buf = a \o h /\ d.spill = r
  BY <1>2, <1>3, <1>8, <1>9
<1>11. Len(a \o h) = la + t
  BY <1>4, <1>8, ConcatLemma
<1>12. client_buffered(d) = la + t
  <2>1. Len(d.read_buf) = la + t
    BY <1>10, <1>11
  <2>2. client_buffered(d) = (la + t) - 0
    BY <2>1, Zenon DEF client_buffered
  <2> QED BY <2>2
<1>13. ASSUME NEW i \in 1..(la + t)
       PROVE  d.read_buf[d.read_off + i] = stream[p + i]
  <2>1. d.read_off + i = i
    OBVIOUS
  <2>2. CASE i <= la
    <3>1. i \in 1..la
      BY <2>2
    <3>2. (a \o h)[i] = a[i]
      BY <1>4, <3>1, ConcatAt
    <3> QED BY <1>7, <1>10, <2>1, <3>1, <3>2
  <2>3. CASE ~(i <= la)
    <3>1. PICK j \in 1..t : i = la + j
      <4>1. i - la \in 1..t /\ i = la + (i - la)
        BY <2>3
      <4> QED BY <4>1
    <3>2. (a \o h)[la + j] = h[j]
      BY <1>4, <1>8, <3>1, ConcatAt
    <3>3. j \in 1..ls /\ h[j] = s[j]
      BY <1>3, <1>5, <1>8
    <3>4. s[j] = stream[p + la + j]
      BY <1>7, <3>3
    <3>5. p + (la + j) = p + la + j
      BY AddAssoc
    <3> QED BY <1>10, <2>1, <3>1, <3>2, <3>3, <3>4, <3>5
  <2> QED BY <2>2, <2>3
<1>14. ASSUME NEW i \in 1..(ls - t)
       PROVE  d.spill[i] = stream[p + (la + t) + i]
  <2>1. i \in Nat /\ t + i \in 1..ls
    BY <1>5
  <2>2. s[t + i] = stream[p + la + (t + i)]
    BY <1>7, <2>1
  <2>3. p + la + (t + i) = p + (la + t) + i
    BY <2>1
  <2> QED BY <1>9, <1>10, <2>2, <2>3
<1>15. p + (la + t) + (ls - t) = n
  BY <1>3, <1>5, <1>7
<1>16. InPlace(d, p, n)
  <2>1. Len(d.spill) = ls - t
    BY <1>9, <1>10
  <2>2. p + client_buffered(d) + Len(d.spill) = n
    BY <1>12, <1>15, <2>1
  <2>3. \A i \in 1..client_buffered(d) : d.read_buf[d.read_off + i] = stream[p + i]
    BY <1>12, <1>13
  <2>4. \A i \in 1..Len(d.spill) : d.spill[i] = stream[p + client_buffered(d) + i]
    BY <1>12, <1>14, <2>1
  <2> QED BY <2>2, <2>3, <2>4 DEF InPlace
<1> QED
  BY <1>2, <1>3, <1>4, <1>5, <1>9, <1>10, <1>11, <1>12, <1>16

\* tls_spill_drain fills the buffer from the spill and leaves the rest.
LEMMA DrainBase ==
  ASSUME NEW k, NEW n, Received(n), Restarted(k, n), k.tls, NEW d, d = tls_spill_drain(k)
  PROVE  Restarted(d, n) /\ (d.spill # <<>> => client_buffered(d) = READ_BUF_SIZE)
<1> DEFINE q    == client_compact(k)
           p    == BytesOf(k.served)
           room == READ_BUF_SIZE - Len(q.read_buf)
           take == IF Len(q.spill) < room THEN Len(q.spill) ELSE room
           rest == SubSeq(q.spill, take + 1, Len(q.spill))
           buf  == q.read_buf \o SubSeq(q.spill, 1, take)
           e    == [q EXCEPT !.read_buf = buf, !.spill = rest]
<1>1. /\ Typed(k) /\ Contents(k, n) /\ k.handle = "open" /\ ~k.tls_broken /\ ~k.in_flight
      /\ InPlace(k, p, n)
  BY DEF Restarted, Calm, Ready, Contents
<1>2. Typed(d)
  BY <1>1, DrainLemma DEF Renewed
<1>3. d = IF k.spill = <<>> THEN k ELSE e
  BY DEF tls_spill_drain
<1>4. /\ Typed(q) /\ Repacked(k, q) /\ q.read_off = 0
      /\ Len(q.read_buf) = client_buffered(k)
  BY <1>1, CompactLemma, CompactRepacks DEF Moved
<1> HIDE DEF q
<1>5. InPlace(q, p, n)
  BY <1>1, <1>4, RepackedInPlace
<1>6. /\ q \in Client /\ q.read_buf \in Seq(Byte) /\ q.spill \in Seq(Byte)
      /\ Len(q.read_buf) \in Nat /\ Len(q.spill) \in Nat
  BY <1>4, ClientFields DEF Typed
<1>7. room \in Nat
  BY <1>4, <1>6, SizesAssumption DEF Typed, Fits
<1> HIDE DEF room
<1>8. take = IF Len(q.spill) < room THEN Len(q.spill) ELSE room
  OBVIOUS
<1> HIDE DEF take
<1>9. take \in Nat /\ take <= room /\ take <= Len(q.spill)
  BY <1>6, <1>7, <1>8, TakeLemma
<1>10. rest \in Seq(Byte) /\ buf \in Seq(Byte)
  <2>1. SubSeq(q.spill, take + 1, Len(q.spill)) \in Seq(Byte)
    BY <1>6, <1>9, TailLemma, ZenonT(40)
  <2>2. buf \in Seq(Byte)
    BY <1>6, <1>9, SplitLemma, ZenonT(40)
  <2> QED BY <2>1, <2>2
<1>11. buf = q.read_buf \o SubSeq(q.spill, 1, take)
       /\ rest = SubSeq(q.spill, take + 1, Len(q.spill))
  OBVIOUS
<1> HIDE DEF buf, rest
<1>12. e \in Client
  BY <1>6, <1>10 DEF Client
<1>13. SameRest(q, e)
  BY <1>6, <1>10, <1>12 DEF Client, SameRest
<1>14. /\ e.read_buf = buf /\ e.spill = rest /\ e.read_off = q.read_off
       /\ e.last_len = q.last_len /\ e.tls_hs_done = q.tls_hs_done
  BY <1>6, <1>10 DEF Client
<1> HIDE DEF e
<1>15. p \in Nat /\ Boundary(p, k.served)
  <2>1. Boundary(p, k.served)
    BY <1>1 DEF Contents
  <2> QED BY <2>1 DEF Boundary
<1>16. /\ InPlace(e, p, n) /\ client_buffered(e) = Len(q.read_buf) + take
       /\ Len(e.spill) = Len(q.spill) - take
  <2>1. /\ e.read_off = 0 /\ e.read_buf = q.read_buf \o SubSeq(q.spill, 1, take)
        /\ e.spill = SubSeq(q.spill, take + 1, Len(q.spill))
    BY <1>4, <1>11, <1>14, Zenon
  <2> HIDE DEF p
  <2>2. q \in Client /\ p \in Nat /\ InPlace(q, p, n) /\ q.read_off = 0
        /\ take \in Nat /\ take <= Len(q.spill)
    BY <1>4, <1>5, <1>6, <1>9, <1>15, Zenon
  <2>3. /\ InPlace(e, p, n) /\ client_buffered(e) = Len(q.read_buf) + take
        /\ Len(e.spill) = Len(q.spill) - take /\ Len(e.read_buf) = Len(q.read_buf) + take
    BY <2>1, <2>2, UnspilledInPlace, Zenon
  <2> QED BY <2>3, Zenon
<1>17. CASE k.spill = <<>>
  BY <1>3, <1>17
<1>18. CASE k.spill # <<>>
  <2>1. d = e
    BY <1>3, <1>18
  <2>2. e.served = k.served
    BY <1>4, <1>13 DEF Repacked, SameRest
  <2>3. Contents(e, n)
    BY <1>15, <1>16, <2>2 DEF Contents
  <2>4. Calm(e)
    BY <1>2, <1>4, <1>13, <1>14, <2>1 DEF Restarted, Calm, Repacked, SameRest, Ready
  <2>5. Restarted(e, n)
    BY <1>4, <1>13, <1>14, <2>3, <2>4 DEF Restarted, Repacked, SameRest
  <2>6. ASSUME e.spill # <<>> PROVE client_buffered(e) = READ_BUF_SIZE
    <3>1. Len(e.spill) # 0
      BY <1>10, <1>14, <2>6
    <3>2. take = room
      BY <1>6, <1>7, <1>8, <1>16, <3>1
    <3> QED BY <1>6, <1>16, <3>2, SizesAssumption DEF room
  <2> QED BY <2>1, <2>5, <2>6
<1> QED
  BY <1>17, <1>18

\* What the next request starts from.
LEMMA RestartedSound ==
  ASSUME NEW k, NEW n, Received(n), Restarted(k, n),
         k.spill # <<>> => client_buffered(k) = READ_BUF_SIZE
  PROVE  Sound(k, n) /\ Owned(k)
<1>1. /\ Typed(k) /\ Contents(k, n) /\ k.handle = "open" /\ k.write = "idle"
      /\ ~k.tls_broken /\ ~k.in_flight
  BY DEF Restarted, Calm, Ready
<1>2. client_buffered(k) > 0 => k.last_len < FrontByte(k).hdr
  <2> SUFFICES ASSUME client_buffered(k) > 0 PROVE 0 < FrontByte(k).hdr
    BY DEF Restarted
  <2>1. FrontByte(k) \in Byte
    BY <1>1, FrontLemma
  <2> HIDE DEF FrontByte
  <2> QED BY <2>1 DEF Byte
<1>3. Fresh(k)
  BY <1>2 DEF Restarted, Calm, Fresh
<1>4. Replying(k) /\ Held(k)
  BY <1>1 DEF Restarted, Calm, Replying, Held
<1>5. Ending(k)
  BY <1>1 DEF Restarted, Calm, Ending
<1>6. Broken(k) /\ Begun(k) /\ Owned(k)
  BY <1>1 DEF Broken, Begun, Owned
<1> QED
  BY <1>1, <1>3, <1>4, <1>5, <1>6 DEF Sound
\* Reading goes on again behind a response.
LEMMA RearmBase ==
  ASSUME NEW k, NEW n, Typed(k), Base(k, n), Pending(k), Protocol(k), k.write # "final",
         ~k.tls_broken, NEW d, d = Rearmed(k)
  PROVE  Base(d, n) /\ Pending(d) /\ Armed(d)
<1>1. CASE k.tls
  BY <1>1, TlsFlowBase DEF Rearmed
<1>2. CASE ~k.tls
  <2> DEFINE b == k.read_armed \/ ~k.in_flight
  <2>1. b \in BOOLEAN /\ k \in Client
    BY DEF Typed, Client
  <2>2. d = [k EXCEPT !.read_armed = b]
    BY <1>2 DEF Rearmed
  <2>3. ~k.in_flight => b
    OBVIOUS
  <2> HIDE DEF b
  <2>4. /\ Sound(d, n) /\ (Owned(k) => Owned(d)) /\ (Pending(k) => Pending(d))
        /\ SameRead(k, d) /\ d.read_armed = b
    BY <2>1, <2>2, ArmSound DEF Base
  <2>5. d.in_flight = k.in_flight
    BY <2>4 DEF SameRead
  <2> QED BY <2>3, <2>4, <2>5 DEF Base, Armed
<1> QED
  BY <1>1, <1>2

\* The keep-alive half of on_write: the bytes of the answered request are
\* stepped over, and what is buffered behind them is dispatched.
LEMMA NextRequestBase ==
  ASSUME NEW k, NEW n, Received(n), Finished(k, n), NEW d \in NextRequest(k)
  PROVE  Base(d, n) /\ Pending(d) /\ Armed(d) /\ Answers(k, d, n)
<1> DEFINE reset   == [client_reset(k) EXCEPT !.in_flight = FALSE]
           drained == IF reset.tls THEN tls_spill_drain(reset) ELSE reset
<1>1. Restarted(reset, n)
  BY AdvanceLemma
<1>2. d \in IF client_buffered(drained) = 0 THEN {Rearmed(drained)}
            ELSE IF Parse(drained) = "bad" THEN http_dispatch(drained)
            ELSE {Rearmed(e) : e \in http_dispatch(drained)}
  BY DEF NextRequest, Rearmed
<1>3. reset.wire = k.wire /\ k.handle = "open"
  <2>1. Typed(k) /\ k.handle = "open"
    BY DEF Finished, Calm, Ready
  <2> QED BY <2>1 DEF client_reset, Typed, Client
<1> HIDE DEF reset
<1>4. Restarted(drained, n) /\ (drained.spill # <<>> => client_buffered(drained) = READ_BUF_SIZE)
  <2>1. CASE reset.tls
    BY <1>1, <2>1, DrainBase
  <2>2. CASE ~reset.tls
    <3>1. reset.spill = <<>>
      BY <1>1, <2>2 DEF Restarted, Calm, Typed, Fits
    <3> QED BY <1>1, <2>2, <3>1
  <2> QED BY <2>1, <2>2
<1>5. drained.wire = reset.wire
  <2>1. CASE ~(reset.tls /\ reset.spill # <<>>)
    BY <2>1 DEF tls_spill_drain
  <2>2. CASE reset.tls /\ reset.spill # <<>>
    <3> DEFINE q == client_compact(reset)
    <3>1. q \in Client /\ q.wire = reset.wire
      BY <1>1, CompactRepacks DEF Restarted, Calm, Repacked, SameRest
    <3>2. PICK x, y : drained = [q EXCEPT !.read_buf = x, !.spill = y]
      BY <2>2 DEF tls_spill_drain
    <3> HIDE DEF q, drained
    <3> QED BY <3>1, <3>2 DEF Client
  <2> QED BY <2>1, <2>2
<1> HIDE DEF drained
<1>6. Sound(drained, n) /\ Owned(drained)
  BY <1>4, RestartedSound
<1>7. /\ Typed(drained) /\ Ready(drained) /\ drained.waiting = {} /\ ~drained.in_flight
      /\ ~drained.tls_broken /\ (drained.tls => drained.tls_hs_done)
  BY <1>4 DEF Restarted, Calm
<1>8. Protocol(drained) /\ drained.write # "final" /\ Resting(drained)
  BY <1>7 DEF Protocol, Ready, Resting
<1>9. Silent(k, drained)
  BY <1>7, <1>3, <1>5 DEF Silent
<1>10. client_buffered(drained) # 0 => client_buffered(drained) > 0
  BY <1>7, WindowType
<1>11. CASE client_buffered(drained) = 0
  <2>1. d = Rearmed(drained)
    BY <1>2, <1>11
  <2>2. Pending(drained)
    BY <1>11 DEF Pending
  <2>3. Silent(drained, d)
    BY <1>7, <2>1, FlowSilent
  <2>4. Answers(k, d, n)
    BY <1>9, <2>3, SilentAnswers
  <2> QED BY <1>6, <1>7, <1>8, <2>1, <2>2, <2>4, RearmBase DEF Base
<1>12. CASE client_buffered(drained) # 0 /\ Parse(drained) = "bad"
  <2>1. d \in http_dispatch(drained)
    BY <1>2, <1>12
  <2>2. Base(d, n) /\ Pending(d) /\ ~Live(d) /\ Answers(drained, d, n)
    BY <1>6, <1>7, <1>10, <1>12, <2>1, DispatchBase
  <2> QED BY <1>9, <2>2, SilentAnswers DEF Armed
<1>13. CASE client_buffered(drained) # 0 /\ Parse(drained) # "bad"
  <2>1. PICK e \in http_dispatch(drained) : d = Rearmed(e)
    BY <1>2, <1>13
  <2>2. Typed(e) /\ Dispatched(drained, e)
    BY <1>7, <1>10, <1>13, DispatchLemma
  <2>3. Protocol(e) /\ e.write # "final"
    BY <1>8, <2>2 DEF Dispatched
  <2>4. Base(e, n) /\ Pending(e) /\ ~e.tls_broken /\ Answers(drained, e, n)
    BY <1>6, <1>7, <1>10, <1>13, DispatchBase
  <2>5. Silent(e, d)
    BY <2>1, <2>2, FlowSilent
  <2>6. Answers(k, d, n)
    BY <1>9, <2>4, <2>5, SilentAnswers
  <2> QED BY <2>1, <2>2, <2>3, <2>4, <2>6, RearmBase
<1> QED
  BY <1>11, <1>12, <1>13

\* on_write ends the connection of a request that asked for it, or whose
\* response could not be written, and goes on to the next one otherwise.
LEMMA OnWriteBase ==
  ASSUME NEW k, NEW n, Typed(k), Received(n), Base(k, n), Protocol(k),
         k.write = "response", NEW ok \in BOOLEAN, ok \/ peer = "reset",
         NEW d \in on_write(k, ok)
  PROVE  Base(d, n) /\ Pending(d) /\ Armed(d) /\ Answers(k, d, n)
<1> DEFINE cache == k.objs \cap {"conn"}
           none  == {}
           done  == [k EXCEPT !.write = "idle", !.pins = none, !.wblock = FALSE,
                              !.objs  = cache]
           ended == [done EXCEPT !.objs = none]
<1>1. k \in Client
  BY DEF Typed
<1>2. /\ cache \in SUBSET {"status", "body", "task", "conn"} /\ cache \subseteq {"conn"}
      /\ none \in SUBSET {"status", "body", "task", "conn"} /\ none \subseteq {"conn"}
      /\ none \in SUBSET {"body", "block"}
  BY <1>1 DEF Client
<1>3. \/ ok /\ k.keep_alive /\ d \in NextRequest(done)
      \/ ~(ok /\ k.keep_alive) /\ d \in FinalOrClose(ended, <<>>)
      \/ /\ ~(ok /\ k.keep_alive) /\ d = uv_close(ended)
         /\ ~(ok /\ k.tls /\ ~k.tls_broken /\ k.tls_hs_done)
  BY DEF on_write
<1> HIDE DEF cache, none
<1>4. done \in Client
  BY <1>1, <1>2 DEF Client
<1>5. /\ SameBuffers(k, done) /\ done.last_len = k.last_len
      /\ done.consumed = k.consumed /\ done.served = k.served
      /\ done.in_flight = k.in_flight /\ done.writable = k.writable
      /\ done.tls_hs_done = k.tls_hs_done /\ done.tls_broken = k.tls_broken
  BY <1>1, <1>2 DEF Client, SameBuffers
<1>6. /\ done.handle = k.handle /\ done.write = "idle" /\ done.waiting = k.waiting
      /\ done.wire = k.wire /\ done.keep_alive = k.keep_alive /\ done.objs = cache
  BY <1>1, <1>2 DEF Client
<1> HIDE DEF done
<1>7. ended \in Client
  BY <1>2, <1>4 DEF Client
<1>8. /\ SameBuffers(done, ended) /\ ended.last_len = done.last_len
      /\ ended.consumed = done.consumed /\ ended.served = done.served
      /\ ended.in_flight = done.in_flight /\ ended.writable = done.writable
      /\ ended.tls_hs_done = done.tls_hs_done /\ ended.tls_broken = done.tls_broken
  BY <1>2, <1>4 DEF Client, SameBuffers
<1>9. /\ ended.handle = done.handle /\ ended.write = done.write
      /\ ended.waiting = done.waiting
      /\ ended.wire = done.wire /\ ended.keep_alive = done.keep_alive /\ ended.objs = none
  BY <1>2, <1>4 DEF Client
<1> HIDE DEF ended
<1>10. SameRead(k, done) /\ SameRead(k, ended)
  <2>1. SameRead(k, done)
    BY <1>4, <1>5 DEF SameRead
  <2>2. SameRead(done, ended)
    BY <1>7, <1>8 DEF SameRead
  <2> QED BY <2>1, <2>2 DEF SameRead, SameBuffers
<1>11. k.handle = "open" /\ Live(k) /\ k.in_flight /\ k.waiting = {} /\ Sound(k, n)
  BY DEF Protocol, Live, Base
<1>12. Contents(k, n) /\ Contents(done, n) /\ Contents(ended, n)
  <2>1. Contents(k, n)
    BY <1>11 DEF Sound
  <2> QED BY <1>10, <1>11, <2>1, SameReadViews
<1>13. ~k.writable => peer = "reset"
  BY <1>11 DEF Sound, Ending
<1>14. (\A i \in DOMAIN k.wire : k.wire[i] = i) /\ Len(k.wire) = k.served + 1
  BY <1>11 DEF Sound, Replying
<1>15. /\ client_buffered(k) > 0 /\ k.consumed = Size(FrontByte(k))
       /\ k.consumed <= client_buffered(k) /\ (k.tls => k.tls_hs_done)
  BY <1>11 DEF Sound, Begun
<1>16. CASE ok /\ k.keep_alive /\ d \in NextRequest(done)
  <2>1. ~k.tls_broken
    BY <1>11, <1>16 DEF Sound, Broken
  <2>2. Typed(done)
    BY <1>4, <1>5, SameTyped
  <2>3. Calm(done)
    BY <1>2, <1>5, <1>6, <1>11, <1>13, <1>14, <1>15, <2>1, <2>2 DEF Calm, Ready, SameBuffers
  <2>4. client_buffered(done) = client_buffered(k) /\ FrontByte(done) = FrontByte(k)
    BY <1>10, SameReadViews
  <2>5. Finished(done, n)
    BY <1>5, <1>6, <1>12, <1>14, <1>15, <2>3, <2>4 DEF Finished
  <2>6. Silent(k, done)
    BY <1>6 DEF Silent
  <2> QED BY <1>16, <2>5, <2>6, NextRequestBase, SilentAnswers
<1>17. ASSUME ~(ok /\ k.keep_alive) PROVE Cause(ended)
  BY <1>5, <1>6, <1>8, <1>9, <1>11, <1>17 DEF Cause
<1>18. Ready(ended) /\ ended.handle = "open" /\ (~ended.writable => peer = "reset")
  BY <1>5, <1>6, <1>8, <1>9, <1>11, <1>13 DEF Ready
<1>19. ended.wire = k.wire /\ ended.objs \subseteq {"conn"}
  BY <1>2, <1>6, <1>9
<1>20. CASE ~(ok /\ k.keep_alive) /\ d \in FinalOrClose(ended, <<>>)
  <2>1. PICK rs \in Seq(Nat) : rs = <<>>
    <3>1. <<>> \in Seq(Nat)
      OBVIOUS
    <3> QED BY <3>1
  <2>2. /\ SameRead(ended, d) /\ d.waiting = ended.waiting /\ d.keep_alive = ended.keep_alive /\ d.objs = ended.objs
        /\ \/ /\ d.handle = "open" /\ d.write = "final" /\ d.wire = ended.wire \o rs
              /\ d.alert /\ Held(d)
           \/ /\ d.handle = "closing" /\ d.write = "idle" /\ d.wire = ended.wire
              /\ ~ended.writable \/ Fault("nomem")
    BY <1>7, <1>18, <1>20, <2>1, FinalOutcome
  <2>3. ended.wire \o rs = ended.wire
    <3>1. ended.wire \in Seq(Nat)
      BY <1>7 DEF Client
    <3> QED BY <2>1, <3>1
  <2>4. d.wire = k.wire
    BY <1>19, <2>2, <2>3
  <2>5. Ends(ended, d)
    BY <1>14, <1>19, <2>2, <2>4 DEF Ends
  <2>6. Answers(k, d, n)
    BY <1>6, <1>9, <1>11, <2>2, <2>4 DEF Answers
  <2> QED BY <1>12, <1>17, <1>18, <1>20, <2>5, <2>6, EndBase
<1>21. CASE /\ ~(ok /\ k.keep_alive) /\ d = uv_close(ended)
            /\ ~(ok /\ k.tls /\ ~k.tls_broken /\ k.tls_hs_done)
  <2>1. /\ SameRead(ended, d) /\ d.waiting = ended.waiting /\ d.keep_alive = ended.keep_alive /\ d.objs = ended.objs
        /\ d.write = ended.write /\ d.wire = ended.wire /\ d.handle = "closing"
    BY <1>7, <1>18, <1>21, CloseOutcome
  <2>2. ended.tls /\ ~ended.tls_broken => peer # "open"
    BY <1>5, <1>8, <1>15, <1>21 DEF SameBuffers
  <2>3. Ends(ended, d)
    BY <1>6, <1>9, <1>14, <1>19, <2>1, <2>2 DEF Ends
  <2>4. Answers(k, d, n)
    BY <1>6, <1>9, <1>11, <1>19, <2>1 DEF Answers
  <2> QED BY <1>12, <1>17, <1>18, <1>21, <2>3, <2>4, EndBase
<1> QED
  BY <1>3, <1>16, <1>20, <1>21
-----------------------------------------------------------------------------
(* The actions *)

\* What every action keeps of a tame connection.
Keeps == Base(c', rcvd') /\ Pending(c') /\ Armed(c') /\ Answers(c, c', rcvd')

\* The invariant and what is known of a state besides.
Known == SafeInv /\ DataInv

\* What the invariant says of a connection that is reading.
LEMMA KnownFacts ==
  ASSUME Known
  PROVE  /\ Typed(c) /\ c \in Client /\ Protocol(c) /\ Roomy(c) /\ Received(rcvd)
         /\ Base(c, rcvd) /\ Sound(c, rcvd) /\ Owned(c) /\ Pending(c) /\ Armed(c)
         /\ Settled(c, rcvd)
         /\ Reading => Live(c) /\ ~c.tls_broken /\ c.handle = "open" /\ c.read_armed
                       /\ c.spill = <<>>
<1>1. /\ Typed(c) /\ c \in Client /\ Protocol(c) /\ Roomy(c)
      /\ Base(c, rcvd) /\ Sound(c, rcvd) /\ Owned(c) /\ Pending(c) /\ Armed(c)
      /\ Settled(c, rcvd)
  BY DEF Known, SafeInv, TypeInv, DataInv, Base, Typed
<1>2. Received(rcvd)
  BY DEF Known, SafeInv, TypeInv, DataInv, Received
<1>3. ASSUME Reading
      PROVE  Live(c) /\ ~c.tls_broken /\ c.handle = "open" /\ c.read_armed /\ c.spill = <<>>
  <2>1. c.handle = "open" /\ c.read_armed
    BY <1>3 DEF Reading
  <2>2. Live(c) /\ c.spill = <<>>
    BY <1>1, <2>1 DEF Protocol, Live, Roomy
  <2>3. ~c.tls_broken
    BY <1>1, <2>1, <2>2 DEF Sound, Broken
  <2> QED BY <2>1, <2>2, <2>3
<1> QED
  BY <1>1, <1>2, <1>3

\* The next n bytes of the stream, one by one.
LEMMA TakeAt ==
  ASSUME Received(rcvd), NEW n \in Nat, rcvd + n <= Len(stream)
  PROVE  /\ Take(n) \in Seq(Byte) /\ Len(Take(n)) = n
         /\ \A i \in 1..n : Take(n)[i] = stream[rcvd + i]
<1>1. stream \in Seq(Byte) /\ rcvd \in Nat /\ rcvd <= Len(stream) /\ Len(stream) \in Nat
  BY DEF Received
<1> QED
  BY <1>1 DEF Take

\* A plaintext read of any length: the bytes are stored behind the others.
LEMMA ReadPlainKeeps ==
  ASSUME Known, OnReadPlain
  PROVE  Keeps
<1> DEFINE k == CompactUnlessInFlight(c)
<1>1. PICK n \in 1..(READ_BUF_SIZE - Len(k.read_buf)) :
        /\ rcvd + n <= Len(stream)
        /\ rcvd' = rcvd + n
        /\ c' \in DispatchThenFlow([k EXCEPT !.read_buf = k.read_buf \o Take(n)])
  BY DEF OnReadPlain
<1>2. Reading /\ ~c.tls
  BY DEF OnReadPlain
<1>3. Compacted(c, k, rcvd)
  BY <1>2, KnownFacts, CompactUnlessBase
<1> HIDE DEF k
<1>4. /\ Typed(k) /\ k \in Client /\ k.read_buf \in Seq(Byte) /\ Len(k.read_buf) \in Nat
      /\ ~k.tls /\ ~k.tls_broken /\ k.spill = <<>> /\ k.read_armed
  <2>1. Typed(k) /\ k \in Client
    BY <1>3 DEF Compacted, Typed
  <2>2. k.read_buf \in Seq(Byte) /\ Len(k.read_buf) \in Nat
    BY <2>1, ClientFields
  <2> QED BY <1>2, <1>3, <2>1, <2>2, KnownFacts DEF Compacted, SameRest
<1>5. n \in Nat /\ n >= 1 /\ Len(k.read_buf) + n <= READ_BUF_SIZE
  BY <1>1, <1>4, SizesAssumption
<1>6. PICK a \in Seq(Byte) : /\ a = Take(n) /\ Len(a) = n
                             /\ \A i \in 1..n : a[i] = stream[rcvd + i]
  BY <1>1, <1>5, KnownFacts, TakeAt
<1> DEFINE buf == k.read_buf \o a
           q   == [k EXCEPT !.read_buf = buf]
<1>7. buf \in Seq(Byte) /\ Len(buf) = Len(k.read_buf) + n
  <2>1. buf \in Seq(Byte) /\ Len(buf) = Len(k.read_buf) + Len(a)
    BY <1>4, ConcatLemma
  <2> QED BY <1>6, <2>1
<1>8. buf = k.read_buf \o a
  OBVIOUS
<1>9. c' \in DispatchThenFlow(q)
  BY <1>1, <1>6
<1> HIDE DEF buf
<1>10. Typed(q)
  <2>1. Len(buf) <= READ_BUF_SIZE /\ Len(k.read_buf) <= Len(buf)
    BY <1>4, <1>5, <1>7
  <2> HIDE DEF q
  <2> QED BY <1>4, <1>7, <2>1, GrowLemma DEF q
<1>11. q \in Client
  BY <1>10 DEF Typed
<1>12. SameRest(k, q)
  BY <1>4, <1>7, <1>11 DEF Client, SameRest
<1>13. /\ q.read_armed = k.read_armed /\ q.last_len = k.last_len
       /\ q.consumed = k.consumed /\ q.tls_hs_done = k.tls_hs_done
       /\ q.read_off = k.read_off /\ q.read_buf = buf /\ q.spill = k.spill
  BY <1>4, <1>7 DEF Client
<1> HIDE DEF q
<1>14. PICK b \in Seq(Byte) : b = <<>> /\ Len(b) = 0
  <2>1. <<>> \in Seq(Byte) /\ Len(<<>>) = 0
    OBVIOUS
  <2> QED BY <2>1
<1>15. Stored(k, a, b, q)
  BY <1>4, <1>8, <1>12, <1>13, <1>14 DEF Stored
<1>16. Arriving(rcvd, a, b)
  <2>1. \A i \in 1..Len(b) : b[i] = stream[rcvd + Len(a) + i]
    BY <1>14
  <2>2. \A i \in 1..Len(a) : a[i] = stream[rcvd + i]
    BY <1>6
  <2> QED BY <2>1, <2>2 DEF Arriving
<1>17. rcvd \in Nat /\ rcvd + Len(a) + Len(b) = rcvd + n
  <2>1. rcvd \in Nat
    BY KnownFacts, ByteFields DEF Received
  <2> QED BY <1>5, <1>6, <1>14, <2>1
<1>18. client_buffered(k) + Len(a) > 0
  BY <1>4, <1>5, <1>6, WindowType
<1>19. rcvd + Len(a) + Len(b) <= Len(stream)
  BY <1>1, <1>17
<1>20. \A e \in DispatchThenFlow(q) :
         /\ Base(e, rcvd + Len(a) + Len(b)) /\ Pending(e) /\ Armed(e)
         /\ Answers(c, e, rcvd + Len(a) + Len(b))
  BY <1>3, <1>4, <1>10, <1>15, <1>16, <1>18, <1>19, KnownFacts, ArrivalBase
<1> QED
  BY <1>1, <1>9, <1>17, <1>20 DEF Keeps

\* A sweep of plaintext, by a connection whose handshake is done.
LEMMA SweepKeeps ==
  ASSUME Known, NEW k, Typed(k), k.tls, k.tls_hs_done, Base(k, rcvd), Pending(k), Armed(k),
         Protocol(k), Roomy(k), k.handle = "open", k.read_armed, Silent(c, k),
         NEW n \in 0..MaxSweep, rcvd + n <= Len(stream),
         rcvd' = rcvd + n, c' \in tls_receive(k, Take(n))
  PROVE  Keeps
<1>1. n \in Nat /\ n <= TLS_SPILL_SIZE
  BY SizesAssumption
<1>2. PICK a \in Seq(Byte) : /\ a = Take(n) /\ Len(a) = n
                             /\ \A i \in 1..n : a[i] = stream[rcvd + i]
  BY <1>1, KnownFacts, TakeAt
<1>3. rcvd + Len(a) <= Len(stream) /\ Len(a) <= TLS_SPILL_SIZE
  BY <1>1, <1>2
<1>4. \A i \in 1..Len(a) : a[i] = stream[rcvd + i]
  BY <1>2
<1>5. c' \in tls_receive(k, a)
  BY <1>2
<1>6. /\ Base(c', rcvd + Len(a)) /\ Pending(c') /\ Armed(c')
      /\ Answers(k, c', rcvd + Len(a))
  BY <1>3, <1>4, <1>5, KnownFacts, ReceiveBase
<1>7. Answers(c, c', rcvd')
  BY <1>2, <1>6, SilentAnswers
<1> QED
  BY <1>2, <1>6, <1>7 DEF Keeps

\* on_read with records that decrypt.
LEMMA ReadTlsKeeps ==
  ASSUME Known, OnReadTls
  PROVE  Keeps
<1>1. PICK n \in 1..MaxSweep : /\ rcvd + n <= Len(stream) /\ rcvd' = rcvd + n
                               /\ c' \in tls_receive(c, Take(n))
  BY DEF OnReadTls
<1>2. n \in 0..MaxSweep
  BY <1>1, SizesAssumption
<1>3. Reading /\ c.tls /\ c.tls_hs_done
  BY DEF OnReadTls
<1>4. Silent(c, c)
  BY DEF Silent
<1> QED
  BY <1>1, <1>2, <1>3, <1>4, KnownFacts, SweepKeeps

\* on_read with a record that does not.
LEMMA BadRecordKeeps ==
  ASSUME Known, OnReadBadRecord
  PROVE  Keeps
<1> DEFINE k == CompactUnlessInFlight(c)
<1>1. c' = tls_read_failed(k) /\ rcvd' = rcvd /\ Reading
  BY DEF OnReadBadRecord
<1>2. Compacted(c, k, rcvd)
  BY <1>1, KnownFacts, CompactUnlessBase
<1> HIDE DEF k
<1>3. Answers(c, c', rcvd')
  <2>1. Silent(c, k) /\ k \in Client /\ k.handle = "open"
    BY <1>2, SameRestSilent DEF Compacted, Live, Typed
  <2>2. Silent(k, c')
    BY <1>1, <2>1, ReadEndsSilent
  <2>3. Silent(c, c')
    BY <2>1, <2>2 DEF Silent
  <2> QED BY <2>3, SilentAnswers
<1> QED
  BY <1>1, <1>2, <1>3, ReadFailedBase DEF Compacted, Keeps
\* Nothing the invariant speaks of has changed.
Untouched(k, d) ==
  SameRead(k, d) /\ SameRest(k, d) /\ d.read_armed = k.read_armed

\* Then it still holds.
LEMMA UntouchedBase ==
  ASSUME NEW k, NEW d, NEW n, Untouched(k, d), Base(k, n), Pending(k), Armed(k)
  PROVE  Base(d, n) /\ Pending(d) /\ Armed(d)
<1>1. /\ client_buffered(d) = client_buffered(k) /\ FrontByte(d) = FrontByte(k)
      /\ \A p : InPlace(k, p, n) => InPlace(d, p, n)
  BY SameReadViews DEF Untouched
<1>2. SameRest(k, d) /\ SameRead(k, d) /\ d.read_armed = k.read_armed
  BY DEF Untouched
<1>3. Sound(k, n) /\ Owned(k)
  BY DEF Base
<1>4. Live(d) <=> Live(k)
  BY <1>2 DEF SameRest, Live
<1>5. Contents(d, n)
  BY <1>1, <1>2, <1>3 DEF Sound, Contents, SameRest
<1>6. Broken(d)
  BY <1>2, <1>3, <1>4 DEF Sound, Broken, SameRest
<1>7. Begun(d)
  <2>1. Begun(k)
    BY <1>3 DEF Sound
  <2> QED BY <1>1, <1>2, <1>4, <2>1 DEF Begun, SameRest, SameRead, SameBuffers
<1>8. Fresh(d)
  <2>1. Fresh(k)
    BY <1>3 DEF Sound
  <2> QED BY <1>1, <1>2, <1>4, <2>1 DEF Fresh, SameRest, SameRead, SameBuffers
<1>9. Replying(d) /\ Held(d)
  BY <1>2, <1>3, <1>4 DEF Sound, Replying, Held, SameRest
<1>10. Cause(k) => Cause(d)
  BY <1>1, <1>2 DEF Cause, SameRest
<1>11. Ending(d)
  <2>1. Ending(k)
    BY <1>3 DEF Sound
  <2> QED BY <1>2, <1>10, <2>1 DEF Ending, SameRest
<1>12. Owned(d)
  BY <1>2, <1>3, <1>4 DEF Owned, SameRest
<1>13. Pending(d) /\ Armed(d)
  BY <1>1, <1>2, <1>4 DEF Pending, Armed, SameRest
<1> QED
  BY <1>5, <1>6, <1>7, <1>8, <1>9, <1>11, <1>12, <1>13 DEF Base, Sound

\* A handshake flight more or less is nothing the invariant speaks of.
LEMMA FlightsUntouched ==
  ASSUME NEW k \in Client, NEW f \in Nat, NEW d, d = [k EXCEPT !.flights = f]
  PROVE  Untouched(k, d) /\ d.handle = k.handle /\ d.write = k.write
<1>1. d \in Client
  BY DEF Client
<1>2. SameRest(k, d)
  <2>1. /\ d.handle = k.handle /\ d.write = k.write /\ d.wire = k.wire /\ d.alert = k.alert
        /\ d.waiting = k.waiting /\ d.keep_alive = k.keep_alive /\ d.writable = k.writable
    BY DEF Client
  <2>2. /\ d.objs = k.objs /\ d.pins = k.pins /\ d.wblock = k.wblock
        /\ d.in_flight = k.in_flight /\ d.served = k.served
        /\ d.tls = k.tls /\ d.tls_broken = k.tls_broken
    BY DEF Client
  <2> QED BY <1>1, <2>1, <2>2 DEF SameRest
<1>3. /\ SameBuffers(k, d) /\ d.last_len = k.last_len /\ d.consumed = k.consumed
      /\ d.tls_hs_done = k.tls_hs_done /\ d.read_armed = k.read_armed
  BY DEF Client, SameBuffers
<1> QED
  BY <1>1, <1>2, <1>3 DEF Untouched, SameRead, SameRest

\* What is untouched keeps the rest of the invariant too.
LEMMA UntouchedSafe ==
  ASSUME NEW k, NEW d, Untouched(k, d), Typed(k), Protocol(k), Roomy(k)
  PROVE  Typed(d) /\ Protocol(d) /\ Roomy(d)
<1>1. Typed(d)
  BY SameTyped DEF Untouched, SameRead, SameRest
<1>2. Protocol(d)
  BY DEF Untouched, SameRest, Protocol
<1>3. Roomy(d)
  BY DEF Untouched, SameRest, SameRead, SameBuffers, Roomy
<1> QED
  BY <1>1, <1>2, <1>3

\* The end of the handshake, which no request was begun before.
LEMMA HandshakeDoneBase ==
  ASSUME NEW k, NEW n, Typed(k), Protocol(k), Roomy(k), Base(k, n), Pending(k), Armed(k),
         Live(k), ~k.tls_broken, NEW d, d = [k EXCEPT !.tls_hs_done = TRUE]
  PROVE  /\ Typed(d) /\ Protocol(d) /\ Roomy(d) /\ Base(d, n) /\ Pending(d) /\ Armed(d)
         /\ SameRest(k, d) /\ d.read_armed = k.read_armed /\ d.tls_hs_done
<1>1. k \in Client /\ Sound(k, n) /\ Owned(k)
  BY DEF Typed, Base
<1>2. d \in Client
  BY <1>1 DEF Client
<1>3. SameRest(k, d)
  BY <1>1, <1>2, ZenonT(40) DEF Client, SameRest
<1>4. /\ SameBuffers(k, d) /\ d.last_len = k.last_len /\ d.consumed = k.consumed
      /\ d.tls_hs_done /\ d.read_armed = k.read_armed
  BY <1>1 DEF Client, SameBuffers
<1>5. /\ client_buffered(d) = client_buffered(k) /\ FrontByte(d) = FrontByte(k)
  BY <1>4 DEF client_buffered, FrontByte, SameBuffers
<1>6. Contents(d, n)
  <2>1. Contents(k, n)
    BY <1>1 DEF Sound
  <2>2. ASSUME NEW p, InPlace(k, p, n) PROVE InPlace(d, p, n)
    BY ZenonT(40), <1>4, <1>5, <2>2 DEF InPlace, SameBuffers
  <2>3. d.served = k.served /\ d.handle = k.handle /\ d.tls_broken = k.tls_broken
    BY <1>3 DEF SameRest
  <2> HIDE DEF Boundary
  <2> QED BY <2>1, <2>2, <2>3 DEF Contents
<1>7. Live(d)
  BY <1>3 DEF Live, SameRest
<1>8. Begun(d) /\ Fresh(d)
  <2>1. Begun(k) /\ Fresh(k)
    BY <1>1 DEF Sound
  <2>2. Begun(d)
    BY <1>3, <1>4, <1>5, <2>1 DEF Begun, SameRest, SameBuffers
  <2>3. Fresh(d)
    BY <1>3, <1>4, <1>5, <2>1 DEF Fresh, SameRest, SameBuffers
  <2> QED BY <2>2, <2>3
<1>9. Sound(d, n) /\ Owned(d)
  BY <1>1, <1>3, <1>6, <1>8, SoundFrom
<1>10. Pending(d) /\ Armed(d)
  BY <1>3, <1>4, <1>5, <1>7 DEF Pending, Armed, SameRest
<1>11. Typed(d)
  BY <1>2, <1>4, SameTyped
<1>12. Protocol(d) /\ Roomy(d)
  BY <1>3, <1>4 DEF Protocol, Roomy, SameRest, SameBuffers
<1> QED
  BY <1>3, <1>4, <1>9, <1>10, <1>11, <1>12 DEF Base

\* on_read during the handshake, early application data included.
LEMMA HandshakeKeeps ==
  ASSUME Known, OnReadHandshake
  PROVE  Keeps
<1>1. PICK k \in tls_hs_send(c) :
        \/ c' = k /\ rcvd' = rcvd
        \/ c' = tls_read_failed(k) /\ rcvd' = rcvd
        \/ \E n \in 0..MaxSweep :
             /\ rcvd + n <= Len(stream) /\ rcvd' = rcvd + n
             /\ c' \in tls_receive([k EXCEPT !.tls_hs_done = TRUE], Take(n))
  BY DEF OnReadHandshake
<1>2. Reading /\ c.tls
  BY DEF OnReadHandshake
<1>3. Untouched(c, k)
  <2>1. PICK f \in Nat : f = c.flights + 1
    BY KnownFacts DEF Client
  <2>2. k = c \/ k = [c EXCEPT !.flights = f]
    BY <2>1 DEF tls_hs_send
  <2>3. CASE k = c
    BY <2>3, KnownFacts DEF Untouched, SameRest, SameRead, SameBuffers
  <2>4. CASE k = [c EXCEPT !.flights = f]
    BY <2>4, KnownFacts, FlightsUntouched
  <2> QED BY <2>2, <2>3, <2>4
<1>4. /\ Typed(k) /\ Protocol(k) /\ Roomy(k)
      /\ Base(k, rcvd) /\ Pending(k) /\ Armed(k)
  BY <1>3, KnownFacts, UntouchedSafe, UntouchedBase
<1>5. Live(k) /\ ~k.tls_broken /\ k.handle = "open" /\ k.read_armed /\ k.tls
  BY <1>2, <1>3, KnownFacts DEF Untouched, SameRest, Live
<1>6. Silent(c, k)
  BY <1>3, SameRestSilent DEF Untouched
<1>7. CASE c' = k /\ rcvd' = rcvd
  BY <1>4, <1>7, <1>6, SilentAnswers DEF Keeps
<1>8. CASE c' = tls_read_failed(k) /\ rcvd' = rcvd
  <2>1. Base(c', rcvd') /\ Pending(c') /\ Armed(c')
    BY <1>4, <1>5, <1>8, ReadFailedBase DEF Base
  <2>2. Silent(k, c')
    BY <1>4, <1>5, <1>8, ReadEndsSilent DEF Typed
  <2>3. Silent(c, c')
    BY <1>6, <2>2 DEF Silent
  <2> QED BY <2>1, <2>3, SilentAnswers DEF Keeps
<1>9. CASE \E n \in 0..MaxSweep :
             /\ rcvd + n <= Len(stream) /\ rcvd' = rcvd + n
             /\ c' \in tls_receive([k EXCEPT !.tls_hs_done = TRUE], Take(n))
  <2> DEFINE q == [k EXCEPT !.tls_hs_done = TRUE]
  <2>1. PICK n \in 0..MaxSweep : /\ rcvd + n <= Len(stream) /\ rcvd' = rcvd + n
                                 /\ c' \in tls_receive(q, Take(n))
    BY <1>9
  <2>2. /\ Typed(q) /\ Protocol(q) /\ Roomy(q) /\ Base(q, rcvd) /\ Pending(q) /\ Armed(q)
        /\ SameRest(k, q) /\ q.read_armed = k.read_armed /\ q.tls_hs_done
    BY <1>4, <1>5, HandshakeDoneBase
  <2> HIDE DEF q
  <2>3. q.tls /\ q.handle = "open" /\ q.read_armed
    BY <1>5, <2>2 DEF SameRest
  <2>4. Silent(c, q)
    <3>1. Silent(k, q)
      BY <2>2, SameRestSilent
    <3> QED BY <1>6, <3>1 DEF Silent
  <2> QED BY <2>1, <2>2, <2>3, <2>4, SweepKeeps
<1> QED
  BY <1>1, <1>7, <1>8, <1>9

\* A reset seen by the read: nothing can be written any more.
LEMMA UnwritableBase ==
  ASSUME NEW k, NEW n, Typed(k), Protocol(k), Base(k, n), Live(k), peer = "reset",
         NEW d, d = [k EXCEPT !.writable = FALSE]
  PROVE  /\ Typed(d) /\ Protocol(d) /\ Sound(d, n) /\ Owned(d) /\ Live(d)
         /\ d.tls_broken = k.tls_broken /\ d.in_flight = k.in_flight
<1>1. k \in Client /\ Sound(k, n)
  BY DEF Typed, Base
<1>2. d \in Client
  BY <1>1 DEF Client
<1>3. /\ d.handle = k.handle /\ d.write = k.write /\ d.wire = k.wire /\ d.alert = k.alert
      /\ d.waiting = k.waiting /\ d.keep_alive = k.keep_alive /\ ~d.writable
      /\ d.objs = k.objs /\ d.pins = k.pins /\ d.wblock = k.wblock
  BY <1>1 DEF Client
<1>4. /\ SameBuffers(k, d) /\ d.last_len = k.last_len /\ d.consumed = k.consumed
      /\ d.tls_hs_done = k.tls_hs_done /\ d.read_armed = k.read_armed
      /\ d.in_flight = k.in_flight /\ d.served = k.served
      /\ d.tls_broken = k.tls_broken
  BY <1>1 DEF Client, SameBuffers
<1> USE <1>3, <1>4
<1> HIDE DEF Live
<1>5. client_buffered(d) = client_buffered(k) /\ FrontByte(d) = FrontByte(k)
  BY DEF client_buffered, FrontByte, SameBuffers
<1>6. Contents(d, n)
  <2>1. Contents(k, n)
    BY <1>1 DEF Sound
  <2> QED BY <1>5, <2>1 DEF Contents, InPlace, SameBuffers
<1>7. Live(d)
  BY DEF Live
<1>8. Begun(d)
  <2>1. Begun(k)
    BY <1>1 DEF Sound
  <2> QED BY <1>5, <2>1 DEF Begun, SameBuffers
<1>9. Fresh(d)
  <2>1. Fresh(k)
    BY <1>1 DEF Sound
  <2> QED BY <1>5, <2>1 DEF Fresh, SameBuffers
<1>10. Broken(d) /\ Replying(d) /\ Held(d)
  BY <1>1, <1>7 DEF Sound, Broken, Replying, Held
<1>11. Ending(d)
  BY <1>1, <1>7 DEF Ending, Live, Protocol, Cause
<1>12. Owned(d)
  BY DEF Owned
<1>13. Typed(d)
  BY <1>2, SameTyped
<1>14. Protocol(d)
  BY DEF Protocol
<1> QED
  BY <1>6, <1>7, <1>8, <1>9, <1>10, <1>11, <1>12, <1>13, <1>14 DEF Sound

\* EOF, a reset, and UV_ENOBUFS under a request that cannot fit.
LEMMA ReadErrorKeeps ==
  ASSUME Known, OnReadEof \/ OnReadReset \/ OnReadNoBufs
  PROVE  Keeps
<1>1. CASE OnReadEof
  <2>1. Reading /\ peer = "eof" /\ c' = ReadError(c) /\ rcvd' = rcvd
    BY <1>1 DEF OnReadEof
  <2>2. Cause(c)
    BY <2>1 DEF Cause
  <2>3. Answers(c, c', rcvd')
    BY <2>1, KnownFacts, ReadEndsSilent, SilentAnswers
  <2> QED BY <2>1, <2>2, <2>3, KnownFacts, ReadErrorBase DEF Keeps
<1>2. CASE OnReadReset
  <2> DEFINE k == [c EXCEPT !.writable = FALSE]
  <2>1. Reading /\ peer = "reset" /\ c' = ReadError(k) /\ rcvd' = rcvd
    BY <1>2 DEF OnReadReset
  <2>2. /\ Typed(k) /\ Protocol(k) /\ Sound(k, rcvd) /\ Owned(k) /\ Live(k)
        /\ k.tls_broken = c.tls_broken
    BY <2>1, KnownFacts, UnwritableBase
  <2>4. Silent(c, k)
    BY KnownFacts DEF Client, Silent
  <2> HIDE DEF k
  <2>3. Cause(k)
    BY <2>1 DEF Cause
  <2>5. Silent(k, c')
    BY <2>1, <2>2, ReadEndsSilent DEF Typed, Live
  <2>6. Silent(c, c')
    BY <2>4, <2>5 DEF Silent
  <2> QED BY <2>1, <2>2, <2>3, <2>6, KnownFacts, ReadErrorBase, SilentAnswers DEF Keeps
<1>3. CASE OnReadNoBufs
  <2> DEFINE k == CompactUnlessInFlight(c)
  <2>1. Reading /\ c' = ReadError(k) /\ rcvd' = rcvd /\ Len(k.read_buf) >= READ_BUF_SIZE
    BY <1>3 DEF OnReadNoBufs
  <2>2. Compacted(c, k, rcvd)
    BY <2>1, KnownFacts, CompactUnlessBase
  <2> HIDE DEF k
  <2>3. /\ Typed(k) /\ k \in Client /\ Protocol(k) /\ Live(k) /\ Sound(k, rcvd) /\ Owned(k)
        /\ Pending(k) /\ ~k.tls_broken /\ k.in_flight = c.in_flight /\ k.handle = "open"
        /\ (~c.in_flight => k.read_off = 0)
    BY <2>1, <2>2, KnownFacts DEF Compacted, SameRest, Typed
  <2>4. ASSUME ~k.in_flight PROVE Cause(k)
    <3>1. Len(k.read_buf) \in Nat /\ client_buffered(k) = Len(k.read_buf) - 0
      BY <2>3, <2>4, ClientFields DEF client_buffered
    <3>2. client_buffered(k) \in Nat /\ client_buffered(k) >= READ_BUF_SIZE
          /\ client_buffered(k) > 0
      BY <2>1, <3>1, SizesAssumption
    <3>3. client_buffered(k) < Size(FrontByte(k))
      BY <2>3, <2>4, <3>2 DEF Pending
    <3>4. Size(FrontByte(k)) \in Nat
      <4>1. FrontByte(k) \in Byte
        BY <2>3, <3>2, KnownFacts, FrontLemma DEF Sound
      <4> HIDE DEF FrontByte
      <4> QED BY <4>1 DEF Byte, Size
    <3>5. Size(FrontByte(k)) > READ_BUF_SIZE
      BY <3>2, <3>3, <3>4, SizesAssumption
    <3> QED BY <3>2, <3>5 DEF Cause
  <2>5. Silent(c, k) /\ Silent(k, c')
    BY <2>1, <2>2, <2>3, SameRestSilent, ReadEndsSilent DEF Compacted
  <2>6. Silent(c, c')
    BY <2>5 DEF Silent
  <2> QED BY <2>1, <2>3, <2>4, <2>6, ReadErrorBase, SilentAnswers DEF Keeps
<1> QED
  BY <1>1, <1>2, <1>3
\* The completion of a response.
LEMMA WriteKeeps ==
  ASSUME Known, OnWrite
  PROVE  Keeps
<1>1. PICK ok \in BOOLEAN : /\ ok \/ peer = "reset" \/ c.handle = "closing"
                            /\ c' \in on_write(c, ok)
  BY DEF OnWrite
<1>2. c.write = "response" /\ rcvd' = rcvd
  BY DEF OnWrite
<1>3. c.handle = "open"
  BY <1>2, KnownFacts DEF Protocol
<1> QED
  BY <1>1, <1>2, <1>3, KnownFacts, OnWriteBase DEF Keeps

\* The completion of the final TLS write.
LEMMA FinalWriteKeeps ==
  ASSUME Known, OnTlsFinalWrite
  PROVE  Keeps
<1> DEFINE none == {}
           k == [c EXCEPT !.write = "idle", !.pins = none, !.wblock = FALSE]
<1>1. c.write = "final" /\ rcvd' = rcvd /\ c \in Client
  BY KnownFacts DEF OnTlsFinalWrite
<1>2. c' = uv_close(k)
  BY DEF OnTlsFinalWrite
<1>3. none \in SUBSET {"body", "block"}
  OBVIOUS
<1> HIDE DEF none
<1>4. k \in Client
  BY <1>1, <1>3 DEF Client
<1>5. /\ SameBuffers(c, k) /\ k.last_len = c.last_len
      /\ k.consumed = c.consumed /\ k.served = c.served
      /\ k.in_flight = c.in_flight /\ k.writable = c.writable
      /\ k.tls_hs_done = c.tls_hs_done /\ k.tls_broken = c.tls_broken
  BY <1>1, <1>3 DEF Client, SameBuffers
<1>6. /\ k.handle = c.handle /\ k.write = "idle" /\ k.wire = c.wire
      /\ k.keep_alive = c.keep_alive /\ k.objs = c.objs /\ k.alert = c.alert
      /\ k.waiting = c.waiting
  BY <1>1, <1>3 DEF Client
<1> HIDE DEF k
<1>7. SameRead(c, k)
  BY <1>4, <1>5 DEF SameRead
<1>8. c.handle = "open" /\ Sound(c, rcvd)
  BY <1>1, KnownFacts DEF Protocol
<1>9. Ending(c) /\ Contents(c, rcvd) /\ Replying(c)
  BY <1>8 DEF Sound
<1>10. /\ Cause(c) /\ c.alert /\ (~c.writable => peer = "reset")
       /\ (~Fault("nomem") => c.objs \subseteq {"conn"})
       /\ \A i \in DOMAIN c.wire : c.wire[i] = i
  BY <1>1, <1>9 DEF Ending, Replying
<1>11. /\ client_buffered(k) = client_buffered(c) /\ FrontByte(k) = FrontByte(c)
       /\ Contents(k, rcvd)
  BY <1>7, <1>8, <1>9, SameReadViews
<1>12. Cause(k)
  BY <1>5, <1>6, <1>10, <1>11 DEF Cause
<1>13. /\ SameRead(k, c') /\ c'.keep_alive = k.keep_alive /\ c'.objs = k.objs
       /\ c'.alert = k.alert /\ c'.write = k.write /\ c'.wire = k.wire
       /\ c'.handle = "closing" /\ c'.waiting = k.waiting
  BY <1>2, <1>4, <1>6, <1>8, CloseOutcome
<1>14. Ends(k, c')
  BY <1>6, <1>10, <1>13 DEF Ends
<1>15. k.handle = "open" /\ (~k.writable => peer = "reset")
  BY <1>5, <1>6, <1>8, <1>10
<1>16. Answers(c, c', rcvd')
  BY <1>6, <1>13 DEF Answers
<1> QED
  BY <1>1, <1>11, <1>12, <1>14, <1>15, <1>16, EndBase DEF Keeps

\* The completion of a handshake flight.
LEMMA HsWriteKeeps ==
  ASSUME Known, OnTlsHsWrite
  PROVE  Keeps
<1>1. c \in Client /\ c.flights > 0 /\ rcvd' = rcvd /\ ~Fault("flightFails")
  BY KnownFacts DEF OnTlsHsWrite, Known, SafeInv, Tame
<1>2. PICK f \in Nat : f = c.flights - 1
  BY <1>1 DEF Client
<1>3. c' = [c EXCEPT !.flights = f]
  BY <1>1, <1>2 DEF OnTlsHsWrite
<1>4. Untouched(c, c')
  BY <1>1, <1>3, FlightsUntouched
<1>5. Answers(c, c', rcvd')
  BY <1>4, SameRestSilent, SilentAnswers DEF Untouched
<1> QED
  BY <1>1, <1>4, <1>5, KnownFacts, UntouchedBase DEF Keeps

\* on_close releases what is left.
LEMMA CloseKeeps ==
  ASSUME Known, OnClose
  PROVE  Keeps
<1> DEFINE left == c.objs \ {"conn"}
           none == <<>>
<1>1. c \in Client /\ rcvd' = rcvd /\ c.handle = "closing" /\ c.write = "idle"
  BY KnownFacts DEF OnClose
<1>2. left \in SUBSET {"status", "body", "task", "conn"} /\ left = c.objs \ {"conn"}
  BY <1>1 DEF Client
<1>3. none \in Seq(Byte)
  OBVIOUS
<1>4. c' = Freed(c, left, none)
  BY DEF OnClose, Freed
<1> HIDE DEF left, none
<1>5. /\ c'.handle = "closed" /\ c'.objs = left /\ c'.write = c.write
      /\ c'.wire = c.wire /\ c'.served = c.served /\ c'.writable = c.writable
      /\ c'.waiting = c.waiting
  BY <1>1, <1>2, <1>3, <1>4 DEF Freed, Client
<1>6. Sound(c, rcvd)
  BY KnownFacts
<1>7. Contents(c', rcvd)
  <2>1. Boundary(BytesOf(c.served), c.served)
    BY <1>6 DEF Sound, Contents
  <2> QED BY <1>5, <2>1 DEF Contents
<1>8. ~Live(c')
  BY <1>5 DEF Live
<1>9. /\ Broken(c') /\ Begun(c') /\ Fresh(c') /\ Owned(c') /\ Pending(c') /\ Armed(c')
  BY <1>8 DEF Broken, Begun, Fresh, Owned, Pending, Armed
<1>10. Replying(c') /\ Held(c')
  BY <1>1, <1>5, <1>6, <1>8 DEF Sound, Replying, Held
<1>11. Ending(c')
  <2>1. (~c.writable => peer = "reset") /\ (~Fault("nomem") => c.objs \subseteq {"conn"})
    BY <1>1, <1>6 DEF Sound, Ending
  <2>2. ~Fault("nomem") => left = {}
    BY <1>2, <2>1
  <2> QED BY <1>1, <1>5, <2>1, <2>2 DEF Ending
<1>12. Answers(c, c', rcvd')
  BY <1>5 DEF Answers
<1> QED
  BY <1>1, <1>7, <1>9, <1>10, <1>11, <1>12 DEF Keeps, Base, Sound

\* The sets of applications to wait for, and of those that have sent.
Waits(k, w, l) == [k EXCEPT !.waiting = w, !.lingering = l]

\* Fewer applications to wait for.
LEMMA WaitingBase ==
  ASSUME NEW k, NEW n, k \in Client, Sound(k, n), Pending(k), Armed(k),
         NEW w \in SUBSET k.waiting, NEW l \in SUBSET Nat,
         NEW d, d = Waits(k, w, l)
  PROVE  /\ d \in Client /\ Sound(d, n) /\ Pending(d) /\ Armed(d)
         /\ w = k.waiting /\ Owned(k) => Owned(d)
         /\ d.handle = k.handle /\ d.write = k.write /\ d.served = k.served
         /\ d.in_flight = k.in_flight /\ d.waiting = w /\ d.wire = k.wire
<1>1. w \in SUBSET Nat
  BY DEF Client
<1>2. d \in Client
  BY <1>1 DEF Client, Waits
<1>3. /\ d.handle = k.handle /\ d.write = k.write /\ d.wire = k.wire /\ d.alert = k.alert
      /\ d.waiting = w /\ d.keep_alive = k.keep_alive /\ d.writable = k.writable
      /\ d.objs = k.objs /\ d.pins = k.pins /\ d.wblock = k.wblock
  BY <1>1 DEF Client, Waits
<1>4. /\ SameBuffers(k, d) /\ d.last_len = k.last_len /\ d.consumed = k.consumed
      /\ d.tls_hs_done = k.tls_hs_done /\ d.read_armed = k.read_armed
      /\ d.in_flight = k.in_flight /\ d.served = k.served
      /\ d.tls_broken = k.tls_broken
  BY <1>1 DEF Client, SameBuffers, Waits
<1>5. SameRead(k, d)
  BY <1>2, <1>3, <1>4 DEF SameRead
<1>6. /\ client_buffered(d) = client_buffered(k) /\ FrontByte(d) = FrontByte(k)
      /\ \A p : InPlace(k, p, n) => InPlace(d, p, n)
  BY <1>5, SameReadViews
<1>7. Live(d) <=> Live(k)
  BY <1>3 DEF Live
<1>8. /\ Contents(k, n) /\ Broken(k) /\ Begun(k) /\ Fresh(k) /\ Replying(k)
      /\ Held(k) /\ Ending(k)
  BY DEF Sound
<1>9. Contents(d, n)
  BY <1>3, <1>4, <1>6, <1>8 DEF Contents
<1>10. Broken(d) /\ Held(d)
  BY <1>3, <1>4, <1>7, <1>8 DEF Broken, Held
<1>11. Begun(d)
  BY <1>4, <1>6, <1>7, <1>8 DEF Begun, SameBuffers
<1>12. Fresh(d)
  BY <1>3, <1>4, <1>6, <1>7, <1>8 DEF Fresh, SameBuffers
<1>13. Replying(d)
  BY <1>3, <1>4, <1>7, <1>8 DEF Replying
<1>14. Cause(k) => Cause(d)
  BY <1>3, <1>4, <1>6 DEF Cause
<1>15. Ending(d)
  BY <1>3, <1>4, <1>8, <1>14 DEF Ending, SameBuffers
<1>16. Pending(d) /\ Armed(d)
  BY <1>4, <1>6, <1>7 DEF Pending, Armed
<1>17. w = k.waiting /\ Owned(k) => Owned(d)
  BY <1>3, <1>4, <1>7 DEF Owned
<1> QED
  BY <1>2, <1>3, <1>4, <1>9, <1>10, <1>11, <1>12, <1>13, <1>15, <1>16, <1>17 DEF Sound

\* The application a connection waits for sends.
LEMMA AppSendsKeeps ==
  ASSUME Known, AppSends
  PROVE  Keeps
<1>1. PICK r \in c.waiting :
        c' \in asgi_send_response([c EXCEPT !.waiting   = c.waiting \ {r},
                                            !.lingering = c.lingering \cup {r}], r)
  BY DEF AppSends, Known, SafeInv, Tame
<1>2. c \in Client /\ rcvd' = rcvd
  BY KnownFacts DEF AppSends
<1>3. r \in Nat
  BY <1>1, <1>2 DEF Client
<1> DEFINE owed == c.waiting \ {r}
           sent == c.lingering \cup {r}
           k    == Waits(c, owed, sent)
<1>4. owed \in SUBSET c.waiting /\ sent \in SUBSET Nat
  BY <1>2, <1>3 DEF Client
<1>5. owed = {} /\ c.in_flight /\ Ready(c) /\ Live(c)
  BY <1>1, KnownFacts DEF Protocol, Ready, Live
<1>6. c' \in asgi_send_response(k, r)
  BY <1>1 DEF Waits
<1> HIDE DEF owed, sent
<1>7. /\ k \in Client /\ Sound(k, rcvd)
      /\ k.handle = c.handle /\ k.write = c.write /\ k.served = c.served
      /\ k.in_flight = c.in_flight /\ k.waiting = owed /\ k.wire = c.wire
  <2>1. k = Waits(c, owed, sent)
    OBVIOUS
  <2> HIDE DEF k
  <2> QED BY <1>2, <1>4, <2>1, KnownFacts, WaitingBase
<1> HIDE DEF k
<1>8. r = k.served + 1
  BY <1>1, <1>5, <1>7, KnownFacts DEF Sound, Replying
<1>9. Replied(k, c', r)
  BY <1>3, <1>6, <1>7, AsgiSendOutcome
<1>10. Ready(k) /\ k.in_flight
  BY <1>5, <1>7 DEF Ready
<1>11. Answers(c, c', rcvd')
  <2>1. Complete(r, rcvd)
    BY <1>1, KnownFacts DEF Settled
  <2>2. c'.waiting = {} /\ (c'.wire = c.wire \/ c'.wire = c.wire \o <<r>>)
    BY <1>5, <1>7, <1>9, <1>10 DEF Replied
  <2> QED BY <1>2, <1>3, <1>5, <2>1, <2>2 DEF Answers, Ready
<1> QED
  BY <1>2, <1>7, <1>8, <1>9, <1>10, <1>11, ReplyBase DEF Keeps

\* An application ends: one that has sent, or one that never will.
LEMMA AppFinishesKeeps ==
  ASSUME Known, AppFinishes
  PROVE  Keeps
<1>1. PICK r \in c.lingering \cup (IF Fault("endsSilently") THEN c.waiting ELSE {}) :
        c' = [c EXCEPT !.waiting   = IF r \in c.lingering THEN c.waiting
                                                          ELSE c.waiting \ {r},
                       !.lingering = c.lingering \ {r}]
  BY DEF AppFinishes
<1>2. c \in Client /\ rcvd' = rcvd
  BY KnownFacts DEF AppFinishes
<1> DEFINE owed == IF r \in c.lingering THEN c.waiting ELSE c.waiting \ {r}
           left == c.lingering \ {r}
<1>3. owed \in SUBSET c.waiting /\ left \in SUBSET Nat
  BY <1>2 DEF Client
<1>4. c' = Waits(c, owed, left)
  BY <1>1 DEF Waits
<1>5. owed = c.waiting \/ Fault("endsSilently")
  BY <1>1
<1> HIDE DEF owed, left
<1>6. /\ Sound(c', rcvd) /\ Pending(c') /\ Armed(c')
      /\ owed = c.waiting /\ Owned(c) => Owned(c')
      /\ c'.handle = c.handle /\ c'.waiting = owed /\ c'.wire = c.wire
  BY <1>2, <1>3, <1>4, KnownFacts, WaitingBase
<1>7. Owned(c')
  BY <1>5, <1>6, KnownFacts DEF Owned
<1>8. Answers(c, c', rcvd')
  BY <1>3, <1>6 DEF Answers
<1> QED
  BY <1>2, <1>6, <1>7, <1>8 DEF Keeps, Base
-----------------------------------------------------------------------------
(* The induction *)

\* What was shown of c' and rcvd' against the stream, environment and peer of
\* this state holds against those of the next one.
LEMMA CarryLemma ==
  ASSUME UNCHANGED <<stream, env>>, Pipeline(stream), Keeps,
         c \in Client, Settled(c, rcvd), rcvd \in Nat, rcvd' \in Nat, rcvd <= rcvd',
         peer' = peer \/ (peer' # "open" /\ (peer = "reset" => peer' = "reset"))
  PROVE  DataInv'
<1>1. stream' = stream /\ env' = env
  OBVIOUS
<1>2. /\ Contents(c', rcvd') /\ Broken(c') /\ Begun(c') /\ Fresh(c') /\ Replying(c')
      /\ Held(c') /\ Ending(c') /\ Owned(c') /\ Pending(c') /\ Armed(c')
  BY DEF Keeps, Base, Sound
<1>3. Pipeline(stream)'
  BY <1>1 DEF Pipeline
<1>4. Contents(c, rcvd)'
  <2>1. ASSUME NEW p, NEW m PROVE Boundary(p, m)' <=> Boundary(p, m)
    BY <1>1 DEF Boundary
  <2>2. ASSUME NEW m PROVE BytesOf(m)' = BytesOf(m)
    BY <1>1 DEF BytesOf
  <2>3. ASSUME NEW p PROVE InPlace(c, p, rcvd)' <=> InPlace(c', p, rcvd')
    BY <1>1 DEF InPlace, client_buffered
  <2> QED BY <1>1, <1>2 DEF Contents, Boundary, BytesOf, InPlace, client_buffered
<1>5. Broken(c)' /\ Begun(c)' /\ Fresh(c)' /\ Replying(c)' /\ Held(c)'
  BY <1>2 DEF Broken, Begun, Fresh, Replying, Held, Live, client_buffered, FrontByte, Size
<1>6. Cause(c') => Cause(c)'
  BY <1>1 DEF Cause, Fault, client_buffered, FrontByte, Size
<1>7. Ending(c)'
  BY <1>1, <1>2, <1>6 DEF Ending, Fault
<1>8. Owned(c)' /\ Pending(c)' /\ Armed(c)'
  BY <1>1, <1>2 DEF Owned, Pending, Armed, Live, Fault, client_buffered, FrontByte, Size
<1>9. Settled(c, rcvd)'
  <2>1. ASSUME NEW r, Complete(r, rcvd) PROVE Complete(r, rcvd')
    <3>1. \A i \in 1..rcvd : i \in 1..rcvd'
      OBVIOUS
    <3> QED BY <2>1, <3>1 DEF Complete
  <2>2. ASSUME NEW r, Complete(r, rcvd') PROVE Complete(r, rcvd)'
    BY <1>1, <2>2 DEF Complete, Completes
  <2>3. \A i \in DOMAIN c'.wire : Complete(c'.wire[i], rcvd')
    <3>1. c.wire \in Seq(Nat) /\ \A i \in DOMAIN c.wire : Complete(c.wire[i], rcvd')
      BY <2>1 DEF Client, Settled
    <3>2. CASE c'.wire = c.wire
      BY <3>1, <3>2
    <3>3. ASSUME NEW r \in Nat, c'.wire = c.wire \o <<r>>, Complete(r, rcvd'),
                 NEW i \in DOMAIN c'.wire
          PROVE  Complete(c'.wire[i], rcvd')
      <4>1. (i \in DOMAIN c.wire /\ c'.wire[i] = c.wire[i]) \/ c'.wire[i] = r
        BY <3>1, <3>3
      <4> QED BY <3>1, <3>3, <4>1
    <3> QED BY <3>2, <3>3 DEF Keeps, Answers
  <2>4. \A r \in c'.waiting : Complete(r, rcvd')
    BY <2>1 DEF Keeps, Answers, Settled
  <2> QED BY <2>2, <2>3, <2>4 DEF Settled
<1> QED
  BY <1>3, <1>4, <1>5, <1>7, <1>8, <1>9 DEF DataInv, Base, Sound

\* on_new_connection establishes the invariant.
LEMMA InitData == Init => DataInv
<1> SUFFICES ASSUME Init PROVE DataInv
  OBVIOUS
<1>1. PICK tls \in BOOLEAN : c = NewClient(tls)
  BY DEF Init
<1>2. stream \in Seq(Byte) /\ Pipeline(stream) /\ rcvd = 0 /\ peer = "open"
  BY InputsAssumption DEF Init
<1>3. /\ c.read_buf = <<>> /\ c.read_off = 0 /\ c.spill = <<>> /\ c.served = 0
      /\ c.handle = "open" /\ c.write = "idle" /\ c.waiting = {} /\ c.wire = <<>>
      /\ c.objs = {} /\ c.last_len = 0
      /\ ~c.in_flight /\ ~c.tls_broken /\ c.writable /\ c.read_armed
  BY <1>1 DEF NewClient
<1>4. client_buffered(c) = 0 /\ Len(c.spill) = 0 /\ Len(c.wire) = 0
  BY <1>3 DEF client_buffered
<1>5. Boundary(0, 0) /\ BytesOf(0) = 0
  <2>1. Boundary(0, 0) /\ 0 \in Nat
    BY <1>2, FirstBoundary
  <2> QED BY <1>2, <2>1, BoundaryBytes
<1>6. InPlace(c, 0, rcvd)
  BY <1>2, <1>4 DEF InPlace
<1>7. Contents(c, rcvd)
  BY <1>3, <1>5, <1>6 DEF Contents
<1>8. Broken(c) /\ Begun(c) /\ Fresh(c) /\ Owned(c) /\ Pending(c) /\ Armed(c)
  BY <1>3, <1>4 DEF Broken, Begun, Fresh, Owned, Pending, Armed
<1>9. Replying(c) /\ Held(c) /\ Ending(c)
  BY <1>3, <1>4 DEF Replying, Held, Ending
<1>10. Settled(c, rcvd)
  BY <1>3 DEF Settled
<1> QED
  BY <1>2, <1>7, <1>8, <1>9, <1>10 DEF DataInv, Base, Sound

\* Bytes only arrive, and only on an open connection.
LEMMA BytesArrive ==
  ASSUME Known, [Next]_vars
  PROVE  /\ rcvd \in Nat /\ rcvd' \in Nat /\ rcvd <= rcvd'
         /\ rcvd' # rcvd => c.handle = "open"
<1>1. rcvd \in Nat
  BY KnownFacts, ByteFields DEF Received
<1>2. rcvd' = rcvd \/ (Reading /\ \E n \in Nat : rcvd' = rcvd + n)
  <2>1. CASE OnReadPlain
    <3> DEFINE room == READ_BUF_SIZE - Len(CompactUnlessInFlight(c).read_buf)
    <3>1. Reading /\ \E n \in 1..room : rcvd' = rcvd + n
      BY <2>1 DEF OnReadPlain
    <3>2. \A n \in 1..room : n \in Nat
      OBVIOUS
    <3> QED BY <3>1, <3>2
  <2>2. CASE OnReadHandshake
    BY <2>2 DEF OnReadHandshake
  <2>3. CASE OnReadTls
    BY <2>3 DEF OnReadTls
  <2>4. CASE OnReadBadRecord \/ OnReadEof \/ OnReadReset \/ OnReadNoBufs
    BY <2>4 DEF OnReadBadRecord, OnReadEof, OnReadReset, OnReadNoBufs
  <2>5. CASE OnWrite \/ OnTlsFinalWrite \/ OnTlsHsWrite \/ OnClose
    BY <2>5 DEF OnWrite, OnTlsFinalWrite, OnTlsHsWrite, OnClose
  <2>6. CASE AppSends \/ AppFinishes \/ PeerCloses \/ PeerResets \/ UNCHANGED vars
    BY <2>6 DEF AppSends, AppFinishes, PeerCloses, PeerResets, vars
  <2> QED BY <2>1, <2>2, <2>3, <2>4, <2>5, <2>6 DEF Next
<1> QED
  BY <1>1, <1>2 DEF Reading

\* Every step of a tame connection keeps the invariant, and answers as it may.
LEMMA NextData ==
  Known /\ [Next]_vars => DataInv' /\ Answers(c, c', rcvd') /\ UNCHANGED stream
<1> SUFFICES ASSUME Known, [Next]_vars
             PROVE  DataInv' /\ Answers(c, c', rcvd') /\ UNCHANGED stream
  OBVIOUS
<1> DEFINE Goal == DataInv' /\ Answers(c, c', rcvd') /\ UNCHANGED stream
<1>1. /\ Pipeline(stream) /\ c \in Client /\ Settled(c, rcvd)
      /\ rcvd \in Nat /\ rcvd' \in Nat /\ rcvd <= rcvd'
  BY KnownFacts, BytesArrive DEF Known, DataInv
<1>2. ASSUME UNCHANGED <<env, stream, peer>>, Keeps PROVE Goal
  BY <1>1, <1>2, CarryLemma DEF Keeps
<1>3. ASSUME UNCHANGED <<c, rcvd>> PROVE Keeps
  <2>1. c' = c /\ rcvd' = rcvd
    BY <1>3
  <2>2. Answers(c, c', rcvd')
    BY <2>1 DEF Answers
  <2> QED BY <2>1, <2>2, KnownFacts DEF Keeps
<1>4. CASE OnReadPlain
  BY <1>2, <1>4, ReadPlainKeeps DEF OnReadPlain
<1>5. CASE OnReadHandshake
  BY <1>2, <1>5, HandshakeKeeps DEF OnReadHandshake
<1>6. CASE OnReadTls
  BY <1>2, <1>6, ReadTlsKeeps DEF OnReadTls
<1>7. CASE OnReadBadRecord
  BY <1>2, <1>7, BadRecordKeeps DEF OnReadBadRecord
<1>8. CASE OnReadEof
  BY <1>2, <1>8, ReadErrorKeeps DEF OnReadEof
<1>9. CASE OnReadReset
  BY <1>2, <1>9, ReadErrorKeeps DEF OnReadReset
<1>10. CASE OnReadNoBufs
  BY <1>2, <1>10, ReadErrorKeeps DEF OnReadNoBufs
<1>11. CASE OnWrite
  BY <1>2, <1>11, WriteKeeps DEF OnWrite
<1>12. CASE OnTlsFinalWrite
  BY <1>2, <1>12, FinalWriteKeeps DEF OnTlsFinalWrite
<1>13. CASE OnTlsHsWrite
  BY <1>2, <1>13, HsWriteKeeps DEF OnTlsHsWrite
<1>14. CASE OnClose
  BY <1>2, <1>14, CloseKeeps DEF OnClose
<1>15. CASE AppSends
  BY <1>2, <1>15, AppSendsKeeps DEF AppSends
<1>16. CASE AppFinishes
  BY <1>2, <1>16, AppFinishesKeeps DEF AppFinishes
<1>17. CASE PeerCloses
  <2>1. UNCHANGED <<c, rcvd>> /\ UNCHANGED <<stream, env>> /\ peer = "open" /\ peer' = "eof"
    BY <1>17 DEF PeerCloses
  <2> QED BY <1>1, <1>3, <2>1, CarryLemma DEF Keeps
<1>18. CASE PeerResets
  <2>1. UNCHANGED <<c, rcvd>> /\ UNCHANGED <<stream, env>> /\ peer' = "reset"
    BY <1>18 DEF PeerResets
  <2> QED BY <1>1, <1>3, <2>1, CarryLemma DEF Keeps
<1>19. CASE UNCHANGED vars
  BY <1>2, <1>3, <1>19 DEF vars
<1> QED
  BY <1>4, <1>5, <1>6, <1>7, <1>8, <1>9, <1>10, <1>11, <1>12, <1>13, <1>14, <1>15,
     <1>16, <1>17, <1>18, <1>19 DEF Next

\* The invariant holds throughout.
LEMMA DataInductive == Spec /\ Tame => []Known
<1>1. Init => DataInv
  BY InitData
<1>2. SafeInv /\ DataInv /\ [Next]_vars => DataInv'
  BY NextData DEF Known
<1>3. Spec /\ Tame => []SafeInv
  BY SafeInductive
<1>4. Known <=> SafeInv /\ DataInv
  BY DEF Known
<1> QED
  BY <1>1, <1>2, <1>3, <1>4, PTL DEF Spec

-----------------------------------------------------------------------------
(* The theorems *)

(***************************************************************************)
(* server.c:262 for every stream of requests, however it is cut into reads *)
(* and records, with WSGI or ASGI: the n-th response given to the socket   *)
(* is that of the n-th request, the 400 of a malformed one included.       *)
(***************************************************************************)
THEOREM AnswersAreInOrder == Spec /\ Tame => []RepliesInOrder
<1>1. Known => RepliesInOrder
  BY KnownFacts DEF Sound, Replying, RepliesInOrder
<1> QED
  BY <1>1, DataInductive, PTL

\* A sum less its first term.
LEMMA SumLemma ==
  ASSUME NEW a \in Nat, NEW b \in Nat, NEW x \in Nat, NEW y \in Nat, a + b + x = y
  PROVE  y - a = b + x /\ a <= y
OBVIOUS

\* Two sequences of which one lists the elements of the other from p on.
LEMMA SameElements ==
  ASSUME NEW S, NEW s \in Seq(S), NEW p \in Nat, NEW n \in Nat, p <= n, n <= Len(s),
         NEW w \in Seq(S), Len(w) = n - p, \A i \in 1..(n - p) : w[i] = s[p + i]
  PROVE  w = SubSeq(s, p + 1, n)
<1>1. SubSeq(s, p + 1, n) \in Seq(S) /\ Len(SubSeq(s, p + 1, n)) = n - p
  OBVIOUS
<1>2. ASSUME NEW i \in 1..(n - p) PROVE SubSeq(s, p + 1, n)[i] = s[p + i]
  BY <1>1
<1> QED
  BY <1>1, <1>2

(***************************************************************************)
(* No byte is lost, duplicated or reordered by a partial read, the advance *)
(* of client_reset, a compaction, or the spill and its drain, for every    *)
(* READ_BUF_SIZE, TLS_SPILL_SIZE and stream; and the spill is non-empty    *)
(* only behind a full buffer with a response in flight (server.c:816).     *)
(***************************************************************************)
THEOREM NoByteIsLost == Spec /\ Tame => []BytesAccountedFor
<1>1. ASSUME Known PROVE NoByteLost
  <2> SUFFICES ASSUME c.handle = "open", ~c.tls_broken
               PROVE  Window(c) \o c.spill = SubSeq(stream, BytesOf(c.served) + 1, rcvd)
    BY DEF NoByteLost, Open
  <2> DEFINE p == BytesOf(c.served)
             w == Window(c)
             b == client_buffered(c)
  <2>1. InPlace(c, p, rcvd) /\ Boundary(p, c.served)
    BY <1>1, KnownFacts DEF Sound, Contents
  <2>2. p \in Nat /\ rcvd \in Nat /\ rcvd <= Len(stream) /\ stream \in Seq(Byte)
    BY <1>1, <2>1, KnownFacts, ByteFields DEF Boundary, Received
  <2>3. c.read_buf \in Seq(Byte) /\ c.spill \in Seq(Byte) /\ c.read_off \in Nat
        /\ c.read_off <= Len(c.read_buf) /\ Len(c.read_buf) \in Nat
    BY <1>1, KnownFacts, ClientFields DEF Typed, Fits
  <2>4. w \in Seq(Byte) /\ Len(w) = b /\ \A i \in 1..b : w[i] = c.read_buf[c.read_off + i]
    BY <2>3, TailLemma, TailAt DEF Window, client_buffered
  <2>5. b \in Nat
    BY <2>3 DEF client_buffered
  <2>6. /\ p + b + Len(c.spill) = rcvd
        /\ \A i \in 1..b : c.read_buf[c.read_off + i] = stream[p + i]
        /\ \A i \in 1..Len(c.spill) : c.spill[i] = stream[p + b + i]
    BY <2>1 DEF InPlace
  <2> HIDE DEF p, w, b
  <2>7. PICK ls \in Nat : ls = Len(c.spill)
    BY <2>3
  <2>8. rcvd - p = b + ls /\ p <= rcvd
    <3>1. p + b + ls = rcvd
      BY <2>6, <2>7
    <3>2. p \in Nat /\ rcvd \in Nat
      BY <2>2
    <3> QED BY <2>5, <3>1, <3>2, SumLemma
  <2>9. w \o c.spill \in Seq(Byte) /\ Len(w \o c.spill) = b + ls
    BY <2>3, <2>4, <2>7, ConcatLemma
  <2>10. ASSUME NEW i \in 1..(b + ls) PROVE (w \o c.spill)[i] = stream[p + i]
    <3>1. CASE i <= b
      <4>1. i \in 1..b
        BY <2>5, <3>1
      <4>2. (w \o c.spill)[i] = w[i]
        BY <2>3, <2>4, <4>1, ConcatAt
      <4> QED BY <2>4, <2>6, <4>1, <4>2
    <3>2. CASE ~(i <= b)
      <4>1. PICK j \in 1..ls : i = b + j
        <5>1. i - b \in 1..ls /\ i = b + (i - b)
          BY <2>5, <3>2
        <5> QED BY <5>1
      <4>2. (w \o c.spill)[b + j] = c.spill[j]
        <5>1. w \in Seq(Byte) /\ c.spill \in Seq(Byte)
          BY <2>3, <2>4
        <5>2. (w \o c.spill)[Len(w) + j] = c.spill[j]
          BY <2>7, <5>1, ConcatAt
        <5> QED BY <2>4, <5>2
      <4>3. c.spill[j] = stream[p + b + j]
        BY <2>6, <2>7
      <4>4. p + (b + j) = p + b + j
        BY <2>2, <2>5, AddAssoc
      <4> QED BY <4>1, <4>2, <4>3, <4>4
    <3> QED BY <3>1, <3>2
  <2>11. PICK x \in Seq(Byte) : x = w \o c.spill
    BY <2>9
  <2>12. Len(x) = rcvd - p /\ \A i \in 1..(rcvd - p) : x[i] = stream[p + i]
    BY <2>8, <2>9, <2>10, <2>11
  <2>13. x = SubSeq(stream, p + 1, rcvd)
    BY <2>2, <2>8, <2>12, SameElements
  <2> QED BY <2>11, <2>13 DEF p, w
<1>2. ASSUME Known PROVE SpillBehindFullBuffer
  <2> SUFFICES ASSUME c.handle = "open", c.write # "final", c.spill # <<>>
               PROVE  Len(c.read_buf) = READ_BUF_SIZE /\ c.in_flight
    BY DEF SpillBehindFullBuffer, Open
  <2>1. Live(c) /\ Sound(c, rcvd) /\ Armed(c) /\ Roomy(c)
    BY <1>2, KnownFacts DEF Live
  <2>2. c.in_flight
    BY <2>1 DEF Armed, Roomy, Live
  <2> QED BY <2>1, <2>2 DEF Sound, Begun
<1> QED
  BY <1>1, <1>2, DataInductive, PTL DEF BytesAccountedFor

(***************************************************************************)
(* Every buffered request is begun, and every request begun has a response *)
(* outstanding or an application yet to send one, as long as applications  *)
(* end by answering: one that returns without sending has no owner left.   *)
(***************************************************************************)
THEOREM EveryRequestIsLookedAfter ==
  Spec /\ Tame /\ ~Fault("endsSilently") => []RequestsLookedAfter
<1>1. Known => NothingForgotten
  BY KnownFacts DEF Pending, Armed, Live, NothingForgotten, Open, Size
<1>2. Known /\ ~Fault("endsSilently") => InFlightHasOwner
  BY KnownFacts DEF Owned, Live, InFlightHasOwner, Open
<1>3. RequestsLookedAfter <=> NothingForgotten /\ InFlightHasOwner
  BY DEF RequestsLookedAfter
<1>4. Known /\ [Next]_vars /\ ~Fault("endsSilently") => ~Fault("endsSilently")'
  BY NextStep DEF Known, SafeInv, Fault
<1> QED
  BY <1>1, <1>2, <1>3, <1>4, DataInductive, PTL DEF Spec

(***************************************************************************)
(* uv_write never outlives what it points into, whatever callback runs     *)
(* under it, and a freed connection holds no Python reference unless       *)
(* memory ran out.                                                         *)
(***************************************************************************)
THEOREM BuffersOutliveWrites == Spec /\ Tame => []HeldWhileNeeded
<1>1. Known => WriteBuffersHeld
  BY KnownFacts DEF Sound, Held, WriteBuffersHeld
<1>2. Known => FreedHoldsNothing
  BY KnownFacts DEF Sound, Ending, FreedHoldsNothing
<1>3. HeldWhileNeeded <=> WriteBuffersHeld /\ FreedHoldsNothing
  BY DEF HeldWhileNeeded
<1> QED
  BY <1>1, <1>2, <1>3, DataInductive, PTL

(***************************************************************************)
(* The server hangs up only on a peer that went, a broken record layer, a  *)
(* request that asked for it, one that is malformed or cannot fit, or an   *)
(* exhausted memory; and a TLS connection that was answered to the end is  *)
(* told by a close_notify.                                                 *)
(***************************************************************************)
THEOREM ServerClosesProperly == Spec /\ Tame => []ClosesProperly
<1>1. Known => ClosesForCause
  BY KnownFacts DEF Sound, Ending, Cause, ClosesForCause, Size
<1>2. Known => OrderlyCloseAnnounced
  BY KnownFacts DEF Sound, Ending, OrderlyCloseAnnounced
<1>3. ClosesProperly <=> ClosesForCause /\ OrderlyCloseAnnounced
  BY DEF ClosesProperly
<1> QED
  BY <1>1, <1>2, <1>3, DataInductive, PTL
-----------------------------------------------------------------------------
(* The in-order server of ReplyOrder *)

\* The places where requests become answerable, among the first n bytes.
CompletedAt(n) == {i \in 1..n : Completes(stream[i])}

\* They can be counted, and more bytes hold no fewer.
LEMMA CompletedCount ==
  ASSUME NEW n \in Nat, NEW m \in Nat, n <= m
  PROVE  /\ IsFiniteSet(CompletedAt(n)) /\ Cardinality(CompletedAt(n)) \in Nat
         /\ Cardinality(CompletedAt(m)) \in Nat
         /\ Cardinality(CompletedAt(n)) <= Cardinality(CompletedAt(m))
<1>1. IsFiniteSet(1..m)
  BY FS_Interval
<1>2. CompletedAt(m) \in SUBSET (1..m) /\ CompletedAt(n) \in SUBSET CompletedAt(m)
  BY DEF CompletedAt
<1>3. IsFiniteSet(CompletedAt(m))
  BY <1>1, <1>2, FS_Subset
<1>4. IsFiniteSet(CompletedAt(n)) /\ Cardinality(CompletedAt(n)) <= Cardinality(CompletedAt(m))
  BY <1>2, <1>3, FS_Subset
<1> QED
  BY <1>3, <1>4, FS_CardinalityType

\* No request is answered before it was asked.
LEMMA AnsweredAfterAsked ==
  ASSUME Known
  PROVE  Asked \in Nat /\ Len(c.wire) \in Nat /\ Len(c.wire) <= Asked
<1> DEFINE m == Len(c.wire)
           S == CompletedAt(rcvd)
           f == [i \in S |-> stream[i].req]
           T == {stream[i].req : i \in S}
<1>1. rcvd \in Nat /\ rcvd <= rcvd /\ c.wire \in Seq(Nat) /\ m \in Nat
  BY KnownFacts, ByteFields DEF Received, Client
<1>2. IsFiniteSet(S) /\ Cardinality(S) \in Nat /\ Asked = Cardinality(S)
  BY <1>1, CompletedCount DEF Asked, CompletedAt
<1>3. f \in Surjection(S, T)
  BY DEF Surjection
<1>4. 1..m \in SUBSET T
  <2> SUFFICES ASSUME NEW r \in 1..m PROVE r \in T
    OBVIOUS
  <2>1. r \in DOMAIN c.wire /\ c.wire[r] = r
    BY <1>1, KnownFacts DEF Sound, Replying
  <2>2. Complete(r, rcvd)
    BY <2>1, KnownFacts DEF Settled
  <2> QED BY <2>2 DEF Complete, CompletedAt
<1> HIDE DEF S, T, f, m
<1>5. IsFiniteSet(T) /\ Cardinality(T) <= Cardinality(S)
  BY <1>2, <1>3, FS_Surjection
<1>6. Cardinality(1..m) <= Cardinality(T) /\ Cardinality(T) \in Nat
  BY <1>4, <1>5, FS_Subset, FS_CardinalityType
<1>7. Cardinality(1..m) = m
  BY <1>1, FS_Interval
<1> QED
  BY <1>1, <1>2, <1>5, <1>6, <1>7 DEF m

\* A step of a connection is a step of the in-order server, or none at all.
LEMMA StepServes ==
  Known /\ Known' /\ [Next]_vars => [Replies!Next]_(Replies!vars)
<1> SUFFICES ASSUME Known, Known', [Next]_vars PROVE [Replies!Next]_(Replies!vars)
  OBVIOUS
<1>1. Answers(c, c', rcvd') /\ stream' = stream
  BY NextData
<1>2. rcvd \in Nat /\ rcvd' \in Nat /\ rcvd <= rcvd' /\ (rcvd' # rcvd => c.handle = "open")
  BY BytesArrive
<1>3. Asked \in Nat /\ Len(c.wire) \in Nat
  BY AnsweredAfterAsked
<1>4. Asked' \in Nat /\ Len(c'.wire) \in Nat /\ Len(c'.wire) <= Asked'
  <2>1. (Asked \in Nat /\ Len(c.wire) \in Nat /\ Len(c.wire) <= Asked)'
    BY AnsweredAfterAsked, PTL
  <2> QED BY <2>1
<1>5. Asked = Cardinality(CompletedAt(rcvd)) /\ Asked' = Cardinality(CompletedAt(rcvd'))
  BY <1>1 DEF Asked, CompletedAt, Completes
<1>6. Asked <= Asked'
  BY <1>2, <1>5, CompletedCount
<1>7. CASE c.handle = "open"
  <2>1. Len(c'.wire) \in {Len(c.wire), Len(c.wire) + 1}
    <3>1. c.wire \in Seq(Nat)
      BY KnownFacts DEF Client
    <3>2. \A r \in Nat : Len(c.wire \o <<r>>) = Len(c.wire) + 1
      BY <3>1
    <3> QED BY <1>1, <3>2 DEF Answers
  <2>2. Open /\ Open' \in BOOLEAN
    BY <1>7 DEF Open
  <2>3. Asked' >= Asked
    BY <1>3, <1>4, <1>6
  <2> QED BY <1>4, <2>1, <2>2, <2>3 DEF Replies!Next, Replies!Serve
<1>8. CASE c.handle # "open"
  <2>1. c'.wire = c.wire /\ rcvd' = rcvd /\ c'.handle # "open"
    BY <1>1, <1>2, <1>8 DEF Answers
  <2>2. Asked' = Asked
    BY <1>5, <2>1
  <2>3. Open' = Open
    BY <1>8, <2>1 DEF Open
  <2> QED BY <2>1, <2>2, <2>3 DEF Replies!vars
<1> QED
  BY <1>7, <1>8

(***************************************************************************)
(* What the connection promises its peer, but for the promise to catch up, *)
(* in every tame environment: the callbacks answer at most one request a   *)
(* step, each in its turn and none before it was asked, and nothing is     *)
(* taken in or answered once the handle is closing.                        *)
(***************************************************************************)
THEOREM ConnectionImplementsReplyOrder == Spec /\ Tame => Replies!Spec
<1>1. Init => Replies!Init
  <2> SUFFICES ASSUME Init PROVE Replies!Init
    OBVIOUS
  <2>1. c.wire = <<>> /\ c.handle = "open" /\ rcvd = 0
    BY DEF Init, NewClient
  <2>2. Asked = 0
    <3>1. {i \in 1..rcvd : Completes(stream[i])} = {}
      BY <2>1
    <3> QED BY <3>1, FS_EmptySet DEF Asked
  <2>3. Len(c.wire) = 0 /\ Open = TRUE
    BY <2>1 DEF Open
  <2> QED BY <2>2, <2>3 DEF Replies!Init
<1>2. Known /\ Known' /\ [Next]_vars => [Replies!Next]_(Replies!vars)
  BY StepServes
<1> QED
  BY <1>1, <1>2, DataInductive, PTL DEF Spec, Replies!Spec

-----------------------------------------------------------------------------
(* A request in flight is not moved *)

\* The bytes of k are where they were, others perhaps behind them.
Put(k, d) ==
  d.read_off = k.read_off /\ \E b \in Seq(Byte) : d.read_buf = k.read_buf \o b

\* Fields of a connection that say where its bytes are and whose they are.
Still(k, d) ==
  /\ d \in Client
  /\ d.read_buf = k.read_buf /\ d.read_off = k.read_off /\ d.served = k.served

\* A connection that is still has not been moved.
LEMMA StillPut ==
  ASSUME NEW k \in Client, NEW d, d.read_buf = k.read_buf, d.read_off = k.read_off
  PROVE  Put(k, d)
<1>1. k.read_buf \in Seq(Byte)
  BY DEF Client
<1>2. <<>> \in Seq(Byte) /\ k.read_buf \o <<>> = k.read_buf
  BY <1>1
<1> QED
  BY <1>2 DEF Put

\* Answering, closing, and any write leave the bytes where they are.
LEMMA SameReadStill ==
  ASSUME NEW k, NEW d, SameRead(k, d)
  PROVE  Still(k, d)
BY DEF SameRead, SameBuffers, Still

\* So does tls_send_final, or the close in its place.
LEMMA FinalStill ==
  ASSUME NEW k \in Client, NEW rs \in Seq(Nat), NEW d \in FinalOrClose(k, rs)
  PROVE  Still(k, d)
<1> DEFINE quiet == [k EXCEPT !.read_armed = FALSE]
           held  == [quiet EXCEPT !.wblock = TRUE]
           sent  == uv_write(held, "final", rs)
           last  == [sent EXCEPT !.alert = TRUE]
<1>1. quiet \in Client /\ held \in Client
  BY DEF Client
<1>2. Still(k, quiet) /\ Still(k, held)
  BY <1>1 DEF Client, Still
<1>3. d = last \/ d = uv_close(held) \/ d = uv_close(quiet)
  BY DEF FinalOrClose
<1> HIDE DEF quiet, held
<1>4. CASE d = uv_close(held) \/ d = uv_close(quiet)
  BY <1>1, <1>2, <1>4, CloseOutcome, SameReadStill DEF Still
<1>5. CASE d = last
  <2>1. "final" \in {"idle", "response", "final"}
    OBVIOUS
  <2>2. Still(held, sent)
    BY <1>1, <2>1, WriteOutcome, SameReadStill
  <2> HIDE DEF sent
  <2>3. last \in Client /\ Still(sent, last)
    BY <2>2 DEF Still, Client
  <2> QED BY <1>2, <1>5, <2>2, <2>3 DEF Still
<1> QED
  BY <1>3, <1>4, <1>5

\* http_dispatch steps over no request.
LEMMA DispatchStill ==
  ASSUME NEW k, Typed(k), client_buffered(k) > 0, NEW d \in http_dispatch(k)
  PROVE  d.served = k.served
<1> DEFINE b      == FrontByte(k)
           need   == b.hdr + b.body
           len    == client_buffered(k)
           short  == [k EXCEPT !.last_len = len]
           parsed == [k EXCEPT !.consumed = need, !.keep_alive = b.keep]
           begun  == [parsed EXCEPT !.in_flight = TRUE, !.objs = parsed.objs \cup {"conn"}]
<1>1. k \in Client /\ b \in Byte
  BY FrontByteType DEF Typed
<1>2. /\ b.hdr \in Nat /\ b.body \in Nat /\ b.keep \in BOOLEAN
      /\ b.req \in Nat /\ need \in Nat /\ len \in Nat
  BY <1>1, WindowType DEF Byte
<1>3. \/ d = short \/ d \in bad_request(k) \/ d = parsed
      \/ d \in asgi_dispatch(begun, b.req) \/ d \in wsgi_call_application(begun, b.req)
  BY DEF http_dispatch
<1> HIDE DEF need, len
<1>4. short.served = k.served /\ parsed \in Client /\ parsed.served = k.served
  BY <1>1, <1>2 DEF Client
<1> HIDE DEF parsed, short
<1>5. begun \in Client /\ begun.served = k.served
  BY <1>4 DEF Client
<1> HIDE DEF begun
<1>6. CASE d \in asgi_dispatch(begun, b.req)
  <2>1. SameRead(begun, d)
    BY <1>2, <1>5, <1>6, AsgiOutcome DEF Replied, Suspends
  <2> QED BY <1>5, <2>1 DEF SameRead
<1>7. CASE d \in wsgi_call_application(begun, b.req)
  <2>1. SameRead(begun, d)
    BY <1>2, <1>5, <1>7, WsgiOutcome DEF Replied
  <2> QED BY <1>5, <2>1 DEF SameRead
<1>8. CASE d \in bad_request(k)
  <2>1. PICK rs \in Seq(Nat) : rs = <<b.req>>
    <3>1. <<b.req>> \in Seq(Nat)
      BY <1>2
    <3> QED BY <3>1
  <2>2. d \in FinalOrClose(k, rs) \/ d = uv_close(k) \/ d = uv_close(uv_write(k, "idle", rs))
    BY <1>8, <2>1 DEF bad_request
  <2>3. CASE d \in FinalOrClose(k, rs)
    BY <1>1, <2>3, FinalStill DEF Still
  <2>4. CASE d = uv_close(k)
    BY <1>1, <2>4, CloseOutcome DEF SameRead
  <2>5. CASE d = uv_close(uv_write(k, "idle", rs))
    <3> DEFINE w == uv_write(k, "idle", rs)
    <3>1. "idle" \in {"idle", "response", "final"}
      OBVIOUS
    <3>2. SameRead(k, w)
      BY <1>1, <3>1, WriteOutcome
    <3> HIDE DEF w
    <3>3. w \in Client /\ w.served = k.served
      BY <3>2 DEF SameRead
    <3>4. SameRead(w, d)
      BY <2>5, <3>3, CloseOutcome DEF w
    <3> QED BY <3>3, <3>4 DEF SameRead
  <2> QED BY <2>2, <2>3, <2>4, <2>5
<1> QED
  BY <1>3, <1>4, <1>6, <1>7, <1>8

\* Flow control steps over no request, and moves none in flight.
LEMMA TlsFlowStill ==
  ASSUME NEW k, Typed(k), NEW d, d = tls_read_flow(k)
  PROVE  d.served = k.served /\ (k.in_flight => Still(k, d))
<1> DEFINE q    == CompactUnlessInFlight(k)
           room == Len(q.read_buf) < READ_BUF_SIZE /\ q.spill = <<>>
           shut == [q EXCEPT !.read_armed = FALSE]
           flow == [q EXCEPT !.read_armed = room]
<1>1. d = k \/ d = uv_close(shut) \/ d = flow
  BY DEF tls_read_flow
<1>2. q \in Client /\ q.served = k.served /\ (k.in_flight => q = k) /\ k \in Client
  <2>1. CASE k.in_flight
    BY <2>1 DEF CompactUnlessInFlight, Typed
  <2>2. CASE ~k.in_flight
    BY <2>2, CompactRepacks DEF CompactUnlessInFlight, Repacked, SameRest, Typed
  <2> QED BY <2>1, <2>2
<1>3. room \in BOOLEAN
  OBVIOUS
<1> HIDE DEF q, room
<1>4. shut \in Client /\ flow \in Client
  BY <1>2, <1>3 DEF Client
<1>5. Still(q, shut) /\ Still(q, flow)
  BY <1>2, <1>3, <1>4 DEF Client, Still
<1> HIDE DEF shut, flow
<1>6. CASE d = uv_close(shut)
  <2>1. Still(shut, d)
    BY <1>4, <1>6, CloseOutcome, SameReadStill
  <2> QED BY <1>2, <1>5, <2>1 DEF Still
<1>7. CASE d = flow
  BY <1>2, <1>5, <1>7 DEF Still
<1>8. CASE d = k
  BY <1>2, <1>8 DEF Still
<1> QED
  BY <1>1, <1>6, <1>7, <1>8

\* Bytes that arrive under a request in flight are left behind it.
LEMMA InFlightFlow ==
  ASSUME NEW k, Typed(k), k.in_flight, NEW d \in DispatchThenFlow(k)
  PROVE  d.read_buf = k.read_buf /\ d.read_off = k.read_off
<1>1. d = FlowControl(k) /\ k \in Client
  BY DEF DispatchThenFlow, Typed
<1>2. CASE k.tls
  BY <1>1, <1>2, TlsFlowStill DEF FlowControl, Still
<1>3. CASE ~k.tls
  BY <1>1, <1>3 DEF FlowControl, StopIfFull, Client
<1> QED
  BY <1>2, <1>3

\* tls_read_failed moves nothing.
LEMMA ReadFailedStill ==
  ASSUME NEW k \in Client, NEW d, d = tls_read_failed(k)
  PROVE  d.read_buf = k.read_buf /\ d.read_off = k.read_off
BY DEF tls_read_failed, uv_close, Client

\* Nor does the error branch of on_read.
LEMMA ReadErrorStill ==
  ASSUME NEW k \in Client, NEW d, d = ReadError(k)
  PROVE  d.read_buf = k.read_buf /\ d.read_off = k.read_off
BY DEF ReadError, uv_close, Client

\* A sweep of plaintext under a request in flight goes behind it.
LEMMA ReceivePut ==
  ASSUME NEW k, Typed(k), k.tls, k.in_flight, NEW bytes \in Seq(Byte),
         Len(bytes) <= TLS_SPILL_SIZE, NEW d \in tls_receive(k, bytes)
  PROVE  Put(k, d)
<1> DEFINE room == READ_BUF_SIZE - Len(k.read_buf)
           take == IF Len(bytes) < room THEN Len(bytes) ELSE room
           head == SubSeq(bytes, 1, take)
           rest == SubSeq(bytes, take + 1, Len(bytes))
           buf  == k.read_buf \o head
           kept == [k EXCEPT !.read_buf = buf]
           more == kept.spill \o rest
           full == [kept EXCEPT !.spill = more]
<1>1. CompactUnlessInFlight(k) = k /\ k \in Client
  BY DEF CompactUnlessInFlight, Typed
<1>2. d = k \/ d \in DispatchThenFlow(kept) \/ d = tls_read_failed(kept)
      \/ (d \in DispatchThenFlow(full) /\ ~(Len(full.spill) > TLS_SPILL_SIZE))
  BY <1>1 DEF tls_receive, tls_spill_stash
<1>3. /\ k.read_buf \in Seq(Byte) /\ Len(k.read_buf) \in Nat /\ Len(bytes) \in Nat
      /\ Len(k.read_buf) <= READ_BUF_SIZE
  BY <1>1, ClientFields DEF Typed, Fits
<1>4. room \in Nat
  BY <1>3, SizesAssumption
<1> HIDE DEF room
<1>5. take = IF Len(bytes) < room THEN Len(bytes) ELSE room
  OBVIOUS
<1> HIDE DEF take
<1>6. take \in Nat /\ take <= room /\ take <= Len(bytes)
  BY <1>3, <1>4, <1>5, TakeLemma
<1>7. head \in Seq(Byte) /\ Len(head) = take
  BY <1>6, HeadAt
<1>8. rest \in Seq(Byte)
  BY <1>6, TailLemma
<1> HIDE DEF head, rest
<1>9. buf \in Seq(Byte) /\ Len(buf) = Len(k.read_buf) + take
  BY <1>3, <1>7, ConcatLemma
<1>10. buf = k.read_buf \o head
  OBVIOUS
<1> HIDE DEF buf
<1>11. Len(buf) <= READ_BUF_SIZE /\ Len(k.read_buf) <= Len(buf)
  BY <1>3, <1>4, <1>6, <1>9, SizesAssumption DEF room
<1>12. Typed(kept)
  <2> HIDE DEF kept
  <2> QED BY <1>9, <1>11, GrowLemma DEF kept
<1>13. /\ kept.read_buf = buf /\ kept.read_off = k.read_off /\ kept.in_flight = k.in_flight
       /\ kept.tls = k.tls /\ kept.spill = k.spill
  BY <1>1, <1>9 DEF Client
<1> HIDE DEF kept
<1>14. kept \in Client /\ kept.in_flight /\ kept.tls
  BY <1>12, <1>13 DEF Typed
<1>15. more \in Seq(Byte)
  BY <1>8, <1>14 DEF Client
<1> HIDE DEF more
<1>16. /\ full.read_buf = kept.read_buf /\ full.read_off = kept.read_off
       /\ full.in_flight = kept.in_flight /\ full.spill = more
  BY <1>14, <1>15 DEF Client
<1>17. Len(more) <= TLS_SPILL_SIZE => Typed(full)
  <2> HIDE DEF full
  <2> QED BY <1>12, <1>14, <1>15, SpillLemma DEF full
<1> HIDE DEF full
<1>18. ASSUME d.read_buf = buf, d.read_off = k.read_off PROVE Put(k, d)
  BY <1>7, <1>10, <1>18 DEF Put
<1>19. CASE d = k
  BY <1>1, <1>19, StillPut
<1>20. CASE d \in DispatchThenFlow(kept)
  BY <1>12, <1>13, <1>14, <1>18, <1>20, InFlightFlow
<1>21. CASE d = tls_read_failed(kept)
  BY <1>13, <1>14, <1>18, <1>21, ReadFailedStill
<1>22. CASE d \in DispatchThenFlow(full) /\ ~(Len(full.spill) > TLS_SPILL_SIZE)
  <2>1. Len(more) \in Nat /\ ~(Len(more) > TLS_SPILL_SIZE)
    BY <1>15, <1>16, <1>22
  <2>2. Typed(full) /\ full.in_flight
    BY <1>14, <1>16, <1>17, <2>1, SizesAssumption
  <2>3. d.read_buf = full.read_buf /\ d.read_off = full.read_off
    BY <1>22, <2>2, InFlightFlow
  <2> QED BY <1>13, <1>16, <1>18, <2>3
<1> QED
  BY <1>2, <1>19, <1>20, <1>21, <1>22
\* What every step does with the bytes of a request in flight.
Undisturbed == c.in_flight => Put(c, c') \/ c'.served # c.served

\* A connection whose buffer is as it was is undisturbed.
LEMMA SameBytes ==
  ASSUME TypeInv, c'.read_buf = c.read_buf, c'.read_off = c.read_off
  PROVE  Undisturbed
<1>1. c \in Client
  BY DEF TypeInv, Typed
<1> QED
  BY <1>1, StillPut DEF Undisturbed

\* The keep-alive half of on_write steps over one request.
LEMMA NextRequestSteps ==
  ASSUME NEW k, Typed(k), NEW d \in NextRequest(k)
  PROVE  d.served = k.served + 1
<1> DEFINE reset   == [client_reset(k) EXCEPT !.in_flight = FALSE]
           drained == IF reset.tls THEN tls_spill_drain(reset) ELSE reset
<1>1. Renewed(k, reset)
  BY ResetLemma
<1>2. reset.served = k.served + 1
  BY DEF client_reset, Typed, Client
<1>3. d \in IF client_buffered(drained) = 0 THEN {Rearmed(drained)}
            ELSE IF Parse(drained) = "bad" THEN http_dispatch(drained)
            ELSE {Rearmed(e) : e \in http_dispatch(drained)}
  BY DEF NextRequest, Rearmed
<1> HIDE DEF reset
<1>4. Typed(reset) /\ ~reset.in_flight /\ reset \in Client
  BY <1>1 DEF Renewed, Typed
<1>5. Typed(drained)
  BY <1>4, DrainLemma DEF Renewed
<1>6. drained.served = reset.served
  <2>1. CASE ~(reset.tls /\ reset.spill # <<>>)
    BY <2>1 DEF tls_spill_drain
  <2>2. CASE reset.tls /\ reset.spill # <<>>
    <3> DEFINE q == client_compact(reset)
    <3>1. q \in Client /\ q.served = reset.served
      BY <1>4, CompactRepacks DEF Repacked, SameRest
    <3>2. PICK x, y : drained = [q EXCEPT !.read_buf = x, !.spill = y]
      BY <2>2 DEF tls_spill_drain
    <3> HIDE DEF q, drained
    <3> QED BY <3>1, <3>2 DEF Client
  <2> QED BY <2>1, <2>2
<1> HIDE DEF drained
<1>7. ASSUME NEW e, Typed(e) PROVE Rearmed(e).served = e.served
  <2>1. CASE e.tls
    BY <1>7, <2>1, TlsFlowStill DEF Rearmed
  <2>2. CASE ~e.tls
    BY <1>7, <2>2 DEF Rearmed, Typed, Client
  <2> QED BY <2>1, <2>2
<1>8. CASE client_buffered(drained) = 0
  BY <1>2, <1>3, <1>5, <1>6, <1>7, <1>8
<1>9. CASE client_buffered(drained) # 0
  <2>1. client_buffered(drained) > 0
    BY <1>5, <1>9, WindowType
  <2>2. \A e \in http_dispatch(drained) : Typed(e) /\ e.served = drained.served
    BY <1>5, <2>1, DispatchStill, DispatchLemma
  <2>3. d \in http_dispatch(drained) \/ \E e \in http_dispatch(drained) : d = Rearmed(e)
    BY <1>3, <1>9
  <2> QED BY <1>2, <1>6, <1>7, <2>2, <2>3
<1> QED
  BY <1>8, <1>9

\* on_write steps over the answered request or leaves it where it is.
LEMMA OnWriteSteps ==
  ASSUME NEW k, Typed(k), NEW ok \in BOOLEAN, NEW d \in on_write(k, ok)
  PROVE  d.served = k.served + 1 \/ (d.read_buf = k.read_buf /\ d.read_off = k.read_off)
<1> DEFINE cache == k.objs \cap {"conn"}
           none  == {}
           done  == [k EXCEPT !.write = "idle", !.pins = none, !.wblock = FALSE,
                              !.objs  = cache]
           ended == [done EXCEPT !.objs = none]
<1>1. k \in Client
  BY DEF Typed
<1>2. cache \in SUBSET {"status", "body", "task", "conn"}
      /\ none \in SUBSET {"status", "body", "task", "conn"}
      /\ none \in SUBSET {"body", "block"}
  BY <1>1 DEF Client
<1>3. \/ d \in NextRequest(done)
      \/ d \in FinalOrClose(ended, <<>>)
      \/ d = uv_close(ended)
  BY DEF on_write
<1> HIDE DEF cache, none
<1>4. done \in Client /\ SameBuffers(k, done) /\ done.served = k.served
  BY <1>1, <1>2 DEF Client, SameBuffers
<1> HIDE DEF done
<1>5. ended \in Client /\ SameBuffers(done, ended)
  BY <1>2, <1>4 DEF Client, SameBuffers
<1> HIDE DEF ended
<1>6. CASE d \in NextRequest(done)
  <2>1. Typed(done)
    BY <1>4, SameTyped
  <2>2. d.served = done.served + 1
    BY <1>6, <2>1, NextRequestSteps
  <2> QED BY <1>4, <2>2
<1>7. CASE d \in FinalOrClose(ended, <<>>)
  <2>1. <<>> \in Seq(Nat)
    OBVIOUS
  <2>2. Still(ended, d)
    BY <1>5, <1>7, <2>1, FinalStill
  <2> QED BY <1>4, <1>5, <2>2 DEF Still, SameBuffers
<1>8. CASE d = uv_close(ended)
  <2>1. SameRead(ended, d)
    BY <1>5, <1>8, CloseOutcome
  <2> QED BY <1>4, <1>5, <2>1 DEF SameRead, SameBuffers
<1> QED
  BY <1>3, <1>6, <1>7, <1>8

\* A plaintext read under a request in flight.
LEMMA ReadPlainPut ==
  ASSUME TypeInv, OnReadPlain
  PROVE  Undisturbed
<1> SUFFICES ASSUME c.in_flight PROVE Put(c, c')
  BY DEF Undisturbed
<1>1. Typed(c) /\ c \in Client /\ CompactUnlessInFlight(c) = c
  BY DEF TypeInv, Typed, CompactUnlessInFlight
<1>2. PICK n \in 1..(READ_BUF_SIZE - Len(c.read_buf)) :
        /\ rcvd + n <= Len(stream)
        /\ c' \in DispatchThenFlow([c EXCEPT !.read_buf = c.read_buf \o Take(n)])
  BY <1>1 DEF OnReadPlain
<1>3. c.read_buf \in Seq(Byte) /\ Len(c.read_buf) \in Nat
  BY <1>1, ClientFields
<1>4. n \in Nat /\ Len(c.read_buf) + n <= READ_BUF_SIZE
  BY <1>2, <1>3, SizesAssumption
<1>5. Take(n) \in Seq(Byte) /\ Len(Take(n)) = n
  BY <1>2, <1>4, TakeType
<1> DEFINE buf == c.read_buf \o Take(n)
           q   == [c EXCEPT !.read_buf = buf]
<1>6. buf \in Seq(Byte) /\ Len(buf) = Len(c.read_buf) + n
  BY <1>3, <1>5, ConcatLemma
<1>7. c' \in DispatchThenFlow(q) /\ buf = c.read_buf \o Take(n)
  BY <1>2
<1> HIDE DEF buf
<1>8. Typed(q)
  <2>1. Len(buf) <= READ_BUF_SIZE /\ Len(c.read_buf) <= Len(buf)
    BY <1>3, <1>4, <1>6
  <2> HIDE DEF q
  <2> QED BY <1>1, <1>6, <2>1, GrowLemma DEF q
<1>9. q.read_buf = buf /\ q.read_off = c.read_off /\ q.in_flight
  BY <1>1, <1>6 DEF Client
<1> HIDE DEF q
<1>10. c'.read_buf = buf /\ c'.read_off = c.read_off
  BY <1>7, <1>8, <1>9, InFlightFlow
<1> QED
  BY <1>5, <1>7, <1>10 DEF Put

\* A TLS read under a request in flight, by a connection k that is c but for
\* what the handshake changed.
LEMMA SweepPut ==
  ASSUME TypeInv, NEW k, Typed(k), k.tls, NEW n \in 0..MaxSweep, rcvd + n <= Len(stream),
         k.read_buf = c.read_buf, k.read_off = c.read_off, k.in_flight = c.in_flight,
         c' \in tls_receive(k, Take(n))
  PROVE  Undisturbed
<1>1. n \in Nat /\ n <= TLS_SPILL_SIZE
  BY SizesAssumption
<1>2. Take(n) \in Seq(Byte) /\ Len(Take(n)) = n
  BY <1>1, TakeType
<1>3. Len(Take(n)) <= TLS_SPILL_SIZE
  BY <1>1, <1>2
<1>4. k.in_flight => Put(k, c')
  BY <1>2, <1>3, ReceivePut
<1> QED
  BY <1>4 DEF Undisturbed, Put

\* A handshake read under a request in flight.
LEMMA HandshakePut ==
  ASSUME TypeInv, OnReadHandshake
  PROVE  Undisturbed
<1>1. PICK k \in tls_hs_send(c) :
        \/ c' = k
        \/ c' = tls_read_failed(k)
        \/ \E n \in 0..MaxSweep :
             /\ rcvd + n <= Len(stream)
             /\ c' \in tls_receive([k EXCEPT !.tls_hs_done = TRUE], Take(n))
  BY DEF OnReadHandshake
<1>2. Typed(c) /\ c \in Client /\ c.tls
  BY DEF TypeInv, Typed, OnReadHandshake
<1>3. k \in Client /\ SameBuffers(c, k) /\ k.in_flight = c.in_flight
  <2>1. PICK f \in Nat : f = c.flights + 1
    BY <1>2 DEF Client
  <2>2. k = c \/ k = [c EXCEPT !.flights = f]
    BY <2>1 DEF tls_hs_send
  <2>3. CASE k = c
    BY <1>2, <2>3 DEF SameBuffers
  <2>4. CASE k = [c EXCEPT !.flights = f]
    BY <1>2, <2>4, FlightsUntouched DEF Untouched, SameRest, SameRead
  <2> QED BY <2>2, <2>3, <2>4
<1>4. CASE c' = k
  BY <1>3, <1>4, SameBytes DEF SameBuffers
<1>5. CASE c' = tls_read_failed(k)
  BY <1>3, <1>5, ReadFailedStill, SameBytes DEF SameBuffers
<1>6. CASE \E n \in 0..MaxSweep :
             /\ rcvd + n <= Len(stream)
             /\ c' \in tls_receive([k EXCEPT !.tls_hs_done = TRUE], Take(n))
  <2> DEFINE q == [k EXCEPT !.tls_hs_done = TRUE]
  <2>1. PICK n \in 0..MaxSweep : rcvd + n <= Len(stream) /\ c' \in tls_receive(q, Take(n))
    BY <1>6
  <2>2. q \in Client /\ SameBuffers(k, q) /\ q.in_flight = k.in_flight
    BY <1>3 DEF Client, SameBuffers
  <2> HIDE DEF q
  <2>3. /\ q.read_buf = c.read_buf /\ q.read_off = c.read_off /\ q.spill = c.spill
        /\ q.tls = c.tls /\ q.in_flight = c.in_flight
    BY <1>3, <2>2 DEF SameBuffers
  <2>4. Typed(q)
    BY <1>2, <2>2, <2>3, SameTyped DEF SameBuffers
  <2> QED BY <1>2, <2>1, <2>3, <2>4, SweepPut
<1> QED
  BY <1>1, <1>4, <1>5, <1>6

\* Every step, whatever the environment.
LEMMA NextUndisturbed == TypeInv /\ [Next]_vars => Undisturbed
<1> SUFFICES ASSUME TypeInv, [Next]_vars PROVE Undisturbed
  OBVIOUS
<1>1. Typed(c) /\ c \in Client
  BY DEF TypeInv, Typed
<1>2. CASE OnReadPlain
  BY <1>2, ReadPlainPut
<1>3. CASE OnReadHandshake
  BY <1>3, HandshakePut
<1>4. CASE OnReadTls
  <2>1. PICK n \in 1..MaxSweep : rcvd + n <= Len(stream) /\ c' \in tls_receive(c, Take(n))
    BY <1>4 DEF OnReadTls
  <2>2. n \in 0..MaxSweep /\ c.tls
    BY <1>4, SizesAssumption DEF OnReadTls
  <2> QED BY <1>1, <2>1, <2>2, SweepPut
<1>5. ASSUME NEW k, k \in Client, k.read_buf = c.read_buf, k.read_off = c.read_off,
             c' = ReadError(k) \/ c' = tls_read_failed(k)
      PROVE  Undisturbed
  BY <1>5, ReadErrorStill, ReadFailedStill, SameBytes
<1>6. CASE OnReadBadRecord
  <2>1. c' = tls_read_failed(CompactUnlessInFlight(c))
    BY <1>6 DEF OnReadBadRecord
  <2> QED BY <1>1, <1>5, <2>1 DEF CompactUnlessInFlight, Undisturbed
<1>7. CASE OnReadEof
  BY <1>1, <1>5, <1>7 DEF OnReadEof
<1>8. CASE OnReadReset
  <2> DEFINE k == [c EXCEPT !.writable = FALSE]
  <2>1. k \in Client /\ k.read_buf = c.read_buf /\ k.read_off = c.read_off
    BY <1>1 DEF Client
  <2>2. c' = ReadError(k)
    BY <1>8 DEF OnReadReset
  <2> HIDE DEF k
  <2> QED BY <1>5, <2>1, <2>2
<1>9. CASE OnReadNoBufs
  <2>1. c' = ReadError(CompactUnlessInFlight(c))
    BY <1>9 DEF OnReadNoBufs
  <2> QED BY <1>1, <1>5, <2>1 DEF CompactUnlessInFlight, Undisturbed
<1>10. CASE OnWrite
  <2>1. PICK ok \in BOOLEAN : c' \in on_write(c, ok)
    BY <1>10 DEF OnWrite
  <2>2. c'.served = c.served + 1 \/ (c'.read_buf = c.read_buf /\ c'.read_off = c.read_off)
    BY <1>1, <2>1, OnWriteSteps
  <2>3. c.served + 1 # c.served
    BY <1>1, ClientFields
  <2> QED BY <2>2, <2>3, SameBytes DEF Undisturbed
<1>11. CASE OnTlsFinalWrite
  <2>1. c'.read_buf = c.read_buf /\ c'.read_off = c.read_off
    BY <1>1, <1>11 DEF OnTlsFinalWrite, uv_close, Client
  <2> QED BY <2>1, SameBytes
<1>12. CASE OnTlsHsWrite
  <2>1. c'.read_buf = c.read_buf /\ c'.read_off = c.read_off
    BY <1>1, <1>12 DEF OnTlsHsWrite, uv_close, Client
  <2> QED BY <2>1, SameBytes
<1>13. CASE OnClose
  <2>1. c'.read_buf = c.read_buf /\ c'.read_off = c.read_off
    BY <1>1, <1>13 DEF OnClose, Client
  <2> QED BY <2>1, SameBytes
<1>14. CASE AppSends
  <2>1. PICK r \in Nat : \E k \in Client :
           /\ k.read_buf = c.read_buf /\ k.read_off = c.read_off
           /\ c' \in asgi_send_response(k, r)
    <3>1. PICK r \in c.waiting \cup (IF Fault("sendsAgain") THEN c.lingering ELSE {}) :
            c' \in asgi_send_response(Waits(c, c.waiting \ {r}, c.lingering \cup {r}), r)
      BY <1>14 DEF AppSends, Waits
    <3>2. r \in Nat /\ c.waiting \ {r} \in SUBSET Nat /\ c.lingering \cup {r} \in SUBSET Nat
      BY <1>1, <3>1 DEF Client
    <3> DEFINE w == c.waiting \ {r}
               l == c.lingering \cup {r}
    <3>3. w \in SUBSET Nat /\ l \in SUBSET Nat /\ c' \in asgi_send_response(Waits(c, w, l), r)
      BY <3>1, <3>2
    <3> HIDE DEF w, l
    <3>4. /\ Waits(c, w, l) \in Client
          /\ Waits(c, w, l).read_buf = c.read_buf /\ Waits(c, w, l).read_off = c.read_off
      BY <1>1, <3>3 DEF Waits, Client
    <3> QED BY <3>2, <3>3, <3>4
  <2>2. c'.read_buf = c.read_buf /\ c'.read_off = c.read_off
    BY <2>1, AsgiSendOutcome DEF Replied, SameRead, SameBuffers
  <2> QED BY <2>2, SameBytes
<1>15. CASE AppFinishes
  <2>1. c'.read_buf = c.read_buf /\ c'.read_off = c.read_off
    BY <1>1, <1>15 DEF AppFinishes, Client
  <2> QED BY <2>1, SameBytes
<1>16. CASE PeerCloses \/ PeerResets \/ UNCHANGED vars
  BY <1>16, SameBytes DEF PeerCloses, PeerResets, vars
<1> QED
  BY <1>2, <1>3, <1>4, <1>6, <1>7, <1>8, <1>9, <1>10, <1>11, <1>12, <1>13, <1>14,
     <1>15, <1>16 DEF Next

\* The front of two sequences put together.
LEMMA PrefixLemma ==
  ASSUME NEW S, NEW a \in Seq(S), NEW b \in Seq(S)
  PROVE  SubSeq(a \o b, 1, Len(a)) = a
OBVIOUS

(***************************************************************************)
(* In every environment, failed handshake flights and second sends         *)
(* included: no read, compaction, flow control or error moves the bytes    *)
(* the parsed request points into before client_reset steps over them.     *)
(***************************************************************************)
THEOREM RequestIsNeverMoved == Spec => RequestStaysPut
<1>1. Init => TypeInv
  BY InitTyped
<1>2. TypeInv /\ [Next]_vars => TypeInv'
  BY NextStep
<1>3. TypeInv /\ [Next]_vars =>
        [c.in_flight /\ c'.in_flight /\ c'.served = c.served =>
           /\ c'.read_off = c.read_off
           /\ SubSeq(c'.read_buf, 1, Len(c.read_buf)) = c.read_buf]_vars
  <2> SUFFICES ASSUME TypeInv, [Next]_vars, c.in_flight, c'.served = c.served
               PROVE  /\ c'.read_off = c.read_off
                      /\ SubSeq(c'.read_buf, 1, Len(c.read_buf)) = c.read_buf
    OBVIOUS
  <2>1. Put(c, c')
    BY NextUndisturbed DEF Undisturbed
  <2>2. c.read_buf \in Seq(Byte)
    BY ClientFields DEF TypeInv, Typed
  <2> QED BY <2>1, <2>2, PrefixLemma DEF Put
<1> QED
  BY <1>1, <1>2, <1>3, PTL DEF Spec, RequestStaysPut
=============================================================================
