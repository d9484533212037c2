----------------------------- MODULE Connection -----------------------------
(***************************************************************************)
(* One client connection of a freastal worker: the client_t of server.h    *)
(* with its embedded read buffer, the libuv callbacks of server.c that     *)
(* move it (alloc_cb, on_read, on_write, on_close and the TLS ones), and   *)
(* the call into the WSGI or ASGI application that answers a request.      *)
(*                                                                         *)
(* A worker is one thread, so a callback is atomic; what interleaves is    *)
(* the order in which libuv runs callbacks, when a suspended ASGI          *)
(* application resumes, and what the peer does meanwhile.  Handlers are    *)
(* operators from a connection to the set of connections they can leave,   *)
(* composed exactly as the C functions call one another.                   *)
(***************************************************************************)
EXTENDS Naturals, Sequences, FiniteSets

CONSTANTS
  READ_BUF_SIZE,   \* bytes read_buf may keep
  TLS_SPILL_SIZE,  \* bytes a spill block holds
  MaxSweep,        \* most plaintext one TLS read can decrypt to
  MaxFlights,      \* bound: handshake writes outstanding at once
  Streams,         \* the byte streams a peer may send
  Environments     \* the servers and surroundings considered

(***************************************************************************)
(* A byte names its request and its place in it, and carries the request's *)
(* shape: header and body length, whether it asks for keep-alive, whether  *)
(* the parser rejects it.  The parser below reads nothing else.            *)
(***************************************************************************)
Byte == [req : Nat \ {0}, at : Nat \ {0}, hdr : Nat \ {0}, body : Nat,
         keep : BOOLEAN, bad : BOOLEAN]

(***************************************************************************)
(* What a run may meet beside a well-behaved peer and application:         *)
(*   reset         the peer resets the connection; writes then fail        *)
(*   flightFails   a handshake flight is cancelled or fails                *)
(*   nomem         malloc and the block pools come up empty                *)
(*   endsSilently  a suspended application ends without sending            *)
(*   sendsAgain    an application sends a second http.response.body        *)
(*   noPtls        ptls_new() fails for a connection on the TLS port       *)
(***************************************************************************)
FaultKinds == {"reset", "flightFails", "nomem", "endsSilently",
               "sendsAgain", "noPtls"}

Environment == [asgi : BOOLEAN, tls : BOOLEAN, faults : SUBSET FaultKinds]

ASSUME SizesAssumption ==
  /\ READ_BUF_SIZE \in Nat \ {0}
  /\ MaxSweep \in Nat \ {0}
  /\ TLS_SPILL_SIZE \in Nat /\ TLS_SPILL_SIZE >= MaxSweep
  /\ MaxFlights \in Nat

\* The labelling: requests are numbered from 1 and follow one another whole,
\* every byte of one carrying the same shape; the stream may stop anywhere.
Pipeline(s) ==
  \A i \in DOMAIN s :
    IF i = 1 THEN s[i].req = 1 /\ s[i].at = 1
    ELSE IF s[i - 1].at < s[i - 1].hdr + s[i - 1].body
      THEN s[i] = [s[i - 1] EXCEPT !.at = @ + 1]
      ELSE s[i].req = s[i - 1].req + 1 /\ s[i].at = 1

ASSUME InputsAssumption ==
  /\ \A s \in Streams : s \in Seq(Byte) /\ Pipeline(s)
  /\ \A e \in Environments : e \in Environment

VARIABLES
  c,       \* the client_t, its libuv handle and its application
  env,     \* the environment of this behaviour, chosen once
  stream,  \* everything the peer will send, chosen once
  rcvd,    \* how much of stream the server has taken from the socket
  peer     \* "open", "eof" (sent FIN), "reset"

vars == <<c, env, stream, rcvd, peer>>

(***************************************************************************)
(* The fields of c.  read_len is Len(read_buf); headers_end and            *)
(* content_length are kept as their sum, which is all client_reset uses.   *)
(* objs are the Python references held; waiting and lingering are the      *)
(* suspended ASGI coroutines that have not, and that have, sent.  write is *)
(* the user of c->write_req and pins what its buffers point into.          *)
(* writable is libuv's UV_HANDLE_WRITABLE.                                 *)
(* wire, served and alert are history: responses handed to uv_write,       *)
(* requests client_reset stepped over, close_notify handed to uv_write.    *)
(***************************************************************************)
Client ==
  [handle      : {"open", "closing", "closed", "aborted"},
   read_buf    : Seq(Byte),
   read_off    : Nat,
   last_len    : Nat,
   consumed    : Nat,
   in_flight   : BOOLEAN,
   keep_alive  : BOOLEAN,
   read_armed  : BOOLEAN,
   writable    : BOOLEAN,
   write       : {"idle", "response", "final", "corrupt"},
   pins        : SUBSET {"body", "block"},
   objs        : SUBSET {"status", "body", "task", "conn"},
   waiting     : SUBSET Nat,
   lingering   : SUBSET Nat,
   tls         : BOOLEAN,
   tls_hs_done : BOOLEAN,
   tls_broken  : BOOLEAN,
   spill       : Seq(Byte),
   wblock      : BOOLEAN,
   flights     : Nat,
   wire        : Seq(Nat),
   served      : Nat,
   alert       : BOOLEAN]

TypeOK ==
  /\ c \in Client /\ c.read_off <= Len(c.read_buf)
  /\ env \in Environment
  /\ stream \in Seq(Byte)
  /\ rcvd \in 0..Len(stream)
  /\ peer \in {"open", "eof", "reset"}

Fault(f) == f \in env.faults

-----------------------------------------------------------------------------
(* The read buffer *)

client_buffered(k) == Len(k.read_buf) - k.read_off

\* The bytes from read_off on: what http_dispatch parses.
Window(k) == SubSeq(k.read_buf, k.read_off + 1, Len(k.read_buf))

client_compact(k) ==
  [k EXCEPT !.read_buf = Window(k), !.read_off = 0]

\* Mutant: the parser's resume point survives into the next request.
client_reset_KeepsLastLen(k) ==
  [(IF 0 < k.consumed /\ k.consumed < client_buffered(k)
      THEN [k EXCEPT !.read_off = @ + k.consumed]
      ELSE [k EXCEPT !.read_off = 0, !.read_buf = <<>>])
   EXCEPT !.consumed = 0, !.served = @ + 1]

client_reset(k) ==
  [(IF 0 < k.consumed /\ k.consumed < client_buffered(k)
      THEN [k EXCEPT !.read_off = @ + k.consumed]
      ELSE [k EXCEPT !.read_off = 0, !.read_buf = <<>>])
   EXCEPT !.last_len = 0, !.consumed = 0, !.served = @ + 1]

\* Mutant: the buffer is compacted under the request in flight.
CompactAlways(k) == client_compact(k)

CompactUnlessInFlight(k) == IF k.in_flight THEN k ELSE client_compact(k)

-----------------------------------------------------------------------------
(* libuv, as the callbacks use it *)

\* uv_close: libuv asserts that the handle is not closing already.
uv_close(k) ==
  [k EXCEPT !.handle = IF @ = "open" THEN "closing" ELSE "aborted"]

\* uv_write on c->write_req succeeds only while libuv holds the stream
\* writable; a read error other than EOF ends that.
CanWrite(k) == k.handle = "open" /\ k.writable

\* A request object already in use, or one inside a freed client_t, is
\* corrupted.  An error return changes nothing and never calls back.
uv_write(k, user, replies) ==
  IF k.write # "idle" \/ k.handle \in {"closed", "aborted"}
    THEN [k EXCEPT !.write = "corrupt"]
    ELSE IF CanWrite(k)
           THEN [k EXCEPT !.write = user, !.wire = @ \o replies,
                          !.pins = IF k.tls THEN {"block"} ELSE k.objs \cap {"body"}]
           ELSE k

-----------------------------------------------------------------------------
(* Answering *)

\* tls_write_response_impl: the response goes out of one chain of blocks, or
\* (no block, no big buffer, ptls_send_v failed) the connection is dropped.
tls_write_response_impl(k, r) ==
  {uv_write([k EXCEPT !.wblock = TRUE], "response", <<r>>)}
  \cup (IF Fault("nomem")
          THEN {uv_close(k), uv_close([k EXCEPT !.wblock = TRUE])}
          ELSE {})

write_response(k, r) ==
  IF k.tls THEN tls_write_response_impl(k, r)
           ELSE {uv_write(k, "response", <<r>>)}

\* send_500 and send_500_asgi: a response that ends the connection.
send_500(k, r) == write_response([k EXCEPT !.keep_alive = FALSE], r)

\* WSGI answers before it returns, with the application's response or a 500.
wsgi_call_application(k, r) ==
  write_response([k EXCEPT !.objs = @ \cup {"status", "body"}], r)
  \cup send_500([k EXCEPT !.objs = @ \cup {"status"}], r)

asgi_send_response(k, r) ==
  write_response([k EXCEPT !.objs = @ \cup {"body"}], r)

\* ASGI: the first step of the application finishes inline (having sent, or
\* answered by a 500) or suspends, before sending or after.
asgi_dispatch(k, r) ==
  asgi_send_response(k, r)
  \cup send_500(k, r)
  \cup {[d EXCEPT !.objs = @ \cup {"task"}, !.lingering = @ \cup {r}] :
          d \in asgi_send_response(k, r)}
  \cup {[k EXCEPT !.objs = @ \cup {"task"}, !.waiting = @ \cup {r}]}

\* Mutant: reading stays armed behind the final write.
FinalOrClose_StillReading(k, replies) ==
  {[uv_write([k EXCEPT !.wblock = TRUE], "final", replies) EXCEPT !.alert = TRUE]}

\* tls_send_final, and the uv_close both its callers make when it declines:
\* the last bytes of a TLS connection, with reading stopped first.
FinalOrClose(k, replies) ==
  LET quiet == [k EXCEPT !.read_armed = FALSE]
      held  == [quiet EXCEPT !.wblock = TRUE]
  IN  (IF CanWrite(k)
         THEN {[uv_write(held, "final", replies) EXCEPT !.alert = TRUE]}
         ELSE {uv_close(held)})
      \cup (IF Fault("nomem") THEN {uv_close(quiet), uv_close(held)} ELSE {})

-----------------------------------------------------------------------------
(* Parsing and dispatch *)

FrontByte(k) == k.read_buf[k.read_off + 1]

\* phr_parse_request: bytes seen before (last_len) are not searched again for
\* the end of the headers; a window that does not start a request is refused.
Parse(k) ==
  IF client_buffered(k) < FrontByte(k).hdr \/ FrontByte(k).hdr <= k.last_len
    THEN "partial"
    ELSE IF FrontByte(k).bad \/ FrontByte(k).at # 1 THEN "bad" ELSE "ok"

BodyComplete(k) == client_buffered(k) - FrontByte(k).hdr >= FrontByte(k).body

bad_request(k) ==
  IF k.tls
    THEN IF k.tls_hs_done THEN FinalOrClose(k, <<FrontByte(k).req>>) ELSE {uv_close(k)}
    ELSE {uv_close(uv_write(k, "idle", <<FrontByte(k).req>>))}  \* no callback

http_dispatch(k) ==
  LET parsed == [k EXCEPT !.consumed   = FrontByte(k).hdr + FrontByte(k).body,
                          !.keep_alive = FrontByte(k).keep]
      begun  == [parsed EXCEPT !.in_flight = TRUE, !.objs = @ \cup {"conn"}]
  IN  IF Parse(k) = "partial" THEN {[k EXCEPT !.last_len = client_buffered(k)]}
      ELSE IF Parse(k) = "bad" THEN bad_request(k)
      ELSE IF ~BodyComplete(k) THEN {parsed}
      ELSE IF env.asgi THEN asgi_dispatch(begun, FrontByte(k).req)
      ELSE wsgi_call_application(begun, FrontByte(k).req)

-----------------------------------------------------------------------------
(* Reading *)

\* Mutant: a full buffer does not stop the read.
StopIfFull_Never(k) == k

\* The tail of on_read: a full buffer that only the response in flight can
\* empty stops the read.
StopIfFull(k) ==
  IF Len(k.read_buf) >= READ_BUF_SIZE /\ k.in_flight
    THEN [k EXCEPT !.read_armed = FALSE]
    ELSE k

\* Mutant: fullness is judged before the consumed prefix is reclaimed.
tls_read_flow_NoCompact(k) ==
  IF k.handle # "open" THEN k
  ELSE IF Len(k.read_buf) >= READ_BUF_SIZE /\ ~k.in_flight
         THEN uv_close([k EXCEPT !.read_armed = FALSE])
         ELSE [k EXCEPT !.read_armed = /\ Len(k.read_buf) < READ_BUF_SIZE
                                       /\ k.spill = <<>>]

tls_read_flow(k) ==
  LET q == CompactUnlessInFlight(k)
  IN  IF k.handle # "open" THEN k
      ELSE IF Len(q.read_buf) >= READ_BUF_SIZE /\ ~q.in_flight
             THEN uv_close([q EXCEPT !.read_armed = FALSE])
             ELSE [q EXCEPT !.read_armed = /\ Len(q.read_buf) < READ_BUF_SIZE
                                           /\ q.spill = <<>>]

FlowControl(k) == IF k.tls THEN tls_read_flow(k) ELSE StopIfFull(k)

\* Mutant: bytes that arrive under a response in flight are dispatched too.
DispatchThenFlow_InFlightToo(k) ==
  IF Parse(k) = "bad" THEN http_dispatch(k)
  ELSE {FlowControl(d) : d \in http_dispatch(k)}

\* Dispatch what has accumulated unless a response is in flight; a refused
\* request (http_dispatch < 0) ends the callback.
DispatchThenFlow(k) ==
  IF k.in_flight THEN {FlowControl(k)}
  ELSE IF Parse(k) = "bad" THEN http_dispatch(k)
  ELSE {FlowControl(d) : d \in http_dispatch(k)}

tls_read_failed(k) ==
  IF k.in_flight
    THEN [k EXCEPT !.tls_broken = TRUE, !.keep_alive = FALSE, !.read_armed = FALSE]
    ELSE uv_close([k EXCEPT !.tls_broken = TRUE])

\* Mutant: the spill moves back only if all of it fits.
tls_spill_drain_AllOrNothing(k) ==
  LET q == client_compact(k)
  IN  IF Len(q.read_buf) + Len(q.spill) > READ_BUF_SIZE THEN q
      ELSE [q EXCEPT !.read_buf = @ \o q.spill, !.spill = <<>>]

tls_spill_drain(k) ==
  LET q    == client_compact(k)
      room == READ_BUF_SIZE - Len(q.read_buf)
      take == IF Len(q.spill) < room THEN Len(q.spill) ELSE room
  IN  IF k.spill = <<>> THEN k
      ELSE [q EXCEPT !.read_buf = @ \o SubSeq(q.spill, 1, take),
                     !.spill    = SubSeq(q.spill, take + 1, Len(q.spill))]

\* The surplus waits in the spill; the caller checks that there is room.
tls_spill_stash(k, rest) == [k EXCEPT !.spill = @ \o rest]

\* The data half of tls_on_read_data, for a sweep that decrypts to bytes.
\* Whether picotls grew the buffer only decides how the bytes got there.
tls_receive(k, bytes) ==
  LET q    == CompactUnlessInFlight(k)
      room == READ_BUF_SIZE - Len(q.read_buf)
      take == IF Len(bytes) < room THEN Len(bytes) ELSE room
      kept == [q EXCEPT !.read_buf = @ \o SubSeq(bytes, 1, take)]
      rest == SubSeq(bytes, take + 1, Len(bytes))
      full == tls_spill_stash(kept, rest)
  IN  IF bytes = <<>> THEN {q}
      ELSE IF rest = <<>> THEN DispatchThenFlow(kept)
      ELSE IF Len(full.spill) > TLS_SPILL_SIZE THEN {tls_read_failed(kept)}
      ELSE DispatchThenFlow(full)
           \cup (IF Fault("nomem") THEN {tls_read_failed(kept)} ELSE {})

\* tls_hs_send: an empty flight, or one malloc refused, writes nothing.
tls_hs_send(k) ==
  {k} \cup (IF k.flights < MaxFlights
              THEN {[k EXCEPT !.flights = @ + 1]} ELSE {})

-----------------------------------------------------------------------------
(* Callbacks *)

Alive == c.handle # "aborted" /\ c.write # "corrupt"

\* libuv calls on_read only on an open handle that is reading.
Reading == Alive /\ c.handle = "open" /\ c.read_armed

\* Bytes can be in the socket until the peer's FIN has been reached.
MoreToRead == rcvd < Len(stream) /\ peer # "eof"

Take(n) == SubSeq(stream, rcvd + 1, rcvd + n)

\* alloc_cb, then on_read with nread > 0 on a plaintext connection.
OnReadPlain ==
  /\ Reading /\ ~c.tls /\ MoreToRead
  /\ LET k == CompactUnlessInFlight(c)
     IN  \E n \in 1..(READ_BUF_SIZE - Len(k.read_buf)) :
           /\ rcvd + n <= Len(stream)
           /\ rcvd' = rcvd + n
           /\ c' \in DispatchThenFlow([k EXCEPT !.read_buf = @ \o Take(n)])
  /\ UNCHANGED <<env, stream, peer>>

\* on_read during the handshake: tls_on_read_data's first half, ending in
\* progress, in an error, or done with n residual plaintext bytes behind it.
OnReadHandshake ==
  /\ Reading /\ c.tls /\ ~c.tls_hs_done
  /\ \E k \in tls_hs_send(c) :
       \/ c' = k /\ rcvd' = rcvd
       \/ c' = tls_read_failed(k) /\ rcvd' = rcvd
       \/ \E n \in 0..MaxSweep :
            /\ n > 0 => MoreToRead
            /\ rcvd + n <= Len(stream)
            /\ rcvd' = rcvd + n
            /\ c' \in tls_receive([k EXCEPT !.tls_hs_done = TRUE], Take(n))
  /\ UNCHANGED <<env, stream, peer>>

\* on_read with records that decrypt to n bytes.
OnReadTls ==
  /\ Reading /\ c.tls /\ c.tls_hs_done /\ MoreToRead
  /\ \E n \in 1..MaxSweep :
       /\ rcvd + n <= Len(stream)
       /\ rcvd' = rcvd + n
       /\ c' \in tls_receive(c, Take(n))
  /\ UNCHANGED <<env, stream, peer>>

\* on_read with a record ptls_receive() refuses.
OnReadBadRecord ==
  /\ Reading /\ c.tls /\ c.tls_hs_done
  /\ c' = tls_read_failed(CompactUnlessInFlight(c))
  /\ UNCHANGED <<env, stream, rcvd, peer>>

\* Mutant: the connection is closed under the response in flight.
ReadError_Closes(k) == uv_close([k EXCEPT !.objs = @ \ {"status", "body", "conn"}])

\* Mutant: the objects of the response in flight are cleared underneath it.
ReadError_ClearsResponse(k) ==
  IF k.in_flight
    THEN [k EXCEPT !.keep_alive = FALSE, !.read_armed = FALSE,
                   !.objs = @ \ {"status", "body", "conn"}]
    ELSE uv_close([k EXCEPT !.objs = @ \ {"status", "body", "conn"}])

\* on_read with nread < 0: the response in flight closes, or on_read does.
ReadError(k) ==
  IF k.in_flight
    THEN [k EXCEPT !.keep_alive = FALSE, !.read_armed = FALSE]
    ELSE uv_close([k EXCEPT !.objs = @ \ {"status", "body", "conn"}])

OnReadEof ==
  /\ Reading /\ peer = "eof"
  /\ c' = ReadError(c)
  /\ UNCHANGED <<env, stream, rcvd, peer>>

OnReadReset ==
  /\ Reading /\ peer = "reset"
  /\ c' = ReadError([c EXCEPT !.writable = FALSE])
  /\ UNCHANGED <<env, stream, rcvd, peer>>

\* alloc_cb offered no room: libuv reports UV_ENOBUFS.
OnReadNoBufs ==
  /\ Reading /\ ~c.tls /\ MoreToRead
  /\ Len(CompactUnlessInFlight(c).read_buf) >= READ_BUF_SIZE
  /\ c' = ReadError(CompactUnlessInFlight(c))
  /\ UNCHANGED <<env, stream, rcvd, peer>>

\* Mutant: a read stopped by a full buffer is never armed again.
NextRequest_NoRearm(k) ==
  LET reset == [client_reset(k) EXCEPT !.in_flight = FALSE]
  IN  IF client_buffered(reset) = 0 THEN {reset} ELSE http_dispatch(reset)

\* Mutant: a buffer with nothing pipelined keeps the offset it was emptied at.
NextRequest_KeepsOffset(k) ==
  LET reset == [client_reset(k) EXCEPT !.in_flight = FALSE]
  IN  IF client_buffered(reset) = 0
        THEN {[reset EXCEPT !.read_off = k.read_off + k.consumed]}
        ELSE http_dispatch(reset)

\* The keep-alive half of on_write.
NextRequest(k) ==
  LET reset   == [client_reset(k) EXCEPT !.in_flight = FALSE]
      drained == IF reset.tls THEN tls_spill_drain(reset) ELSE reset
      Rearm(d) == IF d.tls THEN tls_read_flow(d)
                  ELSE [d EXCEPT !.read_armed = @ \/ ~d.in_flight]
  IN  IF client_buffered(drained) = 0 THEN {Rearm(drained)}
      ELSE IF Parse(drained) = "bad" THEN http_dispatch(drained)
      ELSE {Rearm(d) : d \in http_dispatch(drained)}

on_write(k, ok) ==
  LET done  == [k EXCEPT !.write = "idle", !.pins = {}, !.wblock = FALSE,
                         !.objs  = @ \cap {"conn"}]
      ended == [done EXCEPT !.objs = {}]
  IN  IF ok /\ k.keep_alive THEN NextRequest(done)
      ELSE IF ok /\ k.tls /\ ~k.tls_broken /\ k.tls_hs_done
             THEN FinalOrClose(ended, <<>>)
             ELSE {uv_close(ended)}

\* A write fails when the peer has reset, or is cancelled by uv_close.
OnWrite ==
  /\ Alive /\ c.write = "response" /\ c.handle \in {"open", "closing"}
  /\ \E ok \in BOOLEAN :
       /\ ok \/ peer = "reset" \/ c.handle = "closing"
       /\ c' \in on_write(c, ok)
  /\ UNCHANGED <<env, stream, rcvd, peer>>

OnTlsFinalWrite ==
  /\ Alive /\ c.write = "final" /\ c.handle \in {"open", "closing"}
  /\ c' = uv_close([c EXCEPT !.write = "idle", !.pins = {}, !.wblock = FALSE])
  /\ UNCHANGED <<env, stream, rcvd, peer>>

\* on_tls_hs_write: status < 0 closes the handle, whatever state it is in.
OnTlsHsWrite ==
  /\ Alive /\ c.flights > 0 /\ c.handle \in {"open", "closing"}
  /\ LET landed == [c EXCEPT !.flights = @ - 1]
     IN  \E ok \in BOOLEAN :
           /\ ~ok => Fault("flightFails") /\ (peer = "reset" \/ c.handle = "closing")
           /\ c' = IF ok THEN landed ELSE uv_close(landed)
  /\ UNCHANGED <<env, stream, rcvd, peer>>

\* libuv flushes every outstanding write before the close callback, and
\* on_close releases what tls_conn_free and the connection cache still hold.
OnClose ==
  /\ Alive /\ c.handle = "closing" /\ c.write = "idle" /\ c.flights = 0
  /\ c' = [c EXCEPT !.handle = "closed", !.objs = @ \ {"conn"}, !.wblock = FALSE,
                    !.spill = <<>>, !.tls = FALSE, !.tls_hs_done = FALSE,
                    !.tls_broken = FALSE]
  /\ UNCHANGED <<env, stream, rcvd, peer>>

-----------------------------------------------------------------------------
(* The ASGI application after its first step *)

\* The coroutine sends http.response.body; nothing in send() or
\* asgi_send_response stops one that has sent before.
AppSends ==
  /\ Alive
  /\ \E r \in c.waiting \cup (IF Fault("sendsAgain") THEN c.lingering ELSE {}) :
       c' \in asgi_send_response([c EXCEPT !.waiting   = @ \ {r},
                                           !.lingering = @ \cup {r}], r)
  /\ UNCHANGED <<env, stream, rcvd, peer>>

\* The coroutine returns or raises inside its task, which nobody awaits.
AppFinishes ==
  /\ Alive
  /\ \E r \in c.lingering \cup (IF Fault("endsSilently") THEN c.waiting ELSE {}) :
       c' = [c EXCEPT !.waiting   = IF r \in c.lingering THEN @ ELSE @ \ {r},
                      !.lingering = @ \ {r}]
  /\ UNCHANGED <<env, stream, rcvd, peer>>

-----------------------------------------------------------------------------
(* The peer *)

PeerCloses ==
  /\ peer = "open"
  /\ peer' = "eof"
  /\ UNCHANGED <<c, env, stream, rcvd>>

PeerResets ==
  /\ Fault("reset") /\ peer # "reset"
  /\ peer' = "reset"
  /\ UNCHANGED <<c, env, stream, rcvd>>

-----------------------------------------------------------------------------

\* on_new_connection, with the client_t client_alloc cleared: reading is on.
NewClient(tls) ==
  [handle |-> "open", read_buf |-> <<>>, read_off |-> 0, last_len |-> 0,
   consumed |-> 0, in_flight |-> FALSE, keep_alive |-> FALSE,
   read_armed |-> TRUE, writable |-> TRUE, write |-> "idle", pins |-> {}, objs |-> {},
   waiting |-> {}, lingering |-> {}, tls |-> tls, tls_hs_done |-> FALSE,
   tls_broken |-> FALSE, spill |-> <<>>, wblock |-> FALSE, flights |-> 0,
   wire |-> <<>>, served |-> 0, alert |-> FALSE]

Init ==
  /\ env \in Environments
  /\ stream \in Streams
  /\ \E tls \in BOOLEAN :
       /\ tls => env.tls
       /\ env.tls /\ ~tls => Fault("noPtls")
       /\ c = NewClient(tls)
  /\ rcvd = 0
  /\ peer = "open"

Next ==
  \/ OnReadPlain \/ OnReadHandshake \/ OnReadTls \/ OnReadBadRecord
  \/ OnReadEof \/ OnReadReset \/ OnReadNoBufs
  \/ OnWrite \/ OnTlsFinalWrite \/ OnTlsHsWrite \/ OnClose
  \/ AppSends \/ AppFinishes
  \/ PeerCloses \/ PeerResets

Spec == Init /\ [][Next]_vars

\* Whatever a reading handle has to deliver.
OnRead == OnReadPlain \/ OnReadTls \/ OnReadEof \/ OnReadReset \/ OnReadNoBufs

\* The completion of whatever was written.
OnWritten == OnWrite \/ OnTlsFinalWrite \/ OnTlsHsWrite

(***************************************************************************)
(* libuv keeps polling and completes what was started; the peer owes       *)
(* nothing.  AppSends is fair because an application that never answers is *)
(* not freastal's to repair.                                               *)
(***************************************************************************)
FairSpec ==
  /\ Spec
  /\ WF_vars(OnRead) /\ WF_vars(OnWritten) /\ WF_vars(OnClose) /\ WF_vars(AppSends)

-----------------------------------------------------------------------------
(* Properties *)

Open == c.handle = "open"

\* How many bytes of the stream belong to the first n requests.
BytesOf(n) == Cardinality({i \in DOMAIN stream : stream[i].req <= n})

(***************************************************************************)
(* server.c:262 "responses cannot interleave on the wire": the n-th        *)
(* response given to the socket answers the n-th request of the stream.    *)
(***************************************************************************)
RepliesInOrder == \A i \in DOMAIN c.wire : c.wire[i] = i

(***************************************************************************)
(* Across partial reads, client_reset's in-place advance, compaction and   *)
(* the TLS spill, what an open connection still holds is exactly what it   *)
(* received and has not answered, in order.  A broken TLS session that is  *)
(* only waiting for its response may have dropped its tail.                *)
(***************************************************************************)
NoByteLost ==
  Open /\ ~c.tls_broken =>
    Window(c) \o c.spill = SubSeq(stream, BytesOf(c.served) + 1, rcvd)

(***************************************************************************)
(* The buffers stay within their sizes, and a read is armed only when it   *)
(* has somewhere to put what it delivers: TLS with an empty spill and room *)
(* in read_buf, plaintext with room whenever a response is in flight, so   *)
(* that hard pipelining never meets UV_ENOBUFS (server.c:328).             *)
(***************************************************************************)
ReadHasRoom ==
  /\ Len(c.read_buf) <= READ_BUF_SIZE
  /\ Len(c.spill) <= TLS_SPILL_SIZE
  /\ Open /\ c.read_armed =>
       /\ c.spill = <<>>
       /\ c.in_flight \/ c.tls => Len(c.read_buf) < READ_BUF_SIZE

(***************************************************************************)
(* server.c:816: the spill is non-empty only while read_buf is completely  *)
(* full, and then a response is in flight that will drain it.              *)
(***************************************************************************)
SpillBehindFullBuffer ==
  Open /\ c.write # "final" /\ c.spill # <<>> =>
    Len(c.read_buf) = READ_BUF_SIZE /\ c.in_flight

\* Every byte received is answered or still held, in the buffer first and
\* behind it in the spill.
BytesAccountedFor == NoByteLost /\ SpillBehindFullBuffer

(***************************************************************************)
(* An open connection with nothing in flight is reading, and no complete   *)
(* request sits in its buffer: a pipelined request is never forgotten.     *)
(***************************************************************************)
NothingForgotten ==
  Open /\ ~c.in_flight /\ c.write # "final" =>
    /\ c.read_armed
    /\ client_buffered(c) > 0 =>
         client_buffered(c) < FrontByte(c).hdr + FrontByte(c).body

(***************************************************************************)
(* The close that on_read and tls_read_failed leave "to on_write" has an   *)
(* owner: while libuv will accept a write, a request in flight has its     *)
(* response outstanding or an application that has yet to send it.         *)
(***************************************************************************)
InFlightHasOwner ==
  Open /\ c.in_flight /\ c.writable /\ c.write # "final" =>
    c.write = "response" \/ c.waiting # {}

\* No request waits for nothing: what is buffered is begun, what is begun has
\* someone to end it.
RequestsLookedAfter == NothingForgotten /\ InFlightHasOwner

(***************************************************************************)
(* The same without the proviso: server.c:288 "leave the close to on_write *)
(* [...] when it runs", so something that leads to on_write is under way.  *)
(***************************************************************************)
DeferredCloseHasOwner ==
  Open /\ c.in_flight /\ c.write # "final" =>
    c.write = "response" \/ c.waiting # {}

(***************************************************************************)
(* server.c:287 "on_write would then close a second time, which libuv      *)
(* aborts on": no sequence of callbacks closes the handle twice.           *)
(***************************************************************************)
ClosedOnce == c.handle # "aborted"

(***************************************************************************)
(* c->write_req has one user at a time and none after the client is freed. *)
(***************************************************************************)
WriteReqExclusive == c.write # "corrupt"

(***************************************************************************)
(* uv_write points into the response's buffers until it calls back: the    *)
(* body or the blocks it was given are still held while it is outstanding. *)
(***************************************************************************)
WriteBuffersHeld ==
  c.write \in {"response", "final"} =>
    /\ "body" \in c.pins => "body" \in c.objs
    /\ "block" \in c.pins => c.wblock

(***************************************************************************)
(* server.c:444 "Per-request objects are cleared before uv_close": a freed *)
(* connection leaks no Python reference, unless a response was abandoned   *)
(* for want of memory.                                                     *)
(***************************************************************************)
FreedHoldsNothing ==
  c.handle = "closed" /\ ~Fault("nomem") => c.objs = {}

\* What a response is written from is held exactly as long as it is needed.
HeldWhileNeeded == WriteBuffersHeld /\ FreedHoldsNothing

(***************************************************************************)
(* The server hangs up only for a reason: the peer went, the record layer  *)
(* broke, the request just answered ended the connection (on_write leaves  *)
(* in_flight set then), the request at the front is malformed or cannot    *)
(* fit in read_buf, or memory ran out.                                     *)
(***************************************************************************)
ClosesForCause ==
  c.handle = "closing" =>
    \/ peer # "open" \/ c.tls_broken \/ Fault("nomem")
    \/ c.in_flight /\ ~c.keep_alive
    \/ client_buffered(c) > 0 /\ FrontByte(c).bad
    \/ client_buffered(c) > 0 /\ FrontByte(c).hdr + FrontByte(c).body > READ_BUF_SIZE

(***************************************************************************)
(* server.c:385: a TLS connection whose last response was delivered on a   *)
(* sound record layer ends with a close_notify, so that the peer can tell  *)
(* the close from a truncation.                                            *)
(***************************************************************************)
OrderlyCloseAnnounced ==
  /\ c.handle = "closing" /\ c.tls /\ ~c.tls_broken /\ ~Fault("nomem")
  /\ c.in_flight /\ peer = "open"
  => c.alert

\* The server hangs up for a reason, and tells a TLS peer when it can.
ClosesProperly == ClosesForCause /\ OrderlyCloseAnnounced

(***************************************************************************)
(* While a request is in flight its parsed bytes stay where they are: the  *)
(* method, path and header pointers point into read_buf.                   *)
(***************************************************************************)
RequestStaysPut ==
  [][c.in_flight /\ c'.in_flight /\ c'.served = c.served =>
       /\ c'.read_off = c.read_off
       /\ SubSeq(c'.read_buf, 1, Len(c.read_buf)) = c.read_buf]_vars

\* Every request that was begun is finished, or the connection is gone.
BegunIsFinished == c.in_flight ~> (~c.in_flight \/ c.handle = "closed")

\* A connection whose peer left is closed and its client_t returned.
PeerGoneIsClosed == peer # "open" ~> c.handle = "closed"

\* Every connection moves on: requests finish, and abandoned ones close.
Progress == BegunIsFinished /\ PeerGoneIsClosed

\* The byte that makes a request answerable: its last, or the end of the
\* headers of one that the parser refuses without waiting for a body.
Completes(b) == b.at = IF b.bad THEN b.hdr ELSE b.hdr + b.body

\* Requests received so far that can be answered.
Asked == Cardinality({i \in 1..rcvd : Completes(stream[i])})

Replies == INSTANCE ReplyOrder
             WITH asked <- Asked, replied <- Len(c.wire), open <- Open

\* The callbacks together implement the in-order server of ReplyOrder, its
\* promise to catch up included.
ImplementsReplyOrder == Replies!FairSpec
=============================================================================
