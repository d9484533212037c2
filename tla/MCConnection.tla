---------------------------- MODULE MCConnection ----------------------------
(***************************************************************************)
(* Small instances of Connection: request shapes, the streams built from   *)
(* them and the environments each run considers.                           *)
(***************************************************************************)
EXTENDS Connection

LOCAL INSTANCE SequencesExt

Shape(h, b, k, x) == [hdr |-> h, body |-> b, keep |-> k, bad |-> x]

Get   == Shape(1, 0, TRUE, FALSE)    \* the smallest request
Post  == Shape(2, 1, TRUE, FALSE)    \* headers that can split, and a body
Final  == Shape(1, 0, FALSE, FALSE)   \* Connection: close
Bad   == Shape(2, 1, TRUE, TRUE)     \* rejected by the parser, its body unread
Huge  == Shape(2, 3, FALSE, FALSE)   \* larger than read_buf

\* The bytes of a pipeline of requests, one after another.
BytesOfPipeline(shapes) ==
  FlattenSeq([r \in DOMAIN shapes |->
    [i \in 1..(shapes[r].hdr + shapes[r].body) |->
      [req |-> r, at |-> i, hdr |-> shapes[r].hdr, body |-> shapes[r].body,
       keep |-> shapes[r].keep, bad |-> shapes[r].bad]]])

MCStreams ==
  {BytesOfPipeline(p) : p \in {<<Get, Post, Get, Final>>, <<Post, Get, Bad, Get>>,
                               <<Post, Post, Post>>, <<Get, Get, Huge>>}}

MCShortStreams ==
  {BytesOfPipeline(p) : p \in {<<Post, Post, Final>>, <<Get, Huge>>, <<Get, Bad>>}}

Env(a, t, f) == [asgi |-> a, tls |-> t, faults |-> f]

\* Every server, with a peer that may close, reset, or leave it no memory.
MCEnvironments ==
  {Env(a, t, f) : a \in BOOLEAN, t \in BOOLEAN, f \in {{"reset"}, {"nomem"}, {"reset", "nomem"}}}

\* Where every begun request ends: no memory shortage, and no reset under a
\* suspended application (see DeferredCloseHasOwner).
MCFairEnvironments ==
  {Env(FALSE, t, {"reset"}) : t \in BOOLEAN} \cup {Env(TRUE, t, {}) : t \in BOOLEAN}

MCFlightFails  == {Env(FALSE, TRUE, {"reset", "flightFails"})}
MCResetAsgi    == {Env(TRUE, FALSE, {"reset"})}
MCEndsSilently == {Env(TRUE, FALSE, {"endsSilently"})}
MCSendsAgain   == {Env(TRUE, FALSE, {"sendsAgain"})}
=============================================================================
