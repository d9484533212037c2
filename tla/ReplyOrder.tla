----------------------------- MODULE ReplyOrder -----------------------------
(***************************************************************************)
(* What a connection promises its peer, whatever buffers, callbacks and    *)
(* applications are behind it: requests are answered one by one in the     *)
(* order they were asked, never before they were asked, and as long as the *)
(* connection is open it catches up with what was asked of it.             *)
(***************************************************************************)
EXTENDS Naturals

VARIABLES
  asked,    \* requests received completely
  replied,  \* responses given, each to the next unanswered request
  open      \* whether the server still holds the connection

vars == <<asked, replied, open>>

Init == asked = 0 /\ replied = 0 /\ open = TRUE

\* A step may take in requests, answer at most one, and hang up.
Serve ==
  /\ open
  /\ asked' \in Nat /\ asked' >= asked
  /\ replied' \in {replied, replied + 1}
  /\ replied' <= asked'
  /\ open' \in BOOLEAN

Next == Serve

CatchesUp == []<>(~open \/ replied = asked)

Spec == Init /\ [][Next]_vars
FairSpec == Spec /\ CatchesUp
=============================================================================
