--------------------------- MODULE MCAsgiRequest ----------------------------
(* AsgiRequest for TLC. *)
EXTENDS AsgiRequest

CONSTANTS r1, r2

TwoRequests == {r1, r2}

Any == {"yield", "future", "garbage"}

\* A cancel() and the awaited future's result in one turn of the loop.
LateCancel == {[waits |-> {"future"}, faults |-> {"tooLate"}]}

\* asyncio.timeout(0) in the first step.
ExpiredTimeout == {[waits |-> {"future"}, faults |-> {"expired"}]}

\* Applications that suspend on anything, with and without one that awaits
\* while it is closed, and the two above.
AllEnvironments ==
  {[waits |-> Any, faults |-> f] : f \in {{}, {"stubborn"}}} \cup LateCancel \cup ExpiredTimeout

=============================================================================
