----------------------------- MODULE MCAsgiLoop -----------------------------
(* Instances of AsgiLoop for TLC. *)
EXTENDS AsgiLoop

CONSTANTS t1, t2

TaskSet  == {t1, t2}
DelaySet == {1, 3}

Env(p, w, f) == [poll |-> p, awaits |-> w, faults |-> f]

\* What applications await and what goes wrong, a few at a time.
AllEnvironments ==
  {Env(TRUE, {"timer", "io"}, {"exits"}),
   Env(TRUE, {"either"}, {}),
   Env(TRUE, {"thread"}, {}),
   Env(TRUE, {"timer"}, {"slowPeer", "spawns"}),
   Env(FALSE, {"timer", "io"}, {})}

\* Applications that use asyncio.timeout or wait_for.
WithTimeouts == {Env(TRUE, {"either"}, {})}

=============================================================================
