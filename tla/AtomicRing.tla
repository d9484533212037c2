----------------------------- MODULE AtomicRing -----------------------------
(***************************************************************************)
(* What the shared ticket-key ring promises its readers: one table of keys *)
(* that the owner replaces as a whole, and reads that return the table of  *)
(* one instant or decline.  After the owner has wiped the ring a read may  *)
(* find blanks, never another table.                                       *)
(***************************************************************************)
CONSTANTS Words, Workers, Scopes

VARIABLES
  table,   \* the keys in force
  wiped,   \* the owner has begun to destroy them
  got      \* each worker's answer: a state, what was asked, what was read

vars == <<table, wiped, got>>

Nothing == [state |-> "none", scope |-> {}, read |-> [w \in Words |-> 0]]

Init ==
  /\ wiped = FALSE
  /\ got = [r \in Workers |-> Nothing]

Publish(t) ==
  /\ ~wiped
  /\ table' = t
  /\ UNCHANGED <<wiped, got>>

Wipe ==
  /\ wiped' = TRUE
  /\ UNCHANGED <<table, got>>

\* A faithful answer about the words of scope.
Faithful(a) ==
  /\ a.state = "done" /\ a.scope \in Scopes
  /\ \A w \in a.scope : a.read[w] = table[w] \/ (wiped /\ a.read[w] = 0)

Answer(r, a) ==
  /\ got[r] = Nothing
  /\ a = [Nothing EXCEPT !.state = "declined"] \/ Faithful(a)
  /\ got' = [got EXCEPT ![r] = a]
  /\ UNCHANGED <<table, wiped>>

Forget(r) ==
  /\ got' = [got EXCEPT ![r] = Nothing]
  /\ UNCHANGED <<table, wiped>>

Next ==
  \/ Publish(table') \/ Wipe
  \/ \E r \in Workers : Answer(r, got'[r]) \/ Forget(r)

Spec == Init /\ [][Next]_vars
=============================================================================
