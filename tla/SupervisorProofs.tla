-------------------------- MODULE SupervisorProofs --------------------------
(***************************************************************************)
(* Proofs about Supervisor, for any number of workers and of stop signals: *)
(* however serve() is left, it has cleaned up after itself, unless a       *)
(* signal landed in one of the gaps, and it returns normally only if every *)
(* worker was started, has ended and ended well.                           *)
(***************************************************************************)
EXTENDS Supervisor, TLAPS

Clean == ~res.ring /\ res.thread # "running"

\* Before the workers are all started there is no rotation thread and SIGUSR1
\* is as it was; before the ring's creation there is no ring either.
BeforeRing == {"bind", "arm", "create"}
BeforeThread == BeforeRing \cup {"created", "start", "forked", "registered", "rotator"}
Untouched == ~res.usr1 /\ res.thread = "none"

\* What is left to clean up, by where the main thread is.  A handler that
\* runs on top of a gap has left its mark there, and SystemExit is on its way
\* past the cleaning up.
CleanInv ==
  /\ pc \in BeforeRing => ~res.ring
  /\ pc \in BeforeThread => Untouched
  /\ pc = "scrub" => res.thread # "running"
  /\ pc = "report" => Clean
  /\ (handler # "off" /\ pc \in CleanupGaps \cup {FlagGap}) => pc \in cut
  /\ (Left /\ killed = "no" /\ cut \cap CleanupGaps = {}) => Clean

\* While no gap was hit, the handler of SIGUSR1 is installed only where the
\* flag is about to be set, or is set and the finally clause still to look.
Usr1Inv ==
  (res.usr1 /\ killed = "no" /\ cut \cap CleanupGaps = {} /\ FlagGap \notin cut) =>
    pc = "flag" \/ (pc \in {"join", "restore"} /\ res.noted)

AllEnded == listed = N /\ \A i \in Workers : proc[i].at = "ended"

\* How far the workers are, by where the main thread is.  joined speaks for
\* the main thread's own join() only while no handler has run.
JoinInv ==
  /\ pc \in {"forked", "registered"} => listed < N
  /\ pc \in {"rotator", "usr1", "flag", "join"} => listed = N
  /\ (pc \in BeforeThread \cup {"usr1", "flag"} /\ handler = "off") => joined = 0
  /\ (pc = "join" /\ handler = "off") => \A i \in 1..joined : proc[i].at = "ended"
  /\ (pc \in Finally \cup {"report"} /\ exc = "none") => AllEnded

Inv == TypeOK /\ CleanInv /\ Usr1Inv /\ JoinInv /\ ReturnsOnlyIfAllWell

\* What a worker is.
Proc == [at : {"unborn", "fresh", "up", "ended"}, failed : BOOLEAN, term : {"no", "sent", "lost"}]

\* terminate() changes no worker but for the SIGTERM it is sent, and none that
\* has ended.
LEMMA SignalledLemma ==
  ASSUME TypeOK, NEW who
  PROVE  /\ Signalled(who) \in [Workers -> Proc]
         /\ \A i \in Workers : /\ Signalled(who)[i].at = proc[i].at
                              /\ Signalled(who)[i].failed = proc[i].failed
<1>1. \A i \in Workers : proc[i] \in Proc
  BY DEF TypeOK, Proc
<1>2. \A i \in Workers : [proc[i] EXCEPT !.term = "sent"] =
                             [at |-> proc[i].at, failed |-> proc[i].failed, term |-> "sent"]
  BY <1>1 DEF Proc
<1>3. \A i \in Workers : Signalled(who)[i] \in {proc[i], [proc[i] EXCEPT !.term = "sent"]}
  BY DEF Signalled
<1>4. \A i \in Workers : /\ Signalled(who)[i] \in Proc
                         /\ Signalled(who)[i].at = proc[i].at
                         /\ Signalled(who)[i].failed = proc[i].failed
  BY <1>1, <1>2, <1>3 DEF Proc
<1> QED
  BY <1>4 DEF Signalled

\* At first there is nothing to clean up and nothing to wait for.
LEMMA InitLemma == Init => Inv
<1> SUFFICES ASSUME Init PROVE Inv
  OBVIOUS
<1> USE SupervisorAssumption DEF Init
<1>1. TypeOK
  <2>1. env \in [main : BOOLEAN, tls : BOOLEAN]
    <3>1. PICK m \in Threads, t \in Tls : env = [main |-> m, tls |-> t]
      OBVIOUS
    <3>2. m \in BOOLEAN /\ t \in BOOLEAN
      OBVIOUS
    <3> QED
      BY <3>1, <3>2
  <2>2. proc \in [Workers -> Proc]
    BY DEF Proc
  <2>3. res \in [ring : BOOLEAN, usr1 : BOOLEAN, noted : BOOLEAN,
               thread : {"none", "running", "stopping", "ended"}]
    OBVIOUS
  <2>4. /\ pc = "bind" /\ joined = 0 /\ handler = "off" /\ exc = "none" /\ listed = 0 /\ known = {}
        /\ armed \in BOOLEAN /\ killed = "no" /\ signals = 0 /\ cut = {}
    OBVIOUS
  <2> HIDE DEF Init
  <2> QED
    BY <2>1, <2>2, <2>3, <2>4 DEF TypeOK, Points, Proc
<1>2. CleanInv /\ Usr1Inv
  BY DEF CleanInv, Usr1Inv, Left, Clean, Untouched, BeforeRing, BeforeThread
<1>3. JoinInv /\ ReturnsOnlyIfAllWell
  BY DEF JoinInv, ReturnsOnlyIfAllWell, Left, BeforeRing, BeforeThread, Finally
<1> QED
  BY <1>1, <1>2, <1>3 DEF Inv

\* The listeners are bound, or serve() raises with nothing to clean up.
LEMMA BindLemma ==
  ASSUME Inv, Bind
  PROVE  Inv'
<1> USE SupervisorAssumption DEF Inv, At, Workers
<1>1. TypeOK'
  BY DEF Bind, TypeOK, JoinInv, Points, TryBlock, Finally, CleanupGaps, FlagGap, ChildGaps, Gaps
<1>2. CleanInv' /\ Usr1Inv'
  BY DEF Bind, TypeOK, CleanInv, Usr1Inv, Left, Clean, Untouched, BeforeRing, BeforeThread,
     TryBlock, Finally, CleanupGaps, FlagGap
<1>3. JoinInv'
  BY <1>1 DEF Bind, TypeOK, JoinInv, AllEnded, BeforeRing, BeforeThread, TryBlock, Finally
<1>4. ReturnsOnlyIfAllWell'
  BY <1>1 DEF Bind, TypeOK, JoinInv, ReturnsOnlyIfAllWell, AllEnded, Left, TryBlock, Finally
<1> QED
  BY <1>1, <1>2, <1>3, <1>4

\* signal.signal touches none of what is cleaned up.
LEMMA ArmLemma ==
  ASSUME Inv, Arm
  PROVE  Inv'
<1> USE SupervisorAssumption DEF Inv, At, Workers
<1>1. TypeOK'
  BY DEF Arm, TypeOK, JoinInv, Points, TryBlock, Finally, CleanupGaps, FlagGap, ChildGaps, Gaps
<1>2. CleanInv' /\ Usr1Inv'
  BY DEF Arm, TypeOK, CleanInv, Usr1Inv, Left, Clean, Untouched, BeforeRing, BeforeThread, TryBlock,
     Finally, CleanupGaps, FlagGap
<1>3. JoinInv'
  BY <1>1 DEF Arm, TypeOK, JoinInv, AllEnded, BeforeRing, BeforeThread, TryBlock, Finally
<1>4. ReturnsOnlyIfAllWell'
  BY <1>1 DEF Arm, TypeOK, JoinInv, ReturnsOnlyIfAllWell, AllEnded, Left, TryBlock, Finally
<1> QED
  BY <1>1, <1>2, <1>3, <1>4

\* The ring is there from here on, the try statement is not.
LEMMA CreateRingLemma ==
  ASSUME Inv, CreateRing
  PROVE  Inv'
<1> USE SupervisorAssumption DEF Inv, At, Workers
<1>1. TypeOK'
  BY DEF CreateRing, TypeOK, JoinInv, Points, TryBlock, Finally, CleanupGaps, FlagGap, ChildGaps,
     Gaps
<1>2. CleanInv' /\ Usr1Inv'
  BY DEF CreateRing, TypeOK, CleanInv, Usr1Inv, Left, Clean, Untouched, BeforeRing, BeforeThread,
     TryBlock, Finally, CleanupGaps, FlagGap
<1>3. JoinInv'
  BY <1>1 DEF CreateRing, TypeOK, JoinInv, AllEnded, BeforeRing, BeforeThread, TryBlock, Finally
<1>4. ReturnsOnlyIfAllWell'
  BY <1>1 DEF CreateRing, TypeOK, JoinInv, ReturnsOnlyIfAllWell, AllEnded, Left, TryBlock, Finally
<1> QED
  BY <1>1, <1>2, <1>3, <1>4

\* The try statement begins before a worker is started.
LEMMA EnterTryLemma ==
  ASSUME Inv, EnterTry
  PROVE  Inv'
<1> USE SupervisorAssumption DEF Inv, At, Workers
<1>1. TypeOK'
  BY DEF EnterTry, TypeOK, JoinInv, Points, TryBlock, Finally, CleanupGaps, FlagGap, ChildGaps, Gaps
<1>2. CleanInv' /\ Usr1Inv'
  BY DEF EnterTry, TypeOK, CleanInv, Usr1Inv, Left, Clean, Untouched, BeforeRing, BeforeThread,
     TryBlock, Finally, CleanupGaps, FlagGap
<1>3. JoinInv'
  BY <1>1 DEF EnterTry, TypeOK, JoinInv, AllEnded, BeforeRing, BeforeThread, TryBlock, Finally
<1>4. ReturnsOnlyIfAllWell'
  BY <1>1 DEF EnterTry, TypeOK, JoinInv, ReturnsOnlyIfAllWell, AllEnded, Left, TryBlock, Finally
<1> QED
  BY <1>1, <1>2, <1>3, <1>4

\* Process.start() forks the next worker, or raises inside the try statement.
LEMMA ForkLemma ==
  ASSUME Inv, Fork
  PROVE  Inv'
<1> USE SupervisorAssumption DEF Inv, At, Workers
<1>1. TypeOK'
  <2>1. proc' \in [Workers -> Proc]
    BY SMTT(30) DEF Fork, TypeOK, Proc
  <2> QED
    BY <2>1 DEF Fork, Unwind, TypeOK, Proc, Points, TryBlock, Finally
<1>2. CleanInv' /\ Usr1Inv'
  BY DEF Fork, Unwind, TypeOK, CleanInv, Usr1Inv, Left, Clean, Untouched, BeforeRing, BeforeThread,
     TryBlock, Finally, CleanupGaps, FlagGap
<1>3. JoinInv'
  BY <1>1 DEF Fork, Unwind, TypeOK, JoinInv, AllEnded, BeforeRing, BeforeThread, TryBlock, Finally
<1>4. ReturnsOnlyIfAllWell'
  BY <1>1 DEF Fork, Unwind, TypeOK, JoinInv, ReturnsOnlyIfAllWell, AllEnded, Left, TryBlock, Finally
<1> QED
  BY <1>1, <1>2, <1>3, <1>4

\* multiprocessing comes to know a worker that is not listed yet.
LEMMA RegisterLemma ==
  ASSUME Inv, Register
  PROVE  Inv'
<1> USE SupervisorAssumption DEF Inv, At, Workers
<1>1. TypeOK'
  BY DEF Register, TypeOK, JoinInv, Points, TryBlock, Finally, CleanupGaps, FlagGap, ChildGaps, Gaps
<1>2. CleanInv' /\ Usr1Inv'
  BY DEF Register, TypeOK, CleanInv, Usr1Inv, Left, Clean, Untouched, BeforeRing, BeforeThread,
     TryBlock, Finally, CleanupGaps, FlagGap
<1>3. JoinInv'
  BY <1>1 DEF Register, TypeOK, JoinInv, AllEnded, BeforeRing, BeforeThread, TryBlock, Finally
<1>4. ReturnsOnlyIfAllWell'
  BY <1>1 DEF Register, TypeOK, JoinInv, ReturnsOnlyIfAllWell, AllEnded, Left, TryBlock, Finally
<1> QED
  BY <1>1, <1>2, <1>3, <1>4

\* processes.append(p): at most N of them.
LEMMA ListLemma ==
  ASSUME Inv, List
  PROVE  Inv'
<1> USE SupervisorAssumption DEF Inv, At, Workers
<1>1. TypeOK'
  BY DEF List, TypeOK, JoinInv, Points, TryBlock, Finally, CleanupGaps, FlagGap, ChildGaps, Gaps
<1>2. CleanInv' /\ Usr1Inv'
  BY DEF List, TypeOK, CleanInv, Usr1Inv, Left, Clean, Untouched, BeforeRing, BeforeThread,
     TryBlock, Finally, CleanupGaps, FlagGap
<1>3. JoinInv'
  BY <1>1 DEF List, TypeOK, JoinInv, AllEnded, BeforeRing, BeforeThread, TryBlock, Finally
<1>4. ReturnsOnlyIfAllWell'
  BY <1>1 DEF List, TypeOK, JoinInv, ReturnsOnlyIfAllWell, AllEnded, Left, TryBlock, Finally
<1> QED
  BY <1>1, <1>2, <1>3, <1>4

\* The loop ends with all the workers listed.
LEMMA EndStartLemma ==
  ASSUME Inv, EndStart
  PROVE  Inv'
<1> USE SupervisorAssumption DEF Inv, At, Workers
<1>1. TypeOK'
  BY DEF EndStart, TypeOK, JoinInv, Points, TryBlock, Finally, CleanupGaps, FlagGap, ChildGaps, Gaps
<1>2. CleanInv' /\ Usr1Inv'
  BY DEF EndStart, TypeOK, CleanInv, Usr1Inv, Left, Clean, Untouched, BeforeRing, BeforeThread,
     TryBlock, Finally, CleanupGaps, FlagGap
<1>3. JoinInv'
  BY <1>1 DEF EndStart, TypeOK, JoinInv, AllEnded, BeforeRing, BeforeThread, TryBlock, Finally
<1>4. ReturnsOnlyIfAllWell'
  BY <1>1 DEF EndStart, TypeOK, JoinInv, ReturnsOnlyIfAllWell, AllEnded, Left, TryBlock, Finally
<1> QED
  BY <1>1, <1>2, <1>3, <1>4

\* The rotation thread starts, or the finally clause is next.
LEMMA StartRotatorLemma ==
  ASSUME Inv, StartRotator
  PROVE  Inv'
<1> USE SupervisorAssumption DEF Inv, At, Workers
<1>1. TypeOK'
  BY DEF StartRotator, Unwind, TypeOK, JoinInv, Points, TryBlock, Finally, CleanupGaps, FlagGap,
     ChildGaps, Gaps
<1>2. CleanInv' /\ Usr1Inv'
  BY DEF StartRotator, Unwind, TypeOK, CleanInv, Usr1Inv, Left, Clean, Untouched, BeforeRing,
     BeforeThread, TryBlock, Finally, CleanupGaps, FlagGap
<1>3. JoinInv'
  BY <1>1 DEF StartRotator, Unwind, TypeOK, JoinInv, AllEnded, BeforeRing, BeforeThread,
     TryBlock, Finally
<1>4. ReturnsOnlyIfAllWell'
  BY <1>1 DEF StartRotator, Unwind, TypeOK, JoinInv, ReturnsOnlyIfAllWell, AllEnded, Left,
     TryBlock, Finally
<1> QED
  BY <1>1, <1>2, <1>3, <1>4

\* The handler of SIGUSR1 is installed before the flag says so.
LEMMA InstallUsr1Lemma ==
  ASSUME Inv, InstallUsr1
  PROVE  Inv'
<1> USE SupervisorAssumption DEF Inv, At, Workers
<1>1. TypeOK'
  BY DEF InstallUsr1, TypeOK, JoinInv, Points, TryBlock, Finally, CleanupGaps, FlagGap, ChildGaps,
     Gaps
<1>2. CleanInv' /\ Usr1Inv'
  BY DEF InstallUsr1, TypeOK, CleanInv, Usr1Inv, Left, Clean, Untouched, BeforeRing, BeforeThread,
     TryBlock, Finally, CleanupGaps, FlagGap
<1>3. JoinInv'
  BY <1>1 DEF InstallUsr1, TypeOK, JoinInv, AllEnded, BeforeRing, BeforeThread, TryBlock, Finally
<1>4. ReturnsOnlyIfAllWell'
  BY <1>1 DEF InstallUsr1, TypeOK, JoinInv, ReturnsOnlyIfAllWell, AllEnded, Left, TryBlock, Finally
<1> QED
  BY <1>1, <1>2, <1>3, <1>4

\* From here on the finally clause knows that there is a handler to put back.
LEMMA NoteUsr1Lemma ==
  ASSUME Inv, NoteUsr1
  PROVE  Inv'
<1> USE SupervisorAssumption DEF Inv, At, Workers
<1>1. TypeOK'
  BY DEF NoteUsr1, TypeOK, JoinInv, Points, TryBlock, Finally, CleanupGaps, FlagGap, ChildGaps, Gaps
<1>2. CleanInv' /\ Usr1Inv'
  BY DEF NoteUsr1, TypeOK, CleanInv, Usr1Inv, Left, Clean, Untouched, BeforeRing, BeforeThread,
     TryBlock, Finally, CleanupGaps, FlagGap
<1>3. JoinInv'
  BY <1>1 DEF NoteUsr1, TypeOK, JoinInv, AllEnded, BeforeRing, BeforeThread, TryBlock, Finally
<1>4. ReturnsOnlyIfAllWell'
  BY <1>1 DEF NoteUsr1, TypeOK, JoinInv, ReturnsOnlyIfAllWell, AllEnded, Left, TryBlock, Finally
<1> QED
  BY <1>1, <1>2, <1>3, <1>4

\* The main thread's join() passes only a worker that has ended.
LEMMA JoinLemma ==
  ASSUME Inv, Join
  PROVE  Inv'
<1> USE SupervisorAssumption DEF Inv, At, Workers
<1>1. TypeOK'
  BY DEF Join, TypeOK, JoinInv, Points, TryBlock, Finally, CleanupGaps, FlagGap, ChildGaps, Gaps
<1>2. CleanInv' /\ Usr1Inv'
  BY DEF Join, TypeOK, CleanInv, Usr1Inv, Left, Clean, Untouched, BeforeRing, BeforeThread,
     TryBlock, Finally, CleanupGaps, FlagGap
<1>3. JoinInv'
  BY <1>1 DEF Join, TypeOK, JoinInv, AllEnded, BeforeRing, BeforeThread, TryBlock, Finally
<1>4. ReturnsOnlyIfAllWell'
  BY <1>1 DEF Join, TypeOK, JoinInv, ReturnsOnlyIfAllWell, AllEnded, Left, TryBlock, Finally
<1> QED
  BY <1>1, <1>2, <1>3, <1>4

\* SIGUSR1 is put back first.
LEMMA RestoreLemma ==
  ASSUME Inv, Restore
  PROVE  Inv'
<1> USE SupervisorAssumption DEF Inv, At, Workers
<1>1. TypeOK'
  BY DEF Restore, TypeOK, JoinInv, Points, TryBlock, Finally, CleanupGaps, FlagGap, ChildGaps, Gaps
<1>2. CleanInv' /\ Usr1Inv'
  BY DEF Restore, TypeOK, CleanInv, Usr1Inv, Left, Clean, Untouched, BeforeRing, BeforeThread,
     TryBlock, Finally, CleanupGaps, FlagGap
<1>3. JoinInv'
  BY <1>1 DEF Restore, TypeOK, JoinInv, AllEnded, BeforeRing, BeforeThread, TryBlock, Finally
<1>4. ReturnsOnlyIfAllWell'
  BY <1>1 DEF Restore, TypeOK, JoinInv, ReturnsOnlyIfAllWell, AllEnded, Left, TryBlock, Finally
<1> QED
  BY <1>1, <1>2, <1>3, <1>4

\* Then the rotation thread is told to stop.
LEMMA StopRotatorLemma ==
  ASSUME Inv, StopRotator
  PROVE  Inv'
<1> USE SupervisorAssumption DEF Inv, At, Workers
<1>1. TypeOK'
  BY DEF StopRotator, TypeOK, JoinInv, Points, TryBlock, Finally, CleanupGaps, FlagGap, ChildGaps,
     Gaps
<1>2. CleanInv' /\ Usr1Inv'
  BY DEF StopRotator, TypeOK, CleanInv, Usr1Inv, Left, Clean, Untouched, BeforeRing, BeforeThread,
     TryBlock, Finally, CleanupGaps, FlagGap
<1>3. JoinInv'
  BY <1>1 DEF StopRotator, TypeOK, JoinInv, AllEnded, BeforeRing, BeforeThread, TryBlock, Finally
<1>4. ReturnsOnlyIfAllWell'
  BY <1>1 DEF StopRotator, TypeOK, JoinInv, ReturnsOnlyIfAllWell, AllEnded, Left, TryBlock, Finally
<1> QED
  BY <1>1, <1>2, <1>3, <1>4

\* The ring goes last, and nothing is then left.
LEMMA ScrubLemma ==
  ASSUME Inv, Scrub
  PROVE  Inv'
<1> USE SupervisorAssumption DEF Inv, At, Workers
<1>1. TypeOK'
  BY DEF Scrub, TypeOK, JoinInv, Points, TryBlock, Finally, CleanupGaps, FlagGap, ChildGaps, Gaps
<1>2. CleanInv' /\ Usr1Inv'
  BY DEF Scrub, TypeOK, CleanInv, Usr1Inv, Left, Clean, Untouched, BeforeRing, BeforeThread,
     TryBlock, Finally, CleanupGaps, FlagGap
<1>3. JoinInv'
  BY <1>1 DEF Scrub, TypeOK, JoinInv, AllEnded, BeforeRing, BeforeThread, TryBlock, Finally
<1>4. ReturnsOnlyIfAllWell'
  BY <1>1 DEF Scrub, TypeOK, JoinInv, ReturnsOnlyIfAllWell, AllEnded, Left, TryBlock, Finally
<1> QED
  BY <1>1, <1>2, <1>3, <1>4

\* Any worker that failed makes serve() raise.
LEMMA ReportLemma ==
  ASSUME Inv, Report
  PROVE  Inv'
<1> USE SupervisorAssumption DEF Inv, At, Workers
<1>1. TypeOK'
  BY DEF Report, Failed, TypeOK, JoinInv, Points, TryBlock, Finally, CleanupGaps, FlagGap,
     ChildGaps, Gaps
<1>2. CleanInv' /\ Usr1Inv'
  BY DEF Report, Failed, TypeOK, CleanInv, Usr1Inv, Left, Clean, Untouched, BeforeRing,
     BeforeThread, TryBlock, Finally, CleanupGaps, FlagGap
<1>3. JoinInv'
  BY <1>1 DEF Report, Failed, TypeOK, JoinInv, AllEnded, BeforeRing, BeforeThread, TryBlock, Finally
<1>4. ReturnsOnlyIfAllWell'
  BY <1>1 DEF Report, Failed, TypeOK, JoinInv, ReturnsOnlyIfAllWell, AllEnded, Left, TryBlock,
     Finally
<1> QED
  BY <1>1, <1>2, <1>3, <1>4

\* The handler's terminate() ends no worker by itself.
LEMMA TerminateLemma ==
  ASSUME Inv, Terminate
  PROVE  Inv'
<1> USE SupervisorAssumption DEF Inv, At, Workers
<1>1. TypeOK'
  <2>1. proc' \in [Workers -> Proc]
    BY SignalledLemma DEF Terminate
  <2> QED
    BY <2>1 DEF Terminate, TypeOK, Proc
<1>2. CleanInv' /\ Usr1Inv'
  BY DEF Terminate, Signalled, Running, Alive, TypeOK, CleanInv, Usr1Inv, Left, Clean, Untouched,
     BeforeRing, BeforeThread, TryBlock, Finally, CleanupGaps, FlagGap
<1>3. JoinInv'
  BY <1>1 DEF Terminate, Signalled, Running, Alive, TypeOK, JoinInv, AllEnded, BeforeRing,
     BeforeThread, TryBlock, Finally
<1>4. ReturnsOnlyIfAllWell'
  BY <1>1 DEF Terminate, Signalled, Running, Alive, TypeOK, JoinInv, ReturnsOnlyIfAllWell,
     AllEnded, Left, TryBlock, Finally
<1> QED
  BY <1>1, <1>2, <1>3, <1>4

\* The handler's own joins say nothing of the workers: exc does.
LEMMA HandlerJoinLemma ==
  ASSUME Inv, HandlerJoin
  PROVE  Inv'
<1> USE SupervisorAssumption DEF Inv, At, Workers
<1>1. TypeOK'
  BY DEF HandlerJoin, Running, TypeOK, JoinInv, Points, TryBlock, Finally, CleanupGaps, FlagGap,
     ChildGaps, Gaps
<1>2. CleanInv' /\ Usr1Inv'
  BY DEF HandlerJoin, Running, TypeOK, CleanInv, Usr1Inv, Left, Clean, Untouched, BeforeRing,
     BeforeThread, TryBlock, Finally, CleanupGaps, FlagGap
<1>3. JoinInv'
  BY <1>1 DEF HandlerJoin, Running, TypeOK, JoinInv, AllEnded, BeforeRing, BeforeThread,
     TryBlock, Finally
<1>4. ReturnsOnlyIfAllWell'
  BY <1>1 DEF HandlerJoin, Running, TypeOK, JoinInv, ReturnsOnlyIfAllWell, AllEnded, Left,
     TryBlock, Finally
<1> QED
  BY <1>1, <1>2, <1>3, <1>4

\* SystemExit at any point leads through the finally clause, or past a gap.
LEMMA HandlerExitLemma ==
  ASSUME Inv, HandlerExit
  PROVE  Inv'
<1> USE SupervisorAssumption DEF Inv, At, Workers
<1>1. TypeOK'
  BY DEF HandlerExit, Running, Unwind, TypeOK, JoinInv, Points, TryBlock, Finally, CleanupGaps,
     FlagGap, ChildGaps, Gaps
<1>2. CleanInv' /\ Usr1Inv'
  <2> USE DEF HandlerExit, Running, TypeOK, CleanInv, Usr1Inv, Left, Clean, BeforeRing,
              BeforeThread, TryBlock, Finally, CleanupGaps, FlagGap
  <2>1. CASE pc \in TryBlock
    BY <2>1 DEF Unwind
  <2>2. CASE pc \in CleanupGaps
    BY <2>2 DEF Unwind
  <2>3. CASE pc \in BeforeRing \cup {"report", "out", "atexit"}
    BY <2>3 DEF Unwind, Untouched
  <2> QED
    BY <2>1, <2>2, <2>3 DEF Points
<1>3. JoinInv'
  BY <1>1 DEF HandlerExit, Running, Unwind, TypeOK, JoinInv, AllEnded, BeforeRing, BeforeThread,
     TryBlock, Finally
<1>4. ReturnsOnlyIfAllWell'
  BY <1>1 DEF HandlerExit, Running, Unwind, TypeOK, JoinInv, ReturnsOnlyIfAllWell, AllEnded,
     Left, TryBlock, Finally
<1> QED
  BY <1>1, <1>2, <1>3, <1>4

\* The exit handler's terminate() changes no worker that has ended.
LEMMA ExitBeginsLemma ==
  ASSUME Inv, ExitBegins
  PROVE  Inv'
<1> USE SupervisorAssumption DEF Inv, At, Workers
<1>1. TypeOK'
  <2>1. proc' \in [Workers -> Proc]
    BY SignalledLemma DEF ExitBegins
  <2> QED
    BY <2>1 DEF ExitBegins, TypeOK, Proc, Points
<1>2. CleanInv' /\ Usr1Inv'
  BY DEF ExitBegins, Signalled, Alive, TypeOK, CleanInv, Usr1Inv, Left, Clean, Untouched,
     BeforeRing, BeforeThread, TryBlock, Finally, CleanupGaps, FlagGap
<1>3. JoinInv'
  BY <1>1 DEF ExitBegins, Signalled, Alive, TypeOK, JoinInv, AllEnded, BeforeRing, BeforeThread,
     TryBlock, Finally
<1>4. ReturnsOnlyIfAllWell'
  BY <1>1 DEF ExitBegins, Signalled, Alive, TypeOK, JoinInv, ReturnsOnlyIfAllWell, AllEnded, Left,
     TryBlock, Finally
<1> QED
  BY <1>1, <1>2, <1>3, <1>4

\* The end of the process changes nothing that was cleaned up.
LEMMA ExitEndsLemma ==
  ASSUME Inv, ExitEnds
  PROVE  Inv'
<1> USE SupervisorAssumption DEF Inv, At, Workers
<1>1. TypeOK'
  BY DEF ExitEnds, TypeOK, JoinInv, Points, TryBlock, Finally, CleanupGaps, FlagGap, ChildGaps, Gaps
<1>2. CleanInv' /\ Usr1Inv'
  BY DEF ExitEnds, TypeOK, CleanInv, Usr1Inv, Left, Clean, Untouched, BeforeRing, BeforeThread,
     TryBlock, Finally, CleanupGaps, FlagGap
<1>3. JoinInv'
  BY <1>1 DEF ExitEnds, TypeOK, JoinInv, AllEnded, BeforeRing, BeforeThread, TryBlock, Finally
<1>4. ReturnsOnlyIfAllWell'
  BY <1>1 DEF ExitEnds, TypeOK, JoinInv, ReturnsOnlyIfAllWell, AllEnded, Left, TryBlock, Finally
<1> QED
  BY <1>1, <1>2, <1>3, <1>4

\* A stop signal in a gap leaves its mark, wherever it lands.
LEMMA StopSignalLemma ==
  ASSUME Inv, StopSignal
  PROVE  Inv'
<1> USE SupervisorAssumption DEF Inv, At, Workers
<1>1. TypeOK'
  <2>1. cut' \subseteq Gaps /\ signals' \in 0..MaxSignals
    BY DEF StopSignal, TypeOK
  <2> QED
    BY <2>1 DEF StopSignal, Running, Unwind, TypeOK, Points, TryBlock, Finally
<1>2. CleanInv' /\ Usr1Inv'
  <2>1. /\ res' = res /\ cut' = cut \cup ({pc} \cap Gaps) /\ pc # "gone"
        /\ \/ pc' = pc /\ killed' = killed
           \/ pc' = "gone" /\ killed' = "SIGTERM" /\ handler' = "off"
           \/ pc' = Unwind(pc) /\ killed' = killed /\ handler' = "off"
    BY Zenon DEF StopSignal, Running
  <2> USE <2>1 DEF TypeOK, CleanInv, Usr1Inv, Left, Clean, BeforeRing, BeforeThread, TryBlock,
              Finally, CleanupGaps, FlagGap, Gaps
  <2>2. CASE pc' = pc /\ killed' = killed
    BY <2>2 DEF Untouched
  <2>3. CASE pc' = "gone" /\ killed' = "SIGTERM" /\ handler' = "off"
    BY <2>3
  <2>4. CASE pc' = Unwind(pc) /\ killed' = killed /\ handler' = "off"
    <3>1. CASE pc \in TryBlock
      BY <2>4, <3>1 DEF Unwind
    <3>2. CASE pc \in CleanupGaps
      BY <2>4, <3>2 DEF Unwind
    <3>3. CASE pc \in BeforeRing \cup {"report", "out", "atexit"}
      BY <2>4, <3>3 DEF Unwind, Untouched
    <3> QED
      BY <3>1, <3>2, <3>3 DEF Points
  <2> QED
    BY <2>2, <2>3, <2>4
<1>3. JoinInv'
  BY <1>1 DEF StopSignal, Running, Unwind, TypeOK, JoinInv, AllEnded, BeforeRing, BeforeThread,
     TryBlock, Finally
<1>4. ReturnsOnlyIfAllWell'
  BY <1>1 DEF StopSignal, Running, Unwind, TypeOK, JoinInv, ReturnsOnlyIfAllWell, AllEnded, Left,
     TryBlock, Finally
<1> QED
  BY <1>1, <1>2, <1>3, <1>4

\* The rotation thread that ends does not run.
LEMMA RotatorEndsLemma ==
  ASSUME Inv, RotatorEnds
  PROVE  Inv'
<1> USE SupervisorAssumption DEF Inv, At, Workers
<1>1. TypeOK'
  BY DEF RotatorEnds, Running, TypeOK, JoinInv, Points, TryBlock, Finally, CleanupGaps, FlagGap,
     ChildGaps, Gaps
<1>2. CleanInv' /\ Usr1Inv'
  BY DEF RotatorEnds, Running, TypeOK, CleanInv, Usr1Inv, Left, Clean, Untouched, BeforeRing,
     BeforeThread, TryBlock, Finally, CleanupGaps, FlagGap
<1>3. JoinInv'
  BY <1>1 DEF RotatorEnds, Running, TypeOK, JoinInv, AllEnded, BeforeRing, BeforeThread,
     TryBlock, Finally
<1>4. ReturnsOnlyIfAllWell'
  BY <1>1 DEF RotatorEnds, Running, TypeOK, JoinInv, ReturnsOnlyIfAllWell, AllEnded, Left,
     TryBlock, Finally
<1> QED
  BY <1>1, <1>2, <1>3, <1>4

\* A process that is killed promises nothing.
LEMMA KillLemma ==
  ASSUME Inv, NEW sig \in {"SIGKILL", "SIGUSR1"}, Kill(sig)
  PROVE  Inv'
<1> USE SupervisorAssumption DEF Inv, At, Workers
<1>1. TypeOK'
  BY DEF Kill, Running, TypeOK, JoinInv, Points, TryBlock, Finally, CleanupGaps, FlagGap,
     ChildGaps, Gaps
<1>2. CleanInv' /\ Usr1Inv'
  BY DEF Kill, Running, TypeOK, CleanInv, Usr1Inv, Left, Clean, Untouched, BeforeRing, BeforeThread,
     TryBlock, Finally, CleanupGaps, FlagGap
<1>3. JoinInv'
  BY <1>1 DEF Kill, Running, TypeOK, JoinInv, AllEnded, BeforeRing, BeforeThread, TryBlock, Finally
<1>4. ReturnsOnlyIfAllWell'
  BY <1>1 DEF Kill, Running, TypeOK, JoinInv, ReturnsOnlyIfAllWell, AllEnded, Left, TryBlock,
     Finally
<1> QED
  BY <1>1, <1>2, <1>3, <1>4

\* A worker's first lines.
LEMMA WorkerReadyLemma ==
  ASSUME Inv, NEW i \in Workers, WorkerReady(i)
  PROVE  Inv'
<1> USE SupervisorAssumption DEF Inv, At, Workers
<1>1. TypeOK'
  <2> DEFINE t == IF armed /\ proc[i].term = "sent" THEN "lost" ELSE proc[i].term
  <2>1. proc \in [Workers -> Proc] /\ proc[i] \in Proc /\ t \in {"no", "sent", "lost"}
    BY DEF TypeOK, Proc
  <2>2. proc' \in [Workers -> Proc]
    <3>1. proc' = [proc EXCEPT ![i] = [[proc[i] EXCEPT !.at = "up"] EXCEPT !.term = t]]
      BY <2>1, Zenon DEF WorkerReady, Proc
    <3>2. [[proc[i] EXCEPT !.at = "up"] EXCEPT !.term = t] \in Proc
      BY <2>1 DEF Proc
    <3> QED
      BY <2>1, <3>1, <3>2
  <2> QED
    BY <2>2 DEF WorkerReady, TypeOK, Proc
<1>2. CleanInv' /\ Usr1Inv'
  BY DEF WorkerReady, TypeOK, CleanInv, Usr1Inv, Left, Clean, Untouched, BeforeRing, BeforeThread,
     TryBlock, Finally, CleanupGaps, FlagGap
<1>3. JoinInv'
  BY <1>1 DEF WorkerReady, TypeOK, JoinInv, AllEnded, BeforeRing, BeforeThread, TryBlock, Finally
<1>4. ReturnsOnlyIfAllWell'
  BY <1>1 DEF WorkerReady, TypeOK, JoinInv, ReturnsOnlyIfAllWell, AllEnded, Left, TryBlock, Finally
<1> QED
  BY <1>1, <1>2, <1>3, <1>4

\* A worker that ended stays so, and keeps its status.
LEMMA WorkerEndsLemma ==
  ASSUME Inv, NEW i \in Workers, WorkerEnds(i)
  PROVE  Inv'
<1> USE SupervisorAssumption DEF Inv, At, Workers
<1>1. TypeOK'
  BY DEF WorkerEnds, Alive, TypeOK, JoinInv, Points, TryBlock, Finally, CleanupGaps, FlagGap,
     ChildGaps, Gaps
<1>2. CleanInv' /\ Usr1Inv'
  BY DEF WorkerEnds, Alive, TypeOK, CleanInv, Usr1Inv, Left, Clean, Untouched, BeforeRing,
     BeforeThread, TryBlock, Finally, CleanupGaps, FlagGap
<1>3. JoinInv'
  BY <1>1 DEF WorkerEnds, Alive, TypeOK, JoinInv, AllEnded, BeforeRing, BeforeThread, TryBlock,
     Finally
<1>4. ReturnsOnlyIfAllWell'
  BY <1>1 DEF WorkerEnds, Alive, TypeOK, JoinInv, ReturnsOnlyIfAllWell, AllEnded, Left, TryBlock,
     Finally
<1> QED
  BY <1>1, <1>2, <1>3, <1>4

\* So does one that SIGTERM ended.
LEMMA WorkerDiesLemma ==
  ASSUME Inv, NEW i \in Workers, WorkerDies(i)
  PROVE  Inv'
<1> USE SupervisorAssumption DEF Inv, Workers
<1> DEFINE inherits == armed /\ proc[i].at = "fresh"
           who == IF inherits THEN 1..(i - 1) ELSE {}
           dead == [at |-> "ended", failed |-> ~(inherits /\ i = 1), term |-> "no"]
<1>1. /\ proc' = [Signalled(who) EXCEPT ![i] = dead] /\ proc[i].at # "ended"
      /\ UNCHANGED <<pc, joined, handler, exc, listed, known, res, env, armed, killed, signals, cut>>
  BY Zenon DEF WorkerDies, Dies, Alive
<1>2. dead \in Proc
  BY DEF TypeOK, Proc
<1> HIDE DEF who, dead, inherits
<1>3. /\ proc' \in [Workers -> Proc]
      /\ \A j \in Workers : j # i => proc'[j].at = proc[j].at /\ proc'[j].failed = proc[j].failed
      /\ proc'[i].at = "ended"
  <2>1. Signalled(who) \in [Workers -> Proc]
    BY SignalledLemma
  <2>2. proc' \in [Workers -> Proc]
    BY <1>1, <1>2, <2>1
  <2>3. \A j \in Workers : j # i => proc'[j] = Signalled(who)[j]
    BY <1>1, <2>1
  <2>4. proc'[i] = dead
    BY <1>1, <2>1
  <2> QED
    BY <2>2, <2>3, <2>4, SignalledLemma DEF dead
<1>4. TypeOK'
  BY <1>1, <1>3 DEF TypeOK, Proc
<1>5. CleanInv' /\ Usr1Inv'
  BY <1>1 DEF CleanInv, Usr1Inv, Left, Clean, Untouched
<1>6. JoinInv'
  BY <1>1, <1>3 DEF TypeOK, JoinInv, AllEnded
<1>7. ReturnsOnlyIfAllWell'
  BY <1>1, <1>3 DEF ReturnsOnlyIfAllWell, Left
<1> QED
  BY <1>4, <1>5, <1>6, <1>7

\* Every step keeps the invariant.
LEMMA NextLemma ==
  ASSUME Inv, [Next]_vars
  PROVE  Inv'
<1>1. CASE MainStep
  BY <1>1, BindLemma, ArmLemma, CreateRingLemma, EnterTryLemma, ForkLemma, RegisterLemma,
     ListLemma, EndStartLemma, StartRotatorLemma, InstallUsr1Lemma, NoteUsr1Lemma, JoinLemma,
     RestoreLemma, StopRotatorLemma, ScrubLemma, ReportLemma, TerminateLemma, HandlerJoinLemma,
     HandlerExitLemma DEF MainStep
<1>2. CASE ExitBegins \/ ExitEnds \/ StopSignal \/ RotatorEnds
  BY <1>2, ExitBeginsLemma, ExitEndsLemma, StopSignalLemma, RotatorEndsLemma
<1>3. CASE Kill("SIGKILL") \/ Kill("SIGUSR1")
  BY <1>3, KillLemma
<1>4. CASE \E i \in Workers : WorkerReady(i) \/ WorkerEnds(i) \/ WorkerDies(i)
  BY <1>4, WorkerReadyLemma, WorkerEndsLemma, WorkerDiesLemma
<1>5. CASE UNCHANGED vars
  BY <1>5 DEF vars, Inv, TypeOK, CleanInv, Usr1Inv, JoinInv, ReturnsOnlyIfAllWell, AllEnded, Left,
     Clean, Untouched
<1> QED
  BY <1>1, <1>2, <1>3, <1>4, <1>5 DEF Next

\* The invariant holds throughout.
LEMMA Invariance == Spec => []Inv
BY InitLemma, NextLemma, PTL DEF Spec

\* However serve() is left, by return, by an exception or through a signal's
\* SystemExit, the ring's keys are scrubbed, the rotation thread told to stop
\* and SIGUSR1 put back, unless a signal landed between the ring's creation
\* and the try statement, or in its finally clause; one between the
\* installation of the handler of SIGUSR1 and usr1_installed = True leaves
\* that handler, and nothing else.
THEOREM ServeCleansUp == Spec => []CleansUp
<1>1. Inv => CleansUp
  BY DEF Inv, CleanInv, Usr1Inv, Clean, CleansUp, Left
<1> QED
  BY <1>1, Invariance, PTL

\* serve() returns normally only when all the workers were started, have
\* ended and ended well.
THEOREM ServeReturnsOnlyIfAllWell == Spec => []ReturnsOnlyIfAllWell
<1>1. Inv => ReturnsOnlyIfAllWell
  BY DEF Inv
<1> QED
  BY <1>1, Invariance, PTL

=============================================================================
