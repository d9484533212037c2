----------------------------- MODULE Supervisor -----------------------------
(***************************************************************************)
(* serve() with several workers: _run_workers binds, arms the handler of   *)
(* SIGINT and SIGTERM, creates the ticket ring, starts the workers and the *)
(* rotation thread, joins the workers and cleans up, while signals arrive, *)
(* workers end and starting one may fail.  A signal's handler (_shutdown)  *)
(* runs on the main thread, on top of whatever that was doing, and leaves  *)
(* by raising SystemExit there.                                            *)
(*                                                                         *)
(* What the workers do with the ring is TicketKeys.  The multiprocessing   *)
(* package (fork start method, exit handler) and the kernel are external.  *)
(***************************************************************************)
EXTENDS Integers, FiniteSets

CONSTANTS
  N,            \* workers
  Threads,      \* whether serve() is called on the main thread: its choices
  Tls,          \* whether there is a certificate: its choices
  MaxSignals    \* bound: stop signals sent

\* Where the main thread is.  The try statement holds TryBlock, its finally
\* clause Finally; "forked" and "registered" are inside and right after
\* Process.start(), "flag" is between signal.signal's return and the flag that
\* notes it, "out" is serve() having returned or raised, "atexit" the
\* interpreter's exit and "gone" its end.
TryBlock == {"start", "forked", "registered", "rotator", "usr1", "flag", "join"}
Finally == {"restore", "stop", "scrub"}
Points == {"bind", "arm", "create", "created", "report", "out", "atexit", "gone"}
          \cup TryBlock \cup Finally

ASSUME SupervisorAssumption ==
  /\ N \in Nat \ {0} /\ Threads \subseteq BOOLEAN /\ Tls \subseteq BOOLEAN
  /\ MaxSignals \in Nat

Workers == 1..N

\* Where a signal cuts something in two: between the ring's creation and the
\* try statement, and in the finally clause; between the installation of the
\* handler of SIGUSR1 and the flag that has it put back; between a fork and
\* the parent's note of it, and in the exit handler.
CleanupGaps == {"created"} \cup Finally
FlagGap == "flag"
ChildGaps == {"forked", "atexit"}
Gaps == CleanupGaps \cup {FlagGap} \cup ChildGaps

VARIABLES
  pc,       \* the main thread
  joined,   \* workers the main thread, or the handler, has joined
  handler,  \* _shutdown: "off", "terminate" or "join"
  exc,      \* what serve() is leaving with: "none", "exit" or "error"
  proc,     \* per worker: its state, exit status and SIGTERM
  listed,   \* how many workers are in `processes`
  known,    \* the workers that multiprocessing has in its set of children
  res,      \* what there is to clean up: the ring, the handler of SIGUSR1 and the
            \* flag usr1_installed that notes it, the rotation thread
  env,      \* how serve() was called
  armed,    \* _shutdown is the handler of SIGINT and SIGTERM
  killed,   \* the signal whose default action ended the process, or "no"
  signals,  \* stop signals sent so far
  cut       \* history: the gaps that one landed in

vars == <<pc, joined, handler, exc, proc, listed, known, res, env, armed, killed, signals, cut>>

\* A worker is "fresh" until it has restored the default handling of SIGTERM;
\* term is the last SIGTERM sent to it.
TypeOK ==
  /\ pc \in Points /\ joined \in 0..N /\ handler \in {"off", "terminate", "join"}
  /\ exc \in {"none", "exit", "error"}
  /\ proc \in [Workers -> [at : {"unborn", "fresh", "up", "ended"}, failed : BOOLEAN,
                           term : {"no", "sent", "lost"}]]
  /\ listed \in 0..N /\ known \subseteq Workers
  /\ res \in [ring : BOOLEAN, usr1 : BOOLEAN, noted : BOOLEAN,
              thread : {"none", "running", "stopping", "ended"}]
  /\ env \in [main : BOOLEAN, tls : BOOLEAN] /\ armed \in BOOLEAN
  /\ killed \in {"no", "SIGTERM", "SIGUSR1", "SIGKILL"} /\ signals \in 0..MaxSignals
  /\ cut \subseteq Gaps

Init ==
  /\ pc = "bind" /\ joined = 0 /\ handler = "off" /\ exc = "none"
  /\ proc = [i \in Workers |-> [at |-> "unborn", failed |-> FALSE, term |-> "no"]]
  /\ listed = 0 /\ known = {}
  /\ res = [ring |-> FALSE, usr1 |-> FALSE, noted |-> FALSE, thread |-> "none"]
  /\ env \in [main : Threads, tls : Tls]
  /\ armed = FALSE /\ killed = "no" /\ signals = 0 /\ cut = {}

Alive(i) == proc[i].at \in {"fresh", "up"}
Running == pc # "gone"

\* The main thread runs code of its own only while no handler is on top of it.
At(p) == pc = p /\ handler = "off"

-----------------------------------------------------------------------------
(* The main thread up to the try statement *)

\* The listeners: all of them, or none and the OSError.
Bind ==
  /\ At("bind")
  /\ \/ pc' = "arm" /\ exc' = exc
     \/ pc' = "out" /\ exc' = "error"
  /\ UNCHANGED <<joined, handler, proc, listed, known, res, env, armed, killed, signals, cut>>

\* signal.signal raises ValueError off the main thread, which is ignored.
Arm ==
  /\ At("arm")
  /\ armed' = env.main
  /\ pc' = "create"
  /\ UNCHANGED <<joined, handler, exc, proc, listed, known, res, env, killed, signals, cut>>

\* _ticket_ring_create(), which may fail; the try statement is still to come.
CreateRing ==
  /\ At("create")
  /\ \/ pc' = "created" /\ res' = [res EXCEPT !.ring = env.tls] /\ exc' = exc
     \/ env.tls /\ pc' = "out" /\ res' = res /\ exc' = "error"
  /\ UNCHANGED <<joined, handler, proc, listed, known, env, armed, killed, signals, cut>>

EnterTry ==
  /\ At("created")
  /\ pc' = "start"
  /\ UNCHANGED <<joined, handler, exc, proc, listed, known, res, env, armed, killed, signals, cut>>

-----------------------------------------------------------------------------
(* The try statement *)

\* Where an exception at the given point leads.
\* Mutant: the try statement begins only after the workers are started.
Unwind_LateTry(p) == IF p \in {"rotator", "usr1", "flag", "join"} THEN "restore" ELSE "out"

Unwind(p) == IF p \in TryBlock THEN "restore" ELSE IF p = "atexit" THEN "gone" ELSE "out"

\* Process.start() forks a worker, or raises.
Fork ==
  /\ At("start") /\ listed < N
  /\ \/ /\ pc' = "forked" /\ exc' = exc
        /\ proc' = [proc EXCEPT ![listed + 1].at = "fresh"]
     \/ pc' = Unwind("start") /\ exc' = "error" /\ proc' = proc
  /\ UNCHANGED <<joined, handler, listed, known, res, env, armed, killed, signals, cut>>

\* Its end, at which multiprocessing comes to know its child.
Register ==
  /\ At("forked")
  /\ known' = known \cup {listed + 1}
  /\ pc' = "registered"
  /\ UNCHANGED <<joined, handler, exc, proc, listed, res, env, armed, killed, signals, cut>>

\* processes.append(p).
List ==
  /\ At("registered")
  /\ listed' = listed + 1
  /\ pc' = "start"
  /\ UNCHANGED <<joined, handler, exc, proc, known, res, env, armed, killed, signals, cut>>

EndStart ==
  /\ At("start") /\ listed = N
  /\ pc' = IF env.tls THEN "rotator" ELSE "join"
  /\ UNCHANGED <<joined, handler, exc, proc, listed, known, res, env, armed, killed, signals, cut>>

\* The rotation thread, unless the period is not a number or no thread starts.
StartRotator ==
  /\ At("rotator")
  /\ \/ pc' = "usr1" /\ res' = [res EXCEPT !.thread = "running"] /\ exc' = exc
     \/ pc' = Unwind("rotator") /\ res' = res /\ exc' = "error"
  /\ UNCHANGED <<joined, handler, proc, listed, known, env, armed, killed, signals, cut>>

\* rotator.kick becomes the handler of SIGUSR1, on the main thread only ...
InstallUsr1 ==
  /\ At("usr1")
  /\ res' = [res EXCEPT !.usr1 = env.main]
  /\ pc' = IF env.main THEN "flag" ELSE "join"
  /\ UNCHANGED <<joined, handler, exc, proc, listed, known, env, armed, killed, signals, cut>>

\* ... and only then prev_usr1 and usr1_installed are set.
NoteUsr1 ==
  /\ At("flag")
  /\ res' = [res EXCEPT !.noted = TRUE]
  /\ pc' = "join"
  /\ UNCHANGED <<joined, handler, exc, proc, listed, known, env, armed, killed, signals, cut>>

\* p.join(), worker after worker.
Join ==
  /\ At("join")
  /\ IF joined < N
       THEN proc[joined + 1].at = "ended" /\ joined' = joined + 1 /\ pc' = "join"
       ELSE pc' = "restore" /\ joined' = joined
  /\ UNCHANGED <<handler, exc, proc, listed, known, res, env, armed, killed, signals, cut>>

-----------------------------------------------------------------------------
(* The finally clause, and after it *)

\* SIGUSR1 is put back if usr1_installed says that there is something to.
Restore ==
  /\ At("restore")
  /\ res' = [res EXCEPT !.usr1 = @ /\ ~res.noted]
  /\ pc' = "stop"
  /\ UNCHANGED <<joined, handler, exc, proc, listed, known, env, armed, killed, signals, cut>>

StopRotator ==
  /\ At("stop")
  /\ res' = [res EXCEPT !.thread = IF @ = "running" THEN "stopping" ELSE @]
  /\ pc' = "scrub"
  /\ UNCHANGED <<joined, handler, exc, proc, listed, known, env, armed, killed, signals, cut>>

\* ring.close() and _ticket_ring_destroy(); an exception then goes on.
Scrub ==
  /\ At("scrub")
  /\ res' = [res EXCEPT !.ring = FALSE]
  /\ pc' = IF exc = "none" THEN "report" ELSE "out"
  /\ UNCHANGED <<joined, handler, exc, proc, listed, known, env, armed, killed, signals, cut>>

\* Mutant: only the worker that ended last is looked at.
Failed_Last == {N} \cap {i \in Workers : proc[i].failed}

Failed == {i \in 1..listed : proc[i].failed}

Report ==
  /\ At("report")
  /\ exc' = IF Failed = {} THEN exc ELSE "error"
  /\ pc' = "out"
  /\ UNCHANGED <<joined, handler, proc, listed, known, res, env, armed, killed, signals, cut>>

-----------------------------------------------------------------------------
(* _shutdown *)

\* A stop signal.  _shutdown begins, anew if it was running, for the inner
\* one's SystemExit ends the outer one too.  Where it is not armed, SIGTERM
\* has its default action, and SIGINT raises KeyboardInterrupt on the main
\* thread: in serve() if that is where it runs, and in the exit handler.
StopSignal ==
  /\ Running /\ signals < MaxSignals
  /\ signals' = signals + 1
  /\ cut' = cut \cup ({pc} \cap Gaps)
  /\ \/ armed /\ handler' = "terminate" /\ UNCHANGED <<pc, exc, killed>>
     \/ ~armed /\ pc' = "gone" /\ killed' = "SIGTERM" /\ handler' = "off" /\ exc' = exc
     \/ /\ ~armed /\ (env.main \/ pc = "atexit")
        /\ pc' = Unwind(pc) /\ exc' = "error" /\ handler' = "off" /\ killed' = killed
  /\ UNCHANGED <<joined, proc, listed, known, res, env, armed>>

\* The workers, once SIGTERM has been sent to some of them.
Signalled(who) ==
  [i \in Workers |-> IF i \in who /\ Alive(i) THEN [proc[i] EXCEPT !.term = "sent"]
                                              ELSE proc[i]]

Terminate ==
  /\ Running /\ handler = "terminate"
  /\ proc' = Signalled(1..listed)
  /\ handler' = "join" /\ joined' = 0
  /\ UNCHANGED <<pc, exc, listed, known, res, env, armed, killed, signals, cut>>

\* p.join(timeout=5): the worker has ended, or the time is up.
\* Mutant: join() without the timeout.
JoinReturns_Patient(i) == proc[i].at = "ended"

JoinReturns(i) == TRUE

HandlerJoin ==
  /\ Running /\ handler = "join" /\ joined < listed
  /\ JoinReturns(joined + 1)
  /\ joined' = joined + 1
  /\ UNCHANGED <<pc, handler, exc, proc, listed, known, res, env, armed, killed, signals, cut>>

\* sys.exit(0), raised where the main thread was.
HandlerExit ==
  /\ Running /\ handler = "join" /\ joined = listed
  /\ handler' = "off"
  /\ exc' = "exit"
  /\ pc' = Unwind(pc)
  /\ UNCHANGED <<joined, proc, listed, known, res, env, armed, killed, signals, cut>>

-----------------------------------------------------------------------------
(* The workers, the thread, and the end of the process *)

\* The worker's first lines.  A SIGTERM that the inherited handler catches
\* between Python's look at the pending signals and the change of the
\* disposition is dropped by Python.
WorkerReady(i) ==
  /\ proc[i].at = "fresh"
  /\ proc' = [proc EXCEPT ![i].at = "up",
                         ![i].term = IF armed /\ @ = "sent" THEN "lost" ELSE @]
  /\ UNCHANGED <<pc, joined, handler, exc, listed, known, res, env, armed, killed, signals, cut>>

\* A worker ends by itself, with status 0 or another.
WorkerEnds(i) ==
  /\ Alive(i)
  /\ \E bad \in BOOLEAN :
       proc' = [proc EXCEPT ![i] = [at |-> "ended", failed |-> bad, term |-> "no"]]
  /\ UNCHANGED <<pc, joined, handler, exc, listed, known, res, env, armed, killed, signals, cut>>

\* Mutant: the inherited handler stays, and cannot run inside uv_run.
Dies_Handled(i) == proc[i].at = "fresh"

\* Whether SIGTERM ends a worker that it finds.
Dies(i) == Alive(i)

\* A fresh worker does it by the inherited _shutdown, whose list holds the
\* workers before it: it terminates them too, and then fails to join them, as
\* they are no children of its own.  Any other the kernel ends.
WorkerDies(i) ==
  /\ proc[i].term = "sent" /\ Dies(i)
  /\ LET inherits == armed /\ proc[i].at = "fresh"
     IN  proc' = [Signalled(IF inherits THEN 1..(i - 1) ELSE {})
                    EXCEPT ![i] = [at |-> "ended", failed |-> ~(inherits /\ i = 1),
                                   term |-> "no"]]
  /\ UNCHANGED <<pc, joined, handler, exc, listed, known, res, env, armed, killed, signals, cut>>

\* The rotation thread wakes: it was stopped, or finds no ring to rotate.
RotatorEnds ==
  /\ Running
  /\ res.thread = "stopping" \/ (res.thread = "running" /\ ~res.ring)
  /\ res' = [res EXCEPT !.thread = "ended"]
  /\ UNCHANGED <<pc, joined, handler, exc, proc, listed, known, env, armed, killed, signals, cut>>

\* The caller lets the interpreter exit: multiprocessing terminates its daemon
\* children, and waits for them.
ExitBegins ==
  /\ At("out")
  /\ proc' = Signalled(known)
  /\ pc' = "atexit"
  /\ UNCHANGED <<joined, handler, exc, listed, known, res, env, armed, killed, signals, cut>>

ExitEnds ==
  /\ At("atexit") /\ \A i \in known : proc[i].at = "ended"
  /\ pc' = "gone"
  /\ UNCHANGED <<joined, handler, exc, proc, listed, known, res, env, armed, killed, signals, cut>>

\* SIGKILL, or SIGUSR1 from an operator or a worker's _rotate_ticket_key while
\* its default action is in force.
Kill(sig) ==
  /\ Running
  /\ sig = "SIGUSR1" => (env.tls /\ ~res.usr1 /\ \E i \in Workers : proc[i].at = "up")
  /\ pc' = "gone" /\ handler' = "off" /\ killed' = sig
  /\ UNCHANGED <<joined, exc, proc, listed, known, res, env, armed, signals, cut>>

MainStep ==
  \/ Bind \/ Arm \/ CreateRing \/ EnterTry
  \/ Fork \/ Register \/ List \/ EndStart \/ StartRotator \/ InstallUsr1 \/ NoteUsr1 \/ Join
  \/ Restore \/ StopRotator \/ Scrub \/ Report
  \/ Terminate \/ HandlerJoin \/ HandlerExit

Next ==
  \/ MainStep \/ ExitBegins \/ ExitEnds
  \/ StopSignal \/ Kill("SIGKILL") \/ Kill("SIGUSR1")
  \/ \E i \in Workers : WorkerReady(i) \/ WorkerEnds(i) \/ WorkerDies(i)
  \/ RotatorEnds

Spec == Init /\ [][Next]_vars

\* The main thread runs whenever it is not waiting, an interpreter that has
\* nothing left to run exits, and a signal, once sent, arrives.  Nothing makes
\* a worker end by itself.
FairSpec ==
  /\ Spec
  /\ WF_vars(MainStep) /\ WF_vars(ExitBegins) /\ WF_vars(ExitEnds)
  /\ \A i \in Workers : WF_vars(WorkerReady(i)) /\ WF_vars(WorkerDies(i))

-----------------------------------------------------------------------------
(* Properties *)

Left == pc \in {"out", "atexit", "gone"}

\* However serve() is left, by return, by an exception or through a signal's
\* SystemExit, the ring's keys are scrubbed, the rotation thread is told to
\* stop and the handler of SIGUSR1 is put back, unless a signal landed before
\* the try statement or in its finally clause.  One that landed between the
\* installation of that handler and usr1_installed = True costs only the last:
\* the finally clause runs, and takes the handler for one it did not install.
CleansUp ==
  /\ TypeOK
  /\ (Left /\ killed = "no" /\ cut \cap CleanupGaps = {}) =>
       ~res.ring /\ res.thread # "running" /\ (res.usr1 => FlagGap \in cut)

\* serve() returns normally only when all the workers were started, have ended
\* and ended well: none is lost in silence, whichever of them ended first.
ReturnsOnlyIfAllWell ==
  (Left /\ exc = "none" /\ killed = "no") =>
    listed = N /\ \A i \in Workers : proc[i].at = "ended" /\ ~proc[i].failed

\* A stop signal whose handler ran ends serve(), even if a worker misses its
\* SIGTERM, and so does the end of all the workers.
StopEndsServe ==
  /\ (handler # "off") ~> Left
  /\ (pc = "join" /\ \A i \in Workers : proc[i].at = "ended") ~> Left

\* The interpreter, once serve() is left, comes to its end, and then no worker
\* is left behind: one that was not terminated by the handler, because it was
\* not listed yet or lost the signal, is terminated at exit.  The exceptions
\* are a supervisor that a signal itself killed, which leaves its workers
\* running; a worker that lost the last SIGTERM sent to it, which the
\* interpreter waits for; and the worker of a start(), or the exit handler,
\* that a signal cut.
ExitTakesTheWorkers ==
  (pc = "out") ~> \/ killed # "no"
                  \/ pc = "gone" /\ \A i \in Workers : ~Alive(i)
                  \/ \E i \in Workers : proc[i].term = "lost"
                  \/ cut \cap ChildGaps # {}

=============================================================================
