-------------------------- MODULE IsolatedWorker --------------------------
(* One run of an untrusted decoder inside a transient systemd unit, and the    *)
(* thread of the library that supervises it.  The three adapters that start a  *)
(* worker (media.py, detection.py, original_frame_runtime.py) share the        *)
(* protocol: systemd-run is asked for a unit and waits for it (the "client"),  *)
(* the worker writes to two pipes, the supervisor drains both until end of     *)
(* file, and whatever happens it finally makes sure that the unit is gone.     *)
(*                                                                             *)
(* Time is not counted: a deadline is a step of the environment that may come  *)
(* at any moment, and a bounded wait may run out whenever what it waits for    *)
(* has not happened.  A chunk of output is one unit.                           *)
EXTENDS Integers, FiniteSets

CONSTANTS Kinds,        \* the adapters that are checked
          MaxStdout,    \* chunks of stdout the limits allow
          MaxStderr     \* chunks of stderr the limits allow

ASSUME KindsAssumption == Kinds \subseteq {"media", "perception", "original_frame"}
ASSUME BoundsAssumption == MaxStdout \in Nat \ {0} /\ MaxStderr \in Nat \ {0}

VARIABLES
  kind,        \* which adapter makes the call
  cancel,      \* the caller's event: "clear", "set", or "unreadable"
  expired,     \* the wall clock deadline or the CPU budget has passed
  grace,       \* the two seconds given to a killed worker: "off", "running", "over"
  unit,        \* systemd's unit: "absent", "asked", "active", "over"
  procs,       \* the processes in the unit's cgroup
  doomed,      \* SIGKILL has reached the cgroup
  code,        \* how the unit ended
  client,      \* systemd-run: "up", "doomed" (killed, not yet gone) or "gone"
  rc,          \* the exit status the supervisor gets from the client
  holding,     \* who holds the write ends of the pipes and the read end of stdin
  written, pending, buf,  \* per stream: written, still in the pipe, collected
  request,     \* the thread that writes the request to stdin
  pc, registered, failure, killed,   \* the supervisor
  answer       \* what the call returns

caller == <<kind, cancel, expired, grace>>
world  == <<unit, procs, doomed, code, client, rc, holding>>
pipes  == <<written, pending, buf>>
thread == <<pc, registered, failure, killed, answer>>
vars   == <<caller, world, pipes, request, thread>>

Streams == {"stdout", "stderr"}
ErrorCodes == {"CANCELLED", "TIMEOUT", "LIMIT_EXCEEDED", "DECODE_FAILED",
               "ISOLATION_UNAVAILABLE"}

\* The worker's exit statuses: 0, 20, 22, any other, and death by a signal.
ExitCodes == {"ok", "limit", "isolation", "failed", "killed"}

\* The output the limits of the call allow per stream, and the sum the media
\* supervisor (which original_frame_runtime calls too) allows.
Bound(s) == IF s = "stdout" THEN MaxStdout ELSE MaxStderr
MaxTotal == MaxStdout + MaxStderr

TypeOK ==
  /\ kind \in Kinds
  /\ cancel \in {"clear", "set", "unreadable"}
  /\ expired \in BOOLEAN /\ doomed \in BOOLEAN /\ killed \in BOOLEAN
  /\ grace \in {"off", "running", "over"}
  /\ unit \in {"absent", "asked", "active", "over"}
  /\ procs \subseteq {"worker", "child"}
  /\ code \in ExitCodes \cup {"none"} /\ rc \in ExitCodes \cup {"none"}
  /\ client \in {"up", "doomed", "gone"}
  /\ holding \subseteq {"worker", "child", "client"}
  /\ \A s \in Streams : /\ written[s] \in 0..(Bound(s) + 1)
                        /\ pending[s] \in 0..written[s]
                        /\ buf[s] \in 0..(written[s] - pending[s])
  /\ request \in {"none", "writing", "sent", "broken"}
  /\ pc \in {"drain", "read", "wait", "wait again", "settle", "join", "close stdin",
             "ensure", "ensure wait", "ensure wait again", "ensure settle",
             "returned", "dead"}
  /\ registered \subseteq Streams
  /\ failure \in ErrorCodes \cup {"none"}
  /\ answer \in ErrorCodes \cup {"none", "result"}

\* systemd-run has been started; a request that does not fit in the pipe keeps
\* its thread in write() until the worker reads it.
Init ==
  /\ kind \in Kinds
  /\ cancel \in IF kind = "perception" THEN {"clear", "unreadable"} ELSE {"clear"}
  /\ expired = FALSE /\ grace = "off"
  /\ unit = "absent" /\ procs = {} /\ doomed = FALSE /\ code = "none"
  /\ client = "up" /\ rc = "none" /\ holding = {"client"}
  /\ written = [s \in Streams |-> 0] /\ pending = written /\ buf = written
  /\ request \in IF kind = "original_frame" THEN {"writing", "sent"} ELSE {"none"}
  /\ pc = "drain" /\ registered = Streams /\ failure = "none" /\ killed = FALSE
  /\ answer = "none"

---------------------------------------------------------------------------
(* The caller, the clock, systemd and the worker.                            *)

Cancel == /\ cancel = "clear" /\ cancel' = "set"
          /\ UNCHANGED <<kind, expired, grace, world, pipes, request, thread>>

Expire == /\ ~expired /\ expired' = TRUE
          /\ UNCHANGED <<kind, cancel, grace, world, pipes, request, thread>>

GraceElapses == /\ grace = "running" /\ grace' = "over"
                /\ UNCHANGED <<kind, cancel, expired, world, pipes, request, thread>>

\* systemd-run sends StartTransientUnit and the pipes with it; the manager starts
\* the unit later.
AskForUnit == /\ client = "up" /\ unit = "absent" /\ unit' = "asked"
              /\ holding' = holding \cup {"worker"}
              /\ UNCHANGED <<caller, procs, doomed, code, client, rc, pipes, request,
                             thread>>

\* OpenFile= names a descriptor of the supervisor, so the unit cannot start once
\* the call has returned or its process is dead.
StartUnit ==
  /\ unit = "asked"
  /\ \/ /\ pc \notin {"returned", "dead"}
        /\ unit' = "active" /\ procs' = {"worker"} /\ UNCHANGED <<code, holding>>
     \/ /\ unit' = "over" /\ code' = "failed" /\ holding' = holding \ {"worker"}
        /\ UNCHANGED procs
  /\ UNCHANGED <<caller, doomed, client, rc, pipes, request, thread>>

\* The unit holds more than one process (bwrap and what runs inside it).
Fork == /\ "worker" \in procs /\ "child" \notin procs /\ ~doomed
        /\ procs' = procs \cup {"child"}
        /\ holding' \in {holding, holding \cup {"child"}}
        /\ UNCHANGED <<caller, unit, doomed, code, client, rc, pipes, request, thread>>

WriteOutput(s) ==
  /\ "worker" \in procs /\ written[s] <= Bound(s)
  /\ written' = [written EXCEPT ![s] = @ + 1]
  /\ pending' = [pending EXCEPT ![s] = @ + 1]
  /\ UNCHANGED <<caller, world, buf, request, thread>>

ReadRequest ==
  /\ request = "writing" /\ "worker" \in procs /\ request' = "sent"
  /\ UNCHANGED <<caller, world, pipes, thread>>

\* write() fails once nobody holds the other end.
RequestBreaks ==
  /\ request = "writing" /\ holding = {} /\ request' = "broken"
  /\ UNCHANGED <<caller, world, pipes, thread>>

\* The worker ends by itself.  Status 0 is returned after both the result and
\* the summary have been written, the other statuses at any time.
WorkerExits ==
  /\ "worker" \in procs
  /\ \E c \in ExitCodes \ {"killed"} :
       /\ c = "ok" => written["stdout"] > 0 /\ written["stderr"] > 0
                      /\ request # "writing"
       /\ code' = c
  /\ procs' = procs \ {"worker"} /\ holding' = holding \ {"worker"}
  /\ UNCHANGED <<caller, unit, doomed, client, rc, pipes, request, thread>>

\* RuntimeMaxSec=, MemoryMax= or an operator: the cgroup is killed from outside.
KilledFromOutside ==
  /\ unit = "active" /\ procs # {} /\ ~doomed /\ doomed' = TRUE
  /\ UNCHANGED <<caller, unit, procs, code, client, rc, holding, pipes, request, thread>>

\* A signalled process goes away some time later; KillMode=control-group does
\* the same to what is left when the main process has ended.
ProcessDies(p) ==
  /\ p \in procs /\ (doomed \/ "worker" \notin procs)
  /\ procs' = procs \ {p} /\ holding' = holding \ {p}
  /\ code' = IF p = "worker" THEN "killed" ELSE code
  /\ UNCHANGED <<caller, unit, doomed, client, rc, pipes, request, thread>>

UnitEnds == /\ unit = "active" /\ procs = {} /\ unit' = "over"
            /\ UNCHANGED <<caller, procs, doomed, code, client, rc, holding, pipes,
                           request, thread>>

\* systemd-run --wait returns the unit's status; killed, it returns its own.
ClientExits ==
  /\ \/ client = "up" /\ unit = "over" /\ rc' = code
     \/ client = "doomed" /\ rc' = "killed"
  /\ client' = "gone" /\ holding' = holding \ {"client"}
  /\ UNCHANGED <<caller, unit, procs, doomed, code, pipes, request, thread>>

\* The process that made the call dies; its children are in another session.
ParentDies == /\ pc \notin {"returned", "dead"} /\ pc' = "dead"
              /\ UNCHANGED <<caller, world, pipes, request, registered, failure, killed,
                             answer>>

Manager == StartUnit \/ UnitEnds \/ ClientExits \/ KilledFromOutside
           \/ \E p \in procs : ProcessDies(p)
Environment == Cancel \/ Expire \/ GraceElapses \/ AskForUnit \/ Manager \/ Fork
               \/ (\E s \in Streams : WriteOutput(s)) \/ ReadRequest \/ RequestBreaks
               \/ WorkerExits \/ ParentDies

---------------------------------------------------------------------------
(* The supervisor.                                                           *)

\* _kill_unit: cgroup.kill, else systemctl kill, either of which may fail (and
\* must while the unit has no cgroup), and SIGKILL to systemd-run in any case.
\* Its result is not looked at.
KillUnit ==
  /\ doomed' \in IF unit = "active" THEN {doomed, TRUE} ELSE {doomed}
  /\ client' = IF client = "up" THEN "doomed" ELSE client

\* Slip: an empty cgroup is taken for a unit that has stopped.
CgroupIsEmpty == procs = {}

\* _cgroup_processes and _unit_inactive: the manager answers "inactive" for a
\* unit it does not know and for one that has ended.
UnitStopped == procs = {} /\ unit \in {"absent", "over"}

\* What the drain loop has seen when it starts a round; cancellation comes
\* before the deadline, and a later round may overwrite an earlier cause.
Cause == CASE cancel = "unreadable" -> "ISOLATION_UNAVAILABLE"
           [] cancel = "set"        -> "CANCELLED"
           [] cancel = "clear" /\ expired -> "TIMEOUT"
           [] OTHER                 -> failure

KillOnce(cause) ==
  IF cause # "none" /\ ~killed
  THEN KillUnit /\ killed' = TRUE /\ grace' = "running"
  ELSE UNCHANGED <<doomed, client, killed, grace>>

\* Slip: the loop ends with the process.
ProcessIsGone == client = "gone"

\* while selector.get_map() or process.poll() is None
DrainLoopDone == registered = {} /\ client = "gone"

\* Slip: the loop waits for the ends of the pipes however long a kill takes.
DrainCheckPatiently ==
  /\ pc = "drain"
  /\ IF DrainLoopDone
     THEN pc' = "wait" /\ UNCHANGED <<failure, killed, grace, doomed, client>>
     ELSE failure' = Cause /\ KillOnce(Cause) /\ pc' = "read"
  /\ UNCHANGED <<kind, cancel, expired, unit, procs, code, rc, holding, pipes, request,
                 registered, answer>>

DrainCheck ==
  /\ pc = "drain"
  /\ IF DrainLoopDone
     THEN pc' = "wait" /\ UNCHANGED <<failure, killed, grace, doomed, client>>
     ELSE /\ failure' = Cause
          /\ KillOnce(Cause)
          /\ pc' = IF killed /\ grace = "over" THEN "wait" ELSE "read"
  /\ UNCHANGED <<kind, cancel, expired, unit, procs, code, rc, holding, pipes, request,
                 registered, answer>>

\* One select: every readable pipe gives a chunk or its end of file.
Readable == {s \in registered : pending[s] > 0}
AtEnd    == {s \in registered : pending[s] = 0 /\ holding = {}}

Collected(s) == IF s \in Readable THEN buf[s] + 1 ELSE buf[s]

\* The media supervisor bounds the sum of both pipes and keeps what it read, the
\* perception supervisor bounds each pipe and drops the chunk that is too much.
Overflows(s) == IF kind = "perception"
                THEN Collected(s) > Bound(s)
                ELSE Collected("stdout") + Collected("stderr") > MaxTotal
Kept(s) == IF kind = "perception" /\ Overflows(s) THEN buf[s] ELSE Collected(s)

DrainRead ==
  /\ pc = "read"
  /\ pending' = [s \in Streams |-> IF s \in Readable THEN pending[s] - 1 ELSE pending[s]]
  /\ buf' = [s \in Streams |-> Kept(s)]
  /\ registered' = registered \ AtEnd
  /\ LET over == \E s \in Readable : Overflows(s)
     IN  /\ failure' = IF over THEN "LIMIT_EXCEEDED" ELSE failure
         /\ IF over THEN KillOnce("LIMIT_EXCEEDED")
                    ELSE UNCHANGED <<doomed, client, killed, grace>>
  /\ pc' = "drain"
  /\ UNCHANGED <<kind, cancel, expired, unit, procs, code, rc, holding, written, request,
                 answer>>

\* process.wait(timeout=2): the client is gone, or the time is over.
WaitForClient(here, gone, late) ==
  /\ pc = here
  /\ \/ client = "gone" /\ pc' = gone /\ UNCHANGED <<doomed, client>>
     \/ client # "gone" /\ pc' = late /\ KillUnit
  /\ UNCHANGED <<caller, unit, procs, code, rc, holding, pipes, request, registered,
                 failure, killed, answer>>

\* The second wait gives up.
WaitAgain(here, gone) ==
  /\ pc = here
  /\ \/ client = "gone" /\ pc' = gone /\ UNCHANGED failure
     \/ client # "gone" /\ failure' = "ISOLATION_UNAVAILABLE"
        /\ pc' = IF here = "wait again" /\ kind = "original_frame"
                 THEN "close stdin"
                 ELSE IF here = "wait again" THEN "ensure" ELSE "returned"
  /\ answer' = IF pc' = "returned" THEN failure' ELSE answer
  /\ UNCHANGED <<caller, world, pipes, request, registered, killed>>

AfterDrain == IF failure # "none" THEN "settle"
              ELSE IF kind = "original_frame" THEN "join" ELSE "ensure"

DrainWait      == WaitForClient("wait", AfterDrain, "wait again")
DrainWaitAgain == WaitAgain("wait again", AfterDrain)

\* _wait_unit_stopped after a failure; it may also fail to see that the unit has
\* stopped (an unreadable cgroup, a manager that does not answer).
Settle ==
  /\ pc = "settle"
  /\ \/ UnitStopped /\ UNCHANGED failure
     \/ failure' = "ISOLATION_UNAVAILABLE"
  /\ pc' = IF kind = "original_frame" THEN "close stdin" ELSE "ensure"
  /\ UNCHANGED <<caller, world, pipes, request, registered, killed, answer>>

\* sender.join(timeout=1) after a successful drain.
JoinSender ==
  /\ pc = "join"
  /\ failure' = IF request = "sent" THEN "none" ELSE "ISOLATION_UNAVAILABLE"
  /\ pc' = "close stdin"
  /\ UNCHANGED <<caller, world, pipes, request, registered, killed, answer>>

\* input_stream.close() waits for the thread that is inside write().
CloseStdin ==
  /\ pc = "close stdin" /\ request # "writing" /\ pc' = "ensure"
  /\ UNCHANGED <<caller, world, pipes, request, registered, failure, killed, answer>>

\* _ensure_unit_stopped, on every way out of the call.
Ensure ==
  /\ pc = "ensure"
  /\ IF client # "gone" \/ procs # {} THEN KillUnit
     ELSE UNCHANGED <<doomed, client>>
  /\ pc' = "ensure wait"
  /\ UNCHANGED <<caller, unit, procs, code, rc, holding, pipes, request, registered,
                 failure, killed, answer>>

EnsureWait      == WaitForClient("ensure wait", "ensure settle", "ensure wait again")
EnsureWaitAgain == WaitAgain("ensure wait again", "ensure settle")

\* _decode_output, as far as the exit status and the sizes decide: the content
\* of the streams is the subject of VideoDecoding.
Decoded ==
  CASE kind = "original_frame" /\ \E s \in Streams : buf[s] > Bound(s)
                         -> "LIMIT_EXCEEDED"
    [] rc = "limit"      -> "LIMIT_EXCEEDED"
    [] rc = "isolation"  -> "ISOLATION_UNAVAILABLE"
    [] rc \in {"failed", "killed"} -> "DECODE_FAILED"
    [] rc = "ok" /\ buf["stdout"] = 0 -> "LIMIT_EXCEEDED"
    [] OTHER             -> "result"

Return ==
  /\ pc = "ensure settle"
  /\ \/ UnitStopped /\ answer' = IF failure # "none" THEN failure ELSE Decoded
     \/ answer' = "ISOLATION_UNAVAILABLE"
  /\ pc' = "returned"
  /\ UNCHANGED <<caller, world, pipes, request, registered, failure, killed>>

Supervisor == DrainCheck \/ DrainRead \/ DrainWait \/ DrainWaitAgain \/ Settle
              \/ JoinSender \/ CloseStdin \/ Ensure \/ EnsureWait \/ EnsureWaitAgain
              \/ Return

Next == Environment \/ Supervisor

\* The supervisor's thread runs and the clock goes on; nothing is promised of
\* the worker, of systemd or of the signals.
Spec == Init /\ [][Next]_vars
             /\ WF_vars(Supervisor) /\ WF_vars(Expire) /\ WF_vars(GraceElapses)
             /\ WF_vars(RequestBreaks)

\* Only the runtime of original frames relies on a manager that starts, kills
\* (RuntimeMaxSec=) and reaps.
SpecWithManager == Spec /\ WF_vars(kind = "original_frame" /\ Manager)

---------------------------------------------------------------------------
\* Whoever gets an answer, unless it is ISOLATION_UNAVAILABLE, can rely on it that
\* no process of the unit is left and none will be started (whole-cgroup
\* termination; original_frame_runtime reads the shared buffer on this ground).
NoWorkerOutlivesTheAnswer ==
  pc = "returned" /\ answer # "ISOLATION_UNAVAILABLE" =>
    procs = {} /\ unit \notin {"asked", "active"}

\* A result is all that a worker which ended with status 0 has written: no byte
\* left in a pipe, none dropped, and never what a killed worker left behind.  A
\* cause that is reported has occurred, whatever came after it and however often
\* the loop has overwritten it.
AnswerIsTrue ==
  /\ TypeOK
  /\ answer = "result" => /\ rc = "ok" /\ code = "ok" /\ ~killed
                          /\ \A s \in Streams : buf[s] = written[s]
  /\ answer = "CANCELLED" => cancel = "set"
  /\ answer = "TIMEOUT" => expired /\ killed
  /\ answer = "LIMIT_EXCEEDED" =>
       \/ rc = "limit"
       \/ \E s \in Streams : written[s] > Bound(s)
       \/ written["stdout"] + written["stderr"] > MaxTotal

\* The call ends: no deadlock on a pipe that a process keeps open, on a worker
\* that ignores its deadline or on a kill that fails.  Of original frames the unit
\* ends as well, even when the supervisor cannot kill it or is dead.
CallEnds ==
  /\ <>(pc \in {"returned", "dead"})
  /\ kind = "original_frame" => <>[](procs = {} /\ unit \notin {"asked", "active"})
=============================================================================
