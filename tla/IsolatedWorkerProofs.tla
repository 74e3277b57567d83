------------------------- MODULE IsolatedWorkerProofs -------------------------
(***************************************************************************)
(* What a caller can rely on when a supervised worker's call returns, for  *)
(* any limits on its output.  The two safety properties are not inductive: *)
(* they need what each step of the supervisor has already made sure of.    *)
(***************************************************************************)
EXTENDS IsolatedWorker, TLAPS

(* TypeOK in four parts, and the shape of the pipes that it leaves open. *)
PlaceTypes ==
    /\ kind \in Kinds
    /\ cancel \in {"clear", "set", "unreadable"}
    /\ grace \in {"off", "running", "over"}
    /\ unit \in {"absent", "asked", "active", "over"}
    /\ procs \subseteq {"worker", "child"}
    /\ client \in {"up", "doomed", "gone"}
    /\ holding \subseteq {"worker", "child", "client"}
    /\ request \in {"none", "writing", "sent", "broken"}
    /\ pc \in {"drain", "read", "wait", "wait again", "settle", "join", "close stdin",
               "ensure", "ensure wait", "ensure wait again", "ensure settle",
               "returned", "dead"}
    /\ registered \subseteq Streams

FlagTypes == expired \in BOOLEAN /\ doomed \in BOOLEAN /\ killed \in BOOLEAN

CodeTypes ==
    /\ code \in ExitCodes \cup {"none"} /\ rc \in ExitCodes \cup {"none"}
    /\ failure \in ErrorCodes \cup {"none"}
    /\ answer \in ErrorCodes \cup {"none", "result"}

PipeTypes ==
    /\ written \in [Streams -> Int] /\ pending \in [Streams -> Int] /\ buf \in [Streams -> Int]
    /\ \A s \in Streams : /\ written[s] \in 0..(Bound(s) + 1)
                          /\ pending[s] \in 0..written[s]
                          /\ buf[s] \in 0..(written[s] - pending[s])

(* systemd: processes are only in an active unit, the unit that is over has an
   exit status, and whoever may still write holds the pipes. *)
UnitInv ==
    /\ procs # {} => unit = "active"
    /\ unit = "active" /\ "worker" \notin procs => code # "none"
    /\ unit = "over" => code # "none"
    /\ unit \in {"absent", "asked"} => code = "none"
    /\ client # "gone" => "client" \in holding
    /\ "worker" \in procs \/ unit = "asked" => "worker" \in holding
    /\ code = "ok" => written["stdout"] > 0

(* systemd-run: it has a status once it is gone, the unit's own or that of a
   killed client. *)
ClientInv ==
    /\ client = "gone" <=> rc # "none"
    /\ rc \notin {"none", "killed"} => unit = "over" /\ code = rc

(* The pipes: an end of file is final, and nothing was dropped as long as no
   failure is recorded. *)
PipeInv ==
    /\ \A s \in Streams \ registered : pending[s] = 0 /\ holding = {}
    /\ failure = "none" => \A s \in Streams : buf[s] + pending[s] = written[s]

(* The cause that is recorded has occurred. *)
TooMuchWritten ==
    \/ \E s \in Streams : written[s] > Bound(s)
    \/ written["stdout"] + written["stderr"] > MaxTotal

CauseInv ==
    /\ failure = "CANCELLED" => cancel = "set"
    /\ failure = "TIMEOUT" => expired /\ killed
    /\ failure = "LIMIT_EXCEEDED" => TooMuchWritten
    /\ killed => failure # "none"

(* The supervisor: after the loop either a failure is recorded or both ends of
   file were seen; it is sure of the unit only once systemd-run is gone. *)
SupervisorInv ==
    /\ pc \notin {"drain", "read", "dead"} /\ failure = "none" => registered = {}
    /\ pc \in {"join", "ensure settle"} => client = "gone"
    /\ pc = "join" => failure = "none"
    /\ pc # "returned" => answer = "none"
    /\ pc = "returned" => answer # "none"
    /\ pc = "returned" /\ answer # "ISOLATION_UNAVAILABLE" =>
          client = "gone" /\ procs = {} /\ unit \in {"absent", "over"}
    /\ answer = "result" => failure = "none" /\ rc = "ok"
    /\ answer \in {"CANCELLED", "TIMEOUT"} => failure = answer
    /\ answer = "LIMIT_EXCEEDED" => rc = "limit" \/ TooMuchWritten

Inv ==
    /\ PlaceTypes /\ FlagTypes /\ CodeTypes /\ PipeTypes
    /\ UnitInv /\ ClientInv /\ PipeInv /\ CauseInv /\ SupervisorInv
-----------------------------------------------------------------------------
(* The actors stay where they can be. *)
LEMMA PlaceTypesKept ==
    ASSUME Inv, [Next]_vars PROVE PlaceTypes'
<1>1. CASE Environment
  <2>1. CASE Cancel
    BY <2>1 DEF Inv, PlaceTypes, Cancel, caller, world, pipes, thread
  <2>2. CASE Expire
    BY <2>2 DEF Inv, PlaceTypes, Expire, caller, world, pipes, thread
  <2>3. CASE GraceElapses
    BY <2>3 DEF Inv, PlaceTypes, GraceElapses, caller, world, pipes, thread
  <2>4. CASE AskForUnit
    BY <2>4 DEF Inv, PlaceTypes, AskForUnit, caller, world, pipes, thread
  <2>5. CASE StartUnit
    BY <2>5 DEF Inv, PlaceTypes, StartUnit, caller, world, pipes, thread
  <2>6. CASE UnitEnds
    BY <2>6 DEF Inv, PlaceTypes, UnitEnds, caller, world, pipes, thread
  <2>7. CASE ClientExits
    BY <2>7 DEF Inv, PlaceTypes, ClientExits, caller, world, pipes, thread
  <2>8. CASE KilledFromOutside
    BY <2>8 DEF Inv, PlaceTypes, KilledFromOutside, caller, world, pipes, thread
  <2>9. ASSUME NEW p \in procs, ProcessDies(p) PROVE PlaceTypes'
    BY <2>9 DEF Inv, PlaceTypes, ProcessDies, caller, world, pipes, thread
  <2>10. CASE Fork
    <3>1. holding' \subseteq {"worker", "child", "client"} /\ procs' \subseteq {"worker", "child"}
      BY <2>10 DEF Inv, PlaceTypes, Fork
    <3> QED BY <2>10, <3>1 DEF Inv, PlaceTypes, Fork, caller, world, pipes, thread
  <2>11. ASSUME NEW s \in Streams, WriteOutput(s) PROVE PlaceTypes'
    BY <2>11 DEF Inv, PlaceTypes, WriteOutput, caller, world, pipes, thread
  <2>12. CASE ReadRequest
    BY <2>12 DEF Inv, PlaceTypes, ReadRequest, caller, world, pipes, thread
  <2>13. CASE RequestBreaks
    BY <2>13 DEF Inv, PlaceTypes, RequestBreaks, caller, world, pipes, thread
  <2>14. CASE WorkerExits
    BY <2>14 DEF Inv, PlaceTypes, WorkerExits, caller, world, pipes, thread
  <2>15. CASE ParentDies
    BY <2>15 DEF Inv, PlaceTypes, ParentDies, caller, world, pipes, thread
  <2> QED BY <1>1, <2>1, <2>2, <2>3, <2>4, <2>5, <2>6, <2>7,
    <2>8, <2>9, <2>10, <2>11, <2>12, <2>13, <2>14, <2>15 DEF
  Environment, Manager
<1>2. CASE Supervisor
  <2>1. CASE DrainCheck
    BY <2>1 DEF Inv, PlaceTypes, DrainCheck, DrainLoopDone, Cause, KillOnce, KillUnit,
      caller, world, pipes, thread
  <2>2. CASE DrainRead
    BY <2>2 DEF Inv, PlaceTypes, DrainRead, Readable, AtEnd, Collected, Overflows, Kept,
      KillOnce, KillUnit, caller, world, pipes, thread
  <2>3. CASE DrainWait
    BY <2>3 DEF Inv, PlaceTypes, DrainWait, WaitForClient, KillUnit, AfterDrain, caller,
      world, pipes, thread
  <2>4. CASE DrainWaitAgain
    BY <2>4 DEF Inv, PlaceTypes, DrainWaitAgain, WaitAgain, AfterDrain, caller, world, pipes,
      thread
  <2>5. CASE Settle
    BY <2>5 DEF Inv, PlaceTypes, Settle, UnitStopped, caller, world, pipes, thread
  <2>6. CASE JoinSender
    BY <2>6 DEF Inv, PlaceTypes, JoinSender, caller, world, pipes, thread
  <2>7. CASE CloseStdin
    BY <2>7 DEF Inv, PlaceTypes, CloseStdin, caller, world, pipes, thread
  <2>8. CASE Ensure
    BY <2>8 DEF Inv, PlaceTypes, Ensure, KillUnit, caller, world, pipes, thread
  <2>9. CASE EnsureWait
    BY <2>9 DEF Inv, PlaceTypes, EnsureWait, WaitForClient, KillUnit, caller, world, pipes,
      thread
  <2>10. CASE EnsureWaitAgain
    BY <2>10 DEF Inv, PlaceTypes, EnsureWaitAgain, WaitAgain, caller, world, pipes, thread
  <2>11. CASE Return
    BY <2>11 DEF Inv, PlaceTypes, Return, UnitStopped, Decoded, caller, world, pipes, thread
  <2> QED BY <1>2, <2>1, <2>2, <2>3, <2>4, <2>5, <2>6, <2>7,
    <2>8, <2>9, <2>10, <2>11 DEF Supervisor
<1>3. CASE UNCHANGED vars
  BY <1>3 DEF Inv, PlaceTypes, vars, caller, world, pipes, thread
<1> QED BY <1>1, <1>2, <1>3 DEF Next

(* Flags stay flags. *)
LEMMA FlagTypesKept ==
    ASSUME Inv, [Next]_vars PROVE FlagTypes'
<1>1. CASE Environment
  BY <1>1 DEF Inv, FlagTypes, Environment, Manager, Cancel, Expire, GraceElapses,
    AskForUnit, StartUnit, UnitEnds, ClientExits, KilledFromOutside, ProcessDies, Fork,
    WriteOutput, ReadRequest, RequestBreaks, WorkerExits, ParentDies, caller, world, pipes,
    thread
<1>2. CASE Supervisor
  BY <1>2 DEF Inv, FlagTypes, Supervisor, DrainCheck, DrainLoopDone, Cause, KillOnce,
    KillUnit, DrainRead, Readable, AtEnd, Collected, Overflows, Kept, DrainWait,
    WaitForClient, AfterDrain, DrainWaitAgain, WaitAgain, Settle, UnitStopped, JoinSender,
    CloseStdin, Ensure, EnsureWait, EnsureWaitAgain, Return, Decoded, caller, world, pipes,
    thread
<1>3. CASE UNCHANGED vars
  BY <1>3 DEF Inv, FlagTypes, vars, caller, world, pipes, thread
<1> QED BY <1>1, <1>2, <1>3 DEF Next

(* Statuses stay statuses. *)
LEMMA CodeTypesKept ==
    ASSUME Inv, [Next]_vars PROVE CodeTypes'
<1>1. CASE Environment
  BY <1>1 DEF Inv, CodeTypes, ErrorCodes, ExitCodes, Environment, Manager, Cancel, Expire,
    GraceElapses, AskForUnit, StartUnit, UnitEnds, ClientExits, KilledFromOutside,
    ProcessDies, Fork, WriteOutput, ReadRequest, RequestBreaks, WorkerExits, ParentDies,
    caller, world, pipes, thread
<1>2. CASE Supervisor
  BY <1>2 DEF Inv, CodeTypes, ErrorCodes, ExitCodes, Supervisor, DrainCheck, DrainLoopDone,
    Cause, KillOnce, KillUnit, DrainRead, Readable, AtEnd, Collected, Overflows, Kept,
    DrainWait, WaitForClient, AfterDrain, DrainWaitAgain, WaitAgain, Settle, UnitStopped,
    JoinSender, CloseStdin, Ensure, EnsureWait, EnsureWaitAgain, Return, Decoded, caller,
    world, pipes, thread
<1>3. CASE UNCHANGED vars
  BY <1>3 DEF Inv, CodeTypes, ErrorCodes, ExitCodes, vars, caller, world, pipes, thread
<1> QED BY <1>1, <1>2, <1>3 DEF Next

(* The limits are numbers. *)
LEMMA BoundsAreNumbers == MaxTotal \in Nat /\ \A s : Bound(s) \in Nat
BY BoundsAssumption DEF MaxTotal, Bound

(* No pipe gives more than was written to it, and no more is written than the limits and one chunk. *)
LEMMA PipeTypesKept ==
    ASSUME Inv, [Next]_vars PROVE PipeTypes'
<1>1. CASE Environment
  <2>1. ASSUME NEW s \in Streams, WriteOutput(s) PROVE PipeTypes'
    BY <2>1, BoundsAreNumbers DEF Inv, PipeTypes, WriteOutput
  <2> QED BY <1>1, <2>1 DEF Inv, PipeTypes, Environment, Manager, Cancel, Expire, GraceElapses,
    AskForUnit, StartUnit, UnitEnds, ClientExits, KilledFromOutside, ProcessDies, Fork,
    ReadRequest, RequestBreaks, WorkerExits, ParentDies, caller, world, pipes, thread
<1>2. CASE Supervisor
  <2>1. CASE DrainRead
    BY <2>1 DEF Inv, PipeTypes, DrainRead, Readable, AtEnd, Collected, Overflows, Kept,
      KillOnce, KillUnit, caller, world, pipes, thread
  <2> QED BY <1>2, <2>1 DEF Inv, PipeTypes, Supervisor, DrainCheck, DrainLoopDone, Cause, KillOnce,
    KillUnit, DrainWait, WaitForClient, AfterDrain, DrainWaitAgain, WaitAgain, Settle,
    UnitStopped, JoinSender, CloseStdin, Ensure, EnsureWait, EnsureWaitAgain, Return,
    Decoded, caller, world, pipes, thread
<1>3. CASE UNCHANGED vars
  BY <1>3 DEF Inv, PipeTypes, vars, caller, world, pipes, thread
<1> QED BY <1>1, <1>2, <1>3 DEF Next

(* systemd and the worker. *)
LEMMA UnitInvKept ==
    ASSUME Inv, [Next]_vars PROVE UnitInv'
<1>1. CASE Environment
  <2>1. ASSUME NEW s \in Streams, WriteOutput(s) PROVE UnitInv'
    <3>1. written'["stdout"] >= written["stdout"] /\ written["stdout"] \in Int
      BY <2>1 DEF Inv, PipeTypes, Streams, WriteOutput
    <3> QED BY <2>1, <3>1 DEF Inv, UnitInv, PipeTypes, Streams, WriteOutput, world, thread
  <2>2. CASE WorkerExits
    BY <2>2 DEF Inv, UnitInv, WorkerExits, ExitCodes, pipes
  <2> QED BY <1>1, <2>1, <2>2 DEF Inv, UnitInv, CodeTypes, PlaceTypes, PipeTypes, Streams,
    Environment, Manager, Cancel, Expire, GraceElapses, AskForUnit, StartUnit, UnitEnds,
    ClientExits, KilledFromOutside, ProcessDies, Fork, ReadRequest, RequestBreaks,
    ParentDies, caller, world, pipes, thread
<1>2. CASE Supervisor
  BY <1>2 DEF Inv, UnitInv, CodeTypes, PlaceTypes, PipeTypes, Streams, Supervisor,
    DrainCheck, DrainLoopDone, Cause, KillOnce, KillUnit, DrainRead, Readable, AtEnd,
    Collected, Overflows, Kept, DrainWait, WaitForClient, AfterDrain, DrainWaitAgain,
    WaitAgain, Settle, UnitStopped, JoinSender, CloseStdin, Ensure, EnsureWait,
    EnsureWaitAgain, Return, Decoded, caller, world, pipes, thread
<1>3. CASE UNCHANGED vars
  BY <1>3 DEF Inv, UnitInv, CodeTypes, PlaceTypes, PipeTypes, Streams, vars, caller, world,
    pipes, thread
<1> QED BY <1>1, <1>2, <1>3 DEF Next

(* systemd-run. *)
LEMMA ClientInvKept ==
    ASSUME Inv, [Next]_vars PROVE ClientInv'
<1>1. CASE Environment
  BY <1>1 DEF Inv, ClientInv, UnitInv, CodeTypes, ExitCodes, Environment, Manager, Cancel,
    Expire, GraceElapses, AskForUnit, StartUnit, UnitEnds, ClientExits, KilledFromOutside,
    ProcessDies, Fork, WriteOutput, ReadRequest, RequestBreaks, WorkerExits, ParentDies,
    caller, world, pipes, thread
<1>2. CASE Supervisor
  BY <1>2 DEF Inv, ClientInv, UnitInv, CodeTypes, ExitCodes, Supervisor, DrainCheck,
    DrainLoopDone, Cause, KillOnce, KillUnit, DrainRead, Readable, AtEnd, Collected,
    Overflows, Kept, DrainWait, WaitForClient, AfterDrain, DrainWaitAgain, WaitAgain,
    Settle, UnitStopped, JoinSender, CloseStdin, Ensure, EnsureWait, EnsureWaitAgain,
    Return, Decoded, caller, world, pipes, thread
<1>3. CASE UNCHANGED vars
  BY <1>3 DEF Inv, ClientInv, UnitInv, CodeTypes, ExitCodes, vars, caller, world, pipes,
    thread
<1> QED BY <1>1, <1>2, <1>3 DEF Next

(* The pipes. *)
LEMMA PipeInvKept ==
    ASSUME Inv, [Next]_vars PROVE PipeInv'
<1>1. CASE Environment
  BY <1>1 DEF Inv, PipeInv, UnitInv, PipeTypes, Environment, Manager, Cancel, Expire,
    GraceElapses, AskForUnit, StartUnit, UnitEnds, ClientExits, KilledFromOutside,
    ProcessDies, Fork, WriteOutput, ReadRequest, RequestBreaks, WorkerExits, ParentDies,
    caller, world, pipes, thread
<1>2. CASE Supervisor
  <2>1. CASE JoinSender
    BY <2>1 DEF Inv, PipeInv, SupervisorInv, JoinSender, world, pipes
  <2>2. CASE DrainRead
    <3>1. \A s \in Streams \ registered' : pending'[s] = 0 /\ holding' = {}
      BY <2>2 DEF Inv, PipeInv, DrainRead, Readable, AtEnd
    <3>2. ASSUME failure' = "none", NEW s \in Streams
          PROVE  buf'[s] + pending'[s] = written'[s]
      <4>1. failure = "none" /\ \A t \in Readable : ~Overflows(t)
        BY <2>2, <3>2 DEF DrainRead
      <4>2. Kept(s) = Collected(s)
        BY <4>1 DEF Kept, Collected
      <4>3. /\ buf[s] \in Int /\ pending[s] \in Int /\ buf[s] + pending[s] = written[s]
            /\ written' = written /\ buf'[s] = Kept(s)
            /\ pending'[s] = IF s \in Readable THEN pending[s] - 1 ELSE pending[s]
        BY <2>2, <4>1 DEF Inv, PipeInv, PipeTypes, DrainRead
      <4> QED BY <4>2, <4>3 DEF Collected
    <3> QED BY <3>1, <3>2 DEF PipeInv
  <2>3. CASE DrainCheck
    BY <2>3 DEF Inv, PipeInv, CodeTypes, DrainCheck, Cause, pipes
  <2>4. CASE DrainWait \/ DrainWaitAgain
    BY <2>4 DEF Inv, PipeInv, DrainWait, WaitForClient, DrainWaitAgain, WaitAgain, world, pipes
  <2>5. CASE Ensure \/ EnsureWait \/ EnsureWaitAgain
    BY <2>5 DEF Inv, PipeInv, Ensure, EnsureWait, WaitForClient, EnsureWaitAgain, WaitAgain,
      world, pipes
  <2>6. CASE Settle \/ CloseStdin \/ Return
    BY <2>6 DEF Inv, PipeInv, Settle, CloseStdin, Return, world, pipes
  <2> QED BY <1>2, <2>1, <2>2, <2>3, <2>4, <2>5, <2>6 DEF Supervisor
<1>3. CASE UNCHANGED vars
  BY <1>3 DEF Inv, PipeInv, UnitInv, PipeTypes, vars, caller, world, pipes, thread
<1> QED BY <1>1, <1>2, <1>3 DEF Next

(* What was written stays written. *)
LEMMA TooMuchStays ==
    ASSUME Inv, TooMuchWritten, NEW s \in Streams, WriteOutput(s) PROVE TooMuchWritten'
<1>1. \A t \in Streams : written'[t] >= written[t] /\ written[t] \in Int /\ written'[t] \in Int
  BY DEF Inv, PipeTypes, WriteOutput
<1>2. "stdout" \in Streams /\ "stderr" \in Streams
  BY DEF Streams
<1> QED BY <1>1, <1>2, BoundsAreNumbers DEF TooMuchWritten

(* A chunk that overflows a limit was written, and so was what came before. *)
LEMMA OverflowIsWritten ==
    ASSUME Inv, NEW s \in Readable, Overflows(s) PROVE TooMuchWritten
<1>1. \A t \in Streams : /\ Collected(t) \in Int /\ written[t] \in Int
                        /\ Collected(t) <= written[t]
  BY DEF Inv, PipeTypes, Collected, Readable
<1>2. s \in Streams /\ "stdout" \in Streams /\ "stderr" \in Streams
  BY DEF Inv, PlaceTypes, Readable, Streams
<1> QED BY <1>1, <1>2, BoundsAreNumbers DEF Overflows, TooMuchWritten

(* The recorded cause. *)
LEMMA CauseInvKept ==
    ASSUME Inv, [Next]_vars PROVE CauseInv'
<1>1. CASE Environment
  <2>1. ASSUME NEW s \in Streams, WriteOutput(s) PROVE CauseInv'
    BY <2>1, TooMuchStays DEF Inv, CauseInv, WriteOutput, caller, thread
  <2> QED BY <1>1, <2>1 DEF Inv, CauseInv, PipeTypes, FlagTypes, TooMuchWritten, Environment,
    Manager, Cancel, Expire, GraceElapses, AskForUnit, StartUnit, UnitEnds, ClientExits,
    KilledFromOutside, ProcessDies, Fork, ReadRequest, RequestBreaks, WorkerExits,
    ParentDies, caller, world, pipes, thread
<1>2. CASE Supervisor
  <2>1. CASE DrainRead
    <3>1. written' = written
      BY <2>1 DEF DrainRead
    <3>2. (\E s \in Readable : Overflows(s)) => TooMuchWritten'
      BY <3>1, OverflowIsWritten DEF TooMuchWritten
    <3> QED BY <2>1, <3>1, <3>2 DEF Inv, CauseInv, TooMuchWritten, DrainRead, KillOnce, KillUnit
  <2>2. CASE JoinSender
    BY <2>2 DEF Inv, CauseInv, FlagTypes, SupervisorInv, JoinSender, caller, pipes, TooMuchWritten
  <2>3. CASE DrainCheck
    BY <2>3 DEF Inv, CauseInv, FlagTypes, TooMuchWritten, DrainCheck, Cause, KillOnce, KillUnit,
      pipes
  <2>4. CASE DrainWait
    BY <2>4 DEF Inv, CauseInv, FlagTypes, TooMuchWritten, DrainWait, WaitForClient, caller, pipes
  <2>5. CASE DrainWaitAgain
    BY <2>5 DEF Inv, CauseInv, FlagTypes, TooMuchWritten, DrainWaitAgain, WaitAgain, caller, pipes
  <2>6. CASE Ensure
    BY <2>6 DEF Inv, CauseInv, FlagTypes, TooMuchWritten, Ensure, caller, pipes
  <2>7. CASE EnsureWait
    BY <2>7 DEF Inv, CauseInv, FlagTypes, TooMuchWritten, EnsureWait, WaitForClient, caller, pipes
  <2>8. CASE EnsureWaitAgain
    BY <2>8 DEF Inv, CauseInv, FlagTypes, TooMuchWritten, EnsureWaitAgain, WaitAgain, caller, pipes
  <2>9. CASE Settle
    BY <2>9 DEF Inv, CauseInv, FlagTypes, TooMuchWritten, Settle, caller, pipes
  <2>10. CASE CloseStdin
    BY <2>10 DEF Inv, CauseInv, FlagTypes, TooMuchWritten, CloseStdin, caller, pipes
  <2>11. CASE Return
    BY <2>11 DEF Inv, CauseInv, FlagTypes, TooMuchWritten, Return, caller, pipes
  <2> QED BY <1>2, <2>1, <2>2, <2>3, <2>4, <2>5, <2>6, <2>7, <2>8, <2>9, <2>10, <2>11
    DEF Supervisor
<1>3. CASE UNCHANGED vars
  BY <1>3 DEF Inv, CauseInv, PipeTypes, FlagTypes, TooMuchWritten, vars, caller, world,
    pipes, thread
<1> QED BY <1>1, <1>2, <1>3 DEF Next

(* What the supervisor has made sure of. *)
LEMMA SupervisorInvKept ==
    ASSUME Inv, [Next]_vars PROVE SupervisorInv'
<1>1. CASE Environment
  BY <1>1 DEF Inv, SupervisorInv, UnitInv, ClientInv, CauseInv, PipeInv, TooMuchWritten,
    Environment, Manager, Cancel, Expire, GraceElapses, AskForUnit, StartUnit, UnitEnds,
    ClientExits, KilledFromOutside, ProcessDies, Fork, WriteOutput, ReadRequest,
    RequestBreaks, WorkerExits, ParentDies, caller, world, pipes, thread
<1>2. CASE Supervisor
  <2>1. CASE Return
    <3>1. client = "gone" /\ rc \in ExitCodes /\ answer = "none" /\ pc = "ensure settle"
      BY <2>1 DEF Inv, SupervisorInv, ClientInv, CodeTypes, Return
    <3>2. /\ pc' = "returned" /\ failure' = failure
          /\ UNCHANGED <<caller, world, pipes, registered>>
      BY <2>1 DEF Return
    <3>3. failure = "none" => registered = {} /\ \A s \in Streams : buf[s] = written[s]
      <4> SUFFICES ASSUME failure = "none", NEW s \in Streams
                   PROVE  registered = {} /\ buf[s] = written[s]
        BY <3>1 DEF Inv, SupervisorInv
      <4>1. registered = {}
        BY <3>1 DEF Inv, SupervisorInv
      <4>2. pending[s] = 0 /\ buf[s] + pending[s] = written[s] /\ buf[s] \in Int
        BY <4>1 DEF Inv, PipeInv, PipeTypes
      <4> QED BY <4>1, <4>2
    <3>4. failure = "none" =>
             \/ Decoded = "result" /\ rc = "ok"
             \/ Decoded = "LIMIT_EXCEEDED" /\ (rc = "limit" \/ TooMuchWritten)
             \/ Decoded \in {"ISOLATION_UNAVAILABLE", "DECODE_FAILED"}
      <4> SUFFICES ASSUME failure = "none"
                   PROVE  \/ Decoded = "result" /\ rc = "ok"
                          \/ Decoded = "LIMIT_EXCEEDED" /\ (rc = "limit" \/ TooMuchWritten)
                          \/ Decoded \in {"ISOLATION_UNAVAILABLE", "DECODE_FAILED"}
        OBVIOUS
      <4>1. rc = "ok" => buf["stdout"] > 0
        BY <3>3 DEF Inv, ClientInv, UnitInv, Streams
      <4>2. (\E s \in Streams : buf[s] > Bound(s)) => TooMuchWritten
        BY <3>3 DEF TooMuchWritten
      <4>3. CASE rc = "ok"
        BY <4>1, <4>2, <4>3 DEF Decoded
      <4>4. CASE rc = "limit"
        BY <4>2, <4>4 DEF Decoded
      <4>5. CASE rc \in {"isolation", "failed", "killed"}
        BY <4>2, <4>5 DEF Decoded
      <4> QED BY <3>1, <4>3, <4>4, <4>5 DEF ExitCodes
    <3>5. /\ answer' # "none"
          /\ answer' # "ISOLATION_UNAVAILABLE" => procs = {} /\ unit \in {"absent", "over"}
          /\ answer' = "result" => failure = "none" /\ rc = "ok"
          /\ answer' \in {"CANCELLED", "TIMEOUT"} => failure = answer'
          /\ answer' = "LIMIT_EXCEEDED" => rc = "limit" \/ TooMuchWritten
      BY <2>1, <3>4 DEF Inv, CodeTypes, CauseInv, ErrorCodes, Return, UnitStopped
    <3> QED BY <3>1, <3>2, <3>3, <3>5 DEF SupervisorInv, TooMuchWritten, world, pipes
  <2> QED BY <1>2, <2>1 DEF Inv, SupervisorInv, UnitInv, ClientInv, CauseInv, PipeInv,
    TooMuchWritten, Supervisor, DrainCheck, DrainLoopDone, Cause, KillOnce, KillUnit,
    DrainRead, Readable, AtEnd, Collected, Overflows, Kept, DrainWait, WaitForClient,
    AfterDrain, DrainWaitAgain, WaitAgain, Settle, UnitStopped, JoinSender, CloseStdin,
    Ensure, EnsureWait, EnsureWaitAgain, caller, world, pipes, thread
<1>3. CASE UNCHANGED vars
  BY <1>3 DEF Inv, SupervisorInv, UnitInv, ClientInv, CauseInv, PipeInv, TooMuchWritten,
    vars, caller, world, pipes, thread
<1> QED BY <1>1, <1>2, <1>3 DEF Next

-----------------------------------------------------------------------------
(* The call starts with nothing written, nobody running and no answer. *)
LEMMA InitInv == Init => Inv
<1> SUFFICES ASSUME Init PROVE Inv
  OBVIOUS
<1>1. PlaceTypes
  BY DEF Init, PlaceTypes
<1>2. FlagTypes /\ CodeTypes
  BY DEF Init, FlagTypes, CodeTypes
<1>3. PipeTypes
  BY BoundsAreNumbers DEF Init, PipeTypes
<1>4. UnitInv /\ ClientInv /\ PipeInv
  BY DEF Init, UnitInv, ClientInv, PipeInv
<1>5. CauseInv /\ SupervisorInv
  BY DEF Init, CauseInv, SupervisorInv
<1> QED BY <1>1, <1>2, <1>3, <1>4, <1>5 DEF Inv

(* The invariant holds of every call, whatever the worker, systemd, the clock
   and the caller do; fairness is not needed. *)
THEOREM Invariant == Spec => []Inv
<1>1. Inv /\ [Next]_vars => Inv'
  BY PlaceTypesKept, FlagTypesKept, CodeTypesKept, PipeTypesKept, UnitInvKept, ClientInvKept,
     PipeInvKept, CauseInvKept, SupervisorInvKept DEF Inv
<1> QED BY <1>1, InitInv, PTL DEF Spec

(* No answer but ISOLATION_UNAVAILABLE leaves a process of the unit behind or
   one that is still to start (_ensure_unit_stopped). *)
THEOREM NoWorkerOutlives == Spec => []NoWorkerOutlivesTheAnswer
<1>1. Inv => NoWorkerOutlivesTheAnswer
  BY DEF Inv, SupervisorInv, NoWorkerOutlivesTheAnswer
<1> QED BY <1>1, Invariant, PTL

(* A result is complete and a reported cause has occurred (_supervise_unit). *)
THEOREM TrueAnswer == Spec => []AnswerIsTrue
<1>1. Inv => TypeOK
  <2> SUFFICES ASSUME Inv PROVE TypeOK
    OBVIOUS
  <2>1. PlaceTypes /\ FlagTypes /\ CodeTypes /\ PipeTypes
    BY DEF Inv
  <2> QED BY <2>1 DEF TypeOK, PlaceTypes, FlagTypes, CodeTypes, PipeTypes
<1>2. ASSUME Inv, answer = "result"
      PROVE  rc = "ok" /\ code = "ok" /\ ~killed /\ \A s \in Streams : buf[s] = written[s]
  <2>1. rc = "ok" /\ failure = "none" /\ pc = "returned"
    BY <1>2 DEF Inv, SupervisorInv
  <2>2. registered = {} /\ code = "ok"
    BY <1>2, <2>1 DEF Inv, SupervisorInv, ClientInv
  <2>3. ~killed
    BY <1>2, <2>1 DEF Inv, CauseInv
  <2>4. \A s \in Streams : pending[s] = 0 /\ buf[s] + pending[s] = written[s] /\ buf[s] \in Int
    BY <1>2, <2>1, <2>2 DEF Inv, PipeInv, PipeTypes
  <2> QED BY <2>1, <2>2, <2>3, <2>4
<1>3. Inv => AnswerIsTrue
  BY <1>1, <1>2 DEF Inv, SupervisorInv, CauseInv, TooMuchWritten, AnswerIsTrue
<1> QED BY <1>3, Invariant, PTL
===============================================================================
