---------------------------- MODULE PerceptionCommand ----------------------------
(***************************************************************************)
(* The commands "perception run" and "perception validate-runtime"         *)
(* (perception_cli.py) between the threads of their process: the main      *)
(* thread, the timer of the deadline and the handler of SIGINT.  The main  *)
(* thread verifies the runtimes, probes the source, opens the stores and   *)
(* runs the coordinator, whose calls look at the cancelled event; then it  *)
(* tells what happened by one document and the exit code.  The coordinator *)
(* is reduced to calls of adapters and one publication; PerceptionRun and  *)
(* PerceptionCoordinator have the rest.                                    *)
(***************************************************************************)
EXTENDS Integers, Sequences

CONSTANTS
    MaxInterrupts,      \* bound: SIGINTs
    MaxCalls            \* bound: adapter calls of a run that do something

CommandBounds == MaxInterrupts \in Nat /\ MaxCalls \in Nat

VARIABLES
    command,            \* "run" or "validate"
    pc,                 \* next step of the main thread
    failure,            \* what is to be reported: a failure, or "none"
    timer,              \* of the deadline
    timedOut, cancelled,\* the two events
    handler,            \* of SIGINT: Python's own or the one of the command
    overdue,            \* the coordinator's own deadline has passed
    calls,              \* adapter calls of the run so far
    published,          \* the run is complete in the store
    opened,             \* the stores were opened
    interrupts,         \* SIGINTs so far
    heard,              \* one of them came while the run could still hear it
    exit,               \* the exit code, -1 before
    documents           \* per stream: what has come out of the document, or "held"

threads == <<timer, timedOut, cancelled, handler, overdue, interrupts, heard>>
run == <<calls, published, opened>>
vars == <<command, pc, failure, threads, run, exit, documents>>

Init ==
    /\ command \in {"run", "validate"} /\ pc = "arm" /\ failure = "none"
    /\ timer = "off" /\ timedOut = FALSE /\ cancelled = FALSE
    /\ handler = "default" /\ overdue = FALSE
    /\ calls = 0 /\ published \in BOOLEAN /\ opened = FALSE
    /\ interrupts = 0 /\ heard = FALSE /\ exit = -1
    /\ documents = [s \in {"out", "err"} |-> "nothing"]

At(step) == pc = step
Goto(step) == pc' = step
Raise(f) == failure' = f /\ Goto("restore")

-----------------------------------------------------------------------------
(* The timer thread and SIGINT. *)

Armed == timer \in {"armed", "expiring"}

(* The timer is up: timed_out, then cancelled. *)
Expire ==
    \/ /\ timer = "armed" /\ timer' = "expiring" /\ timedOut' = TRUE /\ UNCHANGED cancelled
    \/ /\ timer = "expiring" /\ timer' = "fired" /\ cancelled' = TRUE /\ UNCHANGED timedOut

TimerThread ==
    /\ Expire
    /\ UNCHANGED <<command, pc, failure, handler, overdue, interrupts, heard, run, exit, documents>>

(* The coordinator starts its clock later than the command does, but the   *)
(* timer thread may get the processor late.                                *)
ClockRuns ==
    /\ At("work") /\ ~overdue /\ overdue' = TRUE
    /\ UNCHANGED <<command, pc, failure, timer, timedOut, cancelled, handler, interrupts, heard,
                   run, exit, documents>>

InHandler == {"arm", "install", "runtimes", "source", "stores", "start", "work", "publish",
              "map", "check", "restore", "disarm", "payload"}

(* What a stream still holds is written when the interpreter exits, as far *)
(* as it can be.                                                           *)
Written == {"nothing", "part", "whole"}
Held == {s \in {"out", "err"} : documents[s] = "held"}
AtExit == {d \in [{"out", "err"} -> Written] : \A s \in {"out", "err"} \ Held : d[s] = documents[s]}

(* With Python's handler SIGINT is an exception in the main thread: main   *)
(* catches it until it calls _emit; afterwards it ends the process, whatever*)
(* of the document is written by then.                                     *)
Interrupt ==
    /\ interrupts < MaxInterrupts /\ pc # "done" /\ interrupts' = interrupts + 1
    /\ IF handler = "command"
       THEN /\ cancelled' = TRUE /\ heard' = (heard \/ pc \notin {"restore", "disarm"})
            /\ UNCHANGED <<pc, failure, exit, documents>>
       ELSE /\ UNCHANGED <<cancelled, heard>>
            /\ IF pc \in InHandler
               THEN Goto("emit") /\ failure' = "cancelled" /\ UNCHANGED <<exit, documents>>
               ELSE Goto("done") /\ exit' = 130 /\ documents' \in AtExit /\ UNCHANGED failure
    /\ UNCHANGED <<command, timer, timedOut, handler, overdue, run>>

-----------------------------------------------------------------------------
(* The scope in which SIGINT and the deadline only set the event. *)

Arm ==
    /\ At("arm") /\ Goto("install") /\ timer' = "armed"
    /\ UNCHANGED <<command, failure, timedOut, cancelled, handler, overdue, interrupts, heard,
                   run, exit, documents>>

Install ==
    /\ At("install") /\ Goto("runtimes") /\ handler' = "command"
    /\ UNCHANGED <<command, failure, timer, timedOut, cancelled, overdue, interrupts, heard,
                   run, exit, documents>>

Restore ==
    /\ At("restore") /\ Goto("disarm") /\ handler' = "default"
    /\ UNCHANGED <<command, failure, timer, timedOut, cancelled, overdue, interrupts, heard,
                   run, exit, documents>>

(* cancel, and join: a timer that has begun is waited for. *)
Disarm ==
    /\ At("disarm") /\ timer # "expiring"
    /\ timer' = IF timer = "armed" THEN "off" ELSE timer
    /\ Goto(IF failure = "none" THEN "payload" ELSE "emit")
    /\ UNCHANGED <<command, failure, timedOut, cancelled, handler, overdue, interrupts, heard,
                   run, exit, documents>>

-----------------------------------------------------------------------------
(* The main thread within the scope. *)

(* A call that ended because of the event raised CANCELLED, which is a     *)
(* timeout when the deadline is over by now.                               *)
Map ==
    /\ At("map") /\ Raise(IF timedOut THEN "timeout" ELSE "cancelled")
    /\ UNCHANGED <<command, threads, run, exit, documents>>

PortError == {"timeout", "unsupported", "failed"}

(* A verification or a probe returns at any time, soon after the event at *)
(* the latest; it may fail.  The runtimes end with a look at the event.    *)
Fails ==
    \/ cancelled /\ Goto("map") /\ UNCHANGED failure
    \/ \E error \in PortError : Raise(error)

Runtimes ==
    /\ At("runtimes")
    /\ \/ /\ ~cancelled /\ UNCHANGED failure
          /\ Goto(IF command = "run" THEN "source" ELSE "check")
       \/ Fails
    /\ UNCHANGED <<command, threads, run, exit, documents>>

Source ==
    /\ At("source")
    /\ \/ Goto("stores") /\ UNCHANGED failure
       \/ Fails
    /\ UNCHANGED <<command, threads, run, exit, documents>>

Stores ==
    /\ At("stores") /\ opened' = TRUE
    /\ \/ Goto("start") /\ UNCHANGED failure
       \/ \E error \in PortError : Raise(error)
    /\ UNCHANGED <<command, threads, calls, published, exit, documents>>

(* The coordinator, told to begin when the event is set, does nothing; one *)
(* that finds the run complete in the store returns it.                    *)
Report(result) == failure' = result /\ Goto("check")
Begin ==
    /\ At("start")
    /\ IF cancelled THEN Report("incomplete_cancelled")
       ELSE Goto("work") /\ UNCHANGED failure
    /\ UNCHANGED <<command, threads, run, exit, documents>>

(* One call of the coordinator to an adapter, between its two checks: its  *)
(* deadline is looked at before the event at the head of a page, after it  *)
(* at the end of a call.  A CoordinatorError passes the command unchanged. *)
Work ==
    /\ At("work")
    /\ \/ overdue /\ Raise("limit_exceeded") /\ UNCHANGED calls
       \/ cancelled /\ Report("incomplete_cancelled") /\ UNCHANGED calls
       \/ /\ ~cancelled /\ ~overdue /\ calls < MaxCalls
          /\ calls' = calls + 1 /\ UNCHANGED <<pc, failure>>
       \/ ~cancelled /\ Goto("publish") /\ UNCHANGED <<failure, calls>>
       \/ Raise("failed") /\ UNCHANGED calls
       \/ /\ UNCHANGED calls
          /\ \E reason \in {"incomplete", "incomplete_timeout", "incomplete_unsupported"} : Report(reason)
    /\ UNCHANGED <<command, threads, published, opened, exit, documents>>

(* The commit looks at the event up to its last step, which is atomic. *)
Publish ==
    /\ At("publish")
    /\ \/ published' = TRUE /\ Goto("check") /\ UNCHANGED failure
       \/ UNCHANGED published /\ cancelled /\ Report("incomplete_cancelled")
       \/ UNCHANGED published /\ Raise("failed")
    /\ UNCHANGED <<command, threads, calls, opened, exit, documents>>


(* After the run, whatever its result: the deadline, then the interrupt. *)
Check ==
    /\ At("check") /\ Goto("restore")
    /\ failure' = CASE timedOut -> "timeout"
                    [] ~timedOut /\ cancelled -> "cancelled"
                    [] OTHER -> failure
    /\ UNCHANGED <<command, threads, run, exit, documents>>

-----------------------------------------------------------------------------
(* The document and the exit code. *)

Code(f) ==
    CASE f = "none" -> 0
      [] f \in {"timeout", "incomplete_timeout"} -> 124
      [] f \in {"cancelled", "incomplete_cancelled"} -> 130
      [] f \in {"unsupported", "incomplete_unsupported"} -> 3
      [] f = "incomplete" -> 4
      [] f \in {"failed", "limit_exceeded"} -> 1

Payload ==
    /\ At("payload") /\ Goto("emit")
    /\ UNCHANGED <<command, failure, threads, run, exit, documents>>

(* write, then flush: the document is in the stream, all of it or a part   *)
(* already out, before flush has returned.  Either call may fail.          *)
Stream == IF failure = "none" THEN "out" ELSE "err"
Put(what) == documents' = [documents EXCEPT ![Stream] = what]

Emit ==
    /\ At("emit") /\ Put("held")
    /\ Goto("flush") \/ Goto("silence")
    /\ UNCHANGED <<command, failure, threads, run, exit>>

Flush ==
    /\ At("flush")
    /\ \/ Put("whole") /\ Goto("return")
       \/ Goto("silence") /\ UNCHANGED documents
    /\ UNCHANGED <<command, failure, threads, run, exit>>

(* The stream is led to /dev/null, so that what it holds goes there at the *)
(* exit; this may fail as well.  A success that cannot be written becomes  *)
(* a failure that is written to stderr, where a second failure is ignored. *)
Silence ==
    /\ At("silence")
    /\ \/ \E what \in {"nothing", "part"} : Put(what)
       \/ UNCHANGED documents
    /\ IF failure = "none" THEN Goto("emit") /\ failure' = "failed"
       ELSE Goto("return") /\ UNCHANGED failure
    /\ UNCHANGED <<command, threads, run, exit>>

(* The interpreter has an exit code of its own for what it cannot flush.   *)
Return ==
    /\ At("return") /\ Goto("done") /\ documents' \in AtExit
    /\ exit' \in {Code(failure)} \cup (IF \E s \in Held : documents'[s] # "whole" THEN {120} ELSE {})
    /\ UNCHANGED <<command, failure, threads, run>>

Done == At("done") /\ UNCHANGED vars

MainThread ==
    \/ Arm \/ Install \/ Runtimes \/ Map \/ Source \/ Stores \/ Begin \/ Work \/ Publish
    \/ Check \/ Restore \/ Disarm \/ Payload \/ Emit \/ Flush \/ Silence \/ Return

Next == MainThread \/ TimerThread \/ ClockRuns \/ Interrupt \/ Done

(* The main thread goes on but for an adapter call, which may go on until *)
(* the event is set; the timer is up some day.                            *)
Goes == MainThread /\ (pc \in {"runtimes", "source", "work"} => cancelled)
Spec == Init /\ [][Next]_vars
-----------------------------------------------------------------------------
Failure == {"none", "timeout", "cancelled", "unsupported", "failed", "limit_exceeded",
            "incomplete", "incomplete_cancelled", "incomplete_timeout", "incomplete_unsupported"}

Emitting == {"emit", "flush", "silence", "return"}

(* Type correctness; nothing comes out of a stream before its document is  *)
(* emitted.                                                                *)
TypeOK ==
    /\ command \in {"run", "validate"} /\ failure \in Failure
    /\ pc \in InHandler \cup Emitting \cup {"done"}
    /\ timer \in {"off", "armed", "expiring", "fired"} /\ handler \in {"default", "command"}
    /\ {timedOut, cancelled, overdue, heard, published, opened} \subseteq BOOLEAN
    /\ calls \in 0 .. MaxCalls /\ interrupts \in 0 .. MaxInterrupts
    /\ exit \in {-1, 0, 1, 3, 4, 120, 124, 130}
    /\ documents \in [{"out", "err"} -> Written \cup {"held"}]
    /\ pc \in InHandler => \A s \in {"out", "err"} : documents[s] = "nothing"
    /\ pc = "done" => Held = {}

(* Who reads exit code 0 has the whole document on stdout and none on      *)
(* stderr, and the run is in the store.  Whatever comes out on stdout says *)
(* the truth, too: the run is in the store, and the exit code is of no     *)
(* failure of the run, only of the writing or of an interrupt during it.   *)
(* (docs/testing/development.md: one JSON line to stdout on success or     *)
(* stderr on failure.)                                                     *)
SuccessIsTrue ==
    pc = "done" =>
        /\ exit = 0 => documents = [out |-> "whole", err |-> "nothing"]
        /\ documents["out"] # "nothing" => /\ exit \in {0, 1, 120, 130}
                                           /\ command = "run" => published
                                           /\ exit = 130 => failure \in {"none", "failed"}

(* A command that nobody interrupted never says it was cancelled: the     *)
(* deadline is told from SIGINT although both set the same event.          *)
NobodyElseCancels == exit = 130 => interrupts > 0

(* An interrupt that comes while the command can still hear it is not lost:*)
(* the command does not succeed and nothing says so on stdout, even when   *)
(* the run was published just then.                                        *)
InterruptIsHeard == pc = "done" /\ heard => exit # 0 /\ documents["out"] = "nothing"

(* A command that was not interrupted leaves nothing behind that could act *)
(* on what the process does next: neither its handler nor its timer.       *)
NothingStaysBehind ==
    pc \in {"payload", "done"} \cup Emitting /\ interrupts = 0 => handler = "default" /\ ~Armed

==================================================================================
