----------------------------- MODULE WorkerCall -----------------------------
(* The calls of the three adapters that hand a local file to an isolated       *)
(* worker: LocalVideoSource (probe and read_frames, which decode once and keep *)
(* what they got), IsolatedPerceptionWorker.infer behind the detector, and     *)
(* IsolatedOriginalFrameReader.read.  Each verifies its runtime, opens the     *)
(* file, copies it into a sealed snapshot, gives the snapshot to a worker and  *)
(* decodes the answer; cancellation and the deadline of the whole call are     *)
(* looked at between the steps, and another process may write the file at any  *)
(* moment.  What happens while the worker runs is IsolatedWorker.              *)
EXTENDS Integers, Sequences, FiniteSets

CONSTANTS Blocks,      \* blocks of the file, copied one by one
          MaxWrites,   \* bound on the writes to the file
          MaxCalls     \* bound on the calls

WorkerCallAssumption ==
  Blocks \in Nat \ {0} /\ MaxWrites \in Nat /\ MaxCalls \in Nat \ {0}

VARIABLES
  content,  \* the file: a sequence of blocks
  mtime,    \* its metadata, which every write changes
  cancel,   \* the caller's event
  expired,  \* the deadline of the current call has passed
  decoded,  \* LocalVideoSource._decoded: <<>> or <<content>>
  source,   \* the Source record the caller passes on: <<>> or <<content>>
  call,     \* the current or last call: "none", "media", "detect" or "read"
  cached,   \* the current answer comes from decoded
  pc, fds, copy, before,
  answer,   \* "none", "result" or an error code
  seen,     \* the content that the last result is about
  calls     \* number of calls so far

outside == <<content, mtime, cancel, expired>>
kept    == <<decoded, source>>
local   == <<call, cached, pc, fds, copy, before, answer, seen, calls>>
vars    == <<outside, kept, local>>

Errors == {"CANCELLED", "TIMEOUT", "CONFLICT", "OTHER"}
Kinds  == {"media", "detect", "read"}
Contents == [1..Blocks -> {0, 1}]

TypeOK ==
  /\ content \in Contents /\ mtime \in 0..MaxWrites
  /\ cancel \in BOOLEAN /\ expired \in BOOLEAN /\ cached \in BOOLEAN
  /\ decoded \in {<<>>} \cup {<<c>> : c \in Contents}
  /\ source \in {<<>>} \cup {<<c>> : c \in Contents}
  /\ call \in Kinds \cup {"none"}
  /\ pc \in {"idle", "verify", "open", "copy", "compare", "work", "decode", "finish"}
  /\ fds \subseteq {"source", "snapshot", "output"}
  /\ Len(copy) <= Blocks /\ before \in 0..MaxWrites
  /\ answer \in Errors \cup {"none", "result"}
  /\ seen \in {<<>>} \cup Contents
  /\ calls \in 0..MaxCalls

Init ==
  /\ content = [i \in 1..Blocks |-> 0] /\ mtime = 0
  /\ cancel = FALSE /\ expired = FALSE
  /\ decoded = <<>> /\ source = <<>>
  /\ call = "none" /\ cached = FALSE /\ pc = "idle" /\ fds = {} /\ copy = <<>>
  /\ before = 0 /\ answer = "none" /\ seen = <<>> /\ calls = 0

---------------------------------------------------------------------------
(* Others.                                                                   *)

WriteFile ==
  /\ mtime < MaxWrites /\ mtime' = mtime + 1
  /\ \E i \in 1..Blocks : content' = [content EXCEPT ![i] = 1 - @]
  /\ UNCHANGED <<cancel, expired, kept, local>>

Cancel == /\ ~cancel /\ cancel' = TRUE
          /\ UNCHANGED <<content, mtime, expired, kept, local>>

Expire == /\ pc # "idle" /\ ~expired /\ expired' = TRUE
          /\ UNCHANGED <<content, mtime, cancel, kept, local>>

---------------------------------------------------------------------------
(* One call.                                                                 *)

\* The descriptors that are closed by whoever leaves the call in this phase: the
\* media and perception calls close the source as soon as it has been copied,
\* the original-frame call closes everything at its end.
ClosedOnExit(phase) ==
  IF call = "read" THEN {"source", "snapshot", "output"}
  ELSE CASE phase = "copy" -> {"source", "snapshot"}
         [] phase \in {"compare", "work", "decode", "finish"} -> {"snapshot"}
         [] OTHER -> {}

Leave(code) ==
  /\ pc' = "idle" /\ answer' = code /\ seen' = <<>>
  /\ fds' = fds \ ClosedOnExit(pc)
  /\ UNCHANGED <<outside, kept, call, cached, copy, before, calls>>

\* _checkpoint: cancellation before the deadline.
Late     == cancel \/ expired
LateCode == IF cancel THEN "CANCELLED" ELSE "TIMEOUT"

\* A phase that starts with a checkpoint, and whose own step may be refused.
Phase(here) == pc = here /\ ~Late
Stop    == pc # "idle" /\ Late /\ Leave(LateCode)
Refused == /\ pc \in {"verify", "open", "copy", "work", "decode"}
           /\ pc = "work" \/ ~Late
           /\ Leave("OTHER")

\* A caller that has no Source yet can only probe; with a result kept, probe and
\* read_frames look at neither the file nor the event.
Begin(kind) ==
  /\ pc = "idle" /\ calls < MaxCalls
  /\ kind # "media" => source # <<>>
  /\ call' = kind /\ calls' = calls + 1 /\ copy' = <<>> /\ expired' = FALSE
  /\ UNCHANGED <<content, mtime, cancel, decoded, fds, before>>
  /\ IF kind = "media" /\ decoded # <<>>
     THEN /\ answer' = "result" /\ seen' = decoded[1] /\ source' = decoded
          /\ cached' = TRUE /\ UNCHANGED pc
     ELSE /\ cached' = FALSE /\ answer' = "none" /\ seen' = <<>> /\ UNCHANGED source
          /\ pc' = "verify"

\* _capability_check, _verify_perception_boundary, _verify_overlay
Verify ==
  /\ Phase("verify") /\ pc' = "open"
  /\ UNCHANGED <<outside, kept, call, cached, fds, copy, before, answer, seen, calls>>

OpenSource ==
  /\ Phase("open") /\ pc' = "copy"
  /\ fds' = fds \cup {"source", "snapshot"} /\ before' = mtime
  /\ UNCHANGED <<outside, kept, call, cached, copy, answer, seen, calls>>

CopyBlock ==
  /\ Phase("copy") /\ Len(copy) < Blocks
  /\ copy' = Append(copy, content[Len(copy) + 1])
  /\ UNCHANGED <<outside, kept, call, cached, pc, fds, before, answer, seen, calls>>

\* The snapshot is sealed.  Only the original-frame call keeps the source open,
\* to see whether its metadata have changed in the meantime.
Seal ==
  /\ Phase("copy") /\ Len(copy) = Blocks /\ pc' = "compare"
  /\ fds' = IF call = "read" THEN fds ELSE fds \ {"source"}
  /\ UNCHANGED <<outside, kept, call, cached, copy, before, answer, seen, calls>>

\* Slip: only the metadata are compared.
AgreesInMetadata == call = "read" => before = mtime

\* The copy is what the Source record says.
Agrees == /\ call \in {"detect", "read"} => source = <<copy>>
          /\ call = "read" => before = mtime

Compare ==
  /\ Phase("compare")
  /\ IF Agrees
     THEN /\ pc' = "work"
          /\ fds' = IF call = "read" THEN fds \cup {"output"} ELSE fds
          /\ UNCHANGED <<outside, kept, call, cached, copy, before, answer, seen, calls>>
     ELSE Leave("CONFLICT")

\* _remaining_worker_limits looks once more before the worker is started; the
\* worker ends, and the snapshot is closed, before its output is decoded.
Work ==
  /\ Phase("work") /\ pc' = "decode"
  /\ fds' = IF call = "read" THEN fds ELSE fds \ {"snapshot"}
  /\ UNCHANGED <<outside, kept, call, cached, copy, before, answer, seen, calls>>

\* The worker's answer is about the snapshot.  LocalVideoSource keeps it before
\* it looks at the clock for the last time.
Decode ==
  /\ Phase("decode") /\ pc' = "finish"
  /\ decoded' = IF call = "media" THEN <<copy>> ELSE decoded
  /\ UNCHANGED <<outside, source, call, cached, fds, copy, before, answer, seen, calls>>

Finish ==
  /\ Phase("finish")
  /\ pc' = "idle" /\ answer' = "result" /\ seen' = copy
  /\ source' = IF call = "media" THEN <<copy>> ELSE source
  /\ fds' = fds \ ClosedOnExit("finish")
  /\ UNCHANGED <<outside, decoded, call, cached, copy, before, calls>>

Next == \/ WriteFile \/ Cancel \/ Expire
        \/ \E kind \in Kinds : Begin(kind)
        \/ Verify \/ OpenSource \/ CopyBlock \/ Seal \/ Compare \/ Work \/ Decode
        \/ Finish \/ Stop \/ Refused

Spec == Init /\ [][Next]_vars

---------------------------------------------------------------------------
\* No way out of a call leaves a descriptor of the file or of a snapshot open.
DescriptorsAreClosed == pc = "idle" => fds = {}

\* A detection or a pixel read that returns is about the Source that was asked
\* for, however the file was written while it was copied.
ResultIsOfTheSource ==
  pc = "idle" /\ answer = "result" => source = <<seen>>

\* Every probe and every page of one LocalVideoSource is about one content, even
\* when the file has changed or a call has failed in between.
MediaAnswersAgree ==
  [][call' = "media" /\ answer' = "result" /\ source # <<>> => source' = source]_vars

\* A call that was cancelled or has passed its deadline yields no result, unless
\* it was there before.
NoLateResult ==
  [][answer' = "result" /\ pc # "idle" => ~cancel /\ ~expired]_vars
=============================================================================
