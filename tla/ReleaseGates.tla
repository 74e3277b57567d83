------------------------------ MODULE ReleaseGates ------------------------------
(***************************************************************************)
(* The release gates (scripts/evaluate_v02_gates.py): evaluators read the  *)
(* receipt of a benchmark and perhaps that of a baseline, grade them by the*)
(* frozen policy and write a verdict into a file of their own.  Receipts   *)
(* may be rewritten while they are read, and the writing may fail.  A      *)
(* metric has one stratum; texts, digests and URLs are abstracted to what  *)
(* compares equal.                                                         *)
(***************************************************************************)
EXTENDS Integers, SequencesExt, FiniteSetsExt

CONSTANTS
    Evaluator,       \* processes that run the command, all with one output file
    Policies,        \* what the policy file may have been frozen as
    Candidates,      \* receipts to grade
    Baselines,       \* receipts given as --baseline
    Manifests,       \* dataset manifests
    Days,            \* days an evaluator may give as --as-of
    Versions,        \* policy versions asked for: 1 and the amendment 2
    FrozenOn,        \* the day the policy was frozen
    MaxDuration,     \* maximum_duration_days of a waiver
    Repetitions,     \* measured_repetitions
    MaxEditions,     \* bound: how often the receipt file is rewritten
    None, UNKNOWN, NoReceipt

GateBounds ==
    /\ Repetitions \in Nat \ {0} /\ MaxDuration \in Nat /\ FrozenOn \in Nat
    /\ MaxEditions \in Nat /\ Days \subseteq Nat

VARIABLES
    policy,     \* the definitions the pinned digest stands for
    files,      \* the receipt file and the baseline file
    editions,   \* how often the receipt file was rewritten
    pc,         \* next step of each evaluator
    asked,      \* its arguments
    seen,       \* editions when it opened the receipt
    loaded,     \* the receipts it holds in memory
    verdict,    \* its result
    exit,       \* its exit code
    output      \* the output file

vars == <<policy, files, editions, pc, asked, seen, loaded, verdict, exit, output>>

Metric == {"quality", "memory", "failures"}
NoOutput == [by |-> None, status |-> "none", whole |-> FALSE]

-----------------------------------------------------------------------------
(* The policy: what a metric definition may say. *)

MetricDefinition(m) ==
    /\ m.kind = "diagnostic" => m.minimum = None /\ m.maximum = None /\ m.budget = None
    /\ m.kind = "gate" =>
         /\ (m.minimum = None) # (m.maximum = None)
         /\ m.minimum # None => m.direction = "higher_is_better"
         /\ m.maximum # None => m.direction = "lower_is_better"
         /\ m.budget = None => m.maximum = 0
    /\ m.source = "run_status" =>
         /\ m.aggregation = "adverse_mean" /\ m.direction = "lower_is_better"
         /\ m.maximum = 0

ValidPolicy(p) ==
    /\ \A n \in Metric : MetricDefinition(p[n])
    /\ \E n \in Metric : p[n].kind = "gate"

(* The digest pins the policy, and the amendment its base: version 2 has the *)
(* metrics of version 1 and its own rules for the licences of a runtime.     *)
LoadPolicy(version) == version \in Versions \cap {1, 2}

-----------------------------------------------------------------------------
(* The dataset and the candidate. *)

ValidManifest(m) ==
    /\ m.rights = "evaluation" /\ ~m.personal
    /\ m.calibration # m.test /\ m.items > 0

LicenceEvidence(a, version) ==
    \/ version = 1
    \/ version = 2 /\ a.kind = "runtime" /\ a.digest = "pinned" /\ a.evidence = "pinned"
    \/ version = 2 /\ a.kind = "runtime" /\ a.digest = "exempt" /\ a.evidence = "none"
    \/ version = 2 /\ a.kind # "runtime" /\ a.evidence = "none"

Licensed(a, version) ==
    \/ a.licence = "candidate"
    \/ a.licence = "runtime" /\ version = 2 /\ a.kind = "runtime"

ValidCandidate(artifacts, version, day) ==
    /\ artifacts # {}
    /\ \A a \in artifacts :
         /\ a.approved /\ a.reviewed <= day
         /\ Licensed(a, version) /\ LicenceEvidence(a, version)

-----------------------------------------------------------------------------
(* The measured repetitions and what the receipt makes of them. *)

Measured(repetition, n) ==
    CASE n = "quality" -> repetition.quality
      [] n = "memory" -> repetition.memory
      [] n = "failures" -> IF repetition.status = "pass" THEN 0 ELSE 10000

ValidRepetition(repetition, items) ==
    /\ repetition.failed + repetition.processed = items
    /\ (repetition.status = "pass") <=> (repetition.failed = 0)

RoundUp(a, b) == -((-a) \div b)
Sorted(values) == SortSeq(values, LAMBDA a, b : a < b)

Aggregate(values, m) ==
    CASE UNKNOWN \in ToSet(values) -> UNKNOWN
      [] m.aggregation = "median" -> Sorted(values)[(Len(values) \div 2) + 1]
      [] m.aggregation = "maximum" -> Max(ToSet(values))
      [] m.aggregation = "adverse_mean" -> RoundUp(FoldSeq(+, 0, values), Len(values))

ExpectedAggregate(repetitions) ==
    [n \in Metric |->
        Aggregate([i \in DOMAIN repetitions |-> Measured(repetitions[i], n)], policy[n])]

(* Slip: the aggregate of the receipt is believed. *)
ValidReceiptAsClaimed(r, version, manifest) ==
    /\ r.version = version /\ r.manifest = manifest
    /\ ValidCandidate(r.artifacts, version, r.day)
    /\ Len(r.repetitions) = Repetitions
    /\ \A i \in DOMAIN r.repetitions : ValidRepetition(r.repetitions[i], manifest.items)

ValidReceipt(r, version, manifest) ==
    /\ r.version = version /\ r.manifest = manifest
    /\ ValidCandidate(r.artifacts, version, r.day)
    /\ Len(r.repetitions) = Repetitions
    /\ \A i \in DOMAIN r.repetitions : ValidRepetition(r.repetitions[i], manifest.items)
    /\ r.aggregate = ExpectedAggregate(r.repetitions)

-----------------------------------------------------------------------------
(* Grading. *)

MeetsBound(value, m) ==
    /\ value # UNKNOWN
    /\ m.minimum # None => value >= m.minimum
    /\ m.maximum # None => value <= m.maximum

AbsoluteFailures(r) ==
    {<<"absolute", n>> : n \in
        {k \in Metric : policy[k].kind = "gate" /\ ~MeetsBound(r.aggregate[k], policy[k])}}

Regression(was, is, direction) ==
    LET worse == IF direction = "lower_is_better" THEN is - was ELSE was - is
    IN  IF was = 0
        THEN IF is = 0 THEN 0 ELSE IF worse > 0 THEN 10001 ELSE -10001
        ELSE RoundUp(worse * 10000, was)

Budgeted == {n \in Metric : policy[n].kind = "gate" /\ policy[n].budget # None}

RegressionFailures(baseline, r) ==
    {<<"regression", n>> : n \in
        {k \in Budgeted :
            Regression(baseline.aggregate[k], r.aggregate[k], policy[k].direction)
                > policy[k].budget}}

ValidBaseline(baseline, r) ==
    /\ FrozenOn <= baseline.day /\ baseline.day <= r.day
    /\ AbsoluteFailures(baseline) = {} /\ baseline.waiver = None
    /\ baseline.phase = "selection"
    /\ baseline.setup = r.setup
    /\ \A n \in Budgeted : r.aggregate[n] # UNKNOWN

Failures(r, baseline) ==
    AbsoluteFailures(r)
    \cup IF r.phase = "regression" THEN RegressionFailures(baseline, r) ELSE {}

ValidWaiver(w, r, failures, asOf) ==
    /\ failures # {} /\ w.owned /\ w.scope = failures
    /\ FrozenOn <= w.issued /\ w.issued <= r.day /\ asOf <= w.expires
    /\ w.expires - w.issued <= MaxDuration

Grade(r, baseline, asOf) ==
    CASE ~(FrozenOn <= r.day /\ r.day <= asOf) -> "error"
      [] (r.phase = "regression") # (baseline # NoReceipt) -> "error"
      [] r.phase = "regression" /\ ~ValidBaseline(baseline, r) -> "error"
      [] r.waiver # None /\ ~ValidWaiver(r.waiver, r, Failures(r, baseline), asOf) -> "error"
      [] OTHER ->
           IF Failures(r, baseline) = {} THEN "pass"
           ELSE IF r.waiver # None THEN "waived" ELSE "fail"

-----------------------------------------------------------------------------
(* One evaluator, reading, grading and writing. *)

Arguments ==
    [version : Versions, manifest : Manifests, asOf : Days, baseline : BOOLEAN]
NoArguments == [version |-> 0, manifest |-> None, asOf |-> 0, baseline |-> FALSE]

Init ==
    /\ policy \in {p \in Policies : ValidPolicy(p)}
    /\ files \in [candidate : Candidates, baseline : Baselines \cup {NoReceipt}]
    /\ editions = 0
    /\ pc = [e \in Evaluator |-> "idle"]
    /\ asked = [e \in Evaluator |-> NoArguments]
    /\ seen = [e \in Evaluator |-> 0]
    /\ loaded = [e \in Evaluator |-> [candidate |-> NoReceipt, baseline |-> NoReceipt]]
    /\ verdict = [e \in Evaluator |-> "none"]
    /\ exit = [e \in Evaluator |-> None]
    /\ output = NoOutput

At(e, step) == pc[e] = step
Goto(e, step) == pc' = [pc EXCEPT ![e] = step]
Stop(e, code) == Goto(e, "done") /\ exit' = [exit EXCEPT ![e] = code]
Keep == UNCHANGED <<policy, files, editions>>
Reads == <<asked, seen, loaded>>

Start(e) ==
    /\ At(e, "idle")
    /\ \E a \in Arguments :
         /\ a.baseline => files.baseline # NoReceipt
         /\ asked' = [asked EXCEPT ![e] = a]
         /\ IF LoadPolicy(a.version) /\ ValidManifest(a.manifest)
            THEN Goto(e, "open") /\ UNCHANGED exit
            ELSE Stop(e, 2)
    /\ Keep /\ UNCHANGED <<seen, loaded, verdict, output>>

(* The first bytes of the receipt, and its place, size and times. *)
OpenReceipt(e) ==
    /\ At(e, "open") /\ Goto(e, "read")
    /\ loaded' = [loaded EXCEPT ![e].candidate = files.candidate]
    /\ seen' = [seen EXCEPT ![e] = editions]
    /\ Keep /\ UNCHANGED <<asked, verdict, exit, output>>

(* The rest of the bytes; a file that changed meanwhile is refused. *)
ReadReceipt(e) ==
    /\ At(e, "read")
    /\ LET r == [loaded[e].candidate EXCEPT !.waiver = files.candidate.waiver]
       IN  /\ loaded' = [loaded EXCEPT ![e].candidate = r]
           /\ IF seen[e] = editions /\ ValidReceipt(r, asked[e].version, asked[e].manifest)
              THEN Goto(e, "baseline") /\ UNCHANGED exit
              ELSE Stop(e, 2)
    /\ Keep /\ UNCHANGED <<asked, seen, verdict, output>>

ReadBaseline(e) ==
    /\ At(e, "baseline")
    /\ IF ~asked[e].baseline
       THEN Goto(e, "evaluate") /\ UNCHANGED <<loaded, exit>>
       ELSE /\ loaded' = [loaded EXCEPT ![e].baseline = files.baseline]
            /\ IF ValidReceipt(files.baseline, asked[e].version, asked[e].manifest)
               THEN Goto(e, "evaluate") /\ UNCHANGED exit
               ELSE Stop(e, 2)
    /\ Keep /\ UNCHANGED <<asked, seen, verdict, output>>

Evaluate(e) ==
    /\ At(e, "evaluate")
    /\ LET status == Grade(loaded[e].candidate, loaded[e].baseline, asked[e].asOf)
       IN  /\ verdict' = [verdict EXCEPT ![e] = status]
           /\ IF status = "error" THEN Stop(e, 2) ELSE Goto(e, "write") /\ UNCHANGED exit
    /\ Keep /\ UNCHANGED <<Reads, output>>

(* O_EXCL: the first evaluator gets the file. *)
OpenOutput(e) ==
    /\ At(e, "write")
    /\ IF output = NoOutput
       THEN /\ Goto(e, "writing") /\ UNCHANGED exit
            /\ output' = [by |-> e, status |-> verdict[e], whole |-> FALSE]
       ELSE Stop(e, 2) /\ UNCHANGED output
    /\ Keep /\ UNCHANGED <<Reads, verdict>>

Code(status) == IF status \in {"pass", "waived"} THEN 0 ELSE 1

WriteOutput(e) ==
    /\ At(e, "writing") /\ output' = [output EXCEPT !.whole = TRUE]
    /\ Stop(e, Code(verdict[e]))
    /\ Keep /\ UNCHANGED <<Reads, verdict>>

(* A full disk; what was written stays. *)
WriteFails(e) ==
    /\ At(e, "writing") /\ Stop(e, 2)
    /\ Keep /\ UNCHANGED <<Reads, verdict, output>>

Die(e) ==
    /\ pc[e] \notin {"idle", "done"} /\ Goto(e, "done")
    /\ Keep /\ UNCHANGED <<Reads, verdict, exit, output>>

(* Somebody writes the receipt again. *)
Rewrite ==
    /\ editions < MaxEditions /\ editions' = editions + 1
    /\ \E r \in Candidates : files' = [files EXCEPT !.candidate = r]
    /\ UNCHANGED <<policy, pc, Reads, verdict, exit, output>>

Next ==
    \/ Rewrite
    \/ \E e \in Evaluator :
         \/ Start(e) \/ OpenReceipt(e) \/ ReadReceipt(e) \/ ReadBaseline(e)
         \/ Evaluate(e) \/ OpenOutput(e) \/ WriteOutput(e) \/ WriteFails(e) \/ Die(e)

Spec == Init /\ [][Next]_vars

-----------------------------------------------------------------------------
(* Type correctness of the evaluators and their file. *)
TypeOK ==
    /\ policy \in Policies
    /\ files \in [candidate : Candidates, baseline : Baselines \cup {NoReceipt}]
    /\ editions \in 0 .. MaxEditions /\ seen \in [Evaluator -> 0 .. MaxEditions]
    /\ pc \in [Evaluator ->
         {"idle", "open", "read", "baseline", "evaluate", "write", "writing", "done"}]
    /\ asked \in [Evaluator -> Arguments \cup {NoArguments}]
    /\ DOMAIN loaded = Evaluator
    /\ verdict \in [Evaluator -> {"none", "error", "pass", "waived", "fail"}]
    /\ exit \in [Evaluator -> {None, 0, 1, 2}]
    /\ \/ output = NoOutput
       \/ output \in [by : Evaluator, status : {"pass", "waived", "fail"}, whole : BOOLEAN]

(* What the repetitions of a receipt say of a gate, without an aggregate:  *)
(* none is unknown, more than half of the figures are within the bound, of *)
(* the memory and of the failures all are.                                 *)
Within(r, n) ==
    LET good == {i \in DOMAIN r.repetitions : MeetsBound(Measured(r.repetitions[i], n), policy[n])}
    IN  /\ \A i \in DOMAIN r.repetitions : Measured(r.repetitions[i], n) # UNKNOWN
        /\ IF n = "quality" THEN 2 * Cardinality(good) > Len(r.repetitions)
           ELSE good = DOMAIN r.repetitions
Misses(r) == {n \in Metric : policy[n].kind = "gate" /\ ~Within(r, n)}

(* A verdict "pass" is never owed to a flattering aggregate: every         *)
(* repetition ran over all items of the test split and within the memory,  *)
(* most of them reach the quality asked for, and of a regression the same  *)
(* holds for the baseline.  (ADR-0006: fabricated aggregates are rejected, *)
(* an outlier is not hidden by aggregation.)                               *)
PassIsEarned ==
    \A e \in Evaluator : verdict[e] = "pass" =>
        \A r \in {loaded[e].candidate, loaded[e].baseline} \ {NoReceipt} :
            /\ Misses(r) = {}
            /\ \A i \in DOMAIN r.repetitions : r.repetitions[i].processed = r.manifest.items

(* A regression that passes keeps within the budget exactly, not only after*)
(* rounding: no metric lost more than its part of ten thousand.            *)
LossIsBounded ==
    \A e \in Evaluator :
        verdict[e] = "pass" /\ loaded[e].candidate.phase = "regression" =>
            \A n \in Budgeted :
                LET was == loaded[e].baseline.aggregate[n]
                    is  == loaded[e].candidate.aggregate[n]
                    loss == IF policy[n].direction = "lower_is_better" THEN is - was ELSE was - is
                IN  loss * 10000 <= policy[n].budget * was

(* A waived receipt misses something, and the waiver names all it misses   *)
(* against the bounds and nothing else of them; the baseline it is measured*)
(* by missed nothing, so that waivers do not add up; and nobody is excused *)
(* longer than the policy allows after the waiver was issued.              *)
ExcusesAreExact ==
    \A e \in Evaluator : verdict[e] = "waived" =>
        LET r == loaded[e].candidate
        IN  /\ {f \in r.waiver.scope : f[1] = "absolute"} = {<<"absolute", n>> : n \in Misses(r)}
            /\ r.waiver.scope # {}
            /\ r.phase = "regression" => Misses(loaded[e].baseline) = {}
            /\ asked[e].asOf - r.waiver.issued <= MaxDuration

(* A receipt that passes would pass as well if one of its repetitions had  *)
(* been better.                                                            *)
NoWorse(was, is, m) ==
    CASE m.kind = "diagnostic" -> TRUE
      [] UNKNOWN \in {was, is} -> was = UNKNOWN
      [] m.direction = "lower_is_better" -> is <= was
      [] m.direction = "higher_is_better" -> is >= was
Outcomes == UNION {ToSet(r.repetitions) : r \in Candidates}
BetterStillPasses ==
    \A e \in Evaluator : verdict[e] = "pass" =>
        LET r == loaded[e].candidate
            Better(i) == {o \in Outcomes :
                /\ ValidRepetition(o, r.manifest.items)
                /\ \A n \in Metric :
                     NoWorse(Measured(r.repetitions[i], n), Measured(o, n), policy[n])}
        IN  \A i \in DOMAIN r.repetitions : \A o \in Better(i) :
                LET better == [r.repetitions EXCEPT ![i] = o]
                IN  Grade([r EXCEPT !.repetitions = better, !.aggregate = ExpectedAggregate(better)],
                          loaded[e].baseline, asked[e].asOf) = "pass"

(* Who exits with 0 or 1 has its own verdict on the disk, whole, and it    *)
(* stays there whatever others with the same output do.                    *)
ReportedIsWritten ==
    \A e \in Evaluator : exit[e] \in {0, 1} =>
        output = [by |-> e, status |-> verdict[e], whole |-> TRUE] /\ exit[e] = Code(verdict[e])

(* A verdict is about a receipt that the file really held, never about a   *)
(* mixture of two editions of it.                                          *)
VerdictOfOneFile ==
    \A e \in Evaluator : verdict[e] # "none" => loaded[e].candidate \in Candidates

=================================================================================
