------------------------------- MODULE MCScripts -------------------------------
(***************************************************************************)
(* The scripts of a release on small instances: the release gates, the     *)
(* geometric tracker with its diagnostics, the tracking experiment and the *)
(* installation of the runtimes.                                           *)
(* They share no state: "part" says which of them a behaviour is about,    *)
(* the variables of the others stay Unused or where they start.            *)
(***************************************************************************)
EXTENDS Integers, Sequences, TLC

CONSTANTS None, Unused, UNKNOWN, NoReceipt,
          r1, r2, d1, d2, p1, p2   \* revisions, directories, processes: only compared

VARIABLES
    part,
    policy, files, editions, pc, asked, seen, loaded, verdict, exit, output,
    clip, configuration, tracks, nextId, maximumActive, terminations, now, frames, finished,
    code, data, outputs, installed, run, started, measured,
    cache, diskCache, lock, staging, root, entered, proc, kept, faults

-----------------------------------------------------------------------------
(* Metric definitions of every shape the policy may have for the quality,  *)
(* with the memory and failure gates of the checked-in policy.             *)
Memory == [kind |-> "gate", direction |-> "lower_is_better", aggregation |-> "maximum",
           minimum |-> None, maximum |-> 2, budget |-> 5000, source |-> "reported"]
Failing == [kind |-> "gate", direction |-> "lower_is_better", aggregation |-> "adverse_mean",
            minimum |-> None, maximum |-> 0, budget |-> None, source |-> "run_status"]
Qualities ==
    [kind : {"gate", "diagnostic"}, direction : {"higher_is_better", "lower_is_better"},
     aggregation : {"median"}, minimum : {None, 2}, maximum : {None, 0, 4},
     budget : {None, 0, 3333}, source : {"reported"}]
PolicyOf(quality) == [quality |-> quality, memory |-> Memory, failures |-> Failing]
MCPolicies == {PolicyOf(m) : m \in Qualities}
MCTwoPolicies == {p \in MCPolicies : p.quality.kind = "gate" /\ p.quality.budget = 3333
                                     /\ p.quality.maximum # 0}

Locked == [rights |-> "evaluation", personal |-> FALSE, calibration |-> "a", test |-> "b", items |-> 2]
Leaked == [Locked EXCEPT !.test = "a"]

(* Receipts of three repetitions of four or seven kinds, honest or with an *)
(* aggregate over the passed repetitions only.                             *)
Ran(q, m) == [status |-> "pass", failed |-> 0, processed |-> 2, quality |-> q, memory |-> m]
Crashed == [status |-> "failed", failed |-> 1, processed |-> 1, quality |-> UNKNOWN, memory |-> 1]
Skipped == [Ran(3, 1) EXCEPT !.failed = 1, !.processed = 1]
Kinds == <<Ran(3, 1), Ran(2, 1), Ran(4, 1), Ran(0, 1), Ran(3, 3), Crashed, Skipped>>
InOrder(last) ==
    {<<Kinds[t[1]], Kinds[t[2]], Kinds[t[3]]>> :
        t \in {u \in (1 .. last) \X (1 .. last) \X (1 .. last) : u[1] <= u[2] /\ u[2] <= u[3]}}

(* The aggregates of a receipt are computed as the gates do it. *)
Arithmetic == INSTANCE ReleaseGates WITH
    Evaluator <- {}, Policies <- MCPolicies, Candidates <- {}, Baselines <- {}, Manifests <- {},
    Days <- {}, Versions <- {}, FrozenOn <- 1, MaxDuration <- 2, Repetitions <- 3, MaxEditions <- 0
Honest(runs) ==
    [n \in Arithmetic!Metric |->
        Arithmetic!Aggregate([i \in DOMAIN runs |-> Arithmetic!Measured(runs[i], n)],
                             PolicyOf(CHOOSE m \in Qualities : TRUE)[n])]
Flattering(runs) ==
    LET good == SelectSeq(runs, LAMBDA o : o.status = "pass" /\ o.memory < 3)
    IN  IF good = <<>> THEN Honest(runs) ELSE Honest(good)

Weights(day) == [kind |-> "weights", licence |-> "candidate", digest |-> "other",
                 evidence |-> "none", approved |-> TRUE, reviewed |-> day]
Runtime(proof) == [kind |-> "runtime", licence |-> "runtime", digest |-> "pinned",
                   evidence |-> proof, approved |-> TRUE, reviewed |-> 1]
Receipt(phase, runs, claim, day, waiver, version, artifacts) ==
    [phase |-> phase, repetitions |-> runs, aggregate |-> claim, day |-> day,
     waiver |-> waiver, version |-> version, manifest |-> Locked, setup |-> "cpu",
     artifacts |-> artifacts]

MCCandidates ==
    UNION {{Receipt(p, o, c, 2, None, 1, {Weights(1)}) : c \in {Honest(o), Flattering(o)}} :
        p \in {"selection", "regression"}, o \in InOrder(7)}
MCSteady == {[n \in 1 .. 3 |-> Kinds[k]] : k \in 1 .. 4}
MCBaselines == {Receipt("selection", o, Honest(o), 1, None, 1, {Weights(1)}) : o \in MCSteady}

Grading == INSTANCE ReleaseGates WITH
    Evaluator <- {"p1"}, Policies <- MCPolicies, Candidates <- MCCandidates,
    Baselines <- MCBaselines, Manifests <- {Locked}, Days <- {3}, Versions <- {1},
    FrozenOn <- 1, MaxDuration <- 2, Repetitions <- 3, MaxEditions <- 0

(* Receipts that are waived: what fails is the memory, the quality or both. *)
Pardon(scope, issued, expires) ==
    [owned |-> TRUE, scope |-> scope, issued |-> issued, expires |-> expires]
Fine == <<Kinds[1], Kinds[1], Kinds[1]>>
Hungry == <<Kinds[1], Kinds[1], Kinds[5]>>
Unknown == <<Kinds[1], Kinds[1], Kinds[6]>>
Slower == <<Kinds[2], Kinds[2], Kinds[2]>>
HungryScope == {<<"absolute", "memory">>}
FallenScope == HungryScope \cup {<<"regression", "memory">>}
UnknownScope == {<<"absolute", "failures">>, <<"absolute", "quality">>}
Pardons ==
    {None} \cup {Pardon(s, i, last) : s \in {HungryScope, FallenScope, UnknownScope},
                                      i \in 1 .. 2, last \in {3, 4}}
MCWaivedCandidates ==
    {Receipt(p, o, Honest(o), 2, w, 1, {Weights(1)}) :
        p \in {"selection", "regression"}, o \in {Fine, Hungry, Unknown, Slower}, w \in Pardons}
MCWaivedBaselines ==
    {Receipt("selection", o, Honest(o), 1, w, 1, {Weights(1)}) :
        o \in {Fine, Hungry}, w \in {None, Pardon(HungryScope, 1, 3)}}

Waiving == INSTANCE ReleaseGates WITH
    Evaluator <- {"p1"}, Policies <- MCTwoPolicies, Candidates <- MCWaivedCandidates,
    Baselines <- MCWaivedBaselines, Manifests <- {Locked}, Days <- {2, 4, 5}, Versions <- {1},
    FrozenOn <- 1, MaxDuration <- 2, Repetitions <- 3, MaxEditions <- 0

(* Receipts that are rewritten, and those of the amended policy, graded by *)
(* two evaluators with one output file.                                    *)
MCRewrittenCandidates ==
    {Receipt("selection", Fine, Honest(Fine), 2, None, 1, {Weights(1)}),
     Receipt("selection", Hungry, Honest(Hungry), 2, Pardon(HungryScope, 2, 4), 1, {Weights(1)}),
     Receipt("selection", Fine, Honest(Fine), 2, None, 2, {Runtime("pinned")}),
     Receipt("selection", Fine, Honest(Fine), 3, None, 2, {Runtime("none"), Weights(3)})}

Writing == INSTANCE ReleaseGates WITH
    Evaluator <- {"p1", "p2"}, Policies <- MCTwoPolicies, Candidates <- MCRewrittenCandidates,
    Baselines <- {}, Manifests <- {Locked, Leaked}, Days <- {1, 3}, Versions <- {1, 2, 3},
    FrozenOn <- 1, MaxDuration <- 2, Repetitions <- 3, MaxEditions <- 1

(* A frame six units wide.  The first two boxes overlap by one half, the   *)
(* second and the third by one fifth, the first and the third not at all.  *)
A == <<0, 3>>
B == <<1, 4>>
C == <<3, 6>>
Config(association, motion, threshold, maxMissed) ==
    [association |-> association, motion |-> motion, threshold |-> threshold, maxMissed |-> maxMissed]

(* The tracker alone: what the clip shows does not matter. *)
Tracker == INSTANCE GeometryTracker WITH
    Width <- 6, Boxes <- {A, B, C}, Objects <- {1}, Intervals <- {1}, MaxExamples <- 1,
    DetectionLists <- {<<>>, <<A>>, <<C>>, <<A, B>>, <<B, A>>, <<C, B>>, <<B, B>>},
    Clips <- {<< <<>>, <<>>, <<>> >>},
    Configurations <- {Config("global", "velocity", 1000, 1), Config("global", "last", 3000, 0),
                       Config("greedy", "velocity", 1000, 1), Config("greedy", "last", 3000, 2)}

(* Annotated clips: two objects that swap their places; one that is hidden *)
(* for a frame while another stays.                                        *)
Two(a, b) == [g \in {1, 2} |-> IF g = 1 THEN a ELSE b]
One(b) == [g \in {1} |-> b]
Scored == INSTANCE GeometryTracker WITH
    Width <- 6, Boxes <- {A, B, C}, Objects <- {1, 2}, Intervals <- {1}, MaxExamples <- 1,
    DetectionLists <- {<<>>, <<A>>, <<A, C>>, <<B, C>>},
    Clips <- {<<Two(A, C), Two(B, C), Two(C, B), Two(C, A)>>,
              <<Two(A, C), One(A), Two(A, C), Two(B, C)>>},
    Configurations <- {Config("global", "last", 3000, 1)}

(* Two families of two configurations.  In one calibration the best of a   *)
(* family does not pass its gates; in another a family has two that tie    *)
(* and the other has nothing that passes.                                  *)
Score(value, passes) == [value |-> value, passes |-> passes]
Grid(first, second, third, fourth) ==
    (<<1, 1>> :> first) @@ (<<1, 2>> :> second) @@ (<<2, 1>> :> third) @@ (<<2, 2>> :> fourth)

Experiment == INSTANCE TrackingExperiment WITH
    Families <- {1, 2}, Choices <- {1, 2}, Revisions <- {r1, r2}, Roots <- {d1, d2},
    MaxVersion <- 2, MaxRuns <- 3, EditsDuringRuns <- FALSE,
    Outcomes <- {
        Grid(Score(1, TRUE), Score(2, FALSE), Score(1, TRUE), Score(2, TRUE)),
        Grid(Score(1, FALSE), Score(1, FALSE), Score(1, TRUE), Score(1, TRUE))},
    TestOutcomes <- {
        <<Score(1, TRUE), Score(2, TRUE)>>, <<Score(1, TRUE), Score(2, FALSE)>>,
        <<Score(1, FALSE), Score(0, FALSE)>>}

(* Two processes that fetch, install, verify and use a runtime. *)
Provisioning == INSTANCE RuntimeProvisioning WITH
    Process <- {p1, p2}, Artifacts <- 1, MaxFaults <- 2,
    Commands <- {"fetch", "perception", "overlay", "useRuntime", "useOverlay"}

ASSUME Parameters ==
    /\ Grading!GateBounds /\ Waiving!GateBounds /\ Writing!GateBounds
    /\ Tracker!GeometryBounds /\ Scored!GeometryBounds /\ Experiment!ExperimentBounds
    /\ Provisioning!BoundsAssumption

Symmetry == Permutations({r1, r2}) \cup Permutations({d1, d2}) \cup Permutations({p1, p2})

-----------------------------------------------------------------------------
gateVars == <<policy, files, editions, pc, asked, seen, loaded, verdict, exit, output>>
trackerVars == <<clip, configuration, tracks, nextId, maximumActive, terminations, now, frames,
                 finished>>
experimentVars == <<code, data, outputs, installed, run, started, measured>>
provisioningVars == <<cache, diskCache, lock, staging, root, entered, proc, kept, faults>>
vars == <<part, gateVars, trackerVars, experimentVars, provisioningVars>>

NoGates ==
    /\ policy = Unused /\ files = Unused /\ editions = Unused /\ pc = Unused /\ asked = Unused
    /\ seen = Unused /\ loaded = Unused /\ verdict = Unused /\ exit = Unused /\ output = Unused
NoTracker ==
    /\ clip = Unused /\ configuration = Unused /\ tracks = Unused /\ nextId = Unused
    /\ maximumActive = Unused /\ terminations = Unused /\ now = Unused /\ frames = Unused
    /\ finished = Unused

Init ==
    /\ part \in {"grading", "waiving", "writing", "tracker", "scored", "experiment", "provisioning"}
    /\ CASE part = "grading" -> Grading!Init [] part = "waiving" -> Waiving!Init
         [] part = "writing" -> Writing!Init [] OTHER -> NoGates
    /\ CASE part = "tracker" -> Tracker!Init [] part = "scored" -> Scored!Init
         [] OTHER -> NoTracker
    /\ Experiment!Init
    /\ Provisioning!Init

Next ==
    /\ part' = part
    /\ CASE part = "grading" -> Grading!Next [] part = "waiving" -> Waiving!Next
         [] part = "writing" -> Writing!Next [] OTHER -> UNCHANGED gateVars
    /\ CASE part = "tracker" -> Tracker!Next [] part = "scored" -> Scored!Next
         [] OTHER -> UNCHANGED trackerVars
    /\ IF part = "experiment" THEN Experiment!Next ELSE UNCHANGED experimentVars
    /\ IF part = "provisioning" THEN Provisioning!Next ELSE UNCHANGED provisioningVars

Spec == Init /\ [][Next]_vars

-----------------------------------------------------------------------------
(* A verdict is earned by what the repetitions of the receipt on the disk  *)
(* measured: none passes with a flattering aggregate or a loss above the   *)
(* budget, none fails for a better repetition, a waiver covers exactly     *)
(* what is missed, and who reports a verdict has written it, whole         *)
(* (evaluate_v02_gates.py).                                                *)
VerdictsAreEarned ==
    /\ part = "grading" =>
          Grading!PassIsEarned /\ Grading!LossIsBounded /\ Grading!BetterStillPasses
    /\ part = "waiving" => Waiving!PassIsEarned /\ Waiving!ExcusesAreExact
    /\ part = "writing" => Writing!TypeOK /\ Writing!ReportedIsWritten /\ Writing!VerdictOfOneFile

(* Every detection has one track; a track is opened once, ends once, spans *)
(* no cut and no long absence; and the diagnostics count exactly the       *)
(* switches and fragmentations an annotator would see, with examples of    *)
(* each (tracking_metrics.py, run_v02_tracking_benchmark.py).              *)
TracksAndDiagnosticsAgree ==
    /\ part = "tracker" => /\ Tracker!TypeOK /\ Tracker!TracksAddUp
                           /\ Tracker!EveryDetectionIsTracked
                           /\ Tracker!CutsEndTracks /\ Tracker!ReturnsInTime
    /\ part = "scored" => Scored!DiagnosticsAreExact /\ Scored!ExamplesMatchTheCounts

(* A test measures what a calibration of the same code, data and revision  *)
(* chose, whatever files were copied or merged in between; raw results and *)
(* selections stand beside what they are made of; and no run replaces what *)
(* another wrote (run_v02_tracking_benchmark.py).                          *)
ExperimentIsSound ==
    /\ [](part = "experiment" => /\ Experiment!TypeOK /\ Experiment!TestedIsCalibrated /\ Experiment!RawResultsAreBackedUp
                                 /\ Experiment!SelectionFollowsResults)
    /\ Experiment!FilesAreNeverReplaced

(* Whatever fails, whoever dies and whenever the power goes out: the cache *)
(* and the roots hold only whole things, who fetched or published them and *)
(* was told "ok" has them for good (an overlay that was only found may be  *)
(* refused after a loss of power), and a worker runs only from what was    *)
(* verified and is still whole (provision_perception_runtime.py).          *)
OnlyWholeIsInstalled ==
    part = "provisioning" =>
        /\ Provisioning!TypeOK
        /\ Provisioning!CacheHoldsOnlyWhole /\ Provisioning!PublishedIsWhole
        /\ Provisioning!OkIsDurable /\ Provisioning!RunsOnlyVerified
================================================================================
