--------------------------- MODULE TrackingExperiment ---------------------------
(***************************************************************************)
(* The two phases of the tracking benchmark                                *)
(* (scripts/run_v02_tracking_benchmark.py): a calibration run measures a   *)
(* grid of configurations and writes its results and a selection; a        *)
(* maintainer installs the two files in the repository; a test run         *)
(* validates them and compares the one finalist of each family.  Code and  *)
(* data change between the steps and a run may stop at any of them.  A     *)
(* digest is the value it is the digest of.                                *)
(***************************************************************************)
EXTENDS Integers, Sequences, FiniteSets, TLC

CONSTANTS
    Families, Choices,  \* a configuration is <<family, choice>>; 1..n, the preferred choice first
    Revisions,          \* what may be given as --source-revision
    Roots,              \* output directories
    Outcomes,           \* of a calibration: configuration -> [value, passes]
    TestOutcomes,       \* of a test: family -> [value, passes]
    MaxVersion,         \* of the code and of the data
    MaxRuns,            \* commands started
    EditsDuringRuns     \* whether the code in the checkout may change under a run

ExperimentBounds ==
    /\ Families \subseteq Nat /\ IsFiniteSet(Families)
    /\ Choices \subseteq Nat /\ IsFiniteSet(Choices) /\ MaxVersion \in Nat \ {0}
    /\ MaxRuns \in Nat /\ EditsDuringRuns \in BOOLEAN

VARIABLES
    code, data,     \* the checkout: harness, metrics and helpers; candidates, annotations, policy
    outputs,        \* root -> file name -> [whole, value]
    installed,      \* "results" and "selection", as files of the repository; partial
    run,            \* the command that is running
    started,
    measured        \* what calibrations have really measured, and with what

vars == <<code, data, outputs, installed, run, started, measured>>

Idle == [at |-> "idle", phase |-> "none"]

Init ==
    /\ code = 1 /\ data = 1 /\ outputs = <<>> /\ installed = <<>>
    /\ run = Idle /\ started = 0 /\ measured = {}

Whole(value) == [whole |-> TRUE, value |-> value]
Torn(value) == [whole |-> FALSE, value |-> value]

-----------------------------------------------------------------------------
(* Selection. *)

Eligible(scores, f) == {c \in Choices : scores[<<f, c>>].passes}

(* Slip: the finalist is chosen before the gates are looked at. *)
BestOfAll(scores, f) ==
    CHOOSE c \in Choices : \A d \in Choices :
        \/ scores[<<f, c>>].value > scores[<<f, d>>].value
        \/ scores[<<f, c>>].value = scores[<<f, d>>].value /\ c <= d

(* _calibration_selection_key: the quality, then the fields of the configuration. *)
Best(scores, f) ==
    CHOOSE c \in Eligible(scores, f) : \A d \in Eligible(scores, f) :
        \/ scores[<<f, c>>].value > scores[<<f, d>>].value
        \/ scores[<<f, c>>].value = scores[<<f, d>>].value /\ c <= d

(* _test_selection_key among the finalists whose gate passed; none or one. *)
Recommended(score) ==
    LET passing == {f \in Families : score[f].passes}
    IN  {f \in passing : \A g \in passing :
            score[f].value > score[g].value \/ (score[f].value = score[g].value /\ f <= g)}

-----------------------------------------------------------------------------
(* A command. *)

Start(phase, revision, root) ==
    /\ run = Idle /\ started < MaxRuns
    /\ run' = [at |-> "prepare", phase |-> phase, revision |-> revision, root |-> root,
               loaded |-> code]             \* the modules are imported
    /\ started' = started + 1
    /\ UNCHANGED <<code, data, outputs, installed, measured>>

(* An error at any step, and a crash: the run is over and its files stay. *)
Stop ==
    /\ run # Idle /\ run' = Idle
    /\ UNCHANGED <<code, data, outputs, installed, started, measured>>

Step(at, next) == run.at = at /\ run' = next @@ run
Quiet == UNCHANGED <<code, data, outputs, installed, started, measured>>

(* The candidate manifest of a version of the data.  It locks annotations  *)
(* and dataset by their digests, so it changes with them; an edit of the   *)
(* policy leaves it as it is.                                              *)
Manifest(version) == (version + 1) \div 2

(* _prepare_context: the inputs are read once and their digests kept; one  *)
(* that is missing, not of its form or unlike its lock ends the run (Stop).*)
(* A test takes the digests of the code next.                              *)
Prepare ==
    /\ \/ run.phase = "calibration" /\ Step("prepare", [at |-> "measure", data |-> data])
       \/ /\ run.phase = "test"
          /\ Step("prepare", [at |-> "read_selection", data |-> data, digest |-> code])
    /\ Quiet

(* The warm-up, five repetitions of the detector, and every configuration. *)
MeasureCalibration(scores) ==
    /\ run.phase = "calibration"
    /\ Step("measure", [at |-> "select", scores |-> scores])
    /\ measured' = measured \cup {[code |-> run.loaded, data |-> run.data,
                                   revision |-> run.revision, scores |-> scores]}
    /\ UNCHANGED <<code, data, outputs, installed, started>>

(* The finalists, and only then the digests of the code. *)
Select ==
    /\ run.at = "select" /\ \A f \in Families : Eligible(run.scores, f) # {}
    /\ Step("select", [at |-> "directory", digest |-> code,
                       selected |-> [f \in Families |-> Best(run.scores, f)]])
    /\ Quiet

(* _create_private_directory: output_exists otherwise. *)
CreateDirectory ==
    /\ run.at = "directory" /\ run.root \notin DOMAIN outputs
    /\ Step("directory", [at |-> "write", written |-> 0])
    /\ outputs' = (run.root :> <<>>) @@ outputs
    /\ UNCHANGED <<code, data, installed, started, measured>>

ResultsOf(r) == [code |-> r.digest, data |-> r.data, revision |-> r.revision,
                 scores |-> r.scores, selected |-> r.selected]
SelectionOf(r) == [code |-> r.digest, manifest |-> Manifest(r.data), revision |-> r.revision,
                   results |-> ResultsOf(r), selected |-> r.selected]

(* A receipt and its gate per finalist, then the raw results. *)
TestFiles ==
    [k \in 1..(2 * Cardinality(Families)) |->
        <<IF k % 2 = 1 THEN "receipt" ELSE "gate", (k + 1) \div 2>>] \o <<<<"raw", 0>>>>

CalibrationFiles == <<<<"results", 0>>, <<"selection", 0>>>>

Files(phase) == IF phase = "calibration" THEN CalibrationFiles ELSE TestFiles

Content(r, name) ==
    CASE name[1] = "results" -> ResultsOf(r)
      [] name[1] = "selection" -> SelectionOf(r)
      [] name[1] = "receipt" -> [choice |-> r.selected[name[2]], score |-> r.score[name[2]]]
      [] name[1] = "gate" -> [passes |-> r.score[name[2]].passes]
      [] name[1] = "raw" -> [selected |-> r.selected, recommended |-> Recommended(r.score),
                             results |-> r.results, selection |-> r.selection]

(* _write_new of the next file; a run that ends here leaves it torn. *)
Write ==
    LET name == Files(run.phase)[run.written + 1]
        directory == outputs[run.root]
        file == Content(run, name)
    IN  /\ run.at = "write" /\ name \notin DOMAIN directory
        /\ UNCHANGED <<code, data, installed, started, measured>>
        /\ \/ /\ outputs' = [outputs EXCEPT ![run.root] = (name :> Whole(file)) @@ @]
              /\ run' = IF run.written + 1 = Len(Files(run.phase)) THEN Idle
                        ELSE [run EXCEPT !.written = @ + 1]
           \/ /\ outputs' = [outputs EXCEPT ![run.root] = (name :> Torn(file)) @@ @]
              /\ run' = Idle

-----------------------------------------------------------------------------
(* The barrier in front of the test. *)

ReadSelection ==
    /\ run.phase = "test" /\ "selection" \in DOMAIN installed /\ installed["selection"].whole
    /\ Step("read_selection", [at |-> "read_results", selection |-> installed["selection"].value])
    /\ Quiet

ReadResults ==
    /\ "results" \in DOMAIN installed /\ installed["results"].whole
    /\ Step("read_results", [at |-> "validate", results |-> installed["results"].value])
    /\ Quiet

(* _validate_calibration_results: the same provenance, and the winners are *)
(* worked out again from the measurements.                                 *)
ResultsAreValid(r) ==
    /\ r.results.code = r.digest /\ r.results.data = r.data /\ r.results.revision = r.revision
    /\ \A f \in Families :
           /\ Eligible(r.results.scores, f) # {}
           /\ r.results.selected[f] = Best(r.results.scores, f)

(* _validate_selection: of the data it knows the candidate manifest alone. *)
SelectionIsValid(r) ==
    /\ r.selection.code = r.digest /\ r.selection.manifest = Manifest(r.data)
    /\ r.selection.revision = r.revision
    /\ r.selection.results = r.results
    /\ r.selection.selected = r.results.selected

Validate ==
    /\ run.at = "validate" /\ ResultsAreValid(run) /\ SelectionIsValid(run)
    /\ Step("validate", [at |-> "measure", selected |-> run.results.selected])
    /\ Quiet

MeasureTest(score) ==
    /\ run.phase = "test"
    /\ Step("measure", [at |-> "directory", score |-> score])
    /\ Quiet

-----------------------------------------------------------------------------
(* Outside the commands. *)

(* A maintainer copies one of the two files of a calibration. *)
Install(which, root) ==
    /\ root \in DOMAIN outputs /\ <<which, 0>> \in DOMAIN outputs[root]
    /\ installed' = (which :> outputs[root][<<which, 0>>]) @@ installed
    /\ UNCHANGED <<code, data, outputs, run, started, measured>>

(* Two results are merged: the measurements of one, the winners of another. *)
Merge(root) ==
    /\ root \in DOMAIN outputs /\ <<"results", 0>> \in DOMAIN outputs[root]
    /\ "results" \in DOMAIN installed
    /\ installed' = [installed EXCEPT !["results"].value.selected =
                        outputs[root][<<"results", 0>>].value.selected]
    /\ UNCHANGED <<code, data, outputs, run, started, measured>>

EditCode ==
    /\ code < MaxVersion /\ (run = Idle \/ EditsDuringRuns)
    /\ code' = code + 1
    /\ UNCHANGED <<data, outputs, installed, run, started, measured>>

EditData ==
    /\ data < MaxVersion
    /\ data' = data + 1
    /\ UNCHANGED <<code, outputs, installed, run, started, measured>>

Next ==
    \/ \E phase \in {"calibration", "test"}, revision \in Revisions, root \in Roots :
           Start(phase, revision, root)
    \/ Stop \/ Prepare
    \/ \E scores \in Outcomes : MeasureCalibration(scores)
    \/ Select
    \/ CreateDirectory
    \/ Write
    \/ ReadSelection \/ ReadResults \/ Validate
    \/ \E score \in TestOutcomes : MeasureTest(score)
    \/ \E which \in {"results", "selection"}, root \in Roots : Install(which, root)
    \/ \E root \in Roots : Merge(root)
    \/ EditCode \/ EditData

Spec == Init /\ [][Next]_vars

-----------------------------------------------------------------------------
(* The state holds what a run, a directory and the repository may hold. *)
TypeOK ==
    /\ code \in 1..MaxVersion /\ data \in 1..MaxVersion /\ started \in 0..MaxRuns
    /\ DOMAIN outputs \subseteq Roots /\ DOMAIN installed \subseteq {"results", "selection"}
    /\ \A root \in DOMAIN outputs : DOMAIN outputs[root] \subseteq
           {Files(p)[k] : p \in {"calibration"}, k \in 1..2}
           \cup {TestFiles[k] : k \in DOMAIN TestFiles}
    /\ run.at = "write" => run.root \in DOMAIN outputs /\ run.written < Len(Files(run.phase))

(* A test measures what a calibration of the same code, data and revision  *)
(* found to be the best passing configuration of its family: files of two  *)
(* calibrations, a merged file, a file cut short or a calibration that was *)
(* overtaken by a change of code or data get no further than the barrier.  *)
TestedIsCalibrated ==
    (run.phase = "test" /\ run.at \in {"measure", "directory", "write"}) =>
        \E m \in measured :
            /\ m.code = run.loaded /\ m.data = run.data /\ m.revision = run.revision
            /\ \A f \in Families :
                   /\ m.scores[<<f, run.selected[f]>>].passes
                   /\ \A c \in Choices : m.scores[<<f, c>>].passes =>
                          m.scores[<<f, c>>].value <= m.scores[<<f, run.selected[f]>>].value

(* Raw results that are there name receipts and gates that are there, and  *)
(* recommend a finalist exactly when one passed, the best of those.        *)
RawResultsAreBackedUp ==
    \A root \in DOMAIN outputs : <<"raw", 0>> \in DOMAIN outputs[root] =>
        LET files == outputs[root]
            recommended == files[<<"raw", 0>>].value.recommended
            Passed(f) == files[<<"gate", f>>].value.passes
            Value(f) == files[<<"receipt", f>>].value.score.value
        IN  /\ \A f \in Families : \A kind \in {"receipt", "gate"} :
                   <<kind, f>> \in DOMAIN files /\ files[<<kind, f>>].whole
            /\ Cardinality(recommended) = IF \E f \in Families : Passed(f) THEN 1 ELSE 0
            /\ \A f \in recommended : Passed(f) /\ \A g \in Families : Passed(g) => Value(g) <= Value(f)

(* A selection that is there, whole or not, stands beside the results that *)
(* it carries the digest of.                                               *)
SelectionFollowsResults ==
    \A root \in DOMAIN outputs : <<"selection", 0>> \in DOMAIN outputs[root] =>
        /\ <<"results", 0>> \in DOMAIN outputs[root]
        /\ outputs[root][<<"results", 0>>] = Whole(outputs[root][<<"selection", 0>>].value.results)

(* No run changes or removes a file that another run wrote. *)
FilesAreNeverReplaced ==
    [][\A root \in DOMAIN outputs : \A name \in DOMAIN outputs[root] :
          /\ root \in DOMAIN outputs' /\ name \in DOMAIN outputs'[root]
          /\ outputs'[root][name] = outputs[root][name]]_vars
===============================================================================
