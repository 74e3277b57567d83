----------------------------- MODULE ReaderCommands -----------------------------
(***************************************************************************)
(* The reading commands (cli.py, perception_cli.py) beside the writers.  A *)
(* command takes several read transactions, and the file of an artifact    *)
(* comes from the other store; between two of them the coordinators        *)
(* publish, clean up and delete.  A walk is a user who follows the cursors *)
(* that inspect returns.                                                   *)
(***************************************************************************)
EXTENDS WorldReads, SequencesExt

CONSTANTS
    PageItems,      \* MAX_PORT_BATCH_ITEMS
    PerceivingRun,  \* the runs of the perception coordinator
    MaxPublished    \* bound: publications of all runs

CommandBounds == PageItems \in Nat \ {0} /\ MaxPublished \in Nat

VARIABLES
    files,      \* artifacts the evidence store holds
    published,  \* counts publications, for the bound
    working,    \* the runs whose coordinator holds the writer lock, at most one
    pc,         \* next step of the reader
    asked,      \* the command with its arguments
    shown,      \* pages read so far, per list
    outcome,    \* how the last command ended
    answered,   \* the command has found what it was asked for
    gone        \* since then a deletion of it has begun

writerVars == <<worldVars, perceptionVars, files, published, working>>
readerVars == <<pc, asked, shown, outcome, answered, gone>>
vars == <<writerVars, readerVars>>

NoCommand == [cmd |-> "none", run |-> "none", item |-> "none", limit |-> 0, after |-> 0]
Nothing == [frames |-> <<>>, evidence |-> <<>>, items |-> <<>>]

Init ==
    /\ WorldInit /\ PerceptionInit
    /\ files = {} /\ published = 0 /\ working = {}
    /\ pc = "idle" /\ asked = NoCommand /\ shown = Nothing
    /\ outcome = "none" /\ answered = FALSE /\ gone = FALSE

-----------------------------------------------------------------------------
(* The coordinators, one transaction or file call at a time, in their order. *)

Observed(r) ==
    IF r \in PerceivingRun
    THEN {o \in Observation : ObservationFrame[o] \in RunFrames(r)} ELSE {}
Tracked(r) == {t \in Tracklet : TrackletPoints[t] \subseteq Observed(r)}
PointRank(t, o) == Cardinality({p \in TrackletPoints[t] : Order[p] <= Order[o]})
Chosen(r) ==
    {[tracklet |-> t, rank |-> PointRank(t, o), observation |-> o] :
        t \in Tracked(r), o \in UNION {TrackletPoints[u] : u \in Tracked(r)}}
Selects(r) == {i \in Chosen(r) : i.observation \in TrackletPoints[i.tracklet]}
Handles(r) ==
    LET name == CHOOSE g \in [RunDigests(r) -> StageName] : IsInjective(g)
    IN  {[run |-> r, digest |-> x, name |-> name[x]] : x \in RunDigests(r)}

(* A coordinator recovers before it begins. *)
Begin(r) ==
    /\ working = {} /\ ActionablePerceptionRuns = {} /\ ActiveJobs = {}
    /\ runState[r] \in {"absent", "failed"}
    /\ Commit({RunSource[r]}, {r}, "preparing", {}, {})
    /\ working' = {r}
    /\ UNCHANGED <<perceptionVars, files, published>>

(* It fails or dies; the kernel drops the lock. *)
Stop(r) ==
    /\ r \in working /\ working' = {}
    /\ UNCHANGED <<worldVars, perceptionVars, files, published>>

Intend(r) ==
    /\ r \in working
    /\ OwnedBy(r) = {} /\ IntentsOf({r}) = {}
    /\ RecordArtifactIntents(r, Handles(r))
    /\ UNCHANGED <<perceptionVars, files, published, working>>

Promote(r) ==
    /\ r \in working
    /\ runState[r] = "preparing" /\ IntentsOf({r}) = Handles(r)
    /\ ~(RunDigests(r) \subseteq files)
    /\ files' = files \cup RunDigests(r)
    /\ UNCHANGED <<worldVars, perceptionVars, published, working>>

Store(r) ==
    /\ r \in working
    /\ IntentsOf({r}) = Handles(r) /\ RunDigests(r) \subseteq files /\ OwnedBy(r) = {}
    /\ CommitForRun(r, RunFrames(r), RunEvidence[r])
    /\ UNCHANGED <<perceptionVars, files, published, working>>

Perceive(r) ==
    /\ r \in working
    /\ OwnedBy(r) # {} /\ PerceptionOf(r) = {}
    /\ CommitPerceptionForRun(r, Observed(r), Tracked(r), Selects(r))
    /\ UNCHANGED <<files, published, working>>

Link(r) ==
    /\ r \in working
    /\ \E s \in SelectionsOf(r), e \in RunEvidence[r] :
          s.evidence = NoEvidence /\ LinkSelectedEvidence(s, e, files)
    /\ UNCHANGED <<files, published, working>>

Publish(r) ==
    /\ r \in working
    /\ runState[r] = "preparing"
    /\ OwnedBy(r) = RunFrames(r) \cup RunEvidence[r]
    /\ PerceptionOf(r) = Observed(r) \cup Tracked(r)
    /\ published < MaxPublished
    /\ FinalizePerceptionRun(r, {}, {}, files)
    /\ published' = published + 1
    /\ working' = {}
    /\ UNCHANGED files

(* A cleanup removes the files first. *)
CleanFiles(r) ==
    /\ working = {}
    /\ CanPlanCleanup(r) /\ CleanupArtifacts(r) \cap files # {}
    /\ files' = files \ CleanupArtifacts(r)
    /\ UNCHANGED <<worldVars, perceptionVars, published, working>>

CleanRows(r) ==
    /\ working = {}
    /\ CleanupArtifacts(r) \cap files = {}
    /\ r \in ActionablePerceptionRuns
    /\ FinishPerceptionCleanup(r)
    /\ UNCHANGED <<files, published, working>>

StartDeletion(s, d) ==
    /\ working = {}
    /\ BeginPerceptionDeletion(s, d)
    /\ UNCHANGED <<files, published, working>>

DeleteFiles(d) ==
    /\ working = {}
    /\ PlanLoads(d) /\ required[d] \cap files # {}
    /\ files' = files \ required[d]
    /\ UNCHANGED <<worldVars, perceptionVars, published, working>>

Purge(d) == working = {} /\ PurgePerception(d, files) /\ UNCHANGED <<files, published, working>>

(* A completed job stays; the bound on jobs is the set of identifiers. *)
Complete(d) ==
    /\ working = {} /\ CompleteDeletion(d)
    /\ UNCHANGED <<perceptionVars, files, published, working>>

Write ==
    \/ \E r \in Run :
          \/ Begin(r) \/ Intend(r) \/ Promote(r) \/ Store(r) \/ Perceive(r)
          \/ Link(r) \/ Publish(r) \/ Stop(r) \/ CleanFiles(r) \/ CleanRows(r)
    \/ \E s \in Source, d \in DeletionId : StartDeletion(s, d)
    \/ \E d \in DeletionId : DeleteFiles(d) \/ Purge(d) \/ Complete(d)

(* What a command was asked for goes when its source starts to be deleted. *)
Written ==
    /\ Write
    /\ gone' = (gone \/ (answered /\ \E s \in Source : s \notin Hidden /\ s \in Hidden'))
    /\ UNCHANGED <<pc, asked, shown, outcome, answered>>

-----------------------------------------------------------------------------
(* The reader. *)

End(code) ==
    /\ outcome' = code /\ pc' = "idle"
    /\ UNCHANGED <<asked, shown, answered, gone>>

(* The read answered a; go on to step, with what it showed. *)
Goes(step, pages) ==
    /\ pc' = step /\ shown' = pages /\ answered' = TRUE
    /\ UNCHANGED <<asked, outcome, gone>>

Ask(step, command) ==
    /\ pc = "idle"
    /\ pc' = step /\ asked' = command /\ shown' = Nothing
    /\ outcome' = "none" /\ answered' = FALSE /\ gone' = FALSE

Command(c, r, x, n) == [cmd |-> c, run |-> r, item |-> x, limit |-> n, after |-> 0]

Start ==
    \/ \E r \in Run : Ask("get run", Command("list", r, "none", PageItems))
    \/ \E e \in Evidence : Ask("get evidence", Command("show", "none", e, 0))
    \/ \E r \in Run, n \in 1..PageItems :
          \/ \E kind \in {"observations", "tracklets"} : Ask("page", Command(kind, r, "none", n))
          \/ \E t \in Tracklet : Ask("page", Command("evidence", r, t, n))
    \/ \E r \in Run, t \in Tracklet, k \in 1..MaxRank :
          Ask("select", [Command("export", r, t, 1) EXCEPT !.after = k - 1])

(* _run_list_samples *)
GetRun ==
    /\ pc = "get run"
    /\ LET a == Get(asked.run)
       IN  IF a.code # "ok" \/ runState[asked.run] # "committed"
           THEN End("not_found") ELSE Goes("frames", shown)

ListFramesStep ==
    /\ pc = "frames"
    /\ LET a == ListRunFrames(asked.run, 0, PageItems)
       IN  IF a.code # "ok" THEN End(a.code)
           ELSE Goes("evidence", [shown EXCEPT !.frames = a.items])

ListEvidenceStep ==
    /\ pc = "evidence"
    /\ LET a == ListRunEvidence(asked.run, 0, PageItems)
       IN  IF a.code # "ok" THEN End(a.code)
           ELSE Goes("more frames", [shown EXCEPT !.evidence = a.items])

(* _complete_page asks for one more item only after a full page. *)
PageOverflows(items, following) == Len(items) = PageItems /\ following.items # <<>>
Probes(items) == Len(items) = PageItems

LastOrder(items) == Order[Last(items)]

MoreFrames ==
    /\ pc = "more frames"
    /\ IF ~Probes(shown.frames) THEN Goes("more evidence", shown)
       ELSE LET a == ListRunFrames(asked.run, LastOrder(shown.frames), 1)
            IN  IF a.code # "ok" THEN End(a.code)
                ELSE IF PageOverflows(shown.frames, a) THEN End("limit_exceeded")
                ELSE Goes("more evidence", shown)

MoreEvidence ==
    /\ pc = "more evidence"
    /\ IF ~Probes(shown.evidence) THEN Goes("join", shown)
       ELSE LET a == ListRunEvidence(asked.run, LastOrder(shown.evidence), 1)
            IN  IF a.code # "ok" THEN End(a.code)
                ELSE IF PageOverflows(shown.evidence, a) THEN End("limit_exceeded")
                ELSE Goes("join", shown)

Join ==
    /\ pc = "join"
    /\ IF \/ Len(shown.frames) # Cardinality(RunFrames(asked.run))
          \/ \E e \in Range(shown.evidence) : EvidenceFrame[e] \notin Range(shown.frames)
       THEN End("corrupt") ELSE End("ok")

(* _run_show_evidence, and the second half of _run_export_evidence *)
GetEvidence ==
    /\ pc = "get evidence"
    /\ LET a == Get(asked.item)
       IN  IF a.code # "ok" THEN End(a.code)
           ELSE Goes("file", [shown EXCEPT !.items = <<asked.item>>])

ReadFile ==
    /\ pc = "file"
    /\ End(IF EvidenceDigest[shown.items[1]] \in files THEN "ok" ELSE "not_found")

(* _run_export_evidence *)
Select ==
    /\ pc = "select"
    /\ LET a == ListSelectedEvidence(asked.run, asked.item, asked.after, 1)
       IN  IF a.code # "ok" THEN End(a.code)
           ELSE IF \/ a.items = <<>>
                   \/ a.items[1].rank # asked.after + 1
                   \/ a.items[1].evidence = NoEvidence
           THEN End("not_found")
           ELSE Goes("get selected", [shown EXCEPT !.items = <<a.items[1].evidence>>])

GetSelected ==
    /\ pc = "get selected"
    /\ LET a == Get(shown.items[1])
       IN  IF a.code # "ok" THEN End(a.code) ELSE Goes("file", shown)

(* _run_inspect: one page of the kind asked for. *)
InspectPage(after, n) ==
    CASE asked.cmd = "observations" -> ListRunObservations(asked.run, after, n)
      [] asked.cmd = "tracklets" -> ListRunTracklets(asked.run, after, n)
      [] OTHER -> ListSelectedEvidence(asked.run, asked.item, after, n)

(* Slip: the page after the probe starts behind the item the probe saw. *)
CursorOfProbe(item) == (IF asked.cmd = "evidence" THEN item.rank ELSE Order[item]) + 1

Cursor(item) == IF asked.cmd = "evidence" THEN item.rank ELSE Order[item]

ReadPage ==
    /\ pc = "page"
    /\ LET a == InspectPage(asked.after, asked.limit)
       IN  IF a.code # "ok" THEN End(a.code)
           ELSE Goes(IF Len(a.items) = asked.limit THEN "probe" ELSE "end of walk",
                     [shown EXCEPT !.items = @ \o a.items])

(* A full page is followed by a probe; what it finds gives the next cursor. *)
ProbePage ==
    /\ pc = "probe"
    /\ LET cursor == Cursor(shown.items[Len(shown.items)])
           a == InspectPage(cursor, 1)
       IN  IF a.code # "ok" THEN End(a.code)
           ELSE IF a.items = <<>> THEN Goes("end of walk", shown)
           ELSE /\ pc' = "page"
                /\ asked' = [asked EXCEPT !.after = cursor]
                /\ UNCHANGED <<shown, outcome, answered, gone>>

EndWalk == pc = "end of walk" /\ End("ok")

Read ==
    /\ \/ Start \/ GetRun \/ ListFramesStep \/ ListEvidenceStep \/ MoreFrames
       \/ MoreEvidence \/ Join \/ GetEvidence \/ ReadFile \/ Select \/ GetSelected
       \/ ReadPage \/ ProbePage \/ EndWalk
    /\ UNCHANGED writerVars

Next == Written \/ Read

Spec == Init /\ [][Next]_vars

-----------------------------------------------------------------------------
Sorted(S) == SetToSortSeq(S, LAMBDA x, y : Order[x] < Order[y])

TypeOK ==
    /\ WorldTypeOK /\ PerceptionTypeOK
    /\ files \subseteq Digest /\ published \in 0..MaxPublished
    /\ outcome \in {"none", "ok", "not_found", "corrupt", "limit_exceeded"}
    /\ answered \in BOOLEAN /\ gone \in BOOLEAN

(* list-samples shows the whole run or fails, though its frames, its evidence
   and its record come from different transactions. *)
ListingIsPublished ==
    outcome = "ok" /\ asked.cmd = "list" =>
        /\ shown.frames = Sorted(RunFrames(asked.run))
        /\ shown.evidence = Sorted(RunEvidence[asked.run])

(* A user who follows the cursors of inspect to the end has seen every item of
   the run once and in order, whatever limit each page had and whatever was
   published or deleted between two pages. *)
WalkIsWhole ==
    outcome = "ok" =>
        /\ asked.cmd = "observations" => shown.items = Sorted(Observed(asked.run))
        /\ asked.cmd = "tracklets" => shown.items = Sorted(Tracked(asked.run))
        /\ asked.cmd = "evidence" =>
              /\ Len(shown.items) = Cardinality(TrackletPoints[asked.item])
              /\ \A i \in DOMAIN shown.items : shown.items[i].rank = i

(* No command takes a store that is being written for a corrupt one. *)
NoFalseCorrupt == outcome # "corrupt"

(* A command that found what it was asked for and then misses a part of it --
   the artifact of a record it holds, the rest of a run -- misses it because
   the deletion of the source has begun in between, never by a cleanup or a
   publication. *)
MissingMeansDeleted == outcome = "not_found" /\ answered => gone
=================================================================================
