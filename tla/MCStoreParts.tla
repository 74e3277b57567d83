------------------------------ MODULE MCStoreParts -----------------------------
(***************************************************************************)
(* A store on small instances: its files one system call at a time, its    *)
(* writer lock, its inventory when it is damaged, and the commands that    *)
(* read it.  They share no state: "part" says which of them a behaviour is *)
(* about, the variables of the others stay where they start.               *)
(***************************************************************************)
EXTENDS Naturals, Sequences, TLC

CONSTANTS None, NoInode

VARIABLES
    part,
    runDirs, shards, entries, data, diskRunDirs, diskShards, diskEntries, diskData, filesOp,
    promised,
    call, locks, retainedLocks, poisoned, session, leaked, used,
    cas, stagedFiles, dirs, foreign, world, stagedIntents, deletion, repairOp, damage,
    sources, frames, evidence, catalog, runState, runRecords, intents, jobState, jobRoot,
    closure, required, retained, observations, tracklets, perceivedBy, selected,
    perceptionClosure, files, published, working, pc, asked, shown, outcome, answered, gone

-----------------------------------------------------------------------------
(* Two files of the same bytes.  The power may fail at every call, while   *)
(* one is staged and the other in the store; or only calls and processes   *)
(* do, while both are staged.                                              *)
Powered == INSTANCE EvidenceFiles WITH
    Run <- {"r1"}, StageName <- {"n1"}, Digest <- {"x"}, Inode <- {1, 2},
    PowerMayFail <- TRUE, op <- filesOp
Called == INSTANCE EvidenceFiles WITH
    Run <- {"r1"}, StageName <- {"n1", "n2"}, Digest <- {"x"}, Inode <- {1, 2},
    PowerMayFail <- FALSE, op <- filesOp

(* Two threads of one process and one of another. *)
Lock == INSTANCE StoreLock WITH
    Thread <- {"t1", "t2", "t3"}, Store <- {"a", "b"},
    StoreOf <- [t1 |-> "a", t2 |-> "a", t3 |-> "b"], retained <- retainedLocks

(* Two runs that share an artifact; kinds and places are mixed, as a hash  *)
(* mixes them, and every entry is on a page of its own.                    *)
Mixed(item) ==
    LET kind_ == CASE item.kind = "corrupt" -> 0 [] item.kind = "staged" -> 1
                   [] item.kind = "artifact" -> 2 [] item.kind = "invalid" -> 3
                   [] item.kind = "incomplete" -> 4 [] OTHER -> 5
        place == (CASE item.in = "cas" -> 3 [] item.in = "staging" -> 2
                    [] item.in = "r1" -> 1 [] OTHER -> 0) * 3
                 + (CASE item.digest = "x" -> 0 [] item.digest = "y" -> 1 [] OTHER -> 2)
    IN  kind_ + 6 * ((place * 5) % 12)
Damaged == INSTANCE Inventory WITH
    Run <- {"r1", "r2"}, Digest <- {"x"}, Wants <- [r1 |-> {"x"}, r2 |-> {"x"}],
    Rank <- Mixed, PageSize <- 1, MaxEntries <- 6, MaxDamage <- 2,
    files <- stagedFiles, intents <- stagedIntents, op <- repairOp

(* One source with two runs: one perceives two observations and joins them *)
(* to a tracklet with two selected views; the other only takes samples and *)
(* shares frames and crops with it, and fills more than a page of each.    *)
Commands == INSTANCE ReaderCommands WITH
    Source <- {"s1"}, Frame <- {"f1", "f2", "f3"}, Evidence <- {"e1", "e2", "e3"},
    Run <- {"r1", "r2"}, Digest <- {"x", "y"}, StageName <- {"n1", "n2"},
    DeletionId <- {"d1"}, NoSource <- None, NoEvidence <- None,
    FrameSource <- [f1 |-> "s1", f2 |-> "s1", f3 |-> "s1"],
    EvidenceFrame <- [e1 |-> "f1", e2 |-> "f2", e3 |-> "f2"],
    EvidenceDigest <- [e1 |-> "x", e2 |-> "y", e3 |-> "y"],
    RunSource <- [r1 |-> "s1", r2 |-> "s1"],
    RunSamples <- [r1 |-> {"f1", "f2"}, r2 |-> {"f1", "f2", "f3"}],
    RunEvidence <- [r1 |-> {"e1", "e2"}, r2 |-> {"e1", "e2", "e3"}],
    Observation <- {"o1", "o2"}, Tracklet <- {"t1"},
    ObservationFrame <- [o1 |-> "f1", o2 |-> "f2"], TrackletPoints <- [t1 |-> {"o1", "o2"}],
    Depicts <- {<<"e1", "o1">>, <<"e2", "o2">>}, MaxRank <- 2,
    Order <- [f1 |-> 1, f2 |-> 2, f3 |-> 3, e1 |-> 2, e2 |-> 1, e3 |-> 3,
              o1 |-> 1, o2 |-> 2, t1 |-> 1],
    PageItems <- 2, PerceivingRun <- {"r1"}, MaxPublished <- 2

ASSUME Parameters ==
    /\ Powered!StoreIsNoRun /\ Called!StoreIsNoRun
    /\ Lock!StoreOfAssumption /\ Damaged!PageIsPositive /\ Commands!CommandBounds

-----------------------------------------------------------------------------
filesVars == <<runDirs, shards, entries, data, diskRunDirs, diskShards, diskEntries, diskData,
               filesOp, promised>>
lockVars == <<call, locks, retainedLocks, poisoned, session, leaked, used>>
damageVars == <<cas, stagedFiles, dirs, foreign, world, stagedIntents, deletion, repairOp, damage>>
commandVars ==
    <<sources, frames, evidence, catalog, runState, runRecords, intents, jobState, jobRoot,
      closure, required, retained, observations, tracklets, perceivedBy, selected,
      perceptionClosure, files, published, working, pc, asked, shown, outcome, answered, gone>>
vars == <<part, filesVars, lockVars, damageVars, commandVars>>

Init ==
    /\ part \in {"power", "calls", "lock", "damage", "commands"}
    /\ Powered!Init /\ Lock!Init /\ Damaged!Init /\ Commands!Init

Next ==
    /\ part' = part
    /\ CASE part = "power" -> Powered!Next
         [] part = "calls" -> Called!Next
         [] OTHER -> UNCHANGED filesVars
    /\ IF part = "lock" THEN Lock!Next ELSE UNCHANGED lockVars
    /\ IF part = "damage" THEN Damaged!Next ELSE UNCHANGED damageVars
    /\ IF part = "commands" THEN Commands!Next ELSE UNCHANGED commandVars

Spec == Init /\ [][Next]_vars

-----------------------------------------------------------------------------
(* Whatever call fails, whichever process dies and whenever the power goes *)
(* out: the store holds only whole files, what was committed or staged is  *)
(* found again, what was deleted or discarded is not, and nothing is left  *)
(* that recovery takes for corrupt (LocalEvidenceStore).                   *)
FilesSurvive ==
    part = "power" =>
        /\ Powered!TypeOK /\ Powered!CasHoldsWholeFiles /\ Powered!CommittedIsOnDisk /\ Powered!KeptIsOnDisk
        /\ Powered!DeletedStaysDeleted /\ Powered!DiscardedStaysDiscarded /\ Powered!NeverCorrupt

(* Call by call, the store does what EvidenceStore says at once.           *)
ImplementsStore ==
    /\ Called!Store!StoreInit
    /\ [][part = "calls" => [Called!Store!StoreNext]_(Called!Store!storeVars)]_filesVars

(* Nobody works on files that another thread writes, whatever became of    *)
(* earlier locks and sessions; and who was told "ok" holds no lock.        *)
LockIsExclusive == part = "lock" => Lock!LockIsExclusive

(* Damage is reported by every recovery and repair that returns, is never  *)
(* removed or replaced by the program, and keeps a deletion from leaving   *)
(* anything or from taking what another source refers to.                  *)
DamageIsHandled ==
    /\ [](part = "damage" => Damaged!TypeOK /\ Damaged!DamageIsReported)
    /\ Damaged!PurgedLeavesNothing /\ Damaged!ReferencedStay /\ Damaged!DamageIsKept

(* A command that takes several transactions shows what was published, as  *)
(* a whole, once and in order; it reports no store corrupt that is being   *)
(* written, and misses only what a deletion has begun to take.             *)
ReadersAreConsistent ==
    part = "commands" =>
        /\ Commands!TypeOK
        /\ Commands!ListingIsPublished /\ Commands!WalkIsWhole
        /\ Commands!NoFalseCorrupt /\ Commands!MissingMeansDeleted
================================================================================
