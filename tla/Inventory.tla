------------------------------ MODULE Inventory ------------------------------
(* Recovery, repair and deletion over a store that has been damaged: files     *)
(* whose bytes have rotted, entries that nobody of the program created.  The   *)
(* inventory is read page by page, and what it lists may be damaged before it  *)
(* is removed.  What Coordinator does step by step without damage (ingesting   *)
(* a run, dying in the middle of it) is one action here.                       *)
(*                                                                             *)
(* Each run has a source of its own, and stages an artifact under one name.    *)
EXTENDS Naturals, SequencesExt

CONSTANTS Run, Digest,
          Wants,          \* Run -> the artifacts of its evidence
          Rank(_),        \* the order of the tokens
          PageSize,       \* MAX_PORT_BATCH_ITEMS
          MaxEntries,     \* max_inventory_entries
          MaxDamage       \* how often something is damaged

PageIsPositive == PageSize \in Nat \ {0}

VARIABLES
  cas,        \* Digest -> "none", "valid" or "corrupt"
  files,      \* Run -> Digest -> "none", "incomplete", "staged" or "corrupt"
  dirs,       \* the runs with a directory in staging
  foreign,    \* which of the two trees hold an entry that has no business there
  world,      \* Run -> its state
  intents,    \* Run -> the artifacts it recorded intents of
  deletion,   \* the deletion job
  op,         \* the operation that holds the lock
  damage      \* how much damage has been done
files_ == <<cas, files, dirs, foreign>>
meta == <<world, intents, deletion>>
vars == <<files_, meta, op, damage>>

NoDeletion == [state |-> "none", run |-> CHOOSE r \in Run : TRUE, required |-> {}]

\* What artifact_references says of the runs that are published or being deleted.
References == UNION {Wants[r] : r \in {q \in Run : world[q] = "committed"}}

---------------------------------------------------------------------------
(* The entries of an inventory.  The token of an entry is a hash of its kind   *)
(* and its place, so an entry that changes its kind changes its position.      *)

Item(kind, in, x) == [kind |-> kind, in |-> in, digest |-> x]
NoFile == "no file"

StagingItems ==
  {Item(files[f[1]][f[2]], f[1], f[2]) :
     f \in {g \in Run \X Digest : files[g[1]][g[2]] # "none"}}
  \cup {Item("empty", r, NoFile) : r \in {q \in dirs : \A x \in Digest : files[q][x] = "none"}}
  \cup {Item("invalid", "staging", NoFile) : t \in foreign \cap {"staging"}}

CasItems ==
  {Item(IF cas[x] = "valid" THEN "artifact" ELSE "corrupt", "cas", x) :
     x \in {y \in Digest : cas[y] # "none"}}
  \cup {Item("invalid", "cas", NoFile) : t \in foreign \cap {"cas"}}

Damaged(items) == {i \in items : i.kind \in {"corrupt", "invalid"}}

\* What the scan counts: directories too, two of them for each artifact.
Cost(walk) ==
  Cardinality(dirs) + Cardinality(foreign \cap {"staging"})
  + Cardinality({f \in Run \X Digest : files[f[1]][f[2]] # "none"})
  + (IF walk = "all"
     THEN 3 * Cardinality({x \in Digest : cas[x] # "none"}) + Cardinality(foreign \cap {"cas"})
     ELSE 0)

Items(walk) == StagingItems \cup (IF walk = "all" THEN CasItems ELSE {})

Sorted(items) == SetToSortSeq(items, LAMBDA i, j : Rank(i) < Rank(j))

\* The entries behind a token, in their order.
Behind(items, after) ==
  IF after = {} THEN Sorted(items)
  ELSE Sorted({i \in items : \E a \in after : Rank(i) > Rank(a)})

---------------------------------------------------------------------------
(* Operations.  Each holds the lock from one "at" to the next "free".          *)

Idle == [call |-> "none", at |-> "free", list |-> <<>>, after |-> {}, todo |-> {},
         run |-> NoDeletion.run, known |-> {}, issues |-> 0]

At(step) == op.at = step
Goto(step) == op' = [op EXCEPT !.at = step]

\* An operation that raises leaves everything it has done so far.
Raise == op' = Idle
\* It returns, with what it reports.
Return == op' = Idle

StartWalk(o, step) ==
  [o EXCEPT !.at = step, !.list = <<>>, !.after = {},
            !.known = Damaged(Items(IF step = "walk repair" THEN "all" ELSE "staging"))]

Walks == {"walk delete", "walk clean", "walk repair"}
WalkOf(step) == IF step = "walk repair" THEN "all" ELSE "staging"
Handle == [w \in Walks |-> CASE w = "walk delete" -> "empty staging"
                             [] w = "walk clean" -> "clean"
                             [] OTHER -> "choose"]

Page ==
  /\ op.at \in Walks
  /\ Cost(WalkOf(op.at)) <= MaxEntries
  /\ op.after \subseteq Items(WalkOf(op.at))
  /\ LET rest == Behind(Items(WalkOf(op.at)), op.after)
         page == SubSeq(rest, 1, PageSize)
     IN  op' = IF Len(rest) > PageSize
               THEN [op EXCEPT !.list = @ \o page, !.after = {page[PageSize]}]
               ELSE [op EXCEPT !.list = @ \o rest, !.at = Handle[op.at]]
  /\ UNCHANGED <<files_, meta, damage>>

\* LIMIT_EXCEEDED, or INVALID_REQUEST for a token that no entry has any more.
PageFails ==
  /\ op.at \in Walks
  /\ \/ Cost(WalkOf(op.at)) > MaxEntries
     \/ ~(op.after \subseteq Items(WalkOf(op.at)))
  /\ Raise
  /\ UNCHANGED <<files_, meta, damage>>

---------------------------------------------------------------------------
(* Removing.                                                                 *)

DiscardFile(r, x) ==
  /\ files' = [files EXCEPT ![r][x] = "none"]
  /\ dirs' = IF \E y \in Digest \ {x} : files[r][y] # "none" THEN dirs ELSE dirs \ {r}
  /\ UNCHANGED <<cas, foreign>>

\* discard_stage, discard_incomplete of a file and of an empty directory.
Discard(i) ==
  CASE i.kind = "empty" -> dirs' = dirs \ {i.in} /\ UNCHANGED <<cas, files, foreign>>
    [] files[i.in][i.digest] = "none" -> UNCHANGED files_
    [] OTHER -> DiscardFile(i.in, i.digest)

\* A staged file is verified before it goes.
MayDiscard(i) == i.kind = "staged" => files[i.in][i.digest] # "corrupt"

DeleteArtifact(x) == cas' = [cas EXCEPT ![x] = "none"] /\ UNCHANGED <<files, dirs, foreign>>

Removable(i) == i.kind \in {"staged", "incomplete", "empty"}

\* _remove_deletion_files: the entries of the runs go, a damaged one ends it.
EmptyStaging ==
  /\ At("empty staging")
  /\ IF op.list = <<>>
     THEN /\ op' = [op EXCEPT !.at = "unlink deleted", !.todo = deletion.required]
          /\ UNCHANGED files_
     ELSE LET i == Head(op.list)
              ours == Removable(i) /\ i.in = deletion.run
          IN  IF i \in Damaged({i}) \/ (ours /\ ~MayDiscard(i))
              THEN Raise /\ UNCHANGED files_
              ELSE /\ op' = [op EXCEPT !.list = Tail(@)]
                   /\ IF ours THEN Discard(i) ELSE UNCHANGED files_
  /\ UNCHANGED <<meta, damage>>

\* delete_artifact, one at a time; a corrupt one raises.
Unlink(step, next) ==
  /\ At(step)
  /\ \/ op.todo = {} /\ Goto(next) /\ UNCHANGED files_
     \/ \E x \in op.todo :
          IF cas[x] = "corrupt"
          THEN Raise /\ UNCHANGED files_
          ELSE DeleteArtifact(x) /\ op' = [op EXCEPT !.todo = @ \ {x}]
  /\ UNCHANGED <<meta, damage>>

---------------------------------------------------------------------------
(* delete_source.                                                            *)

Survive(r) ==
  UNION {Wants[q] : q \in {p \in Run \ {r} : world[p] = "committed"}}
  \cup UNION {intents[q] : q \in Run \ {r}}
ClosureDigests(r) == intents[r] \cup (IF world[r] = "committed" THEN Wants[r] ELSE {})

StartDelete(r) ==
  /\ At("free")
  /\ \/ /\ deletion.state = "none" /\ world[r] # "absent"
        /\ deletion' = [state |-> "pending", run |-> r,
                        required |-> ClosureDigests(r) \ Survive(r)]
     \/ deletion.state = "pending" /\ deletion.run = r /\ UNCHANGED deletion
  /\ op' = StartWalk([Idle EXCEPT !.call = "delete"], "walk delete")
  /\ UNCHANGED <<files_, world, intents, damage>>

Purge ==
  /\ At("purge")
  /\ \A x \in deletion.required : cas[x] = "none"
  /\ world' = [world EXCEPT ![deletion.run] = "absent"]
  /\ intents' = [intents EXCEPT ![deletion.run] = {}]
  /\ deletion' = [deletion EXCEPT !.state = "purged"]
  /\ Goto("complete")
  /\ UNCHANGED <<files_, damage>>

Complete ==
  /\ At("complete")
  /\ deletion' = NoDeletion
  /\ IF op.call = "delete" THEN Return ELSE Goto("runs")
  /\ UNCHANGED <<files_, world, intents, damage>>

---------------------------------------------------------------------------
(* recover, and repair, which begins with it.                                *)

\* Slip: only a job that still has its plan is resumed.
StartRecoverPending(call) ==
  /\ At("free")
  /\ LET o == [Idle EXCEPT !.call = call]
     IN  op' = IF deletion.state = "pending" THEN StartWalk(o, "walk delete")
               ELSE [o EXCEPT !.at = "runs"]
  /\ UNCHANGED <<files_, meta, damage>>

StartRecover(call) ==
  /\ At("free")
  /\ LET o == [Idle EXCEPT !.call = call]
     IN  op' = CASE deletion.state = "pending" -> StartWalk(o, "walk delete")
                 [] deletion.state = "purged" -> [o EXCEPT !.at = "complete"]
                 [] OTHER -> [o EXCEPT !.at = "runs"]
  /\ UNCHANGED <<files_, meta, damage>>

Pending == {r \in Run : world[r] = "preparing"}

CleanRun ==
  /\ At("runs")
  /\ IF Pending = {}
     THEN op' = StartWalk(op, "walk clean")
     ELSE \E r \in Pending :
            op' = [op EXCEPT !.at = "discard run", !.run = r, !.todo = intents[r]]
  /\ UNCHANGED <<files_, meta, damage>>

DiscardOfRun ==
  /\ At("discard run")
  /\ \/ /\ op.todo = {}
        /\ op' = [op EXCEPT !.at = "unlink run", !.todo = intents[op.run] \ Survive(op.run)]
        /\ UNCHANGED files_
     \/ \E x \in op.todo :
          IF ~MayDiscard(Item("staged", op.run, x))
          THEN Raise /\ UNCHANGED files_
          ELSE Discard(Item("staged", op.run, x)) /\ op' = [op EXCEPT !.todo = @ \ {x}]
  /\ UNCHANGED <<meta, damage>>

FinishRun ==
  /\ At("finish run")
  /\ world' = [world EXCEPT ![op.run] = "failed"]
  /\ intents' = [intents EXCEPT ![op.run] = {}]
  /\ Goto("runs")
  /\ UNCHANGED <<files_, deletion, damage>>

\* clean_staging: whatever else is staged goes, damage is counted.
Clean ==
  /\ At("clean")
  /\ IF op.list = <<>>
     THEN Goto("report") /\ UNCHANGED files_
     ELSE LET i == Head(op.list)
          IN  IF i \in Damaged({i})
              THEN op' = [op EXCEPT !.list = Tail(@), !.issues = @ + 1] /\ UNCHANGED files_
              ELSE IF ~MayDiscard(i)
              THEN Raise /\ UNCHANGED files_
              ELSE op' = [op EXCEPT !.list = Tail(@)] /\ Discard(i)
  /\ UNCHANGED <<meta, damage>>

\* repair gives the lock back between its two sessions.
EndRecover ==
  /\ At("report")
  /\ IF op.call = "repair" THEN Goto("between") ELSE Return
  /\ UNCHANGED <<files_, meta, damage>>

StartRepair ==
  /\ At("between")
  /\ op' = StartWalk(op, "walk repair")
  /\ UNCHANGED <<files_, meta, damage>>

Listed(kinds) == {i \in ToSet(op.list) : i.kind \in kinds}

\* Slip: an artifact without an intent is an orphan.
ChooseOrphansByIntent ==
  /\ At("choose")
  /\ LET found == Cardinality(Listed({"corrupt", "invalid"}))
     IN  op' = [op EXCEPT !.at = "unlink orphans",
                          !.todo = {x \in {i.digest : i \in Listed({"artifact"})} :
                                      \A r \in Run : x \notin intents[r]},
                          !.issues = IF found > @ THEN found ELSE @]
  /\ UNCHANGED <<files_, meta, damage>>

ChooseOrphans ==
  /\ At("choose")
  /\ LET found == Cardinality(Listed({"corrupt", "invalid"}))
     IN  op' = [op EXCEPT !.at = "unlink orphans",
                          !.todo = {i.digest : i \in Listed({"artifact"})} \ References,
                          !.issues = IF found > @ THEN found ELSE @]
  /\ UNCHANGED <<files_, meta, damage>>

EndRepair == At("repaired") /\ Return /\ UNCHANGED <<files_, meta, damage>>

---------------------------------------------------------------------------
(* Everybody else, while the lock is free.  A writer has recovered the store   *)
(* before, so no deletion is pending when it begins.                           *)

LockIsFree == op.at \in {"free", "between"}

Fits(r) == Cardinality(Wants[r]) + 1 <= MaxEntries
MayWrite(r) ==
  /\ LockIsFree /\ deletion.state = "none"
  /\ world[r] \in {"absent", "failed"} /\ Fits(r)

WriterCommits(r) ==
  /\ MayWrite(r)
  /\ \A x \in Wants[r] : cas[x] # "corrupt"
  /\ cas' = [x \in Digest |-> IF x \in Wants[r] THEN "valid" ELSE cas[x]]
  /\ world' = [world EXCEPT ![r] = "committed"]
  /\ UNCHANGED <<files, dirs, foreign, intents, deletion, op, damage>>

\* It dies, or a corrupt artifact stops it, when some files are staged, then
\* when some intents are recorded, then when some files are promoted.
WriterStops(r) ==
  /\ MayWrite(r)
  /\ \A x \in Wants[r] : files[r][x] = "none"
  /\ world' = [world EXCEPT ![r] = "preparing"]
  /\ \/ \E S \in SUBSET Wants[r], last \in {"staged", "incomplete"} :
          /\ files' = [files EXCEPT ![r] = [x \in Digest |->
                          IF x \in S THEN IF S = Wants[r] THEN last ELSE "staged" ELSE @[x]]]
          /\ dirs' = dirs \cup {r}
          /\ UNCHANGED <<cas, intents>>
     \/ \E I \in (SUBSET Wants[r]) \ {{}}, P \in SUBSET Wants[r] :
          /\ P # {} => I = Wants[r]
          /\ \A x \in P : cas[x] # "corrupt"
          /\ files' = [files EXCEPT ![r] = [x \in Digest |->
                          IF x \in Wants[r] \ P THEN "staged" ELSE @[x]]]
          /\ dirs' = IF P = Wants[r] /\ files[r] = [x \in Digest |-> "none"]
                     THEN dirs \ {r} ELSE dirs \cup {r}
          /\ cas' = [x \in Digest |-> IF x \in P THEN "valid" ELSE cas[x]]
          /\ intents' = [intents EXCEPT ![r] = I]
  /\ UNCHANGED <<foreign, deletion, op, damage>>

\* put of the evidence store's port: no run refers to what it stores.
Put(x) ==
  /\ LockIsFree /\ cas[x] = "none"
  /\ cas' = [cas EXCEPT ![x] = "valid"]
  /\ UNCHANGED <<files, dirs, foreign, meta, op, damage>>

Mishap == damage < MaxDamage /\ damage' = damage + 1

Rot ==
  /\ Mishap
  /\ \/ \E x \in Digest : cas[x] = "valid" /\ cas' = [cas EXCEPT ![x] = "corrupt"]
                         /\ UNCHANGED files
     \/ \E r \in Run, x \in Digest :
          /\ files[r][x] = "staged" /\ files' = [files EXCEPT ![r][x] = "corrupt"]
          /\ UNCHANGED cas
  /\ UNCHANGED <<dirs, foreign, meta, op>>

Intrude ==
  /\ Mishap
  /\ \E t \in {"cas", "staging"} \ foreign : foreign' = foreign \cup {t}
  /\ UNCHANGED <<cas, files, dirs, meta, op>>

Die == Mishap /\ op.at # "free" /\ Raise /\ UNCHANGED <<files_, meta>>

\* The administrator removes what is damaged.
RemoveDamaged ==
  /\ LockIsFree
  /\ \/ foreign # {} /\ foreign' = {} /\ UNCHANGED <<cas, files, dirs>>
     \/ \E x \in Digest : cas[x] = "corrupt" /\ DeleteArtifact(x)
     \/ \E r \in Run, x \in Digest : files[r][x] = "corrupt" /\ DiscardFile(r, x)
  /\ UNCHANGED <<meta, op, damage>>

---------------------------------------------------------------------------
Init ==
  /\ cas = [x \in Digest |-> "none"]
  /\ files = [r \in Run |-> [x \in Digest |-> "none"]]
  /\ dirs = {} /\ foreign = {}
  /\ world = [r \in Run |-> "absent"] /\ intents = [r \in Run |-> {}]
  /\ deletion = NoDeletion /\ op = Idle /\ damage = 0

Work ==
  \/ Page \/ PageFails \/ EmptyStaging \/ Purge \/ Complete
  \/ CleanRun \/ DiscardOfRun \/ FinishRun \/ Clean \/ EndRecover
  \/ StartRepair \/ ChooseOrphans \/ EndRepair
  \/ Unlink("unlink deleted", "purge")
  \/ Unlink("unlink run", "finish run")
  \/ Unlink("unlink orphans", "repaired")

Others ==
  \/ \E r \in Run : StartDelete(r) \/ WriterCommits(r) \/ WriterStops(r)
  \/ \E x \in Digest : Put(x)
  \/ Rot \/ Intrude \/ Die

Next == Work \/ Others \/ StartRecover("recover") \/ StartRecover("repair") \/ RemoveDamaged

Spec == Init /\ [][Next]_vars

\* Operations go on, they are called again and again, and the administrator looks
\* after the damage that is reported.
---------------------------------------------------------------------------
TypeOK ==
  /\ cas \in [Digest -> {"none", "valid", "corrupt"}]
  /\ files \in [Run -> [Digest -> {"none", "incomplete", "staged", "corrupt"}]]
  /\ \A r \in Run : (\E x \in Digest : files[r][x] # "none") => r \in dirs
  /\ world \in [Run -> {"absent", "preparing", "committed", "failed"}]
  /\ deletion.state \in {"none", "pending", "purged"}

\* Once the metadata of a source is purged, nothing of it is left in the store,
\* whatever was damaged while it was deleted: no staged file of its runs, and none
\* of the artifacts that no other source refers to (_remove_deletion_files).
PurgedLeavesNothing ==
  [][deletion.state = "pending" /\ deletion'.state = "purged" =>
       /\ deletion.run \notin dirs
       /\ \A x \in deletion.required : cas[x] = "none"]_vars

\* No operation takes an artifact that a published run refers to, unless the run
\* is the one being deleted: repair decides after it has the lock again.
ReferencedStay ==
  [][\A x \in Digest :
       (cas[x] = "valid" /\ cas'[x] = "none") =>
         \A r \in Run : world[r] = "committed" /\ x \in Wants[r] =>
           deletion.state = "pending" /\ deletion.run = r]_vars

\* Damage that was there when the inventory was begun, and still is, is reported by
\* every recovery and repair that returns, however many pages it took and whatever
\* rotted in between.
DamageIsReported ==
  op.at \in {"report", "repaired"} =>
    Cardinality(op.known \cap Items(IF op.at = "repaired" THEN "all" ELSE "staging")) <= op.issues

\* The program itself never removes or replaces what is damaged: that is left to
\* the administrator (discard_stage and delete_artifact verify before they unlink).
DamageIsKept ==
  [][\/ RemoveDamaged
     \/ /\ \A x \in Digest : cas[x] = "corrupt" => cas'[x] = "corrupt"
        /\ \A r \in Run, x \in Digest : files[r][x] = "corrupt" => files'[r][x] = "corrupt"
    ]_vars

\* A deletion ends, also one that damage anywhere in the store has stopped.
DeletionEnds == \A r \in Run : (deletion.state # "none" /\ deletion.run = r) ~> (deletion.state = "none")

Orphan(x) == cas[x] = "valid" /\ x \notin References /\ \A r \in Run : x \notin intents[r]

\* Repair deletes the valid artifacts that nothing refers to.
OrphansGo == \A x \in Digest : Orphan(x) ~> ~Orphan(x)
=============================================================================
