-------------------------- MODULE RuntimeProvisioning --------------------------
(* scripts/provision_perception_runtime.py: an administrator fetches the        *)
(* artifacts into a cache, installs the perception runtime from it and the      *)
(* original-frame overlay from the repository, and may start each of these      *)
(* twice at once.  Calls fail, processes die, power goes out.  The library      *)
(* verifies an installed root before it runs a worker from it.                  *)
EXTENDS Naturals, Sequences, FiniteSets

CONSTANTS Process, None,
          Artifacts,   \* number of artifacts of the manifest
          Commands,    \* what the processes do
          MaxFaults    \* bound: calls that fail, processes that die, power lost

BoundsAssumption == Artifacts \in Nat \ {0} /\ MaxFaults \in Nat

Kinds == {"perception", "overlay"}
RuntimeParts == <<"python", "wheels", "models", "worker", "manifest", "receipt">>
OverlayParts == <<"worker", "manifest", "receipt">>
Parts(kind) == IF kind = "perception" THEN RuntimeParts ELSE OverlayParts
Whole(kind) == {Parts(kind)[i] : i \in DOMAIN Parts(kind)}

VARIABLES
  cache, diskCache,  \* entries [of, name, content]: artifacts and partial downloads
  lock,              \* owner of .provision.lock
  staging,           \* per process: the tree it builds, or None
  root,              \* per kind: the published tree, or None
  entered,           \* the kinds whose root is durably entered in its parent
  proc,              \* per process: command, next step, artifact at hand, answer
  kept,              \* what commands that answered ok have promised
  faults
vars == <<cache, diskCache, lock, staging, root, entered, proc, kept, faults>>
trees == <<staging, root, entered>>

\* A tree as processes see it, and all it may be on disk: what it was when it was
\* synced last, and everything it has been since, in whatever order the kernel
\* writes.
Tree(parts, mode) == [parts |-> parts, mode |-> mode]
Fresh == [now |-> Tree({}, 700), disk |-> {Tree({}, 700)}]
Changed(tree, new) == [now |-> new, disk |-> tree.disk \cup {new}]
WithMode(tree, mode) == Changed(tree, Tree(tree.now.parts, mode))
WithPart(tree, part) == Changed(tree, Tree(tree.now.parts \cup {part}, tree.now.mode))
Synced(tree) == [tree EXCEPT !.disk = {tree.now}]

\* _tree_sha256 and the other digests; _validate_frozen_tree; and the two
\* verifications that are made of them.
Complete(tree, kind) == tree.now.parts = Whole(kind)
Frozen(tree) == tree.now.mode = 555
GoodRuntime(tree) == Complete(tree, "perception") /\ Frozen(tree)
GoodOverlay(tree) == Complete(tree, "overlay") /\ Frozen(tree)
Good(tree, kind) == IF kind = "perception" THEN GoodRuntime(tree) ELSE GoodOverlay(tree)

Idle(answer) == [do |-> "nothing", pc |-> "idle", at |-> 0, answer |-> answer]

Init ==
  /\ cache = {} /\ diskCache = {} /\ lock = None
  /\ staging = [p \in Process |-> None] /\ root = [k \in Kinds |-> None] /\ entered = {}
  /\ proc = [p \in Process |-> Idle("none")] /\ kept = {} /\ faults = 0

At(p, pc) == proc[p].pc = pc
Kind(p) == proc[p].do
Go(p, pc) == proc' = [proc EXCEPT ![p].pc = pc]
Unlock(p) == lock' = IF lock = p THEN None ELSE lock

Final(a) == {e \in cache : e.of = a /\ e.name = "final"}
Partials(a) == {e \in cache : e.of = a /\ e.name # "final"}
Partial(p) == [of |-> proc[p].at, name |-> p, content |-> "part"]

\* _verify_cache_unlocked: the artifacts, each with one link, and nothing else.
CacheValid ==
  \A a \in 1..Artifacts : Partials(a) = {} /\ \E e \in Final(a) : e.content = "sure"

\* What the finally clauses remove: the partial file, and staging until it is
\* published.
Cleaned(p) == /\ cache' = {e \in cache : e.name # p} /\ UNCHANGED diskCache
              /\ staging' = [staging EXCEPT ![p] = None] /\ UNCHANGED <<root, entered>>

Fail(p, code) ==
  /\ proc' = [proc EXCEPT ![p] = [Idle(code) EXCEPT !.do = Kind(p)]]
  /\ Unlock(p) /\ Cleaned(p) /\ UNCHANGED kept

Promise(p, what) ==
  /\ proc' = [proc EXCEPT ![p] = [Idle("ok") EXCEPT !.do = Kind(p)]]
  /\ kept' = kept \cup {what} /\ Unlock(p)
Succeed(p) == Promise(p, Kind(p))

---------------------------------------------------------------------------
(* fetch_artifacts and _download_artifact, under the lock of the cache.      *)

Start(p, command) ==
  /\ At(p, "idle")
  /\ proc' = [proc EXCEPT ![p] =
       [do |-> command, at |-> 1, answer |-> "none",
        pc |-> IF command \in {"fetch", "verify-cache"} THEN "lock"
               ELSE IF command \in Kinds THEN "exists" ELSE "trust"]]
  /\ UNCHANGED <<cache, diskCache, lock, trees, kept, faults>>

Lock(p) ==
  /\ At(p, "lock") /\ lock = None /\ lock' = p
  /\ Go(p, IF Kind(p) = "fetch" THEN "clean" ELSE "verifyCache")
  /\ UNCHANGED <<cache, diskCache, trees, kept, faults>>

Clean(p) ==
  /\ At(p, "clean")
  /\ IF Partials(proc[p].at) = {} THEN Go(p, "look") /\ UNCHANGED cache
     ELSE \E e \in Partials(proc[p].at) : cache' = cache \ {e} /\ UNCHANGED proc
  /\ UNCHANGED <<diskCache, lock, trees, kept, faults>>

\* An artifact that is there is verified, one link included.
Look(p) ==
  /\ At(p, "look") /\ UNCHANGED faults
  /\ IF Final(proc[p].at) = {}
     THEN Go(p, "download") /\ cache' = cache \cup {Partial(p)}
          /\ UNCHANGED <<diskCache, lock, trees, kept>>
     ELSE IF Partials(proc[p].at) = {} /\ \E e \in Final(proc[p].at) : e.content = "sure"
     THEN Go(p, "syncCache") /\ UNCHANGED <<cache, diskCache, lock, trees, kept>>
     ELSE Fail(p, "artifact_invalid")

\* Size and digest are compared with the manifest before anything else.
Download(p) ==
  /\ At(p, "download") /\ UNCHANGED faults
  /\ \/ /\ Go(p, "syncFile")
        /\ cache' = (cache \ {Partial(p)}) \cup {[Partial(p) EXCEPT !.content = "whole"]}
        /\ UNCHANGED <<diskCache, lock, trees, kept>>
     \/ Fail(p, "artifact_invalid")

SyncFile(p) ==
  /\ At(p, "syncFile") /\ Go(p, "link")
  /\ cache' = {IF e.name = p THEN [e EXCEPT !.content = "sure"] ELSE e : e \in cache}
  /\ UNCHANGED <<diskCache, lock, trees, kept, faults>>

Link(p) ==
  /\ At(p, "link") /\ Go(p, "unlink")
  /\ cache' = cache \cup {[e EXCEPT !.name = "final"] : e \in {f \in cache : f.name = p}}
  /\ UNCHANGED <<diskCache, lock, trees, kept, faults>>

Unlink(p) ==
  /\ At(p, "unlink") /\ Go(p, "syncCache")
  /\ cache' = {e \in cache : e.name # p}
  /\ UNCHANGED <<diskCache, lock, trees, kept, faults>>

SyncCache(p) ==
  /\ At(p, "syncCache") /\ diskCache' = cache
  /\ proc' = [proc EXCEPT ![p].at = IF @ = Artifacts THEN @ ELSE @ + 1,
                          ![p].pc = IF proc[p].at = Artifacts THEN "verifyCache" ELSE "clean"]
  /\ UNCHANGED <<cache, lock, trees, kept, faults>>

VerifyCache(p) ==
  /\ At(p, "verifyCache") /\ UNCHANGED faults
  /\ IF ~CacheValid THEN Fail(p, "cache_invalid")
     ELSE /\ IF Kind(p) \in Kinds THEN Go(p, "build") /\ UNCHANGED <<lock, kept>>
             ELSE Succeed(p)
          /\ UNCHANGED <<cache, diskCache, trees>>

Fetching(p) ==
  \/ Lock(p) \/ Clean(p) \/ Look(p) \/ Download(p) \/ SyncFile(p)
  \/ Link(p) \/ Unlink(p) \/ SyncCache(p) \/ VerifyCache(p)

---------------------------------------------------------------------------
(* install_runtime, which holds the lock of the cache, and                    *)
(* install_original_frame_overlay, which holds none.                          *)

Exists(p) ==
  /\ At(p, "exists")
  /\ Go(p, IF root[Kind(p)] # None THEN "verifyOld"
           ELSE IF Kind(p) = "perception" THEN "lock" ELSE "build")
  /\ UNCHANGED <<cache, diskCache, lock, trees, kept, faults>>

\* An existing root is verified, never repaired.
VerifyOld(p) ==
  /\ At(p, "verifyOld") /\ UNCHANGED faults
  /\ IF Good(root[Kind(p)], Kind(p))
     THEN Go(p, "syncOld") /\ UNCHANGED <<cache, diskCache, lock, trees, kept>>
     ELSE Fail(p, "installed_runtime_untrusted")

\* Only the parent is synced; who finds an overlay did not see its root synced.
SyncOld(p) ==
  /\ At(p, "syncOld") /\ Promise(p, IF Kind(p) = "overlay" THEN "found" ELSE Kind(p))
  /\ entered' = entered \cup {Kind(p)}
  /\ UNCHANGED <<cache, diskCache, staging, root, faults>>

Build(p) ==
  /\ At(p, "build") /\ Go(p, "write") /\ staging' = [staging EXCEPT ![p] = Fresh]
  /\ UNCHANGED <<cache, diskCache, lock, root, entered, kept, faults>>

\* _write_exclusive, part after part.
Write(p) ==
  /\ At(p, "write")
  /\ LET n == Cardinality(staging[p].now.parts)
     IN  IF n = Len(Parts(Kind(p))) THEN Go(p, "freeze") /\ UNCHANGED staging
         ELSE /\ staging' = [staging EXCEPT ![p] = WithPart(@, Parts(Kind(p))[n + 1])]
              /\ UNCHANGED proc
  /\ UNCHANGED <<cache, diskCache, lock, root, entered, kept, faults>>

Freeze(p) ==
  /\ At(p, "freeze") /\ Go(p, "verifyStaging")
  /\ staging' = [staging EXCEPT ![p] = WithMode(@, 555)]
  /\ UNCHANGED <<cache, diskCache, lock, root, entered, kept, faults>>

VerifyStaging(p) ==
  /\ At(p, "verifyStaging") /\ UNCHANGED faults
  /\ IF Good(staging[p], Kind(p))
     THEN Go(p, "syncTree") /\ UNCHANGED <<cache, diskCache, lock, trees, kept>>
     ELSE Fail(p, "installed_runtime_invalid")

\* Slip: the tree is published without a sync.
SyncNoTree(p) ==
  /\ At(p, "syncTree") /\ Go(p, IF Kind(p) = "overlay" THEN "thaw" ELSE "rename")
  /\ UNCHANGED <<cache, diskCache, lock, trees, kept, faults>>

SyncTree(p) ==
  /\ At(p, "syncTree") /\ Go(p, IF Kind(p) = "overlay" THEN "thaw" ELSE "rename")
  /\ staging' = [staging EXCEPT ![p] = Synced(@)]
  /\ UNCHANGED <<cache, diskCache, lock, root, entered, kept, faults>>

\* _publish_frozen_directory makes the overlay writable for its owner for the
\* time of the rename.
Thaw(p) ==
  /\ At(p, "thaw") /\ Go(p, "rename")
  /\ staging' = [staging EXCEPT ![p] = WithMode(@, 755)]
  /\ UNCHANGED <<cache, diskCache, lock, root, entered, kept, faults>>

\* A directory that is there and not empty is not renamed over.
Rename(p) ==
  /\ At(p, "rename") /\ UNCHANGED faults
  /\ IF root[Kind(p)] # None THEN Fail(p, "destination_exists")
     ELSE /\ root' = [root EXCEPT ![Kind(p)] = staging[p]]
          /\ staging' = [staging EXCEPT ![p] = None]
          /\ Go(p, IF Kind(p) = "overlay" THEN "refreeze" ELSE "syncParent")
          /\ UNCHANGED <<cache, diskCache, lock, entered, kept>>

Refreeze(p) ==
  /\ At(p, "refreeze") /\ Go(p, "syncRoot")
  /\ root' = [root EXCEPT ![Kind(p)] = WithMode(@, 555)]
  /\ UNCHANGED <<cache, diskCache, lock, staging, entered, kept, faults>>

SyncRoot(p) ==
  /\ At(p, "syncRoot") /\ Go(p, "syncParent")
  /\ root' = [root EXCEPT ![Kind(p)] = Synced(@)]
  /\ UNCHANGED <<cache, diskCache, lock, staging, entered, kept, faults>>

SyncParent(p) ==
  /\ At(p, "syncParent") /\ Go(p, "verifyRoot")
  /\ entered' = entered \cup {Kind(p)}
  /\ UNCHANGED <<cache, diskCache, lock, staging, root, kept, faults>>

VerifyRoot(p) ==
  /\ At(p, "verifyRoot") /\ UNCHANGED faults
  /\ IF Good(root[Kind(p)], Kind(p)) THEN Succeed(p) /\ UNCHANGED <<cache, diskCache, trees>>
     ELSE Fail(p, "installed_runtime_untrusted")

Installing(p) ==
  \/ Exists(p) \/ VerifyOld(p) \/ SyncOld(p) \/ Build(p) \/ Write(p) \/ Freeze(p)
  \/ VerifyStaging(p) \/ SyncTree(p) \/ Thaw(p) \/ Rename(p) \/ Refreeze(p)
  \/ SyncRoot(p) \/ SyncParent(p) \/ VerifyRoot(p)

---------------------------------------------------------------------------
(* The library: the modes of the whole tree first, then its contents.         *)

Uses == [useRuntime |-> "perception", useOverlay |-> "overlay"]
Used(p) == Uses[Kind(p)]

\* _validate_frozen_runtime; the directories of _verify_overlay.
TrustedRuntime == root["perception"] # None /\ Frozen(root["perception"])
TrustedOverlay == root["overlay"] # None /\ Frozen(root["overlay"])

\* _verify_perception_boundary; the files of _verify_overlay.
GenuineRuntime == Complete(root["perception"], "perception")
GenuineOverlay == Complete(root["overlay"], "overlay")

Refuse(p) == Fail(p, "ISOLATION_UNAVAILABLE")

Trust(p) ==
  /\ At(p, "trust") /\ UNCHANGED faults
  /\ IF IF Used(p) = "perception" THEN TrustedRuntime ELSE TrustedOverlay
     THEN Go(p, "read") /\ UNCHANGED <<cache, diskCache, lock, trees, kept>>
     ELSE Refuse(p)

Read(p) ==
  /\ At(p, "read") /\ UNCHANGED faults
  /\ IF IF Used(p) = "perception" THEN GenuineRuntime ELSE GenuineOverlay
     THEN Go(p, "run") /\ UNCHANGED <<cache, diskCache, lock, trees, kept>>
     ELSE Refuse(p)

Run(p) ==
  /\ At(p, "run") /\ Succeed(p) /\ UNCHANGED <<cache, diskCache, trees, faults>>

---------------------------------------------------------------------------
(* Faults.                                                                    *)

Fault == faults < MaxFaults /\ faults' = faults + 1

\* A call fails with OSError; the clean-up that follows may fail as well, and the
\* second try of fchmod too.
CallFails(p) ==
  /\ Fault /\ proc[p].pc \notin {"idle", "lock", "run"}
  /\ IF At(p, "refreeze")
     THEN /\ \E mode \in {555, 755} : root' = [root EXCEPT ![Kind(p)] = WithMode(@, mode)]
          /\ proc' = [proc EXCEPT ![p] = [Idle("failed") EXCEPT !.do = Kind(p)]]
          /\ Unlock(p) /\ UNCHANGED <<cache, diskCache, staging, entered, kept>>
     ELSE Fail(p, "failed")

\* Whoever dies leaves partial files and staging trees; the trees have names of
\* their own and are never looked at again.
Dies(p) ==
  /\ Fault /\ ~At(p, "idle") /\ proc' = [proc EXCEPT ![p] = Idle("none")]
  /\ Unlock(p) /\ staging' = [staging EXCEPT ![p] = None]
  /\ cache' = {IF e.name = p THEN [e EXCEPT !.name = "dead"] ELSE e : e \in cache}
  /\ UNCHANGED <<diskCache, root, entered, kept>>

\* A file that was not synced is torn, and of the entries that were not synced
\* some are there.  A tree comes back with any of the contents and any of the
\* modes it had since its last sync, the one that is visible now or not.
Torn(e) == [e EXCEPT !.name = IF @ = "final" THEN @ ELSE "dead",
                     !.content = IF @ = "sure" THEN @ ELSE "part"]
Left(tree) ==
  {[now |-> t, disk |-> {t}] :
     t \in [parts : {u.parts : u \in tree.disk}, mode : {u.mode : u \in tree.disk}]}
LeftRoot(k) ==
  IF root[k] = None THEN {None}
  ELSE Left(root[k]) \cup (IF k \in entered THEN {} ELSE {None})

PowerFails ==
  /\ Fault
  /\ \E some \in SUBSET ((cache \ diskCache) \cup (diskCache \ cache)) :
       cache' = {Torn(e) : e \in (cache \cap diskCache) \cup some}
  /\ diskCache' = cache' /\ lock' = None
  /\ root' \in {r \in [Kinds -> UNION {LeftRoot(k) : k \in Kinds}] : \A k \in Kinds : r[k] \in LeftRoot(k)}
  /\ entered' = {k \in Kinds : root'[k] # None}
  /\ staging' = [p \in Process |-> None] /\ proc' = [p \in Process |-> Idle("none")]
  /\ UNCHANGED kept

Advance(p) == Fetching(p) \/ Installing(p) \/ Trust(p) \/ Read(p) \/ Run(p)

Next ==
  \/ \E p \in Process : \/ \E command \in Commands : Start(p, command)
                        \/ Advance(p) \/ CallFails(p) \/ Dies(p)
  \/ PowerFails

Spec == Init /\ [][Next]_vars

---------------------------------------------------------------------------
\* Type correctness; only the owner of its lock works in the cache.
TypeOK ==
  /\ \A e \in cache : e.of \in 1..Artifacts /\ e.content \in {"part", "whole", "sure"}
  /\ \A p \in Process : proc[p].pc \in {"clean", "look", "download", "syncFile", "link",
                                         "unlink", "syncCache", "verifyCache"} => lock = p
  /\ entered \subseteq Kinds /\ \A k \in entered : root[k] # None

\* Under the name of an artifact the cache has that artifact, whatever happens.
CacheHoldsOnlyWhole == \A e \in cache : e.name = "final" => e.content = "sure"

\* A root is published as a whole, and what of the perception runtime is visible
\* is frozen.
PublishedIsWhole ==
  \A k \in Kinds : root[k] # None =>
    Complete(root[k], k) /\ (k = "perception" => Frozen(root[k]))

\* What answered ok is durable: a fetched cache, an installed perception runtime
\* and an overlay pass their verification after any loss of power.  An overlay
\* that an installer only found is still there and whole, but may come back with
\* the mode it had during the rename and be refused: install_original_frame_overlay
\* syncs its parent and not its root.
OkIsDurable ==
  /\ "fetch" \in kept => CacheValid
  /\ \A k \in kept \cap Kinds : root[k] # None /\ Good(root[k], k)
  /\ "found" \in kept => root["overlay"] # None /\ Complete(root["overlay"], "overlay")

\* The library runs a worker only from a whole and frozen root.
RunsOnlyVerified ==
  \A p \in Process : At(p, "run") => root[Used(p)] # None /\ Good(root[Used(p)], Used(p))
=============================================================================
