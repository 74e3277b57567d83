---------------------------- MODULE EvidenceFiles ----------------------------
(* LocalEvidenceStore one system call at a time: the directories and files of  *)
(* the store, what of them is on disk, calls that fail, processes that die and *)
(* power that goes out.  EvidenceStore says the same without system calls.     *)
(*                                                                             *)
(* The two levels of shard directories are one, with a directory of its own    *)
(* for each digest.  A file system with a journal is assumed: a rename reaches *)
(* the disk as a whole, and a directory leaves it after its files.             *)
EXTENDS Naturals, Sequences, FiniteSets

CONSTANTS Run, StageName, Digest,
          Inode,          \* files that can exist at a time
          NoInode,
          PowerMayFail

\* The store is a directory of its own.
StoreIsNoRun == "cas" \notin Run

Value == [digest : Digest, whole : BOOLEAN]
Handle == [run : Run, name : StageName, value : Value]
Free == [mode |-> "free"]
File(x, whole, mode) == [value |-> [digest |-> x, whole |-> whole], mode |-> mode]

VARIABLES
  runDirs, shards, entries, data,                    \* what the processes see
  diskRunDirs, diskShards, diskEntries, diskData,    \* what outlives the power
  op,          \* the operation under the writer lock, with the calls still to do
  promised     \* what returned operations have promised
live == <<runDirs, shards, entries, data>>
disk == <<diskRunDirs, diskShards, diskEntries, diskData>>
vars == <<live, disk, op, promised>>

Idle == [kind |-> "idle"]

Entry(in, name, ino) == [in |-> in, name |-> name, ino |-> ino]
At(set, in, name) == {e \in set : e.in = in /\ e.name = name}
InRun(set, r) == {e \in set : e.in = r}
InShard(set, x) == At(set, "cas", x)
Used(set) == {e.ino : e \in set}

\* The file at a place, as _verify_file reads it.
Holds(r, n, value) ==
  \E e \in At(entries, r, n) : data[e.ino] = [value |-> value, mode |-> 400]
InStore(x) ==
  \E e \in InShard(entries, x) : data[e.ino] = File(x, TRUE, 400)

---------------------------------------------------------------------------
(* Operations begin with the calls that come before a decision.              *)

Working(kind, r, n, x, whole, todo) ==
  [kind |-> kind, run |-> r, name |-> n, value |-> [digest |-> x, whole |-> whole],
   ino |-> NoInode, todo |-> todo, answer |-> "none"]

\* Slip: the directory is not synced before the file is handed over.
StageCallsWithoutDir == <<"mkdirRun", "syncRun", "syncStaging", "create", "writePart",
                          "writeWhole", "chmod", "syncFile">>

StageCalls == <<"mkdirRun", "syncRun", "syncStaging", "create", "writePart", "writeWhole",
                "chmod", "syncFile", "syncRun">>

Begin(operation) == op = Idle /\ op' = operation /\ UNCHANGED <<live, disk>>

\* A name is drawn from 16 random bytes: no file and no handle in use has it.
Unused(r, n) == At(entries, r, n) = {} /\ \A h \in promised.kept : h.name # n

BeginStage(r, n, x) ==
  /\ Unused(r, n)
  /\ Begin(Working("stage", r, n, x, TRUE, StageCalls \o <<"handOver">>))
  /\ UNCHANGED promised

\* put: stage and commit_stage under one lock.
BeginPut(r, n, x) ==
  /\ Unused(r, n)
  /\ Begin(Working("put", r, n, x, TRUE, StageCalls \o <<"handOver", "look">>))
  /\ promised' = [promised EXCEPT !.deleted = @ \ {x}]

BeginCommit(h) ==
  /\ h \in promised.kept
  /\ Begin(Working("commit", h.run, h.name, h.value.digest, TRUE, <<"look">>))
  /\ promised' = [promised EXCEPT !.deleted = @ \ {h.value.digest}, !.staged = @ \ {h}]

\* What the inventory lists, or a handle that was discarded before.
Listed(mode) == {e \in entries : e.in # "cas" /\ data[e.ino].mode = mode}

\* The promises made of a place that is now about to be emptied.
Without(place) ==
  [promised EXCEPT !.staged = {h \in @ : [run |-> h.run, name |-> h.name] # place},
                   !.kept = {h \in @ : [run |-> h.run, name |-> h.name] # place}]

BeginDiscard ==
  /\ \/ \E e \in Listed(400) :
          LET value == data[e.ino].value
          IN  /\ Begin(Working("discard", e.in, e.name, value.digest, value.whole, <<"look">>))
              /\ promised' = Without([run |-> e.in, name |-> e.name])
     \/ \E place \in promised.discarded, x \in Digest :
          /\ Begin(Working("discard", place.run, place.name, x, TRUE, <<"look">>))
          /\ UNCHANGED promised

BeginDiscardIncomplete ==
  \E e \in Listed(600) :
    /\ Begin(Working("incomplete", e.in, e.name, data[e.ino].value.digest, FALSE, <<"look">>))
    /\ promised' = Without([run |-> e.in, name |-> e.name])

BeginDiscardEmptyRun(r) ==
  /\ r \in runDirs /\ InRun(entries, r) = {}
  /\ \E n \in StageName, x \in Digest : Begin(Working("empty", r, n, x, TRUE, <<"rmdirRun">>))
  /\ UNCHANGED promised

BeginDelete(x) ==
  /\ \E r \in Run, n \in StageName : Begin(Working("delete", r, n, x, TRUE, <<"look">>))
  /\ promised' = [promised EXCEPT !.committed = @ \ {x},
                                  !.kept = {h \in @ : h.value.digest # x}]

---------------------------------------------------------------------------
(* The decisions.  A look answers, or says which calls come next.            *)

Proceed(calls) == op' = [op EXCEPT !.todo = calls \o Tail(@)]
Answer(code)   == op' = [op EXCEPT !.todo = <<>>, !.answer = code]

\* _sync_stage_absence
AbsenceCalls == IF op.run \in runDirs THEN <<"syncRun", "rmdirRun">> ELSE <<"syncStaging">>

Here == At(entries, op.run, op.name)

LookCommit ==
  /\ op.kind \in {"put", "commit"}
  /\ CASE Here = {} /\ InShard(entries, op.value.digest) = {} -> Answer("NOT_FOUND")
       [] Here = {} /\ InStore(op.value.digest) -> Proceed(<<"syncShard">> \o AbsenceCalls)
       [] Holds(op.run, op.name, op.value) ->
            Proceed(<<"mkdirShard", "syncShard", "syncShards", "lookFinal">>)
       [] OTHER -> Answer("CORRUPT")

LookDiscard ==
  /\ op.kind \in {"discard", "incomplete"}
  /\ CASE Here = {} -> Proceed(AbsenceCalls)
       [] op.kind = "discard" /\ Here # {} /\ ~Holds(op.run, op.name, op.value) -> Answer("CORRUPT")
       [] OTHER -> Proceed(<<"unlinkStage", "syncRun", "rmdirRun">>)

\* The unlink of a deletion that stopped before its sync reaches the disk.
DeletedCalls == IF op.value.digest \in shards THEN <<"syncShard">> ELSE <<>>

LookDelete ==
  /\ op.kind = "delete"
  /\ CASE InShard(entries, op.value.digest) = {} ->
            Proceed(DeletedCalls)
       [] InStore(op.value.digest) -> Proceed(<<"unlinkFinal", "syncShard">>)
       [] OTHER -> Answer("CORRUPT")

Look ==
  /\ LookCommit \/ LookDiscard \/ LookDelete
  /\ UNCHANGED <<live, disk>>

\* DEDUPLICATED when the store holds the artifact, else PROMOTED by a rename.
LookFinal ==
  /\ IF InShard(entries, op.value.digest) = {}
     THEN Proceed(<<"rename", "syncRun", "syncShard", "rmdirRun">>)
     ELSE IF InStore(op.value.digest)
     THEN Proceed(<<"unlinkStage", "syncRun", "syncShard", "rmdirRun">>)
     ELSE Answer("CORRUPT")
  /\ UNCHANGED <<live, disk>>

---------------------------------------------------------------------------
(* The system calls.                                                         *)

Did == op' = [op EXCEPT !.todo = Tail(@)]

MkdirRun == runDirs' = runDirs \cup {op.run} /\ Did /\ UNCHANGED <<shards, entries, data, disk>>

MkdirShard ==
  shards' = shards \cup {op.value.digest} /\ Did /\ UNCHANGED <<runDirs, entries, data, disk>>

Create ==
  \E i \in Inode \ Used(entries \cup diskEntries) :
    /\ entries' = entries \cup {Entry(op.run, op.name, i)}
    /\ data' = [data EXCEPT ![i] = File(op.value.digest, FALSE, 600)]
    /\ diskData' = [diskData EXCEPT ![i] = File(op.value.digest, FALSE, 600)]
    /\ op' = [op EXCEPT !.todo = Tail(@), !.ino = i]
    /\ promised' = [promised EXCEPT !.discarded = @ \ {[run |-> op.run, name |-> op.name]}]
    /\ UNCHANGED <<runDirs, shards, diskRunDirs, diskShards, diskEntries>>

WriteWhole ==
  /\ data' = [data EXCEPT ![op.ino].value.whole = TRUE]
  /\ Did /\ UNCHANGED <<runDirs, shards, entries, disk>>

Chmod ==
  /\ data' = [data EXCEPT ![op.ino].mode = 400]
  /\ Did /\ UNCHANGED <<runDirs, shards, entries, disk>>

SyncFile ==
  /\ diskData' = [diskData EXCEPT ![op.ino] = data[op.ino]]
  /\ Did /\ UNCHANGED <<live, diskRunDirs, diskShards, diskEntries>>

\* The entries of all files of a directory reach the disk, or leave it.
Synced(inodes) ==
  {e \in diskEntries : e.ino \notin inodes} \cup {e \in entries : e.ino \in inodes}

SyncRun ==
  /\ diskEntries' = Synced(Used(InRun(entries \cup diskEntries, op.run)))
  /\ Did /\ UNCHANGED <<live, diskRunDirs, diskShards, diskData>>

SyncShard ==
  /\ diskEntries' = Synced(Used(InShard(entries \cup diskEntries, op.value.digest)))
  /\ Did /\ UNCHANGED <<live, diskRunDirs, diskShards, diskData>>

\* A directory that is removed takes the changes of its files along.
SyncStaging ==
  /\ diskRunDirs' = runDirs
  /\ diskEntries' = Synced(Used({e \in diskEntries : e.in \in Run \ runDirs}))
  /\ Did /\ UNCHANGED <<live, diskShards, diskData>>

SyncShards ==
  diskShards' = shards /\ Did /\ UNCHANGED <<live, diskRunDirs, diskEntries, diskData>>

UnlinkStage ==
  /\ entries' = entries \ Here
  /\ Did /\ UNCHANGED <<runDirs, shards, data, disk>>

UnlinkFinal ==
  /\ entries' = entries \ InShard(entries, op.value.digest)
  /\ Did /\ UNCHANGED <<runDirs, shards, data, disk>>

\* Slip: the file is linked into the store.
RenameByLink ==
  /\ entries' = entries \cup {Entry("cas", op.value.digest, e.ino) : e \in Here}
  /\ Did /\ UNCHANGED <<runDirs, shards, data, disk>>

Rename ==
  /\ entries' = {IF e \in Here THEN Entry("cas", op.value.digest, e.ino) ELSE e : e \in entries}
  /\ Did /\ UNCHANGED <<runDirs, shards, data, disk>>

\* _remove_empty_run: ENOTEMPTY is no failure, and nothing is synced then.
RmdirRun ==
  /\ IF InRun(entries, op.run) = {}
     THEN runDirs' = runDirs \ {op.run} /\ op' = [op EXCEPT !.todo = <<"syncStaging">>]
     ELSE UNCHANGED runDirs /\ op' = [op EXCEPT !.todo = <<>>]
  /\ UNCHANGED <<shards, entries, data, disk>>

HandOver == Did /\ UNCHANGED <<live, disk>>

Call(name) == op # Idle /\ op.todo # <<>> /\ Head(op.todo) = name

Step ==
  \/ Call("create") /\ Create
  \/ /\ \/ Call("look") /\ Look
        \/ Call("lookFinal") /\ LookFinal
        \/ Call("mkdirRun") /\ MkdirRun
        \/ Call("mkdirShard") /\ MkdirShard
        \/ Call("writePart") /\ HandOver
        \/ Call("writeWhole") /\ WriteWhole
        \/ Call("chmod") /\ Chmod
        \/ Call("syncFile") /\ SyncFile
        \/ Call("syncRun") /\ SyncRun
        \/ Call("syncShard") /\ SyncShard
        \/ Call("syncStaging") /\ SyncStaging
        \/ Call("syncShards") /\ SyncShards
        \/ Call("unlinkStage") /\ UnlinkStage
        \/ Call("unlinkFinal") /\ UnlinkFinal
        \/ Call("rename") /\ Rename
        \/ Call("rmdirRun") /\ RmdirRun
        \/ Call("handOver") /\ HandOver
     /\ UNCHANGED promised

---------------------------------------------------------------------------
(* Failure.                                                                  *)

\* The file that a stage in progress has created, until it is handed over.
InProgress == op # Idle /\ op.kind \in {"stage", "put"} /\ op.ino # NoInode
              /\ \E i \in DOMAIN op.todo : op.todo[i] = "handOver"

CleanUp == <<"unlinkStage", "syncRun", "rmdirRun">>

\* A call fails with OSError.  Staging removes its file, as far as that goes;
\* all other operations stop where they are.
CallFails ==
  /\ op # Idle /\ op.todo # <<>> /\ Head(op.todo) \notin {"look", "lookFinal", "handOver"}
  /\ op' = CASE op.answer = "STORAGE_FAILED" ->
                  [op EXCEPT !.todo = IF Len(@) > 1 THEN <<"rmdirRun">> ELSE <<>>]
             [] op.answer = "none" /\ InProgress ->
                  [op EXCEPT !.todo = CleanUp, !.answer = "STORAGE_FAILED"]
             [] OTHER -> [op EXCEPT !.todo = <<>>, !.answer = "STORAGE_FAILED"]
  /\ UNCHANGED <<live, disk, promised>>

\* The lock is released.  Without an error the operation has kept its word.
Kept ==
  LET place == [run |-> op.run, name |-> op.name]
      h == [run |-> op.run, name |-> op.name, value |-> op.value]
  IN  CASE op.kind = "stage" ->
             [promised EXCEPT !.staged = @ \cup {h}, !.kept = @ \cup {h}]
        [] op.kind \in {"put", "commit"} ->
             [promised EXCEPT !.committed = @ \cup {op.value.digest},
                              !.discarded = @ \cup {place}]
        [] op.kind \in {"discard", "incomplete"} ->
             [promised EXCEPT !.discarded = @ \cup {place}]
        [] op.kind = "delete" -> [promised EXCEPT !.deleted = @ \cup {op.value.digest}]
        [] OTHER -> promised

Return ==
  /\ op # Idle /\ op.todo = <<>>
  /\ promised' = IF op.answer = "none" THEN Kept ELSE promised
  /\ op' = Idle /\ UNCHANGED <<live, disk>>

ProcessDies == op # Idle /\ op' = Idle /\ UNCHANGED <<live, disk, promised>>

\* The kernel writes when it likes: the entries of a file, its content, its
\* mode, a directory.
Writeback ==
  /\ PowerMayFail
  /\ \/ \E i \in Inode : diskEntries' = Synced({i}) /\ UNCHANGED <<diskRunDirs, diskShards, diskData>>
     \/ \E i \in Used(entries) :
          /\ \/ diskData' = [diskData EXCEPT ![i].value = data[i].value]
             \/ diskData' = [diskData EXCEPT ![i].mode = data[i].mode]
          /\ UNCHANGED <<diskRunDirs, diskShards, diskEntries>>
     \/ diskRunDirs' = runDirs \cup {r \in diskRunDirs : InRun(diskEntries, r) # {}}
        /\ UNCHANGED <<diskShards, diskEntries, diskData>>
     \/ diskShards' = shards /\ UNCHANGED <<diskRunDirs, diskEntries, diskData>>
  /\ UNCHANGED <<live, op, promised>>

\* Of a tree without its directory nothing is found again.
Found == {e \in diskEntries : IF e.in = "cas" THEN e.name \in diskShards ELSE e.in \in diskRunDirs}

PowerFails ==
  /\ PowerMayFail
  /\ runDirs' = diskRunDirs /\ shards' = diskShards /\ entries' = Found /\ data' = diskData
  /\ diskEntries' = Found /\ UNCHANGED <<diskRunDirs, diskShards, diskData>>
  /\ op' = Idle /\ UNCHANGED promised

Init ==
  /\ runDirs = {} /\ shards = {} /\ entries = {} /\ data = [i \in Inode |-> Free]
  /\ diskRunDirs = {} /\ diskShards = {} /\ diskEntries = {} /\ diskData = data
  /\ op = Idle
  /\ promised = [staged |-> {}, kept |-> {}, committed |-> {}, discarded |-> {}, deleted |-> {}]

Next ==
  \/ \E r \in Run, n \in StageName, x \in Digest : BeginStage(r, n, x) \/ BeginPut(r, n, x)
  \/ \E h \in Handle : BeginCommit(h)
  \/ BeginDiscard \/ BeginDiscardIncomplete
  \/ \E r \in Run : BeginDiscardEmptyRun(r)
  \/ \E x \in Digest : BeginDelete(x)
  \/ Step \/ CallFails \/ Return \/ ProcessDies \/ Writeback \/ PowerFails

Spec == Init /\ [][Next]_vars

---------------------------------------------------------------------------
TypeOK ==
  /\ runDirs \subseteq Run /\ diskRunDirs \subseteq Run
  /\ shards \subseteq Digest /\ diskShards \subseteq Digest
  /\ \A e \in entries \cup diskEntries :
       e.ino \in Inode /\ (e.in = "cas" => e.name \in Digest) /\ (e.in # "cas" => e.in \in Run)
  /\ \A e, f \in entries : (e.in = f.in /\ e.name = f.name) \/ e.ino = f.ino => e = f
  /\ \A e \in entries : IF e.in = "cas" THEN e.name \in shards ELSE e.in \in runDirs

\* A file of the store has the bytes of its name, in memory and on disk, at
\* every moment and after every failure.
CasHoldsWholeFiles ==
  /\ \A e \in entries : e.in = "cas" => data[e.ino] = File(e.name, TRUE, 400)
  /\ \A e \in diskEntries : e.in = "cas" => diskData[e.ino] = File(e.name, TRUE, 400)

\* What commit_stage and put have returned survives a loss of power.
CommittedIsOnDisk ==
  \A x \in promised.committed : \E e \in Found : e.in = "cas" /\ e.name = x

\* A staged file that stage has returned is found again, in staging or, when a
\* commit was under way, in the store: an intent always has its bytes.
KeptIsOnDisk ==
  \A h \in promised.kept :
    \/ \E e \in Found : /\ e.in = h.run /\ e.name = h.name
                        /\ diskData[e.ino] = [value |-> h.value, mode |-> 400]
    \/ h \notin promised.staged /\ \E e \in Found : e.in = "cas" /\ e.name = h.value.digest

\* An artifact whose deletion was reported does not come back.
DeletedStaysDeleted ==
  \A x \in promised.deleted : \A e \in entries \cup diskEntries : e.in = "cas" => e.name # x

\* Nor does a staged file.
DiscardedStaysDiscarded ==
  \A place \in promised.discarded : \A e \in entries \cup diskEntries :
    [run |-> e.in, name |-> e.name] # place

\* Recovery finds nothing it cannot remove, and no intent without its bytes,
\* whatever failed before.
NeverCorrupt == op # Idle => op.answer \notin {"CORRUPT", "NOT_FOUND"}

\* Without power failures the calls implement the operations of EvidenceStore;
\* the file of a stage in progress is not there until it is handed over, or
\* until its process dies.
Shown == IF InProgress THEN {e \in entries : e.ino # op.ino} ELSE entries
Files(mode) == {e \in Shown : e.in # "cas" /\ data[e.ino].mode = mode}

Store == INSTANCE EvidenceStore WITH
  cas <- {e.name : e \in {f \in entries : f.in = "cas"}},
  staged <- {[run |-> e.in, digest |-> data[e.ino].value.digest, name |-> e.name] : e \in Files(400)},
  incomplete <- {[run |-> e.in, name |-> e.name] : e \in Files(600)},
  MaxInventoryEntries <- Cardinality(Inode),
  Source <- {}, Frame <- {}, Evidence <- {}, DeletionId <- {}, FrameSource <- <<>>,
  EvidenceFrame <- <<>>, EvidenceDigest <- <<>>, RunSource <- <<>>, RunSamples <- <<>>,
  RunEvidence <- <<>>, NoSource <- NoInode

ImplementsStore == Store!StoreSpec
=============================================================================
