-------------------------- MODULE EvidenceFilesProofs --------------------------
(***************************************************************************)
(* What LocalEvidenceStore has promised survives failed calls, processes   *)
(* that die and power that goes out, for any number of runs, names,        *)
(* digests and files.                                                      *)
(***************************************************************************)
EXTENDS EvidenceFiles, SequenceTheorems, TLAPS

PartOrFile == [value : Value, mode : {400, 600}]
Entries == [in : Run, name : StageName, ino : Inode] \cup [in : {"cas"}, name : Digest, ino : Inode]
Promises ==
  [staged : SUBSET Handle, kept : SUBSET {h \in Handle : h.value.whole}, committed : SUBSET Digest,
   discarded : SUBSET [run : Run, name : StageName], deleted : SUBSET Digest]
Both == entries \cup diskEntries
SamePlace(e, f) == e.in = f.in /\ e.name = f.name

(* The types, and that every file can be read. *)
TypesInv ==
  /\ runDirs \subseteq Run /\ diskRunDirs \subseteq Run
  /\ shards \subseteq Digest /\ diskShards \subseteq shards
  /\ entries \subseteq Entries /\ diskEntries \subseteq Entries
  /\ data \in [Inode -> PartOrFile \cup {Free}] /\ diskData \in [Inode -> PartOrFile \cup {Free}]
  /\ \A e \in Both : data[e.ino] \in PartOrFile /\ diskData[e.ino] \in PartOrFile
  /\ promised \in Promises

(* Every entry, of the processes or of the disk, is in a directory that the
   disk has, no two are at one place, no file is at two, and a staged file has
   been at no other. *)
TreeInv ==
  /\ \A e \in Both : IF e.in = "cas" THEN e.name \in diskShards ELSE e.in \in diskRunDirs
  /\ \A e \in entries : e.in # "cas" => e.in \in runDirs
  /\ \A e, f \in Both : SamePlace(e, f) => e = f
  /\ \A e, f \in entries : e.ino = f.ino => e = f
  /\ \A e, f \in diskEntries : e.ino = f.ino => e = f
  /\ \A e \in entries, f \in diskEntries : e.ino = f.ino /\ e.in # "cas" => e = f

(* A file of the store is whole and on disk as it is. *)
WholeFile(x) == File(x, TRUE, 400)
StoreInv ==
  \A e \in Both : e.in = "cas" =>
    data[e.ino] = WholeFile(e.name) /\ diskData[e.ino] = WholeFile(e.name)

InCas(set, x) == \E e \in set : e.in = "cas" /\ e.name = x
Clean(r, n) == \A e \in Both : ~(e.in = r /\ e.name = n)
Gone(r, n) == \A e \in entries : ~(e.in = r /\ e.name = n)

(* A staged file is where it was staged, for the processes and on disk; or,
   once a commit has begun, in the store and on disk at one of the two. *)
StagedStill(h) == \E e \in entries \cap diskEntries : e.in = h.run /\ e.name = h.name
StoredInstead(h) ==
  /\ h \notin promised.staged /\ Gone(h.run, h.name)
  /\ \E e \in entries : /\ e.in = "cas" /\ e.name = h.value.digest
                        /\ (e \in diskEntries \/ Entry(h.run, h.name, e.ino) \in diskEntries)

PromiseInv ==
  /\ \A g, h \in promised.kept : g.name = h.name => g = h
  /\ \A h \in promised.kept : StagedStill(h) \/ StoredInstead(h)
  /\ \A h \in promised.kept : \A e \in Both : e.in = h.run /\ e.name = h.name =>
       /\ data[e.ino] = [value |-> h.value, mode |-> 400]
       /\ diskData[e.ino] = [value |-> h.value, mode |-> 400]
  /\ \A x \in promised.committed : InCas(entries \cap diskEntries, x)
  /\ \A x \in promised.deleted : ~InCas(Both, x)
  /\ \A place \in promised.discarded : Clean(place.run, place.name)

SafeInv == TypesInv /\ TreeInv /\ StoreInv /\ PromiseInv

-----------------------------------------------------------------------------
(* How far an operation is: the calls after the first k of a plan are to do. *)

Calls == {"mkdirRun", "syncRun", "syncStaging", "create", "writePart", "writeWhole", "chmod",
          "syncFile", "handOver", "look", "mkdirShard", "syncShard", "syncShards", "lookFinal",
          "rename", "unlinkStage", "unlinkFinal", "rmdirRun"}

Rest(plan, k) ==
  /\ k \in 0..Len(plan) /\ Len(op.todo) = Len(plan) - k
  /\ \A i \in 1..Len(op.todo) : op.todo[i] = plan[k + i]

StagePlan == StageCalls \o <<"handOver">>
PutPlan == StageCalls \o <<"handOver", "look">>
LookPlan == <<"look">>
ShardPlan == <<"mkdirShard", "syncShard", "syncShards", "lookFinal">>
RenamePlan == <<"rename", "syncRun", "syncShard", "rmdirRun">>
LinkedPlan == <<"unlinkStage", "syncRun", "syncShard", "rmdirRun">>
RetryPlan == <<"syncShard", "syncRun", "rmdirRun">>
RetryGonePlan == <<"syncShard", "syncStaging">>
RemovePlan == <<"unlinkStage", "syncRun", "rmdirRun">>
AbsentPlan == <<"syncRun", "rmdirRun">>
LastPlan == <<"syncStaging">>
DeletePlan == <<"unlinkFinal", "syncShard">>
DeletedPlan == <<"syncShard">>
EmptyPlan == <<"rmdirRun">>

Mine == Entry(op.run, op.name, op.ino)

OpTypes ==
  /\ op \in [kind : {"stage", "put", "commit", "discard", "incomplete", "empty", "delete"},
             run : Run, name : StageName, value : Value, ino : Inode \cup {NoInode},
             todo : Seq(Calls), answer : {"none", "STORAGE_FAILED"}]
  /\ op.kind \in {"stage", "put", "commit"} => op.value.whole

(* What an operation may rely on from its beginning to its end. *)
OpOwns ==
  /\ op.kind \in {"stage", "put"} => \A h \in promised.kept : h.name # op.name
  /\ op.kind \in {"put", "commit"} => op.value.digest \notin promised.deleted
  /\ op.kind = "commit" =>
       LET h == [run |-> op.run, name |-> op.name, value |-> op.value]
       IN  h \in promised.kept /\ h \notin promised.staged
  /\ op.kind \in {"discard", "incomplete"} =>
       \A h \in promised.kept : h.run = op.run /\ h.name = op.name => Clean(op.run, op.name)
  /\ op.kind = "delete" =>
       /\ op.value.digest \notin promised.committed
       /\ \A h \in promised.kept : h.value.digest # op.value.digest

(* The new file after the first k calls of stage. *)
Written(k) == IF k <= 5 THEN File(op.value.digest, FALSE, 600)
              ELSE IF k = 6 THEN File(op.value.digest, TRUE, 600) ELSE File(op.value.digest, TRUE, 400)

Staging(k) ==
  /\ k >= 1 => op.run \in runDirs
  /\ k < 4 => Gone(op.run, op.name)
  /\ k \in 2..3 => Clean(op.run, op.name)
  /\ k = 3 => op.run \in diskRunDirs
  /\ k >= 4 => /\ op.ino \in Inode /\ Mine \in entries
               /\ data[op.ino] = Written(k)
  /\ k >= 8 => diskData[op.ino] = data[op.ino]
  /\ k >= 9 => Mine \in diskEntries

(* The file is there, for the processes and on disk, as it was staged. *)
Ready ==
  \E e \in entries \cap diskEntries :
    /\ e.in = op.run /\ e.name = op.name
    /\ data[e.ino] = [value |-> op.value, mode |-> 400]
    /\ diskData[e.ino] = [value |-> op.value, mode |-> 400]

Stored == InCas(entries \cap diskEntries, op.value.digest)
Absent == Gone(op.run, op.name)
AbsentOnDisk == Clean(op.run, op.name)

LastCalls(done) ==
  \/ Rest(LastPlan, 0) /\ op.run \notin runDirs /\ Absent
  \/ op.todo = <<>> /\ done

Committing ==
  \/ Rest(LookPlan, 0) /\ (op.kind = "put" => Ready)
  \/ \E k \in 0..3 :
       /\ Rest(ShardPlan, k) /\ Ready
       /\ k >= 1 => op.value.digest \in shards
       /\ k >= 2 => \A e \in Both : e.in = "cas" /\ e.name = op.value.digest =>
                      e \in entries /\ e \in diskEntries
       /\ k = 3 => op.value.digest \in diskShards
  \/ \E k \in 0..3 :
       /\ Rest(RenamePlan, k)
       /\ k = 0 => Ready /\ ~InCas(Both, op.value.digest) /\ op.value.digest \in diskShards
       /\ k >= 1 => InCas(entries, op.value.digest) /\ Absent
       /\ k >= 2 => AbsentOnDisk
       /\ k >= 3 => Stored
  \/ \E k \in 0..3 :
       /\ Rest(LinkedPlan, k) /\ Stored
       /\ k = 0 => Ready
       /\ k >= 1 => Absent
       /\ k >= 2 => AbsentOnDisk
  \/ \E k \in 0..2 :
       /\ Rest(RetryPlan, k) /\ InCas(entries, op.value.digest) /\ Absent
       /\ k >= 1 => Stored
       /\ k >= 2 => AbsentOnDisk
  \/ Rest(RetryGonePlan, 0) /\ InCas(entries, op.value.digest) /\ Absent /\ op.run \notin runDirs
  \/ Stored /\ LastCalls(AbsentOnDisk)

Discarding ==
  \/ /\ Rest(LookPlan, 0)
     /\ op.kind = "discard" => Absent \/ Holds(op.run, op.name, op.value)
  \/ \E k \in 0..2 :
       Rest(RemovePlan, k) /\ (k >= 1 => Absent) /\ (k >= 2 => AbsentOnDisk)
  \/ \E k \in 0..1 : Rest(AbsentPlan, k) /\ Absent /\ (k >= 1 => AbsentOnDisk)
  \/ LastCalls(AbsentOnDisk)

Deleting ==
  \/ Rest(LookPlan, 0)
  \/ Rest(DeletePlan, 0)
  \/ Rest(DeletedPlan, 0) /\ ~InCas(entries, op.value.digest)
  \/ op.todo = <<>> /\ ~InCas(Both, op.value.digest)

Ending == Rest(EmptyPlan, 0) \/ Rest(LastPlan, 0) \/ op.todo = <<>>

Phase ==
  IF op.answer = "none"
  THEN /\ op.kind = "stage" => \E k \in 0..10 : Rest(StagePlan, k) /\ Staging(k)
       /\ op.kind = "put" => Committing \/ \E k \in 0..9 : Rest(PutPlan, k) /\ Staging(k)
       /\ op.kind = "commit" => Committing
       /\ op.kind \in {"discard", "incomplete"} => Discarding
       /\ op.kind = "empty" => Ending
       /\ op.kind = "delete" => Deleting
  ELSE \/ Ending
       \/ op.kind \in {"stage", "put"} /\ \E k \in 0..2 : Rest(RemovePlan, k)

OpInv == op # Idle => OpTypes /\ OpOwns /\ Phase

FilesInv == SafeInv /\ OpInv

-----------------------------------------------------------------------------
(* What a disk that writes may change: nothing the processes see. *)

DiskMoves ==
  /\ UNCHANGED <<live, promised>>
  /\ \E S : diskEntries' = Synced(S)
  /\ runDirs \subseteq diskRunDirs' \/ diskRunDirs' = diskRunDirs
  /\ diskShards' \in {diskShards, shards}
  /\ \A i \in Inode : data[i] = diskData[i] => diskData'[i] = diskData[i]

(* The entries of some files reach the disk. *)
LEMMA SyncedTree ==
  ASSUME SafeInv, NEW S, diskEntries' = Synced(S), UNCHANGED <<live, promised, diskData>>,
         diskShards' \in {diskShards, shards},
         \A e \in Both' : e.in # "cas" => e.in \in diskRunDirs', diskRunDirs' \subseteq Run
  PROVE  SafeInv'
<1> USE DEF SafeInv
<1>1. Both' \subseteq Both /\ entries' = entries
  BY DEF Both, Synced, live
<1>2. \A e \in entries \cap diskEntries : e \in entries' \cap diskEntries'
  BY DEF Synced, live
<1>3. \A e \in entries : e \in diskEntries' \/ (\A f \in diskEntries : f.ino = e.ino => f \in diskEntries')
  BY DEF Synced
<1>4. TypesInv'
  <2>1. diskEntries' \subseteq Entries /\ diskShards' \subseteq shards
    BY DEF TypesInv, Synced
  <2> QED BY <1>1, <2>1 DEF TypesInv, live
<1>5. TreeInv'
  <2>1. \A e \in Both' : IF e.in = "cas" THEN e.name \in diskShards' ELSE e.in \in diskRunDirs'
    BY <1>1 DEF TreeInv, TypesInv
  <2>2. \A e, f \in diskEntries' : e.ino = f.ino => e = f
    BY DEF TreeInv, Synced
  <2>3. \A e \in entries', f \in diskEntries' : e.ino = f.ino /\ e.in # "cas" => e = f
    BY <1>1 DEF TreeInv, Synced
  <2> QED BY <1>1, <2>1, <2>2, <2>3 DEF TreeInv, live
<1>6. StoreInv'
  BY <1>1 DEF StoreInv, live
<1>7. PromiseInv'
  <2>1. ASSUME NEW h \in promised.kept PROVE StagedStill(h)' \/ StoredInstead(h)'
    <3>1. CASE StagedStill(h)
      BY <1>2, <3>1 DEF StagedStill
    <3>2. CASE StoredInstead(h)
      <4>1. PICK e \in entries : /\ e.in = "cas" /\ e.name = h.value.digest
                                 /\ (e \in diskEntries \/ Entry(h.run, h.name, e.ino) \in diskEntries)
        BY <3>2 DEF StoredInstead
      <4>2. e \in diskEntries' \/ Entry(h.run, h.name, e.ino) \in diskEntries'
        BY <1>3, <4>1 DEF Entry
      <4> QED BY <1>1, <3>2, <4>1, <4>2 DEF StoredInstead, Gone, live
    <3> QED BY <2>1, <3>1, <3>2 DEF PromiseInv
  <2>2. ASSUME NEW x \in promised.committed PROVE InCas(entries \cap diskEntries, x)'
    <3>1. PICK e \in entries \cap diskEntries : e.in = "cas" /\ e.name = x
      BY DEF PromiseInv, InCas
    <3> QED BY <1>2, <3>1 DEF InCas
  <2>3. /\ \A x \in promised.deleted : ~InCas(Both, x)'
        /\ \A place \in promised.discarded : Clean(place.run, place.name)'
    BY <1>1 DEF PromiseInv, InCas, Clean
  <2>4. \A h \in promised.kept : \A e \in Both' : e.in = h.run /\ e.name = h.name =>
          /\ data[e.ino] = [value |-> h.value, mode |-> 400]
          /\ diskData[e.ino] = [value |-> h.value, mode |-> 400]
    BY <1>1 DEF PromiseInv
  <2>5. \A g, h \in promised.kept : g.name = h.name => g = h
    BY DEF PromiseInv
  <2>6. promised' = promised /\ data' = data /\ diskData' = diskData
    BY DEF live
  <2> HIDE DEF SafeInv
  <2> QED BY <2>1, <2>2, <2>3, <2>4, <2>5, <2>6 DEF PromiseInv, InCas, Clean
<1> QED BY <1>4, <1>5, <1>6, <1>7

(* Directories come and go that hold nothing. *)
LEMMA DirsOnly ==
  ASSUME SafeInv, UNCHANGED <<entries, data, diskRunDirs, diskEntries, diskData, promised>>,
         runDirs' \subseteq Run, shards' \subseteq Digest, shards \subseteq shards',
         diskShards' \in {diskShards, shards},
         \A e \in entries : e.in # "cas" => e.in \in runDirs'
  PROVE  SafeInv'
<1>1. TypesInv'
  BY DEF SafeInv, TypesInv, Both
<1>2. TreeInv'
  BY DEF SafeInv, TreeInv, TypesInv, Both
<1>3. StoreInv'
  BY DEF SafeInv, StoreInv, Both
<1>4. PromiseInv'
  BY DEF SafeInv, PromiseInv, Both, StagedStill, StoredInstead, Gone, Clean, InCas
<1> QED BY <1>1, <1>2, <1>3, <1>4 DEF SafeInv

(* The file that a stage writes has been promised to nobody. *)
LEMMA FileWritten ==
  ASSUME SafeInv, NEW m \in entries, m.in # "cas", \A h \in promised.kept : h.name # m.name,
         UNCHANGED <<runDirs, shards, entries, diskRunDirs, diskShards, diskEntries, promised>>,
         data' \in [Inode -> PartOrFile \cup {Free}], data'[m.ino] \in PartOrFile,
         diskData' \in [Inode -> PartOrFile \cup {Free}], diskData'[m.ino] \in PartOrFile,
         \A i \in Inode \ {m.ino} : data'[i] = data[i] /\ diskData'[i] = diskData[i]
  PROVE  SafeInv'
<1>1. \A e \in Both : e.ino \in Inode /\ (e.ino = m.ino => e = m)
  BY DEF SafeInv, TreeInv, TypesInv, Both, Entries
<1>2. TypesInv'
  BY <1>1 DEF SafeInv, TypesInv, Both
<1>3. TreeInv'
  BY DEF SafeInv, TreeInv, Both
<1>4. StoreInv'
  <2>1. \A e \in Both : e.in = "cas" => data'[e.ino] = data[e.ino] /\ diskData'[e.ino] = diskData[e.ino]
    BY <1>1
  <2>2. Both' = Both
    BY DEF Both
  <2> QED BY <2>1, <2>2 DEF SafeInv, StoreInv
<1>5. PromiseInv'
  <2>1. \A h \in promised.kept : \A e \in Both : e.in = h.run /\ e.name = h.name =>
          data'[e.ino] = data[e.ino] /\ diskData'[e.ino] = diskData[e.ino]
    BY <1>1
  <2>2. \A h \in promised.kept : StagedStill(h)' \/ StoredInstead(h)'
    BY DEF SafeInv, PromiseInv, StagedStill, StoredInstead, Gone
  <2> QED BY <2>1, <2>2 DEF SafeInv, PromiseInv, Both, Clean, InCas
<1> QED BY <1>2, <1>3, <1>4, <1>5 DEF SafeInv

(* The kernel writes a part of what is in memory. *)
LEMMA DataReachesDisk ==
  ASSUME SafeInv, NEW i \in Used(entries),
         UNCHANGED <<live, diskRunDirs, diskShards, diskEntries, promised>>,
         \/ diskData' = [diskData EXCEPT ![i].value = data[i].value]
         \/ diskData' = [diskData EXCEPT ![i].mode = data[i].mode]
  PROVE  SafeInv' /\ \A j \in Inode : data[j] = diskData[j] => diskData'[j] = diskData[j]
<1>1. /\ i \in Inode /\ data[i] \in PartOrFile /\ diskData[i] \in PartOrFile
      /\ diskData \in [Inode -> PartOrFile \cup {Free}]
  BY DEF Used, SafeInv, TypesInv, Both, Entries
<1>2. /\ diskData' \in [Inode -> PartOrFile \cup {Free}] /\ diskData'[i] \in PartOrFile
      /\ \A j \in Inode \ {i} : diskData'[j] = diskData[j]
      /\ data[i] = diskData[i] => diskData'[i] = diskData[i]
  BY <1>1 DEF PartOrFile
<1>3. \A j \in Inode : data[j] = diskData[j] => diskData'[j] = diskData[j]
  BY <1>2
<1>4. TypesInv'
  <2>1. \A e \in Both : e.ino \in Inode /\ data[e.ino] \in PartOrFile /\ diskData'[e.ino] \in PartOrFile
    BY <1>2 DEF SafeInv, TypesInv, Both, Entries
  <2>2. Both' = Both
    BY DEF Both, live
  <2> QED BY <1>2, <2>1, <2>2 DEF SafeInv, TypesInv, live
<1>5. TreeInv'
  BY DEF SafeInv, TreeInv, Both, live
<1>6. \A e \in Both : e.ino \in Inode
  BY DEF SafeInv, TypesInv, Both, Entries
<1>7. StoreInv'
  <2>1. \A e \in Both : e.in = "cas" => diskData'[e.ino] = diskData[e.ino]
    BY <1>3, <1>6 DEF SafeInv, StoreInv
  <2>2. Both' = Both /\ data' = data
    BY DEF Both, live
  <2> QED BY <2>1, <2>2 DEF SafeInv, StoreInv
<1>8. PromiseInv'
  <2>1. \A h \in promised.kept : StagedStill(h)' \/ StoredInstead(h)'
    BY DEF SafeInv, PromiseInv, StagedStill, StoredInstead, Gone, live
  <2> QED BY <1>3, <1>6, <2>1 DEF SafeInv, PromiseInv, Both, Clean, InCas, live
<1> QED BY <1>3, <1>4, <1>5, <1>7, <1>8 DEF SafeInv

(* What is unlinked is nothing that was promised to stay. *)
LEMMA Unlinked ==
  ASSUME SafeInv, NEW G \in SUBSET entries, entries' = entries \ G,
         UNCHANGED <<runDirs, shards, data, disk, promised>>,
         \A h \in promised.kept : StagedStill(h)' \/ StoredInstead(h)',
         \A e \in G : e.in = "cas" => e.name \notin promised.committed
  PROVE  SafeInv'
<1>1. Both' \subseteq Both /\ diskEntries' = diskEntries
  BY DEF Both, disk
<1>2. TypesInv'
  BY <1>1 DEF SafeInv, TypesInv, disk
<1>3. TreeInv'
  BY <1>1 DEF SafeInv, TreeInv, disk
<1>4. StoreInv'
  BY <1>1 DEF SafeInv, StoreInv, disk
<1>5. PromiseInv'
  <2>1. ASSUME NEW x \in promised.committed PROVE InCas(entries \cap diskEntries, x)'
    <3>1. PICK e \in entries \cap diskEntries : e.in = "cas" /\ e.name = x
      BY DEF SafeInv, PromiseInv, InCas
    <3>2. e \notin G
      BY <2>1, <3>1
    <3> QED BY <1>1, <3>1, <3>2 DEF InCas
  <2>2. /\ \A x \in promised.deleted : ~InCas(Both, x)'
        /\ \A place \in promised.discarded : Clean(place.run, place.name)'
    BY <1>1 DEF SafeInv, PromiseInv, InCas, Clean
  <2>3. \A h \in promised.kept : \A e \in Both' : e.in = h.run /\ e.name = h.name =>
          /\ data[e.ino] = [value |-> h.value, mode |-> 400]
          /\ diskData[e.ino] = [value |-> h.value, mode |-> 400]
    BY <1>1 DEF SafeInv, PromiseInv
  <2>4. \A g, h \in promised.kept : g.name = h.name => g = h
    BY DEF SafeInv, PromiseInv
  <2>5. promised' = promised /\ data' = data /\ diskData' = diskData
    BY DEF disk
  <2> QED BY <2>1, <2>2, <2>3, <2>4, <2>5 DEF PromiseInv, InCas, Clean
<1> QED BY <1>2, <1>3, <1>4, <1>5 DEF SafeInv

(* A new file, at a place that neither the processes nor the disk use. *)
LEMMA Created ==
  ASSUME StoreIsNoRun, SafeInv, NEW i \in Inode \ Used(Both), NEW r \in Run, NEW n \in StageName,
         Clean(r, n), r \in runDirs, r \in diskRunDirs,
         \A h \in promised.kept : h.name # n,
         entries' = entries \cup {Entry(r, n, i)},
         data' \in [Inode -> PartOrFile \cup {Free}], data'[i] \in PartOrFile,
         diskData' \in [Inode -> PartOrFile \cup {Free}], diskData'[i] \in PartOrFile,
         \A j \in Inode \ {i} : data'[j] = data[j] /\ diskData'[j] = diskData[j],
         promised' \in Promises,
         promised'.staged = promised.staged, promised'.kept = promised.kept,
         promised'.committed = promised.committed, promised'.deleted = promised.deleted,
         promised'.discarded = promised.discarded \ {[run |-> r, name |-> n]},
         UNCHANGED <<runDirs, shards, diskRunDirs, diskShards, diskEntries>>
  PROVE  SafeInv'
<1> DEFINE m == Entry(r, n, i)
<1>1. /\ m \in Entries /\ m.in = r /\ m.in # "cas" /\ m.name = n /\ m.ino = i
      /\ Both' = Both \cup {m} /\ \A e \in Both : e.ino # i /\ e.ino \in Inode
  BY DEF Entry, Entries, StoreIsNoRun, Used, Both, SafeInv, TypesInv
<1> HIDE DEF m
<1>4. TypesInv'
  <2>1. entries' \subseteq Entries
    BY <1>1 DEF SafeInv, TypesInv, m
  <2>2. ASSUME NEW e \in Both' PROVE data'[e.ino] \in PartOrFile /\ diskData'[e.ino] \in PartOrFile
    <3>1. CASE e = m
      <4>1. e.ino = i
        BY <1>1, <3>1
      <4> QED BY <4>1
    <3>2. CASE e \in Both
      <4>1. e.ino \in Inode \ {i}
        BY <1>1, <3>2
      <4>2. data[e.ino] \in PartOrFile /\ diskData[e.ino] \in PartOrFile
        BY <3>2 DEF SafeInv, TypesInv
      <4> QED BY <4>1, <4>2
    <3> QED BY <1>1, <3>1, <3>2
  <2> QED BY <2>1, <2>2 DEF SafeInv, TypesInv
<1>5. TreeInv'
  <2>1. \A e \in Both : ~SamePlace(e, m) /\ ~SamePlace(m, e)
    BY <1>1 DEF SamePlace, Clean
  <2>2. entries' = entries \cup {m}
    BY DEF m
  <2>3. \A e \in Both' : IF e.in = "cas" THEN e.name \in diskShards ELSE e.in \in diskRunDirs
    BY <1>1 DEF SafeInv, TreeInv
  <2>4. \A e \in entries' : e.in # "cas" => e.in \in runDirs
    BY <1>1, <2>2 DEF SafeInv, TreeInv
  <2>5. \A e, f \in Both' : SamePlace(e, f) => e = f
    BY <1>1, <2>1 DEF SafeInv, TreeInv
  <2>6. /\ \A e, f \in entries' : e.ino = f.ino => e = f
        /\ \A e \in entries', f \in diskEntries : e.ino = f.ino /\ e.in # "cas" => e = f
    BY <1>1, <2>2 DEF SafeInv, TreeInv, Both
  <2>7. \A e, f \in diskEntries : e.ino = f.ino => e = f
    BY DEF SafeInv, TreeInv
  <2> QED BY <2>3, <2>4, <2>5, <2>6, <2>7 DEF TreeInv, SamePlace
<1>6. StoreInv'
  BY <1>1 DEF SafeInv, StoreInv
<1>7. PromiseInv'
  <2>1. ASSUME NEW h \in promised.kept PROVE StagedStill(h)' \/ StoredInstead(h)'
    <3>1. h.name # n
      BY <2>1
    <3>2. CASE StagedStill(h)
      BY <3>2 DEF StagedStill
    <3>3. CASE StoredInstead(h)
      BY <1>1, <3>1, <3>3 DEF StoredInstead, Gone, m
    <3> QED BY <2>1, <3>2, <3>3 DEF SafeInv, PromiseInv
  <2>2. \A y \in promised.committed : InCas(entries \cap diskEntries, y)'
    BY DEF SafeInv, PromiseInv, InCas
  <2>3. \A y \in promised.deleted : ~InCas(Both, y)'
    BY <1>1 DEF SafeInv, PromiseInv, InCas
  <2>4. ASSUME NEW place \in promised'.discarded PROVE Clean(place.run, place.name)'
    <3>1. place \in promised.discarded /\ place # [run |-> r, name |-> n]
      BY <2>4
    <3>2. ~(place.run = r /\ place.name = n)
      BY <3>1 DEF SafeInv, TypesInv, Promises
    <3> QED BY <1>1, <3>1, <3>2 DEF SafeInv, PromiseInv, Clean
  <2>5. ASSUME NEW h \in promised.kept, NEW e \in Both', e.in = h.run, e.name = h.name
        PROVE  /\ data'[e.ino] = [value |-> h.value, mode |-> 400]
               /\ diskData'[e.ino] = [value |-> h.value, mode |-> 400]
    <3>1. e \in Both /\ e.ino \in Inode \ {i}
      BY <1>1, <2>5
    <3>2. /\ data[e.ino] = [value |-> h.value, mode |-> 400]
          /\ diskData[e.ino] = [value |-> h.value, mode |-> 400]
      BY <2>5, <3>1 DEF SafeInv, PromiseInv
    <3>3. data'[e.ino] = data[e.ino] /\ diskData'[e.ino] = diskData[e.ino]
      BY <3>1
    <3> QED BY <3>2, <3>3
  <2>6. \A g, h \in promised.kept : g.name = h.name => g = h
    BY DEF SafeInv, PromiseInv
  <2>7. /\ promised'.kept = promised.kept
        /\ promised'.committed = promised.committed /\ promised'.deleted = promised.deleted
    OBVIOUS
  <2>8. \A h \in promised'.kept : StagedStill(h)' \/ StoredInstead(h)'
    BY <2>1, <2>7
  <2>9. \A h \in promised'.kept : \A e \in Both' : e.in = h.run /\ e.name = h.name =>
          /\ data'[e.ino] = [value |-> h.value, mode |-> 400]
          /\ diskData'[e.ino] = [value |-> h.value, mode |-> 400]
    BY <2>5, <2>7
  <2> QED BY <2>2, <2>3, <2>4, <2>6, <2>7, <2>8, <2>9 DEF PromiseInv, InCas, Clean
<1> QED BY <1>4, <1>5, <1>6, <1>7 DEF SafeInv

(* A staged file becomes the artifact: it was there as a whole, on disk too. *)
LEMMA Renamed ==
  ASSUME StoreIsNoRun, SafeInv, NEW m \in entries \cap diskEntries, m.in # "cas",
         NEW x \in diskShards,
         data[m.ino] = WholeFile(x), diskData[m.ino] = WholeFile(x),
         ~InCas(Both, x), x \notin promised.deleted,
         \A h \in promised.kept : h.run = m.in /\ h.name = m.name =>
           h \notin promised.staged /\ h.value.digest = x,
         entries' = (entries \ {m}) \cup {Entry("cas", x, m.ino)},
         UNCHANGED <<runDirs, shards, data, disk, promised>>
  PROVE  SafeInv'
<1> DEFINE new == Entry("cas", x, m.ino)
<1>1. /\ new \in Entries /\ new.in = "cas" /\ new.name = x /\ new.ino = m.ino /\ new \notin Both
      /\ m = Entry(m.in, m.name, m.ino)
  BY DEF Entry, Entries, SafeInv, TypesInv, InCas
<1> HIDE DEF new
<1>2. /\ entries' = (entries \ {m}) \cup {new} /\ diskEntries' = diskEntries
      /\ Both' \subseteq Both \cup {new} /\ m \in Both
  BY DEF Both, disk, new
<1>3. TypesInv'
  <2>1. entries' \subseteq Entries
    BY <1>1, <1>2 DEF SafeInv, TypesInv
  <2>2. \A e \in Both' : data[e.ino] \in PartOrFile /\ diskData[e.ino] \in PartOrFile
    BY <1>1, <1>2 DEF SafeInv, TypesInv
  <2> QED BY <2>1, <2>2 DEF SafeInv, TypesInv, disk
<1>4. TreeInv'
  <2>1. \A e \in Both' : IF e.in = "cas" THEN e.name \in diskShards ELSE e.in \in diskRunDirs
    BY <1>1, <1>2 DEF SafeInv, TreeInv
  <2>2. \A e \in entries' : e.in # "cas" => e.in \in runDirs
    BY <1>1, <1>2 DEF SafeInv, TreeInv
  <2>3. \A e \in Both : ~SamePlace(e, new) /\ ~SamePlace(new, e)
    BY <1>1 DEF SamePlace, InCas
  <2>4. \A e, f \in Both' : SamePlace(e, f) => e = f
    BY <1>2, <2>3 DEF SafeInv, TreeInv
  <2>5. /\ \A e, f \in entries' : e.ino = f.ino => e = f
        /\ \A e \in entries', f \in diskEntries : e.ino = f.ino /\ e.in # "cas" => e = f
    BY <1>1, <1>2 DEF SafeInv, TreeInv
  <2>6. \A e, f \in diskEntries : e.ino = f.ino => e = f
    BY DEF SafeInv, TreeInv
  <2> QED BY <2>1, <2>2, <2>4, <2>5, <2>6 DEF TreeInv, SamePlace, disk
<1>5. StoreInv'
  <2>1. ASSUME NEW e \in Both', e.in = "cas"
        PROVE  data[e.ino] = WholeFile(e.name) /\ diskData[e.ino] = WholeFile(e.name)
    <3>1. CASE e = new
      BY <1>1, <3>1
    <3>2. CASE e \in Both
      BY <2>1, <3>2 DEF SafeInv, StoreInv
    <3> QED BY <1>2, <3>1, <3>2
  <2> QED BY <2>1 DEF StoreInv, disk
<1>6. PromiseInv'
  <2>1. ASSUME NEW h \in promised.kept PROVE StagedStill(h)' \/ StoredInstead(h)'
    <3>1. CASE StagedStill(h)
      <4>1. PICK e \in entries \cap diskEntries : e.in = h.run /\ e.name = h.name
        BY <3>1 DEF StagedStill
      <4>2. CASE e # m
        BY <1>2, <4>1, <4>2 DEF StagedStill
      <4>3. CASE e = m
        <5>1. h \notin promised.staged /\ h.value.digest = x /\ promised' = promised
          BY <4>1, <4>3
        <5>2. Gone(h.run, h.name)'
          <6>1. ASSUME NEW f \in entries', f.in = h.run, f.name = h.name PROVE FALSE
            <7>1. h.run # "cas"
              BY <4>1, <4>3
            <7>2. f \in entries /\ f # m /\ SamePlace(f, m)
              BY <1>1, <1>2, <4>1, <4>3, <6>1, <7>1 DEF SamePlace
            <7> QED BY <7>2 DEF SafeInv, TreeInv, Both
          <6> QED BY <6>1 DEF Gone
        <5>3. new \in entries' /\ Entry(h.run, h.name, new.ino) \in diskEntries'
          BY <1>1, <1>2, <4>1, <4>3
        <5> QED BY <1>1, <5>1, <5>2, <5>3 DEF StoredInstead
      <4> QED BY <4>2, <4>3
    <3>2. CASE StoredInstead(h)
      <4>1. PICK e \in entries : /\ e.in = "cas" /\ e.name = h.value.digest
                                 /\ (e \in diskEntries \/ Entry(h.run, h.name, e.ino) \in diskEntries)
        BY <3>2 DEF StoredInstead
      <4>2. e \in entries'
        BY <1>2, <4>1
      <4>3. h.run # "cas"
        BY <2>1 DEF SafeInv, TypesInv, Promises, Handle, StoreIsNoRun
      <4>4. Gone(h.run, h.name)'
        BY <1>1, <1>2, <3>2, <4>3 DEF StoredInstead, Gone
      <4> QED BY <1>2, <3>2, <4>1, <4>2, <4>4 DEF StoredInstead
    <3> QED BY <2>1, <3>1, <3>2 DEF SafeInv, PromiseInv
  <2>2. ASSUME NEW y \in promised.committed PROVE InCas(entries \cap diskEntries, y)'
    <3>1. PICK e \in entries \cap diskEntries : e.in = "cas" /\ e.name = y
      BY DEF SafeInv, PromiseInv, InCas
    <3> QED BY <1>2, <3>1 DEF InCas
  <2>3. \A y \in promised.deleted : ~InCas(Both, y)'
    BY <1>1, <1>2 DEF SafeInv, PromiseInv, InCas
  <2>4. \A place \in promised.discarded : place.run # "cas"
    BY DEF SafeInv, TypesInv, Promises, StoreIsNoRun
  <2>5. \A place \in promised.discarded : Clean(place.run, place.name)'
    BY <1>1, <1>2, <2>4 DEF SafeInv, PromiseInv, Clean
  <2>6. \A h \in promised.kept : \A e \in Both' : e.in = h.run /\ e.name = h.name =>
          /\ data[e.ino] = [value |-> h.value, mode |-> 400]
          /\ diskData[e.ino] = [value |-> h.value, mode |-> 400]
    <3>1. \A h \in promised.kept : h.run # "cas"
      BY DEF SafeInv, TypesInv, Promises, Handle, StoreIsNoRun
    <3> QED BY <1>1, <1>2, <3>1 DEF SafeInv, PromiseInv
  <2>7. \A g, h \in promised.kept : g.name = h.name => g = h
    BY DEF SafeInv, PromiseInv
  <2>8. promised' = promised /\ data' = data /\ diskData' = diskData
    BY DEF disk
  <2> QED BY <2>1, <2>2, <2>3, <2>5, <2>6, <2>7, <2>8 DEF PromiseInv, InCas, Clean
<1> QED BY <1>3, <1>4, <1>5, <1>6 DEF SafeInv

(* The power goes out: what was on disk is all there is. *)
LEMMA PowerFailsSafe == ASSUME SafeInv, PowerFails PROVE SafeInv'
<1>1. Found = diskEntries
  BY DEF Found, SafeInv, TypesInv, TreeInv, Entries, Both
<1>2. /\ entries' = diskEntries /\ diskEntries' = diskEntries /\ Both' = diskEntries
      /\ diskEntries \subseteq Both /\ promised' = promised
      /\ data' = diskData /\ diskData' = diskData
      /\ runDirs' = diskRunDirs /\ diskRunDirs' = diskRunDirs
      /\ shards' = diskShards /\ diskShards' = diskShards
  BY <1>1 DEF PowerFails, Both
<1>3. TypesInv'
  <2>1. \A e \in diskEntries : diskData[e.ino] \in PartOrFile
    BY <1>2 DEF SafeInv, TypesInv
  <2>2. diskShards \subseteq Digest
    BY DEF SafeInv, TypesInv
  <2> QED BY <1>2, <2>1, <2>2 DEF SafeInv, TypesInv
<1>4. TreeInv'
  BY <1>2 DEF SafeInv, TreeInv, SamePlace
<1>5. StoreInv'
  BY <1>2 DEF SafeInv, StoreInv
<1>6. PromiseInv'
  <2>1. ASSUME NEW h \in promised.kept PROVE StagedStill(h)' \/ StoredInstead(h)'
    <3>1. CASE \E e \in diskEntries : e.in = h.run /\ e.name = h.name
      BY <1>2, <3>1 DEF StagedStill
    <3>2. CASE ~\E e \in diskEntries : e.in = h.run /\ e.name = h.name
      <4>1. StoredInstead(h)
        BY <2>1, <3>2 DEF SafeInv, PromiseInv, StagedStill
      <4>2. PICK e \in entries : /\ e.in = "cas" /\ e.name = h.value.digest
                                 /\ (e \in diskEntries \/ Entry(h.run, h.name, e.ino) \in diskEntries)
        BY <4>1 DEF StoredInstead
      <4>3. e \in diskEntries
        BY <3>2, <4>2 DEF Entry
      <4> QED BY <1>2, <3>2, <4>1, <4>2, <4>3 DEF StoredInstead, Gone
    <3> QED BY <3>1, <3>2
  <2>2. \A h \in promised.kept : \A e \in Both' : e.in = h.run /\ e.name = h.name =>
          diskData[e.ino] = [value |-> h.value, mode |-> 400]
    BY <1>2 DEF SafeInv, PromiseInv
  <2>3. ASSUME NEW x \in promised.committed PROVE InCas(entries \cap diskEntries, x)'
    <3>1. PICK e \in entries \cap diskEntries : e.in = "cas" /\ e.name = x
      BY DEF SafeInv, PromiseInv, InCas
    <3> QED BY <1>2, <3>1 DEF InCas
  <2>4. /\ \A x \in promised.deleted : ~InCas(Both, x)'
        /\ \A place \in promised.discarded : Clean(place.run, place.name)'
    BY <1>2 DEF SafeInv, PromiseInv, InCas, Clean
  <2>5. \A g, h \in promised.kept : g.name = h.name => g = h
    BY DEF SafeInv, PromiseInv
  <2> QED BY <1>2, <2>1, <2>2, <2>3, <2>4, <2>5 DEF PromiseInv, InCas, Clean
<1> QED BY <1>3, <1>4, <1>5, <1>6 DEF SafeInv

-----------------------------------------------------------------------------
(* The calls of an operation. *)

SameOp == /\ op'.kind = op.kind /\ op'.run = op.run /\ op'.name = op.name /\ op'.value = op.value
          /\ op'.ino = op.ino /\ op'.answer = op.answer

(* Taking a call from a plan. *)
LEMMA Takes ==
  ASSUME OpTypes, NEW plan \in Seq(Calls), NEW k, Rest(plan, k), op.todo # <<>>,
         op'.todo = Tail(op.todo)
  PROVE  k \in 0..(Len(plan) - 1) /\ Head(op.todo) = plan[k + 1] /\ Rest(plan, k + 1)'
<1>1. /\ op.todo \in Seq(Calls) /\ Len(op.todo) \in Nat /\ Len(op.todo) > 0 /\ Len(plan) \in Nat
      /\ k \in 0..Len(plan) /\ Len(op.todo) = Len(plan) - k
      /\ \A i \in 1..Len(op.todo) : op.todo[i] = plan[k + i]
  BY DEF OpTypes, Rest
<1>2. /\ Len(op'.todo) = Len(op.todo) - 1
      /\ \A i \in 1..Len(op'.todo) : op'.todo[i] = op.todo[i + 1]
  BY <1>1
<1>3. \A i \in 1..Len(op'.todo) : op'.todo[i] = plan[(k + 1) + i]
  <2> TAKE i \in 1..Len(op'.todo)
  <2>1. i + 1 \in 1..Len(op.todo)
    BY <1>1, <1>2
  <2>2. op.todo[i + 1] = plan[k + (i + 1)] /\ k + (i + 1) = (k + 1) + i
    BY <1>1, <2>1
  <2> QED BY <1>2, <2>2
<1>4. Head(op.todo) = plan[k + 1]
  BY <1>1
<1> QED BY <1>1, <1>2, <1>3, <1>4 DEF Rest

(* A plan begins, or comes to its end. *)
LEMMA Starts ==
  ASSUME NEW plan \in Seq(Calls), op'.todo = plan PROVE Rest(plan, 0)'
BY DEF Rest

LEMMA Ends ==
  ASSUME OpTypes, NEW plan \in Seq(Calls), NEW k, Rest(plan, k)
  PROVE  op.todo = <<>> <=> k = Len(plan)
BY DEF OpTypes, Rest

(* What the plans are. *)
LEMMA Plans ==
  /\ StagePlan \in Seq(Calls) /\ Len(StagePlan) = 10
  /\ PutPlan \in Seq(Calls) /\ Len(PutPlan) = 11 /\ PutPlan[11] = "look"
  /\ \A plan \in {StagePlan, PutPlan} :
       /\ plan[1] = "mkdirRun" /\ plan[2] = "syncRun" /\ plan[3] = "syncStaging"
       /\ plan[4] = "create" /\ plan[5] = "writePart" /\ plan[6] = "writeWhole"
       /\ plan[7] = "chmod" /\ plan[8] = "syncFile" /\ plan[9] = "syncRun" /\ plan[10] = "handOver"
<1>1. /\ StageCalls \in Seq(Calls) /\ Len(StageCalls) = 9
      /\ StageCalls[1] = "mkdirRun" /\ StageCalls[2] = "syncRun" /\ StageCalls[3] = "syncStaging"
      /\ StageCalls[4] = "create" /\ StageCalls[5] = "writePart" /\ StageCalls[6] = "writeWhole"
      /\ StageCalls[7] = "chmod" /\ StageCalls[8] = "syncFile" /\ StageCalls[9] = "syncRun"
  BY DEF StageCalls, Calls
<1>2. /\ <<"handOver">> \in Seq(Calls) /\ Len(<<"handOver">>) = 1 /\ <<"handOver">>[1] = "handOver"
      /\ <<"handOver", "look">> \in Seq(Calls) /\ Len(<<"handOver", "look">>) = 2
      /\ <<"handOver", "look">>[1] = "handOver" /\ <<"handOver", "look">>[2] = "look"
  BY DEF Calls
<1>3. ASSUME NEW s \in Seq(Calls), NEW t \in Seq(Calls)
      PROVE  /\ s \o t \in Seq(Calls) /\ Len(s \o t) = Len(s) + Len(t)
             /\ \A i \in 1..Len(s) : (s \o t)[i] = s[i]
             /\ \A i \in 1..Len(t) : (s \o t)[Len(s) + i] = t[i]
  OBVIOUS
<1>4. ASSUME NEW t \in Seq(Calls), t[1] = "handOver", Len(t) \in 1..2
      PROVE  /\ StageCalls \o t \in Seq(Calls) /\ Len(StageCalls \o t) = 9 + Len(t)
             /\ (StageCalls \o t)[10] = "handOver"
             /\ (Len(t) = 2 => (StageCalls \o t)[11] = t[2])
             /\ \A i \in 1..9 : (StageCalls \o t)[i] = StageCalls[i]
  <2>1. 1 \in 1..Len(t) /\ (Len(t) = 2 => 2 \in 1..Len(t)) /\ 9 + 1 = 10 /\ 9 + 2 = 11
    BY <1>4
  <2>2. /\ (StageCalls \o t)[Len(StageCalls) + 1] = t[1]
        /\ (Len(t) = 2 => (StageCalls \o t)[Len(StageCalls) + 2] = t[2])
    BY <1>1, <1>3, <1>4, <2>1
  <2>3. /\ StageCalls \o t \in Seq(Calls) /\ Len(StageCalls \o t) = 9 + Len(t)
        /\ \A i \in 1..9 : (StageCalls \o t)[i] = StageCalls[i]
    <3>1. /\ StageCalls \o t \in Seq(Calls) /\ Len(StageCalls \o t) = Len(StageCalls) + Len(t)
          /\ \A i \in 1..Len(StageCalls) : (StageCalls \o t)[i] = StageCalls[i]
      BY <1>1, <1>3, <1>4
    <3> QED BY <1>1, <3>1
  <2> QED BY <1>1, <1>4, <2>1, <2>2, <2>3
<1>5. /\ StagePlan \in Seq(Calls) /\ Len(StagePlan) = 10 /\ StagePlan[10] = "handOver"
      /\ \A i \in 1..9 : StagePlan[i] = StageCalls[i]
  <2>1. Len(<<"handOver">>) \in 1..2 /\ 9 + 1 = 10
    BY <1>2
  <2> QED BY <1>2, <1>4, <2>1 DEF StagePlan
<1>6. /\ PutPlan \in Seq(Calls) /\ Len(PutPlan) = 11 /\ PutPlan[10] = "handOver"
      /\ PutPlan[11] = "look" /\ \A i \in 1..9 : PutPlan[i] = StageCalls[i]
  <2>1. Len(<<"handOver", "look">>) \in 1..2 /\ 9 + 2 = 11
    BY <1>2
  <2> QED BY <1>2, <1>4, <2>1 DEF PutPlan
<1> QED BY <1>1, <1>5, <1>6

LEMMA ShortPlans ==
  /\ LookPlan \in Seq(Calls) /\ Len(LookPlan) = 1 /\ LookPlan[1] = "look"
  /\ ShardPlan \in Seq(Calls) /\ Len(ShardPlan) = 4 /\ ShardPlan[1] = "mkdirShard"
  /\ ShardPlan[2] = "syncShard" /\ ShardPlan[3] = "syncShards" /\ ShardPlan[4] = "lookFinal"
  /\ RenamePlan \in Seq(Calls) /\ Len(RenamePlan) = 4 /\ RenamePlan[1] = "rename"
  /\ RenamePlan[2] = "syncRun" /\ RenamePlan[3] = "syncShard" /\ RenamePlan[4] = "rmdirRun"
  /\ LinkedPlan \in Seq(Calls) /\ Len(LinkedPlan) = 4 /\ LinkedPlan[1] = "unlinkStage"
  /\ LinkedPlan[2] = "syncRun" /\ LinkedPlan[3] = "syncShard" /\ LinkedPlan[4] = "rmdirRun"
  /\ RetryPlan \in Seq(Calls) /\ Len(RetryPlan) = 3 /\ RetryPlan[1] = "syncShard"
  /\ RetryPlan[2] = "syncRun" /\ RetryPlan[3] = "rmdirRun"
  /\ RetryGonePlan \in Seq(Calls) /\ Len(RetryGonePlan) = 2 /\ RetryGonePlan[1] = "syncShard"
  /\ RetryGonePlan[2] = "syncStaging"
  /\ RemovePlan \in Seq(Calls) /\ Len(RemovePlan) = 3 /\ RemovePlan[1] = "unlinkStage"
  /\ RemovePlan[2] = "syncRun" /\ RemovePlan[3] = "rmdirRun"
  /\ AbsentPlan \in Seq(Calls) /\ Len(AbsentPlan) = 2 /\ AbsentPlan[1] = "syncRun"
  /\ AbsentPlan[2] = "rmdirRun"
  /\ LastPlan \in Seq(Calls) /\ Len(LastPlan) = 1 /\ LastPlan[1] = "syncStaging"
  /\ DeletePlan \in Seq(Calls) /\ Len(DeletePlan) = 2 /\ DeletePlan[1] = "unlinkFinal"
  /\ DeletePlan[2] = "syncShard"
  /\ DeletedPlan \in Seq(Calls) /\ Len(DeletedPlan) = 1 /\ DeletedPlan[1] = "syncShard"
  /\ EmptyPlan \in Seq(Calls) /\ Len(EmptyPlan) = 1 /\ EmptyPlan[1] = "rmdirRun"
<1>1. /\ LookPlan \in Seq(Calls) /\ Len(LookPlan) = 1 /\ LookPlan[1] = "look"
  BY DEF LookPlan, Calls
<1>2. /\ ShardPlan \in Seq(Calls) /\ Len(ShardPlan) = 4 /\ ShardPlan[1] = "mkdirShard"
      /\ ShardPlan[2] = "syncShard" /\ ShardPlan[3] = "syncShards"
      /\ ShardPlan[4] = "lookFinal"
  BY DEF ShardPlan, Calls
<1>3. /\ RenamePlan \in Seq(Calls) /\ Len(RenamePlan) = 4 /\ RenamePlan[1] = "rename"
      /\ RenamePlan[2] = "syncRun" /\ RenamePlan[3] = "syncShard"
      /\ RenamePlan[4] = "rmdirRun"
  BY DEF RenamePlan, Calls
<1>4. /\ LinkedPlan \in Seq(Calls) /\ Len(LinkedPlan) = 4
      /\ LinkedPlan[1] = "unlinkStage" /\ LinkedPlan[2] = "syncRun"
      /\ LinkedPlan[3] = "syncShard" /\ LinkedPlan[4] = "rmdirRun"
  BY DEF LinkedPlan, Calls
<1>5. /\ RetryPlan \in Seq(Calls) /\ Len(RetryPlan) = 3 /\ RetryPlan[1] = "syncShard"
      /\ RetryPlan[2] = "syncRun" /\ RetryPlan[3] = "rmdirRun"
  BY DEF RetryPlan, Calls
<1>6. /\ RetryGonePlan \in Seq(Calls) /\ Len(RetryGonePlan) = 2
      /\ RetryGonePlan[1] = "syncShard" /\ RetryGonePlan[2] = "syncStaging"
  BY DEF RetryGonePlan, Calls
<1>7. /\ RemovePlan \in Seq(Calls) /\ Len(RemovePlan) = 3
      /\ RemovePlan[1] = "unlinkStage" /\ RemovePlan[2] = "syncRun"
      /\ RemovePlan[3] = "rmdirRun"
  BY DEF RemovePlan, Calls
<1>8. /\ AbsentPlan \in Seq(Calls) /\ Len(AbsentPlan) = 2 /\ AbsentPlan[1] = "syncRun"
      /\ AbsentPlan[2] = "rmdirRun"
  BY DEF AbsentPlan, Calls
<1>9. /\ LastPlan \in Seq(Calls) /\ Len(LastPlan) = 1 /\ LastPlan[1] = "syncStaging"
  BY DEF LastPlan, Calls
<1>10. /\ DeletePlan \in Seq(Calls) /\ Len(DeletePlan) = 2
       /\ DeletePlan[1] = "unlinkFinal" /\ DeletePlan[2] = "syncShard"
  BY DEF DeletePlan, Calls
<1>11. /\ DeletedPlan \in Seq(Calls) /\ Len(DeletedPlan) = 1
       /\ DeletedPlan[1] = "syncShard"
  BY DEF DeletedPlan, Calls
<1>12. /\ EmptyPlan \in Seq(Calls) /\ Len(EmptyPlan) = 1 /\ EmptyPlan[1] = "rmdirRun"
  BY DEF EmptyPlan, Calls
<1> QED BY <1>1, <1>2, <1>3, <1>4, <1>5, <1>6, <1>7, <1>8, <1>9, <1>10, <1>11, <1>12

(* The head of the list is the call that is made. *)
LEMMA StepIs ==
  ASSUME Step
  PROVE  /\ op.todo # <<>>
         /\ Head(op.todo) = "create" => Create
         /\ Head(op.todo) # "create" => UNCHANGED promised
         /\ Head(op.todo) = "look" => Look
         /\ Head(op.todo) = "lookFinal" => LookFinal
         /\ Head(op.todo) = "mkdirRun" => MkdirRun
         /\ Head(op.todo) = "mkdirShard" => MkdirShard
         /\ Head(op.todo) \in {"writePart", "handOver"} => HandOver
         /\ Head(op.todo) = "writeWhole" => WriteWhole
         /\ Head(op.todo) = "chmod" => Chmod
         /\ Head(op.todo) = "syncFile" => SyncFile
         /\ Head(op.todo) = "syncRun" => SyncRun
         /\ Head(op.todo) = "syncShard" => SyncShard
         /\ Head(op.todo) = "syncStaging" => SyncStaging
         /\ Head(op.todo) = "syncShards" => SyncShards
         /\ Head(op.todo) = "unlinkStage" => UnlinkStage
         /\ Head(op.todo) = "unlinkFinal" => UnlinkFinal
         /\ Head(op.todo) = "rename" => Rename
         /\ Head(op.todo) = "rmdirRun" => RmdirRun
BY DEF Step, Call

-----------------------------------------------------------------------------
(* What an operation has made sure of, the disk does not undo. *)
LEMMA DiskMoved ==
  ASSUME SafeInv, DiskMoves, NEW r, NEW n, NEW x
  PROVE  /\ Clean(r, n) => Clean(r, n)'
         /\ Gone(r, n) => Gone(r, n)'
         /\ \A e \in entries \cap diskEntries : e \in entries' \cap diskEntries'
         /\ InCas(entries, x) => InCas(entries, x)'
         /\ InCas(entries \cap diskEntries, x) => InCas(entries \cap diskEntries, x)'
         /\ ~InCas(entries, x) => ~InCas(entries, x)'
         /\ ~InCas(Both, x) => ~InCas(Both, x)'
         /\ (\A e \in Both : e.in = "cas" /\ e.name = x => e \in entries /\ e \in diskEntries)
            => (\A e \in Both' : e.in = "cas" /\ e.name = x => e \in entries' /\ e \in diskEntries')
         /\ x \in diskShards => x \in diskShards'
         /\ r \in runDirs /\ r \in diskRunDirs => r \in diskRunDirs'
<1>1. PICK S : diskEntries' = Synced(S)
  BY DEF DiskMoves
<1>2. /\ Both' \subseteq Both /\ entries' = entries
      /\ \A e \in entries \cap diskEntries : e \in entries' \cap diskEntries'
  BY <1>1 DEF DiskMoves, Both, Synced, live
<1>3. Clean(r, n) => Clean(r, n)'
  BY <1>2 DEF Clean
<1>4. Gone(r, n) => Gone(r, n)'
  BY <1>2 DEF Gone
<1>5. /\ InCas(entries, x) => InCas(entries, x)'
      /\ ~InCas(entries, x) => ~InCas(entries, x)'
      /\ InCas(entries \cap diskEntries, x) => InCas(entries \cap diskEntries, x)'
      /\ ~InCas(Both, x) => ~InCas(Both, x)'
  BY <1>2 DEF InCas
<1>6. /\ x \in diskShards => x \in diskShards'
      /\ r \in runDirs /\ r \in diskRunDirs => r \in diskRunDirs'
  BY DEF DiskMoves, SafeInv, TypesInv
<1> QED BY <1>2, <1>3, <1>4, <1>5, <1>6

LEMMA FactsMoved ==
  ASSUME SafeInv, DiskMoves, SameOp, op.run \in Run
  PROVE  /\ Ready => Ready'
         /\ Stored => Stored'
         /\ Absent => Absent'
         /\ AbsentOnDisk => AbsentOnDisk'
         /\ InCas(entries, op.value.digest) => InCas(entries, op.value.digest)'
         /\ ~InCas(entries, op.value.digest) => ~InCas(entries, op.value.digest)'
         /\ ~InCas(Both, op.value.digest) => ~InCas(Both, op.value.digest)'
         /\ op.value.digest \in shards => (op.value.digest \in shards)'
         /\ op.value.digest \in diskShards => (op.value.digest \in diskShards)'
         /\ (\A e \in Both : e.in = "cas" /\ e.name = op.value.digest =>
                e \in entries /\ e \in diskEntries)
            => (\A e \in Both : e.in = "cas" /\ e.name = op.value.digest =>
                e \in entries /\ e \in diskEntries)'
         /\ op.run \notin runDirs => (op.run \notin runDirs)'
         /\ Holds(op.run, op.name, op.value) => Holds(op.run, op.name, op.value)'
<1> USE DEF SameOp
<1>1. /\ entries' = entries /\ data' = data /\ runDirs' = runDirs /\ shards' = shards
      /\ \A e \in entries \cap diskEntries : e \in entries' \cap diskEntries'
  BY DiskMoved DEF DiskMoves, live
<1>2. Ready => Ready'
  <2> SUFFICES ASSUME Ready PROVE Ready'
    OBVIOUS
  <2>1. PICK e \in entries \cap diskEntries :
          /\ e.in = op.run /\ e.name = op.name
          /\ data[e.ino] = [value |-> op.value, mode |-> 400]
          /\ diskData[e.ino] = [value |-> op.value, mode |-> 400]
    BY DEF Ready
  <2>2. diskData'[e.ino] = diskData[e.ino]
    BY <2>1 DEF DiskMoves, SafeInv, TypesInv, Entries
  <2> QED BY <1>1, <2>1, <2>2 DEF Ready
<1>3. Absent => Absent'
  BY <1>1 DEF Absent, Gone
<1>4. AbsentOnDisk => AbsentOnDisk'
  <2>1. Clean(op.run, op.name) => Clean(op.run, op.name)'
    BY DiskMoved
  <2> QED BY <2>1 DEF AbsentOnDisk, Clean
<1>5. Stored => Stored'
  BY <1>1 DEF Stored, InCas
<1>6. /\ InCas(entries, op.value.digest) => InCas(entries, op.value.digest)'
      /\ ~InCas(entries, op.value.digest) => ~InCas(entries, op.value.digest)'
  BY <1>1 DEF InCas
<1>7. ~InCas(Both, op.value.digest) => ~InCas(Both, op.value.digest)'
  <2>1. Both' \subseteq Both
    BY DEF DiskMoves, Both, Synced, live
  <2> QED BY <2>1 DEF InCas
<1>8. /\ op.value.digest \in shards => (op.value.digest \in shards)'
      /\ op.value.digest \in diskShards => (op.value.digest \in diskShards)'
  BY <1>1 DEF DiskMoves, SafeInv, TypesInv
<1>9. (\A e \in Both : e.in = "cas" /\ e.name = op.value.digest => e \in entries /\ e \in diskEntries)
      => (\A e \in Both : e.in = "cas" /\ e.name = op.value.digest => e \in entries /\ e \in diskEntries)'
  <2>1. Both' \subseteq Both
    BY DEF DiskMoves, Both, Synced, live
  <2> QED BY <1>1, <2>1
<1>10. /\ op.run \notin runDirs => (op.run \notin runDirs)'
       /\ Holds(op.run, op.name, op.value) => Holds(op.run, op.name, op.value)'
  BY <1>1 DEF Holds, At
<1> QED BY <1>2, <1>3, <1>4, <1>5, <1>6, <1>7, <1>8, <1>9, <1>10

LEMMA StagingMoved ==
  ASSUME SafeInv, DiskMoves, SameOp, op.run \in Run, NEW k \in 0..10, Staging(k)
  PROVE  Staging(k)'
<1>1. /\ entries' = entries /\ data' = data /\ runDirs' = runDirs
      /\ \A e \in entries \cap diskEntries : e \in entries' \cap diskEntries'
  BY DiskMoved DEF DiskMoves, live
<1>2. Mine' = Mine
  BY DEF Mine, SameOp
<1>3. /\ k < 4 => Gone(op.run, op.name)'
      /\ k \in 2..3 => Clean(op.run, op.name)'
  BY FactsMoved DEF Staging, Absent, AbsentOnDisk
<1>4. k = 3 => op'.run \in diskRunDirs'
  BY DiskMoved DEF Staging, SameOp
<1>5. k >= 4 => /\ op'.ino \in Inode /\ Mine \in entries'
                /\ data'[op'.ino] = Written(k)'
  BY <1>1 DEF Staging, SameOp, Written, File, WholeFile
<1>6. k >= 8 => diskData'[op'.ino] = data'[op'.ino]
  BY <1>1 DEF Staging, SameOp, DiskMoves
<1>7. k >= 9 => Mine \in diskEntries'
  BY <1>1 DEF Staging
<1> QED BY <1>1, <1>2, <1>3, <1>4, <1>5, <1>6, <1>7 DEF Staging, SameOp, File, WholeFile

LEMMA OwnsStays ==
  ASSUME OpTypes, OpOwns, SameOp, UNCHANGED promised,
         op.kind \in {"discard", "incomplete"} /\ Clean(op.run, op.name) => Clean(op.run, op.name)'
  PROVE  OpOwns'
BY DEF OpOwns, SameOp, Clean

(* One call less to do. *)
LEMMA DidOne ==
  ASSUME OpTypes, op.todo # <<>>, Did
  PROVE  op'.todo = Tail(op.todo) /\ SameOp /\ OpTypes'
<1>1. Tail(op.todo) \in Seq(Calls)
  BY DEF OpTypes
<1> QED BY <1>1 DEF OpTypes, Did, SameOp

(* The calls that only write to the disk. *)
LEMMA SyncCall ==
  ASSUME SafeInv, SyncRun \/ SyncShard \/ SyncStaging \/ SyncShards, UNCHANGED promised
  PROVE  SafeInv' /\ DiskMoves
<1>1. ASSUME NEW S, diskEntries' = Synced(S), UNCHANGED <<live, diskRunDirs, diskShards, diskData>>
      PROVE  SafeInv' /\ DiskMoves
  <2>1. \A e \in Both' : e.in # "cas" => e.in \in diskRunDirs
    BY <1>1 DEF Both, Synced, SafeInv, TreeInv, live
  <2>2. SafeInv'
    BY <1>1, <2>1, SyncedTree DEF SafeInv, TypesInv
  <2> QED BY <1>1, <2>2 DEF DiskMoves
<1>2. CASE SyncRun \/ SyncShard
  BY <1>1, <1>2 DEF SyncRun, SyncShard
<1>3. CASE SyncStaging
  <2> DEFINE S == Used({e \in diskEntries : e.in \in Run \ runDirs})
  <2>1. /\ diskEntries' = Synced(S) /\ diskRunDirs' = runDirs
        /\ UNCHANGED <<live, diskShards, diskData>>
    BY <1>3 DEF SyncStaging
  <2>2. ASSUME NEW e \in Both', e.in # "cas" PROVE e.in \in runDirs
    <3>1. CASE e \in entries
      BY <2>2, <3>1 DEF SafeInv, TreeInv
    <3>2. CASE e \in diskEntries /\ e.ino \notin S
      BY <2>2, <3>2 DEF Used, SafeInv, TypesInv, Entries
    <3> QED BY <2>1, <3>1, <3>2 DEF Both, Synced, live
  <2> HIDE DEF S
  <2>3. SafeInv'
    BY <2>1, <2>2, SyncedTree DEF SafeInv, TypesInv
  <2> QED BY <2>1, <2>3 DEF DiskMoves
<1>4. CASE SyncShards
  <2>1. diskEntries' = Synced({})
    BY <1>4 DEF SyncShards, Synced
  <2>2. SafeInv'
    BY <1>4, DirsOnly DEF SyncShards, SafeInv, TypesInv, TreeInv, live
  <2> QED BY <1>4, <2>1, <2>2 DEF DiskMoves, SyncShards
<1> QED BY <1>2, <1>3, <1>4

(* What each of them makes sure of. *)
LEMMA RunIsSynced ==
  ASSUME SafeInv, SyncRun, SameOp
  PROVE  /\ Absent => AbsentOnDisk'
         /\ Mine \in entries => Mine \in diskEntries'
<1>1. /\ diskEntries' = Synced(Used(InRun(Both, op.run))) /\ entries' = entries
  BY DEF SyncRun, Both, live
<1>2. ASSUME Absent, NEW e \in Both', e.in = op.run, e.name = op.name PROVE FALSE
  <2>1. e \notin entries
    BY <1>2 DEF Absent, Gone
  <2>2. e \in diskEntries /\ e.ino \notin Used(InRun(Both, op.run))
    BY <1>1, <1>2, <2>1 DEF Both, Synced
  <2> QED BY <1>2, <2>2 DEF Used, InRun, Both
<1>3. ASSUME Mine \in entries PROVE Mine \in diskEntries'
  BY <1>1, <1>3 DEF Synced, Used, InRun, Both, Mine, Entry
<1> QED BY <1>2, <1>3 DEF AbsentOnDisk, Clean, SameOp

LEMMA StagingIsSynced ==
  ASSUME SafeInv, SyncStaging, SameOp, op.run \in Run, op.run \notin runDirs, Absent
  PROVE  AbsentOnDisk'
<1> DEFINE S == Used({e \in diskEntries : e.in \in Run \ runDirs})
<1>1. diskEntries' = Synced(S) /\ entries' = entries
  BY DEF SyncStaging, live
<1>2. ASSUME NEW e \in Both', e.in = op.run, e.name = op.name PROVE FALSE
  <2>1. e \notin entries
    BY <1>2 DEF Absent, Gone
  <2>2. e \in diskEntries /\ e.ino \notin S
    BY <1>1, <1>2, <2>1 DEF Both, Synced
  <2> QED BY <1>2, <2>2 DEF Used
<1> QED BY <1>2 DEF AbsentOnDisk, Clean, SameOp

LEMMA ShardIsSynced ==
  ASSUME SafeInv, SyncShard, SameOp
  PROVE  /\ \A e \in Both' : e.in = "cas" /\ e.name = op'.value.digest =>
                e \in entries' /\ e \in diskEntries'
         /\ InCas(entries, op.value.digest) => Stored'
         /\ ~InCas(entries, op.value.digest) => ~InCas(Both, op.value.digest)'
<1> DEFINE S == Used(InShard(Both, op.value.digest))
<1>1. diskEntries' = Synced(S) /\ entries' = entries
  BY DEF SyncShard, Both, live
<1>2. ASSUME NEW e \in Both, e.in = "cas", e.name = op.value.digest PROVE e.ino \in S
  BY <1>2 DEF Used, InShard, At
<1>3. \A e \in Both' : e.in = "cas" /\ e.name = op.value.digest =>
        e \in entries /\ e \in diskEntries'
  BY <1>1, <1>2 DEF Both, Synced
<1>4. \A e \in entries : e.in = "cas" /\ e.name = op.value.digest => e \in diskEntries'
  BY <1>1, <1>2 DEF Both, Synced
<1> HIDE DEF S
<1>5. InCas(entries, op.value.digest) => Stored'
  BY <1>1, <1>4 DEF InCas, Stored, SameOp
<1>6. ~InCas(entries, op.value.digest) => ~InCas(Both, op.value.digest)'
  BY <1>3 DEF InCas, SameOp
<1> QED BY <1>1, <1>3, <1>5, <1>6 DEF SameOp

LEMMA HeadIs ==
  ASSUME OpTypes, NEW plan \in Seq(Calls), NEW k, Rest(plan, k), op.todo # <<>>
  PROVE  k \in 0..(Len(plan) - 1) /\ Head(op.todo) = plan[k + 1]
<1>1. /\ op.todo \in Seq(Calls) /\ Len(op.todo) \in Nat /\ Len(op.todo) > 0 /\ Len(plan) \in Nat
  BY DEF OpTypes
<1>2. /\ k \in 0..Len(plan) /\ Len(op.todo) = Len(plan) - k
      /\ \A i \in 1..Len(op.todo) : op.todo[i] = plan[k + i]
  BY DEF Rest
<1>3. Head(op.todo) = op.todo[1]
  BY <1>1
<1>4. op.todo[1] = plan[k + 1]
  BY <1>1, <1>2
<1>5. k \in 0..(Len(plan) - 1)
  BY <1>1, <1>2
<1> QED BY <1>3, <1>4, <1>5

(* Nothing happens to the files. *)
LEMMA Untouched == ASSUME SafeInv, UNCHANGED <<live, disk, promised>> PROVE SafeInv' /\ DiskMoves
<1>1. diskEntries' = Synced({})
  BY DEF Synced, disk
<1>2. SafeInv'
  BY DirsOnly DEF live, disk, SafeInv, TypesInv, TreeInv
<1> QED BY <1>1, <1>2 DEF DiskMoves, live, disk

-----------------------------------------------------------------------------
(* stage: each call finds what the ones before it have made. *)

(* The calls that write the new file. *)
LEMMA FileIsMine ==
  ASSUME StoreIsNoRun, SafeInv, OpTypes, Mine \in entries, op.ino \in Inode
  PROVE  /\ data \in [Inode -> PartOrFile \cup {Free}]
         /\ diskData \in [Inode -> PartOrFile \cup {Free}]
         /\ data[op.ino] \in PartOrFile /\ diskData[op.ino] \in PartOrFile
         /\ Mine.in = op.run /\ Mine.in # "cas" /\ Mine.name = op.name /\ Mine.ino = op.ino
<1>1. Mine.in = op.run /\ Mine.in # "cas" /\ Mine.name = op.name /\ Mine.ino = op.ino
  BY DEF Mine, Entry, OpTypes, StoreIsNoRun
<1>2. Mine \in Both
  BY DEF Both
<1> QED BY <1>1, <1>2 DEF SafeInv, TypesInv

(* The two truth values by name, for provers that know terms apart from formulas. *)
Yes == TRUE
No == FALSE

LEMMA WrittenIs ==
  ASSUME OpTypes
  PROVE  /\ Written(5) = [value |-> [digest |-> op.value.digest, whole |-> No], mode |-> 600]
         /\ Written(6) = [value |-> [digest |-> op.value.digest, whole |-> Yes], mode |-> 600]
         /\ Written(7) = [value |-> [digest |-> op.value.digest, whole |-> Yes], mode |-> 400]
         /\ Written(5) \in PartOrFile /\ Written(6) \in PartOrFile /\ Written(7) \in PartOrFile
<1>1. op.value.digest \in Digest /\ Yes \in BOOLEAN /\ No \in BOOLEAN
  BY DEF OpTypes, Value, Yes, No
<1>2. Written(5) = [value |-> [digest |-> op.value.digest, whole |-> No], mode |-> 600]
  <2>1. Written(5) = File(op.value.digest, FALSE, 600)
    BY DEF Written
  <2> QED BY <2>1, Zenon DEF File, WholeFile, No
<1>3. Written(6) = [value |-> [digest |-> op.value.digest, whole |-> Yes], mode |-> 600]
  BY DEF Written, File, WholeFile, Yes
<1>4. Written(7) = [value |-> [digest |-> op.value.digest, whole |-> Yes], mode |-> 400]
  BY DEF Written, File, WholeFile, Yes
<1>5. /\ [digest |-> op.value.digest, whole |-> Yes] \in Value
      /\ [digest |-> op.value.digest, whole |-> No] \in Value
  BY <1>1 DEF Value
<1>7. Written(5) \in PartOrFile
  <2> DEFINE v == [digest |-> op.value.digest, whole |-> No]
  <2>1. v \in Value /\ Written(5) = [value |-> v, mode |-> 600]
    BY <1>2, <1>5
  <2> HIDE DEF v
  <2> QED BY <2>1 DEF PartOrFile
<1>8. Written(6) \in PartOrFile
  <2> DEFINE v == [digest |-> op.value.digest, whole |-> Yes]
  <2>1. v \in Value /\ Written(6) = [value |-> v, mode |-> 600]
    BY <1>3, <1>5
  <2> HIDE DEF v
  <2> QED BY <2>1 DEF PartOrFile
<1>9. Written(7) \in PartOrFile
  <2> DEFINE v == [digest |-> op.value.digest, whole |-> Yes]
  <2>1. v \in Value /\ Written(7) = [value |-> v, mode |-> 400]
    BY <1>4, <1>5
  <2> HIDE DEF v
  <2> QED BY <2>1 DEF PartOrFile
<1> QED BY <1>2, <1>3, <1>4, <1>7, <1>8, <1>9

LEMMA Wrote ==
  ASSUME StoreIsNoRun, SafeInv, OpTypes, Mine \in entries, op.ino \in Inode,
         \A h \in promised.kept : h.name # op.name, WriteWhole, UNCHANGED promised,
         data[op.ino] = Written(5)
  PROVE  SafeInv' /\ data'[op.ino] = Written(6) /\ entries' = entries /\ runDirs' = runDirs
<1>1. UNCHANGED <<runDirs, shards, entries, diskRunDirs, diskShards, diskEntries, diskData>>
  BY DEF WriteWhole, disk
<1>2. data' = [data EXCEPT ![op.ino].value.whole = TRUE]
  BY DEF WriteWhole
<1>3. DOMAIN data' = Inode /\ \A i \in Inode \ {op.ino} : data'[i] = data[i]
  BY <1>2, FileIsMine
<1>4. data'[op.ino] = Written(6) /\ Written(6) \in PartOrFile
  <2> DEFINE d == op.value.digest
  <2>1. data'[op.ino] = [data[op.ino] EXCEPT !.value = [data[op.ino].value EXCEPT !.whole = Yes]]
    BY <1>2, FileIsMine DEF Yes
  <2>3. /\ data[op.ino] = [value |-> [digest |-> d, whole |-> No], mode |-> 600]
        /\ Written(6) = [value |-> [digest |-> d, whole |-> Yes], mode |-> 600]
        /\ Written(6) \in PartOrFile
    BY WrittenIs
  <2> HIDE DEF d
  <2>4. data[op.ino].value = [digest |-> d, whole |-> No]
    BY <2>3
  <2>5. [data[op.ino].value EXCEPT !.whole = Yes] = [digest |-> d, whole |-> Yes]
    BY <2>4
  <2> QED BY <2>1, <2>3, <2>5
<1>5. data'[op.ino] \in PartOrFile
  BY <1>4
<1>6. data' \in [Inode -> PartOrFile \cup {Free}]
  <2>1. data' = [i \in Inode |-> data'[i]]
    BY <1>2, <1>3, FileIsMine
  <2> QED BY <1>3, <1>5, <2>1, FileIsMine
<1>7. SafeInv'
  BY <1>1, <1>3, <1>5, <1>6, FileWritten, FileIsMine
<1> QED BY <1>1, <1>4, <1>7

LEMMA MadeReadOnly ==
  ASSUME StoreIsNoRun, SafeInv, OpTypes, Mine \in entries, op.ino \in Inode,
         \A h \in promised.kept : h.name # op.name, Chmod, UNCHANGED promised,
         data[op.ino] = Written(6)
  PROVE  SafeInv' /\ data'[op.ino] = Written(7) /\ entries' = entries /\ runDirs' = runDirs
<1>1. /\ UNCHANGED <<runDirs, shards, entries, diskRunDirs, diskShards, diskEntries>>
      /\ diskData' = diskData /\ data' = [data EXCEPT ![op.ino].mode = 400]
  BY DEF Chmod, disk
<1>2. \A i \in Inode \ {op.ino} : data'[i] = data[i]
  BY <1>1, FileIsMine
<1>3. data'[op.ino] = Written(7) /\ Written(7) \in PartOrFile
  <2> DEFINE v == [digest |-> op.value.digest, whole |-> Yes]
  <2>1. /\ data[op.ino] = [value |-> v, mode |-> 600]
        /\ Written(7) = [value |-> v, mode |-> 400] /\ Written(7) \in PartOrFile
    BY WrittenIs
  <2>2. data'[op.ino] = [data[op.ino] EXCEPT !.mode = 400]
    BY <1>1, FileIsMine
  <2> HIDE DEF v
  <2> QED BY <2>1, <2>2
<1>4. data'[op.ino] \in PartOrFile /\ DOMAIN data' = Inode
  BY <1>1, <1>3, FileIsMine
<1>5. data' \in [Inode -> PartOrFile \cup {Free}]
  BY <1>1, <1>2, <1>4, FileIsMine
<1>6. SafeInv'
  BY <1>1, <1>2, <1>4, <1>5, FileWritten, FileIsMine
<1> QED BY <1>1, <1>3, <1>6

LEMMA FileIsSynced ==
  ASSUME StoreIsNoRun, SafeInv, OpTypes, Mine \in entries, op.ino \in Inode,
         \A h \in promised.kept : h.name # op.name, SyncFile, UNCHANGED promised
  PROVE  /\ SafeInv' /\ data' = data /\ entries' = entries /\ runDirs' = runDirs
         /\ diskData'[op.ino] = data[op.ino]
<1>1. /\ UNCHANGED <<runDirs, shards, entries, diskRunDirs, diskShards, diskEntries>>
      /\ data' = data /\ diskData' = [diskData EXCEPT ![op.ino] = data[op.ino]]
  BY DEF SyncFile, live
<1>2. /\ diskData'[op.ino] = data[op.ino] /\ \A i \in Inode \ {op.ino} : diskData'[i] = diskData[i]
      /\ diskData' \in [Inode -> PartOrFile \cup {Free}]
  BY <1>1, FileIsMine
<1>3. SafeInv'
  BY <1>1, <1>2, FileWritten, FileIsMine
<1> QED BY <1>1, <1>2, <1>3

(* create draws a file that neither the processes nor the disk use. *)
LEMMA CreateCall ==
  ASSUME StoreIsNoRun, SafeInv, OpTypes, OpOwns, op.kind \in {"stage", "put"}, op.todo # <<>>,
         Create, Clean(op.run, op.name), op.run \in runDirs, op.run \in diskRunDirs
  PROVE  /\ SafeInv' /\ OpTypes' /\ OpOwns'
         /\ op'.kind = op.kind /\ op'.run = op.run /\ op'.answer = op.answer
         /\ op'.todo = Tail(op.todo) /\ runDirs' = runDirs
         /\ op'.ino \in Inode /\ (Mine \in entries)' /\ data'[op'.ino] = Written(4)'
<1>1. PICK i \in Inode \ Used(entries \cup diskEntries) :
        /\ entries' = entries \cup {Entry(op.run, op.name, i)}
        /\ data' = [data EXCEPT ![i] = File(op.value.digest, FALSE, 600)]
        /\ diskData' = [diskData EXCEPT ![i] = File(op.value.digest, FALSE, 600)]
        /\ op' = [op EXCEPT !.todo = Tail(@), !.ino = i]
        /\ promised' = [promised EXCEPT !.discarded = @ \ {[run |-> op.run, name |-> op.name]}]
        /\ UNCHANGED <<runDirs, shards, diskRunDirs, diskShards, diskEntries>>
  BY Zenon DEF Create
<1> DEFINE file == File(op.value.digest, FALSE, 600)
<1>2. file \in PartOrFile /\ Written(5) = file /\ Written(4) = file
  <2>1. Written(5) = file
    BY DEF Written
  <2>2. Written(4) = file
    BY DEF Written
  <2> HIDE DEF file
  <2> QED BY <2>1, <2>2, WrittenIs
<1>11. data' = [data EXCEPT ![i] = file] /\ diskData' = [diskData EXCEPT ![i] = file]
  BY <1>1, Zenon
<1> HIDE DEF file
<1>3. Tail(op.todo) \in Seq(Calls)
  BY DEF OpTypes
<1>4. /\ op'.kind = op.kind /\ op'.run = op.run /\ op'.name = op.name /\ op'.value = op.value
      /\ op'.answer = op.answer /\ op'.todo = Tail(op.todo) /\ op'.ino = i
      /\ OpTypes'
  BY <1>1, <1>3 DEF OpTypes
<1>5. data \in [Inode -> PartOrFile \cup {Free}] /\ diskData \in [Inode -> PartOrFile \cup {Free}]
  BY DEF SafeInv, TypesInv
<1>6. /\ data' \in [Inode -> PartOrFile \cup {Free}] /\ data'[i] = file
      /\ diskData' \in [Inode -> PartOrFile \cup {Free}] /\ diskData'[i] = file
      /\ \A j \in Inode \ {i} : data'[j] = data[j] /\ diskData'[j] = diskData[j]
  BY <1>11, <1>2, <1>5
<1>7. /\ promised' \in Promises
      /\ promised'.staged = promised.staged /\ promised'.kept = promised.kept
      /\ promised'.committed = promised.committed /\ promised'.deleted = promised.deleted
      /\ promised'.discarded = promised.discarded \ {[run |-> op.run, name |-> op.name]}
  BY <1>1 DEF SafeInv, TypesInv, Promises
<1>8. SafeInv'
  <2>1. /\ i \in Inode \ Used(Both) /\ op.run \in Run /\ op.name \in StageName
        /\ \A h \in promised.kept : h.name # op.name
    BY <1>1 DEF Both, OpTypes, OpOwns
  <2>2. entries' = entries \cup {Entry(op.run, op.name, i)}
        /\ UNCHANGED <<runDirs, shards, diskRunDirs, diskShards, diskEntries>>
    BY <1>1
  <2> QED BY <1>2, <1>6, <1>7, <2>1, <2>2, Created
<1>9. OpOwns'
  BY <1>4, <1>7 DEF OpOwns
<1>10. Mine' \in entries' /\ data'[op'.ino] = Written(4)'
  BY <1>1, <1>2, <1>4, <1>6 DEF Mine, Entry, Written, File, WholeFile
<1> QED BY <1>1, <1>4, <1>8, <1>9, <1>10

LEMMA DidStays ==
  ASSUME OpTypes, OpOwns, op.kind \notin {"discard", "incomplete"}, op.todo # <<>>, Did,
         UNCHANGED promised
  PROVE  op'.todo = Tail(op.todo) /\ SameOp /\ OpTypes' /\ OpOwns'
BY DidOne, OwnsStays

LEMMA StagingStep ==
  ASSUME StoreIsNoRun, SafeInv, OpTypes, OpOwns, op.kind \in {"stage", "put"},
         NEW plan \in {StagePlan, PutPlan}, NEW k \in 0..9, Rest(plan, k), Staging(k), Step
  PROVE  /\ SafeInv' /\ OpTypes' /\ OpOwns'
         /\ op'.kind = op.kind /\ op'.answer = op.answer
         /\ Rest(plan, k + 1)' /\ Staging(k + 1)'
<1>1. /\ plan \in Seq(Calls) /\ op.todo # <<>> /\ Head(op.todo) = plan[k + 1]
      /\ op'.todo = Tail(op.todo) => Rest(plan, k + 1)'
  BY Plans, StepIs, HeadIs, Takes
<1>2. op.run \in Run /\ op.value.digest \in Digest /\ \A h \in promised.kept : h.name # op.name
  BY DEF OpTypes, OpOwns, Value
<1>3. ASSUME Did, UNCHANGED promised
      PROVE  SameOp /\ OpTypes' /\ OpOwns' /\ Rest(plan, k + 1)'
  BY <1>1, <1>3, DidStays
<1>4. CASE k = 0
  <2>1. MkdirRun /\ UNCHANGED promised
    BY <1>1, <1>4, Plans, StepIs
  <2>2. Did /\ runDirs' = runDirs \cup {op.run} /\ UNCHANGED <<shards, entries, data, disk>>
    BY <2>1 DEF MkdirRun
  <2>3. SafeInv'
    <3>1. runDirs' \subseteq Run /\ \A e \in entries : e.in # "cas" => e.in \in runDirs'
      BY <1>2, <2>2 DEF SafeInv, TypesInv, TreeInv
    <3>2. shards' \subseteq Digest /\ shards \subseteq shards' /\ diskShards' \in {diskShards, shards}
      BY <2>2 DEF SafeInv, TypesInv, disk
    <3> QED BY <2>1, <2>2, <3>1, <3>2, DirsOnly DEF disk
  <2>4. SameOp
    BY <1>3, <2>1, <2>2
  <2>5. Staging(1)'
    BY <1>4, <2>2, <2>4 DEF Staging, Gone, SameOp
  <2> QED BY <1>3, <1>4, <2>1, <2>2, <2>3, <2>5 DEF SameOp
<1>5. CASE k = 1
  <2>1. SyncRun /\ UNCHANGED promised
    BY <1>1, <1>5, Plans, StepIs
  <2>2. Did /\ entries' = entries /\ runDirs' = runDirs
    BY <2>1 DEF SyncRun, live
  <2>3. SameOp
    BY <1>3, <2>1, <2>2
  <2>4. Absent /\ op.run \in runDirs
    BY <1>5 DEF Staging, Absent
  <2>5. AbsentOnDisk'
    BY <2>1, <2>3, <2>4, RunIsSynced
  <2>6. Staging(2)'
    BY <2>2, <2>3, <2>4, <2>5 DEF Staging, Gone, Absent, AbsentOnDisk, SameOp
  <2> QED BY <1>3, <1>5, <2>1, <2>2, <2>6, SyncCall DEF SameOp
<1>6. CASE k = 2
  <2>1. SyncStaging /\ UNCHANGED promised
    BY <1>1, <1>6, Plans, StepIs
  <2>2. Did /\ entries' = entries /\ runDirs' = runDirs /\ diskRunDirs' = runDirs
    BY <2>1 DEF SyncStaging, live
  <2>3. SameOp
    BY <1>3, <2>1, <2>2
  <2>4. Absent /\ AbsentOnDisk /\ op.run \in runDirs
    BY <1>6 DEF Staging, Absent, AbsentOnDisk
  <2>5. SafeInv' /\ DiskMoves
    BY <2>1, SyncCall
  <2>6. Absent' /\ AbsentOnDisk'
    BY <1>2, <2>3, <2>4, <2>5, FactsMoved
  <2>7. Staging(3)'
    BY <2>2, <2>3, <2>4, <2>6 DEF Staging, Absent, AbsentOnDisk, SameOp
  <2> QED BY <1>3, <1>6, <2>1, <2>2, <2>5, <2>7 DEF SameOp
<1>7. CASE k = 3
  <2>1. Create
    BY <1>1, <1>7, Plans, StepIs
  <2>2. Clean(op.run, op.name) /\ op.run \in runDirs /\ op.run \in diskRunDirs
    BY <1>7 DEF Staging
  <2>3. /\ SafeInv' /\ OpTypes' /\ OpOwns'
        /\ op'.kind = op.kind /\ op'.run = op.run /\ op'.answer = op.answer
        /\ op'.todo = Tail(op.todo) /\ runDirs' = runDirs
        /\ op'.ino \in Inode /\ (Mine \in entries)' /\ data'[op'.ino] = Written(4)'
    BY <1>1, <2>1, <2>2, CreateCall
  <2>4. Staging(4)'
    BY <2>2, <2>3 DEF Staging
  <2> QED BY <1>1, <1>7, <2>3, <2>4
<1>8. ASSUME k >= 4
      PROVE  op.ino \in Inode /\ Mine \in entries /\ data[op.ino] = Written(k) /\ op.run \in runDirs
  BY <1>8 DEF Staging
<1>9. CASE k = 4 \/ k = 9
  <2>1. HandOver /\ UNCHANGED promised
    BY <1>1, <1>9, Plans, StepIs
  <2>2. Did /\ UNCHANGED <<live, disk, promised>>
    BY <2>1 DEF HandOver
  <2>3. SameOp
    BY <1>3, <2>2
  <2>4. Written(k + 1)' = Written(k)
    <3>1. op'.value = op.value
      BY <2>3 DEF SameOp
    <3>2. CASE k = 4
      <4>1. Written(k) = File(op.value.digest, FALSE, 600)
        BY <3>2 DEF Written
      <4>2. Written(k + 1)' = File(op.value.digest, FALSE, 600)'
        BY <3>2 DEF Written
      <4> QED BY <3>1, <4>1, <4>2 DEF File, WholeFile
    <3>3. CASE k = 9
      BY <3>1, <3>3 DEF Written, File, WholeFile
    <3> QED BY <1>9, <3>2, <3>3
  <2>5. Staging(k + 1)'
    BY <1>8, <1>9, <2>2, <2>3, <2>4 DEF Staging, SameOp, Mine, live, disk
  <2>6. SafeInv'
    BY <2>2, Untouched
  <2> QED BY <1>3, <2>2, <2>3, <2>5, <2>6 DEF SameOp
<1>10. CASE k = 5
  <2>1. WriteWhole /\ UNCHANGED promised
    BY <1>1, <1>10, Plans, StepIs
  <2>2. SafeInv' /\ data'[op.ino] = Written(6) /\ entries' = entries /\ runDirs' = runDirs
    BY <1>2, <1>8, <1>10, <2>1, Wrote
  <2>3. Did
    BY <2>1 DEF WriteWhole
  <2>4. SameOp
    BY <1>3, <2>1, <2>3
  <2>5. Staging(6)'
    <3>1. Written(6)' = Written(6)
      BY <2>4 DEF Written, File, WholeFile, SameOp
    <3> QED BY <1>8, <1>10, <2>2, <2>4, <3>1 DEF Staging, SameOp, Mine
  <2> QED BY <1>3, <1>10, <2>1, <2>2, <2>3, <2>4, <2>5 DEF SameOp
<1>11. CASE k = 6
  <2>1. Chmod /\ UNCHANGED promised
    BY <1>1, <1>11, Plans, StepIs
  <2>2. SafeInv' /\ data'[op.ino] = Written(7) /\ entries' = entries /\ runDirs' = runDirs
    BY <1>2, <1>8, <1>11, <2>1, MadeReadOnly
  <2>3. Did
    BY <2>1 DEF Chmod
  <2>4. SameOp
    BY <1>3, <2>1, <2>3
  <2>5. Staging(7)'
    <3>1. Written(7)' = Written(7)
      BY <2>4 DEF Written, File, WholeFile, SameOp
    <3> QED BY <1>8, <1>11, <2>2, <2>4, <3>1 DEF Staging, SameOp, Mine
  <2> QED BY <1>3, <1>11, <2>1, <2>2, <2>3, <2>4, <2>5 DEF SameOp
<1>12. CASE k = 7
  <2>1. SyncFile /\ UNCHANGED promised
    BY <1>1, <1>12, Plans, StepIs
  <2>2. /\ SafeInv' /\ data' = data /\ entries' = entries /\ runDirs' = runDirs
        /\ diskData'[op.ino] = data[op.ino]
    BY <1>2, <1>8, <1>12, <2>1, FileIsSynced
  <2>3. Did
    BY <2>1 DEF SyncFile
  <2>4. SameOp
    BY <1>3, <2>1, <2>3
  <2>5. Staging(8)'
    <3>1. Written(8)' = Written(7)
      BY <2>4 DEF Written, File, WholeFile, SameOp
    <3> QED BY <1>8, <1>12, <2>2, <2>4, <3>1 DEF Staging, SameOp, Mine
  <2> QED BY <1>3, <1>12, <2>1, <2>2, <2>3, <2>4, <2>5 DEF SameOp
<1>13. CASE k = 8
  <2>1. SyncRun /\ UNCHANGED promised
    BY <1>1, <1>13, Plans, StepIs
  <2>2. Did /\ UNCHANGED <<runDirs, entries, data, diskData>>
    BY <2>1 DEF SyncRun, live
  <2>3. SameOp
    BY <1>3, <2>1, <2>2
  <2>4. Mine \in diskEntries'
    BY <1>8, <1>13, <2>1, <2>3, RunIsSynced
  <2>5. Staging(9)'
    <3>1. Written(9)' = Written(8)
      BY <2>3 DEF Written, File, WholeFile, SameOp
    <3> QED BY <1>8, <1>13, <2>2, <2>3, <2>4, <3>1 DEF Staging, SameOp, Mine
  <2> QED BY <1>3, <1>13, <2>1, <2>2, <2>3, <2>5, SyncCall DEF SameOp
<1> QED BY <1>4, <1>5, <1>6, <1>7, <1>9, <1>10, <1>11, <1>12, <1>13

(* The last call of a plan is a plan of its own. *)
LEMMA LastOf ==
  ASSUME NEW plan \in Seq(Calls), NEW last \in Seq(Calls), Len(last) = 1, plan # <<>>,
         Rest(plan, Len(plan) - 1)', last[1] = plan[Len(plan)]
  PROVE  Rest(last, 0)'
<1>1. Len(plan) \in Nat \ {0}
  BY EmptySeq
<1>2. Len(op'.todo) = 1 /\ \A i \in 1..Len(op'.todo) : op'.todo[i] = plan[(Len(plan) - 1) + i]
  BY <1>1 DEF Rest
<1>3. op'.todo[1] = last[1]
  BY <1>1, <1>2
<1>4. /\ 0 \in 0..Len(last) /\ Len(op'.todo) = Len(last) - 0
      /\ \A i \in 1..Len(op'.todo) : op'.todo[i] = last[0 + i]
  BY <1>2, <1>3
<1> QED BY <1>4 DEF Rest

(* put goes on with the file that it has staged. *)
LEMMA HandedOver ==
  ASSUME StoreIsNoRun, OpTypes', (op.kind = "put")', Rest(PutPlan, 10)', Staging(10)'
  PROVE  Rest(LookPlan, 0)' /\ Ready'
<1>1. Rest(LookPlan, 0)'
  <2>1. /\ PutPlan \in Seq(Calls) /\ PutPlan # <<>> /\ Len(PutPlan) - 1 = 10
        /\ PutPlan[Len(PutPlan)] = "look"
    BY Plans
  <2>2. LookPlan \in Seq(Calls) /\ Len(LookPlan) = 1 /\ LookPlan[1] = "look"
    BY ShortPlans
  <2> QED BY <2>1, <2>2, LastOf
<1>2. Ready'
  <2> DEFINE m == Mine'
  <2>1. /\ m \in entries' /\ m \in diskEntries' /\ m.in = op'.run /\ m.name = op'.name
        /\ m.ino = op'.ino /\ diskData'[op'.ino] = data'[op'.ino]
        /\ data'[op'.ino] = Written(10)'
    BY DEF Staging, Mine, Entry
  <2> DEFINE v == op'.value
  <2>2. v \in Value /\ v.whole
    BY DEF OpTypes
  <2>3. v = [digest |-> v.digest, whole |-> Yes]
    BY <2>2 DEF Value, Yes
  <2>4. Written(10)' = [value |-> [digest |-> v.digest, whole |-> Yes], mode |-> 400]
    BY DEF Written, File, WholeFile, Yes
  <2>5. data'[m.ino] = [value |-> v, mode |-> 400] /\ diskData'[m.ino] = [value |-> v, mode |-> 400]
    BY <2>1, <2>3, <2>4
  <2> HIDE DEF m, v
  <2>6. v = op'.value
    BY DEF v
  <2> QED BY <2>1, <2>5, <2>6 DEF Ready
<1> QED BY <1>1, <1>2

-----------------------------------------------------------------------------
(* The calls that all operations share. *)

(* The decision is the last call of a plan: other calls take its place. *)
LEMMA Proceeds ==
  ASSUME OpTypes, NEW plan \in Seq(Calls), plan # <<>>, Rest(plan, Len(plan) - 1),
         NEW calls \in Seq(Calls), Proceed(calls)
  PROVE  op'.todo = calls /\ SameOp /\ OpTypes'
<1>1. Len(op.todo) = 1 /\ op.todo \in Seq(Calls)
  BY DEF Rest, OpTypes
<1>2. Tail(op.todo) = <<>>
  <2>1. op.todo # <<>>
    <3>1. Len(plan) \in Nat /\ Len(plan) - 1 # Len(plan)
      OBVIOUS
    <3> QED BY <3>1, Ends
  <2>2. Tail(op.todo) \in Seq(Calls) /\ Len(Tail(op.todo)) = 0
    BY <1>1, <2>1, HeadTailProperties
  <2> QED BY <2>2, EmptySeq
<1>3. op' = [op EXCEPT !.todo = calls \o Tail(op.todo)]
  BY DEF Proceed
<1>4. calls \o Tail(op.todo) = calls
  BY <1>2, ConcatEmptySeq
<1> QED BY <1>3, <1>4 DEF OpTypes, SameOp

LEMMA SyncedOp ==
  ASSUME SafeInv, OpTypes, OpOwns, op.todo # <<>>,
         SyncRun \/ SyncShard \/ SyncStaging \/ SyncShards, UNCHANGED promised
  PROVE  /\ SafeInv' /\ DiskMoves /\ SameOp /\ OpTypes' /\ OpOwns' /\ op'.todo = Tail(op.todo)
         /\ entries' = entries /\ runDirs' = runDirs
<1>1. SafeInv' /\ DiskMoves
  BY SyncCall
<1>2. Did
  BY DEF SyncRun, SyncShard, SyncStaging, SyncShards
<1>3. SameOp /\ OpTypes' /\ op'.todo = Tail(op.todo)
  BY <1>2, DidOne
<1>4. Clean(op.run, op.name) => Clean(op.run, op.name)'
  <2>1. AbsentOnDisk => AbsentOnDisk'
    BY <1>1, <1>3, FactsMoved DEF OpTypes
  <2> QED BY <2>1 DEF AbsentOnDisk
<1>5. OpOwns'
  BY <1>3, <1>4, OwnsStays
<1> QED BY <1>1, <1>3, <1>5 DEF DiskMoves, live

(* The directory of the run goes, if nothing is in it. *)
LEMMA RmdirOp ==
  ASSUME SafeInv, OpTypes, OpOwns, RmdirRun, UNCHANGED promised
  PROVE  /\ SafeInv' /\ SameOp /\ OpTypes' /\ OpOwns'
         /\ UNCHANGED <<shards, entries, data, disk, promised>>
         /\ (Rest(LastPlan, 0)' /\ op'.run \notin runDirs') \/ op'.todo = <<>>
<1>1. UNCHANGED <<shards, entries, data, disk, promised>>
  BY DEF RmdirRun
<1>2. /\ SameOp /\ op'.todo \in Seq(Calls)
      /\ op' = [op EXCEPT !.todo = op'.todo]
      /\ \/ InRun(entries, op.run) = {} /\ runDirs' = runDirs \ {op.run} /\ op'.todo = LastPlan
         \/ runDirs' = runDirs /\ op'.todo = <<>>
  <2>1. CASE InRun(entries, op.run) = {}
    <3>1. op' = [op EXCEPT !.todo = LastPlan] /\ runDirs' = runDirs \ {op.run}
      BY <2>1 DEF RmdirRun, LastPlan
    <3> QED BY <2>1, <3>1, ShortPlans DEF OpTypes, SameOp
  <2>2. CASE InRun(entries, op.run) # {}
    <3>1. op' = [op EXCEPT !.todo = <<>>] /\ runDirs' = runDirs
      BY <2>2 DEF RmdirRun
    <3>2. <<>> \in Seq(Calls)
      OBVIOUS
    <3> QED BY <3>1, <3>2 DEF OpTypes, SameOp
  <2> QED BY <2>1, <2>2
<1>3. OpTypes'
  BY <1>2 DEF OpTypes, SameOp
<1>4. OpOwns'
  BY <1>1, <1>2, OwnsStays DEF Clean, Both, disk, SameOp
<1>5. SafeInv'
  <2>1. runDirs' \subseteq Run /\ \A e \in entries : e.in # "cas" => e.in \in runDirs'
    BY <1>2 DEF SafeInv, TypesInv, TreeInv, InRun
  <2>2. shards' \subseteq Digest /\ shards \subseteq shards' /\ diskShards' \in {diskShards, shards}
    BY <1>1 DEF SafeInv, TypesInv, disk
  <2> QED BY <1>1, <2>1, <2>2, DirsOnly DEF disk
<1>6. op'.todo = LastPlan => Rest(LastPlan, 0)'
  BY ShortPlans, Starts
<1>7. (Rest(LastPlan, 0)' /\ op'.run \notin runDirs') \/ op'.todo = <<>>
  BY <1>2, <1>6 DEF SameOp
<1> QED BY <1>1, <1>2, <1>3, <1>4, <1>5, <1>7

(* The staged file goes: nobody relies on it, or the store has its bytes. *)
LEMMA StageUnlinked ==
  ASSUME StoreIsNoRun, SafeInv, OpTypes, OpOwns, op.todo # <<>>, UnlinkStage, UNCHANGED promised,
         \A h \in promised.kept : h.run = op.run /\ h.name = op.name =>
           \/ Clean(op.run, op.name)
           \/ h \notin promised.staged /\ InCas(entries \cap diskEntries, h.value.digest)
  PROVE  /\ SafeInv' /\ SameOp /\ OpTypes' /\ OpOwns' /\ op'.todo = Tail(op.todo)
         /\ Absent' /\ (Stored => Stored')
<1>1. entries' = entries \ Here /\ UNCHANGED <<runDirs, shards, data, disk>> /\ Did
  BY DEF UnlinkStage
<1>2. SameOp /\ OpTypes' /\ op'.todo = Tail(op.todo)
  BY <1>1, DidOne
<1>3. Both' \subseteq Both /\ diskEntries' = diskEntries
  BY <1>1 DEF Both, disk
<1>4. OpOwns'
  <2>1. Clean(op.run, op.name) => Clean(op.run, op.name)'
    BY <1>2, <1>3 DEF Clean, SameOp
  <2> QED BY <1>2, <2>1, OwnsStays
<1>5. Absent'
  BY <1>1, <1>2 DEF Absent, Gone, Here, At, SameOp
<1>6. \A e \in entries : e.in = "cas" => e \in entries'
  BY <1>1 DEF Here, At, OpTypes, StoreIsNoRun
<1>7. Stored => Stored'
  BY <1>2, <1>3, <1>6 DEF Stored, InCas, SameOp
<1>8. ASSUME NEW h \in promised.kept PROVE StagedStill(h)' \/ StoredInstead(h)'
  <2>1. Gone(h.run, h.name) => Gone(h.run, h.name)'
    BY <1>1 DEF Gone
  <2>2. CASE StoredInstead(h)
    BY <1>3, <1>6, <2>1, <2>2 DEF StoredInstead
  <2>3. CASE StagedStill(h)
    <3>1. PICK e \in entries \cap diskEntries : e.in = h.run /\ e.name = h.name
      BY <2>3 DEF StagedStill
    <3>2. CASE e \notin Here
      BY <1>1, <1>3, <3>1, <3>2 DEF StagedStill
    <3>3. CASE e \in Here
      <4>1. h.run = op.run /\ h.name = op.name /\ ~Clean(op.run, op.name)
        BY <3>1, <3>3 DEF Here, At, Clean, Both
      <4>2. h \notin promised.staged /\ InCas(entries \cap diskEntries, h.value.digest)
        BY <4>1
      <4>3. Gone(h.run, h.name)'
        BY <1>5, <1>2, <4>1 DEF Absent, Gone, SameOp
      <4>4. \E f \in entries' : f.in = "cas" /\ f.name = h.value.digest /\ f \in diskEntries'
        BY <1>3, <1>6, <4>2 DEF InCas
      <4> QED BY <4>2, <4>3, <4>4 DEF StoredInstead
    <3> QED BY <3>2, <3>3
  <2> QED BY <2>2, <2>3 DEF SafeInv, PromiseInv
<1>9. SafeInv'
  <2>1. Here \subseteq entries /\ \A e \in Here : e.in # "cas"
    BY DEF Here, At, OpTypes, StoreIsNoRun
  <2> QED BY <1>1, <1>8, <2>1, Unlinked
<1> QED BY <1>2, <1>4, <1>5, <1>7, <1>9

-----------------------------------------------------------------------------
(* put and commit_stage. *)

(* Before it decides, a commit finds its file staged or stored. *)
LEMMA StagedOrStored ==
  ASSUME StoreIsNoRun, SafeInv, OpTypes, OpOwns, op.kind \in {"put", "commit"},
         op.kind = "put" => Ready
  PROVE  Ready \/ (Absent /\ InCas(entries, op.value.digest))
<1>1. CASE op.kind = "put"
  BY <1>1
<1>2. CASE op.kind = "commit"
  <2> DEFINE h == [run |-> op.run, name |-> op.name, value |-> op.value]
  <2>1. h \in promised.kept
    BY <1>2 DEF OpOwns
  <2>2. h.run = op.run /\ h.name = op.name /\ h.value = op.value
    OBVIOUS
  <2> HIDE DEF h
  <2>3. CASE StagedStill(h)
    <3>1. PICK e \in entries \cap diskEntries : e.in = h.run /\ e.name = h.name
      BY <2>3 DEF StagedStill
    <3>2. /\ data[e.ino] = [value |-> h.value, mode |-> 400]
          /\ diskData[e.ino] = [value |-> h.value, mode |-> 400]
      BY <2>1, <3>1 DEF SafeInv, PromiseInv, Both
    <3> QED BY <2>2, <3>1, <3>2 DEF Ready
  <2>4. CASE StoredInstead(h)
    BY <2>2, <2>4 DEF StoredInstead, Absent, InCas
  <2> QED BY <2>1, <2>3, <2>4 DEF SafeInv, PromiseInv
<1> QED BY <1>1, <1>2

(* What the code reads of the files agrees with it. *)
LEMMA ReadyIsRead ==
  ASSUME Ready PROVE Here # {} /\ Holds(op.run, op.name, op.value)
<1>1. PICK e \in entries : /\ e.in = op.run /\ e.name = op.name
                           /\ data[e.ino] = [value |-> op.value, mode |-> 400]
  BY DEF Ready
<1> QED BY <1>1 DEF Here, At, Holds

LEMMA AbsentIsRead == Absent <=> Here = {}
BY DEF Absent, Gone, Here, At

LEMMA StoreIsRead ==
  ASSUME SafeInv, NEW x
  PROVE  /\ InShard(entries, x) = {} <=> ~InCas(entries, x)
         /\ InCas(entries, x) => InStore(x)
<1>1. ASSUME NEW e \in entries, e.in = "cas", e.name = x PROVE data[e.ino] = WholeFile(x)
  BY <1>1 DEF SafeInv, StoreInv, Both
<1>2. InStore(x) <=> \E e \in InShard(entries, x) : data[e.ino] = WholeFile(x)
  BY Zenon DEF InStore, WholeFile
<1> QED BY <1>1, <1>2 DEF InShard, At, InCas

LEMMA LookedCommit ==
  ASSUME StoreIsNoRun, SafeInv, OpTypes, OpOwns, op.kind \in {"put", "commit"},
         op.kind = "put" => Ready, Look
  PROVE  \/ Ready /\ Proceed(ShardPlan)
         \/ /\ Absent /\ InCas(entries, op.value.digest)
            /\ Proceed(<<"syncShard">> \o AbsenceCalls)
<1>1. LookCommit
  BY DEF Look, LookDiscard, LookDelete
<1>2. CASE Ready
  <2>1. Here # {} /\ Holds(op.run, op.name, op.value)
    BY <1>2, ReadyIsRead
  <2> QED BY <1>1, <1>2, <2>1 DEF LookCommit, ShardPlan
<1>3. CASE ~Ready
  <2>1. Absent /\ InCas(entries, op.value.digest)
    BY <1>3, StagedOrStored
  <2>2. Here = {} /\ InShard(entries, op.value.digest) # {} /\ InStore(op.value.digest)
    BY <2>1, AbsentIsRead, StoreIsRead
  <2>3. ~Holds(op.run, op.name, op.value)
    BY <2>2 DEF Holds, Here
  <2> QED BY <1>1, <2>1, <2>2, <2>3 DEF LookCommit
<1> QED BY <1>2, <1>3

(* Facts about the files that a call does not touch. *)
LEMMA OnlyOp ==
  ASSUME SafeInv, OpTypes, OpOwns, SameOp, OpTypes', UNCHANGED <<live, disk, promised>>
  PROVE  /\ SafeInv' /\ OpOwns' /\ DiskMoves
         /\ (Ready => Ready') /\ (Stored => Stored') /\ (Absent => Absent')
         /\ (AbsentOnDisk => AbsentOnDisk')
         /\ InCas(entries, op.value.digest) => InCas(entries, op.value.digest)'
         /\ ~InCas(entries, op.value.digest) => ~InCas(entries, op.value.digest)'
         /\ ~InCas(Both, op.value.digest) => ~InCas(Both, op.value.digest)'
<1>1. SafeInv' /\ DiskMoves
  BY Untouched
<1>2. op.run \in Run
  BY DEF OpTypes
<1>3. /\ (Ready => Ready') /\ (Stored => Stored') /\ (Absent => Absent')
      /\ (AbsentOnDisk => AbsentOnDisk')
      /\ InCas(entries, op.value.digest) => InCas(entries, op.value.digest)'
      /\ ~InCas(entries, op.value.digest) => ~InCas(entries, op.value.digest)'
      /\ ~InCas(Both, op.value.digest) => ~InCas(Both, op.value.digest)'
  BY <1>1, <1>2, FactsMoved
<1>4. OpOwns'
  BY <1>3, OwnsStays DEF AbsentOnDisk
<1> QED BY <1>1, <1>3, <1>4

LEMMA RetryPlans ==
  ASSUME OpTypes
  PROVE  /\ AbsenceCalls = IF op.run \in runDirs THEN AbsentPlan ELSE LastPlan
         /\ <<"syncShard">> \o AbsentPlan = RetryPlan
         /\ <<"syncShard">> \o LastPlan = RetryGonePlan
<1>1. AbsenceCalls = IF op.run \in runDirs THEN AbsentPlan ELSE LastPlan
  BY DEF AbsenceCalls, AbsentPlan, LastPlan
<1>2. ASSUME NEW s \in Seq(Calls), Len(s) = 1, NEW t \in Seq(Calls), NEW u \in Seq(Calls),
             Len(u) = 1 + Len(t), u[1] = s[1], \A i \in 1..Len(t) : u[1 + i] = t[i]
      PROVE  s \o t = u
  <2>1. /\ s \o t \in Seq(Calls) /\ Len(s \o t) = Len(s) + Len(t)
        /\ \A i \in 1..Len(s) : (s \o t)[i] = s[i]
        /\ \A i \in 1..Len(t) : (s \o t)[Len(s) + i] = t[i]
    OBVIOUS
  <2>2. ASSUME NEW i \in 1..Len(u) PROVE (s \o t)[i] = u[i]
    <3>2. CASE i = 1
      BY <1>2, <2>1, <3>2
    <3>3. CASE i # 1
      <4>1. i - 1 \in 1..Len(t) /\ 1 + (i - 1) = i
        BY <1>2, <3>3
      <4>2. (s \o t)[1 + (i - 1)] = t[i - 1] /\ u[1 + (i - 1)] = t[i - 1]
        BY <1>2, <2>1, <4>1
      <4> QED BY <4>1, <4>2
    <3> QED BY <3>2, <3>3
  <2>3. Len(s \o t) = Len(u)
    BY <1>2, <2>1
  <2> HIDE DEF Calls
  <2> QED BY <2>1, <2>2, <2>3, SeqEqual
<1>3. <<"syncShard">> \in Seq(Calls) /\ Len(<<"syncShard">>) = 1 /\ <<"syncShard">>[1] = "syncShard"
  BY DEF Calls
<1>4. <<"syncShard">> \o AbsentPlan = RetryPlan
  <2>1. \A i \in 1..2 : RetryPlan[1 + i] = AbsentPlan[i]
    BY ShortPlans
  <2>2. /\ AbsentPlan \in Seq(Calls) /\ Len(AbsentPlan) = 2
        /\ RetryPlan \in Seq(Calls) /\ Len(RetryPlan) = 3 /\ RetryPlan[1] = "syncShard"
    BY ShortPlans
  <2> DEFINE s == <<"syncShard">> t == AbsentPlan u == RetryPlan
  <2>3. /\ s \in Seq(Calls) /\ Len(s) = 1 /\ t \in Seq(Calls) /\ u \in Seq(Calls)
        /\ Len(u) = 1 + Len(t) /\ u[1] = s[1] /\ \A i \in 1..Len(t) : u[1 + i] = t[i]
    BY <1>3, <2>1, <2>2
  <2> HIDE DEF s, t, u
  <2>4. s \o t = u
    BY <1>2, <2>3
  <2> QED BY <2>4 DEF s, t, u
<1>5. <<"syncShard">> \o LastPlan = RetryGonePlan
  <2>1. \A i \in 1..1 : RetryGonePlan[1 + i] = LastPlan[i]
    BY ShortPlans
  <2>2. /\ LastPlan \in Seq(Calls) /\ Len(LastPlan) = 1
        /\ RetryGonePlan \in Seq(Calls) /\ Len(RetryGonePlan) = 2 /\ RetryGonePlan[1] = "syncShard"
    BY ShortPlans
  <2> DEFINE s == <<"syncShard">> t == LastPlan u == RetryGonePlan
  <2>3. /\ s \in Seq(Calls) /\ Len(s) = 1 /\ t \in Seq(Calls) /\ u \in Seq(Calls)
        /\ Len(u) = 1 + Len(t) /\ u[1] = s[1] /\ \A i \in 1..Len(t) : u[1 + i] = t[i]
    BY <1>3, <2>1, <2>2
  <2> HIDE DEF s, t, u
  <2>4. s \o t = u
    BY <1>2, <2>3
  <2> QED BY <2>4 DEF s, t, u
<1> QED BY <1>1, <1>4, <1>5

Going == /\ SafeInv' /\ OpTypes' /\ OpOwns' /\ op'.kind = op.kind /\ op'.answer = op.answer

LEMMA CommitLooks ==
  ASSUME StoreIsNoRun, SafeInv, OpTypes, OpOwns, op.kind \in {"put", "commit"},
         op.kind = "put" => Ready, Rest(LookPlan, 0), Look, UNCHANGED promised
  PROVE  Going /\ Committing'
<1>1. UNCHANGED <<live, disk, promised>>
  BY DEF Look
<1>2. /\ LookPlan \in Seq(Calls) /\ LookPlan # <<>> /\ Len(LookPlan) - 1 = 0
      /\ ShardPlan \in Seq(Calls) /\ RetryPlan \in Seq(Calls) /\ RetryGonePlan \in Seq(Calls)
  BY ShortPlans
<1>3. ASSUME NEW calls \in Seq(Calls), Proceed(calls)
      PROVE  /\ Going /\ Rest(calls, 0)' /\ SameOp
             /\ (Ready => Ready') /\ (Absent => Absent')
             /\ InCas(entries, op.value.digest) => InCas(entries, op.value.digest)'
  <2>1. op'.todo = calls /\ SameOp /\ OpTypes'
    BY <1>2, <1>3, Proceeds
  <2>2. Rest(calls, 0)'
    BY <2>1, Starts
  <2> QED BY <1>1, <2>1, <2>2, OnlyOp DEF Going, SameOp
<1>4. CASE Ready /\ Proceed(ShardPlan)
  <2>1. Going /\ Rest(ShardPlan, 0)' /\ Ready'
    BY <1>2, <1>3, <1>4
  <2>2. 0 \in 0..3 /\ ~(0 >= 1) /\ ~(0 >= 2) /\ 0 # 3
    OBVIOUS
  <2> QED BY <2>1, <2>2 DEF Committing
<1>5. CASE Absent /\ InCas(entries, op.value.digest) /\ Proceed(<<"syncShard">> \o AbsenceCalls)
  <2>1. CASE op.run \in runDirs
    <3>1. Proceed(RetryPlan)
      BY <1>5, <2>1, RetryPlans
    <3>2. Going /\ Rest(RetryPlan, 0)' /\ Absent' /\ InCas(entries, op.value.digest)'
      BY <1>2, <1>3, <1>5, <3>1
    <3>3. 0 \in 0..2 /\ ~(0 >= 1) /\ ~(0 >= 2)
      OBVIOUS
    <3> QED BY <3>2, <3>3 DEF Committing
  <2>2. CASE op.run \notin runDirs
    <3>1. Proceed(RetryGonePlan)
      BY <1>5, <2>2, RetryPlans
    <3>2. /\ Going /\ Rest(RetryGonePlan, 0)' /\ Absent' /\ InCas(entries, op.value.digest)'
          /\ op'.run \notin runDirs'
      BY <1>1, <1>2, <1>3, <1>5, <2>2, <3>1 DEF SameOp, live
    <3> QED BY <3>2 DEF Committing
  <2> QED BY <2>1, <2>2
<1> QED BY <1>4, <1>5, LookedCommit

(* No file of the store is only half there. *)
ShardSynced == \A e \in Both : e.in = "cas" /\ e.name = op.value.digest => e \in entries /\ e \in diskEntries

LEMMA FindsOrMakesShard ==
  ASSUME StoreIsNoRun, SafeInv, OpTypes, OpOwns, op.kind \in {"put", "commit"},
         NEW k \in 0..2, Rest(ShardPlan, k), Ready, k >= 1 => op.value.digest \in shards,
         k >= 2 => ShardSynced, Step
  PROVE  Going /\ Committing'
<1>1. /\ ShardPlan \in Seq(Calls) /\ op.todo # <<>> /\ Head(op.todo) = ShardPlan[k + 1]
      /\ op'.todo = Tail(op.todo) => Rest(ShardPlan, k + 1)'
  BY ShortPlans, StepIs, HeadIs, Takes
<1>2. op.run \in Run /\ op.value.digest \in Digest
  BY DEF OpTypes, Value
<1>3. CASE k = 0
  <2>1. MkdirShard /\ UNCHANGED promised
    BY <1>1, <1>3, ShortPlans, StepIs
  <2>2. /\ Did /\ UNCHANGED <<runDirs, entries, data, disk, promised>>
        /\ shards' = shards \cup {op.value.digest}
    BY <2>1 DEF MkdirShard
  <2>3. SameOp /\ OpTypes' /\ op'.todo = Tail(op.todo)
    BY <1>1, <2>2, DidOne
  <2>4. OpOwns'
    BY <2>2, <2>3, OwnsStays DEF Clean, Both, disk, SameOp
  <2>5. SafeInv'
    <3>1. runDirs' \subseteq Run /\ \A e \in entries : e.in # "cas" => e.in \in runDirs'
      BY <2>2 DEF SafeInv, TypesInv, TreeInv
    <3>2. shards' \subseteq Digest /\ shards \subseteq shards' /\ diskShards' \in {diskShards, shards}
      BY <1>2, <2>2 DEF SafeInv, TypesInv, disk
    <3> QED BY <2>2, <3>1, <3>2, DirsOnly DEF disk
  <2>6. Ready' /\ op'.value.digest \in shards' /\ Rest(ShardPlan, 1)'
    BY <1>1, <1>3, <2>2, <2>3 DEF Ready, disk, SameOp
  <2>7. Going
    BY <2>3, <2>4, <2>5 DEF Going, SameOp
  <2>8. 1 \in 0..3 /\ ~(1 >= 2) /\ 1 # 3
    OBVIOUS
  <2> QED BY <2>6, <2>7, <2>8 DEF Committing
<1>4. CASE k = 1
  <2>1. SyncShard /\ UNCHANGED promised
    BY <1>1, <1>4, ShortPlans, StepIs
  <2>2. /\ SafeInv' /\ DiskMoves /\ SameOp /\ OpTypes' /\ OpOwns' /\ op'.todo = Tail(op.todo)
    BY <1>1, <2>1, SyncedOp
  <2>3. ShardSynced'
    BY <2>1, <2>2, ShardIsSynced DEF ShardSynced
  <2>4. Ready' /\ op'.value.digest \in shards' /\ Rest(ShardPlan, 2)'
    BY <1>1, <1>2, <1>4, <2>2, FactsMoved
  <2>5. Going
    BY <2>2 DEF Going, SameOp
  <2>6. 2 \in 0..3 /\ 2 # 3
    OBVIOUS
  <2> QED BY <2>3, <2>4, <2>5, <2>6 DEF Committing, ShardSynced
<1>5. CASE k = 2
  <2>1. SyncShards /\ UNCHANGED promised
    BY <1>1, <1>5, ShortPlans, StepIs
  <2>2. /\ SafeInv' /\ DiskMoves /\ SameOp /\ OpTypes' /\ OpOwns' /\ op'.todo = Tail(op.todo)
    BY <1>1, <2>1, SyncedOp
  <2>3. ShardSynced'
    BY <1>2, <1>5, <2>2, FactsMoved DEF ShardSynced
  <2>4. Ready' /\ op'.value.digest \in shards' /\ Rest(ShardPlan, 3)'
    BY <1>1, <1>2, <1>5, <2>2, FactsMoved
  <2>5. op'.value.digest \in diskShards'
    BY <1>5, <2>1, <2>2 DEF SyncShards, SameOp
  <2>6. Going
    BY <2>2 DEF Going, SameOp
  <2>7. 3 \in 0..3
    OBVIOUS
  <2> QED BY <2>3, <2>4, <2>5, <2>6, <2>7 DEF Committing, ShardSynced
<1> QED BY <1>3, <1>4, <1>5

LEMMA LooksAgain ==
  ASSUME StoreIsNoRun, SafeInv, OpTypes, OpOwns, op.kind \in {"put", "commit"},
         Rest(ShardPlan, 3), Ready, ShardSynced, op.value.digest \in diskShards,
         LookFinal, UNCHANGED promised
  PROVE  Going /\ Committing'
<1>1. UNCHANGED <<live, disk, promised>>
  BY DEF LookFinal
<1>2. /\ ShardPlan \in Seq(Calls) /\ ShardPlan # <<>> /\ Len(ShardPlan) - 1 = 3
      /\ RenamePlan \in Seq(Calls) /\ LinkedPlan \in Seq(Calls)
  BY ShortPlans
<1>3. ASSUME NEW calls \in Seq(Calls), Proceed(calls)
      PROVE  Going /\ Rest(calls, 0)' /\ SameOp /\ Ready' /\ (Stored => Stored')
             /\ (~InCas(Both, op.value.digest) => ~InCas(Both, op.value.digest)')
  <2>1. op'.todo = calls /\ SameOp /\ OpTypes'
    BY <1>2, <1>3, Proceeds
  <2>2. Rest(calls, 0)'
    BY <2>1, Starts
  <2> QED BY <1>1, <2>1, <2>2, OnlyOp DEF Going, SameOp
<1>4. 0 \in 0..3 /\ ~(0 >= 1) /\ ~(0 >= 2) /\ ~(0 >= 3)
  OBVIOUS
<1>5. CASE ~InCas(entries, op.value.digest)
  <2>1. Proceed(RenamePlan)
    BY <1>5, StoreIsRead DEF LookFinal, RenamePlan
  <2>2. ~InCas(Both, op.value.digest)
    BY <1>5 DEF InCas, ShardSynced
  <2>3. op'.value.digest \in diskShards' /\ Going /\ Rest(RenamePlan, 0)' /\ Ready'
        /\ ~InCas(Both, op.value.digest)'
    BY <1>1, <1>2, <1>3, <2>1, <2>2 DEF SameOp, disk
  <2> QED BY <1>4, <2>3 DEF Committing
<1>6. CASE InCas(entries, op.value.digest)
  <2>1. Proceed(LinkedPlan)
    BY <1>6, StoreIsRead DEF LookFinal, LinkedPlan
  <2>2. Stored
    BY <1>6 DEF InCas, ShardSynced, Stored, Both
  <2>3. Going /\ Rest(LinkedPlan, 0)' /\ Ready' /\ Stored'
    BY <1>2, <1>3, <2>1, <2>2
  <2> QED BY <1>4, <2>3 DEF Committing
<1> QED BY <1>5, <1>6

(* The value that an operation of stage, put or commit carries is whole. *)
LEMMA WholeValue ==
  ASSUME OpTypes, op.kind \in {"stage", "put", "commit"}
  PROVE  WholeFile(op.value.digest) = [value |-> op.value, mode |-> 400]
<1>1. op.value = [digest |-> op.value.digest, whole |-> op.value.whole] /\ op.value.whole = TRUE
  BY DEF OpTypes, Value
<1>2. op.value = [digest |-> op.value.digest, whole |-> TRUE]
  BY <1>1
<1> QED BY <1>2, Zenon DEF File, WholeFile

LEMMA Renames ==
  ASSUME StoreIsNoRun, SafeInv, OpTypes, OpOwns, op.kind \in {"put", "commit"}, op.todo # <<>>,
         Ready, ~InCas(Both, op.value.digest), op.value.digest \in diskShards,
         Rename, UNCHANGED promised
  PROVE  /\ SafeInv' /\ SameOp /\ OpTypes' /\ OpOwns' /\ op'.todo = Tail(op.todo)
         /\ InCas(entries, op.value.digest)' /\ Absent'
<1> DEFINE x == op.value.digest
<1>1. PICK m \in entries \cap diskEntries :
        /\ m.in = op.run /\ m.name = op.name
        /\ data[m.ino] = [value |-> op.value, mode |-> 400]
        /\ diskData[m.ino] = [value |-> op.value, mode |-> 400]
  BY DEF Ready
<1>2. m.in # "cas" /\ x \in diskShards /\ ~InCas(Both, x) /\ op.run \in Run
  BY <1>1 DEF OpTypes, StoreIsNoRun
<1>3. data[m.ino] = WholeFile(x) /\ diskData[m.ino] = WholeFile(x)
  BY <1>1, WholeValue
<1>4. Here = {m}
  BY <1>1 DEF Here, At, SafeInv, TreeInv, SamePlace, Both
<1>5. /\ Did /\ UNCHANGED <<runDirs, shards, data, disk>>
      /\ entries' = {IF e \in Here THEN Entry("cas", op.value.digest, e.ino) ELSE e : e \in entries}
  BY DEF Rename
<1>6. entries' = (entries \ {m}) \cup {Entry("cas", x, m.ino)}
  BY <1>1, <1>4, <1>5
<1>7. SameOp /\ OpTypes' /\ op'.todo = Tail(op.todo)
  BY <1>5, DidOne
<1>8. OpOwns'
  BY <1>7, OwnsStays
<1>9. x \notin promised.deleted
  BY DEF OpOwns
<1>10. ASSUME NEW h \in promised.kept, h.run = m.in, h.name = m.name
       PROVE  h \notin promised.staged /\ h.value.digest = x
  <2>1. CASE op.kind = "put"
    BY <1>1, <1>10, <2>1 DEF OpOwns
  <2>2. CASE op.kind = "commit"
    <3> DEFINE g == [run |-> op.run, name |-> op.name, value |-> op.value]
    <3>1. g \in promised.kept /\ g \notin promised.staged
      BY <2>2 DEF OpOwns
    <3>2. g.name = h.name /\ g.value = op.value
      BY <1>1, <1>10
    <3> HIDE DEF g
    <3>3. g = h
      BY <3>1, <3>2 DEF SafeInv, PromiseInv
    <3> QED BY <3>1, <3>2, <3>3
  <2> QED BY <2>1, <2>2
<1> HIDE DEF x
<1>11. SafeInv'
  BY <1>2, <1>3, <1>5, <1>6, <1>9, <1>10, Renamed
<1>12. InCas(entries, op.value.digest)'
  <2> DEFINE new == Entry("cas", x, m.ino)
  <2>1. new \in entries' /\ new.in = "cas" /\ new.name = x
    BY <1>6 DEF Entry
  <2>2. op'.value.digest = x
    BY <1>7 DEF SameOp, x
  <2> HIDE DEF new
  <2> QED BY <2>1, <2>2 DEF InCas
<1>13. Absent'
  <2>1. \A e \in entries' : ~(e.in = op.run /\ e.name = op.name)
    <3>1. Entry("cas", x, m.ino).in = "cas" /\ op.run # "cas"
      BY <1>1, <1>2 DEF Entry
    <3>2. \A e \in entries : e.in = op.run /\ e.name = op.name => e = m
      BY <1>4 DEF Here, At
    <3> QED BY <1>6, <3>1, <3>2
  <2> QED BY <1>7, <2>1 DEF Absent, Gone, SameOp
<1> QED BY <1>7, <1>8, <1>11, <1>12, <1>13

(* An operation that has made its file absent removes its directory last. *)
LEMMA RmdirOps ==
  ASSUME SafeInv, OpTypes, OpOwns, RmdirRun, UNCHANGED promised, Absent, AbsentOnDisk
  PROVE  Going /\ LastCalls(AbsentOnDisk)' /\ (Stored => Stored')
<1>1. /\ SafeInv' /\ SameOp /\ OpTypes' /\ OpOwns'
      /\ UNCHANGED <<shards, entries, data, disk, promised>>
      /\ (Rest(LastPlan, 0)' /\ op'.run \notin runDirs') \/ op'.todo = <<>>
  BY RmdirOp
<1>2. Absent' /\ AbsentOnDisk' /\ (Stored => Stored')
  BY <1>1 DEF Absent, Gone, AbsentOnDisk, Clean, Both, Stored, InCas, disk, SameOp
<1> QED BY <1>1, <1>2 DEF Going, SameOp, LastCalls

LEMMA RmdirCommits ==
  ASSUME SafeInv, OpTypes, OpOwns, RmdirRun, UNCHANGED promised, Absent, AbsentOnDisk, Stored
  PROVE  Going /\ Committing'
<1>1. Going /\ LastCalls(AbsentOnDisk)' /\ Stored'
  BY RmdirOps
<1> QED BY <1>1 DEF Committing

(* After the file has got its place: the two directories are synced, and the
   directory of the run goes. *)
LEMMA RenamePlanStep ==
  ASSUME StoreIsNoRun, SafeInv, OpTypes, OpOwns, op.kind \in {"put", "commit"},
         NEW k \in 0..3, Rest(RenamePlan, k),
         k = 0 => Ready /\ ~InCas(Both, op.value.digest) /\ op.value.digest \in diskShards,
         k >= 1 => InCas(entries, op.value.digest) /\ Absent,
         k >= 2 => AbsentOnDisk, k >= 3 => Stored, Step
  PROVE  Going /\ Committing'
<1>1. /\ RenamePlan \in Seq(Calls) /\ op.todo # <<>> /\ Head(op.todo) = RenamePlan[k + 1]
      /\ op'.todo = Tail(op.todo) => Rest(RenamePlan, k + 1)'
  BY ShortPlans, StepIs, HeadIs, Takes
<1>2. op.run \in Run
  BY DEF OpTypes
<1>3. CASE k = 0
  <2>1. Rename /\ UNCHANGED promised
    BY <1>1, <1>3, ShortPlans, StepIs
  <2>2. /\ SafeInv' /\ SameOp /\ OpTypes' /\ OpOwns' /\ op'.todo = Tail(op.todo)
        /\ InCas(entries, op.value.digest)' /\ Absent'
    BY <1>1, <1>3, <2>1, Renames
  <2>3. Going /\ Rest(RenamePlan, 1)'
    BY <1>1, <1>3, <2>2 DEF Going, SameOp
  <2>4. 1 \in 0..3 /\ 1 # 0 /\ ~(1 >= 2) /\ ~(1 >= 3)
    OBVIOUS
  <2> QED BY <2>2, <2>3, <2>4 DEF Committing
<1>4. CASE k = 1
  <2>1. SyncRun /\ UNCHANGED promised
    BY <1>1, <1>4, ShortPlans, StepIs
  <2>2. /\ SafeInv' /\ DiskMoves /\ SameOp /\ OpTypes' /\ OpOwns' /\ op'.todo = Tail(op.todo)
    BY <1>1, <2>1, SyncedOp
  <2>3. InCas(entries, op.value.digest)' /\ Absent' /\ AbsentOnDisk'
    BY <1>2, <1>4, <2>1, <2>2, FactsMoved, RunIsSynced
  <2>4. Going /\ Rest(RenamePlan, 2)'
    BY <1>1, <1>4, <2>2 DEF Going, SameOp
  <2>5. 2 \in 0..3 /\ 2 # 0 /\ ~(2 >= 3)
    OBVIOUS
  <2> QED BY <2>3, <2>4, <2>5 DEF Committing
<1>5. CASE k = 2
  <2>1. SyncShard /\ UNCHANGED promised
    BY <1>1, <1>5, ShortPlans, StepIs
  <2>2. /\ SafeInv' /\ DiskMoves /\ SameOp /\ OpTypes' /\ OpOwns' /\ op'.todo = Tail(op.todo)
    BY <1>1, <2>1, SyncedOp
  <2>3. InCas(entries, op.value.digest)' /\ Absent' /\ AbsentOnDisk'
    BY <1>2, <1>5, <2>1, <2>2, FactsMoved
  <2>4. Stored'
    BY <1>5, <2>1, <2>2, ShardIsSynced
  <2>5. Going /\ Rest(RenamePlan, 3)'
    BY <1>1, <1>5, <2>2 DEF Going, SameOp
  <2>6. 3 \in 0..3 /\ 3 # 0
    OBVIOUS
  <2> QED BY <2>3, <2>4, <2>5, <2>6 DEF Committing
<1>6. CASE k = 3
  <2>1. RmdirRun /\ UNCHANGED promised
    BY <1>1, <1>6, ShortPlans, StepIs
  <2> QED BY <1>6, <2>1, RmdirCommits
<1> QED BY <1>3, <1>4, <1>5, <1>6

LEMMA LinkedPlanStep ==
  ASSUME StoreIsNoRun, SafeInv, OpTypes, OpOwns, op.kind \in {"put", "commit"},
         NEW k \in 0..3, Rest(LinkedPlan, k), Stored, k >= 1 => Absent, k >= 2 => AbsentOnDisk, Step
  PROVE  Going /\ Committing'
<1>1. /\ LinkedPlan \in Seq(Calls) /\ op.todo # <<>> /\ Head(op.todo) = LinkedPlan[k + 1]
      /\ op'.todo = Tail(op.todo) => Rest(LinkedPlan, k + 1)'
  BY ShortPlans, StepIs, HeadIs, Takes
<1>2. op.run \in Run
  BY DEF OpTypes
<1>3. CASE k = 0
  <2>1. UnlinkStage /\ UNCHANGED promised
    BY <1>1, <1>3, ShortPlans, StepIs
  <2>2. ASSUME NEW h \in promised.kept, h.run = op.run, h.name = op.name
        PROVE  h \notin promised.staged /\ InCas(entries \cap diskEntries, h.value.digest)
    <3>1. CASE op.kind = "put"
      BY <2>2, <3>1 DEF OpOwns
    <3>2. CASE op.kind = "commit"
      <4> DEFINE g == [run |-> op.run, name |-> op.name, value |-> op.value]
      <4>1. g \in promised.kept /\ g \notin promised.staged
        BY <3>2 DEF OpOwns
      <4>2. g.name = h.name /\ g.value = op.value
        BY <2>2
      <4> HIDE DEF g
      <4>3. g = h
        BY <4>1, <4>2 DEF SafeInv, PromiseInv
      <4> QED BY <4>1, <4>2, <4>3 DEF Stored
    <3> QED BY <3>1, <3>2
  <2>3. /\ SafeInv' /\ SameOp /\ OpTypes' /\ OpOwns' /\ op'.todo = Tail(op.todo)
        /\ Absent' /\ Stored'
    BY <1>1, <2>1, <2>2, StageUnlinked
  <2>4. Going /\ Rest(LinkedPlan, 1)'
    BY <1>1, <1>3, <2>3 DEF Going, SameOp
  <2>5. 1 \in 0..3 /\ 1 # 0 /\ ~(1 >= 2)
    OBVIOUS
  <2> QED BY <2>3, <2>4, <2>5 DEF Committing
<1>4. CASE k = 1
  <2>1. SyncRun /\ UNCHANGED promised
    BY <1>1, <1>4, ShortPlans, StepIs
  <2>2. /\ SafeInv' /\ DiskMoves /\ SameOp /\ OpTypes' /\ OpOwns' /\ op'.todo = Tail(op.todo)
    BY <1>1, <2>1, SyncedOp
  <2>3. Stored' /\ Absent' /\ AbsentOnDisk'
    BY <1>2, <1>4, <2>1, <2>2, FactsMoved, RunIsSynced
  <2>4. Going /\ Rest(LinkedPlan, 2)'
    BY <1>1, <1>4, <2>2 DEF Going, SameOp
  <2>5. 2 \in 0..3 /\ 2 # 0
    OBVIOUS
  <2> QED BY <2>3, <2>4, <2>5 DEF Committing
<1>5. CASE k = 2
  <2>1. SyncShard /\ UNCHANGED promised
    BY <1>1, <1>5, ShortPlans, StepIs
  <2>2. /\ SafeInv' /\ DiskMoves /\ SameOp /\ OpTypes' /\ OpOwns' /\ op'.todo = Tail(op.todo)
    BY <1>1, <2>1, SyncedOp
  <2>3. Stored' /\ Absent' /\ AbsentOnDisk'
    BY <1>2, <1>5, <2>1, <2>2, FactsMoved
  <2>4. Going /\ Rest(LinkedPlan, 3)'
    BY <1>1, <1>5, <2>2 DEF Going, SameOp
  <2>5. 3 \in 0..3 /\ 3 # 0
    OBVIOUS
  <2> QED BY <2>3, <2>4, <2>5 DEF Committing
<1>6. CASE k = 3
  <2>1. RmdirRun /\ UNCHANGED promised
    BY <1>1, <1>6, ShortPlans, StepIs
  <2> QED BY <1>6, <2>1, RmdirCommits
<1> QED BY <1>3, <1>4, <1>5, <1>6

LEMMA RetryPlanStep ==
  ASSUME StoreIsNoRun, SafeInv, OpTypes, OpOwns, op.kind \in {"put", "commit"},
         NEW k \in 0..2, Rest(RetryPlan, k), InCas(entries, op.value.digest), Absent,
         k >= 1 => Stored, k >= 2 => AbsentOnDisk, Step
  PROVE  Going /\ Committing'
<1>1. /\ RetryPlan \in Seq(Calls) /\ op.todo # <<>> /\ Head(op.todo) = RetryPlan[k + 1]
      /\ op'.todo = Tail(op.todo) => Rest(RetryPlan, k + 1)'
  BY ShortPlans, StepIs, HeadIs, Takes
<1>2. op.run \in Run
  BY DEF OpTypes
<1>3. CASE k = 0
  <2>1. SyncShard /\ UNCHANGED promised
    BY <1>1, <1>3, ShortPlans, StepIs
  <2>2. /\ SafeInv' /\ DiskMoves /\ SameOp /\ OpTypes' /\ OpOwns' /\ op'.todo = Tail(op.todo)
    BY <1>1, <2>1, SyncedOp
  <2>3. InCas(entries, op.value.digest)' /\ Absent' /\ Stored'
    BY <1>2, <2>1, <2>2, FactsMoved, ShardIsSynced
  <2>4. Going /\ Rest(RetryPlan, 1)'
    BY <1>1, <1>3, <2>2 DEF Going, SameOp
  <2>5. 1 \in 0..2 /\ ~(1 >= 2)
    OBVIOUS
  <2> QED BY <2>3, <2>4, <2>5 DEF Committing
<1>4. CASE k = 1
  <2>1. SyncRun /\ UNCHANGED promised
    BY <1>1, <1>4, ShortPlans, StepIs
  <2>2. /\ SafeInv' /\ DiskMoves /\ SameOp /\ OpTypes' /\ OpOwns' /\ op'.todo = Tail(op.todo)
    BY <1>1, <2>1, SyncedOp
  <2>3. InCas(entries, op.value.digest)' /\ Absent' /\ Stored' /\ AbsentOnDisk'
    BY <1>2, <1>4, <2>1, <2>2, FactsMoved, RunIsSynced
  <2>4. Going /\ Rest(RetryPlan, 2)'
    BY <1>1, <1>4, <2>2 DEF Going, SameOp
  <2>5. 2 \in 0..2
    OBVIOUS
  <2> QED BY <2>3, <2>4, <2>5 DEF Committing
<1>5. CASE k = 2
  <2>1. RmdirRun /\ UNCHANGED promised
    BY <1>1, <1>5, ShortPlans, StepIs
  <2> QED BY <1>5, <2>1, RmdirCommits
<1> QED BY <1>3, <1>4, <1>5

LEMMA RetryGoneStep ==
  ASSUME StoreIsNoRun, SafeInv, OpTypes, OpOwns, op.kind \in {"put", "commit"},
         Rest(RetryGonePlan, 0), InCas(entries, op.value.digest), Absent, op.run \notin runDirs, Step
  PROVE  Going /\ Committing'
<1>1. /\ RetryGonePlan \in Seq(Calls) /\ op.todo # <<>> /\ Head(op.todo) = RetryGonePlan[0 + 1]
      /\ op'.todo = Tail(op.todo) => Rest(RetryGonePlan, 0 + 1)'
  BY ShortPlans, StepIs, HeadIs, Takes
<1>2. SyncShard /\ UNCHANGED promised
  BY <1>1, ShortPlans, StepIs
<1>3. /\ SafeInv' /\ DiskMoves /\ SameOp /\ OpTypes' /\ OpOwns' /\ op'.todo = Tail(op.todo)
      /\ runDirs' = runDirs
  BY <1>1, <1>2, SyncedOp
<1>4. Rest(LastPlan, 0)'
  <2>1. /\ RetryGonePlan # <<>> /\ Len(RetryGonePlan) = 2 /\ Len(RetryGonePlan) - 1 = 1 /\ 0 + 1 = 1
        /\ RetryGonePlan[2] = "syncStaging"
    BY ShortPlans
  <2>2. LastPlan \in Seq(Calls) /\ Len(LastPlan) = 1 /\ LastPlan[1] = "syncStaging"
    BY ShortPlans
  <2> QED BY <1>1, <1>3, <2>1, <2>2, LastOf
<1>5. Absent' /\ Stored' /\ op'.run \notin runDirs'
  BY <1>2, <1>3, FactsMoved, ShardIsSynced DEF OpTypes, SameOp
<1> QED BY <1>3, <1>4, <1>5 DEF Going, SameOp, Committing, LastCalls

(* The last call of all: the directory of the run is gone from the disk. *)
LEMMA LastStep ==
  ASSUME SafeInv, OpTypes, OpOwns, Rest(LastPlan, 0), Step
  PROVE  /\ Going /\ op'.todo = <<>> /\ DiskMoves /\ SameOp
         /\ (Absent /\ op.run \notin runDirs => AbsentOnDisk')
<1>1. /\ LastPlan \in Seq(Calls) /\ op.todo # <<>> /\ Head(op.todo) = LastPlan[0 + 1]
      /\ op'.todo = Tail(op.todo) => Rest(LastPlan, 0 + 1)'
  BY ShortPlans, StepIs, HeadIs, Takes
<1>2. SyncStaging /\ UNCHANGED promised
  BY <1>1, ShortPlans, StepIs
<1>3. /\ SafeInv' /\ DiskMoves /\ SameOp /\ OpTypes' /\ OpOwns' /\ op'.todo = Tail(op.todo)
  BY <1>1, <1>2, SyncedOp
<1>4. op'.todo = <<>>
  <2>1. Len(op'.todo) = 0 /\ op'.todo \in Seq(Calls)
    BY <1>1, <1>3, ShortPlans DEF Rest, OpTypes
  <2> QED BY <2>1, EmptySeq
<1>5. Absent /\ op.run \notin runDirs => AbsentOnDisk'
  BY <1>2, <1>3, StagingIsSynced DEF OpTypes
<1> QED BY <1>3, <1>4, <1>5 DEF Going, SameOp

LEMMA CommittingStep ==
  ASSUME StoreIsNoRun, SafeInv, OpTypes, OpOwns, op.kind \in {"put", "commit"}, Committing, Step
  PROVE  Going /\ Committing'
<1>1. op.todo # <<>>
  BY StepIs
<1>2. CASE Rest(LookPlan, 0) /\ (op.kind = "put" => Ready)
  <2>1. LookPlan \in Seq(Calls) /\ LookPlan[0 + 1] = "look"
    BY ShortPlans
  <2>2. Head(op.todo) = "look"
    BY <1>1, <1>2, <2>1, HeadIs
  <2>3. Look /\ UNCHANGED promised
    BY <2>2, StepIs
  <2> QED BY <1>2, <2>3, CommitLooks
<1>3. ASSUME NEW k \in 0..3, Rest(ShardPlan, k), Ready, k >= 1 => op.value.digest \in shards,
             k >= 2 => ShardSynced, k = 3 => op.value.digest \in diskShards
      PROVE  Going /\ Committing'
  <2>1. CASE k = 3
    <3>1. ShardPlan \in Seq(Calls) /\ ShardPlan[3 + 1] = "lookFinal"
      BY ShortPlans
    <3>2. Head(op.todo) = "lookFinal"
      BY <1>1, <1>3, <2>1, <3>1, HeadIs
    <3>3. LookFinal /\ UNCHANGED promised
      BY <3>2, StepIs
    <3> QED BY <1>3, <2>1, <3>3, LooksAgain
  <2>2. CASE k # 3
    <3>1. k \in 0..2
      BY <2>2
    <3> QED BY <1>3, <3>1, FindsOrMakesShard
  <2> QED BY <2>1, <2>2
<1>4. ASSUME NEW k \in 0..3, Rest(RenamePlan, k),
             k = 0 => Ready /\ ~InCas(Both, op.value.digest) /\ op.value.digest \in diskShards,
             k >= 1 => InCas(entries, op.value.digest) /\ Absent,
             k >= 2 => AbsentOnDisk, k >= 3 => Stored
      PROVE  Going /\ Committing'
  BY <1>4, RenamePlanStep
<1>5. ASSUME NEW k \in 0..3, Rest(LinkedPlan, k), Stored, k >= 1 => Absent, k >= 2 => AbsentOnDisk
      PROVE  Going /\ Committing'
  BY <1>5, LinkedPlanStep
<1>6. ASSUME NEW k \in 0..2, Rest(RetryPlan, k), InCas(entries, op.value.digest), Absent,
             k >= 1 => Stored, k >= 2 => AbsentOnDisk
      PROVE  Going /\ Committing'
  BY <1>6, RetryPlanStep
<1>7. CASE Rest(RetryGonePlan, 0) /\ InCas(entries, op.value.digest) /\ Absent /\ op.run \notin runDirs
  BY <1>7, RetryGoneStep
<1>8. CASE Stored /\ LastCalls(AbsentOnDisk)
  <2>1. Rest(LastPlan, 0) /\ op.run \notin runDirs /\ Absent
    BY <1>1, <1>8 DEF LastCalls
  <2>2. /\ Going /\ op'.todo = <<>> /\ DiskMoves /\ SameOp /\ AbsentOnDisk'
    BY <2>1, LastStep
  <2>3. Stored'
    BY <1>8, <2>2, FactsMoved DEF OpTypes
  <2> QED BY <2>2, <2>3 DEF Committing, LastCalls
<1> QED BY <1>2, <1>3, <1>4, <1>5, <1>6, <1>7, <1>8 DEF Committing, ShardSynced

-----------------------------------------------------------------------------
(* discard_stage and discard_incomplete. *)

LEMMA DiscardLooks ==
  ASSUME StoreIsNoRun, SafeInv, OpTypes, OpOwns, op.kind \in {"discard", "incomplete"},
         Rest(LookPlan, 0), op.kind = "discard" => Absent \/ Holds(op.run, op.name, op.value),
         Look, UNCHANGED promised
  PROVE  Going /\ Discarding'
<1>1. UNCHANGED <<live, disk, promised>> /\ LookDiscard
  BY DEF Look, LookCommit, LookDelete
<1>2. /\ LookPlan \in Seq(Calls) /\ LookPlan # <<>> /\ Len(LookPlan) - 1 = 0
      /\ AbsentPlan \in Seq(Calls) /\ LastPlan \in Seq(Calls) /\ RemovePlan \in Seq(Calls)
  BY ShortPlans
<1>3. ASSUME NEW calls \in Seq(Calls), Proceed(calls)
      PROVE  Going /\ Rest(calls, 0)' /\ SameOp /\ (Absent => Absent')
  <2>1. op'.todo = calls /\ SameOp /\ OpTypes'
    BY <1>2, <1>3, Proceeds
  <2>2. Rest(calls, 0)'
    BY <2>1, Starts
  <2> QED BY <1>1, <2>1, <2>2, OnlyOp DEF Going, SameOp
<1>4. CASE Absent
  <2>1. Here = {}
    BY <1>4, AbsentIsRead
  <2>2. Proceed(AbsenceCalls)
    BY <1>1, <2>1 DEF LookDiscard
  <2>3. CASE op.run \in runDirs
    <3>1. Going /\ Rest(AbsentPlan, 0)' /\ Absent'
      BY <1>2, <1>3, <1>4, <2>2, <2>3, RetryPlans
    <3>2. 0 \in 0..1 /\ ~(0 >= 1)
      OBVIOUS
    <3> QED BY <3>1, <3>2 DEF Discarding
  <2>4. CASE op.run \notin runDirs
    <3>1. Going /\ Rest(LastPlan, 0)' /\ Absent' /\ op'.run \notin runDirs'
      BY <1>1, <1>2, <1>3, <1>4, <2>2, <2>4, RetryPlans DEF SameOp, live
    <3> QED BY <3>1 DEF Discarding, LastCalls
  <2> QED BY <2>3, <2>4
<1>5. CASE ~Absent
  <2>1. Here # {} /\ ~(op.kind = "discard" /\ ~Holds(op.run, op.name, op.value))
    BY <1>5, AbsentIsRead
  <2>2. Proceed(RemovePlan)
    BY <1>1, <2>1 DEF LookDiscard, RemovePlan
  <2>3. Going /\ Rest(RemovePlan, 0)'
    BY <1>2, <1>3, <2>2
  <2>4. 0 \in 0..2 /\ ~(0 >= 1) /\ ~(0 >= 2)
    OBVIOUS
  <2> QED BY <2>3, <2>4 DEF Discarding
<1> QED BY <1>4, <1>5

(* Removing a file and its directory, for good or to clean up. *)
LEMMA RemovePlanStep ==
  ASSUME StoreIsNoRun, SafeInv, OpTypes, OpOwns,
         op.kind \in {"stage", "put", "discard", "incomplete"},
         NEW k \in 0..2, Rest(RemovePlan, k), Step
  PROVE  /\ Going
         /\ k < 2 => Rest(RemovePlan, k + 1)'
         /\ k = 0 => Absent'
         /\ k = 1 /\ Absent => Absent' /\ AbsentOnDisk'
         /\ k = 2 => (Rest(LastPlan, 0)' \/ op'.todo = <<>>)
         /\ k = 2 /\ Absent /\ AbsentOnDisk => LastCalls(AbsentOnDisk)'
<1>1. /\ RemovePlan \in Seq(Calls) /\ op.todo # <<>> /\ Head(op.todo) = RemovePlan[k + 1]
      /\ op'.todo = Tail(op.todo) => Rest(RemovePlan, k + 1)'
  BY ShortPlans, StepIs, HeadIs, Takes
<1>2. op.run \in Run
  BY DEF OpTypes
<1>3. CASE k = 0
  <2>1. UnlinkStage /\ UNCHANGED promised
    BY <1>1, <1>3, ShortPlans, StepIs
  <2>2. \A h \in promised.kept : h.run = op.run /\ h.name = op.name => Clean(op.run, op.name)
    BY DEF OpOwns
  <2>3. /\ SafeInv' /\ SameOp /\ OpTypes' /\ OpOwns' /\ op'.todo = Tail(op.todo) /\ Absent'
    BY <1>1, <2>1, <2>2, StageUnlinked
  <2> QED BY <1>1, <1>3, <2>3 DEF Going, SameOp
<1>4. CASE k = 1
  <2>1. SyncRun /\ UNCHANGED promised
    BY <1>1, <1>4, ShortPlans, StepIs
  <2>2. /\ SafeInv' /\ DiskMoves /\ SameOp /\ OpTypes' /\ OpOwns' /\ op'.todo = Tail(op.todo)
    BY <1>1, <2>1, SyncedOp
  <2>3. Absent => Absent' /\ AbsentOnDisk'
    BY <1>2, <2>1, <2>2, FactsMoved, RunIsSynced
  <2> QED BY <1>1, <1>4, <2>2, <2>3 DEF Going, SameOp
<1>5. CASE k = 2
  <2>1. RmdirRun /\ UNCHANGED promised
    BY <1>1, <1>5, ShortPlans, StepIs
  <2>2. /\ SafeInv' /\ SameOp /\ OpTypes' /\ OpOwns'
        /\ (Rest(LastPlan, 0)' /\ op'.run \notin runDirs') \/ op'.todo = <<>>
    BY <2>1, RmdirOp
  <2>3. Absent /\ AbsentOnDisk => LastCalls(AbsentOnDisk)'
    BY <2>1, RmdirOps
  <2> QED BY <1>5, <2>2, <2>3 DEF Going, SameOp
<1> QED BY <1>3, <1>4, <1>5

LEMMA DiscardingStep ==
  ASSUME StoreIsNoRun, SafeInv, OpTypes, OpOwns, op.kind \in {"discard", "incomplete"},
         Discarding, Step
  PROVE  Going /\ Discarding'
<1>1. op.todo # <<>>
  BY StepIs
<1>2. CASE /\ Rest(LookPlan, 0)
           /\ op.kind = "discard" => Absent \/ Holds(op.run, op.name, op.value)
  <2>1. LookPlan \in Seq(Calls) /\ LookPlan[0 + 1] = "look"
    BY ShortPlans
  <2>2. Head(op.todo) = "look"
    BY <1>1, <1>2, <2>1, HeadIs
  <2>3. Look /\ UNCHANGED promised
    BY <2>2, StepIs
  <2> QED BY <1>2, <2>3, DiscardLooks
<1>3. ASSUME NEW k \in 0..2, Rest(RemovePlan, k), k >= 1 => Absent, k >= 2 => AbsentOnDisk
      PROVE  Going /\ Discarding'
  <2>1. /\ Going
        /\ k < 2 => Rest(RemovePlan, k + 1)'
        /\ k = 0 => Absent'
        /\ k = 1 /\ Absent => Absent' /\ AbsentOnDisk'
        /\ k = 2 /\ Absent /\ AbsentOnDisk => LastCalls(AbsentOnDisk)'
    BY <1>3, RemovePlanStep
  <2>2. CASE k < 2
    <3>1. k + 1 \in 0..2 /\ (k + 1 >= 1 => Absent') /\ (k + 1 >= 2 => AbsentOnDisk')
      BY <1>3, <2>1, <2>2
    <3> QED BY <2>1, <2>2, <3>1 DEF Discarding
  <2>3. CASE k = 2
    BY <1>3, <2>1, <2>3 DEF Discarding
  <2> QED BY <2>2, <2>3
<1>4. ASSUME NEW k \in 0..1, Rest(AbsentPlan, k), Absent, k >= 1 => AbsentOnDisk
      PROVE  Going /\ Discarding'
  <2>1. /\ AbsentPlan \in Seq(Calls) /\ Head(op.todo) = AbsentPlan[k + 1]
        /\ op'.todo = Tail(op.todo) => Rest(AbsentPlan, k + 1)'
    BY <1>1, <1>4, ShortPlans, HeadIs, Takes
  <2>2. CASE k = 0
    <3>1. SyncRun /\ UNCHANGED promised
      BY <2>1, <2>2, ShortPlans, StepIs
    <3>2. /\ SafeInv' /\ DiskMoves /\ SameOp /\ OpTypes' /\ OpOwns' /\ op'.todo = Tail(op.todo)
      BY <1>1, <3>1, SyncedOp
    <3>3. Absent' /\ AbsentOnDisk'
      BY <1>4, <3>1, <3>2, FactsMoved, RunIsSynced DEF OpTypes
    <3>4. Going /\ Rest(AbsentPlan, 1)'
      BY <2>1, <2>2, <3>2 DEF Going, SameOp
    <3>5. 1 \in 0..1
      OBVIOUS
    <3> QED BY <3>3, <3>4, <3>5 DEF Discarding
  <2>3. CASE k = 1
    <3>1. RmdirRun /\ UNCHANGED promised
      BY <2>1, <2>3, ShortPlans, StepIs
    <3>2. Going /\ LastCalls(AbsentOnDisk)'
      BY <1>4, <2>3, <3>1, RmdirOps
    <3> QED BY <3>2 DEF Discarding
  <2> QED BY <2>2, <2>3
<1>5. CASE LastCalls(AbsentOnDisk)
  <2>1. Rest(LastPlan, 0) /\ op.run \notin runDirs /\ Absent
    BY <1>1, <1>5 DEF LastCalls
  <2>2. Going /\ op'.todo = <<>> /\ AbsentOnDisk'
    BY <2>1, LastStep
  <2> QED BY <2>2 DEF Discarding, LastCalls
<1> QED BY <1>2, <1>3, <1>4, <1>5 DEF Discarding

-----------------------------------------------------------------------------
(* delete_artifact. *)

LEMMA DeleteLooks ==
  ASSUME StoreIsNoRun, SafeInv, OpTypes, OpOwns, op.kind = "delete", Rest(LookPlan, 0),
         Look, UNCHANGED promised
  PROVE  Going /\ Deleting'
<1>1. UNCHANGED <<live, disk, promised>> /\ LookDelete
  BY DEF Look, LookCommit, LookDiscard
<1>2. /\ LookPlan \in Seq(Calls) /\ LookPlan # <<>> /\ Len(LookPlan) - 1 = 0
      /\ DeletePlan \in Seq(Calls) /\ DeletedPlan \in Seq(Calls) /\ <<>> \in Seq(Calls)
  BY ShortPlans, EmptySeq
<1>3. ASSUME NEW calls \in Seq(Calls), Proceed(calls)
      PROVE  /\ Going /\ Rest(calls, 0)' /\ SameOp /\ op'.todo = calls
             /\ ~InCas(entries, op.value.digest) => ~InCas(entries, op.value.digest)'
             /\ ~InCas(Both, op.value.digest) => ~InCas(Both, op.value.digest)'
  <2>1. op'.todo = calls /\ SameOp /\ OpTypes'
    BY <1>2, <1>3, Proceeds
  <2>2. Rest(calls, 0)'
    BY <2>1, Starts
  <2> QED BY <1>1, <2>1, <2>2, OnlyOp DEF Going, SameOp
<1>4. CASE ~InCas(entries, op.value.digest)
  <2>1. InShard(entries, op.value.digest) = {}
    BY <1>4, StoreIsRead
  <2>5. ~InStore(op.value.digest)
    BY <2>1 DEF InStore
  <2>2. Proceed(DeletedCalls)
    BY <1>1, <2>1, <2>5 DEF LookDelete
  <2>3. CASE op.value.digest \in shards
    <3>1. Proceed(DeletedPlan)
      BY <2>2, <2>3 DEF DeletedCalls, DeletedPlan
    <3> QED BY <1>2, <1>3, <1>4, <3>1 DEF Deleting
  <2>4. CASE op.value.digest \notin shards
    <3>1. Proceed(<<>>)
      BY <2>2, <2>4 DEF DeletedCalls
    <3>2. ~InCas(Both, op.value.digest)
      BY <2>4 DEF InCas, SafeInv, TreeInv, TypesInv
    <3> QED BY <1>2, <1>3, <3>1, <3>2 DEF Deleting
  <2> QED BY <2>3, <2>4
<1>5. CASE InCas(entries, op.value.digest)
  <2>1. InShard(entries, op.value.digest) # {} /\ InStore(op.value.digest)
    BY <1>5, StoreIsRead
  <2>2. Proceed(DeletePlan)
    BY <1>1, <2>1 DEF LookDelete, DeletePlan
  <2> QED BY <1>2, <1>3, <2>2 DEF Deleting
<1> QED BY <1>4, <1>5

LEMMA ArtifactUnlinked ==
  ASSUME StoreIsNoRun, SafeInv, OpTypes, OpOwns, op.kind = "delete", op.todo # <<>>,
         UnlinkFinal, UNCHANGED promised
  PROVE  /\ SafeInv' /\ SameOp /\ OpTypes' /\ OpOwns' /\ op'.todo = Tail(op.todo)
         /\ ~InCas(entries, op.value.digest)'
<1> DEFINE x == op.value.digest
<1>1. entries' = entries \ InShard(entries, x) /\ UNCHANGED <<runDirs, shards, data, disk>> /\ Did
  BY DEF UnlinkFinal
<1>2. SameOp /\ OpTypes' /\ op'.todo = Tail(op.todo)
  BY <1>1, DidOne
<1>3. diskEntries' = diskEntries
  BY <1>1 DEF disk
<1>4. OpOwns'
  BY <1>2, OwnsStays
<1>5. x \notin promised.committed /\ \A h \in promised.kept : h.value.digest # x
  BY DEF OpOwns
<1>6. \A e \in InShard(entries, x) : e \in entries /\ e.in = "cas" /\ e.name = x
  BY DEF InShard, At
<1>7. ASSUME NEW h \in promised.kept PROVE StagedStill(h)' \/ StoredInstead(h)'
  <2>1. CASE StagedStill(h)
    <3>1. PICK e \in entries \cap diskEntries : e.in = h.run /\ e.name = h.name
      BY <2>1 DEF StagedStill
    <3>2. e.in # "cas"
      BY <3>1 DEF SafeInv, TypesInv, Promises, Handle, StoreIsNoRun
    <3> QED BY <1>1, <1>3, <1>6, <3>1, <3>2 DEF StagedStill
  <2>2. CASE StoredInstead(h)
    BY <1>1, <1>3, <1>5, <1>6, <2>2 DEF StoredInstead, Gone
  <2> QED BY <2>1, <2>2 DEF SafeInv, PromiseInv
<1> DEFINE G == InShard(entries, x)
<1>8. SafeInv'
  <2>1. G \in SUBSET entries /\ entries' = entries \ G /\ \A e \in G : e.name \notin promised.committed
    BY <1>1, <1>5, <1>6
  <2> HIDE DEF G, x
  <2> QED BY <1>1, <1>7, <2>1, Unlinked
<1>9. ~InCas(entries, op.value.digest)'
  BY <1>1, <1>2 DEF InCas, InShard, At, SameOp
<1> QED BY <1>2, <1>4, <1>8, <1>9

LEMMA DeletingStep ==
  ASSUME StoreIsNoRun, SafeInv, OpTypes, OpOwns, op.kind = "delete", Deleting, Step
  PROVE  Going /\ Deleting'
<1>1. op.todo # <<>>
  BY StepIs
<1>2. CASE Rest(LookPlan, 0)
  <2>1. LookPlan \in Seq(Calls) /\ LookPlan[0 + 1] = "look"
    BY ShortPlans
  <2>2. Head(op.todo) = "look"
    BY <1>1, <1>2, <2>1, HeadIs
  <2>3. Look /\ UNCHANGED promised
    BY <2>2, StepIs
  <2> QED BY <1>2, <2>3, DeleteLooks
<1>3. CASE Rest(DeletePlan, 0)
  <2>1. /\ DeletePlan \in Seq(Calls) /\ Head(op.todo) = DeletePlan[0 + 1]
        /\ op'.todo = Tail(op.todo) => Rest(DeletePlan, 0 + 1)'
    BY <1>1, <1>3, ShortPlans, HeadIs, Takes
  <2>2. UnlinkFinal /\ UNCHANGED promised
    BY <2>1, ShortPlans, StepIs
  <2>3. /\ SafeInv' /\ SameOp /\ OpTypes' /\ OpOwns' /\ op'.todo = Tail(op.todo)
        /\ ~InCas(entries, op.value.digest)'
    BY <1>1, <2>2, ArtifactUnlinked
  <2>4. Rest(DeletedPlan, 0)'
    <3>1. /\ DeletePlan # <<>> /\ Len(DeletePlan) = 2 /\ Len(DeletePlan) - 1 = 1 /\ 0 + 1 = 1
          /\ DeletePlan[2] = "syncShard"
      BY ShortPlans
    <3>2. DeletedPlan \in Seq(Calls) /\ Len(DeletedPlan) = 1 /\ DeletedPlan[1] = "syncShard"
      BY ShortPlans
    <3> QED BY <2>1, <2>3, <3>1, <3>2, LastOf
  <2> QED BY <2>3, <2>4 DEF Going, SameOp, Deleting
<1>4. CASE Rest(DeletedPlan, 0) /\ ~InCas(entries, op.value.digest)
  <2>1. /\ DeletedPlan \in Seq(Calls) /\ Head(op.todo) = DeletedPlan[0 + 1]
        /\ op'.todo = Tail(op.todo) => Rest(DeletedPlan, 0 + 1)'
    BY <1>1, <1>4, ShortPlans, HeadIs, Takes
  <2>2. SyncShard /\ UNCHANGED promised
    BY <2>1, ShortPlans, StepIs
  <2>3. /\ SafeInv' /\ DiskMoves /\ SameOp /\ OpTypes' /\ OpOwns' /\ op'.todo = Tail(op.todo)
    BY <1>1, <2>2, SyncedOp
  <2>4. ~InCas(Both, op.value.digest)'
    BY <1>4, <2>2, <2>3, ShardIsSynced
  <2>5. op'.todo = <<>>
    <3>1. Len(DeletedPlan) = 1 /\ Rest(DeletedPlan, 1)'
      BY <2>1, <2>3, ShortPlans
    <3>2. Len(op'.todo) = Len(DeletedPlan) - 1
      BY <3>1 DEF Rest
    <3>3. op'.todo \in Seq(Calls)
      BY <2>3 DEF OpTypes
    <3> QED BY <3>1, <3>2, <3>3, EmptySeq
  <2> QED BY <2>3, <2>4, <2>5 DEF Going, SameOp, Deleting
<1> QED BY <1>1, <1>2, <1>3, <1>4 DEF Deleting

-----------------------------------------------------------------------------
(* discard_empty_run, and an operation that has failed. *)

LEMMA EndingStep ==
  ASSUME StoreIsNoRun, SafeInv, OpTypes, OpOwns, Ending, Step
  PROVE  Going /\ Ending'
<1>1. op.todo # <<>>
  BY StepIs
<1>2. CASE Rest(EmptyPlan, 0)
  <2>1. EmptyPlan \in Seq(Calls) /\ EmptyPlan[0 + 1] = "rmdirRun"
    BY ShortPlans
  <2>2. Head(op.todo) = "rmdirRun"
    BY <1>1, <1>2, <2>1, HeadIs
  <2>3. RmdirRun /\ UNCHANGED promised
    BY <2>2, StepIs
  <2>4. /\ SafeInv' /\ SameOp /\ OpTypes' /\ OpOwns'
        /\ Rest(LastPlan, 0)' \/ op'.todo = <<>>
    BY <2>3, RmdirOp
  <2> QED BY <2>4 DEF Going, SameOp, Ending
<1>3. CASE Rest(LastPlan, 0)
  BY <1>3, LastStep DEF Ending
<1> QED BY <1>1, <1>2, <1>3 DEF Ending

LEMMA FailedStep ==
  ASSUME StoreIsNoRun, SafeInv, OpTypes, OpOwns, Step,
         Ending \/ (op.kind \in {"stage", "put"} /\ \E k \in 0..2 : Rest(RemovePlan, k))
  PROVE  /\ Going
         /\ Ending' \/ (op'.kind \in {"stage", "put"} /\ \E k \in 0..2 : Rest(RemovePlan, k)')
<1>1. CASE Ending
  BY <1>1, EndingStep
<1>2. ASSUME op.kind \in {"stage", "put"}, NEW k \in 0..2, Rest(RemovePlan, k)
      PROVE  Going /\ (Ending' \/ (op'.kind \in {"stage", "put"} /\ \E j \in 0..2 : Rest(RemovePlan, j)'))
  <2>1. /\ Going
        /\ k < 2 => Rest(RemovePlan, k + 1)'
        /\ k = 2 => (Rest(LastPlan, 0)' \/ op'.todo = <<>>)
    BY <1>2, RemovePlanStep
  <2>2. CASE k < 2
    <3>1. k + 1 \in 0..2
      BY <2>2
    <3> QED BY <1>2, <2>1, <2>2, <3>1 DEF Going
  <2>3. CASE k = 2
    BY <2>1, <2>3 DEF Ending
  <2> QED BY <2>2, <2>3
<1> QED BY <1>1, <1>2

-----------------------------------------------------------------------------
(* Every step. *)

LEMMA CallsKeepInv == ASSUME StoreIsNoRun, FilesInv, Step PROVE FilesInv'
<1>1. op # Idle /\ op.todo # <<>>
  BY DEF Step, Call
<1>2. SafeInv /\ OpTypes /\ OpOwns /\ Phase
  BY <1>1 DEF FilesInv, OpInv
<1>3. SUFFICES Going /\ Phase'
  BY DEF Going, FilesInv, OpInv
<1>4. CASE op.answer # "none"
  <2>1. Ending \/ (op.kind \in {"stage", "put"} /\ \E k \in 0..2 : Rest(RemovePlan, k))
    BY <1>2, <1>4 DEF Phase
  <2>2. /\ Going
        /\ Ending' \/ (op'.kind \in {"stage", "put"} /\ \E k \in 0..2 : Rest(RemovePlan, k)')
    BY <1>2, <2>1, FailedStep
  <2> QED BY <1>4, <2>2 DEF Phase, Going
<1>5. CASE op.answer = "none"
  <2>1. ASSUME op.kind \in {"stage", "put"}, NEW plan \in {StagePlan, PutPlan}, NEW k \in 0..9,
               Rest(plan, k), Staging(k)
        PROVE  /\ Going /\ Rest(plan, k + 1)' /\ Staging(k + 1)'
    BY <1>2, <2>1, StagingStep DEF Going
  <2>2. CASE op.kind = "stage"
    <3>1. PICK k \in 0..10 : Rest(StagePlan, k) /\ Staging(k)
      BY <1>2, <1>5, <2>2 DEF Phase
    <3>2. k # 10
      <4>1. StagePlan \in Seq(Calls) /\ Len(StagePlan) = 10
        BY Plans
      <4> QED BY <1>1, <1>2, <3>1, <4>1, Ends
    <3>3. k \in 0..9 /\ k + 1 \in 0..10
      BY <3>2
    <3>4. Going /\ Rest(StagePlan, k + 1)' /\ Staging(k + 1)'
      BY <2>1, <2>2, <3>1, <3>3
    <3> QED BY <1>5, <2>2, <3>3, <3>4 DEF Phase, Going
  <2>3. CASE op.kind = "put" /\ ~Committing
    <3>1. PICK k \in 0..9 : Rest(PutPlan, k) /\ Staging(k)
      BY <1>2, <1>5, <2>3 DEF Phase
    <3>2. Going /\ Rest(PutPlan, k + 1)' /\ Staging(k + 1)'
      BY <2>1, <2>3, <3>1
    <3>3. CASE k < 9
      <4>1. k + 1 \in 0..9
        BY <3>3
      <4> QED BY <1>5, <2>3, <3>2, <4>1 DEF Phase, Going
    <3>4. CASE k = 9
      <4>1. Rest(PutPlan, 10)' /\ Staging(10)' /\ OpTypes' /\ op'.kind = "put"
        BY <2>3, <3>2, <3>4 DEF Going
      <4>2. Rest(LookPlan, 0)' /\ Ready'
        BY <4>1, HandedOver
      <4>3. Committing'
        BY <4>2 DEF Committing
      <4> QED BY <1>5, <2>3, <3>2, <4>3 DEF Phase, Going
    <3> QED BY <3>3, <3>4
  <2>4. CASE op.kind \in {"put", "commit"} /\ Committing
    <3>1. Going /\ Committing'
      BY <1>2, <2>4, CommittingStep
    <3> QED BY <1>5, <2>4, <3>1 DEF Phase, Going
  <2>5. CASE op.kind \in {"discard", "incomplete"}
    <3>1. Going /\ Discarding'
      BY <1>2, <1>5, <2>5, DiscardingStep DEF Phase
    <3> QED BY <1>5, <2>5, <3>1 DEF Phase, Going
  <2>6. CASE op.kind = "delete"
    <3>1. Going /\ Deleting'
      BY <1>2, <1>5, <2>6, DeletingStep DEF Phase
    <3> QED BY <1>5, <2>6, <3>1 DEF Phase, Going
  <2>7. CASE op.kind = "empty"
    <3>1. Going /\ Ending'
      BY <1>2, <1>5, <2>7, EndingStep DEF Phase
    <3> QED BY <1>5, <2>7, <3>1 DEF Phase, Going
  <2> QED BY <1>2, <1>5, <2>2, <2>3, <2>4, <2>5, <2>6, <2>7 DEF OpTypes, Phase
<1> QED BY <1>4, <1>5

LEMMA FailsKeepInv == ASSUME FilesInv, CallFails PROVE FilesInv'
<1>1. op # Idle /\ op.todo # <<>> /\ UNCHANGED <<live, disk, promised>>
  BY DEF CallFails
<1>2. SafeInv /\ OpTypes /\ OpOwns /\ Phase
  BY <1>1 DEF FilesInv, OpInv
<1>3. op' = CASE op.answer = "STORAGE_FAILED" ->
                    [op EXCEPT !.todo = IF Len(op.todo) > 1 THEN EmptyPlan ELSE <<>>]
               [] op.answer = "none" /\ InProgress ->
                    [op EXCEPT !.todo = RemovePlan, !.answer = "STORAGE_FAILED"]
               [] OTHER -> [op EXCEPT !.todo = <<>>, !.answer = "STORAGE_FAILED"]
  BY Zenon DEF CallFails, CleanUp, EmptyPlan, RemovePlan
<1>4. op.answer \in {"none", "STORAGE_FAILED"} /\ "none" # "STORAGE_FAILED"
  BY <1>2 DEF OpTypes
<1>5. \/ op' = [op EXCEPT !.todo = EmptyPlan] /\ op.answer = "STORAGE_FAILED"
      \/ op' = [op EXCEPT !.todo = <<>>] /\ op.answer = "STORAGE_FAILED"
      \/ op' = [op EXCEPT !.todo = RemovePlan, !.answer = "STORAGE_FAILED"]
         /\ op.kind \in {"stage", "put"}
      \/ op' = [op EXCEPT !.todo = <<>>, !.answer = "STORAGE_FAILED"]
  BY <1>3, <1>4 DEF InProgress
<1>6. /\ EmptyPlan \in Seq(Calls) /\ RemovePlan \in Seq(Calls) /\ <<>> \in Seq(Calls)
  BY ShortPlans, EmptySeq
<1>7. /\ op'.kind = op.kind /\ op'.run = op.run /\ op'.name = op.name /\ op'.value = op.value
      /\ op'.ino = op.ino /\ op'.answer = "STORAGE_FAILED" /\ OpTypes'
      /\ \/ op'.todo \in {EmptyPlan, <<>>}
         \/ op'.todo = RemovePlan /\ op.kind \in {"stage", "put"}
  BY <1>2, <1>5, <1>6 DEF OpTypes
<1>8. OpOwns'
  BY <1>1, <1>2, <1>7 DEF OpOwns, Clean, Both, live, disk
<1>9. Phase'
  <2>1. op'.todo = EmptyPlan => Rest(EmptyPlan, 0)'
    BY <1>6, Starts
  <2>2. op'.todo = RemovePlan => Rest(RemovePlan, 0)'
    BY <1>6, Starts
  <2>3. 0 \in 0..2
    OBVIOUS
  <2> QED BY <1>4, <1>7, <2>1, <2>2, <2>3 DEF Phase, Ending
<1>10. SafeInv'
  BY <1>1, <1>2, Untouched
<1> QED BY <1>7, <1>8, <1>9, <1>10 DEF FilesInv, OpInv

LEMMA DeathKeepsInv == ASSUME FilesInv, ProcessDies PROVE FilesInv'
<1>1. SafeInv'
  BY Untouched DEF FilesInv, ProcessDies
<1> QED BY <1>1 DEF FilesInv, OpInv, ProcessDies

LEMMA PowerKeepsInv == ASSUME FilesInv, PowerFails PROVE FilesInv'
<1>1. SafeInv'
  BY PowerFailsSafe DEF FilesInv
<1> QED BY <1>1 DEF FilesInv, OpInv, PowerFails

(* What is written to the disk disturbs no operation. *)
LEMMA PhaseMoved ==
  ASSUME SafeInv, OpTypes, Phase, DiskMoves, op' = op
  PROVE  Phase'
<1>1. SameOp /\ op.run \in Run
  BY DEF SameOp, OpTypes
<1>2. /\ Ready => Ready'
      /\ Stored => Stored'
      /\ Absent => Absent'
      /\ AbsentOnDisk => AbsentOnDisk'
      /\ InCas(entries, op.value.digest) => InCas(entries, op.value.digest)'
      /\ ~InCas(entries, op.value.digest) => ~InCas(entries, op.value.digest)'
      /\ ~InCas(Both, op.value.digest) => ~InCas(Both, op.value.digest)'
      /\ op.value.digest \in shards => (op.value.digest \in shards)'
      /\ op.value.digest \in diskShards => (op.value.digest \in diskShards)'
      /\ ShardSynced => ShardSynced'
      /\ op.run \notin runDirs => (op.run \notin runDirs)'
      /\ Holds(op.run, op.name, op.value) => Holds(op.run, op.name, op.value)'
  BY <1>1, FactsMoved DEF ShardSynced
<1>3. \A plan, k : Rest(plan, k) => Rest(plan, k)'
  BY DEF Rest
<1>4. \A k \in 0..10 : Staging(k) => Staging(k)'
  BY <1>1, StagingMoved
<1>5. Committing => Committing'
  BY <1>1, <1>2, <1>3 DEF Committing, LastCalls, ShardSynced
<1>6. Discarding => Discarding'
  BY <1>1, <1>2, <1>3 DEF Discarding, LastCalls
<1>7. Deleting => Deleting'
  BY <1>1, <1>2, <1>3 DEF Deleting
<1>8. Ending => Ending'
  BY <1>1, <1>3 DEF Ending
<1> QED BY <1>1, <1>3, <1>4, <1>5, <1>6, <1>7, <1>8 DEF Phase

LEMMA WritebackKeepsInv == ASSUME FilesInv, Writeback PROVE FilesInv'
<1>1. UNCHANGED <<live, op, promised>>
  BY DEF Writeback
<1>2. SafeInv' /\ DiskMoves
  <2> USE DEF FilesInv
  <2>1. CASE \E i \in Inode : /\ diskEntries' = Synced({i})
                              /\ UNCHANGED <<diskRunDirs, diskShards, diskData>>
    <3>1. PICK S : diskEntries' = Synced(S) /\ UNCHANGED <<diskRunDirs, diskShards, diskData>>
      BY <2>1
    <3>2. \A e \in Both' : e.in # "cas" => e.in \in diskRunDirs'
      BY <1>1, <3>1 DEF Both, Synced, SafeInv, TreeInv, live
    <3>3. SafeInv'
      BY <1>1, <3>1, <3>2, SyncedTree DEF SafeInv, TypesInv
    <3> QED BY <1>1, <3>1, <3>3 DEF DiskMoves
  <2>2. CASE /\ \E i \in Used(entries) :
                  \/ diskData' = [diskData EXCEPT ![i].value = data[i].value]
                  \/ diskData' = [diskData EXCEPT ![i].mode = data[i].mode]
             /\ UNCHANGED <<diskRunDirs, diskShards, diskEntries>>
    <3>1. SafeInv' /\ \A j \in Inode : data[j] = diskData[j] => diskData'[j] = diskData[j]
      BY <1>1, <2>2, DataReachesDisk
    <3>2. diskEntries' = Synced({})
      BY <2>2 DEF Synced
    <3> QED BY <1>1, <2>2, <3>1, <3>2 DEF DiskMoves
  <2>3. CASE /\ diskRunDirs' = runDirs \cup {r \in diskRunDirs : InRun(diskEntries, r) # {}}
             /\ UNCHANGED <<diskShards, diskEntries, diskData>>
    <3>1. diskEntries' = Synced({})
      BY <2>3 DEF Synced
    <3>2. \A e \in Both' : e.in # "cas" => e.in \in diskRunDirs'
      <4>1. Both' = Both
        BY <1>1, <2>3 DEF Both, live
      <4>2. \A e \in entries : e.in # "cas" => e.in \in runDirs
        BY DEF SafeInv, TreeInv
      <4>3. \A e \in diskEntries : e.in # "cas" => e.in \in diskRunDirs /\ InRun(diskEntries, e.in) # {}
        BY DEF SafeInv, TreeInv, Both, InRun
      <4> QED BY <2>3, <4>1, <4>2, <4>3 DEF Both
    <3>3. diskRunDirs' \subseteq Run
      BY <2>3 DEF SafeInv, TypesInv
    <3>4. SafeInv'
      BY <1>1, <2>3, <3>1, <3>2, <3>3, SyncedTree
    <3> QED BY <1>1, <2>3, <3>1, <3>4 DEF DiskMoves
  <2>4. CASE diskShards' = shards /\ UNCHANGED <<diskRunDirs, diskEntries, diskData>>
    <3>1. diskEntries' = Synced({})
      BY <2>4 DEF Synced
    <3>2. SafeInv'
      BY <1>1, <2>4, DirsOnly DEF SafeInv, TypesInv, TreeInv, live
    <3> QED BY <1>1, <2>4, <3>1, <3>2 DEF DiskMoves
  <2> QED BY <2>1, <2>2, <2>3, <2>4 DEF Writeback
<1>3. ASSUME op # Idle PROVE OpTypes' /\ OpOwns' /\ Phase'
  <2>1. SafeInv /\ OpTypes /\ OpOwns /\ Phase
    BY <1>3 DEF FilesInv, OpInv
  <2>2. SameOp /\ op' = op /\ OpTypes'
    BY <1>1, <2>1 DEF SameOp, OpTypes
  <2>3. AbsentOnDisk => AbsentOnDisk'
    BY <1>2, <2>1, <2>2, FactsMoved DEF OpTypes
  <2>4. OpOwns'
    BY <1>1, <2>1, <2>2, <2>3, OwnsStays DEF AbsentOnDisk
  <2> QED BY <1>2, <2>1, <2>2, <2>4, PhaseMoved
<1> QED BY <1>1, <1>2, <1>3 DEF FilesInv, OpInv

-----------------------------------------------------------------------------
(* What an operation promises when it begins and when it returns. *)

(* The file of h is staged as h says. *)
StagedAs(h) ==
  /\ StagedStill(h)
  /\ \A e \in Both : e.in = h.run /\ e.name = h.name =>
       /\ data[e.ino] = [value |-> h.value, mode |-> 400]
       /\ diskData[e.ino] = [value |-> h.value, mode |-> 400]

LEMMA PromisesChange ==
  ASSUME SafeInv, UNCHANGED <<live, disk>>, promised' \in Promises,
         \A g, h \in promised'.kept : g.name = h.name => g = h,
         \A h \in promised'.kept :
           \/ h \in promised.kept /\ (h \in promised'.staged => h \in promised.staged)
           \/ StagedAs(h),
         \A x \in promised'.committed :
           x \in promised.committed \/ InCas(entries \cap diskEntries, x),
         \A x \in promised'.deleted : x \in promised.deleted \/ ~InCas(Both, x),
         \A place \in promised'.discarded :
           place \in promised.discarded \/ Clean(place.run, place.name)
  PROVE  SafeInv'
<1>1. /\ UNCHANGED <<runDirs, shards, entries, data, diskRunDirs, diskShards, diskEntries, diskData>>
      /\ Both' = Both
  BY DEF live, disk, Both
<1>2. TypesInv'
  BY <1>1 DEF SafeInv, TypesInv
<1>3. TreeInv'
  BY <1>1 DEF SafeInv, TreeInv
<1>4. StoreInv'
  BY <1>1 DEF SafeInv, StoreInv, Both
<1>5. PromiseInv'
  <2>1. ASSUME NEW h \in promised'.kept PROVE StagedStill(h)' \/ StoredInstead(h)'
    <3>1. StagedStill(h) => StagedStill(h)'
      BY <1>1 DEF StagedStill
    <3>2. CASE h \in promised.kept /\ (h \in promised'.staged => h \in promised.staged)
      <4>1. StagedStill(h) \/ StoredInstead(h)
        BY <3>2 DEF SafeInv, PromiseInv
      <4>2. StoredInstead(h) => StoredInstead(h)'
        BY <1>1, <3>2 DEF StoredInstead, Gone
      <4> QED BY <3>1, <4>1, <4>2
    <3>3. CASE StagedAs(h)
      BY <3>1, <3>3 DEF StagedAs
    <3> QED BY <3>2, <3>3
  <2>2. ASSUME NEW h \in promised'.kept, NEW e \in Both, e.in = h.run, e.name = h.name
        PROVE  /\ data[e.ino] = [value |-> h.value, mode |-> 400]
               /\ diskData[e.ino] = [value |-> h.value, mode |-> 400]
    <3>1. CASE h \in promised.kept
      BY <2>2, <3>1 DEF SafeInv, PromiseInv
    <3>2. CASE StagedAs(h)
      BY <2>2, <3>2 DEF StagedAs
    <3> QED BY <3>1, <3>2
  <2>3. /\ \A x \in promised'.committed : InCas(entries \cap diskEntries, x)
        /\ \A x \in promised'.deleted : ~InCas(Both, x)
        /\ \A place \in promised'.discarded : Clean(place.run, place.name)
    <3>1. /\ \A x \in promised.committed : InCas(entries \cap diskEntries, x)
          /\ \A x \in promised.deleted : ~InCas(Both, x)
          /\ \A place \in promised.discarded : Clean(place.run, place.name)
      BY DEF SafeInv, PromiseInv
    <3>2. \A x \in promised'.committed : InCas(entries \cap diskEntries, x)
      BY <3>1
    <3>3. \A x \in promised'.deleted : ~InCas(Both, x)
      BY <3>1
    <3>4. \A place \in promised'.discarded : Clean(place.run, place.name)
      BY <3>1
    <3> QED BY <3>2, <3>3, <3>4
  <2> QED BY <1>1, <2>1, <2>2, <2>3 DEF PromiseInv, InCas, Clean
<1> QED BY <1>2, <1>3, <1>4, <1>5 DEF SafeInv

(* An operation that has no call left has done what it says. *)
LEMMA Finished ==
  ASSUME OpTypes, Phase, op.todo = <<>>, op.answer = "none"
  PROVE  /\ op.kind = "stage" => Staging(10)
         /\ op.kind \in {"put", "commit"} => Stored /\ AbsentOnDisk
         /\ op.kind \in {"discard", "incomplete"} => AbsentOnDisk
         /\ op.kind = "delete" => ~InCas(Both, op.value.digest)
<1>1. ASSUME NEW plan \in Seq(Calls), NEW k, Rest(plan, k) PROVE k = Len(plan)
  BY <1>1, Ends
<1>2. /\ \A k \in 0..10 : Rest(StagePlan, k) => k = 10
      /\ \A k \in 0..9 : ~Rest(PutPlan, k)
  <2>1. /\ StagePlan \in Seq(Calls) /\ Len(StagePlan) = 10
        /\ PutPlan \in Seq(Calls) /\ Len(PutPlan) = 11
    BY Plans
  <2>2. \A k \in 0..9 : k # 11
    OBVIOUS
  <2> QED BY <1>1, <2>1, <2>2
<1>3. ~Rest(LookPlan, 0) /\ ~Rest(LastPlan, 0) /\ ~Rest(DeletePlan, 0) /\ ~Rest(DeletedPlan, 0)
      /\ ~Rest(RetryGonePlan, 0)
  <2>1. /\ LookPlan \in Seq(Calls) /\ Len(LookPlan) = 1
        /\ LastPlan \in Seq(Calls) /\ Len(LastPlan) = 1
        /\ DeletePlan \in Seq(Calls) /\ Len(DeletePlan) = 2
        /\ DeletedPlan \in Seq(Calls) /\ Len(DeletedPlan) = 1
        /\ RetryGonePlan \in Seq(Calls) /\ Len(RetryGonePlan) = 2
    BY ShortPlans
  <2>2. 0 # 1 /\ 0 # 2
    OBVIOUS
  <2> QED BY <1>1, <2>1, <2>2
<1>4. /\ \A k \in 0..3 : ~Rest(ShardPlan, k) /\ ~Rest(RenamePlan, k) /\ ~Rest(LinkedPlan, k)
      /\ \A k \in 0..2 : ~Rest(RetryPlan, k) /\ ~Rest(RemovePlan, k)
      /\ \A k \in 0..1 : ~Rest(AbsentPlan, k)
  <2>1. /\ ShardPlan \in Seq(Calls) /\ Len(ShardPlan) = 4
        /\ RenamePlan \in Seq(Calls) /\ Len(RenamePlan) = 4
        /\ LinkedPlan \in Seq(Calls) /\ Len(LinkedPlan) = 4
        /\ RetryPlan \in Seq(Calls) /\ Len(RetryPlan) = 3
        /\ RemovePlan \in Seq(Calls) /\ Len(RemovePlan) = 3
        /\ AbsentPlan \in Seq(Calls) /\ Len(AbsentPlan) = 2
    BY ShortPlans
  <2>2. (\A k \in 0..3 : k # 4) /\ (\A k \in 0..2 : k # 3) /\ (\A k \in 0..1 : k # 2)
    OBVIOUS
  <2> QED BY <1>1, <2>1, <2>2
<1>5. Committing => Stored /\ AbsentOnDisk
  BY <1>3, <1>4 DEF Committing, LastCalls
<1>6. Discarding => AbsentOnDisk
  BY <1>3, <1>4 DEF Discarding, LastCalls
<1>7. Deleting => ~InCas(Both, op.value.digest)
  BY <1>3 DEF Deleting
<1>8. op.kind = "stage" => Staging(10)
  BY <1>2 DEF Phase
<1>9. op.kind \in {"put", "commit"} => Committing
  BY <1>2 DEF Phase
<1> QED BY <1>5, <1>6, <1>7, <1>8, <1>9 DEF Phase

LEMMA ReturnKeepsInv == ASSUME StoreIsNoRun, FilesInv, Return PROVE FilesInv'
<1>1. op # Idle /\ op.todo = <<>> /\ op' = Idle /\ UNCHANGED <<live, disk>>
      /\ promised' = IF op.answer = "none" THEN Kept ELSE promised
  BY DEF Return
<1>2. SafeInv /\ OpTypes /\ OpOwns /\ Phase
  BY <1>1 DEF FilesInv, OpInv
<1> DEFINE place == [run |-> op.run, name |-> op.name]
           h == [run |-> op.run, name |-> op.name, value |-> op.value]
<1>3. promised \in Promises
  BY <1>2 DEF SafeInv, TypesInv
<1>4. /\ place \in [run : Run, name : StageName] /\ place.run = op.run /\ place.name = op.name
      /\ h \in Handle /\ h.run = op.run /\ h.name = op.name /\ h.value = op.value
      /\ op.value.digest \in Digest
  BY <1>2 DEF OpTypes, Handle, Value
<1>5. \A g, k \in promised.kept : g.name = k.name => g = k
  BY <1>2 DEF SafeInv, PromiseInv
<1>6. SafeInv'
  <2>1. CASE op.answer # "none"
    BY <1>1, <1>2, <2>1, Untouched
  <2>2. CASE op.answer = "none" /\ op.kind = "stage"
    <3>1. promised' = [promised EXCEPT !.staged = @ \cup {h}, !.kept = @ \cup {h}]
      BY <1>1, <2>2 DEF Kept
    <3>2. op.value.whole /\ \A g \in promised.kept : g.name # op.name
      BY <1>2, <2>2 DEF OpTypes, OpOwns
    <3>3. Staging(10)
      BY <1>1, <1>2, <2>2, Finished
    <3>4. /\ Mine \in entries /\ Mine \in diskEntries
          /\ data[op.ino] = [value |-> op.value, mode |-> 400] /\ diskData[op.ino] = data[op.ino]
      <4>1. /\ Mine \in entries /\ data[op.ino] = Written(10)
            /\ diskData[op.ino] = data[op.ino] /\ Mine \in diskEntries
        BY <3>3 DEF Staging
      <4>2. Written(10) = WholeFile(op.value.digest)
        BY DEF Written, WholeFile
      <4>3. WholeFile(op.value.digest) = [value |-> op.value, mode |-> 400]
        BY <1>2, <2>2, WholeValue
      <4> QED BY <4>1, <4>2, <4>3
    <3>5. StagedStill(h)
      BY <1>4, <3>4 DEF StagedStill, Mine, Entry
    <3>6. \A e \in Both : e.in = h.run /\ e.name = h.name => e.ino = op.ino
      BY <1>2, <1>4, <3>4 DEF SafeInv, TreeInv, SamePlace, Both, Mine, Entry
    <3>7. /\ promised' \in Promises
          /\ promised'.staged = promised.staged \cup {h} /\ promised'.kept = promised.kept \cup {h}
          /\ promised'.committed = promised.committed /\ promised'.deleted = promised.deleted
          /\ promised'.discarded = promised.discarded
      BY <1>3, <1>4, <3>1, <3>2 DEF Promises
    <3>8. \A g, k \in promised'.kept : g.name = k.name => g = k
      BY <1>4, <1>5, <3>2, <3>7
    <3> HIDE DEF h
    <3>9. \A g \in promised'.kept :
           \/ g \in promised.kept /\ (g \in promised'.staged => g \in promised.staged)
           \/ StagedAs(g)
      <4>1. StagedAs(h)
        BY <1>4, <3>4, <3>5, <3>6 DEF StagedAs
      <4>2. h \notin promised.kept
        BY <1>4, <3>2
      <4> QED BY <3>7, <4>1, <4>2
    <3> QED BY <1>1, <1>2, <3>7, <3>8, <3>9, PromisesChange
  <2>3. ASSUME promised' \in Promises, promised'.staged = promised.staged,
               promised'.kept = promised.kept,
               \A x \in promised'.committed :
                 x \in promised.committed \/ InCas(entries \cap diskEntries, x),
               \A x \in promised'.deleted : x \in promised.deleted \/ ~InCas(Both, x),
               \A p \in promised'.discarded : p \in promised.discarded \/ Clean(p.run, p.name)
        PROVE  SafeInv'
    <3>1. /\ \A g, k \in promised'.kept : g.name = k.name => g = k
          /\ \A g \in promised'.kept : g \in promised.kept /\ (g \in promised'.staged => g \in promised.staged)
      BY <1>5, <2>3
    <3> QED BY <1>1, <1>2, <2>3, <3>1, PromisesChange
  <2>4. CASE op.answer = "none" /\ op.kind \in {"put", "commit"}
    <3>1. promised' = [promised EXCEPT !.committed = @ \cup {op.value.digest},
                                       !.discarded = @ \cup {place}]
      BY <1>1, <2>4 DEF Kept
    <3>2. /\ promised' \in Promises
          /\ promised'.staged = promised.staged /\ promised'.kept = promised.kept
          /\ promised'.committed = promised.committed \cup {op.value.digest}
          /\ promised'.deleted = promised.deleted
          /\ promised'.discarded = promised.discarded \cup {place}
      BY <1>3, <1>4, <3>1 DEF Promises
    <3>3. Stored /\ AbsentOnDisk
      BY <1>1, <1>2, <2>4, Finished
    <3> QED BY <1>4, <2>3, <3>2, <3>3 DEF Stored, AbsentOnDisk
  <2>5. CASE op.answer = "none" /\ op.kind \in {"discard", "incomplete"}
    <3>1. promised' = [promised EXCEPT !.discarded = @ \cup {place}]
      BY <1>1, <2>5 DEF Kept
    <3>2. /\ promised' \in Promises
          /\ promised'.staged = promised.staged /\ promised'.kept = promised.kept
          /\ promised'.committed = promised.committed /\ promised'.deleted = promised.deleted
          /\ promised'.discarded = promised.discarded \cup {place}
      BY <1>3, <1>4, <3>1 DEF Promises
    <3>3. AbsentOnDisk
      BY <1>1, <1>2, <2>5, Finished
    <3> QED BY <1>4, <2>3, <3>2, <3>3 DEF AbsentOnDisk
  <2>6. CASE op.answer = "none" /\ op.kind = "delete"
    <3>1. promised' = [promised EXCEPT !.deleted = @ \cup {op.value.digest}]
      BY <1>1, <2>6 DEF Kept
    <3>2. /\ promised' \in Promises
          /\ promised'.staged = promised.staged /\ promised'.kept = promised.kept
          /\ promised'.committed = promised.committed
          /\ promised'.deleted = promised.deleted \cup {op.value.digest}
          /\ promised'.discarded = promised.discarded
      BY <1>3, <1>4, <3>1 DEF Promises
    <3>3. ~InCas(Both, op.value.digest)
      BY <1>1, <1>2, <2>6, Finished
    <3> QED BY <2>3, <3>2, <3>3
  <2>7. CASE op.answer = "none" /\ op.kind = "empty"
    <3>1. promised' = promised
      BY <1>1, <2>7 DEF Kept
    <3> QED BY <1>1, <1>2, <3>1, Untouched
  <2> QED BY <1>2, <2>1, <2>2, <2>4, <2>5, <2>6, <2>7 DEF OpTypes
<1> QED BY <1>1, <1>6 DEF FilesInv, OpInv

(* An operation that begins promises nothing new. *)
LEMMA PromisesShrink ==
  ASSUME SafeInv, UNCHANGED <<live, disk>>, promised' \in Promises,
         promised'.kept \subseteq promised.kept,
         \A h \in promised'.kept : h \in promised'.staged => h \in promised.staged,
         promised'.committed \subseteq promised.committed,
         promised'.deleted \subseteq promised.deleted,
         promised'.discarded \subseteq promised.discarded
  PROVE  SafeInv'
<1>1. \A g, h \in promised'.kept : g.name = h.name => g = h
  BY DEF SafeInv, PromiseInv
<1> QED BY <1>1, PromisesChange

(* The record of an operation that begins. *)
Begun(kind, r, n, value, todo) ==
  [kind |-> kind, run |-> r, name |-> n, value |-> value, ino |-> NoInode, todo |-> todo,
   answer |-> "none"]

LEMMA Works ==
  ASSUME NEW kind \in {"stage", "put", "commit", "discard", "incomplete", "empty", "delete"},
         NEW r \in Run, NEW n \in StageName, NEW value \in Value, NEW todo \in Seq(Calls),
         op' = Begun(kind, r, n, value, todo),
         kind \in {"stage", "put", "commit"} => value.whole
  PROVE  /\ OpTypes' /\ Rest(todo, 0)'
         /\ op'.kind = kind /\ op'.run = r /\ op'.name = n
         /\ op'.value = value /\ op'.answer = "none"
<1>1. op' = [kind |-> kind, run |-> r, name |-> n, value |-> value, ino |-> NoInode,
             todo |-> todo, answer |-> "none"]
  BY DEF Begun
<1>2. /\ op'.kind = kind /\ op'.run = r /\ op'.name = n /\ op'.todo = todo
      /\ op'.value = value /\ op'.answer = "none" /\ op'.ino = NoInode
  BY <1>1
<1>3. op' \in [kind : {"stage", "put", "commit", "discard", "incomplete", "empty", "delete"},
               run : Run, name : StageName, value : Value, ino : Inode \cup {NoInode},
               todo : Seq(Calls), answer : {"none", "STORAGE_FAILED"}]
  BY <1>1
<1>4. op'.kind \in {"stage", "put", "commit"} => op'.value.whole
  BY <1>2
<1>5. OpTypes'
  BY <1>3, <1>4 DEF OpTypes
<1>6. Rest(todo, 0)'
  BY <1>2, Starts
<1> QED BY <1>2, <1>5, <1>6

LEMMA StagesBegin ==
  ASSUME StoreIsNoRun, FilesInv, NEW r \in Run, NEW n \in StageName, NEW x \in Digest,
         BeginStage(r, n, x) \/ BeginPut(r, n, x)
  PROVE  FilesInv'
<1>1. SafeInv /\ promised \in Promises
  BY DEF FilesInv, SafeInv, TypesInv
<1>2. PICK kind \in {"stage", "put"}, todo \in {StagePlan, PutPlan} :
        /\ Begin(Working(kind, r, n, x, TRUE, todo))
        /\ kind = "stage" => todo = StagePlan /\ promised' = promised
        /\ kind = "put" => /\ todo = PutPlan
                           /\ promised' = [promised EXCEPT !.deleted = @ \ {x}]
  BY Zenon DEF BeginStage, BeginPut, StagePlan, PutPlan
<1>3. Unused(r, n)
  BY DEF BeginStage, BeginPut
<1>4. todo \in Seq(Calls)
  BY Plans
<1> DEFINE value == [digest |-> x, whole |-> TRUE]
<1>5. value \in Value /\ value.digest = x /\ value.whole
  BY DEF Value
<1>6. /\ UNCHANGED <<live, disk>> /\ OpTypes' /\ Rest(todo, 0)' /\ op'.answer = "none"
      /\ op'.kind = kind /\ op'.run = r /\ op'.name = n /\ op'.value.digest = x
  <2>1. op' = Begun(kind, r, n, value, todo) /\ UNCHANGED <<live, disk>>
    BY <1>2, Zenon DEF Begin, Working, Begun
  <2> HIDE DEF value
  <2> QED BY <1>4, <1>5, <2>1, Works
<1> HIDE DEF value
<1>7. /\ promised' \in Promises /\ promised'.kept = promised.kept
      /\ promised'.staged = promised.staged /\ promised'.committed = promised.committed
      /\ promised'.discarded = promised.discarded
      /\ promised'.deleted \subseteq promised.deleted
      /\ kind = "put" => x \notin promised'.deleted
  BY <1>1, <1>2 DEF Promises
<1>8. SafeInv'
  BY <1>1, <1>6, <1>7, PromisesShrink
<1>9. OpOwns'
  BY <1>3, <1>6, <1>7 DEF OpOwns, Unused
<1>10. Staging(0)'
  BY <1>3, <1>6 DEF Staging, Gone, Unused, At, live
<1>11. Phase'
  <2>1. 0 \in 0..10 /\ 0 \in 0..9
    OBVIOUS
  <2>2. CASE kind = "stage"
    BY <1>2, <1>6, <1>10, <2>1, <2>2 DEF Phase
  <2>3. CASE kind = "put"
    BY <1>2, <1>6, <1>10, <2>1, <2>3 DEF Phase
  <2> QED BY <2>2, <2>3
<1> QED BY <1>6, <1>8, <1>9, <1>11 DEF FilesInv, OpInv

LEMMA CommitBegins ==
  ASSUME StoreIsNoRun, FilesInv, NEW h \in Handle, BeginCommit(h) PROVE FilesInv'
<1>1. SafeInv /\ promised \in Promises
  BY DEF FilesInv, SafeInv, TypesInv
<1>2. /\ h \in promised.kept
      /\ Begin(Working("commit", h.run, h.name, h.value.digest, TRUE, LookPlan))
      /\ promised' = [promised EXCEPT !.deleted = @ \ {h.value.digest}, !.staged = @ \ {h}]
  BY Zenon DEF BeginCommit, LookPlan
<1>3. /\ h.run \in Run /\ h.name \in StageName /\ h.value \in Value /\ h.value.digest \in Digest
      /\ h = [run |-> h.run, name |-> h.name, value |-> h.value]
      /\ h.value = [digest |-> h.value.digest, whole |-> h.value.whole] /\ h.value.whole \in BOOLEAN
  BY DEF Handle, Value
<1>4. h.value.whole = TRUE
  BY <1>1, <1>2, <1>3 DEF Promises
<1>5. LookPlan \in Seq(Calls)
  BY ShortPlans
<1>6. op' = Begun("commit", h.run, h.name, h.value, LookPlan) /\ UNCHANGED <<live, disk>>
  <2>1. [digest |-> h.value.digest, whole |-> TRUE] = h.value
    BY <1>3, <1>4, Zenon
  <2> QED BY <1>2, <2>1, Zenon DEF Begin, Working, Begun
<1>7. /\ OpTypes' /\ Rest(LookPlan, 0)' /\ op'.answer = "none"
      /\ op'.kind = "commit" /\ op'.run = h.run /\ op'.name = h.name /\ op'.value = h.value
  BY <1>3, <1>4, <1>5, <1>6, Works
<1>8. /\ promised' \in Promises /\ promised'.kept = promised.kept
      /\ promised'.staged = promised.staged \ {h} /\ promised'.committed = promised.committed
      /\ promised'.discarded = promised.discarded
      /\ promised'.deleted = promised.deleted \ {h.value.digest}
  BY <1>1, <1>2 DEF Promises
<1>9. SafeInv'
  BY <1>1, <1>6, <1>8, PromisesShrink
<1>10. OpOwns'
  <2>1. [run |-> op'.run, name |-> op'.name, value |-> op'.value] = h
    BY <1>3, <1>7
  <2> QED BY <1>2, <1>7, <1>8, <2>1 DEF OpOwns
<1>11. Phase'
  BY <1>7 DEF Phase, Committing
<1> QED BY <1>7, <1>9, <1>10, <1>11 DEF FilesInv, OpInv

LEMMA WithoutIs ==
  ASSUME SafeInv, NEW r, NEW n, promised' = Without([run |-> r, name |-> n])
  PROVE  /\ promised' \in Promises
         /\ promised'.kept \subseteq promised.kept /\ promised'.staged \subseteq promised.staged
         /\ promised'.committed = promised.committed /\ promised'.deleted = promised.deleted
         /\ promised'.discarded = promised.discarded
         /\ \A h \in promised'.kept : ~(h.run = r /\ h.name = n)
<1> DEFINE place == [run |-> r, name |-> n]
           Others(hs) == {h \in hs : [run |-> h.run, name |-> h.name] # place}
<1>1. promised \in Promises
  BY DEF SafeInv, TypesInv
<1>2. promised' = [promised EXCEPT !.staged = Others(promised.staged),
                                   !.kept = Others(promised.kept)]
  BY Zenon DEF Without
<1> DEFINE S == Others(promised.staged)
           K == Others(promised.kept)
<1>3. /\ S \subseteq promised.staged /\ K \subseteq promised.kept
      /\ \A h \in K : ~(h.run = r /\ h.name = n)
  OBVIOUS
<1>4. promised' = [promised EXCEPT !.staged = S, !.kept = K]
  BY <1>2, Zenon
<1> HIDE DEF S, K
<1> QED BY <1>1, <1>3, <1>4 DEF Promises

(* A file that the inventory lists. *)
LEMMA ListedIs ==
  ASSUME SafeInv, NEW mode, NEW e \in Listed(mode)
  PROVE  /\ e \in entries /\ e.in \in Run /\ e.name \in StageName
         /\ data[e.ino].value \in Value
         /\ data[e.ino] = [value |-> data[e.ino].value, mode |-> mode]
<1>1. e \in entries /\ e.in # "cas" /\ data[e.ino].mode = mode
  BY DEF Listed
<1>2. e \in Entries /\ data[e.ino] \in PartOrFile
  BY <1>1 DEF SafeInv, TypesInv, Both
<1> QED BY <1>1, <1>2 DEF Entries, PartOrFile

LEMMA DiscardBegins ==
  ASSUME StoreIsNoRun, FilesInv, BeginDiscard \/ BeginDiscardIncomplete
  PROVE  FilesInv'
<1>1. SafeInv /\ promised \in Promises
  BY DEF FilesInv, SafeInv, TypesInv
<1>2. LookPlan \in Seq(Calls)
  BY ShortPlans
<1>3. ASSUME NEW kind \in {"discard", "incomplete"}, NEW e \in Entries,
             e.in \in Run, e.name \in StageName, NEW value \in Value,
             op' = Begun(kind, e.in, e.name, value, LookPlan), UNCHANGED <<live, disk>>,
             kind = "discard" => Holds(e.in, e.name, value),
             promised' = Without([run |-> e.in, name |-> e.name])
      PROVE  FilesInv'
  <2>1. /\ OpTypes' /\ Rest(LookPlan, 0)' /\ op'.kind = kind /\ op'.run = e.in
        /\ op'.name = e.name /\ op'.value = value /\ op'.answer = "none"
    BY <1>2, <1>3, Works
  <2>2. /\ promised' \in Promises
        /\ promised'.kept \subseteq promised.kept /\ promised'.staged \subseteq promised.staged
        /\ promised'.committed = promised.committed /\ promised'.deleted = promised.deleted
        /\ promised'.discarded = promised.discarded
        /\ \A h \in promised'.kept : ~(h.run = e.in /\ h.name = e.name)
    BY <1>1, <1>3, WithoutIs
  <2>3. SafeInv'
    BY <1>1, <1>3, <2>2, PromisesShrink
  <2>4. OpOwns'
    BY <2>1, <2>2 DEF OpOwns
  <2>5. kind = "discard" => Holds(op.run, op.name, op.value)'
    BY <1>3, <2>1 DEF Holds, At, live
  <2>6. Phase'
    BY <2>1, <2>5 DEF Phase, Discarding
  <2> QED BY <2>1, <2>3, <2>4, <2>6 DEF FilesInv, OpInv
<1>4. ASSUME NEW e \in Listed(400), promised' = Without([run |-> e.in, name |-> e.name]),
             Begin(Working("discard", e.in, e.name, data[e.ino].value.digest,
                           data[e.ino].value.whole, LookPlan))
      PROVE  FilesInv'
  <2> DEFINE value == data[e.ino].value
  <2>1. /\ e \in entries /\ e.in \in Run /\ e.name \in StageName /\ value \in Value
        /\ data[e.ino] = [value |-> value, mode |-> 400]
    BY <1>1, ListedIs
  <2>2. [digest |-> value.digest, whole |-> value.whole] = value
    BY <2>1 DEF Value
  <2>3. op' = Begun("discard", e.in, e.name, value, LookPlan) /\ UNCHANGED <<live, disk>>
    BY <1>4, <2>2, Zenon DEF Begin, Working, Begun
  <2>4. Holds(e.in, e.name, value)
    BY <2>1 DEF Holds, At
  <2>5. e \in Entries
    BY <1>1, <2>1 DEF SafeInv, TypesInv
  <2> HIDE DEF value
  <2> QED BY <1>3, <1>4, <2>1, <2>3, <2>4, <2>5
<1>5. ASSUME NEW e \in Listed(600), promised' = Without([run |-> e.in, name |-> e.name]),
             Begin(Working("incomplete", e.in, e.name, data[e.ino].value.digest, FALSE, LookPlan))
      PROVE  FilesInv'
  <2> DEFINE value == [digest |-> data[e.ino].value.digest, whole |-> FALSE]
  <2>1. /\ e \in entries /\ e.in \in Run /\ e.name \in StageName
        /\ data[e.ino].value.digest \in Digest
    <3>1. /\ e \in entries /\ e.in \in Run /\ e.name \in StageName /\ data[e.ino].value \in Value
          /\ data[e.ino] = [value |-> data[e.ino].value, mode |-> 600]
      BY <1>1, ListedIs
    <3> QED BY <3>1 DEF Value
  <2>2. value \in Value
    BY <2>1 DEF Value
  <2>3. op' = Begun("incomplete", e.in, e.name, value, LookPlan) /\ UNCHANGED <<live, disk>>
    BY <1>5, Zenon DEF Begin, Working, Begun
  <2>4. e \in Entries /\ "incomplete" # "discard"
    BY <1>1, <2>1 DEF SafeInv, TypesInv
  <2> HIDE DEF value
  <2> QED BY <1>3, <1>5, <2>1, <2>2, <2>3, <2>4
<1>6. ASSUME NEW place \in promised.discarded, NEW x \in Digest, UNCHANGED promised,
             Begin(Working("discard", place.run, place.name, x, TRUE, LookPlan))
      PROVE  FilesInv'
  <2> DEFINE value == [digest |-> x, whole |-> TRUE]
  <2>1. place.run \in Run /\ place.name \in StageName /\ Clean(place.run, place.name)
    BY <1>1 DEF Promises, SafeInv, PromiseInv
  <2>2. value \in Value
    BY DEF Value
  <2>3. op' = Begun("discard", place.run, place.name, value, LookPlan) /\ UNCHANGED <<live, disk>>
    BY <1>6, Zenon DEF Begin, Working, Begun
  <2> HIDE DEF value
  <2>4. /\ OpTypes' /\ Rest(LookPlan, 0)' /\ op'.kind = "discard" /\ op'.run = place.run
        /\ op'.name = place.name /\ op'.answer = "none"
    BY <1>2, <2>1, <2>2, <2>3, Works
  <2>5. SafeInv'
    BY <1>1, <1>6, <2>3, Untouched
  <2>6. Clean(op.run, op.name)' /\ Absent'
    BY <2>1, <2>3, <2>4 DEF Clean, Absent, Gone, Both, live, disk
  <2>7. OpOwns' /\ Phase'
    BY <2>4, <2>6 DEF OpOwns, Phase, Discarding
  <2> QED BY <2>4, <2>5, <2>7 DEF FilesInv, OpInv
<1>7. CASE BeginDiscard
  BY <1>4, <1>6, <1>7, Zenon DEF BeginDiscard, LookPlan
<1>8. CASE BeginDiscardIncomplete
  BY <1>5, <1>8, Zenon DEF BeginDiscardIncomplete, LookPlan
<1> QED BY <1>7, <1>8

LEMMA EmptyBegins ==
  ASSUME FilesInv, NEW r \in Run, BeginDiscardEmptyRun(r) PROVE FilesInv'
<1>1. SafeInv
  BY DEF FilesInv
<1>2. PICK n \in StageName, x \in Digest : Begin(Working("empty", r, n, x, TRUE, EmptyPlan))
  BY Zenon DEF BeginDiscardEmptyRun, EmptyPlan
<1> DEFINE value == [digest |-> x, whole |-> TRUE]
<1>3. value \in Value /\ EmptyPlan \in Seq(Calls) /\ promised' = promised
  BY ShortPlans DEF Value, BeginDiscardEmptyRun
<1>4. op' = Begun("empty", r, n, value, EmptyPlan) /\ UNCHANGED <<live, disk>>
  BY <1>2, Zenon DEF Begin, Working, Begun
<1> HIDE DEF value
<1>5. OpTypes' /\ Rest(EmptyPlan, 0)' /\ op'.kind = "empty" /\ op'.answer = "none"
  BY <1>3, <1>4, Works
<1>6. SafeInv'
  BY <1>1, <1>3, <1>4, Untouched
<1>7. OpOwns' /\ Phase'
  BY <1>5 DEF OpOwns, Phase, Ending
<1> QED BY <1>5, <1>6, <1>7 DEF FilesInv, OpInv

LEMMA DeleteBegins ==
  ASSUME FilesInv, NEW x \in Digest, BeginDelete(x) PROVE FilesInv'
<1>1. SafeInv /\ promised \in Promises
  BY DEF FilesInv, SafeInv, TypesInv
<1>2. PICK r \in Run, n \in StageName : Begin(Working("delete", r, n, x, TRUE, LookPlan))
  BY Zenon DEF BeginDelete, LookPlan
<1> DEFINE value == [digest |-> x, whole |-> TRUE]
<1>3. value \in Value /\ value.digest = x /\ LookPlan \in Seq(Calls)
  BY ShortPlans DEF Value
<1>4. op' = Begun("delete", r, n, value, LookPlan) /\ UNCHANGED <<live, disk>>
  BY <1>2, Zenon DEF Begin, Working, Begun
<1> HIDE DEF value
<1>5. /\ OpTypes' /\ Rest(LookPlan, 0)' /\ op'.kind = "delete" /\ op'.answer = "none"
      /\ op'.value = value
  BY <1>3, <1>4, Works
<1>6. /\ promised' \in Promises /\ promised'.staged = promised.staged
      /\ promised'.kept \subseteq promised.kept
      /\ promised'.committed = promised.committed \ {x}
      /\ promised'.deleted = promised.deleted /\ promised'.discarded = promised.discarded
      /\ \A h \in promised'.kept : h.value.digest # x
  <2> DEFINE K == {h \in promised.kept : h.value.digest # x}
  <2>1. promised' = [promised EXCEPT !.committed = @ \ {x}, !.kept = K]
    BY Zenon DEF BeginDelete
  <2>2. K \subseteq promised.kept /\ \A h \in K : h.value.digest # x
    OBVIOUS
  <2> HIDE DEF K
  <2> QED BY <1>1, <2>1, <2>2 DEF Promises
<1>7. SafeInv'
  BY <1>1, <1>4, <1>6, PromisesShrink
<1>8. OpOwns' /\ Phase'
  BY <1>3, <1>5, <1>6 DEF OpOwns, Phase, Deleting
<1> QED BY <1>5, <1>7, <1>8 DEF FilesInv, OpInv

-----------------------------------------------------------------------------
(* The invariant holds, and says what the store promises. *)

LEMMA FilesInit == Init => FilesInv
<1> SUFFICES ASSUME Init PROVE FilesInv
  OBVIOUS
<1>1. /\ runDirs = {} /\ shards = {} /\ entries = {} /\ diskRunDirs = {} /\ diskShards = {}
      /\ diskEntries = {} /\ data = [i \in Inode |-> Free] /\ diskData = data /\ op = Idle
      /\ promised = [staged |-> {}, kept |-> {}, committed |-> {}, discarded |-> {}, deleted |-> {}]
  BY DEF Init
<1>2. Both = {}
  BY <1>1 DEF Both
<1>3. promised \in Promises /\ promised.kept = {} /\ promised.committed = {}
      /\ promised.deleted = {} /\ promised.discarded = {}
  BY <1>1 DEF Promises
<1>4. data \in [Inode -> PartOrFile \cup {Free}]
  BY <1>1
<1>5. TypesInv
  BY <1>1, <1>2, <1>3, <1>4 DEF TypesInv
<1>6. TreeInv /\ StoreInv
  BY <1>1, <1>2 DEF TreeInv, StoreInv
<1>7. PromiseInv
  BY <1>3 DEF PromiseInv
<1> QED BY <1>1, <1>5, <1>6, <1>7 DEF FilesInv, SafeInv, OpInv

LEMMA FilesNext == ASSUME StoreIsNoRun, FilesInv, [Next]_vars PROVE FilesInv'
<1>1. CASE UNCHANGED vars
  <2>1. UNCHANGED <<live, disk, op, promised>>
    BY <1>1 DEF vars
  <2>2. UNCHANGED <<runDirs, shards, entries, data, diskRunDirs, diskShards, diskEntries, diskData>>
    BY <2>1 DEF live, disk
  <2>3. SafeInv'
    BY <2>1, Untouched DEF FilesInv
  <2>4. ASSUME op # Idle PROVE OpTypes' /\ OpOwns' /\ Phase'
    <3>1. SafeInv /\ OpTypes /\ OpOwns /\ Phase
      BY <2>4 DEF FilesInv, OpInv
    <3>2. SameOp /\ OpTypes' /\ op' = op
      BY <2>1, <3>1 DEF SameOp, OpTypes
    <3>3. OpOwns' /\ DiskMoves
      BY <2>1, <3>1, <3>2, OnlyOp
    <3>4. Phase'
      BY <3>1, <3>2, <3>3, PhaseMoved
    <3> QED BY <3>2, <3>3, <3>4
  <2> QED BY <2>1, <2>3, <2>4 DEF FilesInv, OpInv
<1>2. CASE \E r \in Run, n \in StageName, x \in Digest : BeginStage(r, n, x) \/ BeginPut(r, n, x)
  BY <1>2, StagesBegin
<1>3. CASE \E h \in Handle : BeginCommit(h)
  BY <1>3, CommitBegins
<1>4. CASE BeginDiscard \/ BeginDiscardIncomplete
  BY <1>4, DiscardBegins
<1>5. CASE \E r \in Run : BeginDiscardEmptyRun(r)
  BY <1>5, EmptyBegins
<1>6. CASE \E x \in Digest : BeginDelete(x)
  BY <1>6, DeleteBegins
<1>7. CASE Step
  BY <1>7, CallsKeepInv
<1>8. CASE CallFails
  BY <1>8, FailsKeepInv
<1>9. CASE Return
  BY <1>9, ReturnKeepsInv
<1>10. CASE ProcessDies
  BY <1>10, DeathKeepsInv
<1>11. CASE Writeback
  BY <1>11, WritebackKeepsInv
<1>12. CASE PowerFails
  BY <1>12, PowerKeepsInv
<1> QED BY <1>1, <1>2, <1>3, <1>4, <1>5, <1>6, <1>7, <1>8, <1>9, <1>10, <1>11, <1>12 DEF Next

FilesSurvive ==
  /\ TypeOK /\ CasHoldsWholeFiles /\ CommittedIsOnDisk /\ KeptIsOnDisk
  /\ DeletedStaysDeleted /\ DiscardedStaysDiscarded /\ NeverCorrupt

LEMMA FilesMean == ASSUME FilesInv PROVE FilesSurvive
<1>1. TypesInv /\ TreeInv /\ StoreInv /\ PromiseInv
  BY DEF FilesInv, SafeInv
<1>2. TypeOK
  <2>1. \A e \in Both : e \in Entries
    BY <1>1 DEF TypesInv, Both
  <2>2. \A e \in Both : e.ino \in Inode /\ (e.in = "cas" => e.name \in Digest) /\ (e.in # "cas" => e.in \in Run)
    <3>1. \A e \in Both : e.in = "cas" => e.name \in Digest
      BY <1>1 DEF TreeInv, TypesInv
    <3> QED BY <2>1, <3>1 DEF Entries
  <2>3. \A e, f \in entries : (e.in = f.in /\ e.name = f.name) \/ e.ino = f.ino => e = f
    BY <1>1 DEF TreeInv, Both, SamePlace
  <2>4. \A e \in entries : IF e.in = "cas" THEN e.name \in shards ELSE e.in \in runDirs
    BY <1>1 DEF TreeInv, TypesInv, Both
  <2> QED BY <1>1, <2>2, <2>3, <2>4 DEF TypeOK, TypesInv, Both
<1>3. CasHoldsWholeFiles
  <2>1. \A e \in Both : e.in = "cas" => data[e.ino] = WholeFile(e.name) /\ diskData[e.ino] = WholeFile(e.name)
    BY <1>1 DEF StoreInv
  <2>2. \A e \in entries : e.in = "cas" => data[e.ino] = WholeFile(e.name)
    BY <2>1 DEF Both
  <2>3. \A e \in diskEntries : e.in = "cas" => diskData[e.ino] = WholeFile(e.name)
    BY <2>1 DEF Both
  <2> QED BY <2>2, <2>3, Zenon DEF CasHoldsWholeFiles, WholeFile
<1>4. Found = diskEntries
  BY <1>1 DEF Found, TreeInv, Both
<1>5. CommittedIsOnDisk
  BY <1>1, <1>4 DEF CommittedIsOnDisk, PromiseInv, InCas
<1>6. KeptIsOnDisk
  <2> SUFFICES ASSUME NEW h \in promised.kept
               PROVE  \/ \E e \in Found : /\ e.in = h.run /\ e.name = h.name
                                          /\ diskData[e.ino] = [value |-> h.value, mode |-> 400]
                      \/ h \notin promised.staged
                         /\ \E e \in Found : e.in = "cas" /\ e.name = h.value.digest
    BY DEF KeptIsOnDisk
  <2>1. \A e \in diskEntries : e.in = h.run /\ e.name = h.name =>
          diskData[e.ino] = [value |-> h.value, mode |-> 400]
    BY <1>1 DEF PromiseInv, Both
  <2>2. CASE StagedStill(h)
    BY <1>4, <2>1, <2>2 DEF StagedStill
  <2>3. CASE StoredInstead(h)
    <3>1. PICK e \in entries : /\ e.in = "cas" /\ e.name = h.value.digest
                               /\ (e \in diskEntries \/ Entry(h.run, h.name, e.ino) \in diskEntries)
      BY <2>3 DEF StoredInstead
    <3>2. h \notin promised.staged
      BY <2>3 DEF StoredInstead
    <3>3. Entry(h.run, h.name, e.ino).in = h.run /\ Entry(h.run, h.name, e.ino).name = h.name
      BY DEF Entry
    <3> QED BY <1>4, <2>1, <3>1, <3>2, <3>3
  <2> QED BY <1>1, <2>2, <2>3 DEF PromiseInv
<1>7. DeletedStaysDeleted
  BY <1>1 DEF DeletedStaysDeleted, PromiseInv, InCas, Both
<1>8. DiscardedStaysDiscarded
  <2>1. SUFFICES ASSUME NEW place \in promised.discarded, NEW e \in Both,
                        [run |-> e.in, name |-> e.name] = place
                 PROVE  FALSE
    BY DEF DiscardedStaysDiscarded, Both
  <2>2. Clean(place.run, place.name)
    BY <1>1 DEF PromiseInv
  <2>3. e.in = place.run /\ e.name = place.name
    BY <2>1
  <2> QED BY <2>2, <2>3 DEF Clean
<1>9. NeverCorrupt
  BY DEF NeverCorrupt, FilesInv, OpInv, OpTypes
<1> QED BY <1>2, <1>3, <1>5, <1>6, <1>7, <1>8, <1>9 DEF FilesSurvive

(* Whatever call of LocalEvidenceStore fails, whenever its process dies or the
   power goes out, and whatever the kernel has written by then: a file of the
   store is whole and read-only under its digest, what commit_stage and put
   have returned is on disk, what stage has returned is on disk where it was
   staged or in the store, what delete_artifact, discard_stage or
   discard_incomplete have removed does not come back, and no operation meets
   a file that it has to refuse. *)
THEOREM PromisesSurvive == ASSUME StoreIsNoRun PROVE Spec => []FilesSurvive
<1>1. FilesInv /\ [Next]_vars => FilesInv'
  BY FilesNext
<1>2. FilesInv => FilesSurvive
  BY FilesMean
<1> QED BY <1>1, <1>2, FilesInit, PTL DEF Spec
===============================================================================
