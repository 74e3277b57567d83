----------------------------- MODULE StoreOpening -----------------------------
(* LocalWorldStore.__init__: several processes open one store, which may be    *)
(* new, of version 1 or of version 2.  Statements fail and processes die        *)
(* anywhere; SQLite keeps its promise that a transaction happens as a whole.    *)
(* Objects of the schema are counted, and rows of version 1 are counted.        *)
EXTENDS Naturals, Sequences, FiniteSets

CONSTANTS Process, None,
          ObjectsV1, ObjectsV2,  \* statements of the two schemas
          MaxRows,               \* bound: rows that are written
          MaxFaults              \* bound: statements that fail, processes that die

CountsAssumption ==
  ObjectsV1 \in Nat /\ ObjectsV2 \in Nat /\ MaxRows \in Nat /\ MaxFaults \in Nat

\* What a database of a version holds, besides its rows.
Objects(version) ==
  CASE version = 0 -> 0 [] version = 1 -> ObjectsV1 [] OTHER -> ObjectsV1 + ObjectsV2
Whole(version) == [version |-> version, objects |-> Objects(version), ledger |-> version]

VARIABLES
  file,     \* world.sqlite3: "absent", "rollback" journal mode, or "wal"
  journal,  \* world.sqlite3-journal exists
  db,       \* the schema as committed
  rows,     \* rows as committed
  change,   \* the open transaction: its schema and rows, or None
  lock,     \* who owns the writer lock
  pc, todo, answer,
  faults
vars == <<file, journal, db, rows, change, lock, pc, todo, answer, faults>>
stored == <<file, journal, db, rows>>

Init ==
  /\ journal = FALSE /\ change = None /\ lock = None /\ faults = 0
  /\ \E version \in 0..2 :
       /\ db = Whole(version)
       /\ file = IF version = 0 THEN "absent" ELSE "wal"
       /\ rows \in IF version = 0 THEN {0} ELSE {0, 1}
  /\ pc = [p \in Process |-> "down"] /\ todo = [p \in Process |-> <<>>]
  /\ answer = [p \in Process |-> "none"]

Go(p, next) == pc' = [pc EXCEPT ![p] = next]

\* What fails gives the lock back and rolls its transaction back; the store is
\* there if it was.
Fail(p, code) ==
  /\ Go(p, IF pc[p] \in {"open", "write"} THEN "open" ELSE "down")
  /\ answer' = [answer EXCEPT ![p] = code]
  /\ todo' = [todo EXCEPT ![p] = <<>>] /\ change' = None /\ lock' = None

Open(p) ==
  /\ pc[p] = "down" /\ lock = None
  /\ lock' = p /\ Go(p, "prepare") /\ answer' = [answer EXCEPT ![p] = "none"]
  /\ UNCHANGED <<stored, change, todo, faults>>

\* _prepare_database_file, which makes an empty file, and the checks that follow
\* it: a rollback journal is not expected.
Prepare(p) ==
  /\ pc[p] = "prepare"
  /\ file' = IF file = "absent" THEN "rollback" ELSE file
  /\ IF journal THEN Fail(p, "CORRUPT")
     ELSE Go(p, "configure") /\ UNCHANGED <<change, lock, todo, answer>>
  /\ UNCHANGED <<journal, db, rows, faults>>

\* PRAGMA journal_mode = WAL: SQLite writes the header of a new file under a
\* rollback journal, which it removes afterwards.
Configure(p) ==
  /\ pc[p] = "configure"
  /\ IF file = "wal" THEN Go(p, "version") /\ UNCHANGED <<file, journal>>
     ELSE IF ~journal THEN journal' = TRUE /\ UNCHANGED <<file, pc>>
     ELSE journal' = FALSE /\ file' = "wal" /\ Go(p, "version")
  /\ UNCHANGED <<db, rows, change, lock, todo, answer, faults>>

Creates(version) == [i \in 1..(Objects(version) - Objects(version - 1)) |-> "create"]

\* Slip: the statements of the second migration are not in a transaction.
ScriptInTheOpen(version) ==
  IF version = 1
  THEN <<"begin">> \o Creates(1) \o <<"ledger", "version", "commit">>
  ELSE Creates(2) \o <<"ledger", "version">>

Script(version) == <<"begin">> \o Creates(version) \o <<"ledger", "version", "commit">>

Begin(p, version) ==
  /\ todo' = [todo EXCEPT ![p] = Script(version)]
  /\ Go(p, "migrate") /\ UNCHANGED <<change, lock, answer>>

\* _migrate_or_validate: a version 1 is validated before it is migrated.
ReadVersion(p) ==
  /\ pc[p] = "version"
  /\ CASE db.version = 0 /\ db.objects # 0 -> Fail(p, "CORRUPT")
       [] db.version = 0 -> Begin(p, 1)
       [] db.version = 1 /\ db = Whole(1) -> Begin(p, 2)
       [] db.version = 1 /\ db # Whole(1) -> Fail(p, "CORRUPT")
       [] OTHER -> Go(p, "validate") /\ UNCHANGED <<change, lock, todo, answer>>
  /\ UNCHANGED <<stored, faults>>

\* The schema that a statement leaves.
After(statement, schema) ==
  CASE statement = "create"  -> [schema EXCEPT !.objects = @ + 1]
    [] statement = "ledger"  -> [schema EXCEPT !.ledger = @ + 1]
    [] statement = "version" -> [schema EXCEPT !.version = @ + 1]

Execute(statement) ==
  CASE statement = "begin" -> change' = [db |-> db, rows |-> rows] /\ UNCHANGED <<db, rows>>
    [] statement = "row" ->
         change' = [change EXCEPT !.rows = @ + 1] /\ UNCHANGED <<db, rows>>
    [] statement = "commit" -> db' = change.db /\ rows' = change.rows /\ change' = None
    [] change = None -> db' = After(statement, db) /\ UNCHANGED <<rows, change>>
    [] OTHER -> change' = [change EXCEPT !.db = After(statement, @)] /\ UNCHANGED <<db, rows>>

\* The next statement of a migration or of a write; then on to what follows.
Statement(p) ==
  /\ pc[p] \in {"migrate", "write"} /\ todo[p] # <<>>
  /\ Execute(Head(todo[p])) /\ todo' = [todo EXCEPT ![p] = Tail(@)]
  /\ UNCHANGED <<file, journal, lock, pc, answer, faults>>

Migrated(p) ==
  /\ pc[p] = "migrate" /\ todo[p] = <<>> /\ Go(p, "version")
  /\ UNCHANGED <<stored, change, lock, todo, answer, faults>>

\* _validate_schema, the fsync of the root, and the release of the lock.
Validate(p) ==
  /\ pc[p] = "validate"
  /\ IF db = Whole(2)
     THEN Go(p, "open") /\ lock' = None /\ UNCHANGED <<change, todo, answer>>
     ELSE Fail(p, "CORRUPT")
  /\ UNCHANGED <<stored, faults>>

\* A store that is open writes under the lock, in one transaction; before it the
\* files and the schema are checked again.
Write(p) ==
  /\ pc[p] = "open" /\ lock = None /\ rows < MaxRows
  /\ IF journal \/ db # Whole(2) THEN Fail(p, "CORRUPT")
     ELSE /\ lock' = p /\ Go(p, "write") /\ UNCHANGED <<change, answer>>
          /\ todo' = [todo EXCEPT ![p] = <<"begin", "row", "commit">>]
  /\ UNCHANGED <<stored, faults>>

Written(p) ==
  /\ pc[p] = "write" /\ todo[p] = <<>>
  /\ Go(p, "open") /\ lock' = None
  /\ UNCHANGED <<stored, change, todo, answer, faults>>

\* Reads take no lock: they check files and schema and begin a read transaction.
Read(p) ==
  /\ pc[p] = "open"
  /\ answer' = [answer EXCEPT ![p] = IF journal \/ db # Whole(2) THEN "CORRUPT" ELSE "read"]
  /\ UNCHANGED <<stored, change, lock, pc, todo, faults>>

StatementFails(p) ==
  /\ pc[p] \in {"migrate", "write"} /\ todo[p] # <<>> /\ faults < MaxFaults
  /\ faults' = faults + 1 /\ Fail(p, "STORAGE_FAILED") /\ UNCHANGED stored

\* The process dies; the kernel frees the lock, SQLite forgets the transaction,
\* and the journal stays.
Dies(p) ==
  /\ pc[p] # "down" /\ faults < MaxFaults /\ faults' = faults + 1
  /\ Go(p, "down") /\ todo' = [todo EXCEPT ![p] = <<>>]
  /\ answer' = [answer EXCEPT ![p] = "none"]
  /\ lock' = IF lock = p THEN None ELSE lock
  /\ change' = IF lock = p THEN None ELSE change
  /\ UNCHANGED stored

Advance(p) ==
  \/ Open(p) \/ Prepare(p) \/ Configure(p) \/ ReadVersion(p)
  \/ Statement(p) \/ Migrated(p) \/ Validate(p) \/ Written(p)

Next == \E p \in Process : Advance(p) \/ Write(p) \/ Read(p) \/ StatementFails(p) \/ Dies(p)

\* Processes run, and polling gives each of them the lock now and then.
Spec == Init /\ [][Next]_vars /\ \A p \in Process : WF_vars(Advance(p)) /\ SF_vars(Open(p))

---------------------------------------------------------------------------
TypeOK ==
  /\ file \in {"absent", "rollback", "wal"} /\ journal \in BOOLEAN
  /\ rows \in 0..MaxRows /\ faults \in 0..MaxFaults /\ lock \in Process \cup {None}
  /\ \A p \in Process : pc[p] \notin {"down", "open"} => lock = p
  /\ change # None => lock # None
  /\ file # "wal" => db = Whole(0)

\* Whatever is interrupted, what is on disk is exactly one of the versions.
OnlyWholeVersions == \E version \in 0..2 : db = Whole(version)

\* A store that somebody has open does not fall back behind its version.
OpenIsCurrent == \A p \in Process : pc[p] = "open" => db.version = 2 /\ file = "wal"

\* Openings, reads and writes find nothing wrong, except for the journal of a
\* first opening that died.
CorruptOnlyForTheJournal == \A p \in Process : answer[p] = "CORRUPT" => journal

\* Neither a migration nor its failure takes a row away.
\* Retries converge on version 2.
\* "Before preparing commit: no run, retry from the beginning": an opening that is
\* interrupted before anything was stored can be repeated.
=============================================================================
