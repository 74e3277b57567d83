---------------------------- MODULE MCBoundedCalls -----------------------------
(***************************************************************************)
(* What has to come to an end, on small instances: the perception          *)
(* commands, the opening of a store, the wait for its lock and the removal *)
(* of damage.  They share no state: "part" says which of them a behaviour  *)
(* is about, the variables of the others stay Unused or where they start.  *)
(***************************************************************************)
EXTENDS Naturals, Sequences, TLC

CONSTANTS None, Unused

VARIABLES
    part,
    command, commandPc, commandFailure, timer, timedOut, cancelled, handler, overdue, calls,
    published, opened, interrupts, heard, exit, documents,
    file, journal, db, rows, change, openLock, openPc, todo, openAnswer, faults,
    call, locks, retained, poisoned, session, leaked, used,
    cas, files, dirs, foreign, world, intents, deletion, op, damage

-----------------------------------------------------------------------------
(* Two interrupts and two calls of adapters that do something. *)
Command == INSTANCE PerceptionCommand WITH
    MaxInterrupts <- 2, MaxCalls <- 2, pc <- commandPc, failure <- commandFailure

(* Two processes; two statements in each of the schemas; two faults. *)
Opening == INSTANCE StoreOpening WITH
    Process <- {"p1", "p2"}, ObjectsV1 <- 2, ObjectsV2 <- 2, MaxRows <- 2, MaxFaults <- 2,
    lock <- openLock, pc <- openPc, answer <- openAnswer

(* A thread of each of two processes. *)
Lock == INSTANCE StoreLock WITH
    Thread <- {"t1", "t2"}, Store <- {"a", "b"}, StoreOf <- [t1 |-> "a", t2 |-> "b"]

(* One run with one of two artifacts; kinds and places are mixed, as a     *)
(* hash mixes them.                                                        *)
Mixed(item) ==
    LET kind_ == CASE item.kind = "corrupt" -> 0 [] item.kind = "staged" -> 1
                   [] item.kind = "artifact" -> 2 [] item.kind = "invalid" -> 3
                   [] item.kind = "incomplete" -> 4 [] OTHER -> 5
        place == (CASE item.in = "cas" -> 3 [] item.in = "staging" -> 2 [] OTHER -> 1) * 3
                 + (CASE item.digest = "x" -> 0 [] item.digest = "y" -> 1 [] OTHER -> 2)
    IN  kind_ + 6 * ((place * 5) % 12)
Repairing == INSTANCE Inventory WITH
    Run <- {"r1"}, Digest <- {"x", "y"}, Wants <- [r1 |-> {"x"}], Rank <- Mixed,
    PageSize <- 1, MaxEntries <- 12, MaxDamage <- 2

ASSUME Parameters ==
    /\ Command!CommandBounds /\ Opening!CountsAssumption /\ Lock!StoreOfAssumption
    /\ Repairing!PageIsPositive

-----------------------------------------------------------------------------
commandVars == <<command, commandPc, commandFailure, timer, timedOut, cancelled, handler, overdue,
                 calls, published, opened, interrupts, heard, exit, documents>>
openingVars == <<file, journal, db, rows, change, openLock, openPc, todo, openAnswer, faults>>
lockVars == <<call, locks, retained, poisoned, session, leaked, used>>
inventoryVars == <<cas, files, dirs, foreign, world, intents, deletion, op, damage>>
vars == <<part, commandVars, openingVars, lockVars, inventoryVars>>

NoCommand ==
    /\ command = Unused /\ commandPc = Unused /\ commandFailure = Unused /\ timer = Unused
    /\ timedOut = Unused /\ cancelled = Unused /\ handler = Unused /\ overdue = Unused
    /\ calls = Unused /\ published = Unused /\ opened = Unused /\ interrupts = Unused
    /\ heard = Unused /\ exit = Unused /\ documents = Unused
NoOpening ==
    /\ file = Unused /\ journal = Unused /\ db = Unused /\ rows = Unused /\ change = Unused
    /\ openLock = Unused /\ openPc = Unused /\ todo = Unused /\ openAnswer = Unused
    /\ faults = Unused

Init ==
    /\ part \in {"command", "opening", "lock", "inventory"}
    /\ IF part = "command" THEN Command!Init ELSE NoCommand
    /\ IF part = "opening" THEN Opening!Init ELSE NoOpening
    /\ Lock!Init
    /\ Repairing!Init

Next ==
    /\ part' = part
    /\ IF part = "command" THEN Command!Next ELSE UNCHANGED commandVars
    /\ IF part = "opening" THEN Opening!Next ELSE UNCHANGED openingVars
    /\ IF part = "lock" THEN Lock!Next ELSE UNCHANGED lockVars
    /\ IF part = "inventory" THEN Repairing!Next ELSE UNCHANGED inventoryVars

(* The fairness of the parts, each for the behaviours that are about it. *)
CommandFairness ==
    /\ WF_commandVars(part = "command" /\ Command!Goes)
    /\ WF_commandVars(part = "command" /\ Command!TimerThread)
OpeningFairness ==
    \A p \in {"p1", "p2"} :
        /\ WF_openingVars(part = "opening" /\ Opening!Advance(p))
        /\ SF_openingVars(part = "opening" /\ Opening!Open(p))
LockFairness ==
    \A t \in {"t1", "t2"} :
        /\ WF_lockVars(part = "lock" /\ Lock!Poll(t)) /\ WF_lockVars(part = "lock" /\ Lock!Wake(t))
        /\ WF_lockVars(part = "lock" /\ Lock!DeadlinePasses(t))
        /\ WF_lockVars(part = "lock" /\ Lock!Register(t))
        /\ WF_lockVars(part = "lock" /\ Lock!Leave(t)) /\ WF_lockVars(part = "lock" /\ Lock!Close(t))
RepairFairness ==
    /\ WF_inventoryVars(part = "inventory" /\ Repairing!Work)
    /\ SF_inventoryVars(part = "inventory" /\ Repairing!StartRecover("recover"))
    /\ SF_inventoryVars(part = "inventory" /\ Repairing!StartRecover("repair"))
    /\ SF_inventoryVars(part = "inventory" /\ Repairing!RemoveDamaged)

Spec ==
    /\ Init /\ [][Next]_vars
    /\ CommandFairness /\ OpeningFairness /\ LockFairness /\ RepairFairness

-----------------------------------------------------------------------------
(* Who waits gets an answer: from a command whose adapter answers only when *)
(* it is told to stop, and from the lock of a store that another process    *)
(* keeps for ever.                                                          *)
EveryCallIsAnswered ==
    /\ part = "command" ~> commandPc = "done"
    /\ Lock!CallEnds /\ Lock!LockIsGivenBack


(* Whatever statement or process fails while a store is opened, on disk is  *)
(* exactly one of the versions with all its rows, who has the store open    *)
(* sees the last one, and nothing is called corrupt but the journal of a    *)
(* first opening that died (LocalWorldStore._initialize).                   *)
OpeningKeepsTheStore ==
    /\ [](part = "opening" => /\ Opening!TypeOK /\ Opening!OnlyWholeVersions /\ Opening!OpenIsCurrent
                              /\ Opening!CorruptOnlyForTheJournal)
    /\ [][part = "opening" => rows' >= rows]_rows

(* What was interrupted or damaged comes right again: a deletion ends, also *)
(* one that damage has stopped, orphans go, and repeated openings end with  *)
(* version 2, if no journal of the first opening is left behind.            *)
RepairsConverge ==
    /\ Repairing!DeletionEnds /\ Repairing!OrphansGo
    /\ <>[](part = "opening" => journal \/ \A p \in {"p1", "p2"} : openPc[p] \in {"open", "write"})
================================================================================
