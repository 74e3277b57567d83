------------------------------- MODULE CropSink -------------------------------
(***************************************************************************)
(* write_rgb24_crop (geometry.py): several callers write crops beneath one *)
(* private root, here all to one destination.  The file is created in      *)
(* place, exclusively, and only then filled, made read-only and synced, so *)
(* a reader may meet it at any moment.  Any call may fail, and a caller    *)
(* may die between two of them.                                            *)
(***************************************************************************)
EXTENDS Naturals, FiniteSets

CONSTANTS
    Caller,         \* calls of write_rgb24_crop, one crop each
    Size            \* bytes of a crop; a short write leaves some for the next

CropHasBytes == Size \in Nat \ {0}

VARIABLES
    pc,             \* where each call stands
    file,           \* the destination, <<>> or <<[by, bytes, mode]>>
    knows           \* calls whose created_inode is set

vars == <<pc, file, knows>>

Steps == {"open", "identify", "write", "chmod", "sync", "close", "unlink",
          "written", "refused", "failed", "dead"}

File == [by : Caller, bytes : 0..Size, mode : {"rw", "r"}]

TypeOK ==
    /\ pc \in [Caller -> Steps]
    /\ file \in {<<>>} \cup {<<f>> : f \in File}
    /\ knows \subseteq Caller

Init ==
    /\ pc = [c \in Caller |-> "open"]
    /\ file = <<>>
    /\ knows = {}

-----------------------------------------------------------------------------
Goes(c, step) == pc' = [pc EXCEPT ![c] = step]

(* Mode "xb": the call creates the file or is refused with nothing done. *)
Open(c) ==
    /\ pc[c] = "open"
    /\ \/ /\ file = <<>>
          /\ file' = <<[by |-> c, bytes |-> 0, mode |-> "rw"]>>
          /\ Goes(c, "identify")
       \/ /\ Goes(c, "refused")
          /\ UNCHANGED file
    /\ UNCHANGED knows

(* _inode: a failing fstat leaves created_inode None. *)
Identify(c) ==
    /\ pc[c] = "identify"
    /\ \/ knows' = knows \cup {c} /\ Goes(c, "write")
       \/ UNCHANGED knows /\ Goes(c, "unlink")
    /\ UNCHANGED file

(* _write_all: as many writes as it takes, none of them empty. *)
Write(c) ==
    /\ pc[c] = "write"
    /\ \/ /\ file[1].bytes < Size
          /\ \E n \in (file[1].bytes + 1)..Size : file' = <<[file[1] EXCEPT !.bytes = n]>>
          /\ UNCHANGED pc
       \/ /\ file[1].bytes = Size
          /\ Goes(c, "chmod")
          /\ UNCHANGED file
       \/ /\ Goes(c, "unlink")
          /\ UNCHANGED file
    /\ UNCHANGED knows

Chmod(c) ==
    /\ pc[c] = "chmod"
    /\ \/ /\ file' = <<[file[1] EXCEPT !.mode = "r"]>>
          /\ Goes(c, "sync")
       \/ /\ Goes(c, "unlink")
          /\ UNCHANGED file
    /\ UNCHANGED knows

Sync(c) ==
    /\ pc[c] = "sync"
    /\ \E step \in {"close", "unlink"} : Goes(c, step)
    /\ UNCHANGED <<file, knows>>

(* A failed close counts as a failed write. *)
Close(c) ==
    /\ pc[c] = "close"
    /\ \E step \in {"written", "unlink"} : Goes(c, step)
    /\ UNCHANGED <<file, knows>>

(* _unlink_created: the file of this call; an error is not reported.  The   *)
(* inode is compared if it is known; nobody else may replace the file, and  *)
(* this call created it, so both branches unlink the same file.             *)
Unlink(c) ==
    /\ pc[c] = "unlink"
    /\ \/ /\ file # <<>>
          /\ c \in knows => file[1].by = c
          /\ file' = <<>>
       \/ UNCHANGED file
    /\ Goes(c, "failed")
    /\ UNCHANGED knows

Die(c) ==
    /\ pc[c] \notin {"written", "refused", "failed", "dead"}
    /\ Goes(c, "dead")
    /\ UNCHANGED <<file, knows>>

Next == \E c \in Caller : \/ Open(c) \/ Identify(c) \/ Write(c) \/ Chmod(c)
                          \/ Sync(c) \/ Close(c) \/ Unlink(c) \/ Die(c)

Spec == Init /\ [][Next]_vars

-----------------------------------------------------------------------------
(* Properties. *)

(* write_rgb24_crop returns the Artifact only for a file that is whole,     *)
(* read-only and its own, and stays so: one call at most can return one.    *)
ReturnedIsThere ==
    \A c \in Caller :
        pc[c] = "written" => file = <<[by |-> c, bytes |-> Size, mode |-> "r"]>>

(* The mode is the commit mark: a reader that finds the file read-only has  *)
(* all of its bytes, also while the writer is at work or after it died.     *)
ReadOnlyIsWhole ==
    file # <<>> /\ file[1].mode = "r" => file[1].bytes = Size

(* A caller touches a file only if it created it: a refused caller leaves   *)
(* the file of another one as it is, and no cleanup takes it away.          *)
OthersFilesAreKept ==
    [][\A c \in Caller :
         file # <<>> /\ file[1].by # c /\ pc'[c] # pc[c] => file' = file]_vars
=============================================================================
