------------------------------ MODULE StoreLock ------------------------------
(* The writer lock of a store root: writer.lock, polled with a deadline by     *)
(* every operation of LocalEvidenceStore and by every write of LocalWorldStore, *)
(* held over several of them by a writer session, and given up by closing the  *)
(* file that owns it.  A close may fail; when the file is still open then, the *)
(* store object is poisoned and keeps it until its process dies.               *)
EXTENDS TLAPS

CONSTANTS Thread, Store,   \* callers, and the store objects they use
          StoreOf,         \* Thread -> Store; threads of a process share theirs
          None

StoreOfAssumption == StoreOf \in [Thread -> Store] /\ None \notin Thread

Kinds == {"read", "write", "session"}
Mode(kind) == IF kind = "read" THEN "shared" ELSE "exclusive"

VARIABLES
  call,      \* per thread: its call, from the check of _poisoned to the answer
  locks,     \* the threads whose open lock file owns the kernel lock
  retained,  \* locks that stay with a store because their file could not be closed
  poisoned,
  session,   \* per store: the thread of the registered writer session
  leaked,    \* the threads that still have the object of an ended session
  used       \* the thread that works on the files in this moment
vars == <<call, locks, retained, poisoned, session, leaked, used>>

Idle(answer) == [pc |-> "idle", kind |-> "none", late |-> FALSE, answer |-> answer]

Init ==
  /\ call = [t \in Thread |-> Idle("none")]
  /\ locks = {} /\ retained = {} /\ poisoned = {}
  /\ session = [s \in Store |-> None] /\ leaked = {} /\ used = None

Held == {Mode(call[u].kind) : u \in locks} \cup {r.mode : r \in retained}

\* Slip: readers are not kept out.
ConflictsAmongWriters(t) == Mode(call[t].kind) = "exclusive" /\ "exclusive" \in Held

Conflicts(t) ==
  IF Mode(call[t].kind) = "exclusive" THEN Held # {} ELSE "exclusive" \in Held

Begin(t, kind) ==
  /\ call[t].pc = "idle"
  /\ call' = [call EXCEPT ![t] =
       IF StoreOf[t] \in poisoned THEN Idle("STORAGE_FAILED")
       ELSE [pc |-> "poll", kind |-> kind, late |-> FALSE, answer |-> "none"]]
  /\ used' = None /\ UNCHANGED <<locks, retained, poisoned, session, leaked>>

\* Slip: a refusal always sleeps.
PollOn(t) ==
  /\ call[t].pc = "poll" /\ used' = None
  /\ IF ~Conflicts(t)
     THEN /\ locks' = locks \cup {t}
          /\ call' = [call EXCEPT ![t].pc = IF call[t].kind = "session"
                                            THEN "register" ELSE "inside"]
     ELSE /\ call' = [call EXCEPT ![t] =
                [@ EXCEPT !.pc = "sleep"]]
          /\ UNCHANGED locks
  /\ UNCHANGED <<retained, poisoned, session, leaked>>

\* flock without blocking; the deadline is looked at only when it is refused.
Poll(t) ==
  /\ call[t].pc = "poll" /\ used' = None
  /\ IF ~Conflicts(t)
     THEN /\ locks' = locks \cup {t}
          /\ call' = [call EXCEPT ![t].pc = IF call[t].kind = "session"
                                            THEN "register" ELSE "inside"]
     ELSE /\ call' = [call EXCEPT ![t] =
                IF call[t].late THEN [@ EXCEPT !.pc = "close", !.answer = "TIMEOUT"]
                ELSE [@ EXCEPT !.pc = "sleep"]]
          /\ UNCHANGED locks
  /\ UNCHANGED <<retained, poisoned, session, leaked>>

Wake(t) ==
  /\ call[t].pc = "sleep" /\ used' = None
  /\ call' = [call EXCEPT ![t].pc = "poll"]
  /\ UNCHANGED <<locks, retained, poisoned, session, leaked>>

DeadlinePasses(t) ==
  /\ call[t].pc \in {"poll", "sleep"} /\ ~call[t].late /\ used' = None
  /\ call' = [call EXCEPT ![t].late = TRUE]
  /\ UNCHANGED <<locks, retained, poisoned, session, leaked>>

\* writer_session: a session whose lock file is open is not replaced.
Register(t) ==
  /\ call[t].pc = "register" /\ used' = None
  /\ IF session[StoreOf[t]] \in locks
     THEN /\ call' = [call EXCEPT ![t].pc = "close", ![t].answer = "STORAGE_FAILED"]
          /\ UNCHANGED session
     ELSE /\ session' = [session EXCEPT ![StoreOf[t]] = t]
          /\ call' = [call EXCEPT ![t].pc = "inside"]
  /\ UNCHANGED <<locks, retained, poisoned, leaked>>

\* EvidenceWriterSession._descriptor: what every use of a session asks first.
Valid(t) == session[StoreOf[t]] = t /\ StoreOf[t] \notin poisoned /\ t \in locks

\* Inside, a thread works on the files, through its session if it has one.
Work(t) ==
  /\ call[t].pc = "inside"
  /\ call[t].kind = "session" => Valid(t)
  /\ used' = t /\ UNCHANGED <<call, locks, retained, poisoned, session, leaked>>

\* A session object that was kept is used after its end.
UseLeaked(t) ==
  /\ t \in leaked /\ call[t].pc = "idle"
  /\ used' = IF Valid(t) THEN t ELSE None
  /\ call' = [call EXCEPT ![t].answer = IF Valid(t) THEN "ok" ELSE "INVALID_REQUEST"]
  /\ UNCHANGED <<locks, retained, poisoned, session, leaked>>

\* The body ends, well or with an error; a session is withdrawn before its lock.
Leave(t) ==
  /\ call[t].pc = "inside" /\ used' = None
  /\ \E answer \in {"ok", "failed"} :
       call' = [call EXCEPT ![t].pc = "close", ![t].answer = answer]
  /\ session' = [session EXCEPT ![StoreOf[t]] = IF @ = t THEN None ELSE @]
  /\ leaked' = IF call[t].kind = "session" THEN leaked \cup {t} ELSE leaked
  /\ UNCHANGED <<locks, retained, poisoned>>

\* _close_lock_owner: an error of close is the answer, whatever the body said.
CloseAnswer(answer, failed) == IF failed THEN "STORAGE_FAILED" ELSE answer

\* The file keeps what it owns: nothing, if the lock was not got.
Retain(t) ==
  retained' = retained \cup (IF t \in locks THEN {[thread |-> t, mode |-> Mode(call[t].kind)]}
                             ELSE {})

\* _poison_lock
PoisonedBy(t) == Retain(t) /\ poisoned' = poisoned \cup {StoreOf[t]}

Closed(t) ==
  /\ \E failed \in BOOLEAN :
       call' = [call EXCEPT ![t] = Idle(CloseAnswer(call[t].answer, failed))]
  /\ UNCHANGED <<retained, poisoned>>

StillOpen(t) ==
  /\ call' = [call EXCEPT ![t] = Idle(CloseAnswer(call[t].answer, TRUE))]
  /\ PoisonedBy(t)

Close(t) ==
  /\ call[t].pc = "close" /\ used' = None
  /\ Closed(t) \/ StillOpen(t)
  /\ locks' = locks \ {t}
  /\ UNCHANGED <<session, leaked>>

\* The kernel closes all files of a process; its calls are never answered.
ProcessDies(s) ==
  LET threads == {t \in Thread : StoreOf[t] = s}
  IN  /\ call' = [t \in Thread |-> IF t \in threads THEN Idle("none") ELSE call[t]]
      /\ locks' = locks \ threads /\ leaked' = leaked \ threads
      /\ retained' = {r \in retained : r.thread \notin threads} /\ poisoned' = poisoned \ {s}
      /\ session' = [session EXCEPT ![s] = None] /\ used' = None

Advance(t) == Poll(t) \/ Wake(t) \/ DeadlinePasses(t) \/ Register(t) \/ Leave(t) \/ Close(t)

Next ==
  \/ \E t \in Thread : \/ \E kind \in Kinds : Begin(t, kind)
                       \/ Advance(t) \/ Work(t) \/ UseLeaked(t)
  \/ \E s \in Store : ProcessDies(s)

\* Threads run, bodies end, and time passes; nobody has to call or to die.
Fairness ==
  \A t \in Thread :
    /\ WF_vars(Poll(t)) /\ WF_vars(Wake(t)) /\ WF_vars(DeadlinePasses(t))
    /\ WF_vars(Register(t)) /\ WF_vars(Leave(t)) /\ WF_vars(Close(t))

Spec == Init /\ [][Next]_vars /\ Fairness

---------------------------------------------------------------------------
TypeOK ==
  /\ \A t \in Thread : call[t].pc \in {"idle", "poll", "sleep", "register", "inside", "close"}
  /\ locks \subseteq Thread /\ leaked \subseteq Thread
  /\ poisoned \subseteq Store /\ \A r \in retained : StoreOf[r.thread] \in poisoned
  /\ \A t \in Thread : call[t].pc \in {"register", "inside"} => t \in locks
  /\ \A s \in Store : session[s] # None => session[s] \in locks

\* Nobody works on the files while another thread is in a write or in a session,
\* nor outside a call of its own, whatever became of earlier locks.
WorkIsCovered ==
  used # None =>
    /\ used \in locks /\ call[used].pc = "inside"
    /\ \A t \in locks \ {used} : {Mode(call[t].kind), Mode(call[used].kind)} = {"shared"}
    /\ \A r \in retained : {r.mode, Mode(call[used].kind)} = {"shared"}

\* A thread that was told "ok" has no part in a lock that is still held, by itself
\* or by a file that its store could not close; nor is it told so later, through
\* a session that is over.
OkMeansReleased ==
  \A t \in Thread : call[t].pc = "idle" /\ call[t].answer = "ok" =>
    t \notin locks /\ \A r \in retained : r.thread # t

\* Nobody works on files that another thread writes, whatever became of earlier
\* locks and sessions; and who was told "ok" holds no lock.
LockIsExclusive == TypeOK /\ WorkIsCovered /\ OkMeansReleased

\* Every call ends, though another process may keep the lock for ever.
CallEnds == \A t \in Thread : call[t].pc # "idle" ~> call[t].pc = "idle"

\* A lock is given back, or a store is poisoned by it.
LockIsGivenBack == \A t \in Thread : t \in locks ~> t \notin locks

---------------------------------------------------------------------------
\* The lock excludes for any number of store objects and threads, whatever closes
\* fail, whoever keeps the object of a session, and whoever dies.

(* What each variable may hold. *)

Calls ==
  [pc : {"idle", "poll", "sleep", "register", "inside", "close"},
   kind : Kinds \cup {"none"}, late : BOOLEAN,
   answer : {"none", "ok", "failed", "TIMEOUT", "STORAGE_FAILED", "INVALID_REQUEST"}]

LockTypes ==
  /\ call \in [Thread -> Calls]
  /\ locks \subseteq Thread /\ leaked \subseteq Thread /\ poisoned \subseteq Store
  /\ retained \subseteq [thread : Thread, mode : {"shared", "exclusive"}]
  /\ session \in [Store -> Thread \cup {None}]
  /\ used \in Thread \cup {None}

(* Who owns the kernel lock is past its poll and before the end of its close. *)
LocksAreOfCalls ==
  \A t \in Thread :
    /\ call[t].pc \in {"register", "inside"} => t \in locks
    /\ t \in locks => call[t].pc \in {"register", "inside", "close"}

(* The kernel's rule: a lock is alone, or all are shared. *)
LocksAreCompatible ==
  /\ \A t, u \in locks : t # u => Mode(call[t].kind) = "shared"
  /\ \A t \in locks, r \in retained : Mode(call[t].kind) = "shared" /\ r.mode = "shared"

(* A file that could not be closed has poisoned its store, so its thread    *)
(* never gets beyond the check that begins a call.                          *)
RetainedArePoisoned ==
  \A r \in retained :
    /\ StoreOf[r.thread] \in poisoned
    /\ call[r.thread].pc = "idle" /\ call[r.thread].answer # "ok"

(* A registered session is that of a thread in the body of its session. *)
SessionsAreInside ==
  \A s \in Store : session[s] # None =>
    StoreOf[session[s]] = s /\ call[session[s]].pc = "inside"

(* Work on the files happens in the body of a call. *)
UsedIsInside == used # None => call[used].pc = "inside"

(* The inductive invariant. *)
LockInv ==
  /\ LockTypes /\ LocksAreOfCalls /\ LocksAreCompatible
  /\ RetainedArePoisoned /\ SessionsAreInside /\ UsedIsInside

(* Before any call nothing is locked. *)
LEMMA InitLock == ASSUME StoreOfAssumption, Init PROVE LockInv
BY DEF StoreOfAssumption, Init, LockInv, LockTypes, Calls, Idle, Kinds, LocksAreOfCalls,
   LocksAreCompatible, RetainedArePoisoned, SessionsAreInside, UsedIsInside

USE DEF Kinds, Idle

(* A call that goes to its close with an answer is still a call. *)
LEMMA ClosingCall ==
  ASSUME NEW c \in Calls, NEW a \in {"ok", "failed", "TIMEOUT", "STORAGE_FAILED"}
  PROVE  /\ [c EXCEPT !.pc = "close", !.answer = a] \in Calls
         /\ [c EXCEPT !.pc = "close", !.answer = a].pc = "close"
BY DEF Calls

(* A call that waits on is still a call. *)
LEMMA WaitingCall ==
  ASSUME NEW c \in Calls
  PROVE  [c EXCEPT !.pc = "poll"] \in Calls /\ [c EXCEPT !.late = TRUE] \in Calls
BY DEF Calls

(* Beginning a call takes no lock, and the store object it checks answers a
   thread whose file could not be closed at once. *)
LEMMA BeginLock ==
  ASSUME StoreOfAssumption, LockInv, NEW t \in Thread, NEW kind \in Kinds, Begin(t, kind)
  PROVE  LockInv'
<1> USE DEF StoreOfAssumption, LockInv, Begin
<1>1. LockTypes' BY DEF LockTypes, Calls
<1>2. LocksAreOfCalls' BY DEF LockTypes, Calls, LocksAreOfCalls
<1>3. LocksAreCompatible' BY DEF LockTypes, Calls, LocksAreOfCalls, LocksAreCompatible
<1>4. RetainedArePoisoned' BY DEF LockTypes, Calls, RetainedArePoisoned
<1>5. SessionsAreInside' BY DEF LockTypes, Calls, SessionsAreInside
<1>6. UsedIsInside' BY DEF UsedIsInside
<1> QED BY <1>1, <1>2, <1>3, <1>4, <1>5, <1>6

(* flock grants what is compatible with all that is held; a refusal at the
   deadline goes to the close without a lock. *)
LEMMA PollLock == ASSUME StoreOfAssumption, LockInv, NEW t \in Thread, Poll(t) PROVE LockInv'
<1> USE DEF StoreOfAssumption, LockInv, Poll
<1>1. LockTypes'
  <2>1. CASE ~Conflicts(t) BY <2>1 DEF LockTypes, Calls
  <2>2. CASE Conflicts(t) /\ call[t].late
    <3>0. PICK c : c = [call[t] EXCEPT !.pc = "close", !.answer = "TIMEOUT"] OBVIOUS
    <3>1. c \in Calls /\ c.pc = "close" BY <3>0, ClosingCall DEF LockTypes
    <3>2. call' = [call EXCEPT ![t] = c] BY <2>2, <3>0 DEF LockTypes
    <3> QED BY <2>2, <3>1, <3>2 DEF LockTypes, Calls
  <2>3. CASE Conflicts(t) /\ ~call[t].late BY <2>3 DEF LockTypes, Calls
  <2> QED BY <2>1, <2>2, <2>3
<1>2. LocksAreOfCalls'
  <2>1. CASE ~Conflicts(t) BY <2>1 DEF LockTypes, Calls, LocksAreOfCalls
  <2>2. CASE Conflicts(t) /\ call[t].late
    <3>0. PICK c : c = [call[t] EXCEPT !.pc = "close", !.answer = "TIMEOUT"] OBVIOUS
    <3>1. c \in Calls /\ c.pc = "close" BY <3>0, ClosingCall DEF LockTypes
    <3>2. call' = [call EXCEPT ![t] = c] BY <2>2, <3>0 DEF LockTypes
    <3> QED BY <2>2, <3>1, <3>2 DEF LockTypes, Calls, LocksAreOfCalls
  <2>3. CASE Conflicts(t) /\ ~call[t].late BY <2>3 DEF LockTypes, Calls, LocksAreOfCalls
  <2> QED BY <2>1, <2>2, <2>3
<1>3. LocksAreCompatible'
  <2>1. CASE Conflicts(t)
    BY <2>1 DEF LockTypes, Calls, LocksAreOfCalls, LocksAreCompatible
  <2>2. CASE ~Conflicts(t)
    <3>1. \A u \in Thread : call'[u].kind = call[u].kind BY <2>2 DEF LockTypes, Calls
    <3>2. locks' = locks \cup {t} /\ retained' = retained BY <2>2
    <3>3. CASE Mode(call[t].kind) = "exclusive"
      <4>1. locks = {} /\ retained = {} BY <2>2, <3>3 DEF Conflicts, Held
      <4> QED BY <4>1, <3>2 DEF LocksAreCompatible
    <3>4. CASE Mode(call[t].kind) # "exclusive"
      <4>1. Mode(call[t].kind) = "shared" BY <3>4 DEF Mode
      <4>2. \A u \in locks : Mode(call[u].kind) = "shared"
        BY <2>2, <3>4 DEF Conflicts, Held, Mode
      <4>3. \A r \in retained : r.mode = "shared"
        BY <2>2, <3>4 DEF Conflicts, Held, LockTypes
      <4> QED BY <3>1, <3>2, <4>1, <4>2, <4>3 DEF LocksAreCompatible, LockTypes, Mode
    <3> QED BY <3>3, <3>4
  <2> QED BY <2>1, <2>2
<1>4. RetainedArePoisoned' BY DEF LockTypes, Calls, RetainedArePoisoned
<1>5. SessionsAreInside' BY DEF LockTypes, Calls, SessionsAreInside
<1>6. UsedIsInside' BY DEF UsedIsInside
<1> QED BY <1>1, <1>2, <1>3, <1>4, <1>5, <1>6

(* Sleeping and the passing of the deadline move no lock. *)
LEMMA WaitLock ==
  ASSUME StoreOfAssumption, LockInv, NEW t \in Thread, Wake(t) \/ DeadlinePasses(t) PROVE LockInv'
<1> USE DEF StoreOfAssumption, LockInv, Wake, DeadlinePasses
<1>1. LockTypes'
  <2>1. /\ [call[t] EXCEPT !.pc = "poll"] \in Calls
        /\ [call[t] EXCEPT !.late = TRUE] \in Calls
    BY WaitingCall DEF LockTypes
  <2>2. call' \in [Thread -> Calls] BY <2>1 DEF LockTypes
  <2> QED BY <2>2 DEF LockTypes
<1>2. LocksAreOfCalls' BY DEF LockTypes, Calls, LocksAreOfCalls
<1>3. LocksAreCompatible'
  BY DEF LockTypes, Calls, LocksAreOfCalls, LocksAreCompatible
<1>4. RetainedArePoisoned' BY DEF LockTypes, Calls, RetainedArePoisoned
<1>5. SessionsAreInside' BY DEF LockTypes, Calls, SessionsAreInside
<1>6. UsedIsInside' BY DEF UsedIsInside
<1> QED BY <1>1, <1>2, <1>3, <1>4, <1>5, <1>6

(* writer_session registers a thread that owns the lock. *)
LEMMA RegisterLock == ASSUME StoreOfAssumption, LockInv, NEW t \in Thread, Register(t) PROVE LockInv'
<1> USE DEF StoreOfAssumption, LockInv, Register
<1>1. LockTypes'
  <2>1. CASE session[StoreOf[t]] \in locks
    <3>0. PICK c : c = [call[t] EXCEPT !.pc = "close", !.answer = "STORAGE_FAILED"] OBVIOUS
    <3>1. c \in Calls /\ c.pc = "close" BY <3>0, ClosingCall DEF LockTypes
    <3>2. call' = [call EXCEPT ![t] = c] BY <2>1, <3>0 DEF LockTypes, Calls
    <3> QED BY <2>1, <3>1, <3>2 DEF LockTypes, Calls
  <2>2. CASE session[StoreOf[t]] \notin locks
    <3>1. StoreOf[t] \in Store OBVIOUS
    <3>2. session' \in [Store -> Thread \cup {None}] BY <2>2, <3>1 DEF LockTypes, Calls
    <3>3. call' \in [Thread -> Calls] BY <2>2 DEF LockTypes, Calls
    <3> QED BY <2>2, <3>2, <3>3 DEF LockTypes, Calls
  <2> QED BY <2>1, <2>2
<1>2. LocksAreOfCalls' BY DEF LockTypes, Calls, LocksAreOfCalls
<1>3. LocksAreCompatible'
  BY DEF LockTypes, Calls, LocksAreOfCalls, LocksAreCompatible
<1>4. RetainedArePoisoned' BY DEF LockTypes, Calls, RetainedArePoisoned
<1>5. SessionsAreInside' BY DEF LockTypes, Calls, SessionsAreInside
<1>6. UsedIsInside' BY DEF UsedIsInside
<1> QED BY <1>1, <1>2, <1>3, <1>4, <1>5, <1>6

(* A session is withdrawn before its lock is closed. *)
LEMMA LeaveLock == ASSUME StoreOfAssumption, LockInv, NEW t \in Thread, Leave(t) PROVE LockInv'
<1> USE DEF StoreOfAssumption, LockInv, Leave
<1>1. LockTypes'
  <2>1. call' \in [Thread -> Calls]
    <3>0. PICK a \in {"ok", "failed"} : call' = [call EXCEPT ![t].pc = "close", ![t].answer = a]
      OBVIOUS
    <3>1. PICK c : c = [call[t] EXCEPT !.pc = "close", !.answer = a] OBVIOUS
    <3>2. c \in Calls BY <3>1, ClosingCall DEF LockTypes
    <3>3. call' = [call EXCEPT ![t] = c] BY <3>0, <3>1 DEF LockTypes, Calls
    <3> QED BY <3>2, <3>3 DEF LockTypes
  <2>2. session' \in [Store -> Thread \cup {None}] BY DEF LockTypes, Calls
  <2> QED BY <2>1, <2>2 DEF LockTypes, Calls
<1>2. LocksAreOfCalls' BY DEF LockTypes, Calls, LocksAreOfCalls
<1>3. LocksAreCompatible'
  BY DEF LockTypes, Calls, LocksAreOfCalls, LocksAreCompatible
<1>4. RetainedArePoisoned' BY DEF LockTypes, Calls, RetainedArePoisoned
<1>5. SessionsAreInside' BY DEF LockTypes, Calls, SessionsAreInside
<1>6. UsedIsInside' BY DEF UsedIsInside
<1> QED BY <1>1, <1>2, <1>3, <1>4, <1>5, <1>6

(* A close releases the lock, or the store is poisoned, keeps the lock in the
   mode it had, and the answer is the error of the close. *)
LEMMA CloseLock == ASSUME StoreOfAssumption, LockInv, NEW t \in Thread, Close(t) PROVE LockInv'
<1> USE DEF StoreOfAssumption, LockInv, Close, Closed, StillOpen, PoisonedBy, Retain, CloseAnswer
<1>1. LockTypes'
  <2>1. \A a \in {call[t].answer, "STORAGE_FAILED"} : Idle(a) \in Calls BY DEF LockTypes, Calls
  <2>2. call' \in [Thread -> Calls] BY <2>1 DEF LockTypes, Calls
  <2>3. [thread |-> t, mode |-> Mode(call[t].kind)]
          \in [thread : Thread, mode : {"shared", "exclusive"}] BY DEF Mode
  <2>4. retained' \subseteq [thread : Thread, mode : {"shared", "exclusive"}]
    BY <2>3 DEF LockTypes, Calls
  <2>5. poisoned' \subseteq Store BY DEF LockTypes, Calls
  <2> QED BY <2>2, <2>4, <2>5 DEF LockTypes, Calls
<1>2. LocksAreOfCalls' BY DEF LockTypes, Calls, LocksAreOfCalls
<1>3. LocksAreCompatible'
  BY DEF LockTypes, Calls, LocksAreOfCalls, LocksAreCompatible
<1>4. RetainedArePoisoned' BY DEF LockTypes, Calls, RetainedArePoisoned
<1>5. SessionsAreInside' BY DEF LockTypes, Calls, SessionsAreInside
<1>6. UsedIsInside' BY DEF UsedIsInside
<1> QED BY <1>1, <1>2, <1>3, <1>4, <1>5, <1>6

(* Only a thread inside its call works on the files: a session object that was
   kept is not valid any more. *)
LEMMA WorkLock ==
  ASSUME StoreOfAssumption, LockInv, NEW t \in Thread, Work(t) \/ UseLeaked(t) PROVE LockInv'
<1> USE DEF StoreOfAssumption, LockInv, Work, UseLeaked
<1>0. UseLeaked(t) => ~Valid(t) BY DEF Valid, SessionsAreInside, LockTypes
<1>1. LockTypes'
  <2>1. CASE Work(t)
    <3>1. UNCHANGED <<call, locks, retained, poisoned, session, leaked>> /\ used' = t BY <2>1
    <3> QED BY <3>1 DEF LockTypes
  <2>2. CASE UseLeaked(t)
    <3>1. [call[t] EXCEPT !.answer = "INVALID_REQUEST"] \in Calls BY DEF LockTypes, Calls
    <3>2. call' \in [Thread -> Calls] BY <1>0, <2>2, <3>1 DEF LockTypes, Calls
    <3> QED BY <2>2, <3>2 DEF LockTypes, Calls
  <2> QED BY <2>1, <2>2
<1>2. LocksAreOfCalls' BY DEF LockTypes, Calls, LocksAreOfCalls
<1>3. LocksAreCompatible'
  BY DEF LockTypes, Calls, LocksAreOfCalls, LocksAreCompatible
<1>4. RetainedArePoisoned' BY <1>0 DEF LockTypes, Calls, RetainedArePoisoned
<1>5. SessionsAreInside' BY DEF LockTypes, Calls, SessionsAreInside
<1>6. UsedIsInside' BY <1>0 DEF UsedIsInside, LockTypes
<1> QED BY <1>1, <1>2, <1>3, <1>4, <1>5, <1>6

(* A death releases all that its process held and forgets its sessions. *)
LEMMA DeathLock == ASSUME StoreOfAssumption, LockInv, NEW s \in Store, ProcessDies(s) PROVE LockInv'
<1> USE DEF StoreOfAssumption, LockInv, ProcessDies
<1>1. LockTypes' BY DEF LockTypes, Calls
<1>2. LocksAreOfCalls' BY DEF LockTypes, Calls, LocksAreOfCalls
<1>3. LocksAreCompatible'
  BY DEF LockTypes, Calls, LocksAreOfCalls, LocksAreCompatible
<1>4. RetainedArePoisoned' BY DEF LockTypes, Calls, RetainedArePoisoned
<1>5. SessionsAreInside' BY DEF LockTypes, Calls, SessionsAreInside
<1>6. UsedIsInside' BY DEF UsedIsInside
<1> QED BY <1>1, <1>2, <1>3, <1>4, <1>5, <1>6

(* Every reachable state satisfies the invariant of the lock. *)
LEMMA LockIsInductive == ASSUME StoreOfAssumption PROVE Spec => []LockInv
<1>1. LockInv /\ [Next]_vars => LockInv'
  <2> SUFFICES ASSUME LockInv, [Next]_vars PROVE LockInv' OBVIOUS
  <2>1. CASE UNCHANGED vars
    BY <2>1 DEF vars, LockInv, LockTypes, LocksAreOfCalls, LocksAreCompatible,
       RetainedArePoisoned, SessionsAreInside, UsedIsInside
  <2>2. CASE Next
    BY <2>2, BeginLock, PollLock, WaitLock, RegisterLock, LeaveLock, CloseLock, WorkLock,
       DeathLock DEF Next, Advance
  <2> QED BY <2>1, <2>2
<1> QED BY <1>1, InitLock, PTL DEF Spec

(* Nobody works on files that another thread writes, whatever became of earlier
   locks and sessions (_locked, _close_lock_owner and writer_session of
   storage.py), and who was told "ok" holds no lock. *)
THEOREM Exclusion == ASSUME StoreOfAssumption PROVE Spec => []LockIsExclusive
<1>1. LockInv => LockIsExclusive
  <2> SUFFICES ASSUME LockInv PROVE LockIsExclusive OBVIOUS
  <2> USE DEF StoreOfAssumption, LockInv
  <2>1. TypeOK
    BY DEF TypeOK, LockTypes, Calls, LocksAreOfCalls, RetainedArePoisoned, SessionsAreInside
  <2>2. WorkIsCovered
    <3> SUFFICES ASSUME used # None PROVE
          /\ used \in locks /\ call[used].pc = "inside"
          /\ \A t \in locks \ {used} : {Mode(call[t].kind), Mode(call[used].kind)} = {"shared"}
          /\ \A r \in retained : {r.mode, Mode(call[used].kind)} = {"shared"}
      BY DEF WorkIsCovered
    <3>1. used \in locks /\ call[used].pc = "inside"
      BY DEF UsedIsInside, LocksAreOfCalls, LockTypes
    <3> QED BY <3>1 DEF LocksAreCompatible
  <2>3. OkMeansReleased
    BY DEF OkMeansReleased, LocksAreOfCalls, RetainedArePoisoned, LockTypes
  <2> QED BY <2>1, <2>2, <2>3 DEF LockIsExclusive
<1> QED BY <1>1, LockIsInductive, PTL
=============================================================================
