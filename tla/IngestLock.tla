------------------------------- MODULE IngestLock ------------------------------
(***************************************************************************)
(* The PID-stamped lock file of one repository: class IngestLock of         *)
(* src/kosha/git_store.py.  Each file-system call is a step of its own, so  *)
(* the calls of several processes interleave as the operating system        *)
(* schedules them.                                                          *)
(*                                                                          *)
(* Abstractions.  A process's PID is the process itself: PIDs are not       *)
(* reused while a lock file names one.  The file is known by the process    *)
(* that created it, because os.open keeps the inode even if another process *)
(* unlinks the name.                                                        *)
(***************************************************************************)
EXTENDS Naturals, FiniteSets

CONSTANTS
  Procs,        \* the processes that run an ingest or a recovery
  NoFile,       \* there is no lock file
  Unknown,      \* what _read_holder returns for an unreadable or empty file
  MayDie,       \* may a process crash, or exit after it finished?
  OneAtATime    \* does the operator start a process only when none is running?

ASSUME LockAssumption ==
  /\ NoFile \notin Procs
  /\ Unknown \notin Procs
  /\ MayDie \in BOOLEAN
  /\ OneAtATime \in BOOLEAN

VARIABLES
  file,      \* the creator of the lock file, or NoFile
  stamped,   \* does that file hold its creator's PID yet?
  alive,     \* the live processes
  pc,        \* where each process is in acquire() or release()
  raw        \* what _read_holder returned to it

lockVars == <<file, stamped, alive, pc, raw>>

Places == {"idle", "reading", "checking", "unlinking", "creating", "stamping",
           "holding", "refused", "released"}

\* Between the first call of acquire() and its last, or holding the lock.
InFlight(p) == p \in alive /\ pc[p] \notin {"idle", "refused", "released"}

\* acquire() has created the file and release() has not removed it.
Holds(p) == p \in alive /\ pc[p] \in {"stamping", "holding"}

Goto(p, place) == pc' = [pc EXCEPT ![p] = place]

LockInit ==
  /\ file = NoFile
  /\ stamped = FALSE
  /\ alive = Procs
  /\ pc = [p \in Procs |-> "idle"]
  /\ raw = [p \in Procs |-> Unknown]

\* _reclaim_if_stale: is there a file?
Begin(p) ==
  /\ p \in alive
  /\ pc[p] \in {"idle", "refused", "released"}
  /\ OneAtATime => \A q \in Procs : ~ InFlight(q)
  /\ Goto(p, IF file = NoFile THEN "creating" ELSE "reading")
  /\ UNCHANGED <<file, stamped, alive, raw>>

\* _read_holder: the PID, or "unknown" when the file is gone or still empty.
ReadHolder(p) ==
  /\ p \in alive
  /\ pc[p] = "reading"
  /\ raw' = [raw EXCEPT ![p] = IF file # NoFile /\ stamped THEN file ELSE Unknown]
  /\ Goto(p, "checking")
  /\ UNCHANGED <<file, stamped, alive>>

\* Fault: a PID that is readable is trusted without asking whether it lives.
CheckTrusting(p) ==
  /\ p \in alive
  /\ pc[p] = "checking"
  /\ Goto(p, "creating")
  /\ UNCHANGED <<file, stamped, alive, raw>>

\* _pid_is_alive: os.kill(pid, 0).
CheckHolder(p) ==
  /\ p \in alive
  /\ pc[p] = "checking"
  /\ Goto(p, IF raw[p] \in Procs \ alive THEN "unlinking" ELSE "creating")
  /\ UNCHANGED <<file, stamped, alive, raw>>

\* The stale file is removed, whichever file bears the name by now.
Unlink(p) ==
  /\ p \in alive
  /\ pc[p] = "unlinking"
  /\ file' = NoFile
  /\ stamped' = FALSE
  /\ Goto(p, "creating")
  /\ UNCHANGED <<alive, raw>>

\* Fault: acquire() waits for the file to go away.
CreateWaiting(p) ==
  /\ p \in alive
  /\ pc[p] = "creating"
  /\ file = NoFile
  /\ file' = p
  /\ stamped' = FALSE
  /\ Goto(p, "stamping")
  /\ UNCHANGED <<alive, raw>>

\* Fault: a file this process cannot create is simply ignored.
CreateUnchecked(p) ==
  /\ p \in alive
  /\ pc[p] = "creating"
  /\ IF file = NoFile
       THEN file' = p /\ stamped' = FALSE
       ELSE UNCHANGED <<file, stamped>>
  /\ Goto(p, "stamping")
  /\ UNCHANGED <<alive, raw>>

\* os.open(O_CREAT | O_EXCL): the file is created, or IngestLockError is raised.
Create(p) ==
  /\ p \in alive
  /\ pc[p] = "creating"
  /\ IF file = NoFile
       THEN file' = p /\ stamped' = FALSE /\ Goto(p, "stamping")
       ELSE Goto(p, "refused") /\ UNCHANGED <<file, stamped>>
  /\ UNCHANGED <<alive, raw>>

\* The PID is written to the file this process created, if it is still there.
Stamp(p) ==
  /\ p \in alive
  /\ pc[p] = "stamping"
  /\ stamped' = (stamped \/ file = p)
  /\ Goto(p, "holding")
  /\ UNCHANGED <<file, alive, raw>>

\* release(): unlink whatever file bears the name.
Release(p) ==
  /\ p \in alive
  /\ pc[p] = "holding"
  /\ file' = NoFile
  /\ stamped' = FALSE
  /\ Goto(p, "released")
  /\ UNCHANGED <<alive, raw>>

\* The process is killed, or exits after acquire() refused or release().
Die(p) ==
  /\ MayDie
  /\ p \in alive
  /\ alive' = alive \ {p}
  /\ UNCHANGED <<file, stamped, pc, raw>>

Acquiring(p) == ReadHolder(p) \/ CheckHolder(p) \/ Unlink(p) \/ Create(p) \/ Stamp(p)

LockNext == \E p \in Procs : Begin(p) \/ Acquiring(p) \/ Release(p) \/ Die(p)

LockSpec == LockInit /\ [][LockNext]_lockVars

--------------------------------------------------------------------------------
LockTypeOK ==
  /\ file \in Procs \cup {NoFile}
  /\ stamped \in BOOLEAN
  /\ alive \subseteq Procs
  /\ pc \in [Procs -> Places]
  /\ raw \in [Procs -> Procs \cup {Unknown}]

\* At most one process is between creating the lock file and releasing it
\* (git_store.py:48-50: the lock "makes that write-phase exclusive per
\* repository").
MutualExclusion == \A p, q \in Procs : Holds(p) /\ Holds(q) => p = q

\* The file on disk is the holder's own, so a refused process reads the PID of
\* the process that excludes it, and no release removes another's lock.
FileIsHolders == \A p \in Procs : Holds(p) => file = p

\* When processes run one after another, a crash leaves nothing in the way but
\* the one file nobody can reclaim: the empty file of a process that died
\* between creating it and writing its PID.
RefusedOnlyByEmptyFile ==
  [][\A p \in Procs : pc[p] # "refused" /\ pc'[p] = "refused" =>
       ~ stamped /\ file \notin alive]_lockVars
================================================================================
