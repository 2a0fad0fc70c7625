------------------------------ MODULE ApplyLock ------------------------------
(***************************************************************************)
(* The apply lock of src/apply/lock.rs: <runtime_dir>/apply.lock, held by  *)
(* flock(2) for the length of an apply, its body the PID of the holder.    *)
(*                                                                         *)
(* A lock file is an inode: the flock and the PID body belong to the       *)
(* inode a process has open, while the PID a refused process reports is    *)
(* read again through the path.  The two part ways as soon as an operator  *)
(* removes the file, which the documentation tells them to do when the     *)
(* refusal says that the lock is stale.                                    *)
(*                                                                         *)
(* A process id stands for the sequence of ghars processes that get it:    *)
(* after a process has ended, Start may give its id to a new one.          *)
(***************************************************************************)
EXTENDS Naturals, FiniteSets

CONSTANTS
  Procs,            \* process ids
  NoProc,           \* "no PID": an empty or unparsable lock body, a free flock
  Inodes,           \* inodes the lock path may refer to over time
  NoInode           \* the path does not exist / no descriptor is open

ASSUME LockConstants ==
  /\ NoProc \notin Procs
  /\ NoInode \notin Inodes

VARIABLES
  lockPath,   \* the inode <runtime_dir>/apply.lock names, or NoInode
  body,       \* inode -> the PID in its body, or NoProc
  flock,      \* inode -> the process that holds its exclusive flock
  fd,         \* process -> the inode its lock descriptor is open on
  pc,         \* process -> where it is in cmd_apply / acquire_lock
  seen,       \* process -> the PID it read after it was refused
  stale,      \* process -> the stale flag of its ApplyLocked error
  removed     \* ghost: an operator has removed the lock file at some time

vars == <<lockPath, body, flock, fd, pc, seen, stale, removed>>

(***************************************************************************)
(* "dead": no process with this id.  "refused": the process has ended and  *)
(* its ApplyLocked error is on the operator's screen.                      *)
(***************************************************************************)
Locations == {"dead", "begin", "dryrun", "opened", "locked", "truncated",
              "applying", "blocked", "probing", "refused"}

Alive(p) == pc[p] \notin {"dead", "refused"}

\* Holds the flock of the inode it has open.
Holding(p) == pc[p] \in {"locked", "truncated", "applying"}

\* Inodes that nothing refers to: free for the next O_CREAT.
FreeInodes == {i \in Inodes : i # lockPath /\ \A p \in Procs : fd[p] # i}

-----------------------------------------------------------------------------
(* Mutated forms of the steps below: plausible slips in lock.rs.     *)

\* Takes the flock without looking at who holds it.
TryLockUnchecked(p) ==
  /\ pc[p] = "opened"
  /\ flock' = [flock EXCEPT ![fd[p]] = p]
  /\ pc' = [pc EXCEPT ![p] = "locked"]
  /\ UNCHANGED <<lockPath, body, fd, seen, stale, removed>>

\* The flock outlives the process, as a lock file without flock would.
EndsKeepingLock(p) ==
  /\ fd' = [fd EXCEPT ![p] = NoInode]
  /\ pc' = [pc EXCEPT ![p] = "dead"]
  /\ UNCHANGED <<lockPath, body, flock, seen, stale, removed>>

\* Truncates the body on contention too.
ReadPidTruncating(p) ==
  /\ pc[p] = "blocked"
  /\ seen' = [seen EXCEPT ![p] = IF lockPath = NoInode THEN NoProc ELSE body[lockPath]]
  /\ body' = [i \in Inodes |-> IF i = lockPath THEN NoProc ELSE body[i]]
  /\ pc' = [pc EXCEPT ![p] = "probing"]
  /\ UNCHANGED <<lockPath, flock, fd, stale, removed>>

\* Waits for the holder instead of refusing.
TryLockWaiting(p) ==
  /\ pc[p] = "opened"
  /\ flock[fd[p]] = NoProc
  /\ flock' = [flock EXCEPT ![fd[p]] = p]
  /\ pc' = [pc EXCEPT ![p] = "locked"]
  /\ UNCHANGED <<lockPath, body, fd, seen, stale, removed>>
-----------------------------------------------------------------------------
Init ==
  /\ lockPath = NoInode
  /\ body = [i \in Inodes |-> NoProc]
  /\ flock = [i \in Inodes |-> NoProc]
  /\ fd = [p \in Procs |-> NoInode]
  /\ pc = [p \in Procs |-> "dead"]
  /\ seen = [p \in Procs |-> NoProc]
  /\ stale = [p \in Procs |-> FALSE]
  /\ removed = FALSE

\* `ghars apply`: the process exists, config load and planning run unlocked.
Start(p) ==
  /\ ~Alive(p)
  /\ pc' = [pc EXCEPT ![p] = "begin"]
  /\ stale' = [stale EXCEPT ![p] = FALSE]
  /\ UNCHANGED <<lockPath, body, flock, fd, seen, removed>>

\* `--dry-run`: cmd_apply plans, renders and returns before apply::apply.
DryRun(p) ==
  /\ \/ pc[p] = "begin"  /\ pc' = [pc EXCEPT ![p] = "dryrun"]
     \/ pc[p] = "dryrun" /\ pc' = [pc EXCEPT ![p] = "dead"]
  /\ UNCHANGED <<lockPath, body, flock, fd, seen, stale, removed>>

\* open(O_RDWR | O_CREAT), no truncation: the body of an old lock stays.
Open(p) ==
  /\ pc[p] = "begin"
  /\ \/ /\ lockPath # NoInode
        /\ fd' = [fd EXCEPT ![p] = lockPath]
        /\ UNCHANGED <<lockPath, body>>
     \/ /\ lockPath = NoInode
        /\ \E i \in FreeInodes :
             /\ lockPath' = i
             /\ fd' = [fd EXCEPT ![p] = i]
             /\ body' = [body EXCEPT ![i] = NoProc]
  /\ pc' = [pc EXCEPT ![p] = "opened"]
  /\ UNCHANGED <<flock, seen, stale, removed>>

\* The non-blocking flock on the open descriptor.
TryLock(p) ==
  /\ pc[p] = "opened"
  /\ \/ /\ flock[fd[p]] = NoProc
        /\ flock' = [flock EXCEPT ![fd[p]] = p]
        /\ pc' = [pc EXCEPT ![p] = "locked"]
     \/ /\ flock[fd[p]] # NoProc
        /\ pc' = [pc EXCEPT ![p] = "blocked"]
        /\ UNCHANGED flock
  /\ UNCHANGED <<lockPath, body, fd, seen, stale, removed>>

\* write_pid_to_lock, first half: set_len(0).
Truncate(p) ==
  /\ pc[p] = "locked"
  /\ body' = [body EXCEPT ![fd[p]] = NoProc]
  /\ pc' = [pc EXCEPT ![p] = "truncated"]
  /\ UNCHANGED <<lockPath, flock, fd, seen, stale, removed>>

\* write_pid_to_lock, second half: the PID goes in and the apply proper runs.
WritePid(p) ==
  /\ pc[p] = "truncated"
  /\ body' = [body EXCEPT ![fd[p]] = p]
  /\ pc' = [pc EXCEPT ![p] = "applying"]
  /\ UNCHANGED <<lockPath, flock, fd, seen, stale, removed>>

\* Refused: read_pid_from_lock opens the path anew.
ReadPid(p) ==
  /\ pc[p] = "blocked"
  /\ seen' = [seen EXCEPT ![p] = IF lockPath = NoInode THEN NoProc
                                                       ELSE body[lockPath]]
  /\ pc' = [pc EXCEPT ![p] = "probing"]
  /\ UNCHANGED <<lockPath, body, flock, fd, stale, removed>>

\* Refused: pid_is_alive decides the stale flag; the process reports and ends.
Probe(p) ==
  /\ pc[p] = "probing"
  /\ stale' = [stale EXCEPT ![p] = seen[p] = NoProc \/ ~Alive(seen[p])]
  /\ pc' = [pc EXCEPT ![p] = "refused"]
  /\ fd' = [fd EXCEPT ![p] = NoInode]
  /\ seen' = [seen EXCEPT ![p] = NoProc]
  /\ UNCHANGED <<lockPath, body, flock, removed>>

\* What the kernel does when a process ends: its flock and descriptor go.
Ends(p) ==
  /\ flock' = [i \in Inodes |-> IF flock[i] = p THEN NoProc ELSE flock[i]]
  /\ fd' = [fd EXCEPT ![p] = NoInode]
  /\ pc' = [pc EXCEPT ![p] = "dead"]
  /\ seen' = [seen EXCEPT ![p] = NoProc]
  /\ UNCHANGED <<lockPath, body, stale, removed>>

\* Drop of ApplyLock at the end of apply: unlock, no truncation, no unlink.
Release(p) == pc[p] = "applying" /\ Ends(p)

\* kill -9, a panic, or an error return between open and the PID write.
Crash(p) == Alive(p) /\ Ends(p)

\* The operator does what the stale refusal says: rm apply.lock.
RemoveStale(p) ==
  /\ pc[p] = "refused" /\ stale[p]
  /\ lockPath' = NoInode
  /\ removed' = TRUE
  /\ pc' = [pc EXCEPT ![p] = "dead"]
  /\ UNCHANGED <<body, flock, fd, seen, stale>>

\* The steps ghars itself takes once started.
Step(p) ==
  \/ Open(p) \/ TryLock(p) \/ Truncate(p) \/ WritePid(p)
  \/ ReadPid(p) \/ Probe(p) \/ Release(p)

Next == \E p \in Procs : Start(p) \/ DryRun(p) \/ Step(p) \/ Crash(p) \/ RemoveStale(p)

Spec == Init /\ [][Next]_vars

(***************************************************************************)
(* A started process is scheduled: the calls of acquire_lock do not block. *)
(* Nothing makes an operator start an apply or a process crash.            *)
(***************************************************************************)
FairSpec == Spec /\ \A p \in Procs : WF_vars(Step(p) \/ DryRun(p))

-----------------------------------------------------------------------------
TypeOK ==
  /\ lockPath \in Inodes \cup {NoInode}
  /\ body \in [Inodes -> Procs \cup {NoProc}]
  /\ flock \in [Inodes -> Procs \cup {NoProc}]
  /\ fd \in [Procs -> Inodes \cup {NoInode}]
  /\ pc \in [Procs -> Locations]
  /\ seen \in [Procs -> Procs \cup {NoProc}]
  /\ stale \in [Procs -> BOOLEAN]
  /\ removed \in BOOLEAN

(***************************************************************************)
(* Two applies never run their actions at the same time.  This is what     *)
(* docs/src/operations.md promises operators who remove stale lock files:  *)
(* the stale flag of a refusal is "the green light for safe manual         *)
(* removal".                                                               *)
(***************************************************************************)
MutualExclusion ==
  \A p, q \in Procs : pc[p] = "applying" /\ pc[q] = "applying" => p = q

(***************************************************************************)
(* What acquire_lock gives by itself: exclusion for as long as nobody has  *)
(* removed the lock file.                                                  *)
(***************************************************************************)
ExclusiveUntilRemoved == ~removed => MutualExclusion

(***************************************************************************)
(* The kernel's lock table matches the processes: a flock is owned by a    *)
(* living process that has that inode open and has passed try_lock, so a   *)
(* killed holder never blocks the next apply and no flock leaks.           *)
(***************************************************************************)
LockOwnedByHolder ==
  \A i \in Inodes : flock[i] # NoProc => Holding(flock[i]) /\ fd[flock[i]] = i

(***************************************************************************)
(* While an apply runs and nobody has removed the lock file, the PID in    *)
(* the file at the lock path is its own: a process refused during that     *)
(* time reports the right PID.                                             *)
(***************************************************************************)
HolderIsRecorded ==
  ~removed =>
    \A p \in Procs : pc[p] = "applying" => lockPath = fd[p] /\ body[lockPath] = p

(***************************************************************************)
(* acquire_lock never waits: a process that has opened the lock file gets  *)
(* its turn at the actions, is refused with a verdict, or dies.            *)
(***************************************************************************)
AcquireDecides ==
  \A p \in Procs : pc[p] = "opened" ~> pc[p] \in {"applying", "refused", "dead"}

==============================================================================
