--------------------------- MODULE ApplyLockProofs ---------------------------
(***************************************************************************)
(* Proofs about ApplyLock for any number of processes and inodes.          *)
(***************************************************************************)
EXTENDS ApplyLock, TLAPS

(***************************************************************************)
(* The lock table matches the processes in both directions: a held flock   *)
(* belongs to a process at a holding location that has the inode open, and *)
(* a process at a holding location owns the flock of the inode it has      *)
(* open.  Exactly the locations from open to the verdict have a            *)
(* descriptor.                                                             *)
(***************************************************************************)
HasDescriptor(p) == Holding(p) \/ pc[p] \in {"opened", "blocked", "probing"}

LockInv ==
  /\ TypeOK
  /\ LockOwnedByHolder
  /\ \A p \in Procs : HasDescriptor(p) => fd[p] \in Inodes
  /\ \A p \in Procs : Holding(p) => flock[fd[p]] = p

(***************************************************************************)
(* Until an operator removes the lock file, every descriptor is open on    *)
(* the inode at the lock path, and the PID in it is the holder's.          *)
(***************************************************************************)
PathInv ==
  ~removed =>
    /\ \A p \in Procs : HasDescriptor(p) => fd[p] = lockPath
    /\ \A p \in Procs : pc[p] = "applying" => body[fd[p]] = p

USE LockConstants

(***************************************************************************)
(* LockInv is inductive whether or not operators remove the lock file.     *)
(***************************************************************************)
LEMMA LockInvInit == Init => LockInv
BY DEF Init, LockInv, TypeOK, LockOwnedByHolder, Holding, HasDescriptor, Locations

\* Every step keeps the lock table and the descriptors consistent.
LEMMA LockInvStep == LockInv /\ [Next]_vars => LockInv'
<1> SUFFICES ASSUME LockInv, [Next]_vars PROVE LockInv'
  OBVIOUS
<1> USE DEF LockInv, TypeOK, LockOwnedByHolder, Holding, HasDescriptor, Locations
<1>1. ASSUME NEW p \in Procs, Start(p) PROVE LockInv'
  BY <1>1 DEF Start, Alive
<1>2. ASSUME NEW p \in Procs, DryRun(p) PROVE LockInv'
  BY <1>2 DEF DryRun
<1>3. ASSUME NEW p \in Procs, Open(p) PROVE LockInv'
  BY <1>3 DEF Open, FreeInodes
<1>4. ASSUME NEW p \in Procs, TryLock(p) PROVE LockInv'
  BY <1>4 DEF TryLock
<1>5. ASSUME NEW p \in Procs, Truncate(p) PROVE LockInv'
  BY <1>5 DEF Truncate
<1>6. ASSUME NEW p \in Procs, WritePid(p) PROVE LockInv'
  BY <1>6 DEF WritePid
<1>7. ASSUME NEW p \in Procs, ReadPid(p) PROVE LockInv'
  BY <1>7 DEF ReadPid
<1>8. ASSUME NEW p \in Procs, Probe(p) PROVE LockInv'
  BY <1>8 DEF Probe, Alive
<1>9. ASSUME NEW p \in Procs, Ends(p) PROVE LockInv'
  BY <1>9 DEF Ends
<1>10. ASSUME NEW p \in Procs, RemoveStale(p) PROVE LockInv'
  BY <1>10 DEF RemoveStale
<1>11. CASE UNCHANGED vars
  BY <1>11 DEF vars
<1>12. QED
  BY <1>1, <1>2, <1>3, <1>4, <1>5, <1>6, <1>7, <1>8, <1>9, <1>10, <1>11
     DEF Next, Step, Release, Crash

(***************************************************************************)
(* The kernel's lock table never leaks: whatever crashes and removals      *)
(* happen, a flock is owned by a living holder (drop of ApplyLock, close   *)
(* on process exit).                                                       *)
(***************************************************************************)
THEOREM LockTableSound == Spec => [](TypeOK /\ LockOwnedByHolder)
<1>1. LockInv => TypeOK /\ LockOwnedByHolder
  BY DEF LockInv
<1>2. QED
  BY <1>1, LockInvInit, LockInvStep, PTL DEF Spec

\* PathInv holds at the start.
LEMMA PathInvInit == Init => PathInv
BY DEF Init, PathInv, Holding, HasDescriptor

(***************************************************************************)
(* PathInv is inductive relative to LockInv: a removal ends its premise,   *)
(* every other step keeps the file the one all descriptors name.           *)
(***************************************************************************)
LEMMA PathInvStep == LockInv /\ PathInv /\ [Next]_vars => PathInv'
<1> SUFFICES ASSUME LockInv, PathInv, [Next]_vars PROVE PathInv'
  OBVIOUS
<1>0. LockInv'
  BY LockInvStep
<1> USE <1>0 DEF PathInv, LockInv, TypeOK, Holding, HasDescriptor, Locations
<1>1. ASSUME NEW p \in Procs, Start(p) PROVE PathInv'
  BY <1>1 DEF Start, Alive
<1>2. ASSUME NEW p \in Procs, DryRun(p) PROVE PathInv'
  BY <1>2 DEF DryRun
<1>3. ASSUME NEW p \in Procs, Open(p) PROVE PathInv'
  BY <1>3 DEF Open, FreeInodes
<1>4. ASSUME NEW p \in Procs, TryLock(p) PROVE PathInv'
  BY <1>4 DEF TryLock
<1>5. ASSUME NEW p \in Procs, Truncate(p) PROVE PathInv'
  BY <1>5 DEF Truncate
<1>6. ASSUME NEW p \in Procs, WritePid(p) PROVE PathInv'
  BY <1>6 DEF WritePid
<1>7. ASSUME NEW p \in Procs, ReadPid(p) PROVE PathInv'
  BY <1>7 DEF ReadPid
<1>8. ASSUME NEW p \in Procs, Probe(p) PROVE PathInv'
  BY <1>8 DEF Probe, Alive
<1>9. ASSUME NEW p \in Procs, Ends(p) PROVE PathInv'
  BY <1>9 DEF Ends
<1>10. ASSUME NEW p \in Procs, RemoveStale(p) PROVE PathInv'
  BY <1>10 DEF RemoveStale
<1>11. CASE UNCHANGED vars
  BY <1>11 DEF vars
<1>12. QED
  BY <1>1, <1>2, <1>3, <1>4, <1>5, <1>6, <1>7, <1>8, <1>9, <1>10, <1>11
     DEF Next, Step, Release, Crash

(***************************************************************************)
(* acquire_lock gives mutual exclusion for any number of processes for as  *)
(* long as nobody unlinks apply.lock.                                      *)
(***************************************************************************)
THEOREM LockExcludes == Spec => []ExclusiveUntilRemoved
<1>1. LockInv /\ PathInv => ExclusiveUntilRemoved
  BY DEF PathInv, LockInv, ExclusiveUntilRemoved, MutualExclusion, Holding, HasDescriptor
<1>2. QED
  BY <1>1, LockInvInit, LockInvStep, PathInvInit, PathInvStep, PTL DEF Spec

(***************************************************************************)
(* For as long, the PID a contender reads while an apply runs is that      *)
(* apply's.                                                                *)
(***************************************************************************)
THEOREM HolderRecorded == Spec => []HolderIsRecorded
<1>1. PathInv => HolderIsRecorded
  BY DEF PathInv, HolderIsRecorded, Holding, HasDescriptor
<1>2. QED
  BY <1>1, LockInvInit, LockInvStep, PathInvInit, PathInvStep, PTL DEF Spec
==============================================================================
