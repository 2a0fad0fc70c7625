------------------------------ MODULE Publish -------------------------------
(***************************************************************************)
(* How an apply puts files on the host (src/apply/writes.rs), what a       *)
(* process that dies half-way leaves behind, and how a later apply sweeps  *)
(* it up (src/apply/gc.rs).                                                *)
(*                                                                         *)
(* An apply runs under apply.lock, so one writer is alive at a time.  It   *)
(* writes through a temporary file .NAME.tmp.PID.COUNTER: created with     *)
(* O_EXCL, filled, flushed to the disk, renamed over NAME, and then the    *)
(* directory is flushed.  A file is an inode here: its contents and        *)
(* whether they have reached the disk; `entry' is the inode a path names   *)
(* now, `durable' the inode it names after a power failure.                *)
(*                                                                         *)
(* The directory of NAME is made first if it is missing.  Nobody flushes   *)
(* the directory above it, so a power failure may take a directory that    *)
(* is still "new" away, with every file in it.                             *)
(***************************************************************************)
EXTENDS Naturals, Sequences, FiniteSets

CONSTANTS
  Files,         \* paths that are written through write_root_owned
  Scanned,       \* those in a directory that gc_stale_temp_files lists
  Dirs, DirOf,   \* their directories, and file -> directory
  Contents,      \* what may be written to them
  Torn,          \* a part of some contents
  Absent,        \* there is no such file
  Pids,          \* process ids an apply may get
  NoPid,         \* no apply is running
  MaxWrites,     \* bound: files one apply writes forward
  MaxPowerLoss   \* bound: power failures in a behaviour

ASSUME PublishConstants ==
  /\ Scanned \subseteq Files /\ DirOf \in [Files -> Dirs]
  /\ Torn \notin Contents /\ Absent \notin Contents /\ Torn # Absent
  /\ NoPid \notin Pids
  /\ MaxWrites \in Nat /\ MaxPowerLoss \in Nat

VARIABLES
  pid,      \* the apply that runs, or NoPid
  pc,       \* where it is
  job,      \* the write_root_owned call it is in
  counter,  \* TEMPFILE_COUNTER of the process
  temps,    \* the temporary files on the host
  entry,    \* file -> inode the path names
  durable,  \* file -> inode the path names after a power failure
  dirs,     \* directory -> "absent", "new" (its own entry was not flushed) or "old"
  log,      \* the WriteFile steps of the undo log of the running action
  powerLoss,
  before,   \* ghost: `entry' when the running action began
  acked,    \* ghost: file -> contents of its last write, if that returned Ok
  unread,   \* ghost: files of the running action that read_prior could not read
  excused,  \* ghost: files that a failing step left as they were
  vanished  \* ghost: files a power failure took away with their new directory

vars == <<pid, pc, job, counter, temps, entry, durable, dirs, log, powerLoss,
          before, acked, unread, excused, vanished>>

Ghosts == <<before, acked, unread, excused, vanished>>

Inodes == [data : Contents \cup {Torn}, synced : BOOLEAN]
Gone   == [data |-> Absent, synced |-> TRUE]
Ages   == {"future", "fresh", "stale"}   \* mtime against the 60 s gate

Blank == [data |-> Torn, synced |-> FALSE]    \* just created, or partly written

\* inode: what the temporary file of the call holds so far.
Job(f, c, p, u) == [file |-> f, data |-> c, prior |-> p, undoing |-> u, inode |-> Blank]
NoJob == Job(Absent, Absent, Absent, FALSE)

Steps == {"write", "sync", "own", "rename", "fsync"}   \* inside write_root_owned

\* The temporary file of the call that is running.
MyTemp(t) == t.file = job.file /\ t.pid = pid /\ t.count = counter

\* What is on the host's disks.
Host == <<temps, entry, durable, dirs, powerLoss>>

-----------------------------------------------------------------------------
(* Mutated forms of the definitions below: plausible slips in the code.    *)

\* Writes the body that belongs to another file.
WriteOtherBody ==
  /\ pc = "write"
  /\ \E c \in Contents \ {job.data} : job' = [job EXCEPT !.inode.data = c]
  /\ pc' = "sync"
  /\ UNCHANGED <<pid, counter, Host, log, Ghosts>>

\* Returns Ok without flushing the directory.
PublishedUnflushed ==
  /\ pc = "fsync"
  /\ log' = IF job.undoing THEN log
            ELSE Append(log, [file |-> job.file, prior |-> job.prior])
  /\ acked' = [acked EXCEPT ![job.file] = job.data]
  /\ pc' = IF job.undoing THEN "undo" ELSE "ready"
  /\ job' = NoJob
  /\ counter' = counter + 1 /\ vanished' = vanished \ {job.file}
  /\ UNCHANGED <<pid, Host, before, unread, excused>>

\* Keeps a file as long as its PID is in use, and process ids come back.
CollectableOfDead(p) ==
  {t \in temps : t.file \in Scanned /\ t.pid \notin Pids /\ t.age = "stale"}

\* Undo leaves a file alone whose earlier contents it does not have.
UndoKeepsUnknown ==
  /\ pc = "undo" /\ log # <<>>
  /\ log' = SubSeq(log, 1, Len(log) - 1)
  /\ LET step == log[Len(log)]
     IN IF step.prior = Absent
          THEN UNCHANGED <<pc, job>>
          ELSE job' = Job(step.file, step.prior, Absent, TRUE) /\ pc' = "parent"
  /\ UNCHANGED <<pid, counter, Host, Ghosts>>

-----------------------------------------------------------------------------
(***************************************************************************)
(* Temporary files that gc_stale_temp_files removes when p applies: listed *)
(* directories only, never the own PID, nothing young or from the future.  *)
(***************************************************************************)
Collectable(p) ==
  {t \in temps : t.file \in Scanned /\ t.pid # p /\ t.age = "stale"}

Init ==
  /\ pid = NoPid /\ pc = "idle" /\ job = NoJob /\ counter = 0
  /\ temps = {} /\ log = <<>> /\ powerLoss = 0
  /\ excused = {} /\ unread = {} /\ vanished = {}
  /\ dirs \in [Dirs -> {"absent", "old"}]
  /\ entry \in [Files -> {Gone} \cup [data : Contents, synced : {TRUE}]]
  /\ \A f \in Files : dirs[DirOf[f]] = "absent" => entry[f] = Gone
  /\ durable = entry /\ before = entry
  /\ acked = [f \in Files |-> Absent]

\* Takes the lock and sweeps; a removal that fails is logged and passed over.
Sweep(p) ==
  /\ pc = "idle"
  /\ pid' = p /\ pc' = "ready"
  /\ \E failed \in SUBSET Collectable(p) : temps' = temps \ (Collectable(p) \ failed)
  /\ UNCHANGED <<job, counter, entry, durable, dirs, log, powerLoss, Ghosts>>

\* read_prior: a read that fails for any other reason also counts as "no file".
ReadPrior(f) == {entry[f].data, Absent}

\* The call goes on to write_root_owned with what was read before.
Begins(f, c, prior) ==
  /\ job' = Job(f, c, prior, FALSE)
  /\ unread' = IF prior # entry[f].data THEN unread \cup {f} ELSE unread
  /\ acked' = [acked EXCEPT ![f] = Absent]
  /\ pc' = "parent"
  /\ UNCHANGED <<pid, counter, Host, log, before, excused, vanished>>

WriteRecordUndo(f, c) ==
  /\ pc = "ready" /\ counter < MaxWrites
  /\ \E prior \in ReadPrior(f) : Begins(f, c, prior)

\* The write is left out when the file was read and has these contents.
ReadThenWriteIfChanged(f, c) ==
  /\ pc = "ready" /\ counter < MaxWrites
  /\ \E prior \in ReadPrior(f) \ {c} : Begins(f, c, prior)

\* create_dir_all of the directory; the one above it is not flushed.
MakeParent ==
  /\ pc = "parent"
  /\ dirs' = IF dirs[DirOf[job.file]] = "absent"
             THEN [dirs EXCEPT ![DirOf[job.file]] = "new"] ELSE dirs
  /\ pc' = "open"
  /\ UNCHANGED <<pid, job, counter, temps, entry, durable, log, powerLoss, Ghosts>>

\* create_new of the temporary file; the guard is armed once it exists.
OpenTemp ==
  /\ pc = "open"
  /\ ~\E t \in temps : MyTemp(t)
  /\ temps' = temps \cup {[file |-> job.file, pid |-> pid, count |-> counter,
                           age |-> "fresh"]}
  /\ pc' = "write"
  /\ UNCHANGED <<pid, job, counter, entry, durable, dirs, log, powerLoss, Ghosts>>

WriteAll ==
  /\ pc = "write"
  /\ job' = [job EXCEPT !.inode.data = job.data]
  /\ pc' = "sync"
  /\ UNCHANGED <<pid, counter, Host, log, Ghosts>>

SyncAll ==
  /\ pc = "sync"
  /\ job' = [job EXCEPT !.inode.synced = TRUE]
  /\ pc' = "own"
  /\ UNCHANGED <<pid, counter, Host, log, Ghosts>>

\* fchown to root, then fchmod 0644.
Own ==
  /\ pc = "own"
  /\ pc' = "rename"
  /\ UNCHANGED <<pid, job, counter, Host, log, Ghosts>>

\* rename(2): the path names the inode of the temporary file, whose name is gone.
Rename ==
  /\ pc = "rename"
  /\ temps' = {t \in temps : ~MyTemp(t)}
  /\ entry' = [entry EXCEPT ![job.file] = job.inode]
  /\ pc' = "fsync"
  /\ UNCHANGED <<pid, job, counter, durable, dirs, log, powerLoss, Ghosts>>

\* fsync of the file's directory, not of the one above it; the caller records
\* the step, undo goes on.
Published ==
  /\ pc = "fsync"
  /\ durable' = [durable EXCEPT ![job.file] = entry[job.file]]
  /\ log' = IF job.undoing THEN log
            ELSE Append(log, [file |-> job.file, prior |-> job.prior])
  /\ acked' = [acked EXCEPT ![job.file] = job.data]
  /\ pc' = IF job.undoing THEN "undo" ELSE "ready"
  /\ job' = NoJob
  /\ counter' = counter + 1 /\ vanished' = vanished \ {job.file}
  /\ UNCHANGED <<pid, temps, entry, dirs, powerLoss, before, unread, excused>>

\* The process is gone, and with it its undo log; a new action starts afresh.
Ends ==
  /\ pid' = NoPid /\ pc' = "idle" /\ job' = NoJob /\ counter' = 0 /\ log' = <<>>
  /\ before' = entry' /\ unread' = {} /\ excused' = {}

(***************************************************************************)
(* A step of write_root_owned fails.  The guard removes the temporary      *)
(* file, except where the name was already taken; after the rename there   *)
(* is none, and the file stays published though the call returns Err.      *)
(* Forward, the action fails and is rolled back if the operator asked for  *)
(* it; in undo, the next step is taken.  A create_dir_all that fails takes *)
(* no number of the code's counter; it is counted here, where the counter  *)
(* also bounds the calls of an apply.                                      *)
(***************************************************************************)
Fails ==
  /\ pc \in Steps \cup {"parent", "open"}
  /\ temps' = IF pc \in {"parent", "open"} THEN temps ELSE {t \in temps : ~MyTemp(t)}
  /\ UNCHANGED <<entry, durable, dirs, powerLoss, acked, vanished>>
  /\ \/ /\ excused' = IF pc = "fsync" \/ job.undoing
                      THEN excused \cup {job.file} ELSE excused
        /\ counter' = counter + 1 /\ job' = NoJob /\ pc' = "undo"
        /\ UNCHANGED <<pid, log, before, unread>>
     \/ ~job.undoing /\ Ends

\* Another step of the action fails, and the operator asked for rollback.
ActionFails ==
  /\ pc = "ready" /\ log # <<>>
  /\ pc' = "undo"
  /\ UNCHANGED <<pid, job, counter, Host, log, Ghosts>>

\* undo_one of a WriteFile step: rewrite the earlier contents, or unlink.
UndoWrite ==
  /\ pc = "undo" /\ log # <<>>
  /\ log' = SubSeq(log, 1, Len(log) - 1)
  /\ LET step == log[Len(log)]
     IN IF step.prior = Absent
          THEN /\ \/ entry' = [entry EXCEPT ![step.file] = Gone] /\ UNCHANGED excused
                  \/ UNCHANGED entry /\ excused' = excused \cup {step.file}
               /\ acked' = [acked EXCEPT ![step.file] = Absent]
               /\ UNCHANGED <<pc, job>>
          ELSE /\ job' = Job(step.file, step.prior, Absent, TRUE)
               /\ pc' = "parent"
               /\ acked' = [acked EXCEPT ![step.file] = Absent]
               /\ UNCHANGED <<entry, excused>>
  /\ UNCHANGED <<pid, counter, temps, durable, dirs, powerLoss, before, unread, vanished>>

\* The action is over; the apply goes on with the next action, or ends.
EndAction ==
  /\ pc = "ready" \/ (pc = "undo" /\ log = <<>>)
  /\ UNCHANGED <<Host, acked, vanished>>
  /\ \/ Ends
     \/ /\ pc' = "ready" /\ log' = <<>> /\ before' = entry
        /\ unread' = {} /\ excused' = {}
        /\ UNCHANGED <<pid, job, counter>>

\* The process is killed; the kernel keeps what it did.
Crash ==
  /\ pc # "idle"
  /\ UNCHANGED <<Host, acked, vanished>>
  /\ Ends

\* What is on the disk of an inode after a power failure.
Surviving(i) == IF i.synced THEN {i} ELSE {[i EXCEPT !.synced = TRUE, !.data = d] :
                                             d \in {i.data, Torn}}

(***************************************************************************)
(* A power failure: a new directory is there or is gone with all its       *)
(* files; any other path names its old or its new inode, an inode that     *)
(* was not flushed may have lost its contents, a temporary file may be     *)
(* gone, and the clock may come back behind the files' mtimes.             *)
(***************************************************************************)
PowerFails ==
  /\ powerLoss < MaxPowerLoss
  /\ powerLoss' = powerLoss + 1
  /\ \E lost \in SUBSET {d \in Dirs : dirs[d] = "new"} :
       /\ dirs' = [d \in Dirs |-> IF d \in lost \/ dirs[d] = "absent" THEN "absent" ELSE "old"]
       /\ entry' \in {e \in [Files -> Inodes \cup {Gone}] :
                        \A f \in Files : e[f] \in IF DirOf[f] \in lost THEN {Gone}
                                                 ELSE Surviving(entry[f]) \cup Surviving(durable[f])}
       /\ durable' = entry'
       /\ vanished' = vanished \cup {f \in Files : DirOf[f] \in lost}
       /\ \E kept \in SUBSET {t \in temps : DirOf[t.file] \notin lost}, a \in {"future", "fresh"} :
            temps' = {[t EXCEPT !.age = a] : t \in kept}
  /\ UNCHANGED acked
  /\ Ends

\* Time passes: a temporary file grows older, the clock catches up with it.
Ages1(t) == [t EXCEPT !.age = IF t.age = "future" THEN "fresh" ELSE "stale"]

Tick ==
  /\ \E t \in temps : t.age # "stale"
  /\ temps' = {Ages1(t) : t \in temps}
  /\ UNCHANGED <<pid, pc, job, counter, entry, durable, dirs, log, powerLoss, Ghosts>>

WriterStep == MakeParent \/ OpenTemp \/ WriteAll \/ SyncAll \/ Own \/ Rename \/ Published
              \/ Fails \/ ActionFails \/ UndoWrite \/ EndAction

Next ==
  \/ \E p \in Pids : Sweep(p)
  \/ \E f \in Files, c \in Contents : WriteRecordUndo(f, c) \/ ReadThenWriteIfChanged(f, c)
  \/ WriterStep
  \/ Crash \/ PowerFails \/ Tick

Spec == Init /\ [][Next]_vars

(***************************************************************************)
(* A running apply does not stop by itself, time passes, and an operator   *)
(* keeps applying with one process id after the other; now and then every  *)
(* removal of a sweep succeeds.                                            *)
(***************************************************************************)
CleanSweep(p) == Sweep(p) /\ temps' = temps \ Collectable(p)

Fairness ==
  /\ WF_vars(WriterStep)
  /\ WF_vars(Tick)
  /\ \A p \in Pids : SF_vars(CleanSweep(p))

FairSpec == Spec /\ Fairness

-----------------------------------------------------------------------------
(* Properties.                                                             *)

(***************************************************************************)
(* A write that returned Ok is still there after a power failure, until    *)
(* the file is written or undone again.  The exception is a file whose     *)
(* directory an apply had created since: write_root_owned flushes that     *)
(* directory and not the one above it, and the whole of it may be gone,    *)
(* although its comment says that recovery sees the new entry.             *)
(***************************************************************************)
AckedIsDurable ==
  \A f \in Files : acked[f] # Absent =>
     /\ entry[f] = durable[f]
     /\ durable[f].data = acked[f] \/ (f \in vanished /\ durable[f] = Gone)

(***************************************************************************)
(* When the undo log has been walked every file has its earlier contents.  *)
(* The exceptions are the ones the code can name: the write that failed    *)
(* after its rename, an undo step that failed, and a file that could not   *)
(* be read first, which undo removes.                                      *)
(***************************************************************************)
RollbackRestores ==
  (pc = "undo" /\ log = <<>>) =>
     \A f \in Files : \/ entry[f].data = before[f].data
                      \/ f \in unread /\ entry[f] = Gone
                      \/ f \in excused

(***************************************************************************)
(* What a file reads as changes only by whole replacements that a writer   *)
(* was asked for, or by a removal, and only what is not durable yet, or    *)
(* lies in a directory that is not, is taken back: write_root_owned keeps  *)
(* the contract of AtomicFile.                                             *)
(***************************************************************************)
Fallback(f) == {durable[f].data} \cup (IF dirs[DirOf[f]] = "new" THEN {Absent} ELSE {})
Data(i) == [f \in Files |-> i[f].data]
Contract == INSTANCE AtomicFile
  WITH visible <- Data(entry), stable <- [f \in Files |-> Fallback(f)],
       asked <- IF pc \in {"idle", "ready", "undo"} THEN {} ELSE {<<job.file, job.data>>}
ImplementsAtomicFile == Contract!Spec

(***************************************************************************)
(* A temporary file a crashed apply left in a listed directory does not    *)
(* stay for ever, even if later applies reuse its process id.              *)
(***************************************************************************)
LeftoversCollected ==
  \A f \in Scanned, p \in Pids, n \in 0 .. 2 * MaxWrites :
    LET Left == \E t \in temps : t.file = f /\ t.pid = p /\ t.count = n
    IN Left ~> ~Left
=============================================================================
