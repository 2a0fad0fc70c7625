---------------------------- MODULE PublishProofs ----------------------------
(***************************************************************************)
(* Proofs about Publish for every set of files, contents and process ids   *)
(* and every bound on writes and power failures.                           *)
(***************************************************************************)
EXTENDS Publish, SequenceTheorems, TLAPS

USE PublishConstants

\* A sequence without its last element
LEMMA WithoutLast ==
  ASSUME NEW S, NEW s \in Seq(S), s # <<>>, NEW n, n = Len(s), NEW f, f = SubSeq(s, 1, n - 1)
  PROVE  /\ n \in Nat \ {0} /\ s[n] \in S
         /\ f \in Seq(S) /\ Len(f) = n - 1
         /\ \A i \in 1..(n - 1) : f[i] = s[i]
<1>1. n \in Nat \ {0}
  BY EmptySeq, LenProperties
<1>2. \A i \in 1..n : s[i] \in S
  BY ElementOfSeq
<1>3. /\ f \in Seq(S) /\ Len(f) = IF 1 <= n - 1 THEN (n - 1) - 1 + 1 ELSE 0
      /\ \A i \in 1..((n - 1) - 1 + 1) : f[i] = s[1 + i - 1]
  BY <1>1, <1>2, SubSeqProperties
<1>4. ASSUME NEW i \in 1..(n - 1) PROVE f[i] = s[i]
  <2>1. i \in 1..((n - 1) - 1 + 1) /\ 1 + i - 1 = i
    BY <1>1
  <2>2. QED
    BY <1>3, <2>1
<1>5. Len(f) = n - 1
  BY <1>1, <1>3
<1>6. QED
  BY <1>1, <1>2, <1>3, <1>4, <1>5

(***************************************************************************)
(* The inductive invariant.  A path names a whole and flushed inode or     *)
(* none, now and after a power failure; this rests on what is known of the *)
(* temporary file at each step of write_root_owned, and on the directory   *)
(* being there from create_dir_all to the end.  The file being             *)
(* written has no acknowledged contents, so nothing is promised about it   *)
(* between the rename and the flush of the directory.                      *)
(***************************************************************************)
Flushed == [data : Contents, synced : {TRUE}]
Whole == {Gone} \cup Flushed
InCall == pc \in Steps \cup {"parent", "open"}
Priors == Contents \cup {Absent}
UndoWrites == [file : Files, prior : Priors]
Jobs == [file : Files, data : Contents, prior : Priors, undoing : BOOLEAN, inode : Inodes]

FilesOK ==
  /\ entry \in [Files -> Whole] /\ durable \in [Files -> Whole]
  /\ dirs \in [Dirs -> {"absent", "new", "old"}]
  /\ \A f \in Files : dirs[DirOf[f]] = "absent" => entry[f] = Gone /\ durable[f] = Gone
LogOK   == log \in Seq(UndoWrites)
PcOK    == pc \in Steps \cup {"parent", "open", "idle", "ready", "undo"}
CallOK  ==
  InCall =>
    /\ job \in Jobs
    /\ pc # "parent" => dirs[DirOf[job.file]] # "absent"
    /\ pc \in {"sync", "own", "rename"} => job.inode.data = job.data
    /\ pc \in {"own", "rename"} => job.inode.synced = TRUE
    /\ pc = "fsync" => entry[job.file].data = job.data
AckOK   ==
  /\ acked \in [Files -> Priors] /\ AckedIsDurable
  /\ InCall => acked[job.file] = Absent

PublishInv == FilesOK /\ LogOK /\ PcOK /\ CallOK /\ AckOK

\* The host starts with whole files, and nothing has been acknowledged.
LEMMA PublishInvInit == Init => PublishInv
<1> SUFFICES ASSUME Init PROVE PublishInv
  OBVIOUS
<1>1. LogOK
  BY EmptySeq DEF Init, LogOK
<1>2. FilesOK
  BY DEF Init, FilesOK, Whole, Flushed
<1>3. PcOK /\ CallOK /\ AckOK
  BY DEF Init, PcOK, CallOK, AckOK, InCall, Steps, Priors, AckedIsDurable
<1>4. QED
  BY <1>1, <1>2, <1>3 DEF PublishInv

\* The step that undo takes is a write of the action, and the rest stays a log.
LEMMA PopTyped ==
  ASSUME LogOK, log # <<>>
  PROVE  /\ log[Len(log)] \in UndoWrites
         /\ SubSeq(log, 1, Len(log) - 1) \in Seq(UndoWrites)
<1>1. Len(log) \in Nat \ {0}
  BY EmptySeq, LenProperties DEF LogOK
<1>2. log[Len(log)] \in UndoWrites
  BY <1>1, ElementOfSeq DEF LogOK
<1>3. QED
  BY <1>1, <1>2, SubSeqProperties DEF LogOK

\* A whole inode survives a power failure as it is: it has been flushed.
LEMMA WholeSurvives == \A i \in Whole : Surviving(i) = {i}
<1> SUFFICES ASSUME NEW i \in Whole PROVE Surviving(i) = {i}
  OBVIOUS
<1>1. i.synced = TRUE
  <2>1. CASE i = Gone
    BY <2>1 DEF Gone
  <2>2. CASE i \in Flushed
    BY <2>2, Zenon DEF Flushed
  <2>3. QED
    BY <2>1, <2>2 DEF Whole
<1>2. i.synced
  BY <1>1, Zenon
<1>3. QED
  BY <1>2, Zenon DEF Surviving

\* After a power failure each path names what it named or what was durable, or
\* its directory was new and is gone.
LEMMA PowerKeeps ==
  ASSUME FilesOK, PowerFails
  PROVE  /\ entry' \in [Files -> Whole] /\ durable' = entry'
         /\ dirs' \in [Dirs -> {"absent", "new", "old"}]
         /\ \A f \in Files :
              \/ /\ dirs[DirOf[f]] = "new" /\ dirs'[DirOf[f]] = "absent"
                 /\ entry'[f] = Gone /\ f \in vanished'
              \/ /\ entry'[f] \in {entry[f], durable[f]}
                 /\ dirs'[DirOf[f]] # "new"
                 /\ dirs'[DirOf[f]] = "absent" <=> dirs[DirOf[f]] = "absent"
         /\ vanished \subseteq vanished'
<1>1. PICK lost \in SUBSET {d \in Dirs : dirs[d] = "new"} :
        /\ dirs' = [d \in Dirs |-> IF d \in lost \/ dirs[d] = "absent" THEN "absent" ELSE "old"]
        /\ entry' \in {e \in [Files -> Inodes \cup {Gone}] :
                         \A f \in Files : e[f] \in IF DirOf[f] \in lost THEN {Gone}
                                                  ELSE Surviving(entry[f]) \cup Surviving(durable[f])}
        /\ durable' = entry'
        /\ vanished' = vanished \cup {f \in Files : DirOf[f] \in lost}
  BY Zenon DEF PowerFails
<1>2. entry' \in [Files -> Inodes \cup {Gone}]
      /\ \A f \in Files : entry'[f] \in IF DirOf[f] \in lost THEN {Gone}
                                       ELSE Surviving(entry[f]) \cup Surviving(durable[f])
  BY <1>1, Zenon
<1>3. ASSUME NEW f \in Files, DirOf[f] \notin lost PROVE entry'[f] \in {entry[f], durable[f]}
  <2>1. entry[f] \in Whole /\ durable[f] \in Whole
    BY DEF FilesOK
  <2>2. Surviving(entry[f]) = {entry[f]} /\ Surviving(durable[f]) = {durable[f]}
    BY <2>1, WholeSurvives
  <2>3. QED
    BY <1>2, <1>3, <2>2
<1>4. \A f \in Files : DirOf[f] \in lost => entry'[f] = Gone
  BY <1>2
<1>5. entry' \in [Files -> Whole]
  BY <1>2, <1>3, <1>4 DEF FilesOK, Whole
<1>6. \A f \in Files : DirOf[f] \in Dirs
  OBVIOUS
<1>7. \A d \in Dirs : dirs'[d] = IF d \in lost \/ dirs[d] = "absent" THEN "absent" ELSE "old"
  BY <1>1
<1>8. QED
  BY <1>1, <1>3, <1>4, <1>5, <1>6, <1>7 DEF FilesOK

\* A path reads as whole contents or as nothing.
LEMMA WholeReads == \A i \in Whole : i.data \in Priors
<1> SUFFICES ASSUME NEW i \in Whole PROVE i.data \in Priors
  OBVIOUS
<1>1. CASE i = Gone
  BY <1>1 DEF Gone, Priors
<1>2. CASE i \in Flushed
  BY <1>2 DEF Flushed, Priors
<1>3. QED
  BY <1>1, <1>2 DEF Whole

\* What read_prior may return can be written back by undo.
LEMMA PriorTyped ==
  ASSUME FilesOK, NEW f \in Files
  PROVE  ReadPrior(f) \subseteq Priors
<1>1. entry[f] \in Whole
  BY DEF FilesOK
<1>2. entry[f].data \in Priors
  BY <1>1, WholeReads
<1>3. QED
  BY <1>2 DEF ReadPrior, Priors

\* The inode that a rename publishes is whole and flushed.
LEMMA RenamedIsWhole ==
  ASSUME CallOK, pc = "rename"
  PROVE  /\ job.inode = [data |-> job.data, synced |-> TRUE] /\ job.inode \in Whole
         /\ job.file \in Files /\ job.data \in Contents
<1>1. job \in Jobs /\ job.inode.data = job.data /\ job.inode.synced = TRUE
  BY DEF CallOK, InCall, Steps
<1>2. job.inode \in Inodes
  BY <1>1 DEF Jobs
<1>3. QED
  BY <1>1, <1>2 DEF Inodes, Whole, Flushed, Jobs

(***************************************************************************)
(* The parts of the invariant, each with the actions that touch it.        *)
(***************************************************************************)

\* Every step leaves whole files under every path.
LEMMA FilesStep == PublishInv /\ [Next]_vars => FilesOK'
<1> SUFFICES ASSUME PublishInv, [Next]_vars PROVE FilesOK'
  OBVIOUS
<1> USE DEF PublishInv
<1>1. CASE Rename
  <2>1. job.file \in Files /\ job.inode \in Whole /\ dirs[DirOf[job.file]] # "absent"
    BY <1>1, RenamedIsWhole DEF Rename, CallOK, InCall, Steps
  <2>2. entry' = [entry EXCEPT ![job.file] = job.inode] /\ durable' = durable /\ dirs' = dirs
    BY <1>1 DEF Rename
  <2>3. QED
    BY <2>1, <2>2 DEF FilesOK
<1>2. CASE Published
  <2>1. job.file \in Files /\ dirs[DirOf[job.file]] # "absent"
    BY <1>2 DEF Published, CallOK, InCall, Steps, Jobs
  <2>2. durable' = [durable EXCEPT ![job.file] = entry[job.file]] /\ entry' = entry /\ dirs' = dirs
    BY <1>2 DEF Published
  <2>3. QED
    BY <2>1, <2>2 DEF FilesOK
<1>3. CASE UndoWrite
  <2>1. durable' = durable /\ dirs' = dirs
        /\ \/ entry' = entry
           \/ \E f \in Files : entry' = [entry EXCEPT ![f] = Gone]
    BY <1>3, PopTyped DEF UndoWrite, UndoWrites
  <2>2. QED
    BY <2>1 DEF FilesOK, Whole
<1>4. CASE PowerFails
  <2>1. \A f \in Files : dirs'[DirOf[f]] = "absent" => entry'[f] = Gone
    BY <1>4, PowerKeeps DEF FilesOK
  <2>2. QED
    BY <1>4, <2>1, PowerKeeps DEF FilesOK
<1>5. CASE MakeParent
  <2>1. dirs' \in [Dirs -> {"absent", "new", "old"}]
        /\ \A d \in Dirs : dirs'[d] = "absent" => dirs[d] = "absent"
    BY <1>5 DEF MakeParent, FilesOK
  <2>2. QED
    BY <1>5, <2>1 DEF MakeParent, FilesOK
<1>6. CASE UNCHANGED <<entry, durable, dirs>>
  BY <1>6 DEF FilesOK
<1>7. QED
  BY <1>1, <1>2, <1>3, <1>4, <1>5, <1>6
     DEF Next, WriterStep, Sweep, WriteRecordUndo, ReadThenWriteIfChanged, Begins, OpenTemp,
         WriteAll, SyncAll, Own, Fails, ActionFails, EndAction, Crash, Tick, Host, vars

\* Every step pushes a write of the action, pops one, or drops the log.
LEMMA LogStep == PublishInv /\ [Next]_vars => LogOK'
<1> SUFFICES ASSUME PublishInv, [Next]_vars PROVE LogOK'
  OBVIOUS
<1> USE DEF PublishInv
<1>1. CASE Published
  <2>1. job \in Jobs
    BY <1>1 DEF Published, CallOK, InCall, Steps
  <2>2. [file |-> job.file, prior |-> job.prior] \in UndoWrites
    BY <2>1 DEF Jobs, UndoWrites
  <2>3. log' = log \/ log' = Append(log, [file |-> job.file, prior |-> job.prior])
    BY <1>1 DEF Published
  <2>4. QED
    BY <2>2, <2>3, AppendProperties DEF LogOK
<1>2. CASE UndoWrite
  BY <1>2, PopTyped DEF UndoWrite, LogOK
<1>3. CASE log' = log \/ log' = <<>>
  BY <1>3, EmptySeq DEF LogOK
<1>4. QED
  BY <1>1, <1>2, <1>3
     DEF Next, WriterStep, Sweep, WriteRecordUndo, ReadThenWriteIfChanged, Begins, MakeParent,
         OpenTemp, WriteAll, SyncAll, Own, Rename, Fails, Ends, ActionFails, EndAction, Crash, PowerFails,
         Tick, vars

\* The call under way stays well-formed, and the temporary file fills up in order.
LEMMA CallStep == PublishInv /\ [Next]_vars => PcOK' /\ CallOK'
<1> SUFFICES ASSUME PublishInv, [Next]_vars PROVE PcOK' /\ CallOK'
  OBVIOUS
<1> USE DEF PublishInv, PcOK, CallOK, InCall, Steps
<1>1. ASSUME NEW f \in Files, NEW c \in Contents,
             WriteRecordUndo(f, c) \/ ReadThenWriteIfChanged(f, c)
      PROVE  PcOK' /\ CallOK'
  <2>1. PICK prior \in Priors : Begins(f, c, prior)
    BY <1>1, PriorTyped DEF WriteRecordUndo, ReadThenWriteIfChanged
  <2>2. Blank \in Inodes
    BY DEF Blank, Inodes
  <2>3. job' \in Jobs /\ pc' = "parent"
    BY <2>1, <2>2 DEF Begins, Job, Jobs
  <2>4. QED
    BY <2>3
<1>2. CASE OpenTemp
  BY <1>2 DEF OpenTemp
<1>3. CASE WriteAll
  <2>1. job' = [job EXCEPT !.inode.data = job.data] /\ pc = "write" /\ pc' = "sync" /\ dirs' = dirs
    BY <1>3 DEF WriteAll, Host
  <2>2. job' \in Jobs /\ job'.file = job.file /\ job'.inode.data = job'.data
    BY <2>1 DEF Jobs, Inodes
  <2>3. QED
    BY <2>1, <2>2
<1>4. CASE SyncAll
  <2>1. job' = [job EXCEPT !.inode.synced = TRUE] /\ pc = "sync" /\ pc' = "own" /\ dirs' = dirs
    BY <1>4 DEF SyncAll, Host
  <2>2. /\ job' \in Jobs /\ job'.file = job.file /\ job'.inode.data = job'.data
        /\ job'.inode.synced = TRUE
    BY <2>1 DEF Jobs, Inodes
  <2>3. QED
    BY <2>1, <2>2
<1>5. CASE Own
  BY <1>5 DEF Own, Host
<1>6. CASE Rename
  <2>1. job \in Jobs /\ job' = job /\ pc' = "fsync" /\ dirs' = dirs
        /\ dirs[DirOf[job.file]] # "absent"
    BY <1>6 DEF Rename
  <2>2. entry'[job.file].data = job.data
    BY <1>6, RenamedIsWhole DEF Rename, FilesOK
  <2>3. QED
    BY <2>1, <2>2
<1>7. CASE UndoWrite
  <2>1. log[Len(log)] \in UndoWrites /\ Blank \in Inodes
    BY <1>7, PopTyped DEF UndoWrite, Blank, Inodes
  <2>2. CASE log[Len(log)].prior = Absent
    BY <1>7, <2>2 DEF UndoWrite
  <2>3. CASE log[Len(log)].prior # Absent
    <3>1. log[Len(log)].file \in Files /\ log[Len(log)].prior \in Contents
      BY <2>1, <2>3 DEF UndoWrites, Priors
    <3>2. job' = Job(log[Len(log)].file, log[Len(log)].prior, Absent, TRUE) /\ pc' = "parent"
      BY <1>7, <2>3 DEF UndoWrite
    <3>3. job' \in Jobs
      BY <2>1, <3>1, <3>2 DEF Job, Jobs, Priors
    <3>4. QED
      BY <3>2, <3>3
  <2>4. QED
    BY <2>2, <2>3
<1>8. CASE MakeParent
  <2>1. job \in Jobs /\ job' = job /\ pc' = "open"
    BY <1>8 DEF MakeParent
  <2>2. DirOf[job.file] \in Dirs
    BY <2>1 DEF Jobs
  <2>3. dirs'[DirOf[job.file]] # "absent"
    BY <1>8, <2>2 DEF MakeParent, FilesOK
  <2>4. QED
    BY <2>1, <2>3
<1>9. CASE pc' \in {"idle", "ready", "undo"}
  BY <1>9
<1>10. CASE UNCHANGED <<pc, job, entry, dirs>>
  BY <1>10
<1>11. QED
  BY <1>1, <1>2, <1>3, <1>4, <1>5, <1>6, <1>7, <1>8, <1>9, <1>10
     DEF Next, WriterStep, Sweep, Published, Fails, Ends, ActionFails, EndAction, Crash,
         PowerFails, Tick, vars

\* What was acknowledged stays durable until the file is written or undone again.
LEMMA AckStep == PublishInv /\ [Next]_vars => AckOK'
<1> SUFFICES ASSUME PublishInv, [Next]_vars PROVE AckOK'
  OBVIOUS
<1>0. FilesOK /\ CallOK /\ AckOK /\ LogOK
  BY DEF PublishInv
<1> USE <1>0 DEF AckOK, AckedIsDurable, InCall, Steps
<1>1. ASSUME NEW f \in Files, NEW c \in Contents,
             WriteRecordUndo(f, c) \/ ReadThenWriteIfChanged(f, c)
      PROVE  AckOK'
  <2>1. PICK prior : Begins(f, c, prior)
    BY <1>1 DEF WriteRecordUndo, ReadThenWriteIfChanged
  <2>2. acked' = [acked EXCEPT ![f] = Absent] /\ job'.file = f
        /\ entry' = entry /\ durable' = durable /\ dirs' = dirs /\ vanished' = vanished
    BY <2>1 DEF Begins, Job, Host
  <2>3. QED
    BY <2>2 DEF Priors
<1>2. CASE Rename
  <2>1. job.file \in Files /\ acked[job.file] = Absent
    BY <1>2, RenamedIsWhole DEF Rename
  <2>2. /\ acked' = acked /\ durable' = durable /\ job' = job /\ dirs' = dirs /\ vanished' = vanished
        /\ entry' = [entry EXCEPT ![job.file] = job.inode]
    BY <1>2 DEF Rename, Ghosts
  <2>3. QED
    BY <2>1, <2>2 DEF FilesOK
<1>3. CASE Published
  <2>1. job.file \in Files /\ job.data \in Contents /\ entry[job.file].data = job.data
    BY <1>3 DEF Published, CallOK, Jobs
  <2>2. /\ pc' \in {"undo", "ready"} /\ entry' = entry /\ dirs' = dirs
        /\ durable' = [durable EXCEPT ![job.file] = entry[job.file]]
        /\ acked' = [acked EXCEPT ![job.file] = job.data] /\ vanished' = vanished \ {job.file}
    BY <1>3 DEF Published
  <2>3. acked' \in [Files -> Priors]
    BY <2>1, <2>2 DEF Priors
  <2>4. AckedIsDurable'
    <3> SUFFICES ASSUME NEW f \in Files, acked'[f] # Absent
                 PROVE  /\ entry'[f] = durable'[f]
                        /\ durable'[f].data = acked'[f] \/ (f \in vanished' /\ durable'[f] = Gone)
      OBVIOUS
    <3>1. CASE f = job.file
      BY <2>1, <2>2, <3>1 DEF FilesOK
    <3>2. CASE f # job.file
      BY <2>2, <3>2 DEF FilesOK
    <3>3. QED
      BY <3>1, <3>2
  <2>5. QED
    BY <2>2, <2>3, <2>4
<1>4. CASE UndoWrite
  <2> DEFINE step == log[Len(log)]
  <2>1. step \in UndoWrites
    BY <1>4, PopTyped DEF UndoWrite
  <2>2. step.file \in Files
    BY <2>1 DEF UndoWrites
  <2>3. CASE step.prior = Absent
    <3>1. /\ acked' = [acked EXCEPT ![step.file] = Absent] /\ pc' = "undo" /\ durable' = durable
          /\ dirs' = dirs /\ vanished' = vanished
          /\ entry' = entry \/ entry' = [entry EXCEPT ![step.file] = Gone]
      BY <1>4, <2>3 DEF UndoWrite
    <3> HIDE DEF step
    <3>2. QED
      BY <3>1, <2>2 DEF Priors, FilesOK
  <2>4. CASE step.prior # Absent
    <3>1. /\ acked' = [acked EXCEPT ![step.file] = Absent] /\ job'.file = step.file
          /\ entry' = entry /\ durable' = durable /\ dirs' = dirs /\ vanished' = vanished
      BY <1>4, <2>4 DEF UndoWrite, Job
    <3> HIDE DEF step
    <3>2. QED
      BY <3>1, <2>2 DEF Priors
  <2>5. QED
    BY <2>3, <2>4
<1>5. CASE PowerFails
  <2>1. acked' = acked /\ pc' = "idle"
    BY <1>5 DEF PowerFails, Ends
  <2>2. AckedIsDurable'
    <3> SUFFICES ASSUME NEW f \in Files, acked[f] # Absent
                 PROVE  /\ entry'[f] = durable'[f]
                        /\ durable'[f].data = acked[f] \/ (f \in vanished' /\ durable'[f] = Gone)
      BY <2>1
    <3>1. /\ durable'[f] = entry'[f]
          /\ (f \in vanished' /\ entry'[f] = Gone) \/ entry'[f] \in {entry[f], durable[f]}
          /\ vanished \subseteq vanished'
      BY <1>5, PowerKeeps
    <3>2. QED
      BY <3>1
  <2>3. QED
    BY <2>1, <2>2
<1>6. CASE WriteAll \/ SyncAll
  <2>1. job'.file = job.file
    BY <1>6 DEF WriteAll, SyncAll, CallOK, Jobs
  <2>2. QED
    BY <1>6, <2>1 DEF WriteAll, SyncAll, Host, Ghosts
<1>7. CASE OpenTemp \/ Own
  BY <1>7 DEF OpenTemp, Own, Host, Ghosts
<1>8. CASE MakeParent
  <2>1. UNCHANGED <<entry, durable, acked, vanished, job>>
    BY <1>8 DEF MakeParent, Ghosts
  <2>2. pc = "parent" /\ pc' = "open"
    BY <1>8 DEF MakeParent
  <2>3. QED
    BY <2>1, <2>2
<1>9. CASE UNCHANGED <<entry, durable, vanished, acked>> /\ pc' \in {"idle", "ready", "undo"}
  BY <1>9
<1>10. CASE UNCHANGED <<entry, durable, vanished, acked, pc, job>>
  BY <1>10
<1>11. QED
  BY <1>1, <1>2, <1>3, <1>4, <1>5, <1>6, <1>7, <1>8, <1>9, <1>10
     DEF Next, WriterStep, Sweep, Fails, Ends, ActionFails, EndAction, Crash, Tick, Host, Ghosts, vars

\* PublishInv is inductive.
LEMMA PublishInvStep == PublishInv /\ [Next]_vars => PublishInv'
BY FilesStep, LogStep, CallStep, AckStep DEF PublishInv

(***************************************************************************)
(* A write that returned Ok survives every power failure, whatever writer  *)
(* was killed at whatever step in the meantime, unless the power failure   *)
(* took the directory away that an apply had made for it                   *)
(* (write_root_owned).                                                     *)
(***************************************************************************)
THEOREM AckedSurvives == Spec => []AckedIsDurable
<1>1. PublishInv => AckedIsDurable
  BY DEF PublishInv, AckOK
<1>2. QED
  BY <1>1, PublishInvInit, PublishInvStep, PTL DEF Spec

-----------------------------------------------------------------------------
(* Rollback.                                                               *)

(***************************************************************************)
(* The undo log is walked from its end, so a file gets back what its       *)
(* first entry says; a file without an entry has its earlier contents.     *)
(* While a call is under way its file is between the two.                  *)
(***************************************************************************)
InLog(f) == \E i \in 1..Len(log) : log[i].file = f
Undoing == pc = "undo" \/ (InCall /\ job.undoing = TRUE)

\* What was read of f is what it held when the action began, or could not be read.
Explained(f, prior) == prior = before[f].data \/ (prior = Absent /\ f \in unread)
Restored(f) == entry[f].data = before[f].data \/ (f \in unread /\ entry[f] = Gone) \/ f \in excused

FirstEntries ==
  \A i \in 1..Len(log) :
    (\A j \in 1..(i - 1) : log[j].file # log[i].file) => Explained(log[i].file, log[i].prior)
Untouched ==
  ~Undoing => \A f \in Files : ~InLog(f) => entry[f].data = before[f].data \/ (pc = "fsync" /\ f = job.file)
CallReads ==
  InCall /\ job.undoing = FALSE /\ ~InLog(job.file) => Explained(job.file, job.prior)
WalkedBack ==
  Undoing => \A f \in Files : ~InLog(f) => Restored(f) \/ (pc # "undo" /\ f = job.file)
CallRestores ==
  InCall /\ job.undoing = TRUE /\ ~InLog(job.file) => job.data = before[job.file].data

RollInv == FirstEntries /\ Untouched /\ CallReads /\ WalkedBack /\ CallRestores

\* Nothing is in the log before the first action.
LEMMA RollInvInit == Init => RollInv
<1> SUFFICES ASSUME Init PROVE RollInv
  OBVIOUS
<1>1. Len(log) = 0 /\ ~InCall /\ ~Undoing /\ entry = before
  BY DEF Init, InCall, Steps, Undoing
<1>2. QED
  BY <1>1 DEF RollInv, FirstEntries, Untouched, CallReads, WalkedBack, CallRestores

\* What the log holds after a push
LEMMA Pushed ==
  ASSUME LogOK, NEW s \in UndoWrites, log' = Append(log, s)
  PROVE  /\ Len(log) \in Nat /\ Len(log') = Len(log) + 1
         /\ \A i \in 1..Len(log) : log'[i] = log[i]
         /\ log'[Len(log) + 1] = s
         /\ \A f : InLog(f)' <=> (InLog(f) \/ f = s.file)
<1>1. /\ Len(log) \in Nat /\ Len(log') = Len(log) + 1
      /\ \A i \in 1..Len(log) : log'[i] = log[i]
      /\ log'[Len(log) + 1] = s
  BY AppendProperties, LenProperties DEF LogOK
<1>2. QED
  BY <1>1 DEF InLog

\* and after a pop
LEMMA Popped ==
  ASSUME LogOK, log # <<>>, log' = SubSeq(log, 1, Len(log) - 1)
  PROVE  /\ Len(log) \in Nat \ {0} /\ Len(log') = Len(log) - 1
         /\ \A i \in 1..(Len(log) - 1) : log'[i] = log[i]
         /\ \A f : InLog(f) <=> (InLog(f)' \/ f = log[Len(log)].file)
<1>0. PICK n : n = Len(log)
  OBVIOUS
<1>1. /\ n \in Nat \ {0} /\ Len(log') = n - 1
      /\ \A i \in 1..(n - 1) : log'[i] = log[i]
  BY <1>0, WithoutLast DEF LogOK
<1>2. ASSUME NEW f, InLog(f) PROVE InLog(f)' \/ f = log[n].file
  BY <1>0, <1>1, <1>2 DEF InLog
<1>3. ASSUME NEW f, InLog(f)' \/ f = log[n].file PROVE InLog(f)
  BY <1>0, <1>1, <1>3 DEF InLog
<1>4. QED
  BY <1>0, <1>1, <1>2, <1>3

\* A new action, or none: nothing is in the log, and what is there is what was there before.
LEMMA RollAnew ==
  ASSUME log' = <<>>, before' = entry', pc' \in {"idle", "ready"}
  PROVE  RollInv'
<1>1. Len(log') = 0 /\ (~InCall)' /\ (~Undoing)'
  BY DEF InCall, Steps, Undoing
<1>2. QED
  BY <1>1 DEF RollInv, FirstEntries, Untouched, CallReads, WalkedBack, CallRestores

\* A step inside write_root_owned that publishes nothing
LEMMA RollInside ==
  ASSUME RollInv, InCall, InCall', pc # "fsync", pc' # "fsync", UNCHANGED <<entry, log, Ghosts>>,
         job'.file = job.file, job'.data = job.data, job'.prior = job.prior, job'.undoing = job.undoing
  PROVE  RollInv'
<1>1. \A f : InLog(f)' <=> InLog(f)
  BY DEF InLog
<1>2. Undoing' <=> Undoing
  BY DEF Undoing, InCall, Steps
<1>3. FirstEntries'
  BY DEF RollInv, FirstEntries, Explained, Ghosts
<1>4. Untouched' /\ WalkedBack'
  BY <1>1, <1>2 DEF RollInv, Untouched, WalkedBack, Restored, Ghosts, InCall, Steps
<1>5. CallReads' /\ CallRestores'
  BY <1>1 DEF RollInv, CallReads, CallRestores, Explained, Ghosts
<1>6. QED
  BY <1>3, <1>4, <1>5 DEF RollInv

\* A forward call begins: what it read is explained when it is the first of its file.
LEMMA RollBegins ==
  ASSUME PublishInv, RollInv, pc = "ready", NEW f \in Files, NEW c \in Contents, NEW prior \in ReadPrior(f),
         Begins(f, c, prior)
  PROVE  RollInv'
<1>1. /\ job' = Job(f, c, prior, FALSE) /\ pc' = "parent" /\ UNCHANGED <<entry, log, before, excused>>
      /\ unread' = IF prior # entry[f].data THEN unread \cup {f} ELSE unread
  BY DEF Begins, Host
<1>2. job'.file = f /\ job'.prior = prior /\ job'.undoing = FALSE
  BY <1>1 DEF Job
<1>3. (\A g : InLog(g)' <=> InLog(g)) /\ ~Undoing /\ (~Undoing)' /\ InCall' /\ ~InCall
  BY <1>1, <1>2 DEF InLog, Undoing, InCall, Steps
<1>4. FirstEntries'
  BY <1>1 DEF RollInv, FirstEntries, Explained
<1>5. Untouched' /\ WalkedBack' /\ CallRestores'
  BY <1>1, <1>2, <1>3 DEF RollInv, Untouched, WalkedBack, CallRestores
<1>6. CallReads'
  <2>1. ~InLog(f) => entry[f].data = before[f].data
    BY <1>3 DEF RollInv, Untouched
  <2>2. prior = entry[f].data \/ (prior = Absent /\ f \in unread')
    BY <1>1 DEF ReadPrior
  <2>3. QED
    BY <1>1, <1>2, <1>3, <2>1, <2>2 DEF CallReads, Explained
<1>7. QED
  BY <1>4, <1>5, <1>6 DEF RollInv

\* The rename touches the file of the call only.
LEMMA RollRename == ASSUME PublishInv, RollInv, Rename PROVE RollInv'
<1>1. job.file \in Files /\ job.inode.data = job.data /\ job \in Jobs
  BY RenamedIsWhole DEF Rename, PublishInv, CallOK, InCall, Steps
<1>2. /\ pc = "rename" /\ pc' = "fsync" /\ UNCHANGED <<job, log, before, unread, excused>>
      /\ entry' = [entry EXCEPT ![job.file] = job.inode]
  BY DEF Rename, Ghosts
<1>3. \A f \in Files : f # job.file => entry'[f] = entry[f]
  BY <1>1, <1>2 DEF PublishInv, FilesOK
<1>4. (\A f : InLog(f)' <=> InLog(f)) /\ (Undoing' <=> Undoing) /\ InCall /\ InCall'
  BY <1>2 DEF InLog, Undoing, InCall, Steps
<1>5. FirstEntries' /\ CallReads' /\ CallRestores'
  BY <1>2, <1>4 DEF RollInv, FirstEntries, CallReads, CallRestores, Explained
<1>6. Untouched' /\ WalkedBack'
  BY <1>2, <1>3, <1>4 DEF RollInv, Untouched, WalkedBack, Restored
<1>7. QED
  BY <1>5, <1>6 DEF RollInv

\* A write that was published is pushed, or one entry of the log has been undone.
LEMMA RollPublished == ASSUME PublishInv, RollInv, Published PROVE RollInv'
<1>1. /\ pc = "fsync" /\ UNCHANGED <<entry, before, unread, excused>>
      /\ log' = IF job.undoing THEN log ELSE Append(log, [file |-> job.file, prior |-> job.prior])
      /\ pc' = IF job.undoing THEN "undo" ELSE "ready"
  BY DEF Published
<1>2. job \in Jobs /\ entry[job.file].data = job.data /\ InCall /\ (~InCall)'
  BY <1>1 DEF PublishInv, CallOK, InCall, Steps
<1>3. CASE job.undoing = TRUE
  <2>1. log' = log /\ pc' = "undo"
    BY <1>1, <1>3
  <2>2. (\A f : InLog(f)' <=> InLog(f)) /\ Undoing /\ Undoing'
    BY <1>2, <1>3, <2>1 DEF InLog, Undoing
  <2>3. FirstEntries'
    BY <1>1, <2>1 DEF RollInv, FirstEntries, Explained
  <2>4. Untouched' /\ CallReads' /\ CallRestores'
    BY <1>2, <2>2 DEF Untouched, CallReads, CallRestores
  <2>5. WalkedBack'
    <3>1. ~InLog(job.file) => entry[job.file].data = before[job.file].data
      BY <1>2, <1>3 DEF RollInv, CallRestores
    <3>2. QED
      BY <1>1, <2>2, <3>1 DEF RollInv, WalkedBack, Restored
  <2>6. QED
    BY <2>3, <2>4, <2>5 DEF RollInv
<1>4. CASE job.undoing = FALSE
  <2>1. PICK s : s = [file |-> job.file, prior |-> job.prior]
    OBVIOUS
  <2>2. s \in UndoWrites /\ s.file = job.file /\ s.prior = job.prior
    BY <1>2, <2>1 DEF Jobs, UndoWrites
  <2>3. log' = Append(log, s) /\ pc' = "ready"
    BY <1>1, <1>4, <2>1
  <2>4. /\ Len(log) \in Nat /\ Len(log') = Len(log) + 1
        /\ \A i \in 1..Len(log) : log'[i] = log[i]
        /\ log'[Len(log) + 1] = s
        /\ \A f : InLog(f)' <=> (InLog(f) \/ f = s.file)
    BY <2>2, <2>3, Pushed DEF PublishInv
  <2>5. ~Undoing /\ (~Undoing)'
    BY <1>1, <1>2, <1>4, <2>3 DEF Undoing
  <2>6. FirstEntries'
    <3> SUFFICES ASSUME NEW i \in 1..Len(log'), \A j \in 1..(i - 1) : log'[j].file # log'[i].file
                 PROVE  \/ log'[i].prior = before'[log'[i].file].data
                        \/ log'[i].prior = Absent /\ log'[i].file \in unread'
      BY DEF FirstEntries, Explained
    <3>1. CASE i \in 1..Len(log)
      <4>1. log'[i] = log[i] /\ \A j \in 1..(i - 1) : log'[j] = log[j]
        BY <2>4, <3>1
      <4>2. Explained(log[i].file, log[i].prior)
        BY <3>1, <4>1 DEF RollInv, FirstEntries
      <4>3. QED
        BY <1>1, <4>1, <4>2 DEF Explained
    <3>2. CASE i = Len(log) + 1
      <4>1. \A j \in 1..Len(log) : log[j].file # job.file
        BY <2>2, <2>4, <3>2
      <4>2. ~InLog(job.file)
        BY <4>1 DEF InLog
      <4>3. Explained(job.file, job.prior)
        BY <1>2, <1>4, <4>2 DEF RollInv, CallReads
      <4>4. QED
        BY <1>1, <2>2, <2>4, <3>2, <4>3 DEF Explained
    <3>3. QED
      BY <2>4, <3>1, <3>2
  <2>7. Untouched'
    BY <1>1, <2>2, <2>4, <2>5 DEF RollInv, Untouched
  <2>8. CallReads' /\ WalkedBack' /\ CallRestores'
    BY <1>2, <2>5 DEF CallReads, WalkedBack, CallRestores
  <2>9. QED
    BY <2>6, <2>7, <2>8 DEF RollInv
<1>5. QED
  BY <1>2, <1>3, <1>4 DEF Jobs

\* A failed step leaves the file alone, or it is excused.
LEMMA RollFails ==
  ASSUME PublishInv, RollInv, InCall, UNCHANGED <<entry, log, before, unread>>, pc' = "undo",
         excused' = IF pc = "fsync" \/ job.undoing THEN excused \cup {job.file} ELSE excused
  PROVE  RollInv'
<1>1. job \in Jobs /\ (~InCall)' /\ Undoing'
  BY DEF PublishInv, CallOK, InCall, Steps, Undoing
<1>2. \A f : InLog(f)' <=> InLog(f)
  BY DEF InLog
<1>3. FirstEntries'
  BY DEF RollInv, FirstEntries, Explained
<1>4. Untouched' /\ CallReads' /\ CallRestores'
  BY <1>1 DEF Untouched, CallReads, CallRestores
<1>5. WalkedBack'
  <2>1. CASE job.undoing = TRUE
    BY <1>2, <2>1 DEF RollInv, WalkedBack, Restored, Undoing
  <2>2. CASE job.undoing = FALSE
    <3>1. ~Undoing
      BY <2>2 DEF Undoing, InCall, Steps
    <3>2. QED
      BY <1>2, <2>2, <3>1 DEF RollInv, Untouched, WalkedBack, Restored
  <2>3. QED
    BY <1>1, <2>1, <2>2 DEF Jobs
<1>6. QED
  BY <1>3, <1>4, <1>5 DEF RollInv

\* One entry of the log is undone, or a call that undoes it begins.
LEMMA RollUndo == ASSUME PublishInv, RollInv, UndoWrite PROVE RollInv'
<1>0. PICK step, n : step = log[Len(log)] /\ n = Len(log)
  OBVIOUS
<1>1. /\ pc = "undo" /\ log # <<>> /\ log' = SubSeq(log, 1, Len(log) - 1) /\ UNCHANGED <<before, unread>>
  BY DEF UndoWrite
<1>2. /\ n \in Nat \ {0} /\ Len(log') = n - 1
      /\ \A i \in 1..(n - 1) : log'[i] = log[i]
      /\ \A f : InLog(f) <=> (InLog(f)' \/ f = step.file)
  BY <1>0, <1>1, Popped DEF PublishInv
<1>3. step \in UndoWrites
  BY <1>0, <1>1, PopTyped DEF PublishInv
<1>4. ~(InLog(step.file)') => Explained(step.file, step.prior)
  <2>1. SUFFICES ASSUME ~(InLog(step.file)') PROVE Explained(step.file, step.prior)
    OBVIOUS
  <2>2. \A j \in 1..(n - 1) : log[j].file # log[n].file
    BY <1>0, <1>2, <2>1 DEF InLog
  <2>3. QED
    BY <1>0, <1>2, <2>2 DEF RollInv, FirstEntries
<1>5. FirstEntries'
  <2> SUFFICES ASSUME NEW i \in 1..Len(log'), \A j \in 1..(i - 1) : log'[j].file # log'[i].file
               PROVE  \/ log'[i].prior = before'[log'[i].file].data
                      \/ log'[i].prior = Absent /\ log'[i].file \in unread'
    BY DEF FirstEntries, Explained
  <2>0. i \in Nat /\ i <= n - 1 /\ 1 <= i /\ n = Len(log)
    BY <1>0, <1>2
  <2>1. i \in 1..Len(log) /\ log'[i] = log[i] /\ \A j \in 1..(i - 1) : log'[j] = log[j]
    <3>1. i \in 1..(n - 1) /\ i \in 1..n /\ \A j \in 1..(i - 1) : j \in 1..(n - 1)
      BY <1>2, <2>0
    <3>2. QED
      BY <1>2, <2>0, <3>1
  <2>2. Explained(log[i].file, log[i].prior)
    BY <2>1 DEF RollInv, FirstEntries
  <2>3. QED
    BY <1>1, <2>1, <2>2 DEF Explained
<1>6. Undoing
  BY <1>1 DEF Undoing
<1>7. CASE step.prior = Absent
  <2>1. /\ pc' = "undo"
        /\ \/ entry' = [entry EXCEPT ![step.file] = Gone] /\ excused' = excused
           \/ entry' = entry /\ excused' = excused \cup {step.file}
    BY <1>0, <1>1, <1>7 DEF UndoWrite
  <2>2. (~InCall)' /\ Undoing'
    BY <2>1 DEF InCall, Steps, Undoing
  <2>3. Untouched' /\ CallReads' /\ CallRestores'
    BY <2>2 DEF Untouched, CallReads, CallRestores
  <2>4. WalkedBack'
    <3> SUFFICES ASSUME NEW f \in Files, ~(InLog(f)') PROVE Restored(f)'
      BY DEF WalkedBack
    <3>1. CASE f # step.file
      <4>1. Restored(f)
        BY <1>1, <1>2, <1>6, <3>1 DEF RollInv, WalkedBack
      <4>2. entry'[f] = entry[f]
        BY <2>1, <3>1 DEF PublishInv, FilesOK
      <4>3. QED
        BY <1>1, <2>1, <4>1, <4>2 DEF Restored
    <3>2. CASE f = step.file
      <4>1. Explained(f, Absent)
        BY <1>4, <1>7, <3>2
      <4>2. entry'[f] = Gone \/ f \in excused'
        BY <2>1, <3>2 DEF PublishInv, FilesOK
      <4>3. Gone.data = Absent
        BY DEF Gone
      <4>4. QED
        BY <1>1, <4>1, <4>2, <4>3 DEF Explained, Restored
    <3>3. QED
      BY <3>1, <3>2
  <2>5. QED
    BY <1>5, <2>3, <2>4 DEF RollInv
<1>8. CASE step.prior # Absent
  <2>1. /\ pc' = "parent" /\ UNCHANGED <<entry, excused>>
        /\ job' = Job(step.file, step.prior, Absent, TRUE)
    BY <1>0, <1>1, <1>8 DEF UndoWrite
  <2>2. job'.file = step.file /\ job'.data = step.prior /\ job'.undoing = TRUE
    BY <2>1 DEF Job
  <2>3. InCall' /\ Undoing'
    BY <2>1, <2>2 DEF InCall, Steps, Undoing
  <2>4. Untouched' /\ CallReads'
    BY <2>2, <2>3 DEF Untouched, CallReads
  <2>5. CallRestores'
    BY <1>1, <1>4, <1>8, <2>2 DEF CallRestores, Explained
  <2>6. WalkedBack'
    <3> SUFFICES ASSUME NEW f \in Files, ~(InLog(f)'), f # step.file PROVE Restored(f)'
      BY <2>1, <2>2 DEF WalkedBack
    <3>1. Restored(f)
      BY <1>1, <1>2, <1>6 DEF RollInv, WalkedBack
    <3>2. QED
      BY <1>1, <2>1, <3>1 DEF Restored
  <2>7. QED
    BY <1>5, <2>4, <2>5, <2>6 DEF RollInv
<1>9. QED
  BY <1>7, <1>8

\* RollInv is inductive, given what is known of the files and the calls.
LEMMA RollInvStep == PublishInv /\ RollInv /\ [Next]_vars => RollInv'
<1> SUFFICES ASSUME PublishInv, RollInv, [Next]_vars PROVE RollInv'
  OBVIOUS
<1>1. ASSUME NEW f \in Files, NEW c \in Contents,
             WriteRecordUndo(f, c) \/ ReadThenWriteIfChanged(f, c)
      PROVE  RollInv'
  BY <1>1, RollBegins DEF WriteRecordUndo, ReadThenWriteIfChanged
<1>2. CASE MakeParent \/ OpenTemp \/ Own
  BY <1>2, RollInside DEF MakeParent, OpenTemp, Own, InCall, Steps, Host
<1>3. CASE WriteAll \/ SyncAll
  <2>1. job \in Jobs
    BY <1>3 DEF PublishInv, CallOK, WriteAll, SyncAll, InCall, Steps
  <2>2. job'.file = job.file /\ job'.data = job.data /\ job'.prior = job.prior /\ job'.undoing = job.undoing
    BY <1>3, <2>1 DEF WriteAll, SyncAll, Jobs
  <2>3. QED
    BY <1>3, <2>2, RollInside DEF WriteAll, SyncAll, InCall, Steps, Host
<1>4. CASE Rename
  BY <1>4, RollRename
<1>5. CASE Published
  BY <1>5, RollPublished
<1>6. CASE Fails
  <2>1. CASE Ends
    BY <2>1, RollAnew DEF Ends
  <2>2. CASE ~Ends
    BY <1>6, <2>2, RollFails DEF Fails, InCall
  <2>3. QED
    BY <2>1, <2>2
<1>7. CASE ActionFails
  <2>1. /\ pc = "ready" /\ pc' = "undo" /\ UNCHANGED <<entry, log, before, unread, excused>>
    BY <1>7 DEF ActionFails, Host, Ghosts
  <2>2. (\A f : InLog(f)' <=> InLog(f)) /\ ~Undoing /\ Undoing' /\ (~InCall)'
    BY <2>1 DEF InLog, Undoing, InCall, Steps
  <2>3. QED
    BY <2>1, <2>2 DEF RollInv, FirstEntries, Explained, Untouched, CallReads, WalkedBack, CallRestores, Restored
<1>8. CASE UndoWrite
  BY <1>8, RollUndo
<1>9. CASE EndAction \/ Crash \/ PowerFails
  <2>1. log' = <<>> /\ before' = entry' /\ pc' \in {"idle", "ready"}
    BY <1>9 DEF EndAction, Crash, PowerFails, Ends, Host
  <2>2. QED
    BY <2>1, RollAnew
<1>10. CASE \E p \in Pids : Sweep(p)
  <2>1. pc = "idle" /\ pc' = "ready" /\ UNCHANGED <<entry, log, before, unread, excused>>
    BY <1>10 DEF Sweep, Ghosts
  <2>2. (\A f : InLog(f)' <=> InLog(f)) /\ ~Undoing /\ (~Undoing)' /\ (~InCall)'
    BY <2>1 DEF InLog, Undoing, InCall, Steps
  <2>3. QED
    BY <2>1, <2>2 DEF RollInv, FirstEntries, Explained, Untouched, CallReads, WalkedBack, CallRestores
<1>11. CASE UNCHANGED <<pc, job, entry, log, before, unread, excused>>
  BY <1>11 DEF RollInv, FirstEntries, Explained, Untouched, CallReads, WalkedBack, CallRestores, Restored,
               InLog, Undoing, InCall
<1>12. QED
  BY <1>1, <1>2, <1>3, <1>4, <1>5, <1>6, <1>7, <1>8, <1>9, <1>10, <1>11
     DEF Next, WriterStep, Tick, Ghosts, vars

(***************************************************************************)
(* When undo has walked the log of an action, of any length and over any   *)
(* files, every file holds what it held before, but for the exceptions     *)
(* that the code can name (undo_one in src/apply/undo.rs, read_prior).     *)
(***************************************************************************)
THEOREM RollbackAlwaysRestores == Spec => []RollbackRestores
<1>1. ASSUME PublishInv, RollInv PROVE RollbackRestores
  <2> SUFFICES ASSUME pc = "undo", log = <<>>
               PROVE  \A f \in Files : \/ entry[f].data = before[f].data
                                       \/ f \in unread /\ entry[f] = Gone
                                       \/ f \in excused
    BY DEF RollbackRestores
  <2>1. Undoing /\ \A f : ~InLog(f)
    BY DEF Undoing, InLog
  <2>2. QED
    BY <1>1, <2>1 DEF RollInv, WalkedBack, Restored
<1>2. QED
  BY <1>1, PublishInvInit, PublishInvStep, RollInvInit, RollInvStep, PTL DEF Spec

-----------------------------------------------------------------------------
(* The refinement of AtomicFile.                                           *)

\* The write under way, as the contract sees it.
Asked == IF pc \in {"idle", "ready", "undo"} THEN {} ELSE {<<job.file, job.data>>}

\* What a power failure may put in place of each file
Stable == [f \in Files |-> Fallback(f)]

\* The write under way names a file and contents that belong to the program.
LEMMA AskedTyped == PcOK /\ CallOK => Asked \in SUBSET (Files \X Contents)
<1> SUFFICES ASSUME PcOK, CallOK PROVE Asked \in SUBSET (Files \X Contents)
  OBVIOUS
<1>1. CASE pc \in {"idle", "ready", "undo"}
  BY <1>1 DEF Asked
<1>2. CASE pc \notin {"idle", "ready", "undo"}
  <2>1. job \in Jobs
    BY <1>2 DEF PcOK, CallOK, InCall
  <2>2. QED
    BY <1>2, <2>1 DEF Asked, Jobs
<1>3. QED
  BY <1>1, <1>2

\* The initial states of Publish are those of the contract.
LEMMA ContractInit == Init => Contract!Init
<1> SUFFICES ASSUME Init PROVE Contract!Init
  OBVIOUS
<1>1. FilesOK
  BY PublishInvInit DEF PublishInv
<1>2. Data(entry) \in [Files -> Contents \cup {Absent}]
  BY <1>1, WholeReads DEF FilesOK, Data, Priors
<1>3. /\ pc = "idle"
      /\ \A f \in Files : Fallback(f) = {Data(entry)[f]}
  BY DEF Init, Data, Fallback
<1>4. QED
  BY <1>2, <1>3 DEF Contract!Init, Contract!Values

(***************************************************************************)
(* A rename is a replacement, a flushed directory settles one file, an     *)
(* undone creation removes one, a power failure takes back what was not    *)
(* durable; no other step changes what a reader finds, and a directory is  *)
(* made only where there is no file.                                       *)
(***************************************************************************)
LEMMA ContractStep ==
  PublishInv /\ PublishInv' /\ [Next]_vars =>
    [Contract!Next]_<<Data(entry), Stable, Asked>>
<1> SUFFICES ASSUME PublishInv, PublishInv', [Next]_vars PROVE Contract!Next
  OBVIOUS
<1>a. (PcOK /\ CallOK => Asked \in SUBSET (Files \X Contents))'
  BY AskedTyped, PTL
<1>b. FilesOK /\ CallOK /\ LogOK /\ Asked' \in SUBSET (Files \X Contents)
  BY <1>a DEF PublishInv
<1> USE <1>b
<1>1. CASE Rename
  <2>1. job.file \in Files /\ job.inode.data = job.data
    BY <1>1, RenamedIsWhole DEF Rename
  <2>2. Data(entry)' = [Data(entry) EXCEPT ![job.file] = job.data]
    BY <1>1, <2>1 DEF Rename, Data, FilesOK
  <2>3. Asked = {<<job.file, job.data>>} /\ Stable' = Stable
    BY <1>1 DEF Rename, Asked, Stable, Fallback
  <2>4. Contract!Replace
    BY <2>2, <2>3 DEF Contract!Replace, Asked, Stable
  <2>5. QED
    BY <2>4 DEF Contract!Next, Asked
<1>2. CASE Published
  <2> DEFINE rest == IF dirs[DirOf[job.file]] = "new" THEN {Absent} ELSE {}
  <2>1. job.file \in Files
    BY <1>2 DEF Published, CallOK, InCall, Steps, Jobs
  <2>2. durable' = [durable EXCEPT ![job.file] = entry[job.file]] /\ dirs' = dirs
    BY <1>2 DEF Published
  <2>3. Stable' = [Stable EXCEPT ![job.file] = {Data(entry)[job.file]} \cup rest]
    BY <2>1, <2>2 DEF Stable, Fallback, Data, FilesOK
  <2>4. rest \in SUBSET (Stable[job.file] \cap {Absent})
    BY <2>1 DEF Stable, Fallback
  <2>5. Data(entry)' = Data(entry)
    BY <1>2 DEF Published
  <2>6. Contract!Settle(job.file)
    BY <2>3, <2>4, <2>5, Zenon DEF Contract!Settle, Stable
  <2>7. QED
    BY <2>1, <2>6 DEF Contract!Next, Asked
<1>3. CASE UndoWrite
  <2> DEFINE step == log[Len(log)]
  <2>1. step.file \in Files
    BY <1>3, PopTyped DEF UndoWrite, UndoWrites
  <2>2. Stable' = Stable
    BY <1>3 DEF UndoWrite, Stable, Fallback
  <2>3. entry' = entry \/ entry' = [entry EXCEPT ![step.file] = Gone]
    BY <1>3 DEF UndoWrite
  <2> HIDE DEF step
  <2>4. CASE entry' = entry
    BY <2>2, <2>4 DEF Contract!Next, Contract!Ask, Asked, Stable
  <2>5. CASE entry' = [entry EXCEPT ![step.file] = Gone]
    <3>1. Data(entry)' = [Data(entry) EXCEPT ![step.file] = Absent]
      BY <2>1, <2>5 DEF Data, FilesOK, Gone
    <3>2. Contract!Remove(step.file)
      BY <2>2, <3>1 DEF Contract!Remove, Stable
    <3>3. QED
      BY <2>1, <3>2 DEF Contract!Next, Asked
  <2>6. QED
    BY <2>3, <2>4, <2>5
<1>4. CASE PowerFails
  <2>1. \A f \in Files : dirs'[DirOf[f]] # "new" /\ durable'[f] = entry'[f]
    BY <1>4, PowerKeeps
  <2>2. Stable' = [f \in Files |-> {Data(entry)'[f]}]
    BY <2>1 DEF Stable, Fallback, Data
  <2>3. \A f \in Files : Data(entry)'[f] \in {Data(entry)[f]} \cup Stable[f]
    BY <1>4, PowerKeeps DEF Data, Stable, Fallback, Gone
  <2>4. Contract!Lose
    BY <2>2, <2>3 DEF Contract!Lose, Stable
  <2>5. QED
    BY <2>4 DEF Contract!Next, Asked
<1>5. CASE MakeParent
  <2>1. job.file \in Files /\ pc = "parent"
    BY <1>5 DEF MakeParent, CallOK, InCall, Jobs
  <2>2. entry' = entry /\ durable' = durable
    BY <1>5 DEF MakeParent
  <2>3. ASSUME NEW f \in Files PROVE Fallback(f)' = Fallback(f)
    <3>1. CASE dirs[DirOf[f]] = "absent"
      BY <1>5, <2>2, <3>1 DEF MakeParent, Fallback, FilesOK, Gone
    <3>2. CASE dirs[DirOf[f]] # "absent"
      BY <1>5, <2>1, <2>2, <3>2 DEF MakeParent, Fallback, FilesOK
    <3>3. QED
      BY <3>1, <3>2
  <2>4. Stable' = Stable
    BY <2>3 DEF Stable
  <2>5. QED
    BY <2>2, <2>4 DEF Contract!Next, Contract!Ask, Asked, Stable, Data
<1>6. CASE UNCHANGED <<entry, durable, dirs>>
  BY <1>6 DEF Contract!Next, Contract!Ask, Asked, Fallback
<1>7. QED
  BY <1>1, <1>2, <1>3, <1>4, <1>5, <1>6
     DEF Next, WriterStep, Sweep, WriteRecordUndo, ReadThenWriteIfChanged, Begins, OpenTemp,
         WriteAll, SyncAll, Own, Fails, ActionFails, EndAction, Crash, Tick, Host, vars

(***************************************************************************)
(* write_root_owned is atomic and durable for any number of files, and     *)
(* whatever fails, dies or loses power at whatever step: Publish           *)
(* implements AtomicFile.                                                  *)
(***************************************************************************)
THEOREM PublishRefinesAtomicFile == Spec => ImplementsAtomicFile
<1>1. Init => Contract!Init
  BY ContractInit
<1>2. PublishInv /\ PublishInv' /\ [Next]_vars =>
        [Contract!Next]_<<Data(entry), Stable, Asked>>
  BY ContractStep
<1>3. QED
  BY <1>1, <1>2, PublishInvInit, PublishInvStep, PTL
     DEF Spec, ImplementsAtomicFile, Contract!Spec, Asked, Stable
==============================================================================
