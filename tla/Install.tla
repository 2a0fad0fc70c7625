------------------------------ MODULE Install -------------------------------
(***************************************************************************)
(* How the runner binary gets into a runner home: download and checksum,   *)
(* extraction into <state_dir>/.staging/<runner>-<version>-<pid>, the swap *)
(* with <runner_home>/bin.<version>, the retention prune                   *)
(* (src/extract.rs, src/apply/tarball.rs) and the sweep of staging trees   *)
(* that a killed install left behind (src/apply/gc.rs).                    *)
(*                                                                         *)
(* One runner home is modelled.  A tree is what a directory holds: nothing *)
(* ("absent"), some of the files ("partial") or all of them ("whole"), who *)
(* may read it.  The code flushes directories; files are written back by   *)
(* the kernel in its own time, so the newest tree may not be on the disk.  *)
(*                                                                         *)
(* The prune goes by modification times.  They are those of the wall       *)
(* clock, which may be set back, and operators touch trees.                *)
(*                                                                         *)
(* Which members of an archive the filter lets through is not modelled: a  *)
(* refused member is an install that fails.                                *)
(***************************************************************************)
EXTENDS Naturals, FiniteSets

CONSTANTS
  Versions, NoVersion,
  Pids, NoPid,
  KeepVersions,   \* Defaults.keep_versions
  LocalTarballs,  \* versions whose runner_tarball is a file of the operator's
  MaxStaging,     \* bound: staging directories on the host
  MaxPowerLoss,   \* bound: power failures in a behaviour
  MaxClockSteps   \* bound: how often the clock is set back

ASSUME InstallConstants ==
  /\ NoVersion \notin Versions /\ NoPid \notin Pids
  /\ KeepVersions \in Nat \ {0}     \* plan_from clamps the setting to 1
  /\ LocalTarballs \subseteq Versions
  /\ MaxStaging \in Nat \ {0} /\ MaxPowerLoss \in Nat /\ MaxClockSteps \in Nat

VARIABLES
  pid, pc,
  ver,        \* the version the create action installs
  download,   \* the tarball the process has: "none", "wrong", "good" (the digest is
              \* the release's) or "local"
  staging,    \* staging directories on the host: [ver, pid, stale]
  staged,     \* what the staging directory of the running install holds
  tree,       \* version -> the tree at bin.<version>
  dirty,      \* version of the newest tree until its files are written back
  newer,      \* pairs of versions: the mtime of the first tree is the later one
  ahead,      \* trees with an mtime later than a tree that is put in place now gets
  link,       \* where an operator's `bin' symlink points
  unit,       \* version the published runner unit starts, or NoVersion
  powerLoss, clockSteps,
  late        \* ghost: when the last tree was put in place, or since, another had a later mtime

vars == <<pid, pc, ver, download, staging, staged, tree, dirty, newer, ahead, link, unit,
          powerLoss, clockSteps, late>>

Tree(d, o) == [data |-> d, open |-> o]
NoTree == Tree("absent", FALSE)

\* The staged tree has its date, but not yet its place.
Dated == pc \in {"swap", "clear", "move"}

Mine(s) == s.ver = ver /\ s.pid = pid

Present == {v \in Versions : tree[v].data # "absent"}

\* Of the trees that are left, those of S are written to now: they are newer than
\* the others, but not than those ahead.
Written(S, left) ==
  /\ newer' = {p \in newer : {p[1], p[2]} \subseteq left /\ (p[1] \in S <=> p[2] \in S)}
                \cup (S \X (left \ (S \cup ahead))) \cup (((ahead \cap left) \ S) \X S)
  /\ ahead' = (ahead \cap left) \ S

\* bin.<version> gets tree t, with the time at which t was made.
Put(t) == /\ tree' = [tree EXCEPT ![ver] = t] /\ dirty' = ver
          /\ Written({ver}, Present \cup {ver})
          /\ late' = (ahead' # {})

Dates == <<newer, ahead, clockSteps, late>>
Host == <<tree, dirty, Dates, link, unit>>

-----------------------------------------------------------------------------

\* Trees beyond the keep_versions newest, but never the symlink's target.
Prunable == {v \in Present : Cardinality({w \in Present : <<w, v>> \in newer}) >= KeepVersions} \ {link}

(* Mutated forms of the definitions below: plausible slips in the code.    *)

\* The copy of the cross-device fallback counts as done after the first file.
CopyStopsEarly ==
  /\ pc = "copy"
  /\ Put(Tree("partial", FALSE))
  /\ pc' = "discard"
  /\ UNCHANGED <<pid, ver, download, staging, staged, link, unit, powerLoss, clockSteps>>

\* The comparison with the age is the wrong way round.
StaleStagingYoung(p) == {s \in staging : ~s.stale /\ s.pid # p}

-----------------------------------------------------------------------------
\* gc_stale_staging_dirs: old enough and not of the own process id.
StaleStaging(p) == {s \in staging : s.stale /\ s.pid # p}

Init ==
  /\ pid = NoPid /\ pc = "idle" /\ ver = NoVersion /\ download = "none"
  /\ staging = {} /\ staged = NoTree
  /\ tree = [v \in Versions |-> NoTree] /\ newer = {} /\ dirty = NoVersion
  /\ link = NoVersion /\ unit = NoVersion /\ ahead = {}
  /\ powerLoss = 0 /\ clockSteps = 0 /\ late = FALSE

(***************************************************************************)
(* The process is gone; what it did to the home stays.  What it left of    *)
(* the download does not matter: the next one starts over.                 *)
(***************************************************************************)
Ends ==
  /\ pid' = NoPid /\ pc' = "idle" /\ ver' = NoVersion /\ staged' = NoTree
  /\ download' = "none"

(***************************************************************************)
(* An apply takes the lock, sweeps .staging (a removal may fail) and, when *)
(* the runner has no unit, starts to create it with the version the        *)
(* configuration asks for.  With a unit in place the plan has nothing to   *)
(* do and no binary is looked at.                                          *)
(***************************************************************************)
Apply(p, v) ==
  /\ pc = "idle"
  /\ \E failed \in SUBSET StaleStaging(p) : staging' = staging \ (StaleStaging(p) \ failed)
  /\ IF unit = NoVersion
       THEN pid' = p /\ pc' = "fetch" /\ ver' = v
       ELSE UNCHANGED <<pid, pc, ver>>
  /\ UNCHANGED <<download, staged, Host, powerLoss>>

(***************************************************************************)
(* http_download always starts over: the file is truncated and streamed.   *)
(* A body over the cap is unlinked, a read error leaves the part that      *)
(* came.                                                                   *)
(***************************************************************************)
HttpDownload ==
  /\ pc = "fetch" /\ ver \notin LocalTarballs
  /\ \/ download' \in {"wrong", "good"} /\ pc' = "verify" /\ UNCHANGED <<pid, ver, staged>>
     \/ Ends
  /\ UNCHANGED <<staging, Host, powerLoss>>

\* verify_local: a runner_tarball is used as it is, if it is a regular file.
UseLocalTarball ==
  /\ pc = "fetch" /\ ver \in LocalTarballs
  /\ \/ download' = "local" /\ pc' = "stage" /\ UNCHANGED <<pid, ver, staged>>
     \/ Ends
  /\ UNCHANGED <<staging, Host, powerLoss>>

\* sha256_of against the release; a mismatch unlinks the file if it can.
DownloadAndVerify ==
  /\ pc = "verify"
  /\ IF download = "good"
       THEN pc' = "stage" /\ UNCHANGED <<pid, ver, download, staged>>
       ELSE Ends
  /\ UNCHANGED <<staging, Host, powerLoss>>

\* An existing directory of that name is removed, a new one made with 0700.
MakeStaging ==
  /\ pc = "stage"
  /\ Cardinality({s \in staging : ~Mine(s)}) < MaxStaging
  /\ staging' = {s \in staging : ~Mine(s)} \cup {[ver |-> ver, pid |-> pid, stale |-> FALSE]}
  /\ staged' = Tree("partial", FALSE)
  /\ pc' = "extract"
  /\ UNCHANGED <<pid, ver, download, Host, powerLoss>>

\* Every member of the archive is extracted and every directory of the tree flushed.
ExtractTarball ==
  /\ pc = "extract"
  /\ staged' = Tree(IF download \in {"good", "local"} THEN "whole" ELSE "partial", FALSE)
  /\ pc' = "swap"
  /\ UNCHANGED <<pid, ver, download, staging, Host, powerLoss>>

(***************************************************************************)
(* extract_and_swap_from_file.  Over an existing tree: exchange the two    *)
(* names, or remove first and then rename (no RENAME_EXCHANGE) or copy     *)
(* (another file system).  Otherwise rename, or copy.                      *)
(***************************************************************************)
Swap ==
  /\ pc = "swap"
  /\ IF tree[ver].data = "absent"
       THEN /\ pc' \in {"move", "copy"}
            /\ UNCHANGED <<tree, dirty, Dates, staged>>
       ELSE \/ /\ Put(staged)
               /\ staged' = tree[ver]
               /\ pc' = "discard"
            \/ /\ pc' = "clear"
               /\ UNCHANGED <<tree, dirty, Dates, staged>>
  /\ UNCHANGED <<pid, ver, download, staging, link, unit, powerLoss, clockSteps>>

\* remove_dir_all of the old tree takes a while: a part of it may be left.
Clear ==
  /\ pc = "clear"
  /\ \/ /\ tree[ver].data = "whole"
        /\ tree' = [tree EXCEPT ![ver].data = "partial"]
        /\ Written({ver}, Present)
        /\ UNCHANGED pc
     \/ /\ tree' = [tree EXCEPT ![ver] = NoTree]
        /\ pc' \in {"move", "copy"}
        /\ Written({}, Present \ {ver})
  /\ UNCHANGED <<pid, ver, download, staging, staged, dirty, link, unit, powerLoss, clockSteps, late>>

\* rename(2) of the staging directory.
Move ==
  /\ pc = "move"
  /\ Put(staged)
  /\ staging' = {s \in staging : ~Mine(s)}
  /\ pc' = "mode"
  /\ UNCHANGED <<pid, ver, download, staged, link, unit, powerLoss, clockSteps>>

\* copy_dir_recursive: the tree grows in its final place.
Copy ==
  /\ pc = "copy"
  /\ \/ tree[ver].data = "absent" /\ Put(Tree("partial", FALSE)) /\ UNCHANGED pc
     \/ Put(staged) /\ pc' = "discard"
  /\ UNCHANGED <<pid, ver, download, staging, staged, link, unit, powerLoss, clockSteps>>

\* What is left under the staging name goes, then the directories are flushed.
Discard ==
  /\ pc = "discard"
  /\ staging' = {s \in staging : ~Mine(s)}
  /\ pc' = "mode"
  /\ UNCHANGED <<pid, ver, download, staged, Host, powerLoss>>

SetMode ==
  /\ pc = "mode"
  /\ tree' = [tree EXCEPT ![ver].open = TRUE]
  /\ pc' = "prune"
  /\ UNCHANGED <<pid, ver, download, staging, staged, dirty, Dates, link, unit, powerLoss>>

\* A step fails: the staging directory is removed if that is possible.
InstallFails ==
  /\ pc \in {"stage", "extract", "swap", "clear", "move", "copy", "discard", "mode"}
  /\ staging' \in {staging, {s \in staging : ~Mine(s)}}
  /\ Ends
  /\ UNCHANGED <<Host, powerLoss>>

\* prune_old_bin_versions: a tree that cannot be removed is left half removed.
Prune ==
  /\ pc = "prune"
  /\ \E failed \in SUBSET Prunable :
       /\ tree' = [v \in Versions |->
                     IF v \in failed THEN [tree[v] EXCEPT !.data = "partial"]
                     ELSE IF v \in Prunable THEN NoTree ELSE tree[v]]
       /\ Written(failed, Present \ (Prunable \ failed))
  /\ pc' = "publish"
  /\ UNCHANGED <<pid, ver, download, staging, staged, dirty, link, unit, powerLoss, clockSteps, late>>

\* The rest of the create: the unit that starts bin.<version> is published, or not.
PublishUnit ==
  /\ pc = "publish"
  /\ unit' \in {ver, NoVersion}
  /\ Ends
  /\ UNCHANGED <<staging, tree, dirty, Dates, link, powerLoss>>

\* The runner is removed with its home.
RemoveRunner ==
  /\ pc = "idle" /\ unit # NoVersion
  /\ unit' = NoVersion /\ link' = NoVersion
  /\ tree' = [v \in Versions |-> NoTree] /\ newer' = {} /\ dirty' = NoVersion
  /\ ahead' = {}
  /\ UNCHANGED <<pid, pc, ver, download, staging, staged, powerLoss, clockSteps, late>>

Crash ==
  /\ pc # "idle"
  /\ Ends
  /\ UNCHANGED <<staging, Host, powerLoss>>

\* An operator points `bin' at a tree.
PointBin(v) ==
  /\ pc = "idle" /\ tree[v].data = "whole"
  /\ link' = v
  /\ UNCHANGED <<pid, pc, ver, download, staging, staged, tree, dirty, Dates, unit, powerLoss>>

\* Somebody touches a tree: its mtime is now, or a time to come.
Touch(v) ==
  /\ v \in Present
  /\ newer' = {p \in newer : v \notin {p[1], p[2]}} \cup ({v} \X (Present \ {v}))
  /\ ahead' \in {ahead \cup {v}} \cup (IF Dated THEN {} ELSE {ahead \ {v}})
  /\ late' = (late \/ (pc # "idle" /\ v # ver))
  /\ UNCHANGED <<pid, pc, ver, download, staging, staged, tree, dirty, link, unit, powerLoss, clockSteps>>

\* The clock is set back: what there is looks as if it was made in the future.  While the
\* staged tree waits for its place that is the same as right after it: all have their dates.
ClockBack ==
  /\ ~Dated
  /\ clockSteps < MaxClockSteps /\ clockSteps' = clockSteps + 1
  /\ ahead' = Present
  /\ staging' = {[s EXCEPT !.stale = FALSE] : s \in staging}
  /\ UNCHANGED <<pid, pc, ver, download, staged, tree, dirty, newer, link, unit, powerLoss, late>>

\* Time passes: the kernel writes files back, staging directories grow old and the
\* clock may reach the latest mtime.
Tick ==
  /\ staging' = {[s EXCEPT !.stale = TRUE] : s \in staging}
  /\ dirty' = NoVersion
  /\ ahead' \in {ahead} \cup (IF Dated THEN {} ELSE {{}})
  /\ UNCHANGED <<pid, pc, ver, download, staged, tree, newer, link, unit, powerLoss, clockSteps, late>>

\* A power failure: files that were not written back are lost or cut short.
PowerFails ==
  /\ powerLoss < MaxPowerLoss
  /\ powerLoss' = powerLoss + 1
  /\ tree' = [v \in Versions |-> IF v = dirty /\ tree[v].data = "whole"
                                  THEN [tree[v] EXCEPT !.data = "partial"] ELSE tree[v]]
  /\ dirty' = NoVersion
  /\ Ends
  /\ UNCHANGED <<staging, Dates, link, unit>>

InstallStep == HttpDownload \/ UseLocalTarball \/ DownloadAndVerify \/ MakeStaging
               \/ ExtractTarball \/ Swap \/ Clear \/ Move \/ Copy \/ Discard \/ SetMode
               \/ InstallFails \/ Prune \/ PublishUnit

Next ==
  \/ \E p \in Pids, v \in Versions : Apply(p, v)
  \/ InstallStep
  \/ RemoveRunner \/ Crash \/ Tick \/ ClockBack \/ PowerFails
  \/ \E v \in Versions : PointBin(v) \/ Touch(v)

Spec == Init /\ [][Next]_vars

\* An install goes on, time passes, and applies with every process id recur.
FairSpec ==
  /\ Spec
  /\ WF_vars(InstallStep) /\ WF_vars(Tick)
  /\ \A p \in Pids : SF_vars(\E v \in Versions :
                               Apply(p, v) /\ staging' = staging \ StaleStaging(p))

-----------------------------------------------------------------------------
(* Properties.                                                             *)

(***************************************************************************)
(* A published unit starts a tree that the runner's user may read and that *)
(* holds every file of a tarball whose checksum was right, or of the local *)
(* runner_tarball, which is not checked: whatever install failed or died   *)
(* before it, on whichever path the tree came to its place, and although   *)
(* the prune runs in between.  After a power failure files may be cut      *)
(* short, but the tree is there.  Nothing is said when the new tree was    *)
(* not the newest by its date, because the clock had been set back or      *)
(* somebody touched another tree: the prune may then remove the new one.   *)
(***************************************************************************)
UnitHasTree ==
  unit # NoVersion /\ ~late =>
    /\ tree[unit].open
    /\ tree[unit].data \in (IF powerLoss = 0 THEN {"whole"} ELSE {"whole", "partial"})

\* A staging tree that a killed install left is removed, or replaced, some time, also when
\* the clock makes it young again: said of one name, which stands for all of them.
StagingSwept ==
  LET Left == \E s \in staging : /\ s.ver = (CHOOSE v \in Versions : TRUE)
                                 /\ s.pid = (CHOOSE p \in Pids : TRUE)
                                 /\ s.stale
  IN Left ~> ~Left
=============================================================================
