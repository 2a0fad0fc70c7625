----------------------------- MODULE RunnerApply -----------------------------
(***************************************************************************)
(* One runner on one host, through any sequence of `ghars apply` runs:     *)
(* plan (src/plan/compute.rs), the runner actions (src/apply/runners.rs,   *)
(* src/apply/update_runner.rs), rollback (src/apply/undo.rs), the GitHub   *)
(* reconciliation (src/cli/cmd_apply.rs) and what discovery                *)
(* (src/state.rs) can see of the result.                                   *)
(*                                                                         *)
(* A spec stands for an EffectiveRunnerSpec.  Its spec hash is the spec    *)
(* itself (the hash is taken to be injective), the body of a file rendered *)
(* for it is the spec, and three functions give the parts the planner and  *)
(* the actions tell apart: the recreate-bound fields (Identity; url is the *)
(* representative, so every identity has a GitHub registration of its      *)
(* own), the trust zone, which names the home directory, and the set of    *)
(* optional drop-ins.  Drop-in 0 is 00-ghars.conf, which carries the spec  *)
(* hash, the identity annotations and ExecStart.                           *)
(*                                                                         *)
(* An apply runs alone: ApplyLock is about that.  Every call that can fail *)
(* does so before it has taken effect or, in the way of a lost D-Bus reply *)
(* or an fsync error after the rename, after it; a crash may come between  *)
(* any two calls.  Starting and stopping a unit take effect at the call.   *)
(***************************************************************************)
EXTENDS Naturals, Sequences, FiniteSets

CONSTANTS
  Specs,          \* effective specs the configuration may ask for
  Ids,            \* values of the recreate-bound fields
  Zones,          \* trust zones
  None,           \* no spec, no identity, no process
  DefaultZone,    \* "default", used when the annotation is missing
  Identity,       \* spec -> its recreate-bound fields
  TrustZone,      \* spec -> its trust zone
  Optional,       \* spec -> the drop-ins rendered for it besides 0
  MaxDropIn,      \* drop-ins are numbered 0 .. MaxDropIn
  RollbackModes,  \* values of --rollback-on-failure that operators use
  NoRestartModes, \* values of --no-restart that operators use
  Siblings,       \* trust zones in which another runner of the host runs
  EditKinds,      \* which of AllEditKinds happen
  FaultKinds,     \* which of AllFaultKinds happen
  MaxFaults,      \* bound on failing calls
  MaxCrashes,     \* bound on crashes of the apply process
  MaxEdits        \* bound on what operators do between applies

\* A call fails "before" or "after" it has taken effect, a step of "undo" or a
\* removal of "reconcile" fails, a file cannot be "read", a process does not "start".
AllFaultKinds == {"before", "after", "undo", "reconcile", "read", "start"}

\* Operators edit "config", also after a failed apply ("impatient"), or a "unit",
\* or delete a "registration".
AllEditKinds == {"config", "impatient", "unit", "registration"}

ASSUME RunnerConstants ==
  /\ None \notin Specs \cup Ids
  /\ DefaultZone \in Zones
  /\ Identity \in [Specs -> Ids]
  /\ TrustZone \in [Specs -> Zones]
  /\ MaxDropIn \in Nat
  /\ Optional \in [Specs -> SUBSET (1 .. MaxDropIn)]
  /\ RollbackModes \subseteq BOOLEAN /\ NoRestartModes \subseteq BOOLEAN
  /\ Siblings \subseteq Zones
  /\ FaultKinds \subseteq AllFaultKinds /\ EditKinds \subseteq AllEditKinds
  /\ MaxFaults \in Nat /\ MaxCrashes \in Nat /\ MaxEdits \in Nat

VARIABLES
  desired,  \* the spec ghars.toml asks for, or None
  unit,     \* ghars-runner@NAME.service: "absent", "template" or "edited"
  dropIn,   \* managed drop-ins: number -> the spec whose body it holds, or None
  oper,     \* an operator's drop-in (99-*.conf) is present
  bin,      \* zone -> the identity whose installation and credentials it holds
  env,      \* zone -> the spec whose .env, .path and cleanup script it holds
  tight,    \* zones whose home was handed to the DynamicUser and tightened
  github,   \* identities registered with GitHub
  enabled,  \* the unit is enabled
  loaded,   \* the configuration systemd has in memory, or None
  running,  \* the configuration the runner process was started with, or None
  session,  \* the live registration that process holds the credentials of, or None
  pc,       \* where the apply process is; "idle" when there is none
  opts,     \* its options
  plan,     \* the action it executes
  saved,    \* a recreate holds a copy of the operator's drop-in
  todo,     \* drop-ins still to be written
  changed,  \* files_changed > 0
  log,      \* the UndoLog
  outcome,  \* the ApplyOutcome of the action
  before,   \* ghost: files and process when the action began
  unread,   \* ghost: files of this action that were there and could not be read
  clean,    \* ghost: no "after" fault and no failed undo step in this action
  faults, crashes, edits    \* how much of the bounds is used

files   == <<unit, dropIn, oper>>
home    == <<bin, env, tight>>
service == <<enabled, loaded, running, session>>
call    == <<opts, plan, saved, before, unread>>
world   == <<desired, crashes, edits>>
vars == <<files, home, service, call, world, github, pc, todo, changed, log,
          outcome, clean, faults>>

DropIns == 0 .. MaxDropIn
SpecOrNone == Specs \cup {None}
OperDropIn == MaxDropIn + 1   \* the operator's drop-in, sorted behind the managed ones
EnvFiles == MaxDropIn + 2     \* .env, .path and the cleanup script of a home
ReadFiles == DropIns \cup {None, OperDropIn, EnvFiles}   \* None is the unit file
UnitStates == {"absent", "template", "edited"}
Conf == [unit : UnitStates, drop : [DropIns -> SpecOrNone], oper : BOOLEAN]
UndoSteps ==
  [op : {"unit"}, at : {None}, prior : UnitStates]
    \cup [op : {"dropIn"}, at : DropIns, prior : SpecOrNone]
    \cup [op : {"env", "register", "tighten"}, at : Zones, prior : SpecOrNone]
    \cup [op : {"enable", "start", "oper", "removal"}, at : {None}, prior : {None}]
Kinds == {"nothing", "noop", "create", "inplace", "recreate", "remove"}
Outcomes == {"pending", "crashed", "Failed", "NoOp", "Created", "Removed", "Recreated",
             "InPlaceSkipped", "InPlaceRewroteNoRestart", "InPlaceRestarted"}
Locations == {"idle", "reconcile", "install", "register", "env", "unit", "stale",
              "dropins", "decide", "enable", "reload", "start", "tighten", "restore",
              "snapshot", "stop", "disable", "deregister", "rmunit", "rmdropins", "rmhome",
              "undo", "final"}

-----------------------------------------------------------------------------
(* Mutated forms of the definitions below: plausible slips in the code.    *)

\* Renders a drop-in whose name is not among the managed ones.
RenderedUnmanaged(s) == {0, MaxDropIn + 1} \cup Optional[s]

-----------------------------------------------------------------------------
(* Rendering, discovery and planning.                                      *)

\* The drop-ins render_runner_unit produces.
Rendered(s) == {0} \cup Optional[s]

\* What systemd reads for the unit.
DiskConf == [unit |-> unit, drop |-> dropIn, oper |-> oper]

\* state.rs lists runners by unit file only.
Visible == unit # "absent"

\* classify_drift: managed drop-ins are not compared with anything.
InSync == unit = "template" /\ ~oper

\* classify_recreate_reasons: a missing annotation is never a reason.
RequiresRecreate(old, new) == old # None /\ Identity[old] # Identity[new]

\* plan_from_with_latest for one name; running and enabled are not consulted.
PlannedKind ==
  CASE desired = None /\ ~Visible -> "nothing"
    [] desired = None /\ Visible -> "remove"
    [] desired # None /\ ~Visible -> "create"
    [] OTHER -> IF dropIn[0] = desired /\ InSync THEN "noop"
                ELSE IF RequiresRecreate(dropIn[0], desired) THEN "recreate"
                ELSE "inplace"

\* Home of the runner as reconstruct_identity sees it.
OldZone == IF plan.from = None THEN DefaultZone ELSE TrustZone[plan.from]
NewZone == TrustZone[plan.to]

InPlace == plan.kind = "inplace"

-----------------------------------------------------------------------------
(* How a step of the running action ends.                                  *)

\* An UndoStep.  "removal" stands for the reverse-direction kinds.
UndoStep(op, at, prior) == [op |-> op, at |-> at, prior |-> prior]

Goto(l) == pc' = l /\ UNCHANGED <<outcome, clean, faults>>

Finish(result) == pc' = "final" /\ outcome' = result /\ UNCHANGED <<clean, faults>>

Push(step) == log' = Append(log, step)

CountFault == faults < MaxFaults /\ faults' = faults + 1

\* record_action_failure: roll back if asked to, then report.
Fail ==
  /\ pc' = IF opts.rollback THEN "undo" ELSE "final"
  /\ outcome' = "Failed"
  /\ UNCHANGED log

Abort == Fail /\ CountFault

\* The call fails without effect.
FailsBefore == "before" \in FaultKinds /\ Abort /\ UNCHANGED clean

\* The call reports failure although its effect is there; nothing is logged.
FailsAfter == "after" \in FaultKinds /\ Abort /\ clean' = FALSE

\* read_prior, snapshot_operator_drop_ins: a file that cannot be read is warned
\* about and taken for absent.
ReadFails(file, l) ==
  /\ "read" \in FaultKinds /\ CountFault
  /\ unread' = unread \cup {file}
  /\ pc' = l
  /\ UNCHANGED <<outcome, clean>>

-----------------------------------------------------------------------------
(* Mutated forms of the steps below: plausible slips in the code.          *)

\* Restarts without daemon_reload.
ReloadForgotten ==
  /\ pc = "reload"
  /\ Goto(IF InPlace THEN "stop" ELSE "start")
  /\ loaded' = IF loaded = None THEN DiskConf ELSE loaded
  /\ UNCHANGED <<files, home, enabled, running, session, call, world, github, todo, changed, log>>

\* Deletes the managed drop-ins only.
RemoveDropInsManaged ==
  /\ pc = "rmdropins"
  /\ dropIn' = [i \in DropIns |-> None]
  /\ Goto("rmhome") /\ Push(UndoStep("removal", None, None))
  /\ UNCHANGED <<unit, oper, home, service, call, world, github, todo, changed>>

\* Does not wait for the DynamicUser.
TightenUnpolled ==
  /\ pc = "tighten"
  /\ tight' = tight \cup {NewZone}
  /\ IF plan.kind = "recreate" THEN Goto("restore") ELSE Finish("Created")
  /\ Push(UndoStep("tighten", NewZone, None))
  /\ UNCHANGED <<files, bin, env, service, call, world, github, todo, changed>>

-----------------------------------------------------------------------------
Init ==
  /\ desired \in SpecOrNone
  /\ unit = "absent" /\ dropIn = [i \in DropIns |-> None] /\ oper = FALSE
  /\ bin = [z \in Zones |-> None] /\ env = [z \in Zones |-> None] /\ tight = {}
  /\ github = {}
  /\ enabled = FALSE /\ loaded = None /\ running = None /\ session = None
  /\ pc = "idle"
  /\ opts = [rollback |-> FALSE, noRestart |-> FALSE]
  /\ plan = [kind |-> "nothing", from |-> None, to |-> None] /\ saved = FALSE
  /\ before = [conf |-> DiskConf, running |-> None] /\ unread = {}
  /\ todo = {} /\ changed = FALSE /\ log = <<>>
  /\ outcome = "pending" /\ clean = TRUE
  /\ faults = 0 /\ crashes = 0 /\ edits = 0

\* cmd_apply: plan from the host as it is, then execute the one action.
Begin(rollback, noRestart) ==
  /\ pc = "idle"
  /\ opts' = [rollback |-> rollback, noRestart |-> noRestart]
  /\ plan' = [kind |-> PlannedKind, from |-> dropIn[0], to |-> desired]
  /\ saved' = FALSE
  /\ before' = [conf |-> DiskConf, running |-> running]
  /\ unread' = {}
  /\ pc' = CASE PlannedKind = "nothing" -> "final"
             [] PlannedKind = "noop" -> "reconcile"
             [] PlannedKind = "create" -> "install"
             [] PlannedKind = "inplace" -> "unit"
             [] PlannedKind = "recreate" -> "snapshot"
             [] OTHER -> "stop"
  /\ outcome' = IF PlannedKind = "nothing" THEN "NoOp" ELSE "pending"
  /\ log' = <<>> /\ todo' = {} /\ changed' = FALSE /\ clean' = TRUE
  /\ UNCHANGED <<files, home, service, world, github, faults>>

\* reconcile_github_registrations: a runner that is in sync on disk but unknown
\* to GitHub loses unit file and drop-ins, and the plan is made again, once.  An
\* API error counts as registered.  A failing removal is only warned about: the
\* unit file stays, or the drop-ins that remove_dir_all had not reached.
Reconcile ==
  /\ pc = "reconcile"
  /\ \/ /\ Finish("NoOp")
        /\ UNCHANGED <<unit, dropIn, plan, before>>
     \/ \E left \in SUBSET DropIns :
        /\ Identity[plan.to] \notin github
        /\ unit' \in {"absent", unit}
        /\ dropIn' = [i \in DropIns |-> IF i \in left THEN dropIn[i] ELSE None]
        /\ \/ unit' = "absent" /\ left = {} /\ UNCHANGED faults
           \/ "reconcile" \in FaultKinds /\ faults < MaxFaults /\ faults' = faults + 1
        /\ plan' = [plan EXCEPT !.kind = IF unit' = "absent" THEN "create"
                                         ELSE IF dropIn'[0] = None THEN "inplace" ELSE "noop",
                                !.from = dropIn'[0]]
        /\ before' = [conf |-> [unit |-> unit', drop |-> dropIn', oper |-> oper],
                      running |-> running]
        /\ pc' = CASE plan'.kind = "create" -> "install"
                   [] plan'.kind = "inplace" -> "unit"
                   [] OTHER -> "final"
        /\ outcome' = IF plan'.kind = "noop" THEN "NoOp" ELSE "pending"
        /\ UNCHANGED clean
  /\ UNCHANGED <<oper, home, service, world, github, opts, saved, unread, todo, changed, log>>

-----------------------------------------------------------------------------
(* execute_create_runner                                                   *)

\* Directories, tarball, install_binary (a fresh bin dir: no .env, apply-time
\* modes) and prune; none of it is undone.
Install ==
  /\ pc = "install"
  /\ \/ /\ bin' = [bin EXCEPT ![NewZone] = Identity[plan.to]]
        /\ env' = [env EXCEPT ![NewZone] = None]
        /\ tight' = tight \ {NewZone}
        /\ \/ Goto("register") /\ UNCHANGED log
           \/ FailsAfter
     \/ FailsBefore /\ UNCHANGED home
  /\ UNCHANGED <<files, service, call, world, github, todo, changed>>

\* config.sh --replace: new credentials; a running process has the old ones.
Register ==
  /\ pc = "register"
  /\ \/ /\ github' = github \cup {Identity[plan.to]}
        /\ session' = IF session = Identity[plan.to] THEN None ELSE session
        /\ \/ Goto("env") /\ Push(UndoStep("register", NewZone, None))
           \/ FailsAfter
     \/ FailsBefore /\ UNCHANGED <<github, session>>
  /\ UNCHANGED <<files, home, enabled, loaded, running, call, world, todo, changed>>

\* enable_unit
Enable ==
  /\ pc = "enable"
  /\ \/ /\ enabled' = TRUE
        /\ \/ Goto("reload") /\ Push(UndoStep("enable", None, None))
           \/ FailsAfter
     \/ FailsBefore /\ UNCHANGED enabled
  /\ UNCHANGED <<files, home, loaded, running, session, call, world, github, todo, changed>>

\* The DynamicUser of the new spec's zone exists while a process of the zone
\* runs: this runner's, or a sibling's.
UserExists ==
  \/ NewZone \in Siblings
  \/ running # None /\ running.drop[0] # None /\ TrustZone[running.drop[0]] = NewZone

\* poll_dynamic_user_uid, chown_and_tighten_runner_state, verify_runner_netns.
\* (The arm for a caller that is not root is not reached: install_binary has
\* refused such a caller.)
Tighten ==
  /\ pc = "tighten"
  /\ \/ /\ UserExists
        /\ tight' = tight \cup {NewZone}
        /\ \/ /\ IF plan.kind = "recreate" THEN Goto("restore") ELSE Finish("Created")
              /\ Push(UndoStep("tighten", NewZone, None))
           \/ FailsAfter
     \/ ~UserExists /\ Fail /\ UNCHANGED <<tight, clean, faults>>
     \/ FailsBefore /\ UNCHANGED tight
  /\ UNCHANGED <<files, bin, env, service, call, world, github, todo, changed>>

\* snapshot_operator_drop_ins, before the removal half of a recreate.
Snapshot ==
  /\ pc = "snapshot"
  /\ \/ /\ saved' = oper
        /\ Goto("stop")
        /\ UNCHANGED unread
     \/ oper /\ ReadFails(OperDropIn, "stop") /\ UNCHANGED saved
  /\ UNCHANGED <<files, home, service, opts, plan, before, world, github, todo, changed, log>>

\* restore_operator_drop_ins: after the start, from the copy in memory; the
\* directory was emptied before, so undoing it deletes the file.
Restore ==
  /\ pc = "restore"
  /\ \/ /\ oper' = saved
        /\ \/ Finish("Recreated") /\ Push(UndoStep("oper", None, None))
           \/ FailsAfter
     \/ FailsBefore /\ UNCHANGED oper
  /\ UNCHANGED <<unit, dropIn, home, service, call, world, github, todo, changed>>

-----------------------------------------------------------------------------
(* Files: execute_create_runner writes them all, execute_update_runner     *)
(* those that differ from what is on disk.                                 *)

WriteEnv ==
  LET z == IF InPlace THEN OldZone ELSE NewZone
      next == IF InPlace THEN "decide" ELSE "unit"
  IN
  /\ pc = "env"
  /\ \/ /\ InPlace /\ env[z] = plan.to
        /\ Goto(next)
        /\ UNCHANGED <<env, changed, log, unread>>
     \/ /\ InPlace => env[z] # plan.to
        /\ env' = [env EXCEPT ![z] = plan.to]
        /\ changed' = TRUE
        /\ UNCHANGED unread
        /\ \/ Goto(next) /\ Push(UndoStep("env", z, env[z]))
           \/ FailsAfter
     \/ /\ env[z] # None /\ ReadFails(EnvFiles, next)
        /\ env' = [env EXCEPT ![z] = plan.to]
        /\ changed' = TRUE
        /\ Push(UndoStep("env", z, None))
     \/ FailsBefore /\ UNCHANGED <<env, changed, unread>>
  /\ UNCHANGED <<files, bin, tight, service, opts, plan, saved, before, world, github, todo>>

WriteUnit ==
  LET next == IF InPlace THEN "stale" ELSE "dropins" IN
  /\ pc = "unit"
  /\ todo' = Rendered(plan.to)
  /\ \/ /\ InPlace /\ unit = "template"
        /\ Goto(next)
        /\ UNCHANGED <<unit, changed, log, unread>>
     \/ /\ InPlace => unit # "template"
        /\ unit' = "template"
        /\ changed' = TRUE
        /\ UNCHANGED unread
        /\ \/ Goto(next) /\ Push(UndoStep("unit", None, unit))
           \/ FailsAfter
     \/ /\ unit # "absent" /\ ReadFails(None, next)
        /\ unit' = "template"
        /\ changed' = TRUE
        /\ Push(UndoStep("unit", None, "absent"))
     \/ FailsBefore /\ UNCHANGED <<unit, changed, unread>>
  /\ UNCHANGED <<dropIn, oper, home, service, opts, plan, saved, before, world, github>>

\* The in-place deletion loop over managed drop-ins that are no longer rendered.
RemoveStaleDropIn ==
  LET superseded == {i \in DropIns \ Rendered(plan.to) : dropIn[i] # None} IN
  /\ pc = "stale"
  /\ \/ /\ superseded = {}
        /\ Goto("dropins")
        /\ UNCHANGED <<dropIn, changed, log>>
     \/ \E i \in superseded :
          /\ dropIn' = [dropIn EXCEPT ![i] = None]
          /\ changed' = TRUE
          /\ Goto("stale") /\ Push(UndoStep("removal", None, None))
     \/ superseded # {} /\ FailsBefore /\ UNCHANGED <<dropIn, changed>>
  /\ UNCHANGED <<unit, oper, home, service, call, world, github, todo>>

\* The write loop, in file-name order: 00-ghars.conf comes first.
WriteDropIn ==
  /\ pc = "dropins"
  /\ \/ /\ todo = {}
        /\ Goto(IF InPlace THEN "env" ELSE "enable")
        /\ UNCHANGED <<dropIn, changed, log, todo, unread>>
     \/ \E i \in todo :
          /\ \A j \in todo : i <= j
          /\ todo' = todo \ {i}
          /\ \/ /\ InPlace /\ dropIn[i] = plan.to
                /\ Goto("dropins")
                /\ UNCHANGED <<dropIn, changed, log, unread>>
             \/ /\ InPlace => dropIn[i] # plan.to
                /\ dropIn' = [dropIn EXCEPT ![i] = plan.to]
                /\ changed' = TRUE
                /\ UNCHANGED unread
                /\ \/ Goto("dropins") /\ Push(UndoStep("dropIn", i, dropIn[i]))
                   \/ FailsAfter
             \/ /\ dropIn[i] # None /\ ReadFails(i, "dropins")
                /\ dropIn' = [dropIn EXCEPT ![i] = plan.to]
                /\ changed' = TRUE
                /\ Push(UndoStep("dropIn", i, None))
     \/ todo # {} /\ FailsBefore /\ UNCHANGED <<dropIn, changed, todo, unread>>
  /\ UNCHANGED <<unit, oper, home, service, opts, plan, saved, before, world, github>>

\* In place: nothing changed, or not to be restarted, or reload and restart.
Decide ==
  /\ pc = "decide"
  /\ \/ ~changed /\ Finish("InPlaceSkipped")
     \/ changed /\ opts.noRestart /\ Finish("InPlaceRewroteNoRestart")
     \/ changed /\ ~opts.noRestart /\ Goto("reload")
  /\ UNCHANGED <<files, home, service, call, world, github, todo, changed, log>>

-----------------------------------------------------------------------------
(* systemd: the calls of SystemdClient and what the manager does with them *)

\* daemon_reload before a (re)start.
Reload ==
  /\ pc = "reload"
  /\ \/ /\ loaded' = DiskConf
        /\ \/ Goto(IF InPlace THEN "stop" ELSE "start") /\ UNCHANGED log
           \/ FailsAfter
     \/ FailsBefore /\ UNCHANGED loaded
  /\ UNCHANGED <<files, home, enabled, running, session, call, world, github, todo, changed>>

\* ExecStart is in 00-ghars.conf and names a home by trust zone.
Runnable(conf) ==
  conf # None /\ conf.drop[0] # None /\ bin[TrustZone[conf.drop[0]]] # None

\* The registration a process started with conf authenticates to.
Credentials(conf) ==
  LET id == bin[TrustZone[conf.drop[0]]] IN IF id \in github THEN id ELSE None

\* start_unit: no effect on a running unit; success is reported before the
\* process is there: ExecStart may be missing, or the process not come up.
Start ==
  /\ pc = "start"
  /\ \/ /\ IF running = None /\ Runnable(loaded)
             THEN /\ running' = loaded
                  /\ session' = Credentials(loaded)
             ELSE UNCHANGED <<running, session>>
        /\ \/ /\ IF InPlace THEN Finish("InPlaceRestarted") ELSE Goto("tighten")
              /\ Push(UndoStep("start", None, None))
           \/ FailsAfter
     \/ /\ running = None /\ "start" \in FaultKinds /\ CountFault
        /\ pc' = IF InPlace THEN "final" ELSE "tighten"
        /\ outcome' = IF InPlace THEN "InPlaceRestarted" ELSE outcome
        /\ Push(UndoStep("start", None, None))
        /\ UNCHANGED <<running, session, clean>>
     \/ FailsBefore /\ UNCHANGED <<running, session>>
  /\ UNCHANGED <<files, home, enabled, loaded, call, world, github, todo, changed>>

\* stop_unit, of an in-place restart or of a removal.
Stop ==
  /\ pc = "stop"
  /\ \/ /\ running' = None /\ session' = None
        /\ \/ Goto(IF InPlace THEN "start" ELSE "disable")
              /\ Push(UndoStep("removal", None, None))
           \/ FailsAfter
     \/ FailsBefore /\ UNCHANGED <<running, session>>
  /\ UNCHANGED <<files, home, enabled, loaded, call, world, github, todo, changed>>

-----------------------------------------------------------------------------
(* execute_remove_runner                                                   *)

Disable ==
  /\ pc = "disable"
  /\ \/ /\ enabled' = FALSE
        /\ \/ Goto("deregister") /\ Push(UndoStep("removal", None, None))
           \/ FailsAfter
     \/ FailsBefore /\ UNCHANGED enabled
  /\ UNCHANGED <<files, home, loaded, running, session, call, world, github, todo, changed>>

\* Skipped without annotations; otherwise only a missing token is an error,
\* config.sh remove is best effort and needs the installed bin dir.
Deregister ==
  /\ pc = "deregister"
  /\ \/ /\ plan.from = None
        /\ Goto("rmunit")
        /\ UNCHANGED <<github, log>>
     \/ /\ plan.from # None
        /\ github' \in {github, github \ {bin[OldZone]}}
        /\ Goto("rmunit")
        /\ UNCHANGED log
     \/ plan.from # None /\ FailsBefore /\ UNCHANGED github
  /\ UNCHANGED <<files, home, service, call, world, todo, changed>>

RemoveUnit ==
  /\ pc = "rmunit"
  /\ \/ /\ unit' = "absent"
        /\ \/ Goto("rmdropins") /\ Push(UndoStep("removal", None, None))
           \/ FailsAfter
     \/ FailsBefore /\ UNCHANGED unit
  /\ UNCHANGED <<dropIn, oper, home, service, call, world, github, todo, changed>>

\* remove_dir_all of the drop-in directory: entry by entry, in any order.
RemoveDropIns ==
  /\ pc = "rmdropins"
  /\ \/ \E i \in DropIns :
          /\ dropIn[i] # None
          /\ dropIn' = [dropIn EXCEPT ![i] = None]
          /\ Goto("rmdropins")
          /\ UNCHANGED <<oper, log>>
     \/ /\ oper /\ oper' = FALSE
        /\ Goto("rmdropins")
        /\ UNCHANGED <<dropIn, log>>
     \/ /\ ~oper /\ \A i \in DropIns : dropIn[i] = None
        /\ Goto("rmhome") /\ Push(UndoStep("removal", None, None))
        /\ UNCHANGED <<dropIn, oper>>
     \/ FailsBefore /\ UNCHANGED <<dropIn, oper>>
  /\ UNCHANGED <<unit, home, service, call, world, github, todo, changed>>

\* guard_home_dir_rmrf, then remove_dir_all of the home in the old zone.
RemoveHome ==
  /\ pc = "rmhome"
  /\ \/ /\ bin' = [bin EXCEPT ![OldZone] = None]
        /\ env' = [env EXCEPT ![OldZone] = None]
        /\ tight' = tight \ {OldZone}
        /\ \/ /\ IF plan.kind = "remove" THEN Finish("Removed") ELSE Goto("install")
              /\ Push(UndoStep("removal", None, None))
           \/ FailsAfter
     \/ FailsBefore /\ UNCHANGED home
  /\ UNCHANGED <<files, service, call, world, github, todo, changed>>

-----------------------------------------------------------------------------
(* undo: the log from its end, one step at a time.                         *)

\* The step to undo is removed from the log; pc moves on when it was the last.
Undoing(ops) ==
  /\ pc = "undo" /\ log # <<>>
  /\ log[Len(log)].op \in ops
  /\ log' = SubSeq(log, 1, Len(log) - 1)
  /\ UNCHANGED <<pc, call, world, todo, changed, outcome>>

\* Undoes unit, environment and override, not the drop-ins.
UndoFileNoDropIn ==
  LET step == log[Len(log)] IN
  /\ Undoing({"unit", "dropIn", "env", "oper"})
  /\ unit' = IF step.op = "unit" THEN step.prior ELSE unit
  /\ env' = IF step.op = "env" THEN [env EXCEPT ![step.at] = step.prior] ELSE env
  /\ oper' = (oper /\ step.op # "oper")
  /\ UNCHANGED <<dropIn, bin, tight, service, github, clean, faults>>

\* Leaves the process that was started running.
UndoServiceKeepsProcess ==
  LET op == log[Len(log)].op IN
  /\ Undoing({"start", "enable"})
  /\ enabled' = (enabled /\ op # "enable")
  /\ UNCHANGED <<files, home, loaded, running, session, github, clean, faults>>

UndoFile ==
  LET step == log[Len(log)] IN
  /\ Undoing({"unit", "dropIn", "env", "oper"})
  /\ unit' = IF step.op = "unit" THEN step.prior ELSE unit
  /\ dropIn' = IF step.op = "dropIn" THEN [dropIn EXCEPT ![step.at] = step.prior] ELSE dropIn
  /\ env' = IF step.op = "env" THEN [env EXCEPT ![step.at] = step.prior] ELSE env
  /\ oper' = (oper /\ step.op # "oper")
  /\ UNCHANGED <<bin, tight, service, github, clean, faults>>

UndoService ==
  LET op == log[Len(log)].op IN
  /\ Undoing({"start", "enable"})
  /\ running' = IF op = "start" THEN None ELSE running
  /\ session' = IF op = "start" THEN None ELSE session
  /\ enabled' = (enabled /\ op # "enable")
  /\ UNCHANGED <<files, home, loaded, github, clean, faults>>

\* Deregistration is best effort here too.
UndoHome ==
  LET step == log[Len(log)] IN
  /\ Undoing({"register", "tighten"})
  /\ tight' = IF step.op = "tighten" THEN tight \ {step.at} ELSE tight
  /\ github' \in IF step.op = "register" THEN {github, github \ {bin[step.at]}} ELSE {github}
  /\ UNCHANGED <<files, bin, env, service, clean, faults>>

\* A reverse-direction step is skipped, a failing one is warned about.
UndoSkips ==
  /\ \/ Undoing({"removal"}) /\ UNCHANGED <<clean, faults>>
     \/ /\ Undoing({"unit", "dropIn", "env", "oper", "start", "enable", "register", "tighten"})
        /\ "undo" \in FaultKinds /\ faults < MaxFaults
        /\ faults' = faults + 1
        /\ clean' = FALSE
  /\ UNCHANGED <<files, home, service, github>>

UndoDone ==
  /\ pc = "undo" /\ log = <<>>
  /\ Goto("final")
  /\ UNCHANGED <<files, home, service, call, world, github, todo, changed, log>>

\* The daemon_reload at the end of every apply, then exit.
Final ==
  /\ pc = "final"
  /\ \/ /\ loaded' = IF Visible THEN DiskConf ELSE None
        /\ UNCHANGED faults
     \/ /\ "before" \in FaultKinds /\ faults < MaxFaults
        /\ faults' = faults + 1
        /\ UNCHANGED loaded
  /\ pc' = "idle"
  /\ log' = <<>> /\ todo' = {} /\ changed' = FALSE
  /\ UNCHANGED <<files, home, enabled, running, session, call, world, github,
                 outcome, clean>>

-----------------------------------------------------------------------------
(* The rest of the world.                                                  *)

\* The apply process dies: its log and its copy of the overrides are gone.
Crash ==
  /\ pc # "idle" /\ crashes < MaxCrashes
  /\ crashes' = crashes + 1
  /\ pc' = "idle" /\ outcome' = "crashed"
  /\ log' = <<>> /\ todo' = {} /\ changed' = FALSE
  /\ UNCHANGED <<files, home, service, call, github, desired, edits, clean, faults>>

BetweenApplies(kind) ==
  kind \in EditKinds /\ pc = "idle" /\ edits < MaxEdits /\ edits' = edits + 1

EditConfig ==
  /\ BetweenApplies("config")
  /\ outcome = "Failed" => "impatient" \in EditKinds
  /\ desired' \in SpecOrNone \ {desired}
  /\ UNCHANGED <<files, home, service, call, github, crashes, pc, todo, changed,
                 log, outcome, clean, faults>>

\* `systemctl edit`: a drop-in of the operator's, or the unit file itself.
EditUnit ==
  /\ BetweenApplies("unit") /\ Visible
  /\ \/ ~oper /\ oper' = TRUE /\ UNCHANGED unit
     \/ unit = "template" /\ unit' = "edited" /\ UNCHANGED oper
  /\ UNCHANGED <<dropIn, home, service, call, github, desired, crashes, pc, todo,
                 changed, log, outcome, clean, faults>>

\* Someone deletes the runner in the GitHub UI.
DeleteRegistration ==
  /\ BetweenApplies("registration")
  /\ \E id \in github :
       /\ github' = github \ {id}
       /\ session' = IF session = id THEN None ELSE session
  /\ UNCHANGED <<files, home, enabled, loaded, running, call, desired, crashes, pc,
                 todo, changed, log, outcome, clean, faults>>

Apply == \E rollback \in RollbackModes, noRestart \in NoRestartModes : Begin(rollback, noRestart)

Step ==
  \/ Reconcile \/ Install \/ Register \/ Enable \/ Tighten
  \/ Snapshot \/ Restore \/ WriteEnv \/ WriteUnit \/ RemoveStaleDropIn \/ WriteDropIn \/ Decide
  \/ Reload \/ Start \/ Stop
  \/ Disable \/ Deregister \/ RemoveUnit \/ RemoveDropIns \/ RemoveHome
  \/ UndoFile \/ UndoService \/ UndoHome \/ UndoSkips \/ UndoDone \/ Final

Next == Apply \/ Step \/ Crash \/ EditConfig \/ EditUnit \/ DeleteRegistration

Spec == Init /\ [][Next]_vars

(***************************************************************************)
(* An apply that runs goes on (its calls time out), and operators run      *)
(* apply again and again.                                                  *)
(***************************************************************************)
FairSpec == Spec /\ WF_vars(Step) /\ WF_vars(Apply)

-----------------------------------------------------------------------------
HostOK ==
  /\ desired \in SpecOrNone
  /\ unit \in UnitStates
  /\ dropIn \in [DropIns -> SpecOrNone]
  /\ oper \in BOOLEAN
  /\ bin \in [Zones -> Ids \cup {None}]
  /\ env \in [Zones -> SpecOrNone]
  /\ tight \subseteq Zones
  /\ github \subseteq Ids

ServiceOK ==
  /\ enabled \in BOOLEAN
  /\ loaded \in Conf \cup {None}
  /\ running \in Conf \cup {None}
  /\ session \in Ids \cup {None}

CallOK ==
  /\ opts \in [rollback : BOOLEAN, noRestart : BOOLEAN]
  /\ plan \in [kind : Kinds, from : SpecOrNone, to : SpecOrNone]
  /\ saved \in BOOLEAN
  /\ before \in [conf : Conf, running : Conf \cup {None}]
  /\ unread \subseteq ReadFiles

ControlOK ==
  /\ pc \in Locations
  /\ outcome \in Outcomes
  /\ clean \in BOOLEAN
  /\ todo \subseteq DropIns
  /\ changed \in BOOLEAN
  /\ faults \in Nat /\ crashes \in Nat /\ edits \in Nat

TypeOK == HostOK /\ ServiceOK /\ CallOK /\ ControlOK /\ log \in Seq(UndoSteps)

\* The action is over and the apply is about to exit.
Reports(results) == pc = "final" /\ outcome \in results

\* Every drop-in rendered for s is on disk with the body rendered for s.
Covers(s) == unit = "template" /\ \A i \in Rendered(s) : dropIn[i] = s

\* And no other managed drop-in is.
Exact(s) == Covers(s) /\ \A i \in DropIns \ Rendered(s) : dropIn[i] = None

(***************************************************************************)
(* When execute_create_runner reports success the runner is all there: its *)
(* files, its installation and registration, enabled and tightened,        *)
(* whatever earlier applies left behind.  Its process is up as well,       *)
(* unless a sibling of the trust zone was: the poll asks for the zone's    *)
(* user, which the sibling has.                                            *)
(***************************************************************************)
CreatedIsComplete ==
  Reports({"Created", "Recreated"}) =>
    /\ Covers(plan.to)
    /\ bin[NewZone] = Identity[plan.to] /\ env[NewZone] = plan.to /\ NewZone \in tight
    /\ Identity[plan.to] \in github
    /\ enabled
    /\ NewZone \notin Siblings => running # None

(***************************************************************************)
(* A successful update leaves exactly the managed drop-ins of the new      *)
(* spec and the operator's override, which a recreate loses only when it   *)
(* could not read it; a process of a runner it restarted runs them, and a  *)
(* runner it did not restart is untouched.                                 *)
(***************************************************************************)
UpdatedIsExact ==
  Reports({"Recreated", "InPlaceRestarted", "InPlaceSkipped", "InPlaceRewroteNoRestart"}) =>
    /\ Exact(plan.to)
    /\ \/ oper = before.conf.oper
       \/ outcome = "Recreated" /\ OperDropIn \in unread /\ ~oper
    /\ IF outcome \in {"Recreated", "InPlaceRestarted"}
         THEN running # None => running.drop = dropIn
         ELSE running = before.running

(***************************************************************************)
(* A successful execute_remove_runner leaves no trace on the host in the   *)
(* places the runner's annotations name.                                   *)
(***************************************************************************)
RemovedIsGone ==
  Reports({"Removed"}) =>
    /\ unit = "absent" /\ ~oper /\ \A i \in DropIns : dropIn[i] = None
    /\ ~enabled /\ running = None
    /\ bin[OldZone] = None /\ env[OldZone] = None

(***************************************************************************)
(* --rollback-on-failure after a failed create or in-place update: unit    *)
(* file and drop-ins are what they were, except that superseded drop-ins   *)
(* stay deleted (reverse-direction steps are skipped) and that a file that *)
(* could not be read before it was rewritten is gone.  Holds when no call  *)
(* failed after taking effect and every undo step succeeded.               *)
(***************************************************************************)
RollbackRestoresFiles ==
  Reports({"Failed"}) /\ opts.rollback /\ clean /\ plan.kind \in {"create", "inplace"} =>
    /\ unit = before.conf.unit \/ (None \in unread /\ unit = "absent")
    /\ oper = before.conf.oper
    /\ \A i \in DropIns :
         \/ dropIn[i] = before.conf.drop[i]
         \/ /\ i \in unread \/ (InPlace /\ i \notin Rendered(plan.to))
            /\ dropIn[i] = None

(***************************************************************************)
(* Rollback never leaves a process running with the configuration that was *)
(* rolled back: the old process still runs, or none does.                  *)
(***************************************************************************)
RollbackStopsNewProcess ==
  Reports({"Failed"}) /\ opts.rollback /\ clean => running \in {before.running, None}

(***************************************************************************)
(* Seen from outside, a runner action does what RunnerContract says: what  *)
(* it can leave behind when it succeeds, when it fails with or without     *)
(* rollback, and when the process is killed in the middle of it, whatever  *)
(* state it started from.  Fleet is built on this.                         *)
(***************************************************************************)
Contract == INSTANCE RunnerContract

ViewOf(conf, run) ==
  Contract!View(conf.unit # "absent", conf.drop[0], IF run = None THEN None ELSE run.drop[0])

KeepsContract ==
  (pc = "final" \/ outcome = "crashed") /\ plan.kind \notin {"nothing", "noop"} =>
    LET was == ViewOf(before.conf, before.running)
    IN  ViewOf(DiskConf, running) \in
          CASE outcome \notin {"Failed", "crashed"} ->
                 Contract!Completed(plan.kind, was, plan.to)
            [] outcome \in {"Failed", "crashed"} /\ ~opts.rollback ->
                 Contract!Interrupted(plan.kind, was, plan.to)
            [] outcome = "Failed" /\ opts.rollback /\ clean ->
                 Contract!RolledBack(was)
            [] OTHER -> Contract!PartlyUndone(was, plan.to)

(***************************************************************************)
(* With --rollback-on-failure and no crash, once calls of the actions stop *)
(* failing, repeating the apply brings the desired runner up, provided     *)
(* units are not edited by hand and an apply that failed is repeated       *)
(* before the configuration is edited again: EditKinds without "unit" and  *)
(* "impatient".  (A removal that failed half-way and was rolled back       *)
(* leaves a stopped, disabled runner, and a plan for its old spec finds    *)
(* nothing to do; an update of a unit with a drop-in of the operator's     *)
(* that deleted a superseded file and could not start the runner again     *)
(* finds nothing to write the next time.  Removals that fail during        *)
(* reconciliation are not rolled back: FaultKinds must not hold            *)
(* "reconcile", nor "after", "undo" or "start".)                           *)
(***************************************************************************)
Converges == <>[](desired # None => Covers(desired) /\ enabled /\ running # None)

(***************************************************************************)
(* docs/src/operations.md: without --rollback-on-failure "partial state is *)
(* left for the next apply to idempotently complete".  So an apply that    *)
(* says "in sync" leaves a runner that is complete.                        *)
(***************************************************************************)
NoOpIsComplete ==
  Reports({"NoOp"}) /\ desired # None => Covers(desired) /\ enabled /\ running # None
==============================================================================
