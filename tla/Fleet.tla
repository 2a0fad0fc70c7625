-------------------------------- MODULE Fleet --------------------------------
(***************************************************************************)
(* A whole `ghars apply`: the plan over several runners and cache pools    *)
(* (src/plan/compute.rs), the order of its actions (src/apply/phases.rs),  *)
(* the loop that executes and accounts for them (src/apply/orchestrator.rs)*)
(* the pool handlers (src/apply/pools.rs) and the exit code                *)
(* (src/cli/exit_codes.rs).                                                *)
(*                                                                         *)
(* Pools are modelled call by call.  A runner action is one step whose     *)
(* effect is any that RunnerContract allows.  Runners and pools meet in    *)
(* systemd: a runner unit has Requires= on the pools of its spec, so its   *)
(* start pulls them up and a stop of one of them takes it down; a pool     *)
(* that no running runner requires is stopped (StopWhenUnneeded=).  Every  *)
(* start in the code comes after a daemon_reload, so a unit starts with    *)
(* what is on disk.  All pools here serve sccache: a ccache-only pool has  *)
(* no Requires=.                                                           *)
(*                                                                         *)
(* The spec of a runner embeds the settings of its pools, as the spec hash *)
(* does, so a change of a pool is a change of the runners that use it.     *)
(* Names are numbers: the phases sort by name.  Drift of runner units is   *)
(* RunnerApply's; the apply lock is held from "loop" on (ApplyLock).       *)
(***************************************************************************)
EXTENDS Naturals, Sequences, FiniteSets

CONSTANTS
  Runners, Pools,   \* names
  Owns,             \* what a [[runner]] block says besides its pools' settings
  Bodies,           \* settings of a pool, and the drop-in rendered for them
  None,             \* no runner block, no drop-in, no process
  Uses,             \* own -> the pools it names
  Ident,            \* own -> its recreate-bound fields
  Options,          \* command lines operators use
  MaxFaults,        \* bound on failing calls and crashes
  MaxEdits          \* bound on edits of operators

ASSUME FleetConstants ==
  /\ Runners \subseteq Nat /\ Pools \subseteq Nat
  /\ None \notin Owns \cup Bodies
  /\ Uses \in [Owns -> SUBSET Pools]
  /\ DOMAIN Ident = Owns
  /\ Options \subseteq [failFast : BOOLEAN, rollback : BOOLEAN, noRestart : BOOLEAN,
                        detailed : BOOLEAN, gate : BOOLEAN,
                        only : SUBSET (({"runner"} \X Runners) \cup ({"pool"} \X Pools))]
  /\ MaxFaults \in Nat /\ MaxEdits \in Nat

INSTANCE RunnerContract

VARIABLES
  cfg,       \* ghars.toml: what each runner block and each pool says
  runner,    \* runner -> its View
  needs,     \* runner -> the pools its unit requires, as systemd has it loaded
  pdir,      \* pools whose drop-in directory exists
  pdrop,     \* pool -> the settings in its 00-ghars.conf, or None
  poper,     \* pools with a drop-in of the operator's
  penabled,  \* enabled pool units
  prun,      \* pool -> the settings its process was started with, or None
  pdata,     \* pools whose storage directory exists
  pc,        \* where the apply process is
  opts,      \* its options
  queue,     \* actions still to be executed
  cur,       \* the pool action being executed
  log,       \* what its UndoLog holds
  prior,     \* drop-in content recorded in it
  result,    \* ApplyResult
  exit,      \* the exit code
  planned,   \* ghost: the actions of the plan
  left,      \* ghost: runner -> the process that its last successful action left, or None
  faults, edits

host   == <<pdir, pdrop, poper, penabled, prun, pdata>>
call   == <<opts, planned, left>>
vars == <<cfg, runner, needs, host, pc, call, queue, cur, log, prior, result, exit,
          faults, edits>>

Spec(own, body) ==
  [own |-> own, caches |-> [p \in Pools |-> IF p \in Uses[own] THEN body[p] ELSE None]]
Specs == [own : Owns, caches : [Pools -> Bodies \cup {None}]]
Configs == [own : [Runners -> Owns \cup {None}], body : [Pools -> Bodies]]

\* No spec is the value that stands for the absence of one.
ASSUME NoneIsNoSpec == None \notin Specs

UsesOf(s) == IF s = None THEN {} ELSE Uses[s.own]

RunnerOps == {"create", "inplace", "recreate", "remove"}
PoolOps == {"createPool", "updatePool", "removePool"}
Act(op, name, to) == [op |-> op, name |-> name, to |-> to]
NoAction == Act("noop", 0, None)
NoOptions == [failFast |-> FALSE, rollback |-> FALSE, noRestart |-> FALSE, detailed |-> FALSE,
              gate |-> FALSE, only |-> {}]
EmptyResult == [succeeded |-> {}, failed |-> <<>>, skipped |-> {}, details |-> <<>>]
Locations == {"idle", "reconcile", "loop", "write", "enable", "reload", "stop", "start", "disable",
              "rmdropins", "rmdata", "undo", "failfast", "exit", "stopped"}

-----------------------------------------------------------------------------
(* Planning                                                                *)

Effective(r) == Spec(cfg.own[r], cfg.body)

\* plan_from_with_latest, runner part, for a runner that looks like v.
PlanRunner(r, v) ==
  CASE cfg.own[r] = None /\ ~v.unit -> {}
    [] cfg.own[r] = None /\ v.unit -> {Act("remove", r, None)}
    [] cfg.own[r] # None /\ ~v.unit -> {Act("create", r, Effective(r))}
    [] OTHER ->
         IF v.conf = Effective(r) THEN {Act("noop", r, None)}
         ELSE IF v.conf # None /\ Ident[v.conf.own] # Ident[cfg.own[r]]
           THEN {Act("recreate", r, Effective(r))}
           ELSE {Act("inplace", r, Effective(r))}

\* collect_referenced_cache_pools
Referenced == UNION {Uses[cfg.own[r]] : r \in {q \in Runners : cfg.own[q] # None}}

\* Mutated: a pool that is there is taken to be up to date.
PlanPoolByName(p) ==
  CASE p \in Referenced /\ p \notin pdir -> {Act("createPool", p, cfg.body[p])}
    [] p \notin Referenced /\ p \in pdir -> {Act("removePool", p, None)}
    [] OTHER -> {}

\* plan_from_with_latest, pool part: a pool is discovered by its drop-in directory.
PlanPool(p) ==
  CASE p \in Referenced /\ p \notin pdir -> {Act("createPool", p, cfg.body[p])}
    [] p \in Referenced /\ p \in pdir /\ (pdrop[p] # cfg.body[p] \/ p \in poper) ->
         {Act("updatePool", p, cfg.body[p])}
    [] p \notin Referenced /\ p \in pdir -> {Act("removePool", p, None)}
    [] OTHER -> {}

Resource(a) == <<IF a.op \in PoolOps THEN "pool" ELSE "runner", a.name>>

\* compute_plan: --only keeps the actions whose label contains one of its fragments;
\* here, those of the resources it names.
Plan(view, only) ==
  {a \in UNION ({PlanRunner(r, view[r]) : r \in Runners} \cup {PlanPool(p) : p \in Pools}) :
     only = {} \/ Resource(a) \in only}

\* Disruption::Recreate
Disruptive(a) == a.op \in {"create", "recreate", "remove", "createPool", "removePool"}

-----------------------------------------------------------------------------
(* Order, accounting, exit code                                            *)

\* Mutated: unused pools are removed with the other pool actions.
PhaseRemovesEarly(op) ==
  CASE op = "createPool" -> 1 [] op = "updatePool" -> 2 [] op = "removePool" -> 3
    [] op = "remove" -> 4 [] op = "inplace" -> 5 [] op = "recreate" -> 6
    [] op = "create" -> 7 [] op = "noop" -> 8

\* Mutated: pools are updated after the runners that use them.
PhaseUpdatesLate(op) ==
  CASE op = "createPool" -> 1 [] op = "remove" -> 2 [] op = "inplace" -> 3
    [] op = "recreate" -> 4 [] op = "create" -> 5 [] op = "updatePool" -> 6
    [] op = "removePool" -> 7 [] op = "noop" -> 8

\* sort_into_phases
Phase(op) ==
  CASE op = "createPool" -> 1 [] op = "updatePool" -> 2 [] op = "remove" -> 3
    [] op = "inplace" -> 4 [] op = "recreate" -> 5 [] op = "create" -> 6
    [] op = "removePool" -> 7 [] op = "noop" -> 8

Before(a, b) ==
  \/ Phase(a.op) < Phase(b.op)
  \/ Phase(a.op) = Phase(b.op) /\ a.name <= b.name

IsHead(a) == a \in queue /\ \A b \in queue : Before(a, b)

Succeed(a) ==
  result' = [result EXCEPT !.succeeded = @ \cup {a}, !.details = Append(@, a)]
Skip(a) ==
  result' = [result EXCEPT !.skipped = @ \cup {a}, !.details = Append(@, a)]
\* record_action_failure: the error is wrapped in GharsError::Apply.
Fail(a, cause) ==
  result' = [result EXCEPT !.failed = Append(@, [act |-> a, err |-> "Apply", cause |-> cause]),
                           !.details = Append(@, a)]

\* Mutated: an apply with failures only exits 0 when something succeeded.
ExitCodeForgiving(res) ==
  IF res.failed = <<>> \/ res.succeeded # {} THEN IF opts.detailed THEN 2 ELSE 0 ELSE 1

\* apply_exit_code
ExitCode(res) ==
  IF res.failed = <<>>
    THEN IF opts.gate /\ \E a \in res.succeeded : Disruptive(a) THEN 8
         ELSE IF opts.detailed THEN 2 ELSE 0
  ELSE IF res.succeeded # {} \/ res.skipped # {} THEN 4
  ELSE IF \E i \in DOMAIN res.failed : res.failed[i].err = "Auth" THEN 5
  ELSE 1

\* How the loop goes on after an action that failed.
AfterFailure == pc' = IF opts.failFast THEN "failfast" ELSE "loop"

-----------------------------------------------------------------------------
(* systemd                                                                 *)

\* daemon_reload: every unit is read again.
Loaded(view) == [r \in Runners |-> IF view[r].unit THEN UsesOf(view[r].conf) ELSE {}]

\* A required pool can be up: it is, or its drop-in gives it an ExecStart.
Startable(s) == \A p \in UsesOf(s) : prun[p] # None \/ pdrop[p] # None

\* Processes after the given pools have been started.
Started(ps) == [p \in Pools |-> IF p \in ps /\ prun[p] = None THEN pdrop[p] ELSE prun[p]]

\* Runners after pool p was stopped.
WithoutPool(p) == [r \in Runners |-> IF p \in needs[r] THEN [runner[r] EXCEPT !.run = None]
                                                       ELSE runner[r]]

\* StopWhenUnneeded=yes
StopUnneeded ==
  /\ \E p \in Pools :
       /\ prun[p] # None
       /\ \A r \in Runners : runner[r].run # None => p \notin needs[r]
       /\ prun' = [prun EXCEPT ![p] = None]
  /\ UNCHANGED <<cfg, runner, needs, pdir, pdrop, poper, penabled, pdata, pc, call, queue, cur,
                 log, prior, result, exit, faults, edits>>

-----------------------------------------------------------------------------
Init ==
  /\ cfg \in Configs
  /\ runner = [r \in Runners |-> View(FALSE, None, None)]
  /\ needs = [r \in Runners |-> {}]
  /\ pdir = {} /\ poper = {} /\ penabled = {} /\ pdata = {}
  /\ pdrop = [p \in Pools |-> None] /\ prun = [p \in Pools |-> None]
  /\ pc = "idle" /\ opts = NoOptions /\ planned = {} /\ queue = {}
  /\ left = [r \in Runners |-> None]
  /\ cur = NoAction /\ log = {} /\ prior = None /\ result = EmptyResult /\ exit = 0
  /\ faults = 0 /\ edits = 0

\* cmd_apply up to the prompt: --detailed-exitcode-recreate ends it before the
\* prompt, and the operator may say no.
Begin(o) ==
  /\ pc = "idle" /\ opts' = o
  /\ planned' = Plan(runner, o.only)
  /\ LET gated == o.gate /\ \E a \in planned' : Disruptive(a)
         stop(code) == pc' = "stopped" /\ exit' = code
     IN  \/ gated /\ stop(8)
         \/ ~gated /\ stop(IF o.detailed THEN 2 ELSE 0)
         \/ /\ ~gated
            /\ IF o.detailed /\ \A a \in planned' : a.op = "noop"
                 THEN stop(0)
                 ELSE pc' = "reconcile" /\ UNCHANGED exit
  /\ UNCHANGED <<cfg, runner, needs, host, left, queue, cur, log, prior, result, faults, edits>>

(***************************************************************************)
(* reconcile_github_registrations: the unit file and the drop-ins of every *)
(* no-op runner in `gone`, whose registration was deleted on GitHub (an    *)
(* edit of the operator's), are removed, and the plan is made again.  A    *)
(* failing removal is only warned about.  An error in what follows, up to  *)
(* apply::apply, ends the command.                                         *)
(***************************************************************************)
Reconcile ==
  /\ pc = "reconcile"
  /\ \E gone \in SUBSET {r \in Runners : Act("noop", r, None) \in planned} :
       /\ edits' = edits + Cardinality(gone) /\ edits' <= MaxEdits
       /\ \E faulty, unit, conf \in BOOLEAN :
            /\ unit \/ conf => faulty
            /\ faulty => faults < MaxFaults
            /\ faults' = IF faulty THEN faults + 1 ELSE faults
            /\ runner' = [r \in Runners |->
                 IF r \in gone
                   THEN View(unit, IF conf THEN runner[r].conf ELSE None, runner[r].run)
                   ELSE runner[r]]
            /\ planned' = IF gone = {} THEN planned ELSE Plan(runner', opts.only)
            /\ \/ pc' = "loop" /\ queue' = planned' /\ UNCHANGED exit
               \/ faulty /\ pc' = "stopped" /\ exit' = 1 /\ UNCHANGED queue
  /\ UNCHANGED <<cfg, needs, host, opts, left, cur, log, prior, result>>

\* A no-op is skipped at the head of the loop.
SkipNoOp ==
  /\ pc = "loop"
  /\ \E a \in queue : IsHead(a) /\ a.op = "noop" /\ queue' = queue \ {a} /\ Skip(a)
  /\ UNCHANGED <<cfg, runner, needs, host, pc, call, cur, log, prior, exit, faults, edits>>

-----------------------------------------------------------------------------
(* Runner actions, as RunnerContract describes them                        *)

\* Runner r after an action that left it with view w, and the pools its start
\* pulled up: a new process exists only if they could start.  A start that was
\* undone may have left their storage.
RunnerBecomes(r, w, new) ==
  /\ w.run # None /\ w.run # runner[r].run => Startable(new)
  /\ runner' = [runner EXCEPT ![r] = w]
  /\ prun' = IF w.run # None /\ w.run # runner[r].run THEN Started(UsesOf(new)) ELSE prun
  /\ pdata' \in {pdata, pdata \cup UsesOf(new)}

\* Ok is also returned for a runner that does not come up, or not again.
RunnerSucceeds(a) ==
  /\ \E w \in Completed(a.op, runner[a.name], a.to) :
       /\ RunnerBecomes(a.name, w, a.to)
       /\ IF a.op = "inplace" /\ opts.noRestart
            THEN w.run = runner[a.name].run /\ UNCHANGED needs
            ELSE needs' = IF a.op = "remove" THEN needs
                                             ELSE Loaded([runner EXCEPT ![a.name] = w])
       /\ left' = [r \in Runners |-> IF r = a.name THEN w.run ELSE left[r]]
  /\ Succeed(a)
  /\ UNCHANGED <<pc, faults>>

\* What an action that does not succeed may leave of a runner.
Broken(a, undo) ==
  CASE undo = "none"     -> Interrupted(a.op, runner[a.name], a.to)
    [] undo = "complete" -> RolledBack(runner[a.name])
    [] undo = "partial"  -> PartlyUndone(runner[a.name], a.to)

\* A call fails, or poll_dynamic_user_uid gives up on a unit whose pools do not
\* come up; then a step of undo may fail as well.
RunnerFails(a) ==
  /\ \E fault, undoFails \in {0, 1} :
       /\ fault = 0 => a.op \in {"create", "recreate"} /\ ~Startable(a.to)
       /\ undoFails = 1 => opts.rollback
       /\ faults' = faults + fault + undoFails /\ faults' <= MaxFaults
       /\ \E w \in Broken(a, IF ~opts.rollback THEN "none"
                             ELSE IF undoFails = 0 THEN "complete" ELSE "partial") :
            /\ RunnerBecomes(a.name, w, a.to)
            /\ needs' \in {needs, Loaded([runner EXCEPT ![a.name] = w])}
  /\ \E cause \in IF a.op = "inplace" THEN {"Other"} ELSE {"Other", "Auth"} : Fail(a, cause)
  /\ AfterFailure
  /\ UNCHANGED left

\* execute, runner arms
RunnerAction ==
  /\ pc = "loop"
  /\ \E a \in queue : /\ IsHead(a) /\ a.op \in RunnerOps
                      /\ queue' = queue \ {a}
                      /\ RunnerSucceeds(a) \/ RunnerFails(a)
  /\ UNCHANGED <<cfg, pdir, pdrop, poper, penabled, opts, planned, cur, log, prior, exit, edits>>

-----------------------------------------------------------------------------
(* Pool actions                                                            *)

Pool == cur.name

\* execute, pool arms: a new UndoLog.
BeginPool ==
  /\ pc = "loop"
  /\ \E a \in queue : /\ IsHead(a) /\ a.op \in PoolOps
                      /\ queue' = queue \ {a} /\ cur' = a
                      /\ pc' = IF a.op = "removePool" THEN "stop" ELSE "write"
  /\ log' = {} /\ prior' = None
  /\ UNCHANGED <<cfg, runner, needs, host, call, result, exit, faults, edits>>

PoolGoto(l) == pc' = l /\ UNCHANGED <<result, faults>>
PoolDone == pc' = "loop" /\ Succeed(cur) /\ UNCHANGED faults
PoolFails ==
  /\ faults < MaxFaults /\ faults' = faults + 1
  /\ IF opts.rollback THEN pc' = "undo" /\ UNCHANGED result
                      ELSE Fail(cur, "Other") /\ AfterFailure

PoolFrame == UNCHANGED <<cfg, call, queue, cur, exit, edits>>

\* create_dir_all and 00-ghars.conf.  Create always writes; update writes what
\* differs, and is over if nothing did or --no-restart is set.
WritePool ==
  LET dir == IF Pool \in pdir THEN {} ELSE {"dir"}
      same == cur.op = "updatePool" /\ dir = {} /\ pdrop[Pool] = cur.to
      logged == log \cup dir
  IN
  /\ pc = "write"
  /\ pdir' = pdir \cup {Pool}
  /\ \/ /\ pdrop' = [pdrop EXCEPT ![Pool] = cur.to]
        /\ log' = IF same THEN logged ELSE logged \cup {"drop"}
        /\ prior' = pdrop[Pool]
        /\ IF cur.op = "createPool" THEN PoolGoto("enable")
           ELSE IF same \/ opts.noRestart THEN PoolDone
           ELSE PoolGoto("reload")
     \/ /\ PoolFails /\ log' = logged /\ prior' = prior
        /\ pdrop' \in {pdrop, [pdrop EXCEPT ![Pool] = cur.to]}
  /\ PoolFrame /\ UNCHANGED <<runner, needs, poper, penabled, prun, pdata>>

EnablePool ==
  /\ pc = "enable"
  /\ \/ penabled' = penabled \cup {Pool} /\ log' = log \cup {"enable"} /\ PoolGoto("reload")
     \/ penabled' \in {penabled, penabled \cup {Pool}} /\ log' = log /\ PoolFails
  /\ PoolFrame /\ UNCHANGED <<runner, needs, pdir, pdrop, poper, prun, pdata, prior>>

ReloadPool ==
  /\ pc = "reload"
  /\ \/ needs' = Loaded(runner) /\ PoolGoto(IF cur.op = "createPool" THEN "start" ELSE "stop")
     \/ needs' \in {needs, Loaded(runner)} /\ PoolFails
  /\ PoolFrame /\ UNCHANGED <<runner, host, log, prior>>

\* stop_unit: the runners that require the pool go down with it.
StopPool ==
  /\ pc = "stop"
  /\ \/ /\ prun' = [prun EXCEPT ![Pool] = None] /\ runner' = WithoutPool(Pool)
        /\ \/ PoolGoto(IF cur.op = "updatePool" THEN "start" ELSE "disable")
           \/ PoolFails
     \/ PoolFails /\ UNCHANGED <<prun, runner>>
  /\ PoolFrame /\ UNCHANGED <<needs, pdir, pdrop, poper, penabled, pdata, log, prior>>

StartPool ==
  /\ pc = "start"
  /\ \/ /\ prun' = Started({Pool}) /\ pdata' = pdata \cup {Pool}
        /\ \/ log' = log \cup {"start"} /\ PoolDone
           \/ log' = log /\ PoolFails
     \/ PoolFails /\ UNCHANGED <<prun, pdata, log>>
  /\ PoolFrame /\ UNCHANGED <<runner, needs, pdir, pdrop, poper, penabled, prior>>

DisablePool ==
  /\ pc = "disable"
  /\ \/ penabled' = penabled \ {Pool} /\ PoolGoto("rmdropins")
     \/ penabled' \in {penabled, penabled \ {Pool}} /\ PoolFails
  /\ PoolFrame /\ UNCHANGED <<runner, needs, pdir, pdrop, poper, prun, pdata, log, prior>>

\* remove_dir_all of the drop-in directory; failing, it leaves some of it.
RemovePoolDropIns ==
  /\ pc = "rmdropins"
  /\ \/ /\ pdir' = pdir \ {Pool} /\ poper' = poper \ {Pool}
        /\ pdrop' = [pdrop EXCEPT ![Pool] = None]
        /\ PoolGoto("rmdata")
     \/ /\ pdrop' \in {pdrop, [pdrop EXCEPT ![Pool] = None]}
        /\ poper' \in {poper, poper \ {Pool}}
        /\ UNCHANGED pdir
        /\ PoolFails
  /\ PoolFrame /\ UNCHANGED <<runner, needs, penabled, prun, pdata, log, prior>>

RemovePoolData ==
  /\ pc = "rmdata"
  /\ \/ pdata' = pdata \ {Pool} /\ PoolDone
     \/ pdata' = pdata /\ PoolFails
  /\ PoolFrame /\ UNCHANGED <<runner, needs, pdir, pdrop, poper, penabled, prun, log, prior>>

(***************************************************************************)
(* undo of a pool's log, in one step: the steps of `undone` succeed.       *)
(* Stops, disables and removals are not undone; a directory is removed     *)
(* only when it is empty.                                                  *)
(***************************************************************************)
UndoPool ==
  /\ pc = "undo"
  /\ \E undone \in SUBSET log :
       /\ IF undone = log THEN UNCHANGED faults
                          ELSE faults < MaxFaults /\ faults' = faults + 1
       /\ prun' = IF "start" \in undone THEN [prun EXCEPT ![Pool] = None] ELSE prun
       /\ runner' = IF "start" \in undone THEN WithoutPool(Pool) ELSE runner
       /\ penabled' = IF "enable" \in undone THEN penabled \ {Pool} ELSE penabled
       /\ pdrop' = IF "drop" \in undone THEN [pdrop EXCEPT ![Pool] = prior] ELSE pdrop
       /\ pdir' = IF "dir" \in undone /\ pdrop'[Pool] = None /\ Pool \notin poper
                    THEN pdir \ {Pool} ELSE pdir
  /\ Fail(cur, "Other") /\ AfterFailure
  /\ PoolFrame /\ UNCHANGED <<needs, poper, pdata, log, prior>>

-----------------------------------------------------------------------------
\* The end of the loop and its daemon_reload, whose failure is one more row.
Final ==
  /\ pc = "loop" /\ queue = {}
  /\ \/ /\ needs' = Loaded(runner)
        /\ exit' = ExitCode(result)
        /\ UNCHANGED <<result, faults>>
     \/ /\ faults < MaxFaults /\ faults' = faults + 1
        /\ Fail(NoAction, "Other")
        /\ exit' = ExitCode(result')
        /\ UNCHANGED needs
  /\ pc' = "exit"
  /\ UNCHANGED <<cfg, runner, host, call, queue, cur, log, prior, edits>>

\* --fail-fast: the rest of the plan is dropped, the reload's error ignored.
FailFast ==
  /\ pc = "failfast"
  /\ needs' \in {needs, Loaded(runner)}
  /\ exit' = ExitCode(result)
  /\ pc' = "exit" /\ queue' = {}
  /\ UNCHANGED <<cfg, runner, host, call, cur, log, prior, result, faults, edits>>

\* The process is gone, and with it everything that is not on the host.
Gone ==
  /\ pc' = "idle" /\ opts' = NoOptions /\ planned' = {} /\ queue' = {}
  /\ left' = [r \in Runners |-> None]
  /\ cur' = NoAction /\ log' = {} /\ prior' = None /\ result' = EmptyResult /\ exit' = 0

Exit ==
  /\ pc \in {"exit", "stopped"} /\ Gone
  /\ UNCHANGED <<cfg, runner, needs, host, faults, edits>>

\* The process dies, between two calls or within a runner action.
Crash ==
  /\ pc \notin {"idle", "exit", "stopped"} /\ Gone
  /\ faults < MaxFaults /\ faults' = faults + 1
  /\ \/ UNCHANGED <<runner, needs, prun, pdata>>
     \/ /\ pc = "loop"
        /\ \E a \in queue :
             /\ IsHead(a) /\ a.op \in RunnerOps
             /\ \E w \in Broken(a, "none") \cup (IF opts.rollback THEN Broken(a, "partial") ELSE {}) :
                  /\ RunnerBecomes(a.name, w, a.to)
                  /\ needs' \in {needs, Loaded([runner EXCEPT ![a.name] = w])}
  /\ UNCHANGED <<cfg, pdir, pdrop, poper, penabled, edits>>

\* An operator edits ghars.toml or adds a drop-in to a pool.
Edit ==
  /\ pc = "idle" /\ edits < MaxEdits /\ edits' = edits + 1
  /\ \/ cfg' \in Configs /\ UNCHANGED poper
     \/ \E p \in pdir : poper' = poper \cup {p} /\ UNCHANGED cfg
  /\ UNCHANGED <<runner, needs, pdir, pdrop, penabled, prun, pdata, pc, call, queue, cur, log,
                 prior, result, exit, faults>>

Apply == \E o \in Options : Begin(o)

Step ==
  \/ Reconcile \/ SkipNoOp \/ RunnerAction \/ BeginPool \/ WritePool \/ EnablePool
  \/ ReloadPool \/ StopPool \/ StartPool \/ DisablePool \/ RemovePoolDropIns
  \/ RemovePoolData \/ UndoPool \/ Final \/ FailFast \/ Exit

Next == Apply \/ Step \/ StopUnneeded \/ Crash \/ Edit

FleetSpec == Init /\ [][Next]_vars

(***************************************************************************)
(* A started apply goes on to its end, and the operator or timer that runs *)
(* ghars does not forever run it filtered, gated or declined.              *)
(***************************************************************************)
FullApply ==
  \E o \in Options : o.only = {} /\ ~o.gate /\ Begin(o) /\ pc' = "reconcile"

FairFleetSpec == FleetSpec /\ WF_vars(Step) /\ SF_vars(FullApply)

-----------------------------------------------------------------------------

\* The files an action is planned to leave are there.
Achieved(a) ==
  CASE a.op \in {"create", "inplace", "recreate"} ->
         runner[a.name].unit /\ runner[a.name].conf = a.to
    [] a.op = "remove" -> ~runner[a.name].unit
    [] a.op \in {"createPool", "updatePool"} -> a.name \in pdir /\ pdrop[a.name] = a.to
    [] a.op = "removePool" -> a.name \notin pdir \cup pdata
    [] OTHER -> TRUE

Succeeded == pc = "exit" /\ exit \in {0, 2, 8}

(***************************************************************************)
(* apply_exit_code: an exit code that says success (0, 2 or 8 after the    *)
(* loop) means that the files of every planned action are as planned, no   *)
(* later action of the same apply having undone them.                      *)
(***************************************************************************)
SuccessIsApplied == Succeeded => \A a \in planned : Achieved(a)

(***************************************************************************)
(* After a successful apply of the whole plan, every pool that a runner's  *)
(* unit requires has a drop-in, with the settings the runner's spec embeds *)
(* and its other drop-ins were rendered for.                               *)
(***************************************************************************)
NoDanglingPool ==
  Succeeded /\ opts.only = {} =>
    \A r \in Runners : runner[r].unit =>
      \A p \in UsesOf(runner[r].conf) : p \in pdir /\ pdrop[p] = runner[r].conf.caches[p]

(***************************************************************************)
(* A runner process that an action of a successful apply left up is still  *)
(* up when the apply ends: it is not taken down again by a pool that a     *)
(* later action stops or removes.  Nothing is said of a runner that did    *)
(* not come up in its own action, nor of --no-restart, where a unit goes   *)
(* on requiring its old pools until the daemon is reloaded.                *)
(***************************************************************************)
ChangedRunnersRun ==
  Succeeded /\ ~opts.noRestart =>
    \A a \in planned :
      a.op \in {"create", "inplace", "recreate"} /\ left[a.name] # None =>
        runner[a.name].run = left[a.name]

Filtered(r) == opts.only # {} /\ <<"runner", r>> \notin opts.only
FailedRunner(r) ==
  \E i \in DOMAIN result.failed : Resource(result.failed[i].act) = <<"runner", r>>

(***************************************************************************)
(* A pool's drop-ins are deleted only when no runner on the host is        *)
(* configured to use it, other than runners whose own action failed in     *)
(* this apply or was filtered out with --only.                             *)
(***************************************************************************)
PoolOutlivesItsRunners ==
  pc = "rmdropins" =>
    \A r \in Runners :
      runner[r].unit /\ Pool \in UsesOf(runner[r].conf) => Filtered(r) \/ FailedRunner(r)

(***************************************************************************)
(* Whatever failed or crashed before, once calls stop failing and nobody   *)
(* edits ghars.toml any more, repeated applies bring the unit files and    *)
(* drop-ins of all runners and pools to what it says, and they stay there. *)
(***************************************************************************)
FilesConverge ==
  <>[](/\ \A r \in Runners :
            IF cfg.own[r] = None THEN ~runner[r].unit
            ELSE runner[r].unit /\ runner[r].conf = Effective(r)
       /\ pdir = Referenced
       /\ \A p \in Referenced : pdrop[p] = cfg.body[p])
==============================================================================
