------------------------------ MODULE Session ------------------------------
(***************************************************************************)
(* The commands of ghars from the command line to the exit code, several   *)
(* processes at a time (src/cli): apply with its preview, its gates, its   *)
(* reconciliation with GitHub and its second plan; add, which rewrites     *)
(* ghars.toml; and cleanup.  Only the execution of the actions is under    *)
(* the apply lock: everything before it works on what may be stale.        *)
(*                                                                         *)
(* A runner is its unit (the spec in it), its home and its registration.   *)
(* What an action does in detail is in RunnerApply, the lock in ApplyLock, *)
(* how a plan follows from a config in Plan.                               *)
(***************************************************************************)
EXTENDS Integers, Sequences, FiniteSets, SequencesExt

CONSTANTS
  None,
  Timer,        \* the apply that is run again and again
  Others,       \* ghars processes that run next to it
  Names,        \* runner names
  Specs,        \* what a block may say
  Ident(_),     \* the part of a spec that cannot be changed in place
  Default,      \* the spec of a block that `ghars add' writes
  Options,      \* [dry, auto, gate, detailed : BOOLEAN]
  PageSize,     \* registrations that the runners API lists when it is asked once
  MaxEvents,    \* bounds on the edits of ghars.toml or of GitHub, the calls that fail
                \* and the processes that are killed, taken together,
  MaxOther      \* and on the commands of Others

ASSUME SessionConstants ==
  /\ Default \in Specs /\ None \notin Specs \cup Names \cup Others \cup {Timer} \cup Nat
  /\ Timer \notin Others /\ IsFiniteSet(Names)
  /\ Options \subseteq [dry : BOOLEAN, auto : BOOLEAN, gate : BOOLEAN, detailed : BOOLEAN]
  /\ PageSize \in Nat /\ {MaxEvents, MaxOther} \subseteq Nat

VARIABLES
  file,       \* ghars.toml: its [[runner]] blocks [name, spec, id], or fragments of blocks
  unit,       \* name -> the spec in the unit's files, None without a unit
  home,       \* names with an installed home
  reg,        \* the registrations on GitHub, oldest first
  lock,       \* the process that holds the lock of the lock file
  ps,         \* the processes
  budget,
  disturbed,  \* ghost: processes whose host or config others changed under them
  acked,      \* ghost: blocks that were added, by hand or by an add that reported it
  torn        \* ghost: two rewrites of ghars.toml overlapped, or one was killed or
              \* failed after it had truncated the file

Procs == {Timer} \cup Others
vars == <<file, unit, home, reg, lock, ps, budget, disturbed, acked, torn>>
host == <<unit, home, reg>>

Plain == [dry |-> FALSE, auto |-> TRUE, gate |-> FALSE, detailed |-> FALSE]
NoRun == [n \in Names |-> "none"]
Idle == [pc |-> "idle", cmd |-> "none", opt |-> Plain, raw |-> <<>>, buf |-> <<>>, name |-> None,
         id |-> 0, plan |-> NoRun, todo |-> {}, approved |-> FALSE, unsure |-> FALSE,
         wiped |-> FALSE, failed |-> {}, done |-> {}, code |-> 0]

\* Two blocks of one name: the later one counts.
Wanted(raw, n) ==
  LET k == {i \in DOMAIN raw : raw[i].name = n}
  IN IF k = {} THEN None ELSE raw[CHOOSE i \in k : \A j \in k : j <= i].spec

\* Text that does not parse; the keys of a block that was cut off may be gone with it.
Fragment == [name |-> None, spec |-> Default, id |-> 0]
Parses(raw) == \A i \in DOMAIN raw : raw[i].name # None

-----------------------------------------------------------------------------
(* src/plan and src/cli/cmd_plan.rs, as far as the commands look at a plan *)

Action(raw, n) ==
  LET spec == Wanted(raw, n)
  IN CASE spec = None /\ unit[n] = None -> "none"
       [] spec = None /\ unit[n] # None -> "remove"
       [] spec # None /\ unit[n] = None -> "create"
       [] spec # None /\ unit[n] = spec -> "noop"
       [] OTHER -> IF Ident(unit[n]) # Ident(spec) THEN "recreate" ELSE "update"

\* --only, which `add' sets to the new name
ComputePlan(p) ==
  [n \in Names |-> IF ps[p].name \in {None, n} THEN Action(ps[p].raw, n) ELSE "none"]

HasRecreate(plan) == \E n \in Names : plan[n] = "recreate"
Changes(plan) == {n \in Names : plan[n] \notin {"none", "noop"}}

\* src/cli/exit_codes.rs
\* The gate closes only if there is nothing but recreates.
RecreateExitCodeAll(opt, plan) ==
  IF opt.gate /\ HasRecreate(plan) /\ (\A n \in Changes(plan) : plan[n] = "recreate") THEN 8 ELSE None
RecreateExitCode(opt, plan) == IF opt.gate /\ HasRecreate(plan) THEN 8 ELSE None
DryRunExitCode(opt, plan) ==
  IF RecreateExitCode(opt, plan) # None THEN 8
  ELSE IF opt.detailed /\ Changes(plan) # {} THEN 2 ELSE 0
CancelExitCode(opt, plan) ==
  IF RecreateExitCode(opt, plan) # None THEN 8 ELSE IF opt.detailed THEN 2 ELSE 0
\* Something was done, so all is well.
ApplyExitCodeAny(q) == IF q.done # {} \/ q.failed = {} THEN IF q.opt.detailed THEN 2 ELSE 0 ELSE 1
\* The error of an action is wrapped in GharsError::Apply: no failure gives 5.
ApplyExitCode(q) ==
  IF q.failed = {}
    THEN IF q.opt.gate /\ (\E d \in q.done : d[2] = "recreate") THEN 8
         ELSE IF q.opt.detailed THEN 2 ELSE 0
    ELSE IF q.done # {} \/ (\E n \in Names : q.plan[n] = "noop") THEN 4 ELSE 1
ErrToExitCode(err) ==
  CASE err \in {"config", "validation"} -> 6
    [] err = "interactive" -> 7
    [] err = "auth" -> 5
    [] err = "preflight" -> 3
    [] OTHER -> 1                        \* github, io, systemd, tarball, locked

-----------------------------------------------------------------------------
\* A call fails, or is refused by the host.
Event == budget.events > 0 /\ budget' = [budget EXCEPT !.events = @ - 1]
Fault == Event
NoFault == UNCHANGED budget

At(p, loc) == ps[p].pc = loc
Becomes(p, q) == ps' = [ps EXCEPT ![p] = q]
Goto(p, loc) == Becomes(p, [ps[p] EXCEPT !.pc = loc])
ExitWith(p, code) == Becomes(p, [ps[p] EXCEPT !.pc = "exit", !.code = code])
ReadsOnly == UNCHANGED <<file, unit, home, reg, lock, acked, torn>>

\* A command but cleanup starts with load_config: an empty file is a config without
\* runners, and one that does not parse ends the command.
Start(p, cmd, opt, name) ==
  /\ At(p, "idle")
  /\ Becomes(p, [Idle EXCEPT !.pc = CASE cmd = "cleanup" -> "c_units"
                                      [] cmd # "cleanup" /\ ~Parses(file) -> "exit"
                                      [] cmd = "add" /\ Parses(file) -> "add_read"
                                      [] OTHER -> "plan",
                             !.code = IF cmd = "cleanup" \/ Parses(file) THEN 0
                                      ELSE ErrToExitCode("config"),
                             !.cmd = cmd, !.opt = opt, !.name = name,
                             !.raw = IF cmd = "cleanup" THEN <<>> ELSE file,
                             !.id = IF cmd = "add" THEN budget.other ELSE 0])
  /\ ReadsOnly

PlainApply == Start(Timer, "apply", Plain, None) /\ NoFault
Other(p) ==
  /\ p \in Others /\ budget.other > 0 /\ budget' = [budget EXCEPT !.other = @ - 1]
  /\ \/ \E o \in Options : Start(p, "apply", o, None)
     \/ \E n \in Names : Start(p, "add", [Plain EXCEPT !.auto = FALSE], n)
     \/ Start(p, "cleanup", Plain, None)

\* The config of the apply that follows an add
Load(p) ==
  /\ At(p, "load") /\ NoFault /\ ReadsOnly
  /\ \/ Parses(file) /\ Becomes(p, [ps[p] EXCEPT !.pc = "plan", !.raw = file])
     \/ ~Parses(file) /\ ExitWith(p, ErrToExitCode("config"))

\* run_preflight and the runtime directory: what does not end here goes on to Plan.
Preflight(p) ==
  /\ At(p, "plan") /\ ~ps[p].opt.dry
  /\ \E err \in {"preflight", "validation"} : ExitWith(p, ErrToExitCode(err))
  /\ Fault /\ ReadsOnly

\* What an apply goes on with once its plan has been shown: a dry run ends, the gate
\* closes, confirm_apply finds no terminal or hears no or yes; with --detailed-exitcode
\* an apply that has nothing to do ends before GitHub is asked.
Ends(q, code) == [q EXCEPT !.pc = "exit", !.code = code]
\* GitHub is asked before the operator is.
DecisionsLate(q) ==
  {[q EXCEPT !.pc = "reconcile", !.todo = {n \in Names : q.plan[n] = "noop"}]}
Decisions(q) ==
  CASE q.opt.dry -> {Ends(q, DryRunExitCode(q.opt, q.plan))}
    [] ~q.opt.dry /\ RecreateExitCode(q.opt, q.plan) # None -> {Ends(q, RecreateExitCode(q.opt, q.plan))}
    [] OTHER ->
         (IF q.opt.auto THEN {} ELSE {Ends(q, ErrToExitCode("interactive")),
                                      Ends(q, CancelExitCode(q.opt, q.plan))})
         \cup {IF q.opt.detailed /\ Changes(q.plan) = {}
               THEN Ends([q EXCEPT !.approved = TRUE], 0)
               ELSE [q EXCEPT !.approved = TRUE, !.pc = "reconcile",
                              !.todo = {n \in Names : q.plan[n] = "noop"}]}
\* compute_plan and the preview
Plan(p) ==
  /\ At(p, "plan")
  /\ \/ /\ \E q \in Decisions([ps[p] EXCEPT !.plan = ComputePlan(p)]) : Becomes(p, q)
        /\ NoFault
     \/ ExitWith(p, ErrToExitCode("validation")) /\ Fault
  /\ ReadsOnly

\* runner_is_registered looks at the first page only.
RunnerIsRegistered(n) == \E i \in DOMAIN reg : i <= PageSize /\ reg[i] = n

\* reconcile_github_registrations, for one runner that the plan leaves alone; what
\* it removes it removes without the lock.
Reconcile(p) ==
  /\ At(p, "reconcile") /\ ps[p].todo # {}
  /\ \E n \in ps[p].todo :
       \/ /\ RunnerIsRegistered(n) /\ NoFault
          /\ Becomes(p, [ps[p] EXCEPT !.todo = @ \ {n}]) /\ UNCHANGED unit
       \/ /\ ~RunnerIsRegistered(n) /\ NoFault
          /\ unit' = [unit EXCEPT ![n] = None]
          /\ Becomes(p, [ps[p] EXCEPT !.todo = @ \ {n}, !.wiped = TRUE])
       \/ /\ Fault /\ UNCHANGED unit        \* GitHub does not answer, or the unit cannot be removed
          /\ \E w \in {ps[p].wiped, ps[p].wiped \/ ~RunnerIsRegistered(n)} :
               Becomes(p, [ps[p] EXCEPT !.todo = @ \ {n}, !.unsure = TRUE, !.wiped = w])
  /\ UNCHANGED <<file, home, reg, lock, acked, torn>>

\* The second plan is shown, but neither gated nor confirmed.
Replan(p) ==
  /\ At(p, "reconcile") /\ ps[p].todo = {}
  /\ \/ /\ NoFault
        /\ Becomes(p, [ps[p] EXCEPT !.pc = "lock", !.plan = IF ps[p].wiped THEN ComputePlan(p) ELSE @])
     \/ ps[p].wiped /\ Fault /\ ExitWith(p, ErrToExitCode("validation"))
  /\ ReadsOnly

\* build_auth_registry and resolve_plan_releases: what a create needs from elsewhere
\* (what does not end here goes on to Acquire)
Prepare(p) ==
  /\ At(p, "lock") /\ Fault
  /\ \/ ExitWith(p, ErrToExitCode("auth"))
     \/ /\ \E n \in Names : ps[p].plan[n] \in {"create", "recreate"}
        /\ ExitWith(p, ErrToExitCode("github"))
  /\ ReadsOnly

Acquire(p) ==
  /\ At(p, "lock") /\ NoFault
  /\ \/ /\ lock = None /\ lock' = p
        /\ Becomes(p, [ps[p] EXCEPT !.pc = "act", !.todo = Changes(ps[p].plan)])
     \/ lock # None /\ ExitWith(p, ErrToExitCode("locked")) /\ UNCHANGED lock
  /\ UNCHANGED <<file, unit, home, reg, acked, torn>>

-----------------------------------------------------------------------------
(* The actions of the plan, in any order (their order is in Fleet) *)

\* GitHub keeps one registration of a name (--replace).
Deregistered(n) == RemoveFirst(reg, n)
Registered(n) == Append(Deregistered(n), n)

\* An update installs nothing: a runner without a home gets no home by it.
Runs(p, n) ==
  LET op == ps[p].plan[n]
      spec == Wanted(ps[p].raw, n)
  IN /\ unit' = [unit EXCEPT ![n] = IF op = "remove" THEN None ELSE spec]
     /\ home' = CASE op = "remove" -> home \ {n}
                  [] op = "update" -> home
                  [] OTHER -> home \cup {n}
     /\ reg' \in CASE op = "remove" -> {Deregistered(n), reg}        \* best effort
                   [] op = "update" -> {reg}
                   [] OTHER -> {Registered(n)}

\* What a failed action may leave (RunnerContract): old files, new ones or none, and
\* for a create, a recreate or a removal a home or a registration more or less.  An
\* update of a runner without a home may fail when the process is restarted.
Breaks(p, n) ==
  LET op == ps[p].plan[n]
      spec == Wanted(ps[p].raw, n)
  IN /\ \/ /\ Fault
           /\ \E left \in {unit[n], spec} \cup (IF op = "update" THEN {} ELSE {None}) :
                unit' = [unit EXCEPT ![n] = left]
        \/ op = "update" /\ n \notin home /\ NoFault /\ unit' = [unit EXCEPT ![n] = spec]
     /\ IF op = "update" THEN UNCHANGED <<home, reg>>
        ELSE /\ home' \in {home} \cup (IF op = "remove" THEN {} ELSE {home \cup {n}})
                                \cup (IF op = "create" THEN {} ELSE {home \ {n}})
             /\ reg' \in {reg} \cup (IF op = "remove" THEN {} ELSE {Registered(n)})
                              \cup (IF op = "create" THEN {} ELSE {Deregistered(n)})

Act(p) ==
  /\ At(p, "act") /\ ps[p].todo # {}
  /\ \E n \in ps[p].todo :
       \/ /\ Runs(p, n) /\ NoFault
          /\ Becomes(p, [ps[p] EXCEPT !.todo = @ \ {n}, !.done = @ \cup {<<n, ps[p].plan[n]>>}])
       \/ /\ Breaks(p, n)
          /\ Becomes(p, [ps[p] EXCEPT !.todo = @ \ {n}, !.failed = @ \cup {n}])
  /\ UNCHANGED <<file, lock, acked, torn>>

\* The lock is the existence of the file, which nobody removes.
UnlockNot(p) == UNCHANGED lock
Unlock(p) == lock' = IF lock = p THEN None ELSE lock
Finish(p) ==
  /\ At(p, "act") /\ ps[p].todo = {} /\ NoFault
  /\ Unlock(p)
  /\ ExitWith(p, ApplyExitCode(ps[p]))
  /\ UNCHANGED <<file, unit, home, reg, acked, torn>>

Exit(p) == At(p, "exit") /\ Becomes(p, Idle) /\ NoFault /\ ReadsOnly

-----------------------------------------------------------------------------
(* src/cli/cmd_misc.rs: add reads ghars.toml a second time and rewrites it in *)
(* place; cleanup removes everything but ghars.toml, the lock file too.       *)

Rewriting(p) == ps[p].pc \in {"add_truncate", "add_write"}
Add(p, loc, q) == At(p, loc) /\ Becomes(p, q) /\ UNCHANGED <<unit, home, reg, lock>>
NewBlock(p) == [name |-> ps[p].name, spec |-> Default, id |-> ps[p].id]

\* The blocks to keep are those of the config that was loaded.
AddReadLoaded(p) ==
  /\ Add(p, "add_read", [ps[p] EXCEPT !.pc = "add_truncate", !.buf = ps[p].raw])
  /\ torn' = (torn \/ \E q \in Procs : Rewriting(q))
  /\ NoFault /\ UNCHANGED <<file, acked>>
AddRead(p) ==
  /\ Add(p, "add_read", [ps[p] EXCEPT !.pc = "add_truncate", !.buf = file])
  /\ torn' = (torn \/ \E q \in Procs : Rewriting(q))
  /\ NoFault /\ UNCHANGED <<file, acked>>

\* The auth is not declared, or the name or the labels are refused; the second read fails.
AddRefused(p) ==
  /\ At(p, "add_read") /\ ReadsOnly
  /\ \/ ExitWith(p, ErrToExitCode("validation")) /\ NoFault
     \/ ExitWith(p, ErrToExitCode("io")) /\ Fault

\* fs::write opens the file with O_TRUNC, or cannot,
AddTruncate(p) ==
  /\ At(p, "add_truncate") /\ UNCHANGED <<unit, home, reg, lock, acked, torn>>
  /\ \/ Goto(p, "add_write") /\ file' = <<>> /\ NoFault
     \/ ExitWith(p, ErrToExitCode("io")) /\ UNCHANGED file /\ Fault

\* and writes the text.  What others wrote since is overwritten, but the rest of a
\* longer text stays behind it; a file that was put in place of it is not touched.
Overwritten(text) ==
  {text} \cup (IF file = <<>> THEN {} ELSE {file, Append(text, Fragment)})
\* Then --no-apply, or an apply of the new name.
AddWrite(p) ==
  /\ \E next \in {"exit", "load"} :
       Add(p, "add_write", [ps[p] EXCEPT !.pc = next, !.cmd = "apply", !.buf = <<>>, !.id = 0])
  /\ file' \in Overwritten(Append(ps[p].buf, NewBlock(p)))
  /\ acked' = acked \cup {ps[p].id} /\ NoFault /\ UNCHANGED torn

\* Nothing of the text is written, or the blocks before the k-th and a part of that.
CutOff(p) ==
  LET text == Append(ps[p].buf, NewBlock(p))
  IN \/ UNCHANGED file
     \/ \E k \in DOMAIN text :
          \E b \in {[text[k] EXCEPT !.spec = s] : s \in Specs} \cup {Fragment} :
            file' = Append(SubSeq(text, 1, k - 1), b)
\* The disk is full.
AddWriteFails(p) ==
  /\ At(p, "add_write") /\ ExitWith(p, ErrToExitCode("io")) /\ Fault
  /\ CutOff(p) /\ torn' = TRUE /\ UNCHANGED <<unit, home, reg, lock, acked>>

Crash(p) ==
  /\ ~At(p, "idle") /\ Fault
  /\ Unlock(p) /\ Becomes(p, Idle)
  /\ IF At(p, "add_write") THEN CutOff(p) /\ torn' = TRUE ELSE UNCHANGED <<file, torn>>
  /\ UNCHANGED <<unit, home, reg, acked>>

CleanupStep(p) ==
  /\ \/ At(p, "c_units") /\ ExitWith(p, ErrToExitCode("systemd")) /\ UNCHANGED <<unit, home, lock>>
     \/ At(p, "c_units") /\ Goto(p, "c_state") /\ unit' = [n \in Names |-> None] /\ UNCHANGED <<home, lock>>
     \/ At(p, "c_state") /\ Goto(p, "c_runtime") /\ home' = {} /\ UNCHANGED <<unit, lock>>
     \/ At(p, "c_runtime") /\ ExitWith(p, 0) /\ lock' = None /\ UNCHANGED <<unit, home>>
  /\ NoFault /\ UNCHANGED <<file, reg, acked, torn>>

\* Somebody edits ghars.toml with an editor that replaces the file, or removes a
\* runner on GitHub.
Edit ==
  /\ Event
  /\ \/ /\ UNCHANGED reg
        /\ torn' = (torn \/ \E q \in Procs : Rewriting(q))
        /\ \E n \in Names :
             \/ /\ Wanted(file, n) # None
                /\ \E s \in Specs \ {Wanted(file, n)} :
                     file' = [i \in DOMAIN file |-> IF file[i].name = n THEN [file[i] EXCEPT !.spec = s]
                                                    ELSE file[i]]
                /\ UNCHANGED acked
             \/ /\ file' = Append(file, [name |-> n, spec |-> Default, id |-> MaxOther + budget.events])
                /\ acked' = acked \cup {MaxOther + budget.events}
             \/ \E i \in DOMAIN file :
                  file[i].name = n /\ file' = RemoveAt(file, i) /\ acked' = acked \ {file[i].id}
     \/ /\ \E n \in ToSet(reg) : reg' = Deregistered(n)
        /\ UNCHANGED <<file, acked, torn>>
  /\ UNCHANGED <<unit, home, lock, ps>>

\* Somebody takes text out that does not parse.
Mend ==
  /\ \E i \in DOMAIN file :
       file[i].name = None /\ file' = RemoveAt(file, i) /\ acked' = acked \ {file[i].id}
  /\ torn' = (torn \/ \E q \in Procs : Rewriting(q))
  /\ NoFault /\ UNCHANGED <<unit, home, reg, lock, ps>>

-----------------------------------------------------------------------------
Command(p) ==
  \/ Load(p) \/ Preflight(p) \/ Plan(p) \/ Reconcile(p) \/ Replan(p) \/ Prepare(p)
  \/ Acquire(p) \/ Act(p) \/ Finish(p) \/ Exit(p)
  \/ AddRead(p) \/ AddRefused(p) \/ AddTruncate(p) \/ AddWrite(p) \/ AddWriteFails(p) \/ CleanupStep(p)

\* Who is disturbed: every process but the one that moves.
Disturb(mover) ==
  disturbed' = {q \in Procs : /\ ps'[q].pc \notin {"idle", "load"}
                              /\ q \in disturbed \/ (q # mover /\ <<host, file>>' # <<host, file>>)}

Init ==
  /\ file = [i \in 1..Cardinality(Names) |-> [name |-> SetToSeq(Names)[i], spec |-> Default, id |-> 0]]
  /\ unit = [n \in Names |-> None] /\ home = {} /\ reg = <<>>
  /\ lock = None /\ ps = [p \in Procs |-> Idle]
  /\ budget = [events |-> MaxEvents, other |-> MaxOther]
  /\ disturbed = {} /\ acked = {} /\ torn = FALSE

Next ==
  \/ PlainApply /\ Disturb(Timer)
  \/ \E p \in Procs : (Other(p) \/ Command(p) \/ Crash(p)) /\ Disturb(p)
  \/ (Edit \/ Mend) /\ Disturb(None)

\* A process that runs goes on, and ghars apply is run again and again.
Fairness ==
  /\ \A p \in Procs : WF_vars(Command(p) /\ Disturb(p))
  /\ WF_vars(PlainApply /\ Disturb(Timer))
Spec == Init /\ [][Next]_vars /\ Fairness

-----------------------------------------------------------------------------
(* Properties *)

\* No unit and no home is changed before the operator has approved it: neither by a
\* dry run, a gated or a declined apply, nor by the reconciliation, which needs no
\* lock (cmd_apply, the order of its steps; the directories under /run that it makes
\* before it asks are no part of this).
ConsentFirst ==
  [][<<unit, home>>' # <<unit, home>> =>
       \E p \in Procs : ps[p]' # ps[p] /\ (ps[p].cmd = "cleanup" \/ ps[p].approved)]_vars

\* An apply of everything that reports no failure, and that nobody disturbed after it
\* had read ghars.toml, has left exactly the runners of ghars.toml, and left or made
\* every one registered that it did not merely update, where GitHub could be asked
\* (cmd_apply, reconcile_github_registrations, apply_exit_code).
Succeeded(p) ==
  At(p, "exit") /\ ps[p].cmd = "apply" /\ ps[p].name = None /\ ps[p].approved /\ p \notin disturbed /\ ps[p].code \in {0, 2, 8}
CleanExitIsApplied ==
  \A p \in Procs : Succeeded(p) =>
    \A n \in Names :
      /\ unit[n] = Wanted(ps[p].raw, n)
      /\ unit[n] # None /\ ps[p].plan[n] # "update" /\ ~ps[p].unsure /\ ~ps[p].opt.detailed
           => n \in ToSet(reg)

\* With --detailed-exitcode-recreate nothing is recreated, although the plan that is
\* carried out may not be the one that was gated (recreate_exit_code, Replan).
GateHolds ==
  \A p \in Procs : ps[p].opt.gate /\ p \notin disturbed => \A d \in ps[p].done : d[2] # "recreate"

\* No block that was added to ghars.toml is lost, unless two rewrites of the file
\* overlapped between their second read and their write, or an add was killed, or its
\* write failed, after it had truncated the file (cmd_add).
AddsKept ==
  ~torn /\ (\A p \in Procs : ~At(p, "add_write")) => acked \subseteq {file[i].id : i \in DOMAIN file}

\* Whatever stale plans were carried out, and whatever was removed without the lock,
\* the runners come back to what ghars.toml says, as long as it says something: a file
\* that a failed add left in pieces is refused until it is mended (cmd_apply, run again
\* and again).
InSync ==
  \A n \in Names :
    /\ unit[n] = Wanted(file, n)
    /\ unit[n] # None => n \in ToSet(reg)
Converges == []<>(InSync \/ ~Parses(file))
=============================================================================
