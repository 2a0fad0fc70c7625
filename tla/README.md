# TLA+ verification of ghars

ghars turns a TOML file into a fleet of self-hosted GitHub Actions runners on one
host. `ghars apply` reads the configuration, discovers what is on the host, plans
one action per resource (create, update, remove, no-op) and executes the actions:
it downloads and installs the runner binary, registers it with GitHub, writes
systemd unit files and drop-ins, sets up network namespaces and cache pools, and
starts the units. There is no daemon and no database: the state is the host itself
(unit files, annotations in drop-ins, home directories, systemd, GitHub), every
apply starts from what an earlier one left behind, and an apply may fail or be
killed between any two calls. That is what this project is about.

Paths below are relative to the crate, `src/` of the repository.

## Inventory

| Component | State it keeps | Operations | Talks to | What makes it correct |
|---|---|---|---|---|
| Apply lock (`apply/lock.rs`) | `apply.lock`: an inode, its flock, the PID in its body | `acquire_lock`, Drop, `read_pid_from_lock`, `pid_is_alive` | kernel, operators | one apply at a time; a dead holder never blocks; a refusal names the right PID and always comes |
| Orchestrator (`apply/orchestrator.rs`, `phases.rs`, `outcome.rs`) | the plan, result lists, one undo log per action | `apply`, `execute`, `record_action_failure` | all actions, systemd | order of phases, one result per action, failures confined to their action |
| Runner actions (`apply/runners.rs`, `update_runner.rs`) | unit file, drop-ins, home, registration, service | create, update (in place / recreate), remove | systemd, GitHub, file system | success means complete; update means exact; removal means gone |
| Rollback (`apply/undo.rs`) | `UndoLog` | `push`, `undo`, `undo_one` | systemd, GitHub, file system | with `--rollback-on-failure` files and process are what they were |
| Planner (`plan/compute.rs`, `classify.rs`) | none | `plan_from_with_latest`, `classify_recreate_reasons…` | discovery | the action planned brings the host to the spec |
| Discovery (`state.rs`, `unit_verify.rs`) | none | list unit files, parse annotations, `classify_drift` | file system, systemd | what exists is seen |
| GitHub reconciliation (`cli/cmd_apply.rs`, `github.rs`) | none | `reconcile_github_registrations` | GitHub, file system | a runner unknown to GitHub is registered again |
| systemd client (`systemd/dbus.rs`) | D-Bus connection, systemd's queue of jobs | reload, enable, disable, start, stop, MainPID | systemd | a call that returned is only a queued job: nothing may rely on more |
| Atomic writes, GC (`apply/writes.rs`, `gc.rs`) | temp files, staging directories | `write_root_owned`, `write_if_changed`, sweeps | file system | readers see old or new, temp files of the dead go, those of the living stay |
| Cache pools (`apply/pools.rs`) | pool drop-ins, pool directory, unit | create, update, remove | systemd | as for runners; no runner without its pool |
| Network namespaces (`netns.rs`, `apply/netns.rs`) | namespaces, veths, nft tables, subnets | setup, teardown, verify | kernel | a runner never runs unfiltered; setup copes with leftovers; a clean stop leaves nothing; subnets are disjoint |
| Runner binaries (`extract.rs`) | version directories, `bin` | download, verify, extract, swap, prune | network, file system | a unit starts a whole installation; the one just installed is not pruned |
| Plan inputs (`plan/expand.rs`, `merge.rs`, `hash.rs`, `config.rs`) | none | count expansion, merging of defaults, spec hash | – | names are distinct, merging is idempotent |
| Validators (`validators.rs`, `cli/load.rs`) | none | predicates, the sweep of `load_config` | – | what passes can be rendered, read back and set up |
| Rendering (`systemd/units.rs`, `nft.rs`) | none | unit, drop-in and rule text | – | discovery reads what was written; everything rendered is in the hash |
| Authentication (`auth.rs`) | tokens in memory | resolve, mint | GitHub | – |
| Exit codes (`cli/exit_codes.rs`) | none | result lists to exit code | – | a failure is never exit 0 |
| Commands (`cli/cmd_*.rs`), preflight | `ghars.toml` (`add`), the host (`cleanup`) | apply with preview, gates and prompt; add; cleanup; status, metrics, plan | everything | nothing before consent; success means applied; no lost edit |

What is hard in this code: two ghars processes and an operator around one lock
file; calls that fail after they took effect; crashes between the calls of an
action, with in-memory state (undo log, saved overrides) lost; partial state that a
later apply has to recognise from a few files; the order in which marker files (the
unit file for existence, `00-ghars.conf` for the hash) are written and removed
relative to what they stand for; systemd running a configuration other than the one
on disk, or still working on the last job; commands that read and write without the
lock; text that is written by one part and parsed by another; power failures.
`PROJECT.json` lists these hazards with their lines.

## Modules

| Module | Models | Extends |
|---|---|---|
| `ApplyLock` | the apply lock | – |
| `MCApplyLock` | instances for TLC | `ApplyLock` |
| `ApplyLockProofs` | theorems about the lock | `ApplyLock` |
| `RunnerApply` | one runner through any sequence of applies: plan, actions, rollback, reconciliation | – |
| `MCRunnerApply` | instances for TLC | `RunnerApply` |
| `RunnerApplyProofs` | theorems about the runner actions, rollback and the contract | `RunnerApply` |
| `PublishProofs` | theorems about writes and their undo, and the refinement of `AtomicFile` | `Publish` |
| `FleetProofs` | theorems about a whole apply | `Fleet` |
| `InstallProofs` | theorems about trees, swaps and the prune | `Install` |
| `NetnsProofs` | theorems about namespaces | `Netns` |
| `SessionProofs` | theorems about processes side by side | `Session` |
| `PlanProofs` | theorems about plans: what is read back is what was rendered, and what follows for the next plan | `Plan` |
| `RunnerContract` | what a runner action promises: its possible results, seen from outside | – (instantiated by `RunnerApply` and `Fleet`) |
| `Fleet` | a whole apply over several runners and cache pools: plan, phases, result lists, exit codes, pool handlers | instantiates `RunnerContract` |
| `MCFleet` | instances for TLC | `Fleet` |
| `AtomicFile` | what a reader may see of a file that is replaced (abstract) | – |
| `Publish`, `MCPublish` | `write_root_owned`, its callers, undo of a write, the sweep of temp files; implements `AtomicFile` | instantiates `AtomicFile` |
| `Install`, `MCInstall` | download, extraction, swap, prune, the sweep of staging trees | – |
| `Validators` | what a value may look like | – |
| `Inputs` | `load_config`, count expansion, merging, lowering, hashes | `Validators` |
| `Units` | rendering of runners and pools, the parser that reads them back, the comparison | `Inputs` |
| `Plan`, `MCPlan` | discovery, planner and successful applies from config to config | `Units` |
| `Netns`, `MCNetns` | the namespace of a runner: files, commands, units, jobs | – |
| `Session`, `MCSession` | the commands from the command line to the exit code, side by side | – |

### ApplyLock

`lockPath`, `body`, `flock` and `fd` keep apart what `lock.rs` keeps apart: the
flock belongs to the inode a process has open, the PID that a refused process
reports is read again through the path. `pc` follows a process through `cmd_apply`
and `acquire_lock`: `Open`, `TryLock`, the two halves of `write_pid_to_lock`
(`Truncate`, `WritePid`), `ReadPid` and `Probe` after a refusal, `Release` (Drop).
`DryRun` is the branch that returns before the lock. `Crash` may come at any time and
covers error returns; the kernel then releases the flock. `RemoveStale` is the
operator who does what a stale refusal says. Process ids are reused. Setting the mode
of the file is left out.

### RunnerApply

Host: `unit`, `dropIn`, `oper` (an operator's own drop-in), `bin`, `env` and `tight`
per trust zone (installation and credentials, environment files, ownership and modes
after the start), `github`. systemd: `enabled`, `loaded` (the configuration of the
last reload), `running` (the configuration the process was started with), `session`
(the registration whose credentials it holds). The apply process: `pc`, `opts`,
`plan`, `todo`, `changed`, `log`, `outcome`. `before` and `clean` are ghosts for
stating properties.

One action per call of the handlers, in their order; the create, in-place and
recreate paths share actions and `plan.kind` decides where each goes next:

| Path | Steps |
|---|---|
| `execute_create_runner` | `Install`, `Register`, `WriteEnv`, `WriteUnit`, `WriteDropIn`*, `Enable`, `Reload`, `Start`, `Tighten` |
| `execute_update_runner`, in place | `WriteUnit`, `RemoveStaleDropIn`*, `WriteDropIn`*, `WriteEnv`, `Decide`, `Reload`, `Stop`, `Start` |
| `execute_remove_runner` | `Stop`, `Disable`, `Deregister`, `RemoveUnit`, `RemoveDropIns`*, `RemoveHome` |
| `execute_update_runner`, recreate | `Snapshot`, remove, create, `Restore` |
| `undo` | `UndoFile`, `UndoService`, `UndoHome`, `UndoSkips`, `UndoDone` |
| `cmd_apply` | `Begin`, `Reconcile`, …, `Final` |

Each call may fail before it takes effect (`FailsBefore`), or after it
(`FailsAfter`: a lost D-Bus reply, or an fsync of the parent directory that fails
after the rename, where the file is there and no undo step is). An undo step may fail
and is skipped. A file that is about to be rewritten may be there and not be readable
(`ReadFails`): `read_prior` then takes it for a new file, which undo removes, and
`snapshot_operator_drop_ins` skips it (`Snapshot`); `unread` remembers which. A process
may not come up after its start. `Crash` may come between any two steps; it also stands
for `cmd_apply` returning an error between reconciliation and the first action. Between
applies operators edit the configuration or the unit, or delete the registration.
`FaultKinds` and `EditKinds` say which of these happen in a run.

After the start a create waits for the user of the trust zone (`UserExists`), not for
the process. Every runner of the zone has that user, so where a sibling runs
(`Siblings`) the create reports success whether its own process came up or not. The arm
that returns before that for an apply that is not root (`apply/runners.rs:1151`) cannot
be reached: `Install` has called `require_root_for_install` (`extract.rs:757`) by then,
and failed.

Abstractions: a file body is the spec it was rendered for, and the spec hash is
injective. A spec is what the planner tells apart: recreate-bound fields
(`Identity`), trust zone, set of optional drop-ins. Modes and owners are one bit per
zone. Start and stop take effect at the call (`Netns` has the job queue). A missing
runner version in the in-place path is a `FailsBefore` of `WriteEnv`. Network side
units and pool directories of a runner are not in this module.

### RunnerContract

The planner and discovery tell three things about a runner: whether its unit file
exists, the spec in `00-ghars.conf`, and the spec its process was started with. The
module says, for each kind of action, which of these views it may leave when it
succeeds (`Completed`), fails or is killed (`Interrupted`), fails and is rolled back
(`RolledBack`), and fails, with a rollback that does not complete or is killed
(`PartlyUndone`). `RunnerApply` is shown to keep it call by call, for kills too
(`KeepsContract`); `Fleet` takes a runner action as one step with any result the
contract allows, a successful restart that left nothing running among them. The one
thing it adds is that a new process exists only on pools that could start.

### Fleet

Host: `runner` (a view per runner), `needs` (the `Requires=` systemd has loaded), and
for pools `pdir`, `pdrop`, `poper` (drop-in directory, `00-ghars.conf`, an operator's
own drop-in), `penabled`, `prun`, `pdata` (storage). The process: `pc`, `opts`,
`planned`, `queue` (what `sort_into_phases` has not handed out yet), `cur`, `log` and
`prior` (the undo log of a pool action), `result` (`ApplyResult`), `exit`; and as a
ghost `left`, the process that the last successful action on a runner left.

| Path | Steps |
|---|---|
| `cmd_apply` | `Begin` (plan, recreate gate, prompt), `Reconcile` (with the second plan), …, `Exit` |
| `apply` | `SkipNoOp`, `RunnerAction`, `BeginPool`, `Final` or `FailFast` |
| `execute_create_cache_pool` | `WritePool`, `EnablePool`, `ReloadPool`, `StartPool` |
| `execute_update_cache_pool` | `WritePool`, `ReloadPool`, `StopPool`, `StartPool` |
| `execute_remove_cache_pool` | `StopPool`, `DisablePool`, `RemovePoolDropIns`, `RemovePoolData` |
| `undo` of a pool action | `UndoPool`, in one step, any of its parts failing |

Runners and pools meet in systemd, modelled from the `Requires=` and
`StopWhenUnneeded=` the code writes: starting a runner pulls up its pools, stopping a
pool takes down the runners that require it, and a pool no running runner requires is
stopped at any time (`StopUnneeded`). A spec embeds the settings of its pools, as the
spec hash does. The shared template unit, which every create writes with the same
bytes, is taken to be there; preflight, `--dry-run` and errors before the plan change
nothing and are left out; `--only` names resources rather than fragments of labels.

### AtomicFile and Publish

`Publish` is `write_root_owned` (`apply/writes.rs`) step by step: `O_EXCL` create of
`.NAME.tmp.PID.COUNTER`, write, mode, `sync_all`, rename, `fsync` of the directory;
with its callers `write_record_undo` and `read_then_write_if_changed`, the undo of a
write, and `gc_stale_temp_files`. `entry` is the inode that a path names, `durable` the
one it names after a power failure; `temps` are the temporary files with owner and
age. Each call may fail, the process may be killed and the power may fail between any
two steps; process ids are used again. A directory is missing, new or flushed (`dirs`):
`MakeParent` is the `create_dir_all` of `write_root_owned`, and nobody flushes the entry
of what it made in the directory above, so a power failure may take the directory with
all that is in it (`vanished` are the files that had that happen). `AtomicFile` is what readers rely on: a file is
replaced as a whole by what some writer was asked to write, or removed, and only what
is not durable yet may be taken back. `ImplementsAtomicFile` maps `entry` and `durable`
to it. `.path` and `.env` in a runner home go through the same function, but the sweep
does not list that directory (`Scanned`).

### Install

One runner home through any number of installs: `HttpDownload` and `DownloadAndVerify`,
or `UseLocalTarball` (a `runner_tarball`, which has no checksum), `MakeStaging`,
`ExtractTarball`, then one of the three ways to the final place (`Swap` with
`renameat2`, `Clear` and `Move`, `Copy` across devices), `Discard`, `SetMode`, `Prune`,
`PublishUnit`; and `StaleStaging`, the sweep. A tree is absent, partial or whole, and
readable by the runner or not.

Trees are pruned by modification time, and those are of the wall clock: `newer` is their
order, `ahead` the trees with a time that is still to come. `Written` is what a step
that writes into directories does to both. `ClockBack` sets the clock back, `Touch` is an
operator who touches a tree. The ghost `late` says that the tree put in place last has
not been the newest ever since.

Which members of an archive pass `safe_member_filter` is not modelled. It judges the
targets of links one by one and by their components only; what a member does behind
links that are in the tree already depends on the file system, on
`verify_extracted_inside_dest` and on the checks of the tar crate.

### Validators, Inputs, Units, Plan

These four follow a config from `ghars.toml` to files and back. They are operators, one
per function of the code and named after it; `Plan` puts a small state machine around
them: the operator applies one config after the other, GitHub publishes a release or
does not answer, somebody edits a unit or adds a drop-in, ghars is upgraded. An apply is
one step there that succeeds; failures are the subject of `RunnerApply` and `Fleet`.

A text is a sequence of symbols, each a character or a word that the code only looks
for as a whole, so that escaping, splitting at commas, trailing backslashes, trimming
and length limits do what they do. A file is a sequence of lines. `Units` renders the
drop-ins of a spec (`RenderIdentity`, `RenderHardening`, `RenderNetwork`, …) and parses
them again (`ParsedUnit`, `DiscoveredAnnotations`), and `Plan` compares what was parsed
with what would be rendered now. Lists that the code sorts and deduplicates are sets;
the hash of a spec is the canonical spec itself. `IsConfig` says what deserialisation lets
into a config, table by table, and `Plain` what the labels and digests of a config do not
hold although no check of `load_config` refuses it.

Left out: a change of trust zone of an existing runner (in `RunnerApply`), `--only` (in
`Fleet`), sha256 values with backslashes, `systemd-analyze verify`, and rules for
characters that no later parser treats in a special way.

### Netns

`kern` is what the kernel and resolved know (namespace, veth, addresses, the rules
inside and on the host, the resolver drop-in), `files` what an apply has written,
`unit` and `loaded` the runner's unit on disk and in systemd, `net` and `run` the two
units with the commands they still have to run, `jobs` the jobs that wait. `SetupSteps`
and `TeardownSteps` are the commands of `_netns-setup` and `_netns-teardown`, one step
each; the applies (`CreateRunner`, `UpdateRunner`, `RemoveRunner`, `Recreate`) are
sequences of file writes and calls. Commands and calls fail, setup and teardown time
out or are killed, the host reboots.

systemd is external: one job per unit, a new one replaces the one that waits;
`After=`, `Requires=` and `BindsTo=` as the rendered units have them; a job that waits
for nothing begins before anything else happens. The rules that a table holds are the
sequence of the rules loaded into it, because `nft -f` adds to a table that exists.

### Session

Several ghars processes next to each other, with everything that happens outside the
lock: `Start` and `Load` (reading `ghars.toml`), `Plan` and `Decisions` (preview, dry
run, recreate gate, prompt, in the order of `cmd_apply`), `Reconcile` (which removes
unit files without the lock), `Replan`, `Prepare`, `Acquire`, `Act`, `Finish`; `add` in
four steps (the read of the config, the second read, truncation, write), each of which
may fail, and `cleanup` in three. A write of `ghars.toml` that fails or is killed leaves
the file empty or cut off in the middle of the new block (`Fragment`); a cut file does
not parse (`Parses`), every command then ends with exit code 6, until an operator mends
it (`Mend`). A runner is the spec in its unit, its home and its registration; an action
succeeds, or leaves what `RunnerContract` allows. Registrations are listed oldest
first, and `runner_is_registered` looks at `PageSize` of them. Ghosts: `disturbed` are
the processes under whose feet another one changed the host or the file, `acked` the
blocks that were added, `torn` says that two rewrites of the file overlapped, or one
was killed or failed half-way.

## Runs

| Run | Checks | Bounds |
|---|---|---|
| `lock` | `ExclusiveUntilRemoved`, `LockOwnedByHolder`, `HolderIsRecorded`, `AcquireDecides` | 3 processes, 2 inodes |
| `runner` | `CreatedIsComplete`, `UpdatedIsExact`, `RemovedIsGone`, `RollbackRestoresFiles`, `RollbackStopsNewProcess`, `KeepsContract` | 4 specs, 3 drop-ins, 2 zones with a sibling in one, 1 fault, 1 crash, 2 edits |
| `runner_converges` | `Converges` | 3 specs, rollback always, 3 failing calls, no crash, 3 edits |
| `runner_partial` (violation) | `NoOpIsComplete` | 1 fault |
| `fleet` | `SuccessIsApplied`, `NoDanglingPool`, `ChangedRunnersRun`, `PoolOutlivesItsRunners`, `FilesConverge` | 2 runners, 1 pool, 3 runner blocks, 2 pool settings, 4 option groups, 1 fault or crash, 1 edit |
| `publish` | `AckedIsDurable`, `RollbackRestores`, `ImplementsAtomicFile`, `LeftoversCollected` | 1 file, 2 contents, 2 process ids, 1 write per apply, 1 power failure |
| `install` | `UnitHasTree`, `StagingSwept` | 2 versions, one of them local, 2 process ids, `keep_versions` 1, 1 staging tree, 1 power failure, 1 step back of the clock |
| `plan` | `AnnotationsRecovered`, `Idempotent`, `UnchangedConfigKeepsRunners`, `NoChangeMissed`, `WarningsExplained`, `OrderDoesNotMatter`, `RegistrationCurrent`, `NamesFit` | 53 configs (49 of which can be planned), 2 releases, 2 renderers, 1 hand edit |
| `netns_follows` (violation) | `NetnsFollows` | as `plan` |
| `netns` | `Filtered`, `SetupHeals`, `StopLeavesNothing`, `Settles` | 3 networks, 3 applies, 1 fault, 1 reboot |
| `netns_resolver` (violation) | `ResolverForgets` | 3 networks, 3 applies |
| `session` | `CleanExitIsApplied`, `GateHolds`, `AddsKept`, `ConsentFirst`, `Converges` | 2 runners, 3 specs, pages of 1, a repeated apply and 1 other command, 1 edit, failed call or kill |

Why the bounds are enough to be interesting. Lock: a holder, a refused contender and
a third apply that comes after the removal are all the roles there are, and two
inodes are the file before and after it.
Runner: from `base`, `trim` drops a drop-in (in place, with a superseded file),
`moved` changes the zone (in place) and `other` the identity (recreate), so every
kind of action and every pair of consecutive actions occurs; one fault and one crash
hit every call of every action, and two edits give three different applies in a row.
For `Converges` it takes a failed removal, its rollback and an edit back to see what a
second edit can do; three edits and three failures leave room for one more of each.
Fleet: any configuration followed by any other, so
every combination of actions on two runners and the pool they may share is planned;
the three blocks use the pool, use it under another identity, and do not use it. The
option groups pair options that do not act on the same step. Publish: one file is enough
because the steps of a write name one file only, and two process ids let an id be used
again; its directory is there or made by the write. Install: two versions with
`keep_versions` 1 make every install prune; staging trees do not meet each other, so
one at a time is enough for the sweep. Plan: each config differs from a
base in one field, or in a few that the planner treats alike, in both directions,
and every check of `load_config` refuses some config; for every cause that
`UnshownCause` lists there are two configs that differ in it alone. `MaxCount` and
`NetnsPoolSlots` are those of the code. Netns:
the two namespaces differ in everything a namespace has, and three applies give every
order of create, change and removal, one of them cut off. Session: with pages of one,
the second of two registrations is always on the next page; the other command may be
an apply in any mode, an add or a cleanup, and overlaps any number of applies. The
theorems below have none of these bounds: where a property is proved, the run shows
that its cases happen, and that a slip in the code would break it.

Fairness. `ApplyLock`: a started process is scheduled, because no call of
`acquire_lock` blocks. `RunnerApply`: `WF(Step)`, because the process is scheduled
and its calls return or time out (an error is a step as well), and `WF(Apply)`, the
hypothesis of `Converges` that operators run apply again. Nothing is assumed of
crashes, faults, edits and removals. `Converges` also assumes what its configuration
says: rollback, no crash, calls failing only before they take effect (an unreadable file
among them), processes that come up, no failing removal during reconciliation, no unit
edited by hand, and an apply that failed is repeated before the configuration is edited
again (`EditKinds` without "unit" and "impatient"). Each is needed. `runner_partial`
shows what happens without rollback. Without the last, a removal that stops and disables
a runner and then fails is rolled back without starting it again, an edit back to the
old spec finds its hash on disk, and the runner stays down for good. And an in-place
update of a unit with an operator's drop-in that removes a superseded file and then
cannot restart writes nothing the next time, hence restarts nothing. `Fleet`: `WF(Step)` for the same reason, and `SF(FullApply)`, that operators
do not for ever filter, gate or decline their applies; `FilesConverge` is about files
only, and needs neither rollback nor the absence of crashes. `Publish` and `Install`:
an apply goes on, time passes, and operators keep applying; a removal of the sweep may
fail, but not always. `Netns`: units run the commands they have begun, and
`TimeoutSec=` and `TimeoutStopSec=` end those that hang; an apply goes on. `Session`: a
process goes on, because nothing in `cmd_apply` waits for another process, and `ghars
apply` is run again and again, which is the hypothesis of `Converges`.

### What the violation runs show

Each states a sentence of the documentation or of a comment and finds a behaviour of
the code that contradicts it; `PROJECT.json` quotes the sentences.

* `runner_partial`. `00-ghars.conf` holds the spec hash and is the first drop-in
  written. A create that fails after it, without rollback, is planned as a no-op by the
  next apply, although drop-ins are missing and nothing runs.
* `netns_resolver`. A stop that was queued reads the config after the next create has
  rewritten it for a static resolver. It removes the drop-in and, against its comment,
  does not reload the resolver, which goes on listening on the address that is gone.
* `netns_follows`. The config and the rules of a namespace are written when its runner
  is created. A change of resolver, egress rules or subnet is planned as an in-place
  update, which writes neither and does not restart the namespace unit; the next plan
  is all no-ops, and the runner keeps the old network.

### What else the models show

Behaviours of the code that contradict a comment or a document, or that a reader would
not expect. They are in the models, and the properties are stated so as to leave them
out; they are not checked as violations.

* Egress rules. `classify.rs:246` says that a change of the rules shows as a changed
  `40-network.conf`, and `classify.rs:480` that it does not yet. `render_network` writes
  no rule into it, so all that the planner has to say of such an update is the warning
  that something it does not know changed. What else ends in that warning is
  `UnshownCause`; `WarningsExplained` says that nothing outside of it does.
* The lock file. The flock is taken before the PID is written: a process refused in
  between reads an empty body or the PID of the previous apply and reports a stale lock.
  If the operator removes the file, as `docs/src/operations.md:447` says is safe, two
  applies run; hence the "until removed" of `ExclusiveUntilRemoved`. Dry runs do not
  take the lock (`docs/src/operations.md:140` says they do).
* Removal. Runners are discovered by unit file, which a removal deletes before drop-ins
  and home; if the rest fails no later apply sees the runner (`apply/undo.rs:374` says
  that re-running completes it).
* Recreate. The operator's drop-ins are in memory between removal and restore, and lost
  if it fails in between. They are restored after the start, so the new process does
  not run them.
* Trust zone. A change is planned as in place because "the runner unit body has no
  `trust_zone` dependency" (`classify.rs:535`). `00-ghars.conf` has: it names the user and
  the home of the new zone, where nothing is installed. The restart is reported as done
  (`InPlaceRestarted`), and nothing runs.
* New directories. The fsync after the rename is there "so recovery sees the new dirent"
  (`apply/writes.rs:235`). When the write has made the directory itself, the entry of the
  directory is not flushed, and a power failure takes an acknowledged file away with it:
  the exception in `AckedIsDurable`, and the fallback in the refinement.
* Prune. "The current install + (N-1) rollback targets" are kept (`config.rs:147`), but
  what is kept are the trees with the latest modification times: with `keep_versions` 1,
  and an older tree touched or the clock set back, the prune removes the new tree, and
  the unit is published without one. It is the hypothesis `~late` of `UnitHasTree`.
* Siblings. The poll after a start looks for the user of the trust zone: a create whose
  process does not come up is reported as done when another runner of the zone runs.
* Unreadable files. A file that is there and cannot be read counts as new: rollback
  deletes it, and a recreate drops an operator's drop-in with a warning only.
* GitHub. A runner deleted there is registered again by a create that does not stop the
  running process, which keeps credentials that were just replaced. The registration is
  looked for on the first page only (`list_runner_statuses` reads all of them): with
  more registrations than a page holds, runners in sync are wiped and created again at
  every apply. With `--detailed-exitcode` a plan without changes returns before GitHub
  is asked. A runner that is updated in place is not looked up at all.
* Exit codes. An apply that failed altogether for want of a token exits 1: the error is
  wrapped in `GharsError::Apply` before `apply_exit_code` looks for `GharsError::Auth`.
* Tokens. `PatToken::new` removes its variable from the environment, so
  `resolve_plan_releases`, which comes later, asks without a token, and a second
  `[auth.*]` block that names the same variable fails.
* `ghars.toml`. `add` truncates the file before it writes it: if it is killed in
  between, or the write fails, the file is empty, and an apply that reads it then
  removes every runner, because an empty config is valid; or it is cut off. Two overlapping adds lose one of the blocks. Two
  blocks with one name are accepted, and the later one counts.
* `cleanup` takes no lock and removes the lock file of a running apply. If it overlaps
  an apply a unit may stay whose home is gone; it counts as in sync from then on, which
  is why `CleanExitIsApplied` and `Converges` speak of units and registrations only.
* Plans. `load_config` does not validate URLs, labels, memory limits and sha256 values; a
  label with a comma or a sha256 that ends in a backslash is not read back as written,
  and is excluded by the checks the renderer makes. Changing only `sccache_path` does not
  change the hash of a pool. A hand-edited managed drop-in is not seen as drift. A
  tarball or a sha256 pin where there was none is an update without explanation.
* Namespaces. Stopping and starting only queue jobs: teardown may run before the runner
  has stopped, or not at all when a start replaces the waiting stop, and the old
  namespace stays. What a stop during
  activation or a failed start leaves (namespace, veth, host table, drop-in) is removed
  by the next setup only. `nft -f` adds to a host table that was left behind, so the
  rules loaded first decide; `Filtered` therefore speaks of the rules inside.

## Proofs

TLAPS proves every safety property that a passing run checks, for
every value of the constants: any number of processes, runners, pools, files, versions,
networks, configs, releases, faults, crashes and edits. The constants only have to satisfy
the assumptions that their modules name, and TLC evaluates these on every run:
`LockConstants`, `RunnerConstants`, `PublishConstants`, `FleetConstants`,
`InstallConstants` (`keep_versions` is at least 1, as `plan_from` makes it),
`NetnsConstants`,
`SessionConstants` (finitely many runner names), `InputsConstants` (a `MAX_COUNT` of up to
four digits, a default zone that passes its own check), `UnitsConstants` (separators and
the words of annotations are strings) and `LabelsAreSome` (`None` is no header and no set of labels, which the untyped values of
TLA+ leave open), `PlanConstants` (configs as serde lets them in, releases with version
numbers), and that the value for "no spec" is no spec (`NoneIsNoSpec`).

A property about the end of an action is never inductive. Each invariant below says what
holds at every location on the way; TLC found or checked it before it was proved, and a
proof has one step per action, split by the conjunct that the action can disturb.

* `ApplyLockProofs`: `LockTableSound`, `LockExcludes`, `HolderRecorded`.
  `LockOwnedByHolder` alone is not inductive, because `TryLock` needs to know that a
  process at a holding location owns the flock of the inode it has open: `LockInv` adds
  that and that every location between open and verdict has a descriptor. `PathInv`
  says that until the first removal all descriptors are open on the inode at the path;
  two holders then own the same flock, which is exclusion.
* `RunnerApplyProofs`: `RunnerTypeCorrect`, `CreateCompletes`, `UpdateIsExact`,
  `RemovalLeavesNothing`. `TypeInv` adds to `TypeOK` which kinds of plan may be at which
  location, without which `Identity[plan.to]` could be applied to `None`.
  `ProgressInv` says for every location what the action has established so far:
  `FilesProgress` (unit, drop-ins written, superseded ones gone), `HomeProgress`
  (installation, environment, ownership), `ProcessProgress` (loaded configuration and
  process), `CallProgress` (registration, enabled, whether anything changed).
* Rollback, in the same module: `RollbackRestoresAllFiles`, `RollbackStopsProcess`,
  `ActionsKeepContract`. They need to know what is in the undo log. `RollInv`: each
  recorded step holds what its target was before the action (`UndoTargets`), what is
  going to be written next is not recorded yet (`NotYetWritten`), a target without a
  step is untouched (`Unlogged`), what a step stands for has been touched (`Touched`), a
  process was started with an `ExecStart=` (`HasSpec`), and what an action that is over
  has left (`Ended`). From it follows the contract that `Fleet` is built on, for
  every result an action can have.
* `PublishProofs`: `AckedSurvives`, `PublishRefinesAtomicFile`. `PublishInv` says that
  every path names a whole and flushed inode or none, now and after a power failure,
  what is known of the temporary file at each step of the call, and that the file being
  written has nothing acknowledged. A power failure then only chooses between two whole
  inodes (`WholeSurvives`), so a rename is `AtomicFile`'s replacement and nothing is torn.
  `RollbackAlwaysRestores`: a path may be written several times, and the log is undone
  from its end. The first step for a path holds its old content (`FirstEntries`), a path
  without one is as before (`Untouched`), the call that is running has read the content
  it will record (`CallReads`), what the undo has passed is restored unless an earlier
  step follows (`WalkedBack`), and so is what it is writing (`CallRestores`).
* `FleetProofs`: `SuccessMeansApplied`, `PoolsAreThere`, `RunnersStayUp`, `PoolsGoLast`.
  `PlanOK`: one action per resource, each what the host and the configuration at
  planning time ask for. `InOrder`: no action is executed before one of an earlier phase.
  `RunnersReached` and `PoolsReached`: what has left the queue is as planned, or failed,
  or was filtered out; `PoolProgress` is this for the pool action in between its calls.
  `RunnersRun`: later actions do not take down what was started, which rests on `InOrder`
  (pools first, removals last) and on `needs`. `StorageGone` is about removed pools.
* `InstallProofs`: `TypeCorrect`, `UnitAlwaysHasTree`.
  Nothing is staged before the checksum was right or the tarball is the operator's
  (`Verified`), what is moved, exchanged or copied is whole (`StagedWhole`), and so is
  what was placed (`Placed`). As long as no tree was ahead of the one put in place and
  none has been touched since (`~late`), no tree is newer than it until the prune has
  looked (`Youngest`), so the prune keeps it for every `keep_versions`.
* `NetnsProofs`: `TypeCorrect`, `AlwaysFiltered`, `SetupAlwaysHeals`, `StopAlwaysClears`.
  `NetInv` says what the kernel has before each command of `ExecStart=` and `ExecStop=`,
  `OpInv` what files, units and jobs are before each step of an apply, `RunInv` that a
  runner of a namespace that is going has its namespace unit active and not about to
  stop, `FilesAgree` that config and rules are of one network, `UnitInv` what is left
  when there is no runner.
* `SessionProofs`: `TypeCorrect`, `CleanExit`, `GateIsKept`, `AddedStays`,
  `ConsentComesFirst`. `StageOK` says what each location implies, and `Current` what a
  process under whose feet nothing changed still knows: its plan is the plan of the host
  and the file now, the gate has seen it, registrations were checked, failures are
  reported. Every step of another process either keeps this or puts the process among
  the disturbed. `AddsInv`: without an overlap at most one process rewrites `ghars.toml`,
  and what it is going to write has every acknowledged block.

* `PlanProofs`: `Recovered`, `AppliesAreIdempotent`, `RunnersAreKept`,
  `RegistrationsAreCurrent`, `EveryNameFits`, `NothingIsMissed`, `OrdersDoNotShow`,
  `WarningsAreExplained`. The specs are not enumerated here: configs are any that `IsConfig` allows.
  What a fold computes is stated by recursive functions, and each induction along a
  sequence takes the first position at which something goes wrong (`LeastNatural`). From
  such lemmas follows, for texts of any length, that joining with a separator that no part
  holds and splitting again gives the parts (`SplitJoined`), and that the parser keeps
  every annotation as it was written and finds no other with its key, whatever the lines
  behind it are (`StepContinues`, `AnnotationsParsed`). `AnnotationsRead` puts these
  together for a runner, `HashFound` for a pool.
  `HostInv` is the inductive invariant. `Idempotent` alone says nothing after an edit, a
  release or an upgrade, and nothing of the next apply. `HostInv` says that every runner
  on the host is one that an accepted config asked for with some renderer and is
  registered as that (`Left`, `From`), that after an undisturbed apply it is so with the
  renderer of now, and the pools too (`Clean`), and that unpinned runners have the newest
  release while the last lookup is current (`Newest`). An apply then establishes `From` of
  its own config, because a runner that is left alone has the spec that was asked for,
  except for its version, and a runner whose URL or labels change is recreated: both rest
  on what discovery reads back (`ComparedIs`).
  `OrdersDoNotShow` needs no invariant: `Reverse` keeps the elements of a list, so specs
  made of sets are equal.
  `WarningsAreExplained` is the converse of rendering: two specs of a runner that differ in
  nothing the planner compares and in no `UnshownCause` are the same spec, so their hashes
  could not differ. A drop-in says what it was made of (`HardeningTold`, `NetworkTold`,
  `ProxyTold`, `NumaLines`, `MemoryTold`, together `DropInsTell`), because a joined text
  determines its parts when no part holds the separator (`JoinTells`, by the first part
  at which two lists differ). That no part does is what the checks of the renderer and of
  the config give, and so every spec on the host is `Renderable` (in `Written`) and has the
  shape that lowering gives it (`LoweredShaped`). What the drop-ins do not tell is in the
  annotations (DNS and IPv6 modes) or is an `UnshownCause` (`NothingLeft`).
  All of them but `OrdersDoNotShow` have the hypothesis `PlainConfigs`: no label is empty or has a
  space, a comma or a backslash, and no digest has a space or a backslash. It is needed.
  Labels with a comma are read back as two, and one that ends in a backslash swallows the
  next line; `load_config` refuses neither (`validate_labels` is called by `ghars add`
  only, `cli/cmd_misc.rs:190`, although `plan/merge.rs:125` relies on it), and it does not
  look at the characters of a digest. The configs of the run satisfy it, and TLC evaluates
  it there.

Only model-checked:

* Liveness: `AcquireDecides`, `Converges` (twice), `FilesConverge`, `LeftoversCollected`,
  `StagingSwept`, `Settles`; fairness and ENABLED are out of reach of the prover.

## Plan

What is left, in this order:

1. Rollback of the files of a namespace, and the directories that runners of a trust
   zone share (`.ccache`, `.cargo`), whose modes an update and a create change.
2. Token sources: when a token is read, minted, used again and scrubbed.

## Not modelled

The bytes of messages, JSON and metrics; deserialisation (serde's); HTTP, TLS and the
hashing of downloads, which are calls that fail or answer; argument parsing; `status`,
`metrics` and `plan`, which only show what the planner and discovery find; `init`, which
refuses to overwrite; the checks of preflight, which read the host; file modes and
owners, except where a reader depends on them; the parsing of token files; rollback of
namespace files; `systemd-analyze verify`. They hold no state of their own, or a model
would repeat the code.
