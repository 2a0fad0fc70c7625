-------------------------------- MODULE Netns -------------------------------
(***************************************************************************)
(* The network namespace of one runner: the files ghars writes for it      *)
(* (src/apply/netns.rs, src/systemd/nft.rs), the ghars-net@ unit that sets *)
(* it up and takes it down (src/netns.rs, src/systemd/templates.rs), the   *)
(* runner's own unit, and an apply that asks systemd to start and stop     *)
(* them without waiting (src/systemd/dbus.rs).                             *)
(*                                                                         *)
(* systemd is external.  A call returns when its job is queued; a job that *)
(* waits for nothing begins before anything else happens, the others wait  *)
(* in `jobs': the start of a unit that is still stopping, the start of a   *)
(* runner whose namespace unit is at work, the stop of a namespace unit    *)
(* whose runner is still stopping.                                         *)
(***************************************************************************)
EXTENDS Integers, Sequences, FiniteSets, SequencesExt

CONSTANTS
  None,
  Torn,         \* a config file that was truncated and not yet written
  Networks,     \* bindings a runner may have: [mode, subnet, dns, egress]
  MaxApplies,   \* bounds on the applies,
  MaxFaults,    \* on the commands and calls that fail, processes that are killed included,
  MaxReboots    \* and on the reboots

ASSUME NetnsConstants ==
  /\ \A n \in Networks : n.mode \in {"netns", "open"} /\ n.subnet \in Nat
  /\ {None, Torn} \cap Networks = {} /\ {MaxApplies, MaxFaults, MaxReboots} \subseteq Nat

VARIABLES
  op,       \* the apply: [todo: steps, net: the wanted network], no steps when none runs
  files,    \* netns.d/NAME.toml and nft.d/NAME-{host,ns}.nft
  unit,     \* the network in the runner's drop-ins, None without a runner
  loaded,   \* and in the definition that systemd has loaded
  net,      \* ghars-net@NAME: [state, todo: its commands, cfg: as read, err, blame, via]
  run,      \* ghars-runner@NAME: [state, spec: as loaded at the start, where]
  jobs,     \* the job that waits, for each unit
  kern,     \* what exists on the host
  budget

vars == <<op, files, unit, loaded, net, run, jobs, kern, budget>>

IsNetns(n) == n # None /\ n.mode = "netns"
NoKern == [ns |-> FALSE, veth |-> "none", host |-> <<>>, inner |-> <<>>,
           resolv |-> None, dropIn |-> None, stub |-> None]

-----------------------------------------------------------------------------
(* src/systemd/nft.rs: a rule set is what it accepts; the rest is dropped. *)

SubnetAddresses(n) == [host |-> 4 * n.subnet + 1, runner |-> 4 * n.subnet + 2]

\* dns is None for Forward, or the set of servers of Static.
DnsAutoAllowDestinations(n) == IF n.dns = None THEN {SubnetAddresses(n).host} ELSE n.dns
DnsAutoAllowLines(n) == DnsAutoAllowDestinations(n) \X {53} \X {"tcp", "udp"}

ProtoTokens(proto) == IF proto = "both" THEN {"tcp", "udp"} ELSE {proto}
EgressRuleLines(r) == {r.addr} \X r.ports \X ProtoTokens(r.proto)
Egress(n) == UNION {EgressRuleLines(r) : r \in n.egress}

RenderNftHost(n) == DnsAutoAllowLines(n) \cup Egress(n)
RenderNftNs(n)   == DnsAutoAllowLines(n) \cup Egress(n)
RenderNftRules(n) == [host |-> RenderNftHost(n), ns |-> RenderNftNs(n)]

-----------------------------------------------------------------------------
(* src/netns.rs: the commands of the two helpers *)

\* The namespace and the links are not deleted first.
SetupStepsNoCleanup ==
  <<"ns_add", "veth_add", "veth_move", "configure", "dns_drop_in", "dns_reload", "dns_resolv">>

\* setup_steps and setup_dns; "configure" is the MTU, addresses, routes and sysctls.
SetupSteps ==
  <<"link_del", "ns_del", "ns_add", "veth_add", "veth_move", "configure",
    "dns_drop_in", "dns_reload", "dns_resolv">>

TeardownSteps == <<"t_read", "t_drop_in", "t_reload", "t_resolv", "t_link", "t_ns">>

\* The rules inside the namespace are not loaded.
ExecStartHostOnly == <<"load">> \o SetupSteps \o <<"nft_host">>

\* The ExecStart= and ExecStop= lines of ghars-net@.service
ExecStart == <<"load">> \o SetupSteps \o <<"nft_host", "nft_ns">>
ExecStop == <<"host_destroy", "ns_destroy">> \o TeardownSteps

\* What the commands do when they succeed: k is the host, cfg the config that was read.
SetupCommand(c, k) ==
  CASE c = "link_del"  -> [k EXCEPT !.veth = "none"]        \* takes the peer along
    [] c = "ns_del"    -> [k EXCEPT !.ns = FALSE, !.inner = <<>>]
    [] c = "ns_add"    -> [k EXCEPT !.ns = TRUE]
    [] c = "veth_add"  -> [k EXCEPT !.veth = "host"]
    [] c = "veth_move" -> [k EXCEPT !.veth = "ns"]
    [] c \in {"load", "configure"} -> k

SetupDns(c, k, cfg) ==
  IF c = "dns_resolv" THEN [k EXCEPT !.resolv = DnsAutoAllowDestinations(cfg)]
  ELSE IF cfg.dns # None THEN k
  ELSE IF c = "dns_drop_in" THEN [k EXCEPT !.dropIn = cfg.subnet]
  ELSE [k EXCEPT !.stub = k.dropIn]

\* A config that cannot be read is taken for a forwarder's.
DnsWasForward(cfg) == cfg # None => cfg.dns = None

\* The drop-in of a resolver that the config no longer asks for is left alone.
TeardownIfForward(c, k, cfg) ==
  CASE c = "t_read"    -> k
    [] c = "t_drop_in" -> IF DnsWasForward(cfg) THEN [k EXCEPT !.dropIn = None] ELSE k
    [] c = "t_reload"  -> IF DnsWasForward(cfg) THEN [k EXCEPT !.stub = k.dropIn] ELSE k
    [] c = "t_resolv"  -> [k EXCEPT !.resolv = None]
    [] c = "t_link"    -> [k EXCEPT !.veth = "none"]
    [] c = "t_ns"      -> [k EXCEPT !.ns = FALSE, !.inner = <<>>]

TeardownInner(c, k, cfg) ==
  CASE c = "t_read"    -> k
    [] c = "t_drop_in" -> [k EXCEPT !.dropIn = None]
    [] c = "t_reload"  -> IF DnsWasForward(cfg) THEN [k EXCEPT !.stub = k.dropIn] ELSE k
    [] c = "t_resolv"  -> [k EXCEPT !.resolv = None]
    [] c = "t_link"    -> [k EXCEPT !.veth = "none"]
    [] c = "t_ns"      -> [k EXCEPT !.ns = FALSE, !.inner = <<>>]

NftCommand(c, k) ==
  CASE c = "nft_host"     -> [k EXCEPT !.host = Append(@, RenderNftRules(files.host).host)]
    [] c = "nft_ns"       -> [k EXCEPT !.inner = Append(@, RenderNftRules(files.ns).ns)]
    [] c = "host_destroy" -> [k EXCEPT !.host = <<>>]
    [] c = "ns_destroy"   -> [k EXCEPT !.inner = <<>>]

InSetup(c) == c \in ToSet(SetupSteps)
InTeardown(c) == c \in ToSet(TeardownSteps)
Command(c, k, cfg) ==
  IF c \in {"dns_drop_in", "dns_reload", "dns_resolv"} THEN SetupDns(c, k, cfg)
  ELSE IF InTeardown(c) THEN TeardownInner(c, k, cfg)
  ELSE IF InSetup(c) \/ c = "load" THEN SetupCommand(c, k)
  ELSE NftCommand(c, k)

\* The commands that refuse what they find, without any fault
Refuses(c) ==
  CASE c = "load"       -> files.cfg \notin Networks
    [] c = "ns_add"     -> kern.ns
    [] c = "veth_add"   -> kern.veth # "none"
    [] c = "veth_move"  -> kern.veth # "host" \/ ~kern.ns
    [] c = "nft_host"   -> files.host = None
    [] c = "nft_ns"     -> files.ns = None \/ ~kern.ns
    [] c = "ns_destroy" -> ~kern.ns
    [] OTHER            -> FALSE
FilesMissing(c) == c \in {"load", "nft_host", "nft_ns"}

-----------------------------------------------------------------------------
(* systemd: jobs *)

Bound == IsNetns(loaded)            \* Requires=, BindsTo= and After= ghars-net@NAME
Working(state) == state \in {"starting", "stopping"}
Down(state) == state \in {"inactive", "failed"}
Alive == run.state \in {"starting", "running", "stopping"}

\* StopUnit of the runner: begins at once.
StopRunner(r) == IF r.state \in {"starting", "running"} THEN [r EXCEPT !.state = "stopping"] ELSE r

\* The namespace unit may go down only after its runner.
NetMayStop == net.state # "stopping" /\ ~(net.state = "active" /\ Bound /\ run.state = "stopping")
NetReady ==
  \/ jobs.net = "start" /\ net.state # "stopping"
  \/ jobs.net = "stop" /\ NetMayStop

NetBegins(state, commands) ==
  net' = [net EXCEPT !.state = state, !.todo = commands, !.err = FALSE, !.blame = "none"]
BeginNet ==
  /\ NetReady
  /\ \/ jobs.net = "start" /\ Down(net.state) /\ NetBegins("starting", ExecStart)
     \/ jobs.net = "stop" /\ net.state = "active" /\ NetBegins("stopping", ExecStop)
     \* a start that has not ended is killed, and ExecStop= is not run
     \/ /\ jobs.net = "stop" /\ net.state = "starting"
        /\ net' = [net EXCEPT !.state = "inactive", !.todo = <<>>, !.via = "kill"]
     \* there is nothing to do
     \/ (IF jobs.net = "stop" THEN Down(net.state) ELSE ~Down(net.state)) /\ UNCHANGED net
  /\ jobs' = [jobs EXCEPT !.net = "none"]
  /\ UNCHANGED <<op, files, unit, loaded, run, kern, budget>>

\* Without Requires= the runner waits for a namespace unit that has failed.
RunMayStartWaiting == ~Bound \/ (jobs.net = "none" /\ net.state = "active")

RunMayStart == ~Bound \/ (jobs.net = "none" /\ ~Working(net.state))
RunReady == jobs.run = "start" /\ run.state # "stopping" /\ RunMayStart

BeginRun ==
  /\ RunReady
  /\ jobs' = [jobs EXCEPT !.run = "none"]
  /\ run' = IF ~Down(run.state) THEN run
            ELSE IF loaded = None \/ (Bound /\ net.state # "active")
            THEN [run EXCEPT !.state = "failed"]
            ELSE [state |-> "starting", spec |-> loaded, where |-> "host"]
  /\ UNCHANGED <<op, files, unit, loaded, net, kern, budget>>

\* systemd-executor joins NetworkNamespacePath= before it executes the runner.
Join ==
  /\ run.state = "starting"
  /\ run' = IF ~IsNetns(run.spec) THEN [run EXCEPT !.state = "running"]
            ELSE IF kern.ns THEN [run EXCEPT !.state = "running", !.where = "named"]
            ELSE [run EXCEPT !.state = "failed", !.where = "none"]
  /\ UNCHANGED <<op, files, unit, loaded, net, jobs, kern, budget>>

\* The runner has stopped, up to five minutes after it was asked to.
Stopped ==
  /\ run.state = "stopping"
  /\ run' = [run EXCEPT !.state = "inactive", !.where = "none"]
  /\ UNCHANGED <<op, files, unit, loaded, net, jobs, kern, budget>>

\* Restart=always
Exit ==
  /\ run.state = "running" /\ budget.faults > 0
  /\ run' = [run EXCEPT !.state = "inactive", !.where = "none"]
  /\ jobs' = [jobs EXCEPT !.run = "start"]
  /\ budget' = [budget EXCEPT !.faults = @ - 1]
  /\ UNCHANGED <<op, files, unit, loaded, net, kern>>

-----------------------------------------------------------------------------
(* ghars-net@NAME: one command of ExecStart= or ExecStop= *)

Goes(c, before) ==
  LET rest == Tail(before.todo)
      read == IF c \in {"load", "t_read"}
              THEN [before EXCEPT !.cfg = IF files.cfg \in Networks THEN files.cfg ELSE None]
              ELSE before
      ended == IF before.state = "starting" THEN IF InTeardown(c) THEN "failed" ELSE "active"
               ELSE IF before.err THEN "failed" ELSE "inactive"
  IN net' = [read EXCEPT !.todo = rest, !.via = IF rest = <<>> THEN "end" ELSE @,
                         !.state = IF rest = <<>> THEN ended ELSE @]
Succeed(c) == Goes(c, net)
PassOver(c) == Goes(c, [net EXCEPT !.blame = IF net.state = "stopping" THEN "reload" ELSE @])

\* setup_with_ops takes down what it has built and then reports the error; the
\* teardown goes on after an error; any other command that fails ends the unit.
Fail(c, blame) ==
  LET rest == Tail(net.todo)
      next == IF InTeardown(c) THEN rest
              ELSE IF net.state = "starting" /\ InSetup(c) THEN TeardownSteps ELSE <<>>
  IN net' = [net EXCEPT !.todo = next, !.err = TRUE,
                        !.blame = IF blame = "none" THEN @ ELSE blame,
                        !.state = IF next = <<>> THEN "failed" ELSE @]

\* run_required, run_cleanup_verb: what is absent already counts as removed.
NetCommand ==
  /\ net.todo # <<>>
  /\ LET c == Head(net.todo)
     IN \/ /\ ~Refuses(c)
           /\ kern' = Command(c, kern, net.cfg)
           /\ Succeed(c)
           /\ UNCHANGED budget
        \/ /\ Refuses(c)
           /\ Fail(c, IF FilesMissing(c) THEN "files" ELSE "none")
           /\ UNCHANGED <<kern, budget>>
        \/ /\ budget.faults > 0 /\ ~Refuses(c) /\ c # "t_read"
           /\ budget' = [budget EXCEPT !.faults = @ - 1]
           /\ Fail(c, "fault")
           /\ UNCHANGED kern
        \* a reload that ends with another exit code is accepted in a teardown
        \/ /\ budget.faults > 0 /\ c = "t_reload" /\ DnsWasForward(net.cfg)
           /\ budget' = [budget EXCEPT !.faults = @ - 1]
           /\ PassOver(c)
           /\ UNCHANGED kern
  \* BindsTo=: a namespace unit that goes down takes its runner with it
  /\ run' = IF Bound /\ Down(net'.state) THEN StopRunner(run) ELSE run
  /\ UNCHANGED <<op, files, unit, loaded, jobs>>

\* TimeoutSec=: the command and what it would have done next are gone.
NetTimeout ==
  /\ net.todo # <<>> /\ budget.faults > 0
  /\ net' = [net EXCEPT !.todo = <<>>, !.state = "failed", !.blame = "fault"]
  /\ run' = IF Bound THEN StopRunner(run) ELSE run
  /\ budget' = [budget EXCEPT !.faults = @ - 1]
  /\ UNCHANGED <<op, files, unit, loaded, jobs, kern>>

-----------------------------------------------------------------------------
(* src/apply: the steps of an apply *)

\* execute_create_runner with provision_netns_artifacts, in part
ProvisionNetnsArtifacts(n) ==
  IF IsNetns(n) THEN <<"truncate_cfg", "write_cfg", "write_host", "write_ns", "reload", "start_net">>
  ELSE <<>>
CreateRunner(n) ==
  <<"write_unit", "reload">> \o ProvisionNetnsArtifacts(n) \o <<"start_run", "poll_uid">>
  \o (IF IsNetns(n) THEN <<"verify">> ELSE <<>>)

\* execute_update_runner: the files of the namespace are not written.
UpdateRunner(n) ==
  <<"write_unit", "reload", "stop_run", "start_run">> \o (IF IsNetns(n) THEN <<"verify">> ELSE <<>>)

TeardownNetnsArtifacts == <<"stop_net", "remove_host", "remove_ns", "remove_cfg">>
RemoveRunner == <<"stop_run">> \o TeardownNetnsArtifacts \o <<"remove_unit">>

Idle == op.todo = <<>>

\* An apply makes one plan, carries it out and reloads systemd.
Apply ==
  /\ Idle /\ budget.applies > 0
  /\ budget' = [budget EXCEPT !.applies = @ - 1]
  /\ \E n \in Networks :
       op' = [net |-> n,
              todo |-> IF unit = None THEN CreateRunner(n) \o <<"reload">>
                       ELSE IF IsNetns(n) = IsNetns(unit) THEN UpdateRunner(n) \o <<"reload">>
                       ELSE RemoveRunner \o CreateRunner(n) \o <<"reload">>]
  /\ UNCHANGED <<files, unit, loaded, net, run, jobs, kern>>

\* The same network with other labels, or no runner any more
Recreate ==
  /\ Idle /\ budget.applies > 0 /\ unit # None
  /\ budget' = [budget EXCEPT !.applies = @ - 1]
  /\ \E n \in Networks : op' = [net |-> n, todo |-> RemoveRunner \o CreateRunner(n) \o <<"reload">>]
  /\ UNCHANGED <<files, unit, loaded, net, run, jobs, kern>>

RemoveOnly ==
  /\ Idle /\ budget.applies > 0 /\ unit # None
  /\ budget' = [budget EXCEPT !.applies = @ - 1]
  /\ op' = [op EXCEPT !.todo = RemoveRunner \o <<"reload">>]
  /\ UNCHANGED <<files, unit, loaded, net, run, jobs, kern>>

Advance == op' = [op EXCEPT !.todo = Tail(@)]
Step(s) == ~Idle /\ Head(op.todo) = s

\* NetnsConfig::write truncates the file and then writes it; the rules are
\* written with write_root_owned, which replaces the file.
WriteFile ==
  /\ \/ Step("truncate_cfg") /\ files' = [files EXCEPT !.cfg = Torn]
     \/ Step("write_cfg")    /\ files' = [files EXCEPT !.cfg = op.net]
     \/ Step("write_host")   /\ files' = [files EXCEPT !.host = op.net]
     \/ Step("write_ns")     /\ files' = [files EXCEPT !.ns = op.net]
     \/ Step("remove_host")  /\ files' = [files EXCEPT !.host = None]
     \/ Step("remove_ns")    /\ files' = [files EXCEPT !.ns = None]
     \/ Step("remove_cfg")   /\ files' = [files EXCEPT !.cfg = None]
  /\ Advance
  /\ UNCHANGED <<unit, loaded, net, run, jobs, kern, budget>>

WriteUnit ==
  /\ \/ Step("write_unit")  /\ unit' = op.net
     \/ Step("remove_unit") /\ unit' = None
  /\ Advance
  /\ UNCHANGED <<files, loaded, net, run, jobs, kern, budget>>

DaemonReload ==
  /\ Step("reload") /\ loaded' = unit
  /\ Advance
  /\ UNCHANGED <<files, unit, net, run, jobs, kern, budget>>

\* A start pulls the namespace unit in, a stop of the namespace unit its runner.
SystemdCall ==
  /\ \/ /\ Step("start_run")
        /\ jobs' = [jobs EXCEPT !.run = "start", !.net = IF Bound /\ net.state # "active" THEN "start" ELSE @]
        /\ UNCHANGED run
     \/ /\ Step("stop_run")
        /\ run' = StopRunner(run) /\ jobs' = [jobs EXCEPT !.run = "none"]
     \/ /\ Step("start_net")
        /\ jobs' = [jobs EXCEPT !.net = "start"]
        /\ UNCHANGED run
     \/ /\ Step("stop_net")
        /\ jobs' = [jobs EXCEPT !.net = "stop", !.run = IF Bound THEN "none" ELSE @]
        /\ run' = IF Bound THEN StopRunner(run) ELSE run
  /\ Advance
  /\ UNCHANGED <<files, unit, loaded, net, kern, budget>>

\* poll_dynamic_user_uid: the user exists while a process of the unit does, and also while
\* another runner of the trust zone runs, of which nothing is known here.
PollUid ==
  /\ Step("poll_uid")
  /\ Advance
  /\ UNCHANGED <<files, unit, loaded, net, run, jobs, kern, budget>>

GiveUp == op' = [op EXCEPT !.todo = <<>>] /\ UNCHANGED <<files, unit, loaded, net, run, jobs, kern, budget>>

\* verify_runner_netns: a process in the host's namespace is looked at again
\* until the deadline; without a process the action fails at once.
Verify ==
  /\ Step("verify") /\ run.where \notin {"none", "host"}
  /\ Advance
  /\ UNCHANGED <<files, unit, loaded, net, run, jobs, kern, budget>>
Deadline ==
  /\ \/ Step("poll_uid") /\ ~Alive
     \/ Step("verify") /\ run.where \in {"none", "host"}
  /\ GiveUp

\* A call fails, or the apply is killed.
ApplyFails ==
  /\ ~Idle /\ budget.faults > 0
  /\ op' = [op EXCEPT !.todo = <<>>]
  /\ budget' = [budget EXCEPT !.faults = @ - 1]
  /\ UNCHANGED <<files, unit, loaded, net, run, jobs, kern>>

\* What is in /run and in the kernel is gone; resolved reads its drop-ins; an
\* enabled runner is started.
Reboot ==
  /\ budget.reboots > 0
  /\ budget' = [budget EXCEPT !.reboots = @ - 1]
  /\ op' = [op EXCEPT !.todo = <<>>]
  /\ loaded' = unit
  /\ net' = [net EXCEPT !.state = "inactive", !.todo = <<>>, !.via = "boot", !.blame = "none"]
  /\ run' = [run EXCEPT !.state = "inactive", !.where = "none"]
  /\ kern' = [NoKern EXCEPT !.dropIn = kern.dropIn, !.stub = kern.dropIn]
  /\ jobs' = [run |-> IF unit # None THEN "start" ELSE "none",
              net |-> IF IsNetns(unit) THEN "start" ELSE "none"]
  /\ UNCHANGED <<files, unit>>

Init ==
  /\ op = [todo |-> <<>>, net |-> None]
  /\ files = [cfg |-> None, host |-> None, ns |-> None]
  /\ unit = None /\ loaded = None
  /\ net = [state |-> "inactive", todo |-> <<>>, cfg |-> None, err |-> FALSE,
            blame |-> "none", via |-> "boot"]
  /\ run = [state |-> "inactive", spec |-> None, where |-> "none"]
  /\ jobs = [net |-> "none", run |-> "none"]
  /\ kern = NoKern
  /\ budget = [applies |-> MaxApplies, faults |-> MaxFaults, reboots |-> MaxReboots]

ApplyStep == WriteFile \/ WriteUnit \/ DaemonReload \/ SystemdCall \/ PollUid \/ Verify \/ Deadline

Next ==
  \/ BeginNet \/ BeginRun
  \/ /\ ~NetReady /\ ~RunReady
     /\ \/ Join \/ Stopped \/ Exit \/ NetCommand \/ NetTimeout
        \/ ApplyStep \/ Apply \/ Recreate \/ RemoveOnly \/ ApplyFails \/ Reboot

\* systemd works off its jobs, processes that are asked to stop are killed at the
\* latest after TimeoutStopSec=, and an apply that is not killed goes on.
Fairness ==
  /\ WF_vars(BeginNet) /\ WF_vars(BeginRun) /\ WF_vars(Join) /\ WF_vars(Stopped)
  /\ WF_vars(NetCommand) /\ WF_vars(ApplyStep)
Spec == Init /\ [][Next]_vars /\ Fairness

-----------------------------------------------------------------------------
(* Properties *)

\* A runner of a namespace is never without its filters: while it runs and nobody
\* has asked it to stop, the namespace exists and is wired, the host has rules, and
\* the rules inside are those of the very config whose addresses the namespace has,
\* whatever was rewritten in the meantime (ghars-net@.service, setup_steps, provision).
Filtered ==
  run.state = "running" /\ IsNetns(run.spec) =>
    /\ run.where = "named" /\ kern.ns /\ kern.veth = "ns" /\ kern.host # <<>>
    /\ kern.inner = <<RenderNftRules(net.cfg).ns>>

\* Whatever an earlier attempt, a kill or a reboot left behind, setting the namespace
\* up fails only when a command fails or its files are missing (setup_steps).
SetupHeals == net.state = "failed" => net.blame # "none"

\* A namespace unit that was stopped and reports no error has left nothing in the kernel and
\* no file, whatever the config said when it was stopped.  The resolver has forgotten the
\* drop-in as well, except when its reload failed or the config that the teardown read asked
\* for no forwarder: then it is not reloaded, see ResolverForgets (teardown_inner).
StopLeavesNothing ==
  net.state = "inactive" /\ net.via = "end" =>
    /\ [kern EXCEPT !.stub = None] = NoKern
    /\ DnsWasForward(net.cfg) /\ net.blame # "reload" => kern.stub = None

\* The resolver does not listen on the address of a namespace that is gone.  teardown_inner
\* says that it is reloaded `if forward mode wrote a drop-in (or we removed something just now)'.
ResolverForgets ==
  net.state = "inactive" /\ net.via = "end" /\ net.blame # "reload" => kern.stub = None

\* The units do not wait for each other for ever: every job is carried out or
\* refused, and every apply ends (the After= and BindsTo= of render_network).
Settles == []<>(jobs = [net |-> "none", run |-> "none"] /\ Idle)
=============================================================================
