----------------------------- MODULE NetnsProofs ----------------------------
(***************************************************************************)
(* The namespace of a runner, for every set of networks and any number of  *)
(* applies, faults and reboots: what ghars-net@ leaves when it stops, that *)
(* its setup heals, and that a runner in a namespace is never without its  *)
(* filters.  The invariant says what holds before each command of          *)
(* ExecStart= and ExecStop= and before each step of an apply.              *)
(***************************************************************************)
EXTENDS Netns, SequenceTheorems, TLAPS

-----------------------------------------------------------------------------
(* Lists that are worked off from their head *)

\* The elements of s from the i-th on.
From(s, i) == SubSeq(s, i, Len(s))

\* What is left of a sequence while it is worked off from its head.
LEMMA WorkedOff ==
  ASSUME NEW S, NEW s \in Seq(S)
  PROVE  /\ From(s, 1) = s
         /\ From(s, Len(s) + 1) = <<>>
         /\ \A i \in 1..Len(s) : /\ From(s, i) \in Seq(S)
                                 /\ From(s, i) # <<>>
                                 /\ Head(From(s, i)) = s[i]
                                 /\ Tail(From(s, i)) = From(s, i + 1)
<1>0. Len(s) \in Nat
  BY LenProperties
<1>1. From(s, 1) = s
  BY SubSeqFull DEF From
<1>2. From(s, Len(s) + 1) = <<>>
  BY <1>0, SubSeqEmpty DEF From
<1>3. \A i \in 1..Len(s) : /\ From(s, i) \in Seq(S)
                            /\ From(s, i) # <<>>
                            /\ Head(From(s, i)) = s[i]
                            /\ Tail(From(s, i)) = From(s, i + 1)
  <2> TAKE i \in 1..Len(s)
  <2>1. Head(From(s, i)) = s[i] /\ Tail(From(s, i)) = From(s, i + 1)
    BY <1>0, HeadTailOfSubSeq DEF From
  <2>2. From(s, i) \in Seq(S) /\ Len(From(s, i)) = Len(s) - i + 1
    BY <1>0, SubSeqProperties DEF From
  <2>3. Len(<<>>) = 0 /\ Len(s) - i + 1 # 0
    BY <1>0
  <2>4. QED
    BY <2>1, <2>2, <2>3
<1>4. QED
  BY <1>1, <1>2, <1>3

\* A list that is put before another is worked off first.
LEMMA ConcatWorkedOff ==
  ASSUME NEW S, NEW a \in Seq(S), NEW b \in Seq(S), a # <<>>
  PROVE  a \o b # <<>> /\ Head(a \o b) = Head(a) /\ Tail(a \o b) = Tail(a) \o b
<1>1. a \o b # <<>> /\ Head(a \o b) = Head(a)
  BY ConcatProperties, EmptySeq
<1>2. Tail(a \o b) \in Seq(S) /\ Tail(a) \o b \in Seq(S) /\ Len(Tail(a \o b)) = Len(Tail(a) \o b)
  BY <1>1, ConcatProperties, HeadTailProperties, EmptySeq, LenProperties
<1>3. ASSUME NEW i \in 1..Len(Tail(a \o b)) PROVE Tail(a \o b)[i] = (Tail(a) \o b)[i]
  BY <1>1, <1>2, ConcatProperties, HeadTailProperties, EmptySeq, LenProperties
<1>4. QED
  BY <1>1, <1>2, <1>3, SeqEqual

-----------------------------------------------------------------------------
(* Types *)

HostRules == {RenderNftRules(n).host : n \in Networks}
NsRules   == {RenderNftRules(n).ns : n \in Networks}
Servers   == {DnsAutoAllowDestinations(n) : n \in Networks}

Commands == {"load", "link_del", "ns_del", "ns_add", "veth_add", "veth_move", "configure",
             "dns_drop_in", "dns_reload", "dns_resolv", "nft_host", "nft_ns",
             "host_destroy", "ns_destroy",
             "t_read", "t_drop_in", "t_reload", "t_resolv", "t_link", "t_ns"}
Steps == {"write_unit", "reload", "truncate_cfg", "write_cfg", "write_host", "write_ns",
          "start_net", "start_run", "poll_uid", "verify", "stop_run", "stop_net",
          "remove_host", "remove_ns", "remove_cfg", "remove_unit"}

Known == Networks \cup {None}
Kerns == [ns : BOOLEAN, veth : {"none", "host", "ns"}, host : Seq(HostRules), inner : Seq(NsRules),
          resolv : Servers \cup {None}, dropIn : Nat \cup {None}, stub : Nat \cup {None}]
Nets  == [state : {"inactive", "starting", "active", "stopping", "failed"}, todo : Seq(Commands),
          cfg : Known, err : BOOLEAN, blame : {"none", "files", "fault", "reload"}, via : {"boot", "end", "kill"}]
Runs  == [state : {"inactive", "starting", "running", "stopping", "failed"}, spec : Known,
          where : {"none", "host", "named"}]

TypeOK ==
  /\ op \in [todo : Seq(Steps), net : Known]
  /\ files \in [cfg : Known \cup {Torn}, host : Known, ns : Known]
  /\ unit \in Known /\ loaded \in Known
  /\ net \in Nets /\ run \in Runs /\ kern \in Kerns
  /\ jobs \in [net : {"none", "start", "stop"}, run : {"none", "start"}]
  /\ budget \in [applies : Nat, faults : Nat, reboots : Nat]

-----------------------------------------------------------------------------
(* ghars-net@NAME *)

\* Before the i-th command of ExecStart=
Built(i, k) ==
  /\ i \in 3..5 => k.veth = "none"
  /\ i = 4 => k.ns = FALSE
  /\ i > 3 => k.inner = <<>>
  /\ i > 4 => k.ns = TRUE
  /\ i = 6 => k.veth = "host"
  /\ i > 6 => k.veth = "ns"
  /\ i > 11 => k.host # <<>>
Building(i) ==
  /\ net.err = FALSE /\ net.blame = "none"
  /\ i > 1 => net.cfg \in Networks /\ files.cfg = net.cfg
  /\ Built(i, kern)

\* Before the i-th command of ExecStop=; a command of the teardown may have failed
Removed(i, k) ==
  /\ i > 4 => k.dropIn = None
  /\ i > 6 => k.resolv = None
  /\ i > 7 => k.veth = "none"
\* The resolver has been reloaded, if it is to be and the reload did not fail.
Forgotten(i, k, n) == i > 5 /\ DnsWasForward(n.cfg) /\ n.blame # "reload" => k.stub = None
Clearing(i) ==
  /\ i < 3 => kern.ns = TRUE /\ net.err = FALSE
  /\ i > 1 => kern.host = <<>>
  /\ i > 2 => kern.inner = <<>>
  /\ net.err = TRUE => net.blame # "none"
  /\ net.err = FALSE => Removed(i, kern) /\ Forgotten(i, kern, net)

Ready == /\ kern.ns = TRUE /\ kern.veth = "ns" /\ kern.host # <<>>
         /\ kern.inner = <<RenderNftRules(net.cfg).ns>>
Cleared == /\ kern.ns = FALSE /\ kern.veth = "none" /\ kern.host = <<>> /\ kern.inner = <<>>
           /\ kern.resolv = None /\ kern.dropIn = None
           /\ DnsWasForward(net.cfg) /\ net.blame # "reload" => kern.stub = None

NetInv ==
  /\ ~Working(net.state) => net.todo = <<>>
  /\ net.state = "starting" =>
       \/ \E i \in 1..12 : net.todo = From(ExecStart, i) /\ Building(i)
       \/ \E i \in 1..6 : net.todo = From(TeardownSteps, i) /\ net.err = TRUE /\ net.blame # "none"
  /\ net.state = "stopping" => \E i \in 1..8 : net.todo = From(ExecStop, i) /\ Clearing(i)
  /\ net.state = "active" => Ready
  /\ net.state = "failed" => net.blame # "none"
  /\ net.state = "inactive" /\ net.via = "end" => Cleared

-----------------------------------------------------------------------------
(* The runner *)

Going == run.state \in {"starting", "running"} \/ jobs.run = "start"

RunInv ==
  /\ Going => unit # None /\ (IsNetns(unit) <=> IsNetns(loaded))
  /\ run.state \in {"starting", "running"} => (IsNetns(run.spec) <=> IsNetns(loaded))
  /\ run.state \in {"starting", "running"} /\ IsNetns(run.spec) =>
       net.state = "active" /\ jobs.net # "stop"
  /\ run.state = "running" /\ IsNetns(run.spec) => run.where = "named"

-----------------------------------------------------------------------------
(* The apply *)

\* The namespace unit is not being set up, or is just about to be killed.
Quiet == jobs.net # "start" /\ (net.state = "starting" => jobs.net = "stop")

FilesAgree == files.cfg \in Networks /\ files.ns # None => files.ns = files.cfg

CreateTodo(n) == CreateRunner(n) \o <<"reload">>
UpdateTodo(n) == UpdateRunner(n) \o <<"reload">>

\* Before the i-th step of a create, for a namespace or without
CreatingNetns(i) ==
  /\ i < 10 => ~Going
  /\ i < 9 => Quiet
  /\ i < 7 => files.ns = None
  /\ i \in 5..6 => files.cfg = op.net
  /\ i > 1 => unit = op.net
  /\ i > 2 => loaded = unit
CreatingOpen(i) ==
  /\ i < 4 => ~Going
  /\ i > 1 => unit = op.net
  /\ i > 2 => loaded = unit

\* Before the i-th step of an update
Updating(i) ==
  /\ i = 1 => unit # None /\ (IsNetns(op.net) <=> IsNetns(unit))
  /\ i > 1 => unit = op.net
  /\ i > 2 => loaded = unit

\* Before the i-th step of a remove
Removing(i) ==
  /\ i > 1 => ~Going
  /\ i > 2 => Quiet
  /\ i > 4 => files.ns = None

Creating(i) == IF IsNetns(op.net) THEN CreatingNetns(i) ELSE CreatingOpen(i)

OpInv ==
  \/ op.todo \in {<<>>, <<"reload">>}
  \/ /\ op.net \in Networks
     /\ \E i \in 1..Len(CreateTodo(op.net)) : op.todo = From(CreateTodo(op.net), i) /\ Creating(i)
  \/ /\ op.net \in Networks
     /\ \E i \in 1..Len(UpdateTodo(op.net)) : op.todo = From(UpdateTodo(op.net), i) /\ Updating(i)
  \/ \E i \in 1..6 :
       /\ \/ op.todo = From(RemoveRunner, i) \o <<"reload">>
          \/ op.net \in Networks /\ op.todo = From(RemoveRunner, i) \o CreateTodo(op.net)
       /\ Removing(i)

UnitInv == unit = None => Quiet /\ files.ns = None

Inv == TypeOK /\ NetInv /\ RunInv /\ FilesAgree /\ OpInv /\ UnitInv

-----------------------------------------------------------------------------
(* The lists of commands and steps *)

\* The commands of ExecStart=, of ExecStop= and of the teardown, one by one
LEMMA CommandLists ==
  /\ ExecStart \in Seq(Commands) /\ Len(ExecStart) = 12
  /\ ExecStart[1] = "load" /\ ExecStart[2] = "link_del" /\ ExecStart[3] = "ns_del"
  /\ ExecStart[4] = "ns_add" /\ ExecStart[5] = "veth_add" /\ ExecStart[6] = "veth_move"
  /\ ExecStart[7] = "configure" /\ ExecStart[8] = "dns_drop_in" /\ ExecStart[9] = "dns_reload"
  /\ ExecStart[10] = "dns_resolv" /\ ExecStart[11] = "nft_host" /\ ExecStart[12] = "nft_ns"
  /\ ExecStop \in Seq(Commands) /\ Len(ExecStop) = 8
  /\ ExecStop[1] = "host_destroy" /\ ExecStop[2] = "ns_destroy" /\ ExecStop[3] = "t_read"
  /\ ExecStop[4] = "t_drop_in" /\ ExecStop[5] = "t_reload" /\ ExecStop[6] = "t_resolv"
  /\ ExecStop[7] = "t_link" /\ ExecStop[8] = "t_ns"
  /\ TeardownSteps \in Seq(Commands) /\ Len(TeardownSteps) = 6
  /\ TeardownSteps[1] = "t_read" /\ TeardownSteps[2] = "t_drop_in" /\ TeardownSteps[3] = "t_reload"
  /\ TeardownSteps[4] = "t_resolv" /\ TeardownSteps[5] = "t_link" /\ TeardownSteps[6] = "t_ns"
<1>1. ExecStart \in Seq(Commands) /\ Len(ExecStart) = 12
  BY DEF ExecStart, SetupSteps, Commands
<1>2. /\ ExecStart[1] = "load" /\ ExecStart[2] = "link_del" /\ ExecStart[3] = "ns_del"
      /\ ExecStart[4] = "ns_add" /\ ExecStart[5] = "veth_add" /\ ExecStart[6] = "veth_move"
  BY DEF ExecStart, SetupSteps
<1>3. /\ ExecStart[7] = "configure" /\ ExecStart[8] = "dns_drop_in" /\ ExecStart[9] = "dns_reload"
      /\ ExecStart[10] = "dns_resolv" /\ ExecStart[11] = "nft_host" /\ ExecStart[12] = "nft_ns"
  BY DEF ExecStart, SetupSteps
<1>4. ExecStop \in Seq(Commands) /\ Len(ExecStop) = 8
  BY DEF ExecStop, TeardownSteps, Commands
<1>5. /\ ExecStop[1] = "host_destroy" /\ ExecStop[2] = "ns_destroy" /\ ExecStop[3] = "t_read"
      /\ ExecStop[4] = "t_drop_in" /\ ExecStop[5] = "t_reload" /\ ExecStop[6] = "t_resolv"
      /\ ExecStop[7] = "t_link" /\ ExecStop[8] = "t_ns"
  BY DEF ExecStop, TeardownSteps
<1>6. /\ TeardownSteps \in Seq(Commands) /\ Len(TeardownSteps) = 6
      /\ TeardownSteps[1] = "t_read" /\ TeardownSteps[2] = "t_drop_in" /\ TeardownSteps[3] = "t_reload"
      /\ TeardownSteps[4] = "t_resolv" /\ TeardownSteps[5] = "t_link" /\ TeardownSteps[6] = "t_ns"
  BY DEF TeardownSteps, Commands
<1>7. QED
  BY <1>1, <1>2, <1>3, <1>4, <1>5, <1>6

\* Which commands belong to the teardown and which to the setup
LEMMA Kinds ==
  /\ \A c : InTeardown(c) <=> c \in {"t_read", "t_drop_in", "t_reload", "t_resolv", "t_link", "t_ns"}
  /\ \A c : InSetup(c) <=> c \in {"link_del", "ns_del", "ns_add", "veth_add", "veth_move", "configure",
                                  "dns_drop_in", "dns_reload", "dns_resolv"}
<1>1. \A c : InTeardown(c) <=> c \in {"t_read", "t_drop_in", "t_reload", "t_resolv", "t_link", "t_ns"}
  BY DEF InTeardown, ToSet, TeardownSteps
<1>2. \A c : InSetup(c) <=> c \in {"link_del", "ns_del", "ns_add", "veth_add", "veth_move", "configure",
                                  "dns_drop_in", "dns_reload", "dns_resolv"}
  BY DEF InSetup, ToSet, SetupSteps
<1>3. QED
  BY <1>1, <1>2

\* The steps of a remove, one by one
LEMMA RemoveList ==
  /\ RemoveRunner \in Seq(Steps) /\ Len(RemoveRunner) = 6
  /\ RemoveRunner[1] = "stop_run" /\ RemoveRunner[2] = "stop_net" /\ RemoveRunner[3] = "remove_host"
  /\ RemoveRunner[4] = "remove_ns" /\ RemoveRunner[5] = "remove_cfg" /\ RemoveRunner[6] = "remove_unit"
BY DEF RemoveRunner, TeardownNetnsArtifacts, Steps

\* The steps of a create and of an update with a namespace, one by one
LEMMA NetnsLists ==
  ASSUME NEW n \in Networks, IsNetns(n), NEW c, c = CreateTodo(n), NEW u, u = UpdateTodo(n)
  PROVE  /\ c \in Seq(Steps) /\ Len(c) = 12
         /\ c[1] = "write_unit" /\ c[2] = "reload" /\ c[3] = "truncate_cfg" /\ c[4] = "write_cfg"
         /\ c[5] = "write_host" /\ c[6] = "write_ns" /\ c[7] = "reload" /\ c[8] = "start_net"
         /\ c[9] = "start_run" /\ c[10] = "poll_uid" /\ c[11] = "verify" /\ c[12] = "reload"
         /\ u \in Seq(Steps) /\ Len(u) = 6
         /\ u[1] = "write_unit" /\ u[2] = "reload" /\ u[3] = "stop_run" /\ u[4] = "start_run"
         /\ u[5] = "verify" /\ u[6] = "reload"
<1>1. c = (<<"write_unit", "reload">>
             \o <<"truncate_cfg", "write_cfg", "write_host", "write_ns", "reload", "start_net">>
             \o <<"start_run", "poll_uid">> \o <<"verify">>) \o <<"reload">>
  BY DEF CreateTodo, CreateRunner, ProvisionNetnsArtifacts
<1>2. u = (<<"write_unit", "reload", "stop_run", "start_run">> \o <<"verify">>) \o <<"reload">>
  BY DEF UpdateTodo, UpdateRunner
<1>3. /\ c \in Seq(Steps) /\ Len(c) = 12
      /\ c[1] = "write_unit" /\ c[2] = "reload" /\ c[3] = "truncate_cfg" /\ c[4] = "write_cfg"
      /\ c[5] = "write_host" /\ c[6] = "write_ns" /\ c[7] = "reload" /\ c[8] = "start_net"
      /\ c[9] = "start_run" /\ c[10] = "poll_uid" /\ c[11] = "verify" /\ c[12] = "reload"
  BY <1>1 DEF Steps
<1>4. /\ u \in Seq(Steps) /\ Len(u) = 6
      /\ u[1] = "write_unit" /\ u[2] = "reload" /\ u[3] = "stop_run" /\ u[4] = "start_run"
      /\ u[5] = "verify" /\ u[6] = "reload"
  BY <1>2 DEF Steps
<1>5. QED
  BY <1>3, <1>4

\* The steps of a create and of an update without a namespace, one by one
LEMMA OpenLists ==
  ASSUME NEW n \in Networks, ~IsNetns(n), NEW c, c = CreateTodo(n), NEW u, u = UpdateTodo(n)
  PROVE  /\ c \in Seq(Steps) /\ Len(c) = 5
         /\ c[1] = "write_unit" /\ c[2] = "reload" /\ c[3] = "start_run" /\ c[4] = "poll_uid"
         /\ c[5] = "reload"
         /\ u \in Seq(Steps) /\ Len(u) = 5
         /\ u[1] = "write_unit" /\ u[2] = "reload" /\ u[3] = "stop_run" /\ u[4] = "start_run"
         /\ u[5] = "reload"
<1>1. c = (<<"write_unit", "reload">> \o <<>> \o <<"start_run", "poll_uid">> \o <<>>) \o <<"reload">>
  BY DEF CreateTodo, CreateRunner, ProvisionNetnsArtifacts
<1>2. u = (<<"write_unit", "reload", "stop_run", "start_run">> \o <<>>) \o <<"reload">>
  BY DEF UpdateTodo, UpdateRunner
<1>3. /\ c \in Seq(Steps) /\ Len(c) = 5
      /\ c[1] = "write_unit" /\ c[2] = "reload" /\ c[3] = "start_run" /\ c[4] = "poll_uid"
      /\ c[5] = "reload"
  BY <1>1 DEF Steps
<1>4. /\ u \in Seq(Steps) /\ Len(u) = 5
      /\ u[1] = "write_unit" /\ u[2] = "reload" /\ u[3] = "stop_run" /\ u[4] = "start_run"
      /\ u[5] = "reload"
  BY <1>2 DEF Steps
<1>5. QED
  BY <1>3, <1>4

-----------------------------------------------------------------------------
(* The steps of an apply *)

\* What each step does to the files, the unit, the runner and the jobs
LEMMA StepEffects ==
  ASSUME TypeOK, ApplyStep
  PROVE  /\ op.todo # <<>> /\ op'.net = op.net
         /\ op'.todo = Tail(op.todo) \/ op'.todo = <<>>
         /\ Head(op.todo) \in Steps \ {"poll_uid", "verify"} => op'.todo = Tail(op.todo)
         /\ UNCHANGED <<net, kern, budget>>
         /\ \/ Head(op.todo) = "write_unit" /\ unit' = op.net /\ UNCHANGED <<files, loaded, run, jobs>>
            \/ Head(op.todo) = "remove_unit" /\ unit' = None /\ UNCHANGED <<files, loaded, run, jobs>>
            \/ Head(op.todo) = "reload" /\ loaded' = unit /\ UNCHANGED <<files, unit, run, jobs>>
            \/ Head(op.todo) = "truncate_cfg" /\ files' = [files EXCEPT !.cfg = Torn]
               /\ UNCHANGED <<unit, loaded, run, jobs>>
            \/ Head(op.todo) = "write_cfg" /\ files' = [files EXCEPT !.cfg = op.net]
               /\ UNCHANGED <<unit, loaded, run, jobs>>
            \/ Head(op.todo) = "write_host" /\ files' = [files EXCEPT !.host = op.net]
               /\ UNCHANGED <<unit, loaded, run, jobs>>
            \/ Head(op.todo) = "write_ns" /\ files' = [files EXCEPT !.ns = op.net]
               /\ UNCHANGED <<unit, loaded, run, jobs>>
            \/ Head(op.todo) = "remove_host" /\ files' = [files EXCEPT !.host = None]
               /\ UNCHANGED <<unit, loaded, run, jobs>>
            \/ Head(op.todo) = "remove_ns" /\ files' = [files EXCEPT !.ns = None]
               /\ UNCHANGED <<unit, loaded, run, jobs>>
            \/ Head(op.todo) = "remove_cfg" /\ files' = [files EXCEPT !.cfg = None]
               /\ UNCHANGED <<unit, loaded, run, jobs>>
            \/ Head(op.todo) = "start_run" /\ UNCHANGED <<files, unit, loaded, run>>
               /\ jobs' = [jobs EXCEPT !.run = "start", !.net = IF Bound /\ net.state # "active" THEN "start" ELSE @]
            \/ Head(op.todo) = "stop_run" /\ UNCHANGED <<files, unit, loaded>>
               /\ run' = StopRunner(run) /\ jobs' = [jobs EXCEPT !.run = "none"]
            \/ Head(op.todo) = "start_net" /\ UNCHANGED <<files, unit, loaded, run>>
               /\ jobs' = [jobs EXCEPT !.net = "start"]
            \/ Head(op.todo) = "stop_net" /\ UNCHANGED <<files, unit, loaded>>
               /\ jobs' = [jobs EXCEPT !.net = "stop", !.run = IF Bound THEN "none" ELSE @]
               /\ run' = IF Bound THEN StopRunner(run) ELSE run
            \/ Head(op.todo) \in {"poll_uid", "verify"} /\ UNCHANGED <<files, unit, loaded, run, jobs>>
<1> USE DEF TypeOK
<1>1. CASE WriteFile
  BY <1>1 DEF WriteFile, Step, Idle, Advance
<1>2. CASE WriteUnit
  BY <1>2 DEF WriteUnit, Step, Idle, Advance
<1>3. CASE DaemonReload
  BY <1>3 DEF DaemonReload, Step, Idle, Advance
<1>4. CASE SystemdCall
  BY <1>4 DEF SystemdCall, Step, Idle, Advance
<1>5. CASE PollUid
  BY <1>5 DEF PollUid, Step, Idle, Advance
<1>6. CASE Verify
  BY <1>6 DEF Verify, Step, Idle, Advance
<1>7. CASE Deadline
  BY <1>7 DEF Deadline, GiveUp, Step, Idle
<1>8. QED
  BY <1>1, <1>2, <1>3, <1>4, <1>5, <1>6, <1>7 DEF ApplyStep

\* A step takes an apply one further, or the apply gives up.
LEMMA StepMoves ==
  ASSUME TypeOK, ApplyStep
  PROVE  /\ op.todo # <<>> /\ op'.net = op.net
         /\ op'.todo = Tail(op.todo) \/ op'.todo = <<>>
         /\ Head(op.todo) \in Steps \ {"poll_uid", "verify"} => op'.todo = Tail(op.todo)
BY StepEffects

\* Only a start sets the runner going, and only a start of a unit ends the quiet.
LEMMA StepFlags ==
  ASSUME TypeOK, ApplyStep
  PROVE  /\ Head(op.todo) # "start_run" => (Going' => Going)
         /\ Head(op.todo) = "stop_run" => ~Going'
         /\ Head(op.todo) \notin {"start_net", "start_run"} => (Quiet => Quiet')
         /\ Head(op.todo) = "stop_net" => Quiet'
<1>1. /\ run.state \in {"inactive", "starting", "running", "stopping", "failed"}
      /\ jobs \in [net : {"none", "start", "stop"}, run : {"none", "start"}]
      /\ run \in Runs
  BY DEF TypeOK, Runs
<1>2. /\ StopRunner(run).state \notin {"starting", "running"}
  BY <1>1 DEF StopRunner, Runs
<1>3. QED
  BY <1>1, <1>2, StepEffects DEF Going, Quiet

\* Steps of a create
LEMMA CreateSteps ==
  ASSUME TypeOK, ApplyStep,
         NEW n \in Networks, op.net = n, NEW c, c = CreateTodo(n),
         NEW i \in 1..Len(c), op.todo = From(c, i), Creating(i)
  PROVE  OpInv'
<1>1. /\ op'.net = n
      /\ op'.todo = From(c, i + 1) \/ op'.todo = <<>>
      /\ Head(op.todo) = c[i]
      /\ c[i] \in Steps \ {"poll_uid", "verify"} => op'.todo = From(c, i + 1)
  <2>1. c \in Seq(Steps)
    BY NetnsLists, OpenLists
  <2>2. Head(op.todo) = c[i] /\ Tail(op.todo) = From(c, i + 1)
    BY <2>1, WorkedOff
  <2>3. QED
    BY <2>2, StepEffects
<1>2. i = Len(c) => From(c, i + 1) = <<>>
  BY WorkedOff, NetnsLists, OpenLists
<1>3. op'.todo = <<>> => OpInv'
  BY DEF OpInv
<1>4. ASSUME op'.todo = From(c, i + 1), i # Len(c) PROVE Creating(i + 1)'
  <2>1. CASE IsNetns(n)
    <3>1. /\ Len(c) = 12
          /\ c[1] = "write_unit" /\ c[2] = "reload" /\ c[3] = "truncate_cfg" /\ c[4] = "write_cfg"
          /\ c[5] = "write_host" /\ c[6] = "write_ns" /\ c[7] = "reload" /\ c[8] = "start_net"
          /\ c[9] = "start_run" /\ c[10] = "poll_uid" /\ c[11] = "verify" /\ c[12] = "reload"
      BY <2>1, NetnsLists
    <3>2. CreatingNetns(i)
      BY <2>1 DEF Creating
    <3>3. files \in [cfg : Known \cup {Torn}, host : Known, ns : Known]
      BY DEF TypeOK
    <3>4. ASSUME i \in {1, 2, 7} PROVE CreatingNetns(i + 1)'
      BY <1>1, <3>1, <3>2, <3>4, StepEffects, StepFlags DEF CreatingNetns
    <3>5. ASSUME i \in 3..6 PROVE CreatingNetns(i + 1)'
      BY <1>1, <3>1, <3>2, <3>3, <3>5, StepEffects, StepFlags DEF CreatingNetns
    <3>6. ASSUME i \in 8..11 PROVE CreatingNetns(i + 1)'
      BY <1>1, <3>1, <3>2, <3>6, StepEffects, StepFlags DEF CreatingNetns
    <3>7. QED
      BY <1>1, <1>4, <2>1, <3>1, <3>4, <3>5, <3>6 DEF Creating
  <2>2. CASE ~IsNetns(n)
    <3>1. /\ Len(c) = 5
          /\ c[1] = "write_unit" /\ c[2] = "reload" /\ c[3] = "start_run" /\ c[4] = "poll_uid"
          /\ c[5] = "reload"
      BY <2>2, OpenLists
    <3>2. CreatingOpen(i)
      BY <2>2 DEF Creating
    <3>3. CreatingOpen(i + 1)'
      BY <1>1, <1>4, <3>1, <3>2, StepEffects, StepFlags DEF CreatingOpen
    <3>4. QED
      BY <1>1, <2>2, <3>3 DEF Creating
  <2>3. QED
    BY <2>1, <2>2
<1>5. i # Len(c) => i + 1 \in 1..Len(c)
  BY NetnsLists, OpenLists
<1>6. QED
  BY <1>1, <1>2, <1>3, <1>4, <1>5 DEF OpInv

\* Steps of an update
LEMMA UpdateSteps ==
  ASSUME TypeOK, ApplyStep,
         NEW n \in Networks, op.net = n, NEW u, u = UpdateTodo(n),
         NEW i \in 1..Len(u), op.todo = From(u, i), Updating(i)
  PROVE  OpInv'
<1>0. /\ u \in Seq(Steps) /\ Len(u) \in 5..6
      /\ u[1] = "write_unit" /\ u[2] = "reload" /\ u[3] = "stop_run" /\ u[4] = "start_run"
      /\ u[5] \in {"verify", "reload"}
      /\ Len(u) = 6 => u[6] = "reload"
  BY NetnsLists, OpenLists
<1>1. /\ op'.net = n
      /\ op'.todo = From(u, i + 1) \/ op'.todo = <<>>
      /\ Head(op.todo) = u[i]
  <2>1. Head(op.todo) = u[i] /\ Tail(op.todo) = From(u, i + 1)
    <3>1. u \in Seq(Steps)
      BY <1>0
    <3>2. QED
      BY <3>1, WorkedOff
  <2>2. QED
    BY <2>1, StepMoves
<1>2. i = Len(u) => From(u, i + 1) = <<>>
  BY <1>0, WorkedOff
<1>3. op'.todo = <<>> => OpInv'
  BY DEF OpInv
<1>4. ASSUME i # Len(u) PROVE Updating(i + 1)'
  BY <1>0, <1>1, <1>4, StepEffects DEF Updating
<1>5. i # Len(u) => i + 1 \in 1..Len(u)
  BY <1>0
<1>6. QED
  BY <1>1, <1>2, <1>3, <1>4, <1>5 DEF OpInv

\* Steps of a remove, with what comes after it
LEMMA RemoveSteps ==
  ASSUME TypeOK, ApplyStep, NEW i \in 1..6, Removing(i), UnitInv,
         NEW rest, op.todo = From(RemoveRunner, i) \o rest,
         rest = <<"reload">> \/ (op.net \in Networks /\ rest = CreateTodo(op.net))
  PROVE  OpInv'
<1>1. rest \in Seq(Steps)
  <2>1. <<"reload">> \in Seq(Steps)
    BY DEF Steps
  <2>2. op.net \in Networks => CreateTodo(op.net) \in Seq(Steps)
    BY NetnsLists, OpenLists
  <2>3. QED
    BY <2>1, <2>2
<1>2. /\ Head(op.todo) = RemoveRunner[i]
      /\ Tail(op.todo) = From(RemoveRunner, i + 1) \o rest
  <2>1. /\ From(RemoveRunner, i) \in Seq(Steps) /\ From(RemoveRunner, i) # <<>>
        /\ Head(From(RemoveRunner, i)) = RemoveRunner[i]
        /\ Tail(From(RemoveRunner, i)) = From(RemoveRunner, i + 1)
    <3>1. RemoveRunner \in Seq(Steps) /\ i \in 1..Len(RemoveRunner)
      BY RemoveList
    <3>2. QED
      BY <3>1, WorkedOff
  <2>2. QED
    <3>1. PICK a \in Seq(Steps) : a = From(RemoveRunner, i)
      BY <2>1
    <3>2. Head(a \o rest) = Head(a) /\ Tail(a \o rest) = Tail(a) \o rest
      BY <1>1, <2>1, <3>1, ConcatWorkedOff
    <3>3. QED
      BY <2>1, <3>1, <3>2
<1>3. /\ op'.net = op.net
      /\ op'.todo = From(RemoveRunner, i + 1) \o rest
  <2>1. Head(op.todo) \in Steps \ {"poll_uid", "verify"}
    <3>1. RemoveRunner[i] \in {"stop_run", "stop_net", "remove_host", "remove_ns", "remove_cfg", "remove_unit"}
      BY RemoveList
    <3>2. QED
      BY <1>2, <3>1 DEF Steps
  <2>2. QED
    BY <1>2, <2>1, StepMoves
<1>4. ASSUME i < 6 PROVE Removing(i + 1)'
  <2>1. files \in [cfg : Known \cup {Torn}, host : Known, ns : Known]
    BY DEF TypeOK
  <2>2. CASE i \in 1..2
    BY <1>2, <2>2, RemoveList, StepEffects, StepFlags DEF Removing
  <2>3. CASE i \in 3..5
    BY <1>2, <2>1, <2>3, RemoveList, StepEffects, StepFlags DEF Removing
  <2>4. QED
    BY <1>4, <2>2, <2>3
<1>5. CASE i < 6
  <2>1. i + 1 \in 1..6
    BY <1>5
  <2>2. QED
    BY <1>3, <1>4, <1>5, <2>1 DEF OpInv
<1>6. CASE i = 6
  <2>1. op'.todo = rest
    <3>1. From(RemoveRunner, 7) = <<>>
      <4>1. RemoveRunner \in Seq(Steps) /\ Len(RemoveRunner) + 1 = 7
        BY RemoveList
      <4>2. QED
        BY <4>1, WorkedOff
    <3>2. QED
      BY <1>1, <1>3, <1>6, <3>1, ConcatEmptySeq
  <2>2. CASE rest = <<"reload">>
    BY <2>1, <2>2 DEF OpInv
  <2>3. CASE op.net \in Networks /\ rest = CreateTodo(op.net)
    <3>1. PICK n \in Networks : op.net = n
      BY <2>3
    <3>2. PICK c : c = CreateTodo(n)
      OBVIOUS
    <3>3. c \in Seq(Steps) /\ 1 \in 1..Len(c) /\ From(c, 1) = c
      BY <3>2, NetnsLists, OpenLists, WorkedOff
    <3>4. op'.todo = From(c, 1) /\ op'.net = n
      BY <1>3, <2>1, <2>3, <3>1, <3>2, <3>3
    <3>5. Creating(1)'
      <4>1. Head(op.todo) = "remove_unit"
        BY <1>2, <1>6, RemoveList
      <4>2. ~Going /\ Quiet /\ files.ns = None
        BY <1>6 DEF Removing
      <4>3. (Going' => Going) /\ (Quiet => Quiet')
        BY <4>1, StepFlags
      <4>4. files' = files
        BY <4>1, StepEffects
      <4>5. CreatingNetns(1)' /\ CreatingOpen(1)'
        BY <4>2, <4>3, <4>4 DEF CreatingNetns, CreatingOpen
      <4>6. QED
        BY <4>5 DEF Creating
    <3>6. QED
      BY <3>2, <3>3, <3>4, <3>5 DEF OpInv
  <2>4. QED
    BY <2>2, <2>3
<1>7. QED
  BY <1>5, <1>6

\* Every step of an apply leaves a rest of one of the lists.
LEMMA StepOp == ASSUME Inv, ApplyStep PROVE OpInv'
<1> USE DEF Inv
<1>1. CASE op.todo \in {<<>>, <<"reload">>}
  <2>1. op.todo = <<"reload">>
    BY <1>1, StepEffects
  <2>2. Tail(op.todo) = <<>>
    BY <2>1
  <2>3. QED
    BY <2>2, StepMoves DEF OpInv
<1>2. CASE /\ op.net \in Networks
           /\ \E i \in 1..Len(CreateTodo(op.net)) : op.todo = From(CreateTodo(op.net), i) /\ Creating(i)
  <2>1. PICK n \in Networks : op.net = n
    BY <1>2
  <2>2. PICK c : c = CreateTodo(n)
    OBVIOUS
  <2>3. PICK i \in 1..Len(c) : op.todo = From(c, i) /\ Creating(i)
    BY <1>2, <2>1, <2>2
  <2>4. QED
    BY <2>1, <2>2, <2>3, CreateSteps
<1>3. CASE /\ op.net \in Networks
           /\ \E i \in 1..Len(UpdateTodo(op.net)) : op.todo = From(UpdateTodo(op.net), i) /\ Updating(i)
  <2>1. PICK n \in Networks : op.net = n
    BY <1>3
  <2>2. PICK u : u = UpdateTodo(n)
    OBVIOUS
  <2>3. PICK i \in 1..Len(u) : op.todo = From(u, i) /\ Updating(i)
    BY <1>3, <2>1, <2>2
  <2>4. QED
    BY <2>1, <2>2, <2>3, UpdateSteps
<1>4. ASSUME NEW i \in 1..6, Removing(i),
             \/ op.todo = From(RemoveRunner, i) \o <<"reload">>
             \/ op.net \in Networks /\ op.todo = From(RemoveRunner, i) \o CreateTodo(op.net)
      PROVE  OpInv'
  <2>1. PICK rest : /\ op.todo = From(RemoveRunner, i) \o rest
                    /\ rest = <<"reload">> \/ (op.net \in Networks /\ rest = CreateTodo(op.net))
    BY <1>4
  <2>2. QED
    BY <1>4, <2>1, RemoveSteps
<1>5. QED
  BY <1>1, <1>2, <1>3, <1>4 DEF OpInv

\* What is known when a step is about to be taken
AtStep(s) ==
  /\ s \in {"write_unit", "write_cfg", "write_host", "write_ns", "start_run", "start_net"} => op.net \in Networks
  /\ s = "write_unit" => ~Going \/ (IsNetns(op.net) <=> IsNetns(unit))
  /\ s \in {"remove_unit", "stop_net"} => ~Going
  /\ s \in {"truncate_cfg", "write_cfg", "write_host", "write_ns", "remove_host", "remove_ns", "remove_cfg",
            "remove_unit"} => Quiet
  /\ s \in {"truncate_cfg", "write_cfg", "remove_unit"} => files.ns = None
  /\ s = "write_ns" => files.cfg = op.net
  /\ s \in {"truncate_cfg", "write_cfg", "write_host", "write_ns", "start_run", "start_net"} => unit = op.net
  /\ s = "start_run" => loaded = unit

\* What the invariant says of a step that is about to be taken.
LEMMA StepKnows == ASSUME Inv, op.todo # <<>> PROVE AtStep(Head(op.todo))
<1> USE DEF Inv
<1>1. CASE op.todo \in {<<>>, <<"reload">>}
  BY <1>1 DEF AtStep
<1>2. CASE /\ op.net \in Networks
           /\ \E i \in 1..Len(CreateTodo(op.net)) : op.todo = From(CreateTodo(op.net), i) /\ Creating(i)
  <2>1. PICK n \in Networks : op.net = n
    BY <1>2
  <2>2. PICK c : c = CreateTodo(n)
    OBVIOUS
  <2>3. PICK i \in 1..Len(c) : op.todo = From(c, i) /\ Creating(i)
    BY <1>2, <2>1, <2>2
  <2>4. Head(op.todo) = c[i]
    <3>1. c \in Seq(Steps)
      BY <2>2, NetnsLists, OpenLists
    <3>2. QED
      BY <2>3, <3>1, WorkedOff
  <2>5. CASE IsNetns(n)
    <3>1. /\ Len(c) = 12
          /\ c[1] = "write_unit" /\ c[2] = "reload" /\ c[3] = "truncate_cfg" /\ c[4] = "write_cfg"
          /\ c[5] = "write_host" /\ c[6] = "write_ns" /\ c[7] = "reload" /\ c[8] = "start_net"
          /\ c[9] = "start_run" /\ c[10] = "poll_uid" /\ c[11] = "verify" /\ c[12] = "reload"
      BY <2>2, <2>5, NetnsLists
    <3>2. CreatingNetns(i)
      BY <2>1, <2>3, <2>5 DEF Creating
    <3>3. QED
      BY <2>1, <2>4, <3>1, <3>2 DEF CreatingNetns, AtStep
  <2>6. CASE ~IsNetns(n)
    <3>1. /\ Len(c) = 5
          /\ c[1] = "write_unit" /\ c[2] = "reload" /\ c[3] = "start_run" /\ c[4] = "poll_uid"
          /\ c[5] = "reload"
      BY <2>2, <2>6, OpenLists
    <3>2. CreatingOpen(i)
      BY <2>1, <2>3, <2>6 DEF Creating
    <3>3. QED
      BY <2>1, <2>4, <3>1, <3>2 DEF CreatingOpen, AtStep
  <2>7. QED
    BY <2>5, <2>6
<1>3. CASE /\ op.net \in Networks
           /\ \E i \in 1..Len(UpdateTodo(op.net)) : op.todo = From(UpdateTodo(op.net), i) /\ Updating(i)
  <2>1. PICK n \in Networks : op.net = n
    BY <1>3
  <2>2. PICK u : u = UpdateTodo(n)
    OBVIOUS
  <2>3. PICK i \in 1..Len(u) : op.todo = From(u, i) /\ Updating(i)
    BY <1>3, <2>1, <2>2
  <2>4. /\ u \in Seq(Steps) /\ Len(u) \in 5..6
        /\ u[1] = "write_unit" /\ u[2] = "reload" /\ u[3] = "stop_run" /\ u[4] = "start_run"
        /\ u[5] \in {"verify", "reload"}
        /\ Len(u) = 6 => u[6] = "reload"
    BY <2>2, NetnsLists, OpenLists
  <2>5. Head(op.todo) = u[i]
    <3>1. u \in Seq(Steps)
      BY <2>4
    <3>2. QED
      BY <2>3, <3>1, WorkedOff
  <2>6. QED
    BY <2>1, <2>3, <2>4, <2>5 DEF Updating, AtStep
<1>4. ASSUME NEW i \in 1..6, Removing(i),
             \/ op.todo = From(RemoveRunner, i) \o <<"reload">>
             \/ op.net \in Networks /\ op.todo = From(RemoveRunner, i) \o CreateTodo(op.net)
      PROVE  AtStep(Head(op.todo))
  <2>1. PICK rest \in Seq(Steps) : op.todo = From(RemoveRunner, i) \o rest
    <3>1. <<"reload">> \in Seq(Steps)
      BY DEF Steps
    <3>2. op.net \in Networks => CreateTodo(op.net) \in Seq(Steps)
      BY NetnsLists, OpenLists
    <3>3. QED
      BY <1>4, <3>1, <3>2
  <2>2. Head(op.todo) = RemoveRunner[i]
    <3>1. RemoveRunner \in Seq(Steps) /\ i \in 1..Len(RemoveRunner)
      BY RemoveList
    <3>2. /\ From(RemoveRunner, i) \in Seq(Steps) /\ From(RemoveRunner, i) # <<>>
          /\ Head(From(RemoveRunner, i)) = RemoveRunner[i]
      BY <3>1, WorkedOff
    <3>3. PICK a \in Seq(Steps) : a = From(RemoveRunner, i)
      BY <3>2
    <3>4. Head(a \o rest) = Head(a)
      BY <3>2, <3>3, ConcatWorkedOff
    <3>5. QED
      BY <2>1, <3>2, <3>3, <3>4
  <2>3. QED
    BY <1>4, <2>2, RemoveList DEF Removing, AtStep
<1>5. QED
  BY <1>1, <1>2, <1>3, <1>4 DEF OpInv

\* Files are not touched while the namespace is set up: a start that was not asked to stop is not quiet.
LEMMA QuietMeans == ASSUME TypeOK, Quiet, ~NetReady PROVE net.state # "starting"
BY DEF Quiet, NetReady, NetMayStop

\* A step of an apply keeps what is known of the runner.
LEMMA StepRun == ASSUME Inv, ApplyStep PROVE RunInv'
<1>1. AtStep(Head(op.todo))
  BY StepKnows, StepEffects DEF Inv
<1>2. /\ TypeOK /\ RunInv
  BY DEF Inv
<1>3. None \notin Networks /\ unit \in Known /\ loaded \in Known /\ run \in Runs
  BY NetnsConstants DEF TypeOK, Inv
<1>4. CASE Head(op.todo) \in {"write_unit", "remove_unit", "reload"}
  <2>1. UNCHANGED <<net, run, jobs>>
    BY <1>2, <1>4, StepEffects
  <2>2. Going' <=> Going
    BY <2>1 DEF Going
  <2>3. CASE Head(op.todo) = "write_unit"
    BY <1>1, <1>2, <1>3, <2>1, <2>2, <2>3, StepEffects DEF AtStep, RunInv, Going
  <2>4. CASE Head(op.todo) = "remove_unit"
    BY <1>1, <1>2, <2>1, <2>2, <2>4, StepEffects DEF AtStep, RunInv, Going
  <2>5. CASE Head(op.todo) = "reload"
    BY <1>2, <2>1, <2>2, <2>5, StepEffects DEF RunInv, Going
  <2>6. QED
    BY <1>4, <2>3, <2>4, <2>5
<1>5. CASE Head(op.todo) \in {"truncate_cfg", "write_cfg", "write_host", "write_ns", "remove_host", "remove_ns",
                              "remove_cfg", "poll_uid", "verify"}
  BY <1>2, <1>5, StepEffects DEF RunInv, Going
<1>6. CASE Head(op.todo) \in {"stop_run", "stop_net"}
  <2>1. ~Going'
    BY <1>1, <1>2, <1>6, StepFlags DEF AtStep
  <2>2. QED
    BY <2>1 DEF RunInv, Going
<1>7. CASE Head(op.todo) \in {"start_run", "start_net"}
  <2>1. /\ UNCHANGED <<unit, loaded, net, run>>
        /\ jobs'.net = "stop" => jobs.net = "stop"
        /\ Head(op.todo) = "start_net" => jobs'.run = jobs.run
    BY <1>2, <1>7, StepEffects DEF TypeOK
  <2>2. Head(op.todo) = "start_run" => unit = op.net /\ op.net \in Networks /\ loaded = unit
    BY <1>1, <1>7 DEF AtStep
  <2>3. QED
    BY <1>2, <1>3, <1>7, <2>1, <2>2 DEF RunInv, Going
<1>8. QED
  BY <1>2, <1>4, <1>5, <1>6, <1>7, StepEffects

\* A step of an apply leaves the rules that are on disk those of the config.
LEMMA StepUnit == ASSUME Inv, ApplyStep PROVE UnitInv' /\ FilesAgree'
<1>1. AtStep(Head(op.todo))
  BY StepKnows, StepEffects DEF Inv
<1>2. TypeOK /\ UnitInv /\ FilesAgree
  BY DEF Inv
<1>3. None \notin Networks /\ Torn \notin Networks
  BY NetnsConstants
<1>4. files \in [cfg : Known \cup {Torn}, host : Known, ns : Known]
  BY <1>2 DEF TypeOK
<1>5. UnitInv'
  <2>1. CASE Head(op.todo) \in {"write_unit", "start_run", "start_net", "write_ns"}
    <3>1. unit' = op.net /\ op.net \in Networks
      BY <1>1, <1>2, <2>1, StepEffects DEF AtStep
    <3>2. QED
      BY <1>3, <3>1 DEF UnitInv
  <2>2. CASE Head(op.todo) \notin {"write_unit", "start_run", "start_net", "write_ns"}
    <3>1. Quiet => Quiet'
      BY <1>2, <2>2, StepFlags
    <3>2. files.ns = None => files'.ns = None
      BY <1>2, <1>4, <2>2, StepEffects
    <3>3. unit' = None => unit = None \/ Head(op.todo) = "remove_unit"
      BY <1>2, <2>2, StepEffects
    <3>4. Head(op.todo) = "remove_unit" => Quiet /\ files.ns = None
      BY <1>1 DEF AtStep
    <3>5. QED
      BY <1>2, <3>1, <3>2, <3>3, <3>4 DEF UnitInv
  <2>3. QED
    BY <2>1, <2>2
<1>6. FilesAgree'
  <2>1. CASE Head(op.todo) \in {"truncate_cfg", "write_cfg", "remove_cfg"}
    BY <1>1, <1>2, <1>3, <1>4, <2>1, StepEffects DEF AtStep, FilesAgree
  <2>2. CASE Head(op.todo) \in {"write_ns", "remove_ns", "write_host", "remove_host"}
    BY <1>1, <1>2, <1>3, <1>4, <2>2, StepEffects DEF AtStep, FilesAgree
  <2>3. CASE Head(op.todo) \notin {"truncate_cfg", "write_cfg", "remove_cfg", "write_ns", "remove_ns", "write_host",
                                   "remove_host"}
    BY <1>2, <2>3, StepEffects DEF FilesAgree
  <2>4. QED
    BY <2>1, <2>2, <2>3
<1>7. QED
  BY <1>5, <1>6

\* A step of an apply does not disturb the namespace unit at its work.
LEMMA StepNet == ASSUME Inv, ApplyStep, ~NetReady PROVE NetInv'
<1>1. AtStep(Head(op.todo)) /\ TypeOK /\ NetInv
  BY StepKnows, StepEffects DEF Inv
<1>2. UNCHANGED <<net, kern>>
  BY <1>1, StepEffects
<1>3. files' = files \/ net.state # "starting"
  <2>1. files' # files => Quiet
    BY <1>1, StepEffects DEF AtStep
  <2>2. QED
    BY <1>1, <2>1, QuietMeans
<1>4. QED
  BY <1>1, <1>2, <1>3 DEF NetInv, Building, Clearing, Forgotten, Ready, Cleared, Working

\* A step of an apply keeps the types.
LEMMA StepType == ASSUME Inv, ApplyStep PROVE TypeOK'
<1>1. AtStep(Head(op.todo)) /\ TypeOK
  BY StepKnows, StepEffects DEF Inv
<1>2. op' \in [todo : Seq(Steps), net : Known]
  <2>1. Tail(op.todo) \in Seq(Steps) /\ <<>> \in Seq(Steps)
    BY <1>1, StepMoves DEF TypeOK
  <2>2. op' = [op EXCEPT !.todo = Tail(op.todo)] \/ op' = [op EXCEPT !.todo = <<>>]
    BY DEF ApplyStep, WriteFile, WriteUnit, DaemonReload, SystemdCall, PollUid, Verify, Deadline, GiveUp, Advance
  <2>3. QED
    BY <1>1, <2>1, <2>2 DEF TypeOK
<1>3. files' \in [cfg : Known \cup {Torn}, host : Known, ns : Known]
  BY <1>1, StepEffects DEF TypeOK, AtStep, Known
<1>4. unit' \in Known /\ loaded' \in Known
  BY <1>1, StepEffects DEF TypeOK, AtStep, Known
<1>5. run' \in Runs
  BY <1>1, StepEffects DEF TypeOK, Runs, StopRunner
<1>6. jobs' \in [net : {"none", "start", "stop"}, run : {"none", "start"}]
  BY <1>1, StepEffects DEF TypeOK
<1>7. QED
  BY <1>1, <1>2, <1>3, <1>4, <1>5, <1>6, StepEffects DEF TypeOK

-----------------------------------------------------------------------------
(* The commands of ghars-net@NAME *)

\* Deleting the namespace takes its rules along.
LEMMA NsGone ==
  ASSUME NEW k \in Kerns, NEW g, g = [k EXCEPT !.ns = FALSE, !.inner = <<>>]
  PROVE  /\ g \in Kerns /\ g.ns = FALSE /\ g.inner = <<>> /\ g.veth = k.veth /\ g.host = k.host
         /\ g.resolv = k.resolv /\ g.dropIn = k.dropIn /\ g.stub = k.stub
<1>1. PICK h : h = [k EXCEPT !.inner = <<>>]
  OBVIOUS
<1>2. <<>> \in Seq(NsRules)
  OBVIOUS
<1>3. h \in Kerns
  BY <1>1, <1>2 DEF Kerns
<1>4. g = [h EXCEPT !.ns = FALSE]
  BY <1>1 DEF Kerns
<1>5. g \in Kerns
  BY <1>3, <1>4 DEF Kerns
<1>6. QED
  BY <1>5 DEF Kerns

\* A command of ExecStart= that succeeds takes the setup one further.
LEMMA Builds ==
  ASSUME TypeOK, NEW i \in 1..12, Built(i, kern), ~Refuses(ExecStart[i]), net.state = "starting",
         i > 1 => net.cfg \in Networks,
         NEW k, k = Command(ExecStart[i], kern, net.cfg)
  PROVE  /\ k \in Kerns
         /\ i < 12 => Built(i + 1, k)
         /\ i = 12 => /\ k.ns = TRUE /\ k.veth = "ns" /\ k.host # <<>>
                      /\ files.ns \in Networks /\ k.inner = <<RenderNftRules(files.ns).ns>>
<1>0. kern \in Kerns /\ files.ns \in Known /\ files.host \in Known
  BY DEF TypeOK
<1>1. CASE i = 1
  <2>1. k = kern
    BY <1>1, CommandLists, Kinds DEF Command, SetupCommand
  <2>2. QED
    BY <1>0, <1>1, <2>1 DEF Built
<1>2. CASE i = 2
  <2>1. k = [kern EXCEPT !.veth = "none"]
    BY <1>2, CommandLists, Kinds DEF Command, SetupCommand
  <2>2. QED
    BY <1>0, <1>2, <2>1 DEF Built, Kerns
<1>3. CASE i = 3
  <2>1. k = [kern EXCEPT !.ns = FALSE, !.inner = <<>>]
    BY <1>3, CommandLists, Kinds DEF Command, SetupCommand
  <2>2. k \in Kerns /\ k.ns = FALSE /\ k.inner = <<>> /\ k.veth = kern.veth
    BY <1>0, <2>1, NsGone
  <2>3. QED
    BY <1>3, <2>2 DEF Built
<1>4. CASE i = 4
  <2>1. k = [kern EXCEPT !.ns = TRUE]
    BY <1>4, CommandLists, Kinds DEF Command, SetupCommand
  <2>2. k \in Kerns
    BY <1>0, <2>1 DEF Kerns
  <2>3. k.ns = TRUE /\ k.inner = kern.inner /\ k.veth = kern.veth
    BY <1>0, <2>1 DEF Kerns
  <2>4. QED
    BY <1>4, <2>2, <2>3 DEF Built
<1>5. CASE i = 5
  <2>1. k = [kern EXCEPT !.veth = "host"]
    BY <1>5, CommandLists, Kinds DEF Command, SetupCommand
  <2>2. QED
    BY <1>0, <1>5, <2>1 DEF Built, Kerns
<1>6. CASE i = 6
  <2>1. k = [kern EXCEPT !.veth = "ns"]
    BY <1>6, CommandLists, Kinds DEF Command, SetupCommand
  <2>2. QED
    BY <1>0, <1>6, <2>1 DEF Built, Kerns
<1>7. CASE i = 7
  <2>1. k = kern
    BY <1>7, CommandLists, Kinds DEF Command, SetupCommand
  <2>2. QED
    BY <1>0, <1>7, <2>1 DEF Built
<1>8. CASE i \in 8..10
  <2>1. /\ net.cfg.subnet \in Nat
        /\ DnsAutoAllowDestinations(net.cfg) \in Servers
    BY <1>8, NetnsConstants DEF Servers
  <2>2. \/ k = kern \/ k = [kern EXCEPT !.dropIn = net.cfg.subnet] \/ k = [kern EXCEPT !.stub = kern.dropIn]
        \/ k = [kern EXCEPT !.resolv = DnsAutoAllowDestinations(net.cfg)]
    BY <1>8, CommandLists, Kinds DEF Command, SetupDns
  <2>3. k \in Kerns /\ k.ns = kern.ns /\ k.veth = kern.veth /\ k.inner = kern.inner /\ k.host = kern.host
    BY <1>0, <2>1, <2>2 DEF Kerns
  <2>4. QED
    BY <1>8, <2>3 DEF Built
<1>9. CASE i = 11
  <2>1. k = [kern EXCEPT !.host = Append(@, RenderNftRules(files.host).host)]
    BY <1>9, CommandLists, Kinds DEF Command, NftCommand
  <2>2. RenderNftRules(files.host).host \in HostRules
    BY <1>0, <1>9, CommandLists DEF Refuses, HostRules, Known
  <2>3. Append(kern.host, RenderNftRules(files.host).host) \in Seq(HostRules) \ {<<>>}
    BY <1>0, <2>2, AppendProperties, EmptySeq DEF Kerns
  <2>4. k \in Kerns /\ k.host # <<>>
    BY <1>0, <2>1, <2>3 DEF Kerns
  <2>5. k.ns = kern.ns /\ k.inner = kern.inner /\ k.veth = kern.veth
    BY <1>0, <2>1 DEF Kerns
  <2>6. QED
    BY <1>9, <2>4, <2>5 DEF Built
<1>10. CASE i = 12
  <2>1. k = [kern EXCEPT !.inner = Append(@, RenderNftRules(files.ns).ns)]
    BY <1>10, CommandLists, Kinds DEF Command, NftCommand
  <2>2. files.ns \in Networks /\ RenderNftRules(files.ns).ns \in NsRules
    BY <1>0, <1>10, CommandLists DEF Refuses, NsRules, Known
  <2>3. Append(<<>>, RenderNftRules(files.ns).ns) = <<RenderNftRules(files.ns).ns>>
    OBVIOUS
  <2>4. <<RenderNftRules(files.ns).ns>> \in Seq(NsRules)
    BY <2>2
  <2>5. QED
    BY <1>0, <1>10, <2>1, <2>2, <2>3, <2>4 DEF Built, Kerns
<1>11. i = 1 \/ i = 2 \/ i = 3 \/ i = 4 \/ i = 5 \/ i = 6 \/ i = 7 \/ i \in 8..10 \/ i = 11 \/ i = 12
  OBVIOUS
<1>12. QED
  BY <1>1, <1>2, <1>3, <1>4, <1>5, <1>6, <1>7, <1>8, <1>9, <1>10, <1>11, Zenon

\* Only a missing file makes a command of ExecStart= refuse.
LEMMA RefusesForFiles ==
  ASSUME TypeOK, NEW i \in 1..12, Built(i, kern), Refuses(ExecStart[i])
  PROVE  FilesMissing(ExecStart[i]) /\ ~InSetup(ExecStart[i]) /\ ~InTeardown(ExecStart[i])
<1>1. CASE i \in {1, 11, 12}
  BY <1>1, CommandLists, Kinds DEF Refuses, FilesMissing
<1>2. CASE i \in {2, 3, 7, 8, 9, 10}
  BY <1>2, CommandLists DEF Refuses
<1>3. CASE i = 4
  BY <1>3, CommandLists DEF Refuses, Built
<1>4. CASE i = 5
  BY <1>4, CommandLists DEF Refuses, Built
<1>5. CASE i = 6
  BY <1>5, CommandLists DEF Refuses, Built
<1>6. QED
  BY <1>1, <1>2, <1>3, <1>4, <1>5

\* A command of ExecStop= that succeeds takes the teardown one further.
LEMMA Clears ==
  ASSUME TypeOK, NEW i \in 1..8, Clearing(i), NEW k, k = Command(ExecStop[i], kern, net.cfg)
  PROVE  /\ k \in Kerns
         /\ k.host = <<>>
         /\ i = 1 => k.ns = TRUE
         /\ i > 1 => k.inner = <<>>
         /\ i = 8 => k.ns = FALSE
         /\ net.err = FALSE => Removed(i + 1, k)
         /\ i > 5 => k.stub = kern.stub
         /\ i = 5 /\ DnsWasForward(net.cfg) => k.stub = kern.dropIn
<1>0. kern \in Kerns
  BY DEF TypeOK
<1>1. CASE i = 1
  <2>1. k = [kern EXCEPT !.host = <<>>]
    BY <1>1, CommandLists, Kinds DEF Command, NftCommand
  <2>2. <<>> \in Seq(HostRules)
    OBVIOUS
  <2>3. k \in Kerns
    BY <1>0, <2>1, <2>2 DEF Kerns
  <2>4. k.host = <<>> /\ k.ns = kern.ns
    BY <1>0, <2>1 DEF Kerns
  <2>5. QED
    BY <1>1, <2>3, <2>4 DEF Clearing, Removed
<1>2. CASE i = 2
  <2>1. k = [kern EXCEPT !.inner = <<>>]
    BY <1>2, CommandLists, Kinds DEF Command, NftCommand
  <2>2. <<>> \in Seq(NsRules)
    OBVIOUS
  <2>3. k \in Kerns
    BY <1>0, <2>1, <2>2 DEF Kerns
  <2>4. k.host = kern.host /\ k.inner = <<>>
    BY <1>0, <2>1 DEF Kerns
  <2>5. QED
    BY <1>2, <2>3, <2>4 DEF Clearing, Removed
<1>3. CASE i = 3
  <2>1. k = kern
    BY <1>3, CommandLists, Kinds DEF Command, TeardownInner
  <2>2. QED
    BY <1>0, <1>3, <2>1 DEF Clearing, Removed
<1>4. CASE i = 4
  <2>1. k = [kern EXCEPT !.dropIn = None]
    BY <1>4, CommandLists, Kinds DEF Command, TeardownInner
  <2>2. k \in Kerns /\ k.dropIn = None /\ k.host = kern.host /\ k.inner = kern.inner
    BY <1>0, <2>1 DEF Kerns
  <2>3. QED
    BY <1>4, <2>2 DEF Clearing, Removed
<1>5. CASE i = 5
  <2>1. k = kern \/ k = [kern EXCEPT !.stub = kern.dropIn]
    BY <1>5, CommandLists, Kinds DEF Command, TeardownInner
  <2>2. k \in Kerns /\ k.dropIn = kern.dropIn /\ k.host = kern.host /\ k.inner = kern.inner
    BY <1>0, <2>1 DEF Kerns
  <2>4. DnsWasForward(net.cfg) => k = [kern EXCEPT !.stub = kern.dropIn]
    BY <1>5, CommandLists, Kinds DEF Command, TeardownInner
  <2>5. DnsWasForward(net.cfg) => k.stub = kern.dropIn
    BY <1>0, <2>4 DEF Kerns
  <2>3. QED
    BY <1>5, <2>2, <2>5 DEF Clearing, Removed
<1>6. CASE i = 6
  <2>1. k = [kern EXCEPT !.resolv = None]
    BY <1>6, CommandLists, Kinds DEF Command, TeardownInner
  <2>2. /\ k \in Kerns /\ k.dropIn = kern.dropIn /\ k.host = kern.host /\ k.inner = kern.inner
        /\ k.resolv = None /\ k.stub = kern.stub
    BY <1>0, <2>1 DEF Kerns
  <2>3. QED
    BY <1>6, <2>2 DEF Clearing, Removed
<1>7. CASE i = 7
  <2>1. k = [kern EXCEPT !.veth = "none"]
    BY <1>7, CommandLists, Kinds DEF Command, TeardownInner
  <2>2. /\ k \in Kerns /\ k.dropIn = kern.dropIn /\ k.host = kern.host /\ k.inner = kern.inner
        /\ k.resolv = kern.resolv /\ k.veth = "none" /\ k.stub = kern.stub
    BY <1>0, <2>1 DEF Kerns
  <2>3. QED
    BY <1>7, <2>2 DEF Clearing, Removed
<1>8. CASE i = 8
  <2>1. k = [kern EXCEPT !.ns = FALSE, !.inner = <<>>]
    BY <1>8, CommandLists, Kinds DEF Command, TeardownInner
  <2>2. /\ k \in Kerns /\ k.ns = FALSE /\ k.inner = <<>> /\ k.veth = kern.veth /\ k.host = kern.host
        /\ k.resolv = kern.resolv /\ k.dropIn = kern.dropIn /\ k.stub = kern.stub
    BY <1>0, <2>1, NsGone
  <2>3. QED
    BY <1>8, <2>2 DEF Clearing, Removed
<1>9. i = 1 \/ i = 2 \/ i = 3 \/ i = 4 \/ i = 5 \/ i = 6 \/ i = 7 \/ i = 8
  OBVIOUS
<1>10. QED
  BY <1>1, <1>2, <1>3, <1>4, <1>5, <1>6, <1>7, <1>8, <1>9, Zenon

\* The cleanup of a setup that failed leaves a host of some shape.
LEMMA CleansUp ==
  ASSUME TypeOK, NEW c, InTeardown(c)
  PROVE  Command(c, kern, net.cfg) \in Kerns
<1>0. kern \in Kerns
  BY DEF TypeOK
<1>1. PICK k : k = Command(c, kern, net.cfg)
  OBVIOUS
<1>2. CASE c = "t_ns"
  <2>1. k = [kern EXCEPT !.ns = FALSE, !.inner = <<>>]
    BY <1>1, <1>2, Kinds DEF Command, TeardownInner
  <2>2. QED
    BY <1>0, <1>1, <2>1, NsGone
<1>3. CASE c # "t_ns"
  <2>1. \/ k = kern \/ k = [kern EXCEPT !.dropIn = None] \/ k = [kern EXCEPT !.stub = kern.dropIn]
        \/ k = [kern EXCEPT !.resolv = None] \/ k = [kern EXCEPT !.veth = "none"]
    BY <1>1, <1>3, Kinds DEF Command, TeardownInner
  <2>2. QED
    BY <1>0, <1>1, <2>1 DEF Kerns
<1>4. QED
  BY <1>2, <1>3

\* A unit goes on to its next command, or ends with the last one.
LEMMA GoesEffects ==
  ASSUME NEW n \in Nets, NEW c, Goes(c, n), Tail(n.todo) \in Seq(Commands)
  PROVE  /\ net' \in Nets
         /\ net'.todo = Tail(n.todo) /\ net'.err = n.err /\ net'.blame = n.blame
         /\ c = "load" /\ files.cfg \in Networks => net'.cfg = files.cfg
         /\ c \notin {"load", "t_read"} => net'.cfg = n.cfg
         /\ Tail(n.todo) # <<>> => net'.state = n.state
         /\ Tail(n.todo) = <<>> /\ n.state = "starting" =>
              net'.state = IF InTeardown(c) THEN "failed" ELSE "active"
         /\ Tail(n.todo) = <<>> /\ n.state # "starting" =>
              net'.state = IF n.err THEN "failed" ELSE "inactive"
<1>1. PICK g : g = IF c \in {"load", "t_read"}
                   THEN [n EXCEPT !.cfg = IF files.cfg \in Networks THEN files.cfg ELSE None]
                   ELSE n
  OBVIOUS
<1>3. /\ g \in Nets /\ g.err = n.err /\ g.blame = n.blame /\ g.state = n.state
      /\ c = "load" /\ files.cfg \in Networks => g.cfg = files.cfg
      /\ c \notin {"load", "t_read"} => g.cfg = n.cfg
  BY <1>1 DEF Nets, Known
<1>4. PICK e : e = IF n.state = "starting" THEN IF InTeardown(c) THEN "failed" ELSE "active"
                   ELSE IF n.err THEN "failed" ELSE "inactive"
  OBVIOUS
<1>5. net' = [g EXCEPT !.todo = Tail(n.todo), !.via = IF Tail(n.todo) = <<>> THEN "end" ELSE @,
                       !.state = IF Tail(n.todo) = <<>> THEN e ELSE @]
  BY <1>1, <1>4 DEF Goes
<1>6. e \in {"failed", "active", "inactive"}
  BY <1>4
<1>7. net' \in Nets
  BY <1>3, <1>5, <1>6 DEF Nets
<1>8. /\ net'.todo = Tail(n.todo) /\ net'.err = g.err /\ net'.blame = g.blame /\ net'.cfg = g.cfg
      /\ net'.state = IF Tail(n.todo) = <<>> THEN e ELSE g.state
  BY <1>3, <1>5 DEF Nets
<1>9. QED
  BY <1>3, <1>4, <1>7, <1>8

\* What a command that succeeds does to the record of its unit
LEMMA SucceedEffects ==
  ASSUME TypeOK, NEW c, Succeed(c), Tail(net.todo) \in Seq(Commands)
  PROVE  /\ net' \in Nets
         /\ net'.todo = Tail(net.todo) /\ net'.err = net.err /\ net'.blame = net.blame
         /\ c = "load" /\ files.cfg \in Networks => net'.cfg = files.cfg
         /\ c \notin {"load", "t_read"} => net'.cfg = net.cfg
         /\ Tail(net.todo) # <<>> => net'.state = net.state
         /\ Tail(net.todo) = <<>> /\ net.state = "starting" =>
              net'.state = IF InTeardown(c) THEN "failed" ELSE "active"
         /\ Tail(net.todo) = <<>> /\ net.state # "starting" =>
              net'.state = IF net.err THEN "failed" ELSE "inactive"
BY GoesEffects DEF Succeed, TypeOK

\* What a reload that failed unnoticed does to the record of its unit
LEMMA PassOverEffects ==
  ASSUME TypeOK, PassOver("t_reload"), Tail(net.todo) \in Seq(Commands), Tail(net.todo) # <<>>
  PROVE  /\ net' \in Nets /\ net'.todo = Tail(net.todo) /\ net'.err = net.err
         /\ net'.state = net.state
         /\ net'.blame = IF net.state = "stopping" THEN "reload" ELSE net.blame
<1>1. PICK n : n = [net EXCEPT !.blame = IF net.state = "stopping" THEN "reload" ELSE @]
  OBVIOUS
<1>2. /\ n \in Nets /\ n.todo = net.todo /\ n.err = net.err /\ n.state = net.state
      /\ n.blame = IF net.state = "stopping" THEN "reload" ELSE net.blame
  BY <1>1 DEF TypeOK, Nets
<1>3. Goes("t_reload", n)
  BY <1>1 DEF PassOver
<1>4. /\ net' \in Nets
      /\ net'.todo = Tail(n.todo) /\ net'.err = n.err /\ net'.blame = n.blame
      /\ net'.state = n.state
  BY <1>2, <1>3, GoesEffects
<1>5. QED
  BY <1>2, <1>4

\* What a command that fails does to the record of its unit
LEMMA FailEffects ==
  ASSUME TypeOK, NEW c, NEW b \in {"none", "files", "fault"}, Fail(c, b), Tail(net.todo) \in Seq(Commands)
  PROVE  /\ net' \in Nets
         /\ net'.err = TRUE /\ (b # "none" => net'.blame = b)
         /\ net'.cfg = net.cfg
         /\ InTeardown(c) => net'.todo = Tail(net.todo)
         /\ ~InTeardown(c) /\ net.state = "starting" /\ InSetup(c) => net'.todo = TeardownSteps
         /\ ~InTeardown(c) /\ ~(net.state = "starting" /\ InSetup(c)) => net'.todo = <<>>
         /\ net'.state = IF net'.todo = <<>> THEN "failed" ELSE net.state
<1>1. PICK next : next = IF InTeardown(c) THEN Tail(net.todo)
                         ELSE IF net.state = "starting" /\ InSetup(c) THEN TeardownSteps ELSE <<>>
  OBVIOUS
<1>2. net' = [net EXCEPT !.todo = next, !.err = TRUE, !.blame = IF b = "none" THEN @ ELSE b,
                        !.state = IF next = <<>> THEN "failed" ELSE @]
  BY <1>1 DEF Fail
<1>3. next \in Seq(Commands)
  BY <1>1, CommandLists
<1>4. net \in Nets
  BY DEF TypeOK
<1>5. net' \in Nets
  BY <1>2, <1>3, <1>4 DEF Nets
<1>6. /\ net'.err = TRUE /\ (b # "none" => net'.blame = b) /\ net'.cfg = net.cfg
      /\ net'.todo = next /\ net'.state = IF next = <<>> THEN "failed" ELSE net.state
  BY <1>2, <1>4 DEF Nets
<1>7. QED
  BY <1>1, <1>5, <1>6

\* What is left of the lists after a command of each
LEMMA Rests ==
  /\ \A i \in 1..12 : /\ Head(From(ExecStart, i)) = ExecStart[i]
                      /\ Tail(From(ExecStart, i)) = From(ExecStart, i + 1)
                      /\ From(ExecStart, i + 1) \in Seq(Commands)
                      /\ From(ExecStart, i + 1) = <<>> <=> i = 12
  /\ \A i \in 1..6 : /\ Head(From(TeardownSteps, i)) = TeardownSteps[i]
                     /\ Tail(From(TeardownSteps, i)) = From(TeardownSteps, i + 1)
                     /\ From(TeardownSteps, i + 1) \in Seq(Commands)
                     /\ From(TeardownSteps, i + 1) = <<>> <=> i = 6
  /\ \A i \in 1..8 : /\ Head(From(ExecStop, i)) = ExecStop[i]
                     /\ Tail(From(ExecStop, i)) = From(ExecStop, i + 1)
                     /\ From(ExecStop, i + 1) \in Seq(Commands)
                     /\ From(ExecStop, i + 1) = <<>> <=> i = 8
  /\ From(TeardownSteps, 1) = TeardownSteps
  /\ From(ExecStart, 1) = ExecStart /\ From(ExecStop, 1) = ExecStop
<1>0. <<>> \in Seq(Commands)
  OBVIOUS
<1>1. ASSUME NEW s \in Seq(Commands), NEW n \in Nat, Len(s) = n
      PROVE  \A i \in 1..n : /\ Head(From(s, i)) = s[i]
                             /\ Tail(From(s, i)) = From(s, i + 1)
                             /\ From(s, i + 1) \in Seq(Commands)
                             /\ From(s, i + 1) = <<>> <=> i = n
  <2> TAKE i \in 1..n
  <2>1. Head(From(s, i)) = s[i] /\ Tail(From(s, i)) = From(s, i + 1)
    BY <1>1, WorkedOff
  <2>2. CASE i = n
    BY <1>0, <1>1, <2>1, <2>2, WorkedOff
  <2>3. CASE i # n
    <3>1. i + 1 \in 1..Len(s)
      BY <1>1, <2>3
    <3>2. From(s, i + 1) \in Seq(Commands) /\ From(s, i + 1) # <<>>
      BY <3>1, WorkedOff
    <3>3. QED
      BY <2>1, <2>3, <3>2
  <2>4. QED
    BY <2>2, <2>3
<1>2. /\ ExecStart \in Seq(Commands) /\ Len(ExecStart) = 12
      /\ ExecStop \in Seq(Commands) /\ Len(ExecStop) = 8
      /\ TeardownSteps \in Seq(Commands) /\ Len(TeardownSteps) = 6
      /\ 12 \in Nat /\ 8 \in Nat /\ 6 \in Nat
  BY CommandLists
<1>3. /\ From(TeardownSteps, 1) = TeardownSteps
      /\ From(ExecStart, 1) = ExecStart /\ From(ExecStop, 1) = ExecStop
  BY <1>2, WorkedOff
<1>4. \A i \in 1..12 : /\ Head(From(ExecStart, i)) = ExecStart[i]
                       /\ Tail(From(ExecStart, i)) = From(ExecStart, i + 1)
                       /\ From(ExecStart, i + 1) \in Seq(Commands)
                       /\ From(ExecStart, i + 1) = <<>> <=> i = 12
  BY <1>1, <1>2, Zenon
<1>5. \A i \in 1..6 : /\ Head(From(TeardownSteps, i)) = TeardownSteps[i]
                      /\ Tail(From(TeardownSteps, i)) = From(TeardownSteps, i + 1)
                      /\ From(TeardownSteps, i + 1) \in Seq(Commands)
                      /\ From(TeardownSteps, i + 1) = <<>> <=> i = 6
  BY <1>1, <1>2, Zenon
<1>6. \A i \in 1..8 : /\ Head(From(ExecStop, i)) = ExecStop[i]
                      /\ Tail(From(ExecStop, i)) = From(ExecStop, i + 1)
                      /\ From(ExecStop, i + 1) \in Seq(Commands)
                      /\ From(ExecStop, i + 1) = <<>> <=> i = 8
  BY <1>1, <1>2, Zenon
<1>7. QED
  BY <1>3, <1>4, <1>5, <1>6, Zenon

\* One command of ExecStart=
LEMMA StartCommand ==
  ASSUME TypeOK, FilesAgree, NetCommand, net.state = "starting",
         NEW i \in 1..12, net.todo = From(ExecStart, i), Building(i)
  PROVE  net' \in Nets /\ kern' \in Kerns /\ NetInv' /\ net'.state \in {"starting", "active", "failed"}
<1>0. PICK c, rest : c = ExecStart[i] /\ rest = From(ExecStart, i + 1)
  OBVIOUS
<1>1. /\ Head(net.todo) = c /\ Tail(net.todo) = rest /\ rest \in Seq(Commands)
      /\ rest = <<>> <=> i = 12
  BY <1>0, Rests
<1>2. /\ net.err = FALSE /\ net.blame = "none" /\ Built(i, kern)
      /\ i > 1 => net.cfg \in Networks /\ files.cfg = net.cfg
  BY DEF Building
<1>3. UNCHANGED files /\ kern \in Kerns
  BY DEF NetCommand, TypeOK
<1>4. /\ i = 1 => c = "load"
      /\ i > 1 => c \notin {"load", "t_read"}
      /\ ~InTeardown(c)
  <2>1. /\ i = 1 => ExecStart[i] = "load"
        /\ i # 1 => ExecStart[i] \in {"link_del", "ns_del", "ns_add", "veth_add", "veth_move", "configure",
                                    "dns_drop_in", "dns_reload", "dns_resolv", "nft_host", "nft_ns"}
    BY CommandLists
  <2>2. QED
    BY <1>0, <2>1, Kinds
<1>5. CASE ~Refuses(c) /\ kern' = Command(c, kern, net.cfg) /\ Succeed(c)
  <2>1. /\ kern' \in Kerns
        /\ i < 12 => Built(i + 1, kern')
        /\ i = 12 => /\ kern'.ns = TRUE /\ kern'.veth = "ns" /\ kern'.host # <<>>
                     /\ files.ns \in Networks /\ kern'.inner = <<RenderNftRules(files.ns).ns>>
    BY <1>0, <1>2, <1>5, Builds
  <2>2. /\ net' \in Nets
        /\ net'.todo = rest /\ net'.err = net.err /\ net'.blame = net.blame
        /\ c = "load" /\ files.cfg \in Networks => net'.cfg = files.cfg
        /\ c \notin {"load", "t_read"} => net'.cfg = net.cfg
        /\ rest # <<>> => net'.state = net.state
        /\ rest = <<>> => net'.state = "active"
    BY <1>1, <1>4, <1>5, SucceedEffects
  <2>3. net'.cfg \in Networks /\ files.cfg = net'.cfg
    <3>1. c = "load" => files.cfg \in Networks
      BY <1>5 DEF Refuses
    <3>2. QED
      BY <1>2, <1>4, <2>2, <3>1
  <2>4. CASE i = 12
    <3>1. files.ns = net'.cfg
      BY <2>1, <2>3, <2>4, NetnsConstants DEF FilesAgree
    <3>2. Ready'
      BY <2>1, <2>4, <3>1 DEF Ready
    <3>3. net'.state = "active" /\ net'.todo = <<>>
      BY <1>1, <2>2, <2>4
    <3>4. QED
      BY <2>1, <2>2, <3>2, <3>3 DEF NetInv, Working
  <2>5. CASE i # 12
    <3>1. i + 1 \in 1..12 /\ net'.state = "starting" /\ net'.todo = From(ExecStart, i + 1)
      BY <1>0, <1>1, <2>2, <2>5
    <3>2. Building(i + 1)'
      BY <1>2, <1>3, <2>1, <2>2, <2>3, <2>5 DEF Building
    <3>3. QED
      BY <2>1, <2>2, <3>1, <3>2 DEF NetInv, Working
  <2>6. QED
    BY <2>4, <2>5
<1>6. CASE Refuses(c) /\ Fail(c, IF FilesMissing(c) THEN "files" ELSE "none") /\ kern' = kern
  <2>1. FilesMissing(c) /\ ~InSetup(c)
    BY <1>0, <1>2, <1>6, RefusesForFiles
  <2>2. Fail(c, "files")
    BY <1>6, <2>1
  <2>3. net' \in Nets /\ net'.todo = <<>> /\ net'.state = "failed" /\ net'.blame = "files"
    BY <1>1, <1>4, <2>1, <2>2, FailEffects
  <2>4. QED
    BY <1>3, <1>6, <2>3 DEF NetInv, Working
<1>7. CASE Fail(c, "fault") /\ kern' = kern
  <2>1. /\ net' \in Nets /\ net'.err = TRUE /\ net'.blame = "fault"
        /\ InSetup(c) => net'.todo = TeardownSteps
        /\ ~InSetup(c) => net'.todo = <<>>
        /\ net'.state = IF net'.todo = <<>> THEN "failed" ELSE net.state
    BY <1>1, <1>4, <1>7, FailEffects
  <2>2. CASE InSetup(c)
    <3>1. TeardownSteps # <<>> /\ From(TeardownSteps, 1) = TeardownSteps
      BY CommandLists, Rests
    <3>2. QED
      BY <1>3, <1>7, <2>1, <2>2, <3>1 DEF NetInv, Working
  <2>3. CASE ~InSetup(c)
    BY <1>3, <1>7, <2>1, <2>3 DEF NetInv, Working
  <2>4. QED
    BY <2>2, <2>3
<1>8. c # "t_reload"
  BY <1>4, Kinds
<1>9. QED
  BY <1>1, <1>5, <1>6, <1>7, <1>8 DEF NetCommand

\* One command of the cleanup after a setup that failed
LEMMA CleanupCommand ==
  ASSUME TypeOK, NetCommand, net.state = "starting",
         NEW i \in 1..6, net.todo = From(TeardownSteps, i), net.err = TRUE, net.blame # "none"
  PROVE  net' \in Nets /\ kern' \in Kerns /\ NetInv' /\ net'.state \in {"starting", "active", "failed"}
<1>0. PICK c, rest : c = TeardownSteps[i] /\ rest = From(TeardownSteps, i + 1)
  OBVIOUS
<1>1. /\ Head(net.todo) = c /\ Tail(net.todo) = rest /\ rest \in Seq(Commands)
      /\ rest = <<>> <=> i = 6
  BY <1>0, Rests
<1>2. InTeardown(c) /\ ~Refuses(c) /\ kern \in Kerns
  BY <1>0, CommandLists, Kinds DEF Refuses, TypeOK
<1>3. /\ net' \in Nets /\ kern' \in Kerns /\ net'.todo = rest /\ net'.err = TRUE /\ net'.blame # "none"
      /\ net'.state = IF rest = <<>> THEN "failed" ELSE "starting"
  <2>1. CASE kern' = Command(c, kern, net.cfg) /\ Succeed(c)
    <3>1. kern' \in Kerns
      BY <1>2, <2>1, CleansUp
    <3>2. /\ net' \in Nets
          /\ net'.todo = rest /\ net'.err = net.err /\ net'.blame = net.blame
          /\ rest # <<>> => net'.state = net.state
          /\ rest = <<>> => net'.state = "failed"
      BY <1>1, <1>2, <2>1, SucceedEffects
    <3>3. QED
      BY <3>1, <3>2
  <2>2. CASE Fail(c, "fault") /\ kern' = kern
    BY <1>1, <1>2, <2>2, FailEffects
  <2>3. CASE c = "t_reload" /\ PassOver(c) /\ kern' = kern
    <3>1. rest # <<>>
      BY <1>0, <1>1, <2>3, CommandLists
    <3>2. QED
      BY <1>1, <1>2, <2>3, <3>1, PassOverEffects
  <2>4. QED
    BY <1>1, <1>2, <2>1, <2>2, <2>3 DEF NetCommand
<1>4. i # 6 => i + 1 \in 1..6
  OBVIOUS
<1>5. QED
  BY <1>0, <1>1, <1>3, <1>4 DEF NetInv, Working

\* One command of ExecStop=
LEMMA StopCommand ==
  ASSUME TypeOK, NetCommand, net.state = "stopping",
         NEW i \in 1..8, net.todo = From(ExecStop, i), Clearing(i)
  PROVE  net' \in Nets /\ kern' \in Kerns /\ NetInv' /\ net'.state \in {"stopping", "inactive", "failed"}
<1>0. PICK c, rest : c = ExecStop[i] /\ rest = From(ExecStop, i + 1)
  OBVIOUS
<1>1. /\ Head(net.todo) = c /\ Tail(net.todo) = rest /\ rest \in Seq(Commands)
      /\ rest = <<>> <=> i = 8
  BY <1>0, Rests
<1>2. /\ i < 3 => kern.ns = TRUE /\ net.err = FALSE
      /\ i > 1 => kern.host = <<>>
      /\ i > 2 => kern.inner = <<>>
      /\ net.err = TRUE => net.blame # "none"
      /\ net.err = FALSE => Removed(i, kern) /\ Forgotten(i, kern, net)
  BY DEF Clearing
<1>3. kern \in Kerns /\ net.err \in BOOLEAN
  BY DEF TypeOK, Nets
<1>4. ~Refuses(c)
  <2>1. CASE i = 2
    BY <1>0, <1>2, <2>1, CommandLists DEF Refuses
  <2>2. CASE i # 2
    BY <1>0, <2>2, CommandLists DEF Refuses
  <2>3. QED
    BY <2>1, <2>2
<1>5. InTeardown(c) <=> i > 2
  BY <1>0, CommandLists, Kinds
<1>6. CASE kern' = Command(c, kern, net.cfg) /\ Succeed(c)
  <2>1. /\ kern' \in Kerns
        /\ kern'.host = <<>>
        /\ i = 1 => kern'.ns = TRUE
        /\ i > 1 => kern'.inner = <<>>
        /\ i = 8 => kern'.ns = FALSE
        /\ net.err = FALSE => Removed(i + 1, kern')
        /\ i > 5 => kern'.stub = kern.stub
        /\ i = 5 /\ DnsWasForward(net.cfg) => kern'.stub = kern.dropIn
    BY <1>0, <1>6, Clears
  <2>2. /\ net' \in Nets
        /\ net'.todo = rest /\ net'.err = net.err /\ net'.blame = net.blame
        /\ rest # <<>> => net'.state = "stopping"
        /\ rest = <<>> /\ net.err = TRUE => net'.state = "failed"
        /\ rest = <<>> /\ net.err = FALSE => net'.state = "inactive"
        /\ i > 3 => net'.cfg = net.cfg
    <3>1. i > 3 => c \notin {"load", "t_read"}
      BY <1>0, CommandLists
    <3>2. QED
      BY <1>1, <1>6, <3>1, SucceedEffects
  <2>6. net.err = FALSE => Forgotten(i + 1, kern', net')
    <3>1. CASE i < 5
      BY <3>1 DEF Forgotten
    <3>2. CASE i = 5
      BY <1>2, <2>1, <2>2, <3>2 DEF Forgotten, Removed
    <3>3. CASE i > 5
      BY <1>2, <2>1, <2>2, <3>3 DEF Forgotten
    <3>4. i < 5 \/ i = 5 \/ i > 5
      OBVIOUS
    <3>5. QED
      BY <3>1, <3>2, <3>3, <3>4, Zenon
  <2>3. CASE i = 8
    <3>1. net.err = FALSE => Cleared'
      BY <2>1, <2>3, <2>6 DEF Removed, Forgotten, Cleared
    <3>2. QED
      BY <1>1, <1>2, <1>3, <2>1, <2>2, <2>3, <3>1 DEF NetInv, Working
  <2>4. CASE i # 8
    <3>1. i + 1 \in 1..8 /\ net'.todo = From(ExecStop, i + 1)
      BY <1>0, <2>2, <2>4
    <3>2. Clearing(i + 1)'
      BY <1>2, <2>1, <2>2, <2>4, <2>6 DEF Clearing
    <3>3. QED
      BY <1>1, <2>1, <2>2, <2>4, <3>1, <3>2 DEF NetInv, Working
  <2>5. QED
    BY <2>3, <2>4
<1>7. CASE Fail(c, "fault") /\ kern' = kern
  <2>1. /\ net' \in Nets /\ net'.err = TRUE /\ net'.blame = "fault"
        /\ InTeardown(c) => net'.todo = rest
        /\ ~InTeardown(c) => net'.todo = <<>>
        /\ net'.state = IF net'.todo = <<>> THEN "failed" ELSE "stopping"
    BY <1>1, <1>7, FailEffects
  <2>2. CASE net'.todo = <<>>
    BY <1>3, <1>7, <2>1, <2>2 DEF NetInv, Working
  <2>3. CASE net'.todo # <<>>
    <3>1. i > 2 /\ i + 1 \in 1..8 /\ net'.todo = From(ExecStop, i + 1)
      BY <1>0, <1>1, <1>5, <2>1, <2>3
    <3>2. Clearing(i + 1)'
      BY <1>2, <1>7, <2>1, <3>1 DEF Clearing
    <3>3. QED
      BY <1>3, <1>7, <2>1, <2>3, <3>1, <3>2 DEF NetInv, Working
  <2>4. QED
    BY <2>2, <2>3
<1>8. CASE c = "t_reload" /\ PassOver(c) /\ kern' = kern
  <2>1. i = 5
    <3>1. ExecStop[i] = "t_reload"
      BY <1>0, <1>8
    <3>2. QED
      BY <3>1, CommandLists
  <2>6. rest # <<>>
    BY <1>1, <2>1
  <2>2. /\ net' \in Nets /\ net'.todo = rest /\ net'.err = net.err
        /\ net'.state = "stopping" /\ net'.blame = "reload"
    BY <1>1, <1>8, <2>6, PassOverEffects
  <2>3. Clearing(i + 1)'
    BY <1>2, <1>8, <2>1, <2>2 DEF Clearing, Removed, Forgotten
  <2>4. i + 1 \in 1..8 /\ net'.todo = From(ExecStop, i + 1)
    BY <1>0, <2>1, <2>2
  <2>5. QED
    BY <1>3, <1>8, <2>2, <2>3, <2>4 DEF NetInv, Working
<1>9. QED
  BY <1>1, <1>4, <1>6, <1>7, <1>8 DEF NetCommand

-----------------------------------------------------------------------------
(* The other actions *)

\* What says nothing new to an apply: it leaves its files and its plan alone,
\* sets no runner going and starts no namespace unit.
LEMMA ApplyKept ==
  ASSUME FilesAgree, OpInv, UnitInv, UNCHANGED <<op, files, unit, loaded>>, Going' => Going, Quiet => Quiet'
  PROVE  FilesAgree' /\ OpInv' /\ UnitInv'
<1>1. FilesAgree' /\ UnitInv'
  BY DEF FilesAgree, UnitInv
<1>2. \A i : CreatingNetns(i) => CreatingNetns(i)'
  BY DEF CreatingNetns
<1>3. \A i : CreatingOpen(i) => CreatingOpen(i)'
  BY DEF CreatingOpen
<1>4. \A i : Creating(i) => Creating(i)'
  BY <1>2, <1>3 DEF Creating
<1>5. \A i : Updating(i) => Updating(i)'
  BY DEF Updating
<1>6. \A i : Removing(i) => Removing(i)'
  BY DEF Removing
<1>7. OpInv'
  BY <1>4, <1>5, <1>6 DEF OpInv
<1>8. QED
  BY <1>1, <1>7

\* The namespace unit is at work while it has commands left.
LEMMA AtWork == ASSUME NetInv, net.todo # <<>> PROVE net.state \in {"starting", "stopping"}
BY DEF NetInv, Working

\* A runner that is asked to stop is not going any more.
LEMMA StopsRunner ==
  ASSUME NEW r \in Runs
  PROVE  /\ StopRunner(r) \in Runs /\ StopRunner(r).state \notin {"starting", "running"}
BY DEF StopRunner, Runs

\* A unit that works or goes down leaves no runner of the namespace going.
LEMMA RunKept ==
  ASSUME TypeOK, RunInv, net.state \in {"starting", "stopping"}, UNCHANGED <<unit, loaded, jobs>>,
         run' \in {run, StopRunner(run)}
  PROVE  run' \in Runs /\ RunInv' /\ (Going' => Going)
<1>1. run \in Runs
  BY DEF TypeOK
<1>2. run' \in Runs /\ (run'.state \in {"starting", "running"} => run' = run)
  BY <1>1, StopsRunner
<1>3. Going' => Going
  BY <1>2 DEF Going
<1>4. run.state \in {"starting", "running"} => ~IsNetns(run.spec)
  BY DEF RunInv
<1>5. QED
  BY <1>2, <1>3, <1>4 DEF RunInv

\* A command of the namespace unit keeps the invariant.
LEMMA NetCommandKeeps == ASSUME Inv, NetCommand PROVE Inv'
<1>0. TypeOK /\ NetInv /\ RunInv /\ FilesAgree /\ OpInv /\ UnitInv
  BY DEF Inv
<1>1. net.todo # <<>> /\ net.state \in {"starting", "stopping"}
  BY <1>0, AtWork DEF NetCommand
<1>2. /\ net' \in Nets /\ kern' \in Kerns /\ NetInv'
      /\ net'.state = "starting" => net.state = "starting"
  <2>1. CASE net.state = "starting"
    <3>1. CASE \E i \in 1..12 : net.todo = From(ExecStart, i) /\ Building(i)
      BY <1>0, <2>1, <3>1, StartCommand
    <3>2. CASE \E i \in 1..6 : net.todo = From(TeardownSteps, i) /\ net.err = TRUE /\ net.blame # "none"
      BY <1>0, <2>1, <3>2, CleanupCommand
    <3>3. QED
      BY <1>0, <2>1, <3>1, <3>2 DEF NetInv
  <2>2. CASE net.state = "stopping"
    <3>1. PICK i \in 1..8 : net.todo = From(ExecStop, i) /\ Clearing(i)
      BY <1>0, <2>2 DEF NetInv
    <3>2. QED
      BY <1>0, <2>2, <3>1, StopCommand
  <2>3. QED
    BY <1>1, <2>1, <2>2
<1>3. UNCHANGED <<op, files, unit, loaded, jobs>> /\ run' \in {run, StopRunner(run)}
  BY DEF NetCommand
<1>4. run' \in Runs /\ RunInv' /\ (Going' => Going)
  BY <1>0, <1>1, <1>3, RunKept
<1>5. Quiet => Quiet'
  BY <1>2, <1>3 DEF Quiet
<1>6. FilesAgree' /\ OpInv' /\ UnitInv'
  BY <1>0, <1>3, <1>4, <1>5, ApplyKept
<1>7. budget' \in [applies : Nat, faults : Nat, reboots : Nat]
  BY <1>0 DEF NetCommand, TypeOK
<1>8. TypeOK'
  BY <1>0, <1>2, <1>3, <1>4, <1>7 DEF TypeOK
<1>9. QED
  BY <1>2, <1>4, <1>6, <1>8 DEF Inv

\* So does a command that is killed.
LEMMA NetTimeoutKeeps == ASSUME Inv, NetTimeout PROVE Inv'
<1>0. TypeOK /\ NetInv /\ RunInv /\ FilesAgree /\ OpInv /\ UnitInv
  BY DEF Inv
<1>1. net.state \in {"starting", "stopping"}
  BY <1>0, AtWork DEF NetTimeout
<1>2. net' \in Nets /\ net'.todo = <<>> /\ net'.state = "failed" /\ net'.blame = "fault"
  <2>1. net \in Nets /\ <<>> \in Seq(Commands)
    BY <1>0 DEF TypeOK
  <2>2. QED
    BY <2>1 DEF NetTimeout, Nets
<1>3. NetInv'
  BY <1>2 DEF NetInv, Working
<1>4. UNCHANGED <<op, files, unit, loaded, jobs, kern>> /\ run' \in {run, StopRunner(run)}
  BY DEF NetTimeout
<1>5. run' \in Runs /\ RunInv' /\ (Going' => Going)
  BY <1>0, <1>1, <1>4, RunKept
<1>6. Quiet => Quiet'
  BY <1>2, <1>4 DEF Quiet
<1>7. FilesAgree' /\ OpInv' /\ UnitInv'
  BY <1>0, <1>4, <1>5, <1>6, ApplyKept
<1>8. budget' \in [applies : Nat, faults : Nat, reboots : Nat]
  BY <1>0 DEF NetTimeout, TypeOK
<1>9. TypeOK'
  BY <1>0, <1>2, <1>4, <1>5, <1>8 DEF TypeOK
<1>10. QED
  BY <1>3, <1>5, <1>7, <1>9 DEF Inv

\* systemd begins to start or to stop the namespace unit.
LEMMA BeginNetKeeps == ASSUME Inv, BeginNet PROVE Inv'
<1>0. TypeOK /\ NetInv /\ RunInv /\ FilesAgree /\ OpInv /\ UnitInv
  BY DEF Inv
<1>1. /\ UNCHANGED <<op, files, unit, loaded, run, kern, budget>>
      /\ jobs' = [jobs EXCEPT !.net = "none"]
  BY DEF BeginNet
<1>2. net \in Nets /\ jobs \in [net : {"none", "start", "stop"}, run : {"none", "start"}]
  BY <1>0 DEF TypeOK
<1>3. jobs'.net = "none" /\ jobs'.run = jobs.run
      /\ jobs' \in [net : {"none", "start", "stop"}, run : {"none", "start"}]
  BY <1>1, <1>2
<1>4. \/ jobs.net = "start" /\ Down(net.state) /\ NetBegins("starting", ExecStart)
      \/ jobs.net = "stop" /\ net.state = "active" /\ NetBegins("stopping", ExecStop)
      \/ /\ jobs.net = "stop" /\ net.state = "starting"
         /\ net' = [net EXCEPT !.state = "inactive", !.todo = <<>>, !.via = "kill"]
      \/ /\ jobs.net \in {"start", "stop"} /\ net' = net
         /\ jobs.net = "stop" => Down(net.state)
  BY DEF BeginNet, NetReady
<1>5. CASE jobs.net = "start" /\ Down(net.state) /\ NetBegins("starting", ExecStart)
  <2>1. /\ net' \in Nets /\ net'.state = "starting" /\ net'.todo = ExecStart /\ net'.err = FALSE
        /\ net'.blame = "none"
    BY <1>2, <1>5, CommandLists DEF NetBegins, Nets
  <2>2. Built(1, kern')
    BY DEF Built
  <2>3. Building(1)'
    BY <2>1, <2>2 DEF Building
  <2>4. NetInv'
    BY <2>1, <2>3, Rests DEF NetInv, Working
  <2>5. ~Quiet /\ net.state # "active"
    BY <1>5 DEF Quiet, Down
  <2>6. RunInv' /\ (Going' => Going)
    BY <1>0, <1>1, <1>3, <2>1, <2>5 DEF RunInv, Going
  <2>7. QED
    BY <1>0, <1>1, <1>3, <2>1, <2>4, <2>5, <2>6, ApplyKept DEF Inv, TypeOK
<1>6. CASE jobs.net = "stop" /\ net.state = "active" /\ NetBegins("stopping", ExecStop)
  <2>1. /\ net' \in Nets /\ net'.state = "stopping" /\ net'.todo = ExecStop /\ net'.err = FALSE
        /\ net'.blame = "none"
    BY <1>2, <1>6, CommandLists DEF NetBegins, Nets
  <2>2. kern'.ns = TRUE
    BY <1>0, <1>1, <1>6 DEF NetInv, Ready
  <2>3. Removed(1, kern')
    BY DEF Removed
  <2>4. Clearing(1)'
    BY <2>1, <2>2, <2>3 DEF Clearing, Forgotten
  <2>5. NetInv'
    BY <2>1, <2>4, Rests DEF NetInv, Working
  <2>6. Quiet'
    BY <1>3, <2>1 DEF Quiet
  <2>7. run.state \in {"starting", "running"} => ~IsNetns(run.spec)
    BY <1>0, <1>6 DEF RunInv
  <2>8. RunInv' /\ (Going' => Going)
    BY <1>0, <1>1, <1>3, <2>7 DEF RunInv, Going
  <2>9. QED
    BY <1>0, <1>1, <1>3, <2>1, <2>5, <2>6, <2>8, ApplyKept DEF Inv, TypeOK
<1>7. CASE /\ jobs.net = "stop" /\ net.state = "starting"
           /\ net' = [net EXCEPT !.state = "inactive", !.todo = <<>>, !.via = "kill"]
  <2>1. net' \in Nets /\ net'.state = "inactive" /\ net'.todo = <<>> /\ net'.via = "kill"
    <3>1. <<>> \in Seq(Commands)
      OBVIOUS
    <3>2. QED
      BY <1>2, <1>7, <3>1 DEF Nets
  <2>2. NetInv'
    BY <2>1 DEF NetInv, Working
  <2>3. Quiet'
    BY <1>3, <2>1 DEF Quiet
  <2>4. run.state \in {"starting", "running"} => ~IsNetns(run.spec)
    BY <1>0, <1>7 DEF RunInv
  <2>5. RunInv' /\ (Going' => Going)
    BY <1>0, <1>1, <1>3, <2>4 DEF RunInv, Going
  <2>6. QED
    BY <1>0, <1>1, <1>3, <2>1, <2>2, <2>3, <2>5, ApplyKept DEF Inv, TypeOK
<1>8. CASE /\ jobs.net \in {"start", "stop"} /\ net' = net
           /\ jobs.net = "stop" => Down(net.state)
  <2>1. NetInv'
    BY <1>0, <1>1, <1>8 DEF NetInv, Building, Clearing, Forgotten, Ready, Cleared, Working
  <2>2. Quiet => Quiet'
    BY <1>3, <1>8 DEF Quiet, Down
  <2>3. RunInv' /\ (Going' => Going)
    BY <1>0, <1>1, <1>3, <1>8 DEF RunInv, Going
  <2>4. QED
    BY <1>0, <1>1, <1>2, <1>3, <1>8, <2>1, <2>2, <2>3, ApplyKept DEF Inv, TypeOK
<1>9. QED
  BY <1>4, <1>5, <1>6, <1>7, <1>8

\* The runner alone moves.
LEMMA NetKept ==
  ASSUME TypeOK, NetInv, FilesAgree, OpInv, UnitInv, UNCHANGED <<op, files, unit, loaded, net, kern>>,
         jobs'.net = jobs.net, jobs' \in [net : {"none", "start", "stop"}, run : {"none", "start"}],
         budget' \in [applies : Nat, faults : Nat, reboots : Nat],
         run' \in Runs, RunInv', Going' => Going
  PROVE  Inv'
<1>1. NetInv'
  BY DEF NetInv, Building, Clearing, Forgotten, Ready, Cleared, Working
<1>2. Quiet => Quiet'
  BY DEF Quiet
<1>3. FilesAgree' /\ OpInv' /\ UnitInv'
  BY <1>2, ApplyKept
<1>4. TypeOK'
  BY DEF TypeOK
<1>5. QED
  BY <1>1, <1>3, <1>4 DEF Inv

\* systemd begins to start the runner: a namespace unit that it needs is active.
LEMMA BeginRunKeeps == ASSUME Inv, BeginRun PROVE Inv'
<1>0. TypeOK /\ NetInv /\ RunInv /\ FilesAgree /\ OpInv /\ UnitInv
  BY DEF Inv
<1>1. /\ UNCHANGED <<op, files, unit, loaded, net, kern, budget>>
      /\ jobs' = [jobs EXCEPT !.run = "none"] /\ jobs.run = "start" /\ RunMayStart
      /\ run' = IF ~Down(run.state) THEN run
                ELSE IF loaded = None \/ (Bound /\ net.state # "active")
                THEN [run EXCEPT !.state = "failed"]
                ELSE [state |-> "starting", spec |-> loaded, where |-> "host"]
  BY DEF BeginRun, RunReady
<1>2. run \in Runs /\ jobs \in [net : {"none", "start", "stop"}, run : {"none", "start"}] /\ loaded \in Known
  BY <1>0 DEF TypeOK
<1>3. /\ jobs'.net = jobs.net /\ jobs' \in [net : {"none", "start", "stop"}, run : {"none", "start"}]
      /\ jobs'.run = "none"
  BY <1>1, <1>2
<1>4. Going /\ unit # None /\ (IsNetns(unit) <=> IsNetns(loaded))
  BY <1>0, <1>1 DEF Going, RunInv
<1>5. budget' \in [applies : Nat, faults : Nat, reboots : Nat]
  BY <1>0, <1>1 DEF TypeOK
<1>6. run' \in Runs /\ RunInv'
  <2>1. CASE run' = run
    BY <1>0, <1>1, <1>2, <1>3, <1>4, <2>1 DEF RunInv, Going
  <2>2. CASE run' = [run EXCEPT !.state = "failed"]
    <3>1. run' \in Runs /\ run'.state = "failed"
      BY <1>2, <2>2 DEF Runs
    <3>2. QED
      BY <1>3, <3>1 DEF RunInv, Going
  <2>3. CASE run' = [state |-> "starting", spec |-> loaded, where |-> "host"] /\ (Bound => net.state = "active")
    <3>1. run' \in Runs /\ run'.state = "starting" /\ run'.spec = loaded
      BY <1>2, <2>3 DEF Runs
    <3>2. Bound => net.state = "active" /\ jobs.net = "none"
      BY <1>1, <2>3 DEF RunMayStart
    <3>3. QED
      BY <1>1, <1>3, <1>4, <3>1, <3>2 DEF RunInv, Going, Bound
  <2>4. QED
    BY <1>1, <2>1, <2>2, <2>3
<1>7. QED
  BY <1>0, <1>1, <1>3, <1>4, <1>5, <1>6, NetKept

\* Join, Stopped and Exit
LEMMA RunnerKeeps == ASSUME Inv, Join \/ Stopped \/ Exit PROVE Inv'
<1>0. TypeOK /\ NetInv /\ RunInv /\ FilesAgree /\ OpInv /\ UnitInv
  BY DEF Inv
<1>1. run \in Runs /\ jobs \in [net : {"none", "start", "stop"}, run : {"none", "start"}]
  BY <1>0 DEF TypeOK
<1>2. UNCHANGED <<op, files, unit, loaded, net, kern>>
  BY DEF Join, Stopped, Exit
<1>3. budget' \in [applies : Nat, faults : Nat, reboots : Nat]
  BY <1>0 DEF Join, Stopped, Exit, TypeOK
<1>4. /\ jobs'.net = jobs.net /\ jobs' \in [net : {"none", "start", "stop"}, run : {"none", "start"}]
  BY <1>1 DEF Join, Stopped, Exit
<1>5. run' \in Runs /\ RunInv' /\ (Going' => Going)
  <2>1. CASE Join
    <3>1. /\ run' \in Runs /\ run'.spec = run.spec /\ run'.state \in {"running", "failed"}
          /\ run'.state = "running" /\ IsNetns(run.spec) => run'.where = "named"
      BY <1>1, <2>1 DEF Join, Runs
    <3>2. run.state = "starting" /\ jobs' = jobs
      BY <2>1 DEF Join
    <3>3. QED
      BY <1>0, <1>2, <3>1, <3>2 DEF RunInv, Going
  <2>2. CASE Stopped
    <3>1. run' \in Runs /\ run'.state = "inactive" /\ jobs' = jobs
      BY <1>1, <2>2 DEF Stopped, Runs
    <3>2. QED
      BY <1>0, <1>2, <3>1 DEF RunInv, Going
  <2>3. CASE Exit
    <3>1. run' \in Runs /\ run'.state = "inactive" /\ run.state = "running"
      BY <1>1, <2>3 DEF Exit, Runs
    <3>2. QED
      BY <1>0, <1>2, <3>1 DEF RunInv, Going
  <2>4. QED
    BY <2>1, <2>2, <2>3
<1>6. QED
  BY <1>0, <1>2, <1>3, <1>4, <1>5, NetKept

\* A runner that is made new, removed first or not
LEMMA WholeLists ==
  ASSUME NEW n \in Networks, NEW c, c = CreateTodo(n), NEW u, u = UpdateTodo(n)
  PROVE  /\ From(c, 1) = c /\ c \in Seq(Steps) /\ 1 \in 1..Len(c)
         /\ From(u, 1) = u /\ u \in Seq(Steps) /\ 1 \in 1..Len(u)
         /\ From(RemoveRunner, 1) = RemoveRunner
         /\ RemoveRunner \o CreateRunner(n) \o <<"reload">> = RemoveRunner \o c
         /\ RemoveRunner \o c \in Seq(Steps) /\ RemoveRunner \o <<"reload">> \in Seq(Steps)
<1>1. c \in Seq(Steps) /\ Len(c) \in {5, 12}
  BY NetnsLists, OpenLists
<1>2. u \in Seq(Steps) /\ Len(u) \in {5, 6}
  BY NetnsLists, OpenLists
<1>3. RemoveRunner \in Seq(Steps) /\ <<"reload">> \in Seq(Steps)
  BY RemoveList DEF Steps
<1>4. From(c, 1) = c /\ From(u, 1) = u /\ From(RemoveRunner, 1) = RemoveRunner
  BY <1>1, <1>2, <1>3, WorkedOff
<1>5. CreateRunner(n) \in Seq(Steps)
  <2>1. CASE IsNetns(n)
    <3>1. CreateRunner(n) = <<"write_unit", "reload">>
             \o <<"truncate_cfg", "write_cfg", "write_host", "write_ns", "reload", "start_net">>
             \o <<"start_run", "poll_uid">> \o <<"verify">>
      BY <2>1 DEF CreateRunner, ProvisionNetnsArtifacts
    <3>2. QED
      BY <3>1 DEF Steps
  <2>2. CASE ~IsNetns(n)
    <3>1. CreateRunner(n) = <<"write_unit", "reload">> \o <<>> \o <<"start_run", "poll_uid">> \o <<>>
      BY <2>2 DEF CreateRunner, ProvisionNetnsArtifacts
    <3>2. QED
      BY <3>1 DEF Steps
  <2>3. QED
    BY <2>1, <2>2
<1>6. RemoveRunner \o CreateRunner(n) \o <<"reload">> = RemoveRunner \o c
  BY <1>3, <1>5, ConcatAssociative DEF CreateTodo
<1>7. RemoveRunner \o c \in Seq(Steps) /\ RemoveRunner \o <<"reload">> \in Seq(Steps)
  BY <1>1, <1>3, ConcatProperties
<1>8. 1 \in 1..Len(c) /\ 1 \in 1..Len(u)
  <2>1. \A k \in {5, 6, 12} : 1 \in 1..k
    OBVIOUS
  <2>2. Len(c) \in {5, 6, 12} /\ Len(u) \in {5, 6, 12}
    BY <1>1, <1>2, Zenon
  <2>3. QED
    BY <2>1, <2>2, Zenon
<1>9. QED
  BY <1>1, <1>2, <1>4, <1>6, <1>7, <1>8

\* An apply that begins
LEMMA ApplyKeeps == ASSUME Inv, Apply \/ Recreate \/ RemoveOnly PROVE Inv'
<1>0. TypeOK /\ NetInv /\ RunInv /\ FilesAgree /\ OpInv /\ UnitInv
  BY DEF Inv
<1>1. UNCHANGED <<files, unit, loaded, net, run, jobs, kern>>
  BY DEF Apply, Recreate, RemoveOnly
<1>2. budget' \in [applies : Nat, faults : Nat, reboots : Nat]
  <2>1. budget.applies > 0 /\ budget' = [budget EXCEPT !.applies = @ - 1]
    BY DEF Apply, Recreate, RemoveOnly
  <2>2. QED
    BY <1>0, <2>1 DEF TypeOK
<1>3. NetInv' /\ RunInv' /\ FilesAgree' /\ UnitInv'
  <2>1. NetInv'
    BY <1>0, <1>1 DEF NetInv, Building, Clearing, Forgotten, Ready, Cleared, Working
  <2>2. RunInv' /\ FilesAgree' /\ UnitInv'
    BY <1>0, <1>1 DEF RunInv, Going, FilesAgree, UnitInv, Quiet
  <2>3. QED
    BY <2>1, <2>2
<1>4. Removing(1)'
  BY DEF Removing
<1>5. ASSUME NEW n \in Networks, NEW c, c = CreateTodo(n), op' = [net |-> n, todo |-> c], unit = None
      PROVE  op' \in [todo : Seq(Steps), net : Known] /\ OpInv'
  <2>1. op'.net = n /\ op'.todo = c /\ op' \in [todo : Seq(Steps), net : Known]
    BY <1>5, WholeLists DEF Known
  <2>2. ~Going' /\ Quiet' /\ files'.ns = None
    BY <1>0, <1>1, <1>5 DEF RunInv, Going, UnitInv, Quiet
  <2>3. CreatingNetns(1)' /\ CreatingOpen(1)'
    BY <2>2 DEF CreatingNetns, CreatingOpen
  <2>4. Creating(1)'
    BY <2>3 DEF Creating
  <2>5. From(c, 1) = c /\ 1 \in 1..Len(c)
    BY <1>5, WholeLists
  <2>6. QED
    BY <1>5, <2>1, <2>4, <2>5 DEF OpInv
<1>6. ASSUME NEW n \in Networks, NEW u, u = UpdateTodo(n), op' = [net |-> n, todo |-> u],
             unit # None, IsNetns(n) = IsNetns(unit)
      PROVE  op' \in [todo : Seq(Steps), net : Known] /\ OpInv'
  <2>1. op'.net = n /\ op'.todo = u /\ op' \in [todo : Seq(Steps), net : Known]
    BY <1>6, WholeLists DEF Known
  <2>2. Updating(1)'
    BY <1>1, <1>6, <2>1 DEF Updating
  <2>3. From(u, 1) = u /\ 1 \in 1..Len(u)
    BY <1>6, WholeLists
  <2>4. QED
    BY <1>6, <2>1, <2>2, <2>3 DEF OpInv
<1>7. ASSUME NEW n \in Networks, op' = [net |-> n, todo |-> RemoveRunner \o CreateRunner(n) \o <<"reload">>]
      PROVE  op' \in [todo : Seq(Steps), net : Known] /\ OpInv'
  <2>1. PICK c : c = CreateTodo(n)
    OBVIOUS
  <2>2. /\ RemoveRunner \o CreateRunner(n) \o <<"reload">> = RemoveRunner \o c
        /\ RemoveRunner \o c \in Seq(Steps) /\ From(RemoveRunner, 1) = RemoveRunner
    BY <2>1, WholeLists
  <2>3. op'.net = n /\ op'.todo = From(RemoveRunner, 1) \o c /\ op' \in [todo : Seq(Steps), net : Known]
    BY <1>7, <2>2 DEF Known
  <2>4. QED
    BY <1>4, <2>1, <2>3 DEF OpInv
<1>8. ASSUME op' = [op EXCEPT !.todo = RemoveRunner \o <<"reload">>]
      PROVE  op' \in [todo : Seq(Steps), net : Known] /\ OpInv'
  <2>1. RemoveRunner \in Seq(Steps) /\ <<"reload">> \in Seq(Steps)
    BY RemoveList DEF Steps
  <2>2. RemoveRunner \o <<"reload">> \in Seq(Steps) /\ From(RemoveRunner, 1) = RemoveRunner
    BY <2>1, ConcatProperties, WorkedOff
  <2>3. op'.todo = From(RemoveRunner, 1) \o <<"reload">> /\ op' \in [todo : Seq(Steps), net : Known]
    BY <1>0, <1>8, <2>2 DEF TypeOK
  <2>4. QED
    BY <1>4, <2>3 DEF OpInv
<1>9. op' \in [todo : Seq(Steps), net : Known] /\ OpInv'
  <2>1. CASE Apply
    <3>1. PICK n \in Networks :
            op' = [net |-> n,
                   todo |-> IF unit = None THEN CreateTodo(n)
                            ELSE IF IsNetns(n) = IsNetns(unit) THEN UpdateTodo(n)
                            ELSE RemoveRunner \o CreateRunner(n) \o <<"reload">>]
      BY <2>1 DEF Apply, CreateTodo, UpdateTodo
    <3>2. QED
      BY <1>5, <1>6, <1>7, <3>1
  <2>2. CASE Recreate
    BY <1>7, <2>2 DEF Recreate
  <2>3. CASE RemoveOnly
    BY <1>8, <2>3 DEF RemoveOnly
  <2>4. QED
    BY <2>1, <2>2, <2>3
<1>10. TypeOK'
  BY <1>0, <1>1, <1>2, <1>9 DEF TypeOK
<1>11. QED
  BY <1>3, <1>9, <1>10 DEF Inv

\* An apply may be killed between any two steps.
LEMMA ApplyFailsKeeps == ASSUME Inv, ApplyFails PROVE Inv'
<1>0. TypeOK /\ NetInv /\ RunInv /\ FilesAgree /\ OpInv /\ UnitInv
  BY DEF Inv
<1>1. UNCHANGED <<files, unit, loaded, net, run, jobs, kern>>
  BY DEF ApplyFails
<1>2. NetInv'
  BY <1>0, <1>1 DEF NetInv, Building, Clearing, Forgotten, Ready, Cleared, Working
<1>3. RunInv' /\ FilesAgree' /\ UnitInv'
  BY <1>0, <1>1 DEF RunInv, Going, FilesAgree, UnitInv, Quiet
<1>4. <<>> \in Seq(Steps)
  OBVIOUS
<1>5. op' \in [todo : Seq(Steps), net : Known] /\ op'.todo = <<>>
  BY <1>0, <1>4 DEF ApplyFails, TypeOK
<1>6. OpInv'
  BY <1>5 DEF OpInv
<1>7. budget' \in [applies : Nat, faults : Nat, reboots : Nat]
  BY <1>0 DEF ApplyFails, TypeOK
<1>8. TypeOK'
  BY <1>0, <1>1, <1>5, <1>7 DEF TypeOK
<1>9. QED
  BY <1>2, <1>3, <1>6, <1>8 DEF Inv

\* A reboot finds the files and the units of whatever was under way.
LEMMA RebootKeeps == ASSUME Inv, Reboot PROVE Inv'
<1>0. TypeOK /\ NetInv /\ RunInv /\ FilesAgree /\ OpInv /\ UnitInv
  BY DEF Inv
<1>1. UNCHANGED <<files, unit>> /\ loaded' = unit
  BY DEF Reboot
<1>2. <<>> \in Seq(Steps) /\ <<>> \in Seq(Commands)
  OBVIOUS
<1>3. op' \in [todo : Seq(Steps), net : Known] /\ op'.todo = <<>>
  BY <1>0, <1>2 DEF Reboot, TypeOK
<1>4. net' \in Nets /\ net'.state = "inactive" /\ net'.todo = <<>> /\ net'.via = "boot"
  BY <1>0, <1>2 DEF Reboot, TypeOK, Nets
<1>5. run' \in Runs /\ run'.state = "inactive"
  BY <1>0 DEF Reboot, TypeOK, Runs
<1>6. /\ jobs' \in [net : {"none", "start", "stop"}, run : {"none", "start"}]
      /\ unit = None => jobs'.run = "none" /\ jobs'.net = "none"
  BY DEF Reboot, IsNetns
<1>7. kern' \in Kerns
  <2>1. kern.dropIn \in Nat \cup {None}
    BY <1>0 DEF TypeOK, Kerns
  <2>2. <<>> \in Seq(HostRules) /\ <<>> \in Seq(NsRules)
    OBVIOUS
  <2>3. kern' = [ns |-> FALSE, veth |-> "none", host |-> <<>>, inner |-> <<>>,
                 resolv |-> None, dropIn |-> kern.dropIn, stub |-> kern.dropIn]
    BY DEF Reboot, NoKern
  <2>4. QED
    BY <2>1, <2>2, <2>3 DEF Kerns
<1>8. budget' \in [applies : Nat, faults : Nat, reboots : Nat]
  BY <1>0 DEF Reboot, TypeOK
<1>9. NetInv'
  BY <1>4 DEF NetInv, Working
<1>10. RunInv'
  BY <1>1, <1>5, <1>6 DEF RunInv, Going
<1>11. UnitInv'
  BY <1>0, <1>1, <1>4, <1>6 DEF UnitInv, Quiet
<1>12. FilesAgree'
  BY <1>0, <1>1 DEF FilesAgree
<1>13. OpInv'
  BY <1>3 DEF OpInv
<1>14. TypeOK'
  BY <1>0, <1>1, <1>3, <1>4, <1>5, <1>6, <1>7, <1>8 DEF TypeOK
<1>15. QED
  BY <1>9, <1>10, <1>11, <1>12, <1>13, <1>14 DEF Inv

\* A host without a runner satisfies the invariant.
LEMMA InvInit == ASSUME Init PROVE Inv
<1>1. /\ <<>> \in Seq(Steps) /\ <<>> \in Seq(Commands) /\ <<>> \in Seq(HostRules) /\ <<>> \in Seq(NsRules)
      /\ {MaxApplies, MaxFaults, MaxReboots} \subseteq Nat
  BY NetnsConstants
<1>2. kern \in Kerns /\ net \in Nets /\ run \in Runs
  BY <1>1 DEF Init, NoKern, Kerns, Nets, Runs, Known
<1>3. TypeOK
  BY <1>1, <1>2 DEF Init, TypeOK, Known
<1>4. NetInv
  BY DEF Init, NetInv, Working
<1>5. RunInv /\ UnitInv
  BY DEF Init, RunInv, Going, UnitInv, Quiet
<1>6. FilesAgree /\ OpInv
  BY DEF Init, FilesAgree, OpInv
<1>7. QED
  BY <1>3, <1>4, <1>5, <1>6 DEF Inv

\* Every step keeps the invariant.
LEMMA InvNext == ASSUME Inv, [Next]_vars PROVE Inv'
<1>1. CASE BeginNet
  BY <1>1, BeginNetKeeps
<1>2. CASE BeginRun
  BY <1>2, BeginRunKeeps
<1>3. CASE Join \/ Stopped \/ Exit
  BY <1>3, RunnerKeeps
<1>4. CASE NetCommand
  BY <1>4, NetCommandKeeps
<1>5. CASE NetTimeout
  BY <1>5, NetTimeoutKeeps
<1>6. CASE ~NetReady /\ ApplyStep
  <2>1. TypeOK' /\ NetInv' /\ RunInv' /\ UnitInv' /\ FilesAgree'
    BY <1>6, StepType, StepNet, StepRun, StepUnit
  <2>2. OpInv'
    BY <1>6, StepOp DEF Inv
  <2>3. QED
    BY <2>1, <2>2 DEF Inv
<1>7. CASE Apply \/ Recreate \/ RemoveOnly
  BY <1>7, ApplyKeeps
<1>8. CASE ApplyFails
  BY <1>8, ApplyFailsKeeps
<1>9. CASE Reboot
  BY <1>9, RebootKeeps
<1>10. CASE UNCHANGED vars
  <2>1. TypeOK /\ NetInv /\ RunInv /\ FilesAgree /\ OpInv /\ UnitInv
    BY DEF Inv
  <2>2. UNCHANGED <<op, files, unit, loaded, net, run, jobs, kern, budget>>
    BY <1>10 DEF vars
  <2>3. RunInv' /\ (Going' => Going)
    BY <2>1, <2>2 DEF RunInv, Going
  <2>4. QED
    BY <2>1, <2>2, <2>3, NetKept DEF TypeOK
<1>11. QED
  BY <1>1, <1>2, <1>3, <1>4, <1>5, <1>6, <1>7, <1>8, <1>9, <1>10 DEF Next

\* The invariant holds of every behaviour.
THEOREM Invariant == Spec => []Inv
<1>1. Init => Inv
  BY InvInit
<1>2. Inv /\ [Next]_vars => Inv'
  BY InvNext
<1>3. QED
  BY <1>1, <1>2, PTL DEF Spec

\* Every variable keeps its type: the files, units, jobs and host of a runner are
\* of the kinds that the code writes, for any number of applies and faults.
THEOREM TypeCorrect == Spec => []TypeOK
<1>1. Inv => TypeOK
  BY DEF Inv
<1>2. QED
  BY <1>1, Invariant, PTL

\* A runner of a namespace is never without its filters (setup_steps,
\* provision_netns_artifacts and the BindsTo= of the runner's unit).
THEOREM AlwaysFiltered == Spec => []Filtered
<1>1. Inv => Filtered
  BY DEF Inv, RunInv, NetInv, Ready, Filtered
<1>2. QED
  BY <1>1, Invariant, PTL

\* Setting a namespace up fails only because a command failed or a file is missing,
\* whatever an earlier attempt left behind (setup_steps).
THEOREM SetupAlwaysHeals == Spec => []SetupHeals
<1>1. Inv => SetupHeals
  BY DEF Inv, NetInv, SetupHeals
<1>2. QED
  BY <1>1, Invariant, PTL

\* A namespace unit that stops without an error leaves nothing in the kernel and no file, and
\* nothing in the resolver unless its reload failed or the config that was read asked for no
\* forwarder (teardown_inner and the ExecStop= lines before it).
THEOREM StopAlwaysClears == Spec => []StopLeavesNothing
<1>1. ASSUME Inv PROVE StopLeavesNothing
  <2> SUFFICES ASSUME net.state = "inactive", net.via = "end"
               PROVE  /\ [kern EXCEPT !.stub = None] = NoKern
                      /\ DnsWasForward(net.cfg) /\ net.blame # "reload" => kern.stub = None
    BY DEF StopLeavesNothing
  <2>1. Cleared /\ kern \in Kerns
    BY <1>1 DEF Inv, NetInv, TypeOK
  <2>2. PICK k : k = [kern EXCEPT !.stub = None]
    OBVIOUS
  <2>3. k \in Kerns /\ k.stub = None
    BY <2>1, <2>2 DEF Kerns
  <2>4. /\ k.ns = FALSE /\ k.veth = "none" /\ k.host = <<>> /\ k.inner = <<>> /\ k.resolv = None /\ k.dropIn = None
    BY <2>1, <2>2 DEF Kerns, Cleared
  <2>5. k = [ns |-> k.ns, veth |-> k.veth, host |-> k.host, inner |-> k.inner,
             resolv |-> k.resolv, dropIn |-> k.dropIn, stub |-> k.stub]
    BY <2>3 DEF Kerns
  <2>6. k = NoKern
    BY <2>3, <2>4, <2>5 DEF NoKern
  <2>7. QED
    BY <2>1, <2>2, <2>6 DEF Cleared
<1>2. QED
  BY <1>1, Invariant, PTL
=============================================================================
