----------------------------- MODULE FleetProofs -----------------------------
(***************************************************************************)
(* Proofs about Fleet for any number of runners and pools, any blocks and  *)
(* pool settings, any command lines and any bound on faults and edits.     *)
(***************************************************************************)
EXTENDS Fleet, SequenceTheorems, TLAPS

\* Names of resources differ in their kind or in their number.
LEMMA Names ==
  \A x, y \in Nat : /\ <<"runner", x>> # <<"pool", y>>
                    /\ <<"runner", x>> = <<"runner", y>> => x = y
                    /\ <<"pool", x>> = <<"pool", y>> => x = y
OBVIOUS

USE FleetConstants

PoolLocs == {"write", "enable", "reload", "stop", "start", "disable", "rmdropins", "rmdata", "undo"}

\* The plan is being carried out, or was without a failure.
Live == pc \in {"loop"} \cup PoolLocs \/ (pc = "exit" /\ result.failed = <<>>)

RunnerViews == [unit : BOOLEAN, conf : Specs \cup {None}, run : Specs \cup {None}]
Settings == Bodies \cup {None}
Actions == [op : RunnerOps \cup PoolOps \cup {"noop"}, name : Nat, to : Specs \cup Settings]
Failures == [act : Actions, err : {"Apply"}, cause : {"Other", "Auth"}]

HostOK ==
  /\ cfg \in Configs
  /\ runner \in [Runners -> RunnerViews]
  /\ needs \in [Runners -> SUBSET Pools]
  /\ pdir \subseteq Pools
  /\ pdrop \in [Pools -> Settings]
  /\ prun \in [Pools -> Settings]
  /\ prior \in Settings

ResultTyped ==
  result \in [succeeded : SUBSET Actions, failed : Seq(Failures), skipped : SUBSET Actions,
              details : Seq(Actions)]

ResultOK ==
  /\ ResultTyped
  /\ pc \in {"idle", "reconcile", "stopped"} => result = EmptyResult
  /\ pc = "failfast" => result.failed # <<>>
  /\ pc = "exit" => (exit \in {0, 2, 8} => result.failed = <<>>) /\ queue = {}

\* An action of a plan made for cfg and a value of --only.
Fits(a, only) ==
  /\ a \in Actions
  /\ only = {} \/ Resource(a) \in only
  /\ a.op \in RunnerOps \cup {"noop"} => a.name \in Runners
  /\ a.op \in {"create", "inplace", "recreate"} =>
       cfg.own[a.name] # None /\ a.to = Effective(a.name)
  /\ a.op = "remove" => cfg.own[a.name] = None /\ a.to = None
  /\ a.op \in PoolOps => a.name \in Pools
  /\ a.op \in {"createPool", "updatePool"} => a.name \in Referenced /\ a.to = cfg.body[a.name]
  /\ a.op = "removePool" => a.name \notin Referenced

\* The files of r, or of a pool, are what the configuration says.
Reached(r) ==
  IF cfg.own[r] = None THEN ~ runner[r].unit
                       ELSE runner[r].unit /\ runner[r].conf = Effective(r)
PoolReached(p) ==
  IF p \in Referenced THEN p \in pdir /\ pdrop[p] = cfg.body[p] ELSE p \notin pdir

\* Actions of S are for r, or for a pool.
RunnerIn(r, S) == \E a \in S : a.op \in RunnerOps /\ a.name = r
PoolIn(p, S) == \E a \in S : a.op \in PoolOps /\ a.name = p

FilteredPool(p) == opts.only # {} /\ <<"pool", p>> \notin opts.only

PlanOK ==
  /\ queue \subseteq planned
  /\ pc = "idle" => planned = {}
  /\ pc \in {"idle", "reconcile", "stopped"} => queue = {}
  /\ pc = "reconcile" =>
       /\ \A r \in Runners : Filtered(r) \/ Reached(r) \/ RunnerIn(r, planned)
       /\ \A p \in Pools : FilteredPool(p) \/ PoolReached(p) \/ PoolIn(p, planned)
  /\ \A a \in planned : Fits(a, opts.only)
  /\ \A a, b \in planned : Resource(a) = Resource(b) => a = b
  /\ pc \in PoolLocs => cur \in planned /\ cur \notin queue /\ cur.op \in PoolOps

\* sort_into_phases: what was executed comes before what was not.
InOrder ==
  /\ \A a \in planned \ queue, b \in queue : Phase(a.op) <= Phase(b.op)
  /\ pc \in PoolLocs => \A a \in planned \ queue : Phase(a.op) <= Phase(cur.op)

\* A pool action at a location.
PoolProgress ==
  /\ pc \in {"write", "enable", "reload", "start"} => cur.op \in {"createPool", "updatePool"}
  /\ pc = "stop" => cur.op \in {"updatePool", "removePool"}
  /\ pc \in {"disable", "rmdropins", "rmdata"} => cur.op = "removePool"
  /\ pc \in {"enable", "reload", "start"} \/ (pc = "stop" /\ cur.op = "updatePool") =>
       Pool \in pdir /\ pdrop[Pool] = cur.to
  /\ pc = "rmdata" => Pool \notin pdir

RunnersReached ==
  Live => \A r \in Runners : Filtered(r) \/ FailedRunner(r) \/ Reached(r) \/ RunnerIn(r, queue)

PoolsReached ==
  Live /\ result.failed = <<>> => \A p \in Pools :
    FilteredPool(p) \/ PoolReached(p) \/ PoolIn(p, queue) \/ (pc \in PoolLocs /\ Pool = p)

StorageGone ==
  Live /\ result.failed = <<>> => \A a \in planned \ queue :
    a.op = "removePool" => a.name \notin pdata \/ (pc \in PoolLocs /\ cur = a)

RunnersRun ==
  Live /\ result.failed = <<>> /\ ~ opts.noRestart =>
    \A a \in planned \ queue : a.op \in {"create", "inplace", "recreate"} =>
      /\ left[a.name] # None => runner[a.name].run = left[a.name]
      /\ needs[a.name] = UsesOf(a.to)

Inv ==
  /\ HostOK /\ ResultOK /\ PlanOK /\ InOrder /\ PoolProgress
  /\ RunnersReached /\ PoolsReached /\ StorageGone /\ RunnersRun

-----------------------------------------------------------------------------
(* Plans                                                                   *)

\* A runner's block, and what its spec says of the pools.
LEMMA EffectiveFacts ==
  ASSUME HostOK, NEW r \in Runners, cfg.own[r] # None
  PROVE  /\ Effective(r) \in Specs /\ Effective(r) # None
         /\ UsesOf(Effective(r)) = Uses[cfg.own[r]]
         /\ UsesOf(Effective(r)) \subseteq Referenced
         /\ UsesOf(Effective(r)) \subseteq Pools
         /\ \A p \in UsesOf(Effective(r)) : Effective(r).caches[p] = cfg.body[p]
<1>1. cfg.own[r] \in Owns /\ cfg.body \in [Pools -> Bodies]
  BY DEF HostOK, Configs
<1>2. Effective(r) \in Specs
  BY <1>1 DEF Effective, Spec, Specs
<1>3. Effective(r) # None
  BY <1>2, NoneIsNoSpec
<1>4. Effective(r).own = cfg.own[r]
  BY DEF Effective, Spec
<1>5. UsesOf(Effective(r)) = Uses[cfg.own[r]]
  BY <1>3, <1>4 DEF UsesOf
<1>6. Uses[cfg.own[r]] \subseteq Referenced /\ Uses[cfg.own[r]] \subseteq Pools
  BY <1>1 DEF Referenced
<1>7. \A p \in Uses[cfg.own[r]] : Effective(r).caches[p] = cfg.body[p]
  BY <1>6 DEF Effective, Spec
<1>8. QED
  BY <1>2, <1>3, <1>5, <1>6, <1>7

\* The pools a spec uses.
LEMMA UsesTyped == \A s \in Specs \cup {None} : UsesOf(s) \subseteq Pools
BY DEF UsesOf, Specs

\* Membership in a plan.
LEMMA InPlan ==
  ASSUME NEW view, NEW only, NEW a
  PROVE  a \in Plan(view, only) <=>
           /\ \/ \E r \in Runners : a \in PlanRunner(r, view[r])
              \/ \E p \in Pools : a \in PlanPool(p)
           /\ only = {} \/ Resource(a) \in only
BY DEF Plan

\* What is planned for one runner.
LEMMA PlanRunnerFacts ==
  ASSUME HostOK, NEW r \in Runners, NEW v \in RunnerViews
  PROVE  /\ \A a \in PlanRunner(r, v) :
              /\ a \in Actions /\ a.name = r /\ a.op \in RunnerOps \cup {"noop"}
              /\ Resource(a) = <<"runner", r>>
              /\ a.op \in {"create", "inplace", "recreate"} =>
                   cfg.own[r] # None /\ a.to = Effective(r)
              /\ a.op = "remove" => cfg.own[r] = None /\ a.to = None
         /\ \A a, b \in PlanRunner(r, v) : a = b
         /\ \/ \E a \in PlanRunner(r, v) : a.op \in RunnerOps
            \/ IF cfg.own[r] = None THEN ~ v.unit ELSE v.unit /\ v.conf = Effective(r)
<1>1. r \in Nat /\ v.unit \in BOOLEAN
  BY DEF RunnerViews
<1>2. cfg.own[r] # None => Effective(r) \in Specs
  BY EffectiveFacts
<1> USE DEF Act, Actions, RunnerOps, PoolOps, Resource, Settings
<1>3. CASE cfg.own[r] = None /\ ~ v.unit
  <2>1. PlanRunner(r, v) = {}
    BY <1>3 DEF PlanRunner
  <2>2. QED
    BY <1>3, <2>1
<1>4. CASE cfg.own[r] = None /\ v.unit
  <2>1. PlanRunner(r, v) = {Act("remove", r, None)}
    BY <1>4 DEF PlanRunner
  <2>2. QED
    BY <1>1, <1>4, <2>1
<1>5. CASE cfg.own[r] # None /\ ~ v.unit
  <2>1. PlanRunner(r, v) = {Act("create", r, Effective(r))}
    BY <1>5 DEF PlanRunner
  <2>2. QED
    BY <1>1, <1>2, <1>5, <2>1
<1>6. CASE cfg.own[r] # None /\ v.unit
  <2>1. CASE v.conf = Effective(r)
    <3>1. PlanRunner(r, v) = {Act("noop", r, None)}
      BY <1>6, <2>1 DEF PlanRunner
    <3>2. QED
      BY <1>1, <1>6, <2>1, <3>1
  <2>2. CASE v.conf # Effective(r)
    <3>1. PICK op \in {"recreate", "inplace"} : PlanRunner(r, v) = {Act(op, r, Effective(r))}
      BY <1>6, <2>2 DEF PlanRunner
    <3>2. QED
      BY <1>1, <1>2, <1>6, <3>1
  <2>3. QED
    BY <2>1, <2>2
<1>7. QED
  BY <1>1, <1>3, <1>4, <1>5, <1>6

\* What is planned for one pool.
LEMMA PlanPoolFacts ==
  ASSUME HostOK, NEW p \in Pools
  PROVE  /\ \A a \in PlanPool(p) :
              /\ a \in Actions /\ a.name = p /\ a.op \in PoolOps
              /\ Resource(a) = <<"pool", p>>
              /\ a.op \in {"createPool", "updatePool"} => p \in Referenced /\ a.to = cfg.body[p]
              /\ a.op = "removePool" => p \notin Referenced
         /\ \A a, b \in PlanPool(p) : a = b
         /\ PoolReached(p) \/ \E a \in PlanPool(p) : TRUE
<1>1. p \in Nat /\ cfg.body[p] \in Bodies
  BY DEF HostOK, Configs
<1> USE DEF Act, Actions, RunnerOps, PoolOps, Resource, Settings
<1>2. CASE p \in Referenced /\ p \notin pdir
  <2>1. PlanPool(p) = {Act("createPool", p, cfg.body[p])}
    BY <1>2 DEF PlanPool
  <2>2. QED
    BY <1>1, <1>2, <2>1
<1>3. CASE p \in Referenced /\ p \in pdir /\ (pdrop[p] # cfg.body[p] \/ p \in poper)
  <2>1. PlanPool(p) = {Act("updatePool", p, cfg.body[p])}
    BY <1>3 DEF PlanPool
  <2>2. QED
    BY <1>1, <1>3, <2>1
<1>4. CASE p \notin Referenced /\ p \in pdir
  <2>1. PlanPool(p) = {Act("removePool", p, None)}
    BY <1>4 DEF PlanPool
  <2>2. QED
    BY <1>1, <1>4, <2>1
<1>5. CASE \/ p \in Referenced /\ p \in pdir /\ ~ (pdrop[p] # cfg.body[p] \/ p \in poper)
           \/ p \notin Referenced /\ p \notin pdir
  <2>1. PlanPool(p) = {} /\ PoolReached(p)
    BY <1>5 DEF PlanPool, PoolReached
  <2>2. QED
    BY <2>1
<1>6. QED
  BY <1>2, <1>3, <1>4, <1>5

\* Every action of a plan fits, it is the only one for its resource, and every
\* runner and pool that the plan leaves alone is as configured.
LEMMA PlanFits ==
  ASSUME HostOK, NEW view \in [Runners -> RunnerViews], NEW only
  PROVE  /\ \A a \in Plan(view, only) : Fits(a, only)
         /\ \A a, b \in Plan(view, only) : Resource(a) = Resource(b) => a = b
         /\ \A r \in Runners :
              \/ only # {} /\ <<"runner", r>> \notin only
              \/ IF cfg.own[r] = None THEN ~ view[r].unit
                                      ELSE view[r].unit /\ view[r].conf = Effective(r)
              \/ RunnerIn(r, Plan(view, only))
         /\ \A p \in Pools :
              \/ only # {} /\ <<"pool", p>> \notin only
              \/ PoolReached(p) \/ PoolIn(p, Plan(view, only))
<1> DEFINE P == Plan(view, only)
<1>1. \A a : a \in P <=>
        /\ (\E r \in Runners : a \in PlanRunner(r, view[r])) \/ (\E p \in Pools : a \in PlanPool(p))
        /\ only = {} \/ Resource(a) \in only
  BY InPlan
<1> HIDE DEF P
<1>2. \A a \in P : a.op \in RunnerOps \cup {"noop"} \/ a.op \in PoolOps
  BY <1>1, PlanRunnerFacts, PlanPoolFacts
<1>3. \A a \in P : Fits(a, only)
  <2> TAKE a \in P
  <2>1. CASE \E r \in Runners : a \in PlanRunner(r, view[r])
    <3>1. PICK r \in Runners : a \in PlanRunner(r, view[r])
      BY <2>1
    <3>2. view[r] \in RunnerViews
      OBVIOUS
    <3>3. a \in Actions /\ a.name = r /\ a.op \in RunnerOps \cup {"noop"}
          /\ (a.op \in {"create", "inplace", "recreate"} =>
                cfg.own[r] # None /\ a.to = Effective(r))
          /\ (a.op = "remove" => cfg.own[r] = None /\ a.to = None)
      BY <3>1, <3>2, PlanRunnerFacts
    <3>4. a.op \notin PoolOps
      BY <3>3 DEF RunnerOps, PoolOps
    <3>5. only = {} \/ Resource(a) \in only
      BY <1>1
    <3>6. QED
      BY <3>3, <3>4, <3>5 DEF Fits, PoolOps
  <2>2. CASE \E p \in Pools : a \in PlanPool(p)
    <3>1. PICK p \in Pools : a \in PlanPool(p)
      BY <2>2
    <3>2. a \in Actions /\ a.name = p /\ a.op \in PoolOps
          /\ (a.op \in {"createPool", "updatePool"} => p \in Referenced /\ a.to = cfg.body[p])
          /\ (a.op = "removePool" => p \notin Referenced)
      BY <3>1, PlanPoolFacts
    <3>3. a.op \notin RunnerOps \cup {"noop"}
      BY <3>2 DEF RunnerOps, PoolOps
    <3>4. only = {} \/ Resource(a) \in only
      BY <1>1
    <3>5. QED
      BY <3>2, <3>3, <3>4 DEF Fits, RunnerOps
  <2>3. QED
    BY <1>1, <2>1, <2>2
<1>4. \A a, b \in P : Resource(a) = Resource(b) => a = b
  <2> SUFFICES ASSUME NEW a \in P, NEW b \in P, Resource(a) = Resource(b)
               PROVE  a = b
    OBVIOUS
  <2>1. ASSUME NEW c \in P
        PROVE  \/ \E r \in Runners : c \in PlanRunner(r, view[r]) /\ Resource(c) = <<"runner", r>>
               \/ \E p \in Pools : c \in PlanPool(p) /\ Resource(c) = <<"pool", p>>
    BY <1>1, PlanRunnerFacts, PlanPoolFacts
  <2>2. CASE \E r \in Runners : a \in PlanRunner(r, view[r]) /\ Resource(a) = <<"runner", r>>
    <3>1. PICK r \in Runners : a \in PlanRunner(r, view[r]) /\ Resource(a) = <<"runner", r>>
      BY <2>2
    <3>2. ASSUME NEW p \in Pools, Resource(b) = <<"pool", p>> PROVE FALSE
      BY <3>1, <3>2, Names
    <3>3. PICK q \in Runners : b \in PlanRunner(q, view[q]) /\ Resource(b) = <<"runner", q>>
      BY <2>1, <3>2
    <3>4. q = r
      BY <3>1, <3>3, Names
    <3>5. b \in PlanRunner(r, view[r])
      BY <3>3, <3>4
    <3>6. view[r] \in RunnerViews
      OBVIOUS
    <3>7. QED
      BY <3>1, <3>5, <3>6, PlanRunnerFacts
  <2>3. CASE \E p \in Pools : a \in PlanPool(p) /\ Resource(a) = <<"pool", p>>
    <3>1. PICK p \in Pools : a \in PlanPool(p) /\ Resource(a) = <<"pool", p>>
      BY <2>3
    <3>2. ASSUME NEW r \in Runners, Resource(b) = <<"runner", r>> PROVE FALSE
      BY <3>1, <3>2, Names
    <3>3. PICK q \in Pools : b \in PlanPool(q) /\ Resource(b) = <<"pool", q>>
      BY <2>1, <3>2
    <3>4. q = p
      BY <3>1, <3>3, Names
    <3>5. b \in PlanPool(p)
      BY <3>3, <3>4
    <3>6. QED
      BY <3>1, <3>5, PlanPoolFacts
  <2>4. QED
    BY <2>1, <2>2, <2>3
<1>5. ASSUME NEW r \in Runners, ~ (only # {} /\ <<"runner", r>> \notin only),
             ~ (IF cfg.own[r] = None THEN ~ view[r].unit
                                     ELSE view[r].unit /\ view[r].conf = Effective(r))
      PROVE  RunnerIn(r, P)
  <2>1. view[r] \in RunnerViews
    OBVIOUS
  <2>2. PICK a \in PlanRunner(r, view[r]) : a.op \in RunnerOps
    BY <1>5, <2>1, PlanRunnerFacts
  <2>3. a.name = r /\ Resource(a) = <<"runner", r>>
    BY <2>1, <2>2, PlanRunnerFacts
  <2>4. a \in P
    BY <1>1, <1>5, <2>2, <2>3
  <2>5. QED
    BY <2>2, <2>3, <2>4 DEF RunnerIn
<1>6. ASSUME NEW p \in Pools, ~ (only # {} /\ <<"pool", p>> \notin only), ~ PoolReached(p)
      PROVE  PoolIn(p, P)
  <2>1. PICK a \in PlanPool(p) : TRUE
    BY <1>6, PlanPoolFacts
  <2>2. a.name = p /\ a.op \in PoolOps /\ Resource(a) = <<"pool", p>>
    BY <2>1, PlanPoolFacts
  <2>3. a \in P
    BY <1>1, <1>6, <2>1, <2>2
  <2>4. QED
    BY <2>2, <2>3 DEF PoolIn
<1>7. QED
  BY <1>3, <1>4, <1>5, <1>6 DEF P

\* The phase of each kind of action.
LEMMA PhaseValues ==
  /\ Phase("createPool") = 1 /\ Phase("updatePool") = 2 /\ Phase("remove") = 3
  /\ Phase("inplace") = 4 /\ Phase("recreate") = 5 /\ Phase("create") = 6
  /\ Phase("removePool") = 7 /\ Phase("noop") = 8
BY DEF Phase

\* Pool actions other than removals come before runner actions, removals after.
LEMMA PhaseBounds ==
  ASSUME NEW op
  PROVE  /\ op \in RunnerOps => Phase(op) \in 3..6
         /\ op \in {"createPool", "updatePool"} => Phase(op) \in 1..2
         /\ op = "removePool" => Phase(op) = 7
         /\ op \in RunnerOps \cup PoolOps \cup {"noop"} => Phase(op) \in 1..8
<1>1. CASE op \in RunnerOps
  BY <1>1, PhaseValues DEF RunnerOps
<1>2. CASE op \in PoolOps
  BY <1>2, PhaseValues DEF RunnerOps, PoolOps
<1>3. CASE op = "noop"
  BY <1>3, PhaseValues DEF RunnerOps, PoolOps
<1>4. QED
  BY <1>1, <1>2, <1>3 DEF PoolOps

\* What only depends on the configuration and on the options.
LEMMA SameConfig ==
  ASSUME cfg' = cfg
  PROVE  /\ Referenced' = Referenced
         /\ \A r : Effective(r)' = Effective(r)
         /\ \A a, only : Fits(a, only)' <=> Fits(a, only)
<1>1. Referenced' = Referenced
  BY DEF Referenced
<1>2. ASSUME NEW r PROVE Effective(r)' = Effective(r)
  BY DEF Effective
<1>3. ASSUME NEW a, NEW only PROVE Fits(a, only)' <=> Fits(a, only)
  BY <1>1, <1>2 DEF Fits
<1>4. QED
  BY <1>1, <1>2, <1>3

\* The unit and 00-ghars.conf of r are what Reached looks at.
LEMMA SameReached ==
  ASSUME cfg' = cfg, NEW r, runner'[r].unit = runner[r].unit, runner'[r].conf = runner[r].conf
  PROVE  Reached(r)' <=> Reached(r)
BY SameConfig DEF Reached

\* The drop-in directory and the settings in it are what PoolReached looks at.
LEMMA SamePoolReached ==
  ASSUME cfg' = cfg, NEW p, p \in pdir' <=> p \in pdir, pdrop'[p] = pdrop[p]
  PROVE  PoolReached(p)' <=> PoolReached(p)
BY SameConfig DEF PoolReached

-----------------------------------------------------------------------------
(* Effects of steps                                                        *)

\* record_action_failure adds a row and keeps the others.
LEMMA FailFacts ==
  ASSUME ResultTyped, NEW a \in Actions, NEW cause \in {"Other", "Auth"}, Fail(a, cause)
  PROVE  /\ ResultTyped' /\ result'.failed # <<>>
         /\ \A r : FailedRunner(r) => FailedRunner(r)'
         /\ \A r : Resource(a) = <<"runner", r>> => FailedRunner(r)'
<1> DEFINE row == [act |-> a, err |-> "Apply", cause |-> cause]
<1>1. row \in Failures /\ result.failed \in Seq(Failures)
  BY DEF Failures, ResultTyped
<1>2. result' = [result EXCEPT !.failed = Append(@, row), !.details = Append(@, a)]
  BY DEF Fail
<1>3. row.act = a
  OBVIOUS
<1> HIDE DEF row
<1>4. result'.failed = Append(result.failed, row) /\ ResultTyped'
  <2>1. Append(result.failed, row) \in Seq(Failures) /\ Append(result.details, a) \in Seq(Actions)
    BY <1>1, AppendProperties DEF ResultTyped
  <2> HIDE DEF Actions, Failures
  <2>2. QED
    BY <1>2, <2>1 DEF ResultTyped
<1>5. /\ Append(result.failed, row) # <<>>
      /\ DOMAIN Append(result.failed, row) = 1 .. Len(result.failed) + 1
      /\ DOMAIN result.failed = 1 .. Len(result.failed) /\ Len(result.failed) \in Nat
      /\ \A i \in 1 .. Len(result.failed) : Append(result.failed, row)[i] = result.failed[i]
      /\ Append(result.failed, row)[Len(result.failed) + 1] = row
  BY <1>1, AppendProperties, LenProperties
<1>6. ASSUME NEW r, FailedRunner(r) PROVE FailedRunner(r)'
  <2>1. PICK i \in DOMAIN result.failed : Resource(result.failed[i].act) = <<"runner", r>>
    BY <1>6 DEF FailedRunner
  <2>2. i \in DOMAIN result'.failed /\ result'.failed[i] = result.failed[i]
    BY <1>4, <1>5, <2>1
  <2>3. QED
    BY <2>1, <2>2 DEF FailedRunner
<1>7. ASSUME NEW r, Resource(a) = <<"runner", r>> PROVE FailedRunner(r)'
  <2>1. Len(result.failed) + 1 \in DOMAIN result'.failed
        /\ result'.failed[Len(result.failed) + 1].act = a
    BY <1>3, <1>4, <1>5
  <2>2. QED
    BY <1>7, <2>1 DEF FailedRunner
<1>8. QED
  BY <1>4, <1>5, <1>6, <1>7

\* A success and a no-op leave the failures alone.
LEMMA NoFailFacts ==
  ASSUME ResultTyped, NEW a \in Actions, Succeed(a) \/ Skip(a) \/ result' = result
  PROVE  /\ ResultTyped' /\ result'.failed = result.failed
         /\ \A r : FailedRunner(r)' <=> FailedRunner(r)
<1>1. result.details \in Seq(Actions) /\ Append(result.details, a) \in Seq(Actions)
  BY AppendProperties DEF ResultTyped
<1>2. ResultTyped' /\ result'.failed = result.failed
  <2> HIDE DEF Actions, Failures
  <2>1. CASE Succeed(a)
    BY <1>1, <2>1 DEF ResultTyped, Succeed
  <2>2. CASE Skip(a)
    BY <1>1, <2>2 DEF ResultTyped, Skip
  <2>3. CASE result' = result
    BY <2>3 DEF ResultTyped
  <2>4. QED
    BY <2>1, <2>2, <2>3
<1>3. QED
  BY <1>2 DEF FailedRunner

\* What RunnerContract lets an action leave is a view.
LEMMA ContractTyped ==
  ASSUME NEW v \in RunnerViews, NEW op \in RunnerOps, NEW new \in Specs \cup {None}
  PROVE  /\ Completed(op, v, new) \subseteq RunnerViews
         /\ Interrupted(op, v, new) \subseteq RunnerViews
         /\ RolledBack(v) \subseteq RunnerViews
         /\ PartlyUndone(v, new) \subseteq RunnerViews
<1>1. \A U, C, R :
        U \subseteq BOOLEAN /\ C \subseteq Specs \cup {None} /\ R \subseteq Specs \cup {None}
                     => Views(U, C, R) \subseteq RunnerViews
  BY DEF Views, View, RunnerViews
<1>2. v.unit \in BOOLEAN /\ v.conf \in Specs \cup {None} /\ v.run \in Specs \cup {None}
  BY DEF RunnerViews
<1> HIDE DEF RunnerViews
<1>3. Completed(op, v, new) \subseteq RunnerViews
  <2>1. CASE op \in {"create", "inplace"}
    <3>1. Completed(op, v, new) = Views({TRUE}, {new}, {v.run, new, None})
      BY <2>1 DEF Completed
    <3>2. {TRUE} \subseteq BOOLEAN /\ {new} \subseteq Specs \cup {None}
          /\ {v.run, new, None} \subseteq Specs \cup {None}
      BY <1>2
    <3>3. Views({TRUE}, {new}, {v.run, new, None}) \subseteq RunnerViews
      BY <1>1, <3>2, Zenon
    <3>4. QED
      BY <3>1, <3>3
  <2>2. CASE op = "recreate"
    <3>1. Completed(op, v, new) = Views({TRUE}, {new}, {new, None})
      BY <2>2 DEF Completed
    <3>2. {TRUE} \subseteq BOOLEAN /\ {new} \subseteq Specs \cup {None}
          /\ {new, None} \subseteq Specs \cup {None}
      OBVIOUS
    <3>3. Views({TRUE}, {new}, {new, None}) \subseteq RunnerViews
      BY <1>1, <3>2, Zenon
    <3>4. QED
      BY <3>1, <3>3
  <2>3. CASE op = "remove"
    <3>1. Completed(op, v, new) = Views({FALSE}, {None}, {None})
      BY <2>3 DEF Completed
    <3>2. {FALSE} \subseteq BOOLEAN /\ {None} \subseteq Specs \cup {None}
      OBVIOUS
    <3>3. Views({FALSE}, {None}, {None}) \subseteq RunnerViews
      BY <1>1, <3>2, Zenon
    <3>4. QED
      BY <3>1, <3>3
  <2>4. QED
    BY <2>1, <2>2, <2>3 DEF RunnerOps
<1>4. Interrupted(op, v, new) \subseteq RunnerViews
  <2>0. /\ {FALSE, TRUE} \subseteq BOOLEAN /\ {TRUE} \subseteq BOOLEAN
        /\ {v.conf, new} \subseteq Specs \cup {None}
        /\ {v.conf, new, None} \subseteq Specs \cup {None}
        /\ {v.conf, None} \subseteq Specs \cup {None}
        /\ {v.run, new, None} \subseteq Specs \cup {None}
        /\ {v.run, None} \subseteq Specs \cup {None}
    BY <1>2
  <2>1. CASE op = "create"
    <3>1. Interrupted(op, v, new) = Views({FALSE, TRUE}, {v.conf, new}, {v.run, new, None})
      BY <2>1 DEF Interrupted
    <3>2. Views({FALSE, TRUE}, {v.conf, new}, {v.run, new, None}) \subseteq RunnerViews
      BY <1>1, <2>0, Zenon
    <3>3. QED
      BY <3>1, <3>2
  <2>2. CASE op = "inplace"
    <3>1. Interrupted(op, v, new) = Views({TRUE}, {v.conf, new}, {v.run, new, None})
      BY <2>2 DEF Interrupted
    <3>2. Views({TRUE}, {v.conf, new}, {v.run, new, None}) \subseteq RunnerViews
      BY <1>1, <2>0, Zenon
    <3>3. QED
      BY <3>1, <3>2
  <2>3. CASE op = "recreate"
    <3>1. Interrupted(op, v, new) =
            Views({FALSE, TRUE}, {v.conf, new, None}, {v.run, new, None})
      BY <2>3 DEF Interrupted
    <3>2. Views({FALSE, TRUE}, {v.conf, new, None}, {v.run, new, None}) \subseteq RunnerViews
      BY <1>1, <2>0, Zenon
    <3>3. QED
      BY <3>1, <3>2
  <2>4. CASE op = "remove"
    <3>1. Interrupted(op, v, new) = Views({FALSE, TRUE}, {v.conf, None}, {v.run, None})
      BY <2>4 DEF Interrupted
    <3>2. Views({FALSE, TRUE}, {v.conf, None}, {v.run, None}) \subseteq RunnerViews
      BY <1>1, <2>0, Zenon
    <3>3. QED
      BY <3>1, <3>2
  <2>5. QED
    BY <2>1, <2>2, <2>3, <2>4 DEF RunnerOps
<1>5. RolledBack(v) \subseteq RunnerViews
  <2>1. {v.unit, FALSE} \subseteq BOOLEAN /\ {v.conf, None} \subseteq Specs \cup {None}
        /\ {v.run, None} \subseteq Specs \cup {None}
    BY <1>2
  <2>2. QED
    BY <1>1, <2>1, Zenon DEF RolledBack
<1>6. PartlyUndone(v, new) \subseteq RunnerViews
  <2>1. {FALSE, TRUE} \subseteq BOOLEAN /\ {v.conf, new, None} \subseteq Specs \cup {None}
        /\ {v.run, new, None} \subseteq Specs \cup {None}
    BY <1>2
  <2>2. QED
    BY <1>1, <2>1, Zenon DEF PartlyUndone
<1>7. QED
  BY <1>3, <1>4, <1>5, <1>6

\* What a completed action leaves.
LEMMA CompletedFacts ==
  ASSUME NEW v, NEW op \in RunnerOps, NEW new, NEW w \in Completed(op, v, new)
  PROVE  /\ op \in {"create", "inplace", "recreate"} => w.unit /\ w.conf = new
         /\ op = "remove" => ~ w.unit
<1>1. \A U, C, R : \A x \in Views(U, C, R) : x.unit \in U /\ x.conf \in C /\ x.run \in R
  BY DEF Views, View
<1>2. CASE op \in {"create", "inplace"}
  <2>1. w \in Views({TRUE}, {new}, {v.run, new, None})
    BY <1>2 DEF Completed
  <2>2. w.unit \in {TRUE} /\ w.conf \in {new}
    BY <1>1, <2>1, Zenon
  <2>3. QED
    BY <1>2, <2>2
<1>3. CASE op = "recreate"
  <2>1. w \in Views({TRUE}, {new}, {new, None})
    BY <1>3 DEF Completed
  <2>2. w.unit \in {TRUE} /\ w.conf \in {new}
    BY <1>1, <2>1, Zenon
  <2>3. QED
    BY <1>3, <2>2
<1>4. CASE op = "remove"
  <2>1. w \in Views({FALSE}, {None}, {None})
    BY <1>4 DEF Completed
  <2>2. w.unit \in {FALSE}
    BY <1>1, <2>1, Zenon
  <2>3. QED
    BY <1>4, <2>2
<1>5. QED
  BY <1>2, <1>3, <1>4 DEF RunnerOps

\* systemd's view of the host.
LEMMA SystemdTyped ==
  ASSUME HostOK
  PROVE  /\ \A view \in [Runners -> RunnerViews] : Loaded(view) \in [Runners -> SUBSET Pools]
         /\ \A ps : Started(ps) \in [Pools -> Settings]
         /\ \A p : WithoutPool(p) \in [Runners -> RunnerViews]
         /\ \A p, r : r \in Runners => /\ WithoutPool(p)[r].unit = runner[r].unit
                                       /\ WithoutPool(p)[r].conf = runner[r].conf
                                       /\ p \notin needs[r] => WithoutPool(p)[r] = runner[r]
<1>1. ASSUME NEW view \in [Runners -> RunnerViews]
      PROVE  Loaded(view) \in [Runners -> SUBSET Pools]
  <2>1. ASSUME NEW r \in Runners PROVE UsesOf(view[r].conf) \subseteq Pools
    <3>1. view[r].conf \in Specs \cup {None}
      BY DEF RunnerViews
    <3>2. QED
      BY <3>1, UsesTyped
  <2>2. QED
    BY <2>1 DEF Loaded
<1>2. ASSUME NEW ps PROVE Started(ps) \in [Pools -> Settings]
  BY DEF Started, HostOK
<1>3. ASSUME NEW p
      PROVE  /\ WithoutPool(p) \in [Runners -> RunnerViews]
             /\ \A r \in Runners : /\ WithoutPool(p)[r].unit = runner[r].unit
                                   /\ WithoutPool(p)[r].conf = runner[r].conf
                                   /\ p \notin needs[r] => WithoutPool(p)[r] = runner[r]
  <2>1. ASSUME NEW r \in Runners
        PROVE  LET v == [runner[r] EXCEPT !.run = None] IN
                 v \in RunnerViews /\ v.unit = runner[r].unit /\ v.conf = runner[r].conf
    BY DEF HostOK, RunnerViews
  <2>2. \A r \in Runners : runner[r] \in RunnerViews
    BY DEF HostOK
  <2> HIDE DEF RunnerViews
  <2>3. QED
    BY <2>1, <2>2 DEF WithoutPool
<1>4. QED
  BY <1>1, <1>2, <1>3

\* Whatever a runner action may leave.
Outcomes(a) ==
  Completed(a.op, runner[a.name], a.to) \cup Broken(a, "none") \cup Broken(a, "complete")
    \cup Broken(a, "partial")

\* What a runner action does to the host, complete or not.
LEMMA RunnerEffect ==
  ASSUME HostOK, NEW a, NEW only, Fits(a, only), a.op \in RunnerOps,
         NEW w \in Outcomes(a),
         RunnerBecomes(a.name, w, a.to)
  PROVE  /\ a.name \in Runners
         /\ runner' = [runner EXCEPT ![a.name] = w]
         /\ runner' \in [Runners -> RunnerViews]
         /\ prun' \in [Pools -> Settings]
         /\ Loaded(runner') \in [Runners -> SUBSET Pools]
<1>1. a.name \in Runners
  BY DEF Fits
<1>2. a.to \in Specs \cup {None}
  <2>1. \/ cfg.own[a.name] # None /\ a.to = Effective(a.name)
        \/ a.to = None
    BY DEF Fits, RunnerOps
  <2>2. QED
    BY <1>1, <2>1, EffectiveFacts
<1>3. runner[a.name] \in RunnerViews
  BY <1>1 DEF HostOK
<1>4. w \in RunnerViews
  <2>1. Outcomes(a) = Completed(a.op, runner[a.name], a.to)
                        \cup Interrupted(a.op, runner[a.name], a.to)
                        \cup RolledBack(runner[a.name])
                        \cup PartlyUndone(runner[a.name], a.to)
    BY DEF Outcomes, Broken
  <2>2. QED
    BY <1>2, <1>3, <2>1, ContractTyped
<1>5. runner' = [runner EXCEPT ![a.name] = w]
  BY DEF RunnerBecomes
<1>6. runner' \in [Runners -> RunnerViews]
  BY <1>1, <1>4, <1>5 DEF HostOK
<1>7. prun' \in [Pools -> Settings]
  <2>1. prun' = prun \/ prun' = Started(UsesOf(a.to))
    BY DEF RunnerBecomes
  <2>2. QED
    BY <2>1, SystemdTyped DEF HostOK
<1>8. QED
  BY <1>1, <1>5, <1>6, <1>7, SystemdTyped

\* A step of a pool action.
PoolStep ==
  \/ WritePool \/ EnablePool \/ ReloadPool \/ StopPool \/ StartPool \/ DisablePool
  \/ RemovePoolDropIns \/ RemovePoolData \/ UndoPool

\* How a step of a pool action can go on.
PoolOutcome ==
  \/ \E l \in PoolLocs : PoolGoto(l)
  \/ PoolDone \/ PoolFails \/ (Fail(cur, "Other") /\ AfterFailure)

\* Every step of a pool action goes on in one of these ways.
LEMMA PoolStepOutcome ==
  ASSUME PoolStep
  PROVE  /\ pc \in PoolLocs /\ PoolFrame /\ PoolOutcome
<1> USE DEF PoolLocs
<1>1. CASE WritePool
  <2>1. PoolFrame /\ pc = "write"
    BY <1>1 DEF WritePool
  <2>2. \/ PoolGoto("enable") \/ PoolDone \/ PoolGoto("reload") \/ PoolFails
    BY <1>1 DEF WritePool
  <2>3. QED
    BY <2>1, <2>2 DEF PoolOutcome
<1>2. CASE EnablePool
  BY <1>2 DEF EnablePool, PoolOutcome
<1>3. CASE ReloadPool
  BY <1>3 DEF ReloadPool, PoolOutcome
<1>4. CASE StopPool
  BY <1>4 DEF StopPool, PoolOutcome
<1>5. CASE StartPool
  BY <1>5 DEF StartPool, PoolOutcome
<1>6. CASE DisablePool
  BY <1>6 DEF DisablePool, PoolOutcome
<1>7. CASE RemovePoolDropIns
  BY <1>7 DEF RemovePoolDropIns, PoolOutcome
<1>8. CASE RemovePoolData
  BY <1>8 DEF RemovePoolData, PoolOutcome
<1>9. CASE UndoPool
  BY <1>9 DEF UndoPool, PoolOutcome
<1>10. QED
  BY <1>1, <1>2, <1>3, <1>4, <1>5, <1>6, <1>7, <1>8, <1>9 DEF PoolStep

\* The pool whose action is being executed.
LEMMA CurFacts ==
  ASSUME HostOK, PlanOK, pc \in PoolLocs
  PROVE  /\ cur \in planned \ queue /\ cur \in Actions /\ cur.op \in PoolOps
         /\ Pool \in Pools /\ Fits(cur, opts.only)
         /\ cur.op \in {"createPool", "updatePool"} =>
              Pool \in Referenced /\ cur.to = cfg.body[Pool] /\ cur.to \in Bodies
         /\ cur.op = "removePool" => Pool \notin Referenced
<1>1. cur \in planned \ queue /\ cur.op \in PoolOps /\ Fits(cur, opts.only)
  BY DEF PlanOK
<1>2. cur \in Actions /\ Pool \in Pools
  BY <1>1 DEF Fits, Pool
<1>3. cur.op \in {"createPool", "updatePool"} => Pool \in Referenced /\ cur.to = cfg.body[Pool]
  BY <1>1 DEF Fits, Pool
<1>4. cfg.body[Pool] \in Bodies
  BY <1>2 DEF HostOK, Configs
<1>5. cur.op = "removePool" => Pool \notin Referenced
  BY <1>1 DEF Fits, Pool
<1>6. QED
  BY <1>1, <1>2, <1>3, <1>4, <1>5

\* What a step of a pool action does to the process.
LEMMA PoolStepResult ==
  ASSUME HostOK, ResultTyped, PlanOK, PoolStep
  PROVE  /\ cfg' = cfg /\ opts' = opts /\ planned' = planned /\ queue' = queue /\ cur' = cur
         /\ pc' \in PoolLocs \cup {"loop", "failfast"}
         /\ ResultTyped' /\ (pc' = "failfast" => result'.failed # <<>>)
         /\ result'.failed = <<>> => result.failed = <<>>
         /\ \A r : FailedRunner(r) => FailedRunner(r)'
<1>1. pc \in PoolLocs /\ PoolFrame /\ PoolOutcome
  BY PoolStepOutcome
<1>2. cur \in Actions
  BY <1>1, CurFacts
<1>3. cfg' = cfg /\ opts' = opts /\ planned' = planned /\ queue' = queue /\ cur' = cur
  BY <1>1 DEF PoolFrame, call
<1>4. CASE result' = result /\ pc' \in PoolLocs
  <2>1. pc' # "failfast"
    BY <1>4 DEF PoolLocs
  <2>2. QED
    BY <1>2, <1>3, <1>4, <2>1, NoFailFacts
<1>5. CASE PoolDone
  <2>1. pc' = "loop" /\ Succeed(cur)
    BY <1>5 DEF PoolDone
  <2>2. QED
    BY <1>2, <1>3, <2>1, NoFailFacts
<1>6. CASE Fail(cur, "Other") /\ AfterFailure
  <2>1. pc' \in {"loop", "failfast"}
    BY <1>6 DEF AfterFailure
  <2>2. QED
    BY <1>2, <1>3, <1>6, <2>1, FailFacts
<1>7. QED
  <2>1. PoolFails => \/ result' = result /\ pc' \in PoolLocs
                     \/ Fail(cur, "Other") /\ AfterFailure
    BY DEF PoolFails, PoolLocs
  <2>2. (\E l \in PoolLocs : PoolGoto(l)) => result' = result /\ pc' \in PoolLocs
    BY DEF PoolGoto
  <2>3. QED
    BY <1>1, <1>4, <1>5, <1>6, <2>1, <2>2 DEF PoolOutcome

\* A step of a pool action leaves the files of the runners alone.
LEMMA PoolStepHost ==
  ASSUME HostOK, PlanOK, PoolProgress, PoolStep
  PROVE  /\ HostOK'
         /\ \A r \in Runners : /\ runner'[r].unit = runner[r].unit
                               /\ runner'[r].conf = runner[r].conf
<1>1. pc \in PoolLocs /\ cfg' = cfg
  BY PoolStepOutcome DEF PoolFrame
<1>2. Pool \in Pools
  BY <1>1, CurFacts
<1>3. pc = "write" => cur.to \in Settings
  BY <1>1, CurFacts DEF PoolProgress, Settings
<1>4. Loaded(runner) \in [Runners -> SUBSET Pools]
  BY SystemdTyped DEF HostOK
<1>5. None \in Settings
  BY DEF Settings
<1> HIDE DEF RunnerViews, Settings
<1>6. CASE WritePool
  <2>1. pdir' = pdir \cup {Pool} /\ prior' \in Settings /\ pdrop' \in [Pools -> Settings]
    BY <1>2, <1>3, <1>6 DEF WritePool, HostOK
  <2>2. UNCHANGED <<runner, needs, prun>>
    BY <1>6 DEF WritePool
  <2>3. QED
    BY <1>1, <1>2, <2>1, <2>2 DEF HostOK
<1>7. CASE EnablePool
  BY <1>1, <1>7 DEF EnablePool, HostOK
<1>8. CASE ReloadPool
  <2>1. needs' \in {needs, Loaded(runner)} /\ UNCHANGED <<runner, pdir, pdrop, prun, prior>>
    BY <1>8 DEF ReloadPool, host
  <2>2. QED
    BY <1>1, <1>4, <2>1 DEF HostOK
<1>9. CASE StopPool
  <2>1. \/ prun' = [prun EXCEPT ![Pool] = None] /\ runner' = WithoutPool(Pool)
        \/ prun' = prun /\ runner' = runner
    BY <1>9 DEF StopPool
  <2>2. UNCHANGED <<needs, pdir, pdrop, prior>>
    BY <1>9 DEF StopPool
  <2>3. /\ runner' \in [Runners -> RunnerViews]
        /\ \A r \in Runners : runner'[r].unit = runner[r].unit /\ runner'[r].conf = runner[r].conf
    BY <2>1, SystemdTyped DEF HostOK
  <2>4. prun' \in [Pools -> Settings]
    BY <1>5, <2>1 DEF HostOK
  <2>5. QED
    BY <1>1, <2>2, <2>3, <2>4 DEF HostOK
<1>10. CASE StartPool
  <2>1. prun' \in {prun, Started({Pool})} /\ UNCHANGED <<runner, needs, pdir, pdrop, prior>>
    BY <1>10 DEF StartPool
  <2>2. prun' \in [Pools -> Settings]
    BY <2>1, SystemdTyped DEF HostOK
  <2>3. QED
    BY <1>1, <2>1, <2>2 DEF HostOK
<1>11. CASE DisablePool
  BY <1>1, <1>11 DEF DisablePool, HostOK
<1>12. CASE RemovePoolDropIns
  <2>1. /\ pdir' \in {pdir, pdir \ {Pool}} /\ pdrop' \in {pdrop, [pdrop EXCEPT ![Pool] = None]}
        /\ UNCHANGED <<runner, needs, prun, prior>>
    BY <1>12 DEF RemovePoolDropIns
  <2>2. QED
    BY <1>1, <1>2, <1>5, <2>1 DEF HostOK
<1>13. CASE RemovePoolData
  BY <1>1, <1>13 DEF RemovePoolData, HostOK
<1>14. CASE UndoPool
  <2>1. /\ prun' \in {prun, [prun EXCEPT ![Pool] = None]}
        /\ runner' \in {runner, WithoutPool(Pool)}
        /\ pdrop' \in {pdrop, [pdrop EXCEPT ![Pool] = prior]}
        /\ pdir' \in {pdir, pdir \ {Pool}}
        /\ UNCHANGED <<needs, prior>>
    BY <1>14 DEF UndoPool
  <2>2. /\ runner' \in [Runners -> RunnerViews]
        /\ \A r \in Runners : runner'[r].unit = runner[r].unit /\ runner'[r].conf = runner[r].conf
    BY <2>1, SystemdTyped DEF HostOK
  <2>3. /\ prun' \in [Pools -> Settings] /\ pdrop' \in [Pools -> Settings]
        /\ pdir' \subseteq Pools
    BY <1>2, <1>5, <2>1 DEF HostOK
  <2>4. QED
    BY <1>1, <2>1, <2>2, <2>3 DEF HostOK
<1>15. QED
  BY <1>6, <1>7, <1>8, <1>9, <1>10, <1>11, <1>12, <1>13, <1>14 DEF PoolStep

\* A pool action touches one pool, and leaves it as planned when it succeeds.
LEMMA PoolStepPool ==
  ASSUME HostOK, ResultTyped, PlanOK, PoolProgress, PoolStep
  PROVE  /\ PoolProgress'
         /\ \A p \in Pools \ {Pool} : /\ p \in pdir' <=> p \in pdir
                                      /\ pdrop'[p] = pdrop[p]
                                      /\ p \in pdata' <=> p \in pdata
         /\ pc' = "loop" /\ result'.failed = <<>> =>
              IF cur.op = "removePool" THEN Pool \notin pdir' \cup pdata'
                                       ELSE Pool \in pdir' /\ pdrop'[Pool] = cur.to
<1>1. pc \in PoolLocs /\ cur' = cur /\ Pool' = Pool
  BY PoolStepOutcome DEF PoolFrame, Pool
<1>2. Pool \in Pools /\ cur \in Actions /\ cur.op \in {"createPool", "updatePool", "removePool"}
  BY <1>1, CurFacts DEF PoolOps
<1>3. pdrop \in [Pools -> Settings]
  BY DEF HostOK
<1>4. PoolFails => pc' = "undo" \/ (result'.failed # <<>> /\ pc' \in {"loop", "failfast"})
  BY <1>2, FailFacts DEF PoolFails, AfterFailure
<1>5. ASSUME PoolFails
      PROVE  PoolProgress' /\ ~ (pc' = "loop" /\ result'.failed = <<>>)
  <2>1. pc' \in {"undo", "loop", "failfast"}
    BY <1>4, <1>5
  <2>2. PoolProgress'
    BY <2>1 DEF PoolProgress
  <2>3. QED
    BY <1>4, <1>5, <2>2
<1>6. CASE WritePool
  <2>1. pc = "write" /\ cur.op \in {"createPool", "updatePool"}
    BY <1>6 DEF WritePool, PoolProgress
  <2>2. /\ pdir' = pdir \cup {Pool} /\ pdata' = pdata
        /\ pdrop' \in {pdrop, [pdrop EXCEPT ![Pool] = cur.to]}
    BY <1>6 DEF WritePool
  <2>3. PoolFails \/ /\ pdrop' = [pdrop EXCEPT ![Pool] = cur.to]
                     /\ pc' \in {"enable", "reload", "loop"}
    BY <1>6 DEF WritePool, PoolGoto, PoolDone
  <2>4. ASSUME ~ PoolFails PROVE PoolProgress' /\ Pool \in pdir' /\ pdrop'[Pool] = cur.to
    <3>1. Pool \in pdir' /\ pdrop'[Pool] = cur.to
      BY <1>2, <1>3, <2>2, <2>3, <2>4
    <3>2. QED
      BY <1>1, <2>1, <2>3, <2>4, <3>1 DEF PoolProgress
  <2>5. \A p \in Pools \ {Pool} : (p \in pdir' <=> p \in pdir) /\ pdrop'[p] = pdrop[p]
    BY <1>2, <1>3, <2>2
  <2>6. QED
    BY <1>5, <2>1, <2>2, <2>4, <2>5
<1>7. CASE EnablePool
  <2>1. pc = "enable" /\ UNCHANGED <<pdir, pdrop, pdata>> /\ (PoolFails \/ pc' = "reload")
    BY <1>7 DEF EnablePool, PoolGoto
  <2>2. pc' = "reload" => PoolProgress'
    BY <1>1, <2>1 DEF PoolProgress
  <2>3. QED
    BY <1>5, <2>1, <2>2
<1>8. CASE ReloadPool
  <2>1. /\ pc = "reload" /\ UNCHANGED <<pdir, pdrop, pdata>>
        /\ PoolFails \/ pc' = IF cur.op = "createPool" THEN "start" ELSE "stop"
    BY <1>8 DEF ReloadPool, PoolGoto, host
  <2>2. pc' = (IF cur.op = "createPool" THEN "start" ELSE "stop") => PoolProgress'
    BY <1>1, <1>2, <2>1 DEF PoolProgress
  <2>3. QED
    BY <1>5, <2>1, <2>2
<1>9. CASE StopPool
  <2>1. /\ pc = "stop" /\ UNCHANGED <<pdir, pdrop, pdata>>
        /\ PoolFails \/ pc' = IF cur.op = "updatePool" THEN "start" ELSE "disable"
    BY <1>9 DEF StopPool, PoolGoto
  <2>2. pc' = (IF cur.op = "updatePool" THEN "start" ELSE "disable") => PoolProgress'
    BY <1>1, <1>2, <2>1 DEF PoolProgress
  <2>3. QED
    BY <1>5, <2>1, <2>2
<1>10. CASE StartPool
  <2>1. /\ pc = "start" /\ UNCHANGED <<pdir, pdrop>> /\ pdata' \in {pdata, pdata \cup {Pool}}
        /\ PoolFails \/ pc' = "loop"
    BY <1>10 DEF StartPool, PoolDone
  <2>2. pc' = "loop" => PoolProgress'
    BY DEF PoolProgress
  <2>3. cur.op # "removePool" /\ Pool \in pdir /\ pdrop[Pool] = cur.to
    BY <2>1 DEF PoolProgress
  <2>4. QED
    BY <1>5, <2>1, <2>2, <2>3
<1>11. CASE DisablePool
  <2>1. pc = "disable" /\ UNCHANGED <<pdir, pdrop, pdata>> /\ (PoolFails \/ pc' = "rmdropins")
    BY <1>11 DEF DisablePool, PoolGoto
  <2>2. pc' = "rmdropins" => PoolProgress'
    BY <1>1, <2>1 DEF PoolProgress
  <2>3. QED
    BY <1>5, <2>1, <2>2
<1>12. CASE RemovePoolDropIns
  <2>1. /\ pc = "rmdropins" /\ pdata' = pdata
        /\ pdrop' \in {pdrop, [pdrop EXCEPT ![Pool] = None]}
        /\ \/ PoolFails /\ pdir' = pdir
           \/ pc' = "rmdata" /\ pdir' = pdir \ {Pool}
    BY <1>12 DEF RemovePoolDropIns, PoolGoto
  <2>2. pc' = "rmdata" /\ pdir' = pdir \ {Pool} => PoolProgress'
    BY <1>1, <2>1 DEF PoolProgress
  <2>3. \A p \in Pools \ {Pool} : (p \in pdir' <=> p \in pdir) /\ pdrop'[p] = pdrop[p]
    BY <1>2, <1>3, <2>1
  <2>4. QED
    BY <1>5, <2>1, <2>2, <2>3
<1>13. CASE RemovePoolData
  <2>1. /\ pc = "rmdata" /\ UNCHANGED <<pdir, pdrop>>
        /\ \/ PoolFails /\ pdata' = pdata
           \/ pc' = "loop" /\ pdata' = pdata \ {Pool}
    BY <1>13 DEF RemovePoolData, PoolDone
  <2>2. pc' = "loop" => PoolProgress'
    BY DEF PoolProgress
  <2>3. cur.op = "removePool" /\ Pool \notin pdir
    BY <2>1 DEF PoolProgress
  <2>4. QED
    BY <1>5, <2>1, <2>2, <2>3
<1>14. CASE UndoPool
  <2>1. /\ pdata' = pdata /\ pdir' \in {pdir, pdir \ {Pool}}
        /\ pdrop' \in {pdrop, [pdrop EXCEPT ![Pool] = prior]}
        /\ Fail(cur, "Other") /\ pc' \in {"loop", "failfast"}
    BY <1>14 DEF UndoPool, AfterFailure
  <2>2. result'.failed # <<>>
    BY <1>2, <2>1, FailFacts
  <2>3. PoolProgress'
    BY <2>1 DEF PoolProgress
  <2>4. \A p \in Pools \ {Pool} : (p \in pdir' <=> p \in pdir) /\ pdrop'[p] = pdrop[p]
    BY <1>2, <1>3, <2>1
  <2>5. QED
    BY <2>1, <2>2, <2>3, <2>4
<1>15. QED
  BY <1>6, <1>7, <1>8, <1>9, <1>10, <1>11, <1>12, <1>13, <1>14 DEF PoolStep

-----------------------------------------------------------------------------
(* The invariant, action by action                                         *)

\* --only stays what it is during an apply.
LEMMA SameOptions ==
  ASSUME opts' = opts
  PROVE  /\ \A r : Filtered(r)' <=> Filtered(r)
         /\ \A p : FilteredPool(p)' <=> FilteredPool(p)
BY DEF Filtered, FilteredPool

\* The resource of an action that fits.
LEMMA ResourceOf ==
  ASSUME NEW a, NEW only, Fits(a, only)
  PROVE  /\ a.op \in RunnerOps => Resource(a) = <<"runner", a.name>>
         /\ a.op \in PoolOps => Resource(a) = <<"pool", a.name>>
BY DEF Fits, Resource, RunnerOps, PoolOps

\* A runner whose action succeeded is as planned.
LEMMA DoneRunner ==
  ASSUME Inv, pc \in {"loop"} \cup PoolLocs, result.failed = <<>>,
         NEW a \in planned \ queue, a.op \in {"create", "inplace", "recreate"}
  PROVE  /\ a.name \in Runners /\ runner[a.name].unit /\ runner[a.name].conf = a.to
         /\ UsesOf(a.to) \subseteq Referenced
<1>1. Fits(a, opts.only) /\ a.op \in RunnerOps
  BY DEF Inv, PlanOK, RunnerOps
<1>2. a.name \in Runners /\ cfg.own[a.name] # None /\ a.to = Effective(a.name)
  BY <1>1 DEF Fits
<1>3. ~ RunnerIn(a.name, queue)
  <2> SUFFICES ASSUME NEW b \in queue, b.op \in RunnerOps, b.name = a.name
               PROVE  FALSE
    BY DEF RunnerIn
  <2>1. b \in planned
    BY DEF Inv, PlanOK
  <2>2. Fits(b, opts.only)
    BY <2>1 DEF Inv, PlanOK
  <2>3. Resource(a) = Resource(b)
    BY <1>1, <2>2, ResourceOf
  <2>4. QED
    BY <2>1, <2>3 DEF Inv, PlanOK
<1>4. ~ FailedRunner(a.name)
  BY DEF FailedRunner
<1>5. Live /\ ~ Filtered(a.name)
  <2>1. Resource(a) = <<"runner", a.name>>
    BY <1>1, ResourceOf
  <2>2. QED
    BY <1>1, <2>1 DEF Fits, Live, Filtered
<1>6. Reached(a.name)
  BY <1>2, <1>3, <1>4, <1>5 DEF Inv, RunnersReached
<1>7. UsesOf(a.to) \subseteq Referenced
  BY <1>2, EffectiveFacts DEF Inv
<1>8. QED
  BY <1>2, <1>6, <1>7 DEF Reached

\* A reload finds what the successful actions wrote.
LEMMA LoadedDone ==
  ASSUME Inv, pc \in {"loop"} \cup PoolLocs, result.failed = <<>>,
         NEW a \in planned \ queue, a.op \in {"create", "inplace", "recreate"}
  PROVE  Loaded(runner)[a.name] = UsesOf(a.to)
BY DoneRunner DEF Loaded

\* No step of a pool action takes down a runner that this apply has started.
LEMMA PoolStepRuns ==
  ASSUME Inv, PoolStep
  PROVE  RunnersRun'
<1>1. /\ cfg' = cfg /\ opts' = opts /\ planned' = planned /\ queue' = queue /\ cur' = cur
      /\ result'.failed = <<>> => result.failed = <<>>
  BY PoolStepResult DEF Inv, ResultOK
<1>2. pc \in PoolLocs /\ left' = left
  BY PoolStepOutcome DEF PoolFrame, call
<1> SUFFICES ASSUME result'.failed = <<>>, ~ opts.noRestart,
                    NEW a \in planned \ queue, a.op \in {"create", "inplace", "recreate"}
             PROVE  runner'[a.name] = runner[a.name] /\ needs'[a.name] = UsesOf(a.to)
  <2>1. Live
    BY <1>2 DEF Live
  <2>2. QED
    BY <1>1, <1>2, <2>1 DEF Inv, RunnersRun
<1>3. result.failed = <<>> /\ Live
  BY <1>1, <1>2 DEF Live
<1>4. needs[a.name] = UsesOf(a.to)
  BY <1>3 DEF Inv, RunnersRun
<1>5. a.name \in Runners /\ UsesOf(a.to) \subseteq Referenced
  BY <1>2, <1>3, DoneRunner
<1>6. Loaded(runner)[a.name] = UsesOf(a.to)
  BY <1>2, <1>3, LoadedDone
<1>7. CASE StopPool
  <2>1. needs' = needs /\ pc = "stop" /\ (runner' = runner \/ runner' = WithoutPool(Pool))
    BY <1>7 DEF StopPool
  <2>2. Pool \notin needs[a.name]
    <3>1. CASE cur.op = "updatePool"
      <4>1. Phase(a.op) <= Phase(cur.op)
        BY <1>2 DEF Inv, InOrder
      <4>2. Phase(a.op) \in 3..6 /\ Phase(cur.op) \in 1..2
        BY <3>1, PhaseBounds DEF RunnerOps
      <4>3. QED
        BY <4>1, <4>2
    <3>2. CASE cur.op = "removePool"
      <4>1. Pool \notin Referenced
        BY <1>2, <3>2, CurFacts DEF Inv
      <4>2. QED
        BY <1>4, <1>5, <4>1
    <3>3. QED
      BY <2>1, <3>1, <3>2 DEF Inv, PoolProgress
  <2>3. QED
    BY <1>4, <1>5, <2>1, <2>2, SystemdTyped DEF Inv
<1>8. CASE ReloadPool
  BY <1>4, <1>6, <1>8 DEF ReloadPool
<1>9. CASE UndoPool
  <2>1. Fail(cur, "Other")
    BY <1>9 DEF UndoPool
  <2>2. cur \in Actions
    BY <1>2, CurFacts DEF Inv
  <2>3. result'.failed # <<>>
    BY <2>1, <2>2, FailFacts DEF Inv, ResultOK
  <2>4. QED
    BY <2>3
<1>10. CASE \/ WritePool \/ EnablePool \/ StartPool \/ DisablePool \/ RemovePoolDropIns
            \/ RemovePoolData
  <2>1. runner' = runner /\ needs' = needs
    BY <1>10 DEF WritePool, EnablePool, StartPool, DisablePool, RemovePoolDropIns, RemovePoolData
  <2>2. QED
    BY <1>4, <2>1
<1>11. QED
  BY <1>7, <1>8, <1>9, <1>10 DEF PoolStep

\* Steps of pool actions keep the invariant.
LEMMA PoolStepInv ==
  ASSUME Inv, PoolStep
  PROVE  Inv'
<1>1. pc \in PoolLocs
  BY PoolStepOutcome
<1>2. /\ cfg' = cfg /\ opts' = opts /\ planned' = planned /\ queue' = queue /\ cur' = cur
      /\ pc' \in PoolLocs \cup {"loop", "failfast"}
      /\ ResultTyped' /\ (pc' = "failfast" => result'.failed # <<>>)
      /\ result'.failed = <<>> => result.failed = <<>>
      /\ \A r : FailedRunner(r) => FailedRunner(r)'
  BY PoolStepResult DEF Inv, ResultOK
<1>3. pc' \notin {"idle", "reconcile", "stopped", "exit"} /\ Live
  BY <1>1, <1>2 DEF PoolLocs, Live
<1>4. /\ PoolProgress'
      /\ \A p \in Pools \ {Pool} : /\ p \in pdir' <=> p \in pdir
                                   /\ pdrop'[p] = pdrop[p]
                                   /\ p \in pdata' <=> p \in pdata
      /\ pc' = "loop" /\ result'.failed = <<>> =>
           IF cur.op = "removePool" THEN Pool \notin pdir' \cup pdata'
                                    ELSE Pool \in pdir' /\ pdrop'[Pool] = cur.to
  BY PoolStepPool DEF Inv, ResultOK
<1>5. /\ HostOK'
      /\ \A r \in Runners : /\ runner'[r].unit = runner[r].unit
                            /\ runner'[r].conf = runner[r].conf
  BY PoolStepHost DEF Inv
<1>6. ResultOK'
  BY <1>2, <1>3 DEF ResultOK
<1>7. PlanOK'
  <2>1. \A a \in planned' : Fits(a, opts.only)'
    BY <1>2, SameConfig DEF Inv, PlanOK
  <2>2. QED
    BY <1>1, <1>2, <1>3, <2>1 DEF Inv, PlanOK
<1>8. InOrder'
  BY <1>1, <1>2 DEF Inv, InOrder
<1>9. RunnersReached'
  <2>1. ASSUME NEW r \in Runners
        PROVE  (Filtered(r) \/ FailedRunner(r) \/ Reached(r) \/ RunnerIn(r, queue))'
    <3>1. Filtered(r) \/ FailedRunner(r) \/ Reached(r) \/ RunnerIn(r, queue)
      BY <1>3 DEF Inv, RunnersReached
    <3>2. (Filtered(r)' <=> Filtered(r)) /\ (Reached(r)' <=> Reached(r))
      BY <1>2, <1>5, SameOptions, SameReached
    <3>3. RunnerIn(r, queue)' <=> RunnerIn(r, queue)
      BY <1>2 DEF RunnerIn
    <3>4. QED
      BY <1>2, <3>1, <3>2, <3>3
  <2>2. QED
    BY <2>1 DEF RunnersReached
<1>10. PoolsReached'
  <2> SUFFICES ASSUME Live', result'.failed = <<>>, NEW p \in Pools
               PROVE  \/ FilteredPool(p)' \/ PoolReached(p)' \/ PoolIn(p, queue')
                      \/ (pc' \in PoolLocs /\ Pool' = p)
    BY DEF PoolsReached, PoolIn
  <2>1. Pool' = Pool
    BY <1>2 DEF Pool
  <2>2. CASE p = Pool
    <3>1. CASE pc' = "loop"
      <4>1. PoolReached(Pool)'
        BY <1>1, <1>2, <1>4, <3>1, <2>1, CurFacts, SameConfig DEF Inv, PoolReached, PoolOps
      <4>2. QED
        BY <2>1, <2>2, <4>1
    <3>2. CASE pc' # "loop"
      BY <1>2, <2>1, <2>2, <3>2 DEF Live
    <3>3. QED
      BY <3>1, <3>2
  <2>3. CASE p # Pool
    <3>1. FilteredPool(p) \/ PoolReached(p) \/ PoolIn(p, queue)
      BY <1>2, <1>3, <2>3 DEF Inv, PoolsReached
    <3>2. PoolReached(p)' <=> PoolReached(p)
      BY <1>2, <1>4, <2>3, SamePoolReached
    <3>3. QED
      BY <1>2, <3>1, <3>2, SameOptions
  <2>4. QED
    BY <2>2, <2>3
<1>11. StorageGone'
  <2> SUFFICES ASSUME Live', result'.failed = <<>>, NEW a \in planned \ queue,
                      a.op = "removePool", ~ (pc' \in PoolLocs /\ cur = a)
               PROVE  a.name \notin pdata'
    BY <1>2 DEF StorageGone
  <2>1. CASE a = cur
    <3>1. pc' = "loop"
      BY <1>2, <2>1 DEF Live
    <3>2. QED
      BY <1>4, <2>1, <3>1 DEF Pool
  <2>2. CASE a # cur
    <3>1. a.name \notin pdata
      BY <1>2, <1>3, <2>2 DEF Inv, StorageGone
    <3>2. a \in planned /\ Fits(a, opts.only) /\ a.op \in PoolOps
      BY DEF Inv, PlanOK, PoolOps
    <3>3. a.name \in Pools
      BY <3>2 DEF Fits
    <3>4. cur \in planned /\ Fits(cur, opts.only) /\ cur.op \in PoolOps
      BY <1>1, CurFacts DEF Inv
    <3>5. a.name # Pool
      <4>1. Resource(a) # Resource(cur)
        BY <2>2, <3>2, <3>4 DEF Inv, PlanOK
      <4>2. QED
        BY <3>2, <3>4, <4>1, ResourceOf DEF Pool
    <3>6. QED
      BY <1>4, <3>1, <3>3, <3>5
  <2>3. QED
    BY <2>1, <2>2
<1>12. QED
  BY <1>4, <1>5, <1>6, <1>7, <1>8, <1>9, <1>10, <1>11, PoolStepRuns DEF Inv

\* A runner action that returned Ok.
RunnerOk(a) ==
  /\ pc' = pc /\ result'.failed = result.failed
  /\ runner'[a.name] \in Completed(a.op, runner[a.name], a.to)
  /\ left' = [r \in Runners |-> IF r = a.name THEN runner'[a.name].run ELSE left[r]]
  /\ a.op # "remove" /\ ~ opts.noRestart => needs' = Loaded(runner')
  /\ a.op = "remove" => needs' = needs

\* A runner action that returned Err.
RunnerErr(a) ==
  /\ pc' \in {"loop", "failfast"} /\ result'.failed # <<>> /\ FailedRunner(a.name)'

\* What a runner action does.
LEMMA RunnerActionFacts ==
  ASSUME HostOK, ResultTyped, PlanOK, RunnerAction
  PROVE  /\ pc = "loop" /\ cfg' = cfg /\ opts' = opts /\ planned' = planned /\ cur' = cur
         /\ pdir' = pdir /\ pdrop' = pdrop
         /\ HostOK' /\ ResultTyped' /\ \A r : FailedRunner(r) => FailedRunner(r)'
         /\ \E a \in queue :
              /\ IsHead(a) /\ a.op \in RunnerOps /\ a.name \in Runners /\ queue' = queue \ {a}
              /\ \A r \in Runners \ {a.name} : runner'[r] = runner[r]
              /\ RunnerOk(a) \/ RunnerErr(a)
<1>1. /\ pc = "loop" /\ cfg' = cfg /\ opts' = opts /\ planned' = planned /\ cur' = cur
      /\ pdir' = pdir /\ pdrop' = pdrop /\ prior' = prior
  BY DEF RunnerAction
<1>2. PICK a \in queue : /\ IsHead(a) /\ a.op \in RunnerOps /\ queue' = queue \ {a}
                         /\ RunnerSucceeds(a) \/ RunnerFails(a)
  BY DEF RunnerAction
<1>3. Fits(a, opts.only) /\ a \in Actions /\ a.name \in Runners
  BY <1>2 DEF PlanOK, Fits
<1>4. Resource(a) = <<"runner", a.name>>
  BY <1>2, <1>3, ResourceOf
<1>5. ASSUME NEW w \in Outcomes(a),
             RunnerBecomes(a.name, w, a.to),
             needs' \in {needs, Loaded([runner EXCEPT ![a.name] = w])}
      PROVE  /\ HostOK' /\ runner'[a.name] = w /\ runner' = [runner EXCEPT ![a.name] = w]
             /\ \A r \in Runners \ {a.name} : runner'[r] = runner[r]
  <2>1. /\ runner' = [runner EXCEPT ![a.name] = w] /\ runner' \in [Runners -> RunnerViews]
        /\ prun' \in [Pools -> Settings] /\ Loaded(runner') \in [Runners -> SUBSET Pools]
    BY <1>2, <1>3, <1>5, RunnerEffect
  <2>2. needs' \in [Runners -> SUBSET Pools]
    BY <1>5, <2>1 DEF HostOK
  <2>3. HostOK'
    BY <1>1, <2>1, <2>2 DEF HostOK
  <2>4. runner'[a.name] = w /\ \A r \in Runners \ {a.name} : runner'[r] = runner[r]
    BY <1>3, <2>1 DEF HostOK
  <2>5. QED
    BY <2>1, <2>3, <2>4
<1>6. CASE RunnerSucceeds(a)
  <2>1. PICK w \in Completed(a.op, runner[a.name], a.to) :
          /\ RunnerBecomes(a.name, w, a.to)
          /\ a.op # "remove" /\ ~ opts.noRestart =>
               needs' = Loaded([runner EXCEPT ![a.name] = w])
          /\ a.op = "remove" => needs' = needs
          /\ needs' \in {needs, Loaded([runner EXCEPT ![a.name] = w])}
          /\ left' = [r \in Runners |-> IF r = a.name THEN w.run ELSE left[r]]
    BY <1>6 DEF RunnerSucceeds
  <2>2. /\ HostOK' /\ runner'[a.name] = w /\ runner' = [runner EXCEPT ![a.name] = w]
        /\ \A r \in Runners \ {a.name} : runner'[r] = runner[r]
    BY <1>5, <2>1 DEF Outcomes
  <2>3. Succeed(a) /\ pc' = pc
    BY <1>6 DEF RunnerSucceeds
  <2>4. ResultTyped' /\ result'.failed = result.failed /\ \A r : FailedRunner(r) => FailedRunner(r)'
    BY <1>3, <2>3, NoFailFacts
  <2>5. RunnerOk(a)
    BY <2>1, <2>2, <2>3, <2>4 DEF RunnerOk
  <2>6. QED
    BY <1>1, <1>2, <1>3, <2>2, <2>4, <2>5
<1>7. CASE RunnerFails(a)
  <2>1. PICK w \in Outcomes(a) :
          /\ RunnerBecomes(a.name, w, a.to)
          /\ needs' \in {needs, Loaded([runner EXCEPT ![a.name] = w])}
    BY <1>7 DEF RunnerFails, Outcomes
  <2>2. HostOK' /\ \A r \in Runners \ {a.name} : runner'[r] = runner[r]
    BY <1>5, <2>1
  <2>3. PICK cause \in {"Other", "Auth"} : Fail(a, cause)
    BY <1>7 DEF RunnerFails
  <2>4. pc' \in {"loop", "failfast"}
    BY <1>7 DEF RunnerFails, AfterFailure
  <2>5. /\ ResultTyped' /\ result'.failed # <<>> /\ FailedRunner(a.name)'
        /\ \A r : FailedRunner(r) => FailedRunner(r)'
    BY <1>3, <1>4, <2>3, FailFacts
  <2>6. RunnerErr(a)
    BY <2>4, <2>5 DEF RunnerErr
  <2>7. QED
    BY <1>1, <1>2, <1>3, <2>2, <2>5, <2>6
<1>8. QED
  BY <1>2, <1>6, <1>7

\* What a runner action that returned Ok leaves.
LEMMA RunnerOkFacts ==
  ASSUME NEW a, a.op \in RunnerOps, RunnerOk(a)
  PROVE  /\ a.op \in {"create", "inplace", "recreate"} =>
              runner'[a.name].unit /\ runner'[a.name].conf = a.to
         /\ a.op = "remove" => ~ runner'[a.name].unit
<1>1. PICK w : w = runner'[a.name]
  OBVIOUS
<1>2. PICK v, op, new : v = runner[a.name] /\ op = a.op /\ new = a.to
  OBVIOUS
<1>3. op \in RunnerOps /\ w \in Completed(op, v, new)
  BY <1>1, <1>2 DEF RunnerOk
<1>4. /\ op \in {"create", "inplace", "recreate"} => w.unit /\ w.conf = new
      /\ op = "remove" => ~ w.unit
  BY <1>3, CompletedFacts
<1>5. QED
  BY <1>1, <1>2, <1>4

\* What the head of the queue tells about what was executed.
LEMMA HeadInOrder ==
  ASSUME HostOK, PlanOK, InOrder, NEW a, IsHead(a)
  PROVE  /\ a \in planned /\ Fits(a, opts.only)
         /\ \A b \in queue : Phase(a.op) <= Phase(b.op)
         /\ \A b \in planned \ queue : Phase(b.op) <= Phase(a.op)
         /\ \A c \in planned \ (queue \ {a}), b \in queue \ {a} : Phase(c.op) <= Phase(b.op)
<1>1. a \in planned /\ Fits(a, opts.only)
  BY DEF IsHead, PlanOK
<1>2. \A b \in planned : Phase(b.op) \in 1..8
  <2>1. ASSUME NEW b \in planned PROVE b.op \in RunnerOps \cup PoolOps \cup {"noop"}
    BY DEF PlanOK, Fits, Actions
  <2>2. QED
    BY <2>1, PhaseBounds
<1>3. \A b \in queue : Phase(a.op) <= Phase(b.op)
  BY <1>1, <1>2 DEF IsHead, Before, PlanOK
<1>4. QED
  BY <1>1, <1>3 DEF InOrder, IsHead

\* Runner actions keep the invariant.
LEMMA RunnerActionInv ==
  ASSUME Inv, RunnerAction
  PROVE  Inv'
<1>1. /\ pc = "loop" /\ cfg' = cfg /\ opts' = opts /\ planned' = planned /\ cur' = cur
      /\ pdir' = pdir /\ pdrop' = pdrop
      /\ HostOK' /\ ResultTyped' /\ \A r : FailedRunner(r) => FailedRunner(r)'
  BY RunnerActionFacts DEF Inv, ResultOK
<1>2. PICK a \in queue :
        /\ IsHead(a) /\ a.op \in RunnerOps /\ a.name \in Runners /\ queue' = queue \ {a}
        /\ \A r \in Runners \ {a.name} : runner'[r] = runner[r]
        /\ RunnerOk(a) \/ RunnerErr(a)
  BY RunnerActionFacts DEF Inv, ResultOK
<1>3. /\ a \in planned /\ Fits(a, opts.only)
      /\ \A b \in planned \ queue : Phase(b.op) <= Phase(a.op)
      /\ \A c \in planned \ (queue \ {a}), b \in queue \ {a} : Phase(c.op) <= Phase(b.op)
  BY <1>2, HeadInOrder DEF Inv
<1>4. /\ pc' \in {"loop", "failfast"} /\ (pc' = "failfast" => result'.failed # <<>>)
      /\ result'.failed = <<>> => RunnerOk(a) /\ result.failed = <<>>
  BY <1>1, <1>2 DEF RunnerOk, RunnerErr
<1>5. pc' \notin PoolLocs /\ pc' \notin {"idle", "reconcile", "stopped", "exit"}
  BY <1>4 DEF PoolLocs
<1>6. Live
  BY <1>1 DEF Live
<1>7. a.op \notin PoolOps
  BY <1>2 DEF RunnerOps, PoolOps
<1>8. ResultOK'
  BY <1>1, <1>4, <1>5 DEF ResultOK
<1>9. PlanOK'
  <2>1. \A b \in planned' : Fits(b, opts.only)'
    BY <1>1, SameConfig DEF Inv, PlanOK
  <2>2. QED
    BY <1>1, <1>2, <1>5, <2>1 DEF Inv, PlanOK
<1>10. InOrder'
  BY <1>1, <1>2, <1>3, <1>5 DEF InOrder
<1>11. PoolProgress'
  BY <1>4 DEF PoolProgress
<1>12. RunnersReached'
  <2>1. ASSUME NEW r \in Runners
        PROVE  Filtered(r)' \/ FailedRunner(r)' \/ Reached(r)' \/ RunnerIn(r, queue')
    <3>1. CASE r = a.name
      <4>1. CASE RunnerErr(a)
        BY <3>1, <4>1 DEF RunnerErr
      <4>2. CASE RunnerOk(a)
        <5>1. /\ a.op \in {"create", "inplace", "recreate"} =>
                   runner'[r].unit /\ runner'[r].conf = a.to
              /\ a.op = "remove" => ~ runner'[r].unit
          BY <1>2, <3>1, <4>2, RunnerOkFacts
        <5>2. /\ a.op \in {"create", "inplace", "recreate"} =>
                   cfg.own[r] # None /\ a.to = Effective(r)
              /\ a.op = "remove" => cfg.own[r] = None
          BY <1>3, <3>1 DEF Fits
        <5>3. Reached(r)'
          BY <1>1, <1>2, <5>1, <5>2, SameConfig DEF Reached, RunnerOps
        <5>4. QED
          BY <5>3
      <4>3. QED
        BY <1>2, <4>1, <4>2
    <3>2. CASE r # a.name
      <4>1. Filtered(r) \/ FailedRunner(r) \/ Reached(r) \/ RunnerIn(r, queue)
        BY <1>6 DEF Inv, RunnersReached
      <4>2. RunnerIn(r, queue) => RunnerIn(r, queue')
        BY <1>2, <3>2 DEF RunnerIn
      <4>3. runner'[r] = runner[r]
        BY <1>2, <3>2
      <4>4. (Filtered(r)' <=> Filtered(r)) /\ (Reached(r)' <=> Reached(r))
        BY <1>1, <4>3, SameOptions, SameReached
      <4>5. QED
        BY <1>1, <4>1, <4>2, <4>4
    <3>3. QED
      BY <3>1, <3>2
  <2>2. QED
    BY <2>1 DEF RunnersReached, RunnerIn
<1>13. PoolsReached'
  <2> SUFFICES ASSUME result'.failed = <<>>, NEW p \in Pools
               PROVE  FilteredPool(p)' \/ PoolReached(p)' \/ PoolIn(p, queue')
    BY DEF PoolsReached, PoolIn
  <2>1. FilteredPool(p) \/ PoolReached(p) \/ PoolIn(p, queue)
    BY <1>1, <1>4, <1>6 DEF Inv, PoolsReached, PoolLocs
  <2>2. PoolIn(p, queue) => PoolIn(p, queue')
    BY <1>2, <1>7 DEF PoolIn
  <2>3. PoolReached(p)' <=> PoolReached(p)
    BY <1>1, SamePoolReached
  <2>4. QED
    BY <1>1, <2>1, <2>2, <2>3, SameOptions
<1>14. StorageGone'
  <2>1. \A b \in planned' \ queue' : b.op # "removePool"
    <3> SUFFICES ASSUME NEW b \in planned' \ queue', b.op = "removePool" PROVE FALSE
      OBVIOUS
    <3>1. a.op # "removePool"
      BY <1>7 DEF PoolOps
    <3>2. b \in planned \ queue
      BY <1>1, <1>2, <3>1
    <3>3. Phase(b.op) <= Phase(a.op)
      BY <1>3, <3>2
    <3>4. Phase(b.op) = 7 /\ Phase(a.op) \in 3..6
      BY <1>2, PhaseBounds
    <3>5. QED
      BY <3>3, <3>4
  <2>2. QED
    BY <2>1 DEF StorageGone
<1>15. RunnersRun'
  <2> SUFFICES ASSUME result'.failed = <<>>, ~ opts.noRestart,
                      NEW b \in planned \ (queue \ {a}), b.op \in {"create", "inplace", "recreate"}
               PROVE  /\ left'[b.name] # None => runner'[b.name].run = left'[b.name]
                      /\ needs'[b.name] = UsesOf(b.to)
    BY <1>1, <1>2 DEF RunnersRun
  <2>1. RunnerOk(a) /\ result.failed = <<>>
    BY <1>4
  <2>2. Fits(b, opts.only) /\ b.op \in RunnerOps /\ b \in planned
    BY DEF Inv, PlanOK, RunnerOps
  <2>3. CASE b = a
    <3>1. runner'[a.name].unit /\ runner'[a.name].conf = a.to
      BY <1>2, <2>1, <2>3, RunnerOkFacts
    <3>2. needs'[a.name] = UsesOf(a.to)
      BY <1>2, <2>1, <2>3, <3>1 DEF RunnerOk, Loaded
    <3>3. left'[a.name] = runner'[a.name].run
      BY <1>2, <2>1 DEF RunnerOk
    <3>4. QED
      BY <2>3, <3>2, <3>3
  <2>4. CASE b # a
    <3>1. b \in planned \ queue
      BY <2>4
    <3>2. /\ left[b.name] # None => runner[b.name].run = left[b.name]
          /\ needs[b.name] = UsesOf(b.to)
      BY <1>6, <2>1, <3>1 DEF Inv, RunnersRun
    <3>3. b.name # a.name
      <4>1. Resource(b) # Resource(a)
        BY <1>3, <2>2, <2>4 DEF Inv, PlanOK
      <4>2. QED
        BY <1>2, <1>3, <2>2, <4>1, ResourceOf
    <3>4. b.name \in Runners /\ runner[b.name].unit /\ runner[b.name].conf = b.to
      BY <1>1, <2>1, <3>1, DoneRunner
    <3>5. runner'[b.name] = runner[b.name]
      BY <1>2, <3>3, <3>4
    <3>6. Loaded(runner')[b.name] = UsesOf(b.to)
      BY <3>4, <3>5 DEF Loaded
    <3>7. needs'[b.name] = UsesOf(b.to)
      BY <2>1, <3>2, <3>6 DEF RunnerOk
    <3>8. left'[b.name] = left[b.name]
      BY <2>1, <3>3, <3>4 DEF RunnerOk
    <3>9. QED
      BY <3>2, <3>5, <3>7, <3>8
  <2>5. QED
    BY <2>3, <2>4
<1>16. QED
  BY <1>1, <1>8, <1>9, <1>10, <1>11, <1>12, <1>13, <1>14, <1>15 DEF Inv

\* A skipped no-op keeps the invariant.
LEMMA SkipNoOpInv ==
  ASSUME Inv, SkipNoOp
  PROVE  Inv'
<1>1. /\ pc = "loop" /\ UNCHANGED <<cfg, runner, needs, left, opts, planned, cur, prior>>
      /\ pc' = "loop" /\ UNCHANGED <<pdir, pdrop, prun, pdata>>
  BY DEF SkipNoOp, host, call
<1>2. PICK a \in queue : IsHead(a) /\ a.op = "noop" /\ queue' = queue \ {a} /\ Skip(a)
  BY DEF SkipNoOp
<1>3. /\ a \in planned /\ Fits(a, opts.only)
      /\ \A c \in planned \ (queue \ {a}), b \in queue \ {a} : Phase(c.op) <= Phase(b.op)
  BY <1>2, HeadInOrder DEF Inv
<1>4. a \in Actions /\ a.op \notin RunnerOps \cup PoolOps
  BY <1>2, <1>3 DEF Fits, RunnerOps, PoolOps
<1>5. /\ ResultTyped' /\ result'.failed = result.failed
      /\ \A r : FailedRunner(r)' <=> FailedRunner(r)
  BY <1>2, <1>4, NoFailFacts DEF Inv, ResultOK
<1>6. Live /\ pc \notin PoolLocs /\ pc' \notin PoolLocs
  BY <1>1 DEF Live, PoolLocs
<1>7. HostOK' /\ ResultOK' /\ PoolProgress'
  BY <1>1, <1>5 DEF Inv, HostOK, ResultOK, PoolProgress
<1>8. PlanOK'
  <2>1. \A b \in planned' : Fits(b, opts.only)'
    BY <1>1, SameConfig DEF Inv, PlanOK
  <2>2. QED
    BY <1>1, <1>2, <1>6, <2>1 DEF Inv, PlanOK
<1>9. InOrder'
  BY <1>1, <1>2, <1>3, <1>6 DEF InOrder
<1>10. RunnersReached'
  <2>1. ASSUME NEW r \in Runners
        PROVE  Filtered(r)' \/ FailedRunner(r)' \/ Reached(r)' \/ RunnerIn(r, queue')
    <3>1. Filtered(r) \/ FailedRunner(r) \/ Reached(r) \/ RunnerIn(r, queue)
      BY <1>6 DEF Inv, RunnersReached
    <3>2. RunnerIn(r, queue) => RunnerIn(r, queue')
      BY <1>2, <1>4 DEF RunnerIn
    <3>3. (Filtered(r)' <=> Filtered(r)) /\ (Reached(r)' <=> Reached(r))
      BY <1>1, SameOptions, SameReached
    <3>4. QED
      BY <1>5, <3>1, <3>2, <3>3
  <2>2. QED
    BY <2>1 DEF RunnersReached, RunnerIn
<1>11. PoolsReached'
  <2> SUFFICES ASSUME result'.failed = <<>>, NEW p \in Pools
               PROVE  FilteredPool(p)' \/ PoolReached(p)' \/ PoolIn(p, queue')
    BY DEF PoolsReached, PoolIn
  <2>1. FilteredPool(p) \/ PoolReached(p) \/ PoolIn(p, queue)
    BY <1>5, <1>6 DEF Inv, PoolsReached
  <2>2. PoolIn(p, queue) => PoolIn(p, queue')
    BY <1>2, <1>4 DEF PoolIn
  <2>3. PoolReached(p)' <=> PoolReached(p)
    BY <1>1, SamePoolReached
  <2>4. QED
    BY <1>1, <2>1, <2>2, <2>3, SameOptions
<1>12. \A b \in planned' \ queue' : b.op \in RunnerOps \cup PoolOps => b \in planned \ queue
  BY <1>1, <1>2, <1>4
<1>13. StorageGone'
  BY <1>1, <1>5, <1>6, <1>12 DEF Inv, StorageGone, PoolOps
<1>14. RunnersRun'
  <2> SUFFICES ASSUME result'.failed = <<>>, ~ opts.noRestart,
                      NEW b \in planned' \ queue', b.op \in {"create", "inplace", "recreate"}
               PROVE  /\ left[b.name] # None => runner[b.name].run = left[b.name]
                      /\ needs[b.name] = UsesOf(b.to)
    BY <1>1 DEF RunnersRun
  <2>1. b \in planned \ queue
    BY <1>12 DEF RunnerOps
  <2>2. QED
    BY <1>5, <1>6, <2>1 DEF Inv, RunnersRun
<1>15. QED
  BY <1>7, <1>8, <1>9, <1>10, <1>11, <1>13, <1>14 DEF Inv

\* Taking up a pool action keeps the invariant.
LEMMA BeginPoolInv ==
  ASSUME Inv, BeginPool
  PROVE  Inv'
<1>1. /\ pc = "loop" /\ UNCHANGED <<cfg, runner, needs, left, opts, planned, result>> /\ prior' = None
      /\ UNCHANGED <<pdir, pdrop, prun, pdata>>
  BY DEF BeginPool, host, call
<1>2. PICK a \in queue : /\ IsHead(a) /\ a.op \in PoolOps /\ queue' = queue \ {a} /\ cur' = a
                         /\ pc' = IF a.op = "removePool" THEN "stop" ELSE "write"
  BY DEF BeginPool
<1>3. /\ a \in planned /\ Fits(a, opts.only)
      /\ \A b \in queue : Phase(a.op) <= Phase(b.op)
      /\ \A b \in planned \ queue : Phase(b.op) <= Phase(a.op)
      /\ \A c \in planned \ (queue \ {a}), b \in queue \ {a} : Phase(c.op) <= Phase(b.op)
  BY <1>2, HeadInOrder DEF Inv
<1>4. a \in Actions /\ a.op \notin RunnerOps
  BY <1>2, <1>3 DEF Fits, RunnerOps, PoolOps
<1>5. \A r : FailedRunner(r)' <=> FailedRunner(r)
  BY <1>1 DEF FailedRunner
<1>6. /\ Live /\ pc \notin PoolLocs /\ pc' \in PoolLocs
      /\ pc' \notin {"idle", "reconcile", "stopped", "failfast", "exit"}
  BY <1>1, <1>2 DEF Live, PoolLocs
<1>7. HostOK' /\ ResultOK'
  BY <1>1, <1>6 DEF Inv, HostOK, ResultOK, ResultTyped, Settings
<1>8. PoolProgress'
  BY <1>2 DEF PoolProgress, PoolOps
<1>9. PlanOK'
  <2>1. \A b \in planned' : Fits(b, opts.only)'
    BY <1>1, SameConfig DEF Inv, PlanOK
  <2>2. QED
    BY <1>1, <1>2, <1>3, <1>6, <2>1 DEF Inv, PlanOK
<1>10. InOrder'
  <2>1. Phase(a.op) <= Phase(a.op)
    BY <1>2, <1>3
  <2>2. \A b \in planned' \ queue' : Phase(b.op) <= Phase(cur'.op)
    BY <1>1, <1>2, <1>3, <2>1
  <2>3. QED
    BY <1>1, <1>2, <1>3, <2>2 DEF InOrder
<1>11. RunnersReached'
  <2>1. ASSUME NEW r \in Runners
        PROVE  Filtered(r)' \/ FailedRunner(r)' \/ Reached(r)' \/ RunnerIn(r, queue')
    <3>1. Filtered(r) \/ FailedRunner(r) \/ Reached(r) \/ RunnerIn(r, queue)
      BY <1>6 DEF Inv, RunnersReached
    <3>2. RunnerIn(r, queue) => RunnerIn(r, queue')
      BY <1>2, <1>4 DEF RunnerIn
    <3>3. (Filtered(r)' <=> Filtered(r)) /\ (Reached(r)' <=> Reached(r))
      BY <1>1, SameOptions, SameReached
    <3>4. QED
      BY <1>5, <3>1, <3>2, <3>3
  <2>2. QED
    BY <2>1 DEF RunnersReached, RunnerIn
<1>12. PoolsReached'
  <2> SUFFICES ASSUME result'.failed = <<>>, NEW p \in Pools, p # a.name
               PROVE  FilteredPool(p)' \/ PoolReached(p)' \/ PoolIn(p, queue')
    BY <1>2, <1>6 DEF PoolsReached, PoolIn, Pool
  <2>1. FilteredPool(p) \/ PoolReached(p) \/ PoolIn(p, queue)
    BY <1>1, <1>6 DEF Inv, PoolsReached
  <2>2. PoolIn(p, queue) => PoolIn(p, queue')
    BY <1>2 DEF PoolIn
  <2>3. PoolReached(p)' <=> PoolReached(p)
    BY <1>1, SamePoolReached
  <2>4. QED
    BY <1>1, <2>1, <2>2, <2>3, SameOptions
<1>13. \A b \in planned' \ queue' : b = a \/ b \in planned \ queue
  BY <1>1, <1>2
<1>14. StorageGone'
  BY <1>1, <1>2, <1>6, <1>13 DEF Inv, StorageGone
<1>15. RunnersRun'
  <2> SUFFICES ASSUME result'.failed = <<>>, ~ opts.noRestart,
                      NEW b \in planned' \ queue', b.op \in {"create", "inplace", "recreate"}
               PROVE  /\ left[b.name] # None => runner[b.name].run = left[b.name]
                      /\ needs[b.name] = UsesOf(b.to)
    BY <1>1 DEF RunnersRun
  <2>1. b \in planned \ queue
    BY <1>4, <1>13 DEF RunnerOps
  <2>2. QED
    BY <1>1, <1>6, <2>1 DEF Inv, RunnersRun
<1>16. QED
  BY <1>7, <1>8, <1>9, <1>10, <1>11, <1>12, <1>14, <1>15 DEF Inv

\* The invariant holds initially.
LEMMA InvInit ==
  ASSUME Init
  PROVE  Inv
<1>1. /\ cfg \in Configs /\ pc = "idle" /\ planned = {} /\ queue = {} /\ result = EmptyResult
      /\ prior = None
  BY DEF Init
<1>2. HostOK
  <2>1. runner \in [Runners -> RunnerViews]
    BY DEF Init, View, RunnerViews
  <2>2. QED
    BY <2>1 DEF Init, HostOK, Settings
<1>3. ResultTyped
  <2>1. <<>> \in Seq(Failures) /\ <<>> \in Seq(Actions)
    OBVIOUS
  <2>2. QED
    BY <1>1, <2>1 DEF ResultTyped, EmptyResult
<1>4. pc \notin PoolLocs /\ ~ Live
  BY <1>1 DEF PoolLocs, Live
<1>5. ResultOK /\ PlanOK /\ InOrder /\ PoolProgress
  BY <1>1, <1>3, <1>4 DEF ResultOK, PlanOK, InOrder, PoolProgress
<1>6. RunnersReached /\ PoolsReached /\ StorageGone /\ RunnersRun
  BY <1>4 DEF RunnersReached, PoolsReached, StorageGone, RunnersRun
<1>7. QED
  BY <1>2, <1>5, <1>6 DEF Inv

\* Without a running apply only the host matters.
LEMMA IdleInv ==
  ASSUME HostOK', pc' = "idle", planned' = {}, queue' = {}, result' = EmptyResult
  PROVE  Inv'
<1>1. ResultTyped'
  <2>1. <<>> \in Seq(Failures) /\ <<>> \in Seq(Actions)
    OBVIOUS
  <2>2. QED
    BY <2>1 DEF ResultTyped, EmptyResult
<1>2. pc' \notin PoolLocs /\ ~ Live'
  BY DEF PoolLocs, Live
<1>3. ResultOK' /\ PlanOK' /\ InOrder' /\ PoolProgress'
  BY <1>1, <1>2 DEF ResultOK, PlanOK, InOrder, PoolProgress
<1>4. RunnersReached' /\ PoolsReached' /\ StorageGone' /\ RunnersRun'
  BY <1>2 DEF RunnersReached, PoolsReached, StorageGone, RunnersRun
<1>5. QED
  BY <1>3, <1>4 DEF Inv

\* Exit and Crash end the process; the host stays well-formed.
LEMMA GoneInv ==
  ASSUME Inv, Exit \/ Crash
  PROVE  Inv'
<1>1. Gone /\ UNCHANGED <<cfg, pdir, pdrop>>
  BY DEF Exit, Crash, host
<1>2. pc' = "idle" /\ planned' = {} /\ queue' = {} /\ result' = EmptyResult /\ prior' \in Settings
  BY <1>1 DEF Gone, Settings
<1>3. CASE UNCHANGED <<runner, needs, prun>>
  <2>1. HostOK'
    BY <1>1, <1>2, <1>3 DEF Inv, HostOK
  <2>2. QED
    BY <1>2, <2>1, IdleInv
<1>4. CASE \E a \in queue :
             /\ IsHead(a) /\ a.op \in RunnerOps
             /\ \E w \in Outcomes(a) :
                  /\ RunnerBecomes(a.name, w, a.to)
                  /\ needs' \in {needs, Loaded([runner EXCEPT ![a.name] = w])}
  <2>1. PICK a \in queue :
          /\ a.op \in RunnerOps
          /\ \E w \in Outcomes(a) :
               /\ RunnerBecomes(a.name, w, a.to)
               /\ needs' \in {needs, Loaded([runner EXCEPT ![a.name] = w])}
    BY <1>4
  <2>2. PICK w \in Outcomes(a) :
          /\ RunnerBecomes(a.name, w, a.to)
          /\ needs' \in {needs, Loaded([runner EXCEPT ![a.name] = w])}
    BY <2>1
  <2>3. Fits(a, opts.only)
    BY DEF Inv, PlanOK
  <2>4. /\ runner' = [runner EXCEPT ![a.name] = w] /\ runner' \in [Runners -> RunnerViews]
        /\ prun' \in [Pools -> Settings] /\ Loaded(runner') \in [Runners -> SUBSET Pools]
    BY <2>1, <2>2, <2>3, RunnerEffect DEF Inv
  <2>5. needs' \in [Runners -> SUBSET Pools]
    BY <2>2, <2>4 DEF Inv, HostOK
  <2>6. HostOK'
    BY <1>1, <1>2, <2>4, <2>5 DEF Inv, HostOK
  <2>7. QED
    BY <1>2, <2>6, IdleInv
<1>5. QED
  BY <1>3, <1>4 DEF Exit, Crash, host, Outcomes

\* Edits happen between applies.
LEMMA EditInv ==
  ASSUME Inv, Edit
  PROVE  Inv'
<1>1. /\ pc = "idle" /\ cfg' \in Configs
      /\ UNCHANGED <<runner, needs, pdir, pdrop, prun, prior, pc, planned, queue, result>>
  BY DEF Edit, call, Inv, HostOK
<1>2. planned = {} /\ queue = {} /\ result = EmptyResult
  BY <1>1 DEF Inv, PlanOK, ResultOK
<1>3. HostOK'
  BY <1>1 DEF Inv, HostOK
<1>4. QED
  BY <1>1, <1>2, <1>3, IdleInv

\* The start of an apply establishes the facts about its plan.
LEMMA ApplyInv ==
  ASSUME Inv, Apply
  PROVE  Inv'
<1>1. PICK o \in Options : Begin(o)
  BY DEF Apply
<1>2. /\ pc = "idle" /\ opts' = o /\ planned' = Plan(runner, o.only)
      /\ pc' \in {"reconcile", "stopped"}
      /\ UNCHANGED <<cfg, runner, needs, pdir, pdrop, prun, prior, queue, result>>
  BY <1>1 DEF Begin, host
<1>3. queue = {} /\ result = EmptyResult
  BY <1>2 DEF Inv, PlanOK, ResultOK
<1>4. pc' \notin PoolLocs /\ ~ Live'
  BY <1>2 DEF PoolLocs, Live
<1>5. HostOK' /\ ResultOK' /\ InOrder' /\ PoolProgress'
  BY <1>2, <1>3, <1>4 DEF Inv, HostOK, ResultOK, ResultTyped, InOrder, PoolProgress
<1>6. RunnersReached' /\ PoolsReached' /\ StorageGone' /\ RunnersRun'
  BY <1>4 DEF RunnersReached, PoolsReached, StorageGone, RunnersRun
<1>7. PlanOK'
  <2>1. PICK only : only = o.only
    OBVIOUS
  <2>2. PICK view \in [Runners -> RunnerViews] : view = runner
    BY DEF Inv, HostOK
  <2>3. PICK P : P = Plan(view, only)
    OBVIOUS
  <2>4. /\ \A a \in P : Fits(a, only)
        /\ \A a, b \in P : Resource(a) = Resource(b) => a = b
        /\ \A r \in Runners :
             \/ only # {} /\ <<"runner", r>> \notin only
             \/ IF cfg.own[r] = None THEN ~ view[r].unit
                                     ELSE view[r].unit /\ view[r].conf = Effective(r)
             \/ RunnerIn(r, P)
        /\ \A p \in Pools :
             \/ only # {} /\ <<"pool", p>> \notin only
             \/ PoolReached(p) \/ PoolIn(p, P)
    BY <2>3, PlanFits DEF Inv
  <2>5. planned' = P /\ opts'.only = only
    BY <1>2, <2>1, <2>2, <2>3
  <2>6. \A a \in planned' : Fits(a, opts.only)'
    BY <1>2, <2>4, <2>5, SameConfig
  <2>7. ASSUME NEW r \in Runners
        PROVE  Filtered(r)' \/ Reached(r)' \/ RunnerIn(r, planned')
    <3>1. Reached(r)' <=> Reached(r)
      BY <1>2, SameReached
    <3>2. Filtered(r)' <=> only # {} /\ <<"runner", r>> \notin only
      BY <2>5 DEF Filtered
    <3>3. QED
      BY <2>2, <2>4, <2>5, <3>1, <3>2 DEF Reached
  <2>8. ASSUME NEW p \in Pools
        PROVE  FilteredPool(p)' \/ PoolReached(p)' \/ PoolIn(p, planned')
    <3>1. PoolReached(p)' <=> PoolReached(p)
      BY <1>2, SamePoolReached
    <3>2. FilteredPool(p)' <=> only # {} /\ <<"pool", p>> \notin only
      BY <2>5 DEF FilteredPool
    <3>3. QED
      BY <2>4, <2>5, <3>1, <3>2
  <2>9. \A a, b \in planned' : Resource(a) = Resource(b) => a = b
    BY <2>4, <2>5
  <2>10. (\A a, b \in planned : Resource(a) = Resource(b) => a = b)'
    BY <2>9 DEF Resource
  <2>11. QED
    BY <1>2, <1>3, <1>4, <2>6, <2>7, <2>8, <2>10 DEF PlanOK, RunnerIn, PoolIn
<1>8. QED
  BY <1>5, <1>6, <1>7 DEF Inv

\* The reconciliation leaves a plan for the host as it is then.
LEMMA ReconciledPlan ==
  ASSUME Inv, Reconcile
  PROVE  /\ HostOK' /\ cfg' = cfg /\ opts' = opts /\ pdir' = pdir /\ pdrop' = pdrop
         /\ \A a \in planned' : Fits(a, opts.only)
         /\ \A a, b \in planned' : Resource(a) = Resource(b) => a = b
         /\ \A r \in Runners : Filtered(r) \/ Reached(r)' \/ RunnerIn(r, planned')
         /\ \A p \in Pools : FilteredPool(p) \/ PoolReached(p) \/ PoolIn(p, planned')
<1>1. /\ pc = "reconcile" /\ cfg' = cfg /\ opts' = opts /\ pdir' = pdir /\ pdrop' = pdrop
      /\ UNCHANGED <<needs, prun, prior>>
  BY DEF Reconcile, host
<1>2. PICK gone \in SUBSET {r \in Runners : Act("noop", r, None) \in planned} :
        /\ planned' = IF gone = {} THEN planned ELSE Plan(runner', opts.only)
        /\ \E unit, conf \in BOOLEAN :
             runner' = [r \in Runners |->
               IF r \in gone
                 THEN View(unit, IF conf THEN runner[r].conf ELSE None, runner[r].run)
                 ELSE runner[r]]
  BY DEF Reconcile
<1>3. PICK unit \in BOOLEAN, conf \in BOOLEAN :
        runner' = [r \in Runners |->
          IF r \in gone
            THEN View(unit, IF conf THEN runner[r].conf ELSE None, runner[r].run)
            ELSE runner[r]]
  BY <1>2
<1>4. runner' \in [Runners -> RunnerViews]
  <2>1. ASSUME NEW r \in Runners
        PROVE  View(unit, IF conf THEN runner[r].conf ELSE None, runner[r].run) \in RunnerViews
    <3>1. runner[r].conf \in Specs \cup {None} /\ runner[r].run \in Specs \cup {None}
      BY DEF Inv, HostOK, RunnerViews
    <3>2. QED
      BY <3>1 DEF View, RunnerViews
  <2>2. \A r \in Runners : runner[r] \in RunnerViews
    BY DEF Inv, HostOK
  <2> HIDE DEF RunnerViews
  <2>3. QED
    BY <1>3, <2>1, <2>2
<1>5. HostOK'
  BY <1>1, <1>4 DEF Inv, HostOK
<1>6. CASE gone = {}
  <2>1. planned' = planned /\ \A r \in Runners : runner'[r] = runner[r]
    BY <1>2, <1>3, <1>6
  <2>2. \A r \in Runners : Reached(r)' <=> Reached(r)
    BY <1>1, <2>1, SameReached
  <2>3. /\ \A r \in Runners : Filtered(r) \/ Reached(r) \/ RunnerIn(r, planned)
        /\ \A p \in Pools : FilteredPool(p) \/ PoolReached(p) \/ PoolIn(p, planned)
        /\ \A a \in planned : Fits(a, opts.only)
        /\ \A a, b \in planned : Resource(a) = Resource(b) => a = b
    BY <1>1 DEF Inv, PlanOK
  <2>4. QED
    BY <1>1, <1>5, <2>1, <2>2, <2>3
<1>7. CASE gone # {}
  <2>1. PICK only : only = opts.only
    OBVIOUS
  <2>2. PICK view \in [Runners -> RunnerViews] : view = runner'
    BY <1>4
  <2>3. PICK P : P = Plan(view, only)
    OBVIOUS
  <2>4. /\ \A a \in P : Fits(a, only)
        /\ \A a, b \in P : Resource(a) = Resource(b) => a = b
        /\ \A r \in Runners :
             \/ only # {} /\ <<"runner", r>> \notin only
             \/ IF cfg.own[r] = None THEN ~ view[r].unit
                                     ELSE view[r].unit /\ view[r].conf = Effective(r)
             \/ RunnerIn(r, P)
        /\ \A p \in Pools :
             \/ only # {} /\ <<"pool", p>> \notin only
             \/ PoolReached(p) \/ PoolIn(p, P)
    BY <2>3, PlanFits DEF Inv
  <2>5. planned' = P
    BY <1>2, <1>7, <2>1, <2>2, <2>3
  <2>6. ASSUME NEW r \in Runners
        PROVE  Filtered(r) \/ Reached(r)' \/ RunnerIn(r, planned')
    <3>1. Reached(r)' <=> IF cfg.own[r] = None THEN ~ view[r].unit
                            ELSE view[r].unit /\ view[r].conf = Effective(r)
      BY <1>1, <2>2, SameConfig DEF Reached
    <3>2. QED
      BY <2>1, <2>4, <2>5, <3>1 DEF Filtered
  <2>7. \A p \in Pools : FilteredPool(p) \/ PoolReached(p) \/ PoolIn(p, planned')
    BY <2>1, <2>4, <2>5 DEF FilteredPool
  <2>8. QED
    BY <1>1, <1>5, <2>1, <2>4, <2>5, <2>6, <2>7
<1>8. QED
  BY <1>6, <1>7

\* The reconciliation with GitHub keeps the invariant.
LEMMA ReconcileInv ==
  ASSUME Inv, Reconcile
  PROVE  Inv'
<1>1. /\ HostOK' /\ cfg' = cfg /\ opts' = opts /\ pdir' = pdir /\ pdrop' = pdrop
      /\ \A a \in planned' : Fits(a, opts.only)
      /\ \A a, b \in planned' : Resource(a) = Resource(b) => a = b
      /\ \A r \in Runners : Filtered(r) \/ Reached(r)' \/ RunnerIn(r, planned')
      /\ \A p \in Pools : FilteredPool(p) \/ PoolReached(p) \/ PoolIn(p, planned')
  BY ReconciledPlan
<1>2. /\ pc = "reconcile" /\ UNCHANGED <<cur, result>>
      /\ \/ pc' = "loop" /\ queue' = planned'
         \/ pc' = "stopped" /\ queue' = queue
  BY DEF Reconcile
<1>3. queue = {} /\ result = EmptyResult /\ ResultTyped
  BY <1>2 DEF Inv, PlanOK, ResultOK
<1>4. pc' \notin PoolLocs
  BY <1>2 DEF PoolLocs
<1>5. ResultOK' /\ InOrder' /\ PoolProgress'
  BY <1>2, <1>3, <1>4 DEF ResultOK, ResultTyped, InOrder, PoolProgress
<1>6. PlanOK'
  <2>1. \A a \in planned' : Fits(a, opts.only)'
    BY <1>1, SameConfig
  <2>2. (\A a, b \in planned : Resource(a) = Resource(b) => a = b)'
    BY <1>1 DEF Resource
  <2>3. queue' \subseteq planned'
    BY <1>2, <1>3
  <2>4. /\ pc' \notin {"idle", "reconcile"}
        /\ pc' = "stopped" => queue' = {}
    BY <1>2, <1>3
  <2>5. QED
    BY <1>4, <2>1, <2>2, <2>3, <2>4 DEF PlanOK
<1>7. CASE pc' = "loop"
  <2>1. queue' = planned'
    BY <1>2, <1>7
  <2>2. ASSUME NEW r \in Runners
        PROVE  Filtered(r)' \/ FailedRunner(r)' \/ Reached(r)' \/ RunnerIn(r, queue')
    BY <1>1, <2>1, SameOptions
  <2>3. RunnersReached'
    BY <2>2 DEF RunnersReached, RunnerIn
  <2>4. ASSUME NEW p \in Pools
        PROVE  FilteredPool(p)' \/ PoolReached(p)' \/ PoolIn(p, queue')
    <3>1. PoolReached(p)' <=> PoolReached(p)
      BY <1>1, SamePoolReached
    <3>2. QED
      BY <1>1, <2>1, <3>1, SameOptions
  <2>5. PoolsReached'
    BY <2>4 DEF PoolsReached, PoolIn
  <2>6. StorageGone' /\ RunnersRun'
    BY <2>1 DEF StorageGone, RunnersRun
  <2>7. QED
    BY <1>1, <1>5, <1>6, <2>3, <2>5, <2>6 DEF Inv
<1>8. CASE pc' = "stopped"
  <2>1. ~ Live'
    BY <1>4, <1>8 DEF Live
  <2>2. RunnersReached' /\ PoolsReached' /\ StorageGone' /\ RunnersRun'
    BY <2>1 DEF RunnersReached, PoolsReached, StorageGone, RunnersRun
  <2>3. QED
    BY <1>1, <1>5, <1>6, <2>2 DEF Inv
<1>9. QED
  BY <1>2, <1>7, <1>8

\* An apply with a failure does not exit with 0, 2 or 8.
LEMMA FailureShows ==
  ASSUME NEW res, res.failed # <<>>
  PROVE  ExitCode(res) \notin {0, 2, 8}
BY DEF ExitCode

\* The end of an apply keeps the invariant.
LEMMA EndInv ==
  ASSUME Inv, Final \/ FailFast
  PROVE  Inv'
<1>1. /\ UNCHANGED <<cfg, runner, left, opts, planned, cur, prior, pdir, pdrop, prun, pdata>>
      /\ pc' = "exit" /\ queue' = {} /\ needs' \in {needs, Loaded(runner)}
  BY DEF Final, FailFast, host, call
<1>2. Loaded(runner) \in [Runners -> SUBSET Pools]
  BY SystemdTyped DEF Inv, HostOK
<1>3. HostOK'
  <2>1. needs' \in [Runners -> SUBSET Pools]
    BY <1>1, <1>2 DEF Inv, HostOK
  <2>2. QED
    BY <1>1, <2>1 DEF Inv, HostOK
<1>4. pc' \notin PoolLocs
  BY <1>1 DEF PoolLocs
<1>5. InOrder' /\ PoolProgress'
  BY <1>1, <1>4 DEF InOrder, PoolProgress
<1>6. PlanOK'
  <2>1. \A a \in planned' : Fits(a, opts.only)'
    BY <1>1, SameConfig DEF Inv, PlanOK
  <2>2. QED
    BY <1>1, <1>4, <2>1 DEF Inv, PlanOK
<1>7. CASE ResultTyped' /\ result'.failed # <<>> /\ exit' = ExitCode(result')
  <2>1. ResultOK'
    BY <1>1, <1>7, FailureShows DEF ResultOK
  <2>2. ~ Live'
    BY <1>1, <1>4, <1>7 DEF Live
  <2>3. RunnersReached' /\ PoolsReached' /\ StorageGone' /\ RunnersRun'
    BY <2>2 DEF RunnersReached, PoolsReached, StorageGone, RunnersRun
  <2>4. QED
    BY <1>3, <1>5, <1>6, <2>1, <2>3 DEF Inv
<1>8. CASE /\ pc = "loop" /\ queue = {} /\ result' = result /\ result.failed = <<>>
           /\ needs' = Loaded(runner)
  <2>1. ResultOK'
    BY <1>1, <1>8 DEF Inv, ResultOK, ResultTyped
  <2>2. Live /\ pc \notin PoolLocs
    BY <1>8 DEF Live, PoolLocs
  <2>3. ASSUME NEW r \in Runners
        PROVE  Filtered(r)' \/ FailedRunner(r)' \/ Reached(r)' \/ RunnerIn(r, queue')
    <3>1. Filtered(r) \/ FailedRunner(r) \/ Reached(r) \/ RunnerIn(r, queue)
      BY <2>2 DEF Inv, RunnersReached
    <3>2. (Filtered(r)' <=> Filtered(r)) /\ (Reached(r)' <=> Reached(r))
      BY <1>1, SameOptions, SameReached
    <3>3. FailedRunner(r)' <=> FailedRunner(r)
      BY <1>8 DEF FailedRunner
    <3>4. QED
      BY <1>1, <1>8, <3>1, <3>2, <3>3
  <2>4. RunnersReached'
    BY <2>3 DEF RunnersReached, RunnerIn
  <2>5. ASSUME NEW p \in Pools
        PROVE  FilteredPool(p)' \/ PoolReached(p)' \/ PoolIn(p, queue')
    <3>1. FilteredPool(p) \/ PoolReached(p) \/ PoolIn(p, queue)
      BY <1>8, <2>2 DEF Inv, PoolsReached
    <3>2. PoolReached(p)' <=> PoolReached(p)
      BY <1>1, SamePoolReached
    <3>3. QED
      BY <1>1, <1>8, <3>1, <3>2, SameOptions
  <2>6. PoolsReached'
    BY <2>5 DEF PoolsReached, PoolIn
  <2>7. StorageGone'
    BY <1>1, <1>8, <2>2 DEF Inv, StorageGone
  <2>8. RunnersRun'
    <3> SUFFICES ASSUME ~ opts.noRestart, NEW a \in planned \ queue,
                        a.op \in {"create", "inplace", "recreate"}
                 PROVE  /\ left[a.name] # None => runner[a.name].run = left[a.name]
                        /\ needs'[a.name] = UsesOf(a.to)
      BY <1>1, <1>8 DEF RunnersRun
    <3>1. Loaded(runner)[a.name] = UsesOf(a.to)
      BY <1>8, LoadedDone
    <3>2. QED
      BY <1>8, <2>2, <3>1 DEF Inv, RunnersRun
  <2>9. QED
    BY <1>3, <1>5, <1>6, <2>1, <2>4, <2>6, <2>7, <2>8 DEF Inv
<1>9. CASE FailFast
  <2>1. pc = "failfast" /\ exit' = ExitCode(result) /\ result' = result
    BY <1>9 DEF FailFast
  <2>2. result.failed # <<>> /\ ResultTyped
    BY <2>1 DEF Inv, ResultOK
  <2>3. ResultTyped'
    BY <2>1, <2>2 DEF ResultTyped
  <2>4. QED
    BY <1>7, <2>1, <2>2, <2>3
<1>10. CASE Final
  <2>1. pc = "loop" /\ queue = {} /\ ResultTyped
    BY <1>10 DEF Final, Inv, ResultOK
  <2>2. CASE needs' = Loaded(runner) /\ exit' = ExitCode(result) /\ result' = result
    <3>1. ResultTyped'
      BY <2>1, <2>2 DEF ResultTyped
    <3>2. QED
      BY <1>7, <1>8, <2>1, <2>2, <3>1
  <2>3. CASE Fail(NoAction, "Other") /\ exit' = ExitCode(result')
    <3>1. NoAction \in Actions
      BY DEF NoAction, Act, Actions, Settings
    <3>2. ResultTyped' /\ result'.failed # <<>>
      BY <2>1, <2>3, <3>1, FailFacts
    <3>3. QED
      BY <1>7, <2>3, <3>2
  <2>4. QED
    BY <1>10, <2>2, <2>3 DEF Final
<1>11. QED
  BY <1>9, <1>10

\* StopUnneeded and stuttering touch nothing that the invariant is about but the processes.
LEMMA QuietInv ==
  ASSUME Inv, StopUnneeded \/ UNCHANGED vars
  PROVE  Inv'
<1>1. /\ UNCHANGED <<cfg, runner, needs, pdir, pdrop, pdata, pc, left, opts, planned, queue, cur,
                     prior, result, exit>>
      /\ prun' = prun \/ \E p \in Pools : prun' = [prun EXCEPT ![p] = None]
  BY DEF StopUnneeded, vars, host, call
<1>2. HostOK'
  BY <1>1 DEF Inv, HostOK, Settings
<1>3. ResultOK' /\ InOrder' /\ PoolProgress'
  BY <1>1 DEF Inv, ResultOK, ResultTyped, InOrder, PoolProgress, Pool
<1>4. (Live' <=> Live) /\ \A r : FailedRunner(r)' <=> FailedRunner(r)
  BY <1>1 DEF Live, FailedRunner
<1>5. /\ \A r : (Filtered(r)' <=> Filtered(r)) /\ (Reached(r)' <=> Reached(r))
      /\ \A p : (FilteredPool(p)' <=> FilteredPool(p)) /\ (PoolReached(p)' <=> PoolReached(p))
  BY <1>1, SameOptions, SameReached, SamePoolReached
<1>6. PlanOK'
  <2>1. \A a \in planned' : Fits(a, opts.only)'
    BY <1>1, SameConfig DEF Inv, PlanOK
  <2>2. QED
    BY <1>1, <1>5, <2>1 DEF Inv, PlanOK, RunnerIn, PoolIn
<1>7. RunnersReached' /\ PoolsReached'
  BY <1>1, <1>4, <1>5 DEF Inv, RunnersReached, PoolsReached, RunnerIn, PoolIn, Pool
<1>8. StorageGone' /\ RunnersRun'
  BY <1>1, <1>4 DEF Inv, StorageGone, RunnersRun
<1>9. QED
  BY <1>2, <1>3, <1>6, <1>7, <1>8 DEF Inv

-----------------------------------------------------------------------------
(* Theorems                                                                *)

\* Every step keeps the invariant.
LEMMA InvNext ==
  ASSUME Inv, [Next]_vars
  PROVE  Inv'
<1>1. CASE Apply
  BY <1>1, ApplyInv
<1>2. CASE Reconcile
  BY <1>2, ReconcileInv
<1>3. CASE SkipNoOp
  BY <1>3, SkipNoOpInv
<1>4. CASE RunnerAction
  BY <1>4, RunnerActionInv
<1>5. CASE BeginPool
  BY <1>5, BeginPoolInv
<1>6. CASE PoolStep
  BY <1>6, PoolStepInv
<1>7. CASE Final \/ FailFast
  BY <1>7, EndInv
<1>8. CASE Exit \/ Crash
  BY <1>8, GoneInv
<1>9. CASE StopUnneeded \/ UNCHANGED vars
  BY <1>9, QuietInv
<1>10. CASE Edit
  BY <1>10, EditInv
<1>11. QED
  BY <1>1, <1>2, <1>3, <1>4, <1>5, <1>6, <1>7, <1>8, <1>9, <1>10 DEF Next, Step, PoolStep

\* The plan, what was executed of it and the host agree in every reachable state.
THEOREM Invariant == FleetSpec => []Inv
<1>1. Init => Inv
  BY InvInit
<1>2. Inv /\ [Next]_vars => Inv'
  BY InvNext
<1>3. QED
  BY <1>1, <1>2, PTL DEF FleetSpec

\* At a successful end nothing failed, nothing is left to do, and what was not
\* filtered out is as configured.
LEMMA AtSuccess ==
  ASSUME Inv, Succeeded
  PROVE  /\ result.failed = <<>> /\ queue = {} /\ Live
         /\ \A r \in Runners : Filtered(r) \/ Reached(r)
         /\ \A p \in Pools : FilteredPool(p) \/ PoolReached(p)
         /\ \A a \in planned : a.op = "removePool" => a.name \notin pdata
<1>1. pc = "exit" /\ exit \in {0, 2, 8}
  BY DEF Succeeded
<1>2. result.failed = <<>> /\ queue = {}
  BY <1>1 DEF Inv, ResultOK
<1>3. Live /\ pc \notin PoolLocs
  BY <1>1, <1>2 DEF Live, PoolLocs
<1>4. \A r : ~ FailedRunner(r) /\ ~ RunnerIn(r, queue)
  BY <1>2 DEF FailedRunner, RunnerIn
<1>5. \A p : ~ PoolIn(p, queue)
  BY <1>2 DEF PoolIn
<1>6. \A r \in Runners : Filtered(r) \/ Reached(r)
  BY <1>3, <1>4 DEF Inv, RunnersReached
<1>7. \A p \in Pools : FilteredPool(p) \/ PoolReached(p)
  BY <1>2, <1>3, <1>5 DEF Inv, PoolsReached
<1>8. \A a \in planned : a.op = "removePool" => a.name \notin pdata
  BY <1>2, <1>3 DEF Inv, StorageGone
<1>9. QED
  BY <1>2, <1>3, <1>6, <1>7, <1>8

(***************************************************************************)
(* apply_exit_code: for any plan, any failures and any command line, an    *)
(* exit code that says success means that the files of every planned       *)
(* action are as planned.                                                  *)
(***************************************************************************)
THEOREM SuccessMeansApplied == FleetSpec => []SuccessIsApplied
<1>1. Inv => SuccessIsApplied
  <2> SUFFICES ASSUME Inv, Succeeded, NEW a \in planned
               PROVE  Achieved(a)
    BY DEF SuccessIsApplied
  <2>1. Fits(a, opts.only)
    BY DEF Inv, PlanOK
  <2>2. CASE a.op \in RunnerOps
    <3>1. a.name \in Runners /\ Resource(a) = <<"runner", a.name>>
      BY <2>1, <2>2, ResourceOf DEF Fits
    <3>2. ~ Filtered(a.name)
      BY <2>1, <3>1 DEF Fits, Filtered
    <3>3. Reached(a.name)
      BY <3>1, <3>2, AtSuccess
    <3>4. CASE a.op = "remove"
      <4>1. cfg.own[a.name] = None
        BY <2>1, <3>4 DEF Fits
      <4>2. ~ runner[a.name].unit
        BY <3>3, <4>1 DEF Reached
      <4>3. QED
        BY <3>4, <4>2 DEF Achieved
    <3>5. CASE a.op \in {"create", "inplace", "recreate"}
      <4>1. cfg.own[a.name] # None /\ a.to = Effective(a.name)
        BY <2>1, <3>5 DEF Fits
      <4>2. runner[a.name].unit /\ runner[a.name].conf = a.to
        BY <3>3, <4>1 DEF Reached
      <4>3. QED
        BY <3>5, <4>2 DEF Achieved
    <3>6. QED
      BY <2>2, <3>4, <3>5 DEF RunnerOps
  <2>3. CASE a.op \in PoolOps
    <3>1. a.name \in Pools /\ Resource(a) = <<"pool", a.name>>
      BY <2>1, <2>3, ResourceOf DEF Fits
    <3>2. ~ FilteredPool(a.name)
      BY <2>1, <3>1 DEF Fits, FilteredPool
    <3>3. PoolReached(a.name)
      BY <3>1, <3>2, AtSuccess
    <3>4. CASE a.op = "removePool"
      <4>1. a.name \notin Referenced
        BY <2>1, <3>4 DEF Fits
      <4>2. a.name \notin pdir /\ a.name \notin pdata
        BY <3>3, <3>4, <4>1, AtSuccess DEF PoolReached
      <4>3. QED
        BY <3>4, <4>2 DEF Achieved
    <3>5. CASE a.op \in {"createPool", "updatePool"}
      <4>1. a.name \in Referenced /\ a.to = cfg.body[a.name]
        BY <2>1, <3>5 DEF Fits
      <4>2. a.name \in pdir /\ pdrop[a.name] = a.to
        BY <3>3, <4>1 DEF PoolReached
      <4>3. QED
        BY <3>5, <4>2 DEF Achieved
    <3>6. QED
      BY <2>3, <3>4, <3>5 DEF PoolOps
  <2>4. CASE a.op = "noop"
    BY <2>4 DEF Achieved
  <2>5. a.op \in RunnerOps \cup PoolOps \cup {"noop"}
    BY <2>1 DEF Fits, Actions
  <2>6. QED
    BY <2>2, <2>3, <2>4, <2>5
<1>2. QED
  BY <1>1, Invariant, PTL

(***************************************************************************)
(* sort_into_phases and compute_plan: a successful apply of the whole plan *)
(* leaves no unit that requires a pool without the drop-in it was          *)
(* rendered for.                                                           *)
(***************************************************************************)
THEOREM PoolsAreThere == FleetSpec => []NoDanglingPool
<1>1. Inv => NoDanglingPool
  <2> SUFFICES ASSUME Inv, Succeeded, opts.only = {}, NEW r \in Runners, runner[r].unit,
                      NEW p \in UsesOf(runner[r].conf)
               PROVE  p \in pdir /\ pdrop[p] = runner[r].conf.caches[p]
    BY DEF NoDanglingPool
  <2>1. Reached(r)
    BY AtSuccess DEF Filtered
  <2>2. cfg.own[r] # None /\ runner[r].conf = Effective(r)
    BY <2>1 DEF Reached
  <2>3. p \in Referenced /\ p \in Pools /\ runner[r].conf.caches[p] = cfg.body[p]
    BY <2>2, EffectiveFacts DEF Inv
  <2>4. PoolReached(p)
    BY <2>3, AtSuccess DEF FilteredPool
  <2>5. QED
    BY <2>3, <2>4 DEF PoolReached
<1>2. QED
  BY <1>1, Invariant, PTL

(***************************************************************************)
(* The order of the phases and the reload before each start: whatever a    *)
(* successful apply stops or removes of pools, it does not take down a     *)
(* runner process that one of its actions left up.                         *)
(***************************************************************************)
THEOREM RunnersStayUp == FleetSpec => []ChangedRunnersRun
<1>1. Inv => ChangedRunnersRun
  <2> SUFFICES ASSUME Inv, Succeeded, ~ opts.noRestart, NEW a \in planned,
                      a.op \in {"create", "inplace", "recreate"}, left[a.name] # None
               PROVE  runner[a.name].run = left[a.name]
    BY DEF ChangedRunnersRun
  <2>1. result.failed = <<>> /\ queue = {} /\ Live
    BY AtSuccess
  <2>2. QED
    BY <2>1 DEF Inv, RunnersRun
<1>2. QED
  BY <1>1, Invariant, PTL

(***************************************************************************)
(* remove_cache_pool runs last: it deletes the drop-ins of a pool when no  *)
(* runner whose action succeeded, or that needed none, is configured to    *)
(* use it.                                                                 *)
(***************************************************************************)
THEOREM PoolsGoLast == FleetSpec => []PoolOutlivesItsRunners
<1>1. Inv => PoolOutlivesItsRunners
  <2> SUFFICES ASSUME Inv, pc = "rmdropins", NEW r \in Runners, runner[r].unit,
                      Pool \in UsesOf(runner[r].conf)
               PROVE  Filtered(r) \/ FailedRunner(r)
    BY DEF PoolOutlivesItsRunners
  <2>1. pc \in PoolLocs /\ Live /\ cur.op = "removePool"
    BY DEF PoolLocs, Live, Inv, PoolProgress
  <2>2. Pool \notin Referenced /\ cur \in planned \ queue
    BY <2>1, CurFacts DEF Inv
  <2>3. ~ Reached(r)
    <3>1. CASE cfg.own[r] = None
      BY <3>1 DEF Reached
    <3>2. CASE cfg.own[r] # None
      BY <2>2, <3>2, EffectiveFacts DEF Inv, Reached
    <3>3. QED
      BY <3>1, <3>2
  <2>4. ~ RunnerIn(r, queue)
    <3> SUFFICES ASSUME NEW a \in queue, a.op \in RunnerOps
                 PROVE  FALSE
      BY DEF RunnerIn
    <3>1. Phase(cur.op) <= Phase(a.op)
      BY <2>2 DEF Inv, InOrder
    <3>2. Phase(cur.op) = 7 /\ Phase(a.op) \in 3..6
      BY <2>1, PhaseBounds
    <3>3. QED
      BY <3>1, <3>2
  <2>5. QED
    BY <2>1, <2>3, <2>4 DEF Inv, RunnersReached
<1>2. QED
  BY <1>1, Invariant, PTL
==============================================================================
