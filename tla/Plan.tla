-------------------------------- MODULE Plan --------------------------------
(***************************************************************************)
(* What `ghars apply' does to a host, from one config to the next: plan    *)
(* the difference between the config and the files on the disk             *)
(* (plan_from_with_latest in src/plan/compute.rs, discover in              *)
(* src/state.rs), then carry it out.                                       *)
(*                                                                         *)
(* An apply is one step here, and all its actions succeed: the steps of an *)
(* action, and their failures, are RunnerApply's and Fleet's subject.      *)
(* The files of a runner are the rendering of the spec that was last       *)
(* written, since every write of a runner writes all its managed files;    *)
(* everything the planner learns of them, it reads from that rendering.    *)
(***************************************************************************)
EXTENDS Units

CONSTANTS
  Configs,      \* the configs an operator may put in ghars.toml, as a sequence
  Releases,     \* the runner releases of GitHub, oldest first
  Schemas,      \* the values of RENDERER_SCHEMA, oldest first
  MaxEdits      \* bound on the changes an operator makes by hand

ASSUME PlanConstants ==
  /\ \A i \in DOMAIN Configs : IsConfig(Configs[i])
  /\ Releases \in Seq(Text) /\ Releases # <<>> /\ \A v \in ToSet(Releases) : ValidateVersion(v)
  /\ Schemas \in Seq(ToSet(Schemas)) /\ Schemas # <<>> /\ MaxEdits \in Nat

\* What the lists of a Plain config do not hold.  `ghars add' refuses such labels
\* (validate_labels), load_config does not, and it does not check a digest either.
Plain(c) ==
  /\ \A l \in ToSet(c.defaults.labels) \cup UNION {ToSet(r.labels) : r \in Runners(c)} :
       l # <<>> /\ Symbols(l) \cap {" ", "\\", Comma} = {}
  /\ \A d \in ({c.defaults.sha} \cup {r.sha : r \in Runners(c)}) \ {None} :
       Symbols(d) \cap {" ", "\\"} = {}
PlainConfigs == \A i \in DOMAIN Configs : Plain(Configs[i])

VARIABLES
  runners,      \* name -> [spec: last written, intact: the unit is the template's,
                \*          extra: there is a drop-in that ghars does not manage]
  pools,        \* name -> the binding last rendered
  registered,   \* name -> [url, labels] that GitHub was told
  netns,        \* name -> the network binding its namespace was provisioned for
  released,     \* position of the latest release in Releases
  schema,       \* position in Schemas of the ghars that is installed
  edits,
  applied       \* the last apply, or None: [cfg (an index), current: it knew the latest
                \* release, clean: nothing has happened since]

vars == <<runners, pools, registered, netns, released, schema, edits, applied>>

Empty == [n \in {} |-> None]

-----------------------------------------------------------------------------
(* Tables of constant values *)

\* Without these the command ends before it looks at the host.
Accepted == {i \in DOMAIN Configs : LoadConfig(Configs[i]) /\ Plannable(Configs[i])}
Lookups == {None} \cup ToSet(Releases)
Wants ==
  Table(LAMBDA k : Desired(Configs[k[1]], k[2], k[3]), Accepted \X Lookups \X ToSet(Schemas))
RefsOf(wants) == Table(LAMBDA k : ReferencedPools(wants[k]), DOMAIN wants)
Refs == RefsOf(Wants)

\* None is no set of labels.
Wanted == UNION {Range(want) : want \in Range(Wants)}
ASSUME LabelsAreSome == \A s \in Wanted : s.labels # None

\* A spec without a version gets one later: the latest, or the one that is installed.
VersionsOf(wanted) == (ToSet(Releases) \cup {s.version : s \in wanted}) \ {None}
Versioned(s, versions) ==
  {s} \cup {[s EXCEPT !.version = v] : v \in IF s.version = None THEN versions ELSE {}}
SpecsOf(wanted) == UNION {Versioned(s, VersionsOf(wanted)) : s \in wanted}
Specs == SpecsOf(Wanted)

\* What discovery finds in the 00-ghars.conf of a spec
Discover(unit) == [hash |-> DiscoveredHash(unit), annotations |-> DiscoveredAnnotations(unit)]
Discovered == Table(LAMBDA s : Discover(ParsedUnit(RenderIdentity(s))), Specs)
Rendered == Table(RenderRunnerUnit, Specs)
RenderableSpecs == {s \in Specs : Renderable(s)}

-----------------------------------------------------------------------------
(* Discovery *)

Found(n) == Discovered[runners[n].spec]

\* classify_drift: a managed drop-in that was edited is not looked at.
InSync(n) == runners[n].intact /\ ~runners[n].extra

-----------------------------------------------------------------------------
(* Planning *)

\* bin.<v>/bin/runsvc.sh is in the home that the candidate will have.
Installed(n, zone, v) == runners[n].spec.zone = zone /\ runners[n].spec.version = v

\* The installed version is forgotten when GitHub does not answer.
InheritNothing(n, s, v) == s

\* v: the version that the annotation names
InheritRunnerVersion(n, s, v) ==
  IF s.version = None /\ v \notin {None, <<>>} /\ ValidateVersion(v) /\ Installed(n, s.zone, v)
  THEN [s EXCEPT !.version = v] ELSE s

\* want: the desired specs
Candidate(n, want) ==
  IF n \in DOMAIN runners
  THEN InheritRunnerVersion(n, want[n], Found(n).annotations.version) ELSE want[n]

\* A change of the hash that nothing else explains is no longer absorbed in place.
HashRecreates(found, s, inSync) ==
  IF found.hash # SpecHash(s) THEN "recreate" ELSE IF inSync THEN "noop" ELSE "update"

\* A runner that is there and that the config has: found is what discovery says of it.
Compared(found, s, inSync) ==
  IF found.hash = SpecHash(s) /\ inSync THEN "noop"
  ELSE IF ClassifyRecreateReasons(found.annotations, s) # {} THEN "recreate"
  ELSE "update"

ActionKind(n, want) ==
  IF n \notin DOMAIN want THEN "remove"
  ELSE IF n \notin DOMAIN runners THEN "create"
  ELSE Compared(Found(n), Candidate(n, want), InSync(n))

\* A drop-in that was not there before is not looked at.
DropInChangesOfOld(old, new) ==
  {b \in DOMAIN old \ {"00-ghars"} : b \notin DOMAIN new \/ old[b] # new[b]}

\* The managed drop-ins, other than the annotations, that the new spec changes
DropInChanges(old, new) ==
  {b \in (DOMAIN old \cup DOMAIN new) \ {"00-ghars"} :
     b \notin DOMAIN old \cap DOMAIN new \/ old[b] # new[b]}

\* The planner knows that something changed but not what: it logs a warning.
Uncovered(found, s, old, new) ==
  /\ found.hash # SpecHash(s)
  /\ ClassifyRecreateReasons(found.annotations, s) = {}
  /\ FieldChanges(found.annotations, s) = {} /\ DropInChanges(old.dropIns, new.dropIns) = {}

PoolKind(p, refs) ==
  IF p \notin DOMAIN refs THEN "remove"
  ELSE IF p \notin DOMAIN pools THEN "create"
  ELSE IF DiscoveredHash(ParsedUnit(RenderCacheDropIn(pools[p]))) # CachePoolHash(CachePoolPlan(p, refs[p], Schemas[schema]))
  THEN "update" ELSE "noop"

\* Plan time: the lookup of the latest release may fail, with a warning only.
Latest(online) == IF online THEN Releases[released] ELSE None
Input(i, online) == <<i, Latest(online), Schemas[schema]>>

PlanFrom(want, refs) ==
  [runners |-> [n \in DOMAIN want \cup DOMAIN runners |-> ActionKind(n, want)],
   pools   |-> [p \in DOMAIN refs \cup DOMAIN pools |-> PoolKind(p, refs)]]

\* The first error ends the command before any change.
AcceptedPlan(plan, want, refs) ==
  /\ \A n \in DOMAIN want : plan.runners[n] # "noop" => Candidate(n, want) \in RenderableSpecs
  /\ \A p \in DOMAIN refs : PoolPlannable(refs[p])

-----------------------------------------------------------------------------
(* Applying *)

\* resolve_plan_releases: at apply time the release must be found.
Resolved(s) == [s EXCEPT !.version = Or(@, Releases[released])]

\* What execute_create_runner needs and nothing has checked before.
Creatable(s) == ValidateUrl(s.url)

\* s: the candidate of runner n
After(n, kind, s) ==
  CASE kind = "noop"   -> runners[n]
    [] kind = "update" -> [runners[n] EXCEPT !.spec = s, !.intact = TRUE]
    [] kind = "create" -> [spec |-> Resolved(s), intact |-> TRUE, extra |-> FALSE]
    \* removed and created; the operator's drop-ins are put back
    [] kind = "recreate" -> [spec |-> Resolved(s), intact |-> TRUE, extra |-> runners[n].extra]

\* A recreate finds the credentials of the old registration and keeps them.
RegistrationsKept(want, new) ==
  [n \in DOMAIN want |-> IF n \in DOMAIN registered THEN registered[n]
                         ELSE [url |-> want[n].url, labels |-> want[n].labels]]

\* config.sh runs, and namespace files are written, only when a runner is created.
Registrations(want, new) ==
  [n \in DOMAIN want |-> IF n \in new THEN [url |-> want[n].url, labels |-> want[n].labels]
                         ELSE registered[n]]

Namespaces(want, new) ==
  [n \in DOMAIN want |-> IF n \in new THEN want[n].network ELSE netns[n]]

Execute(want, refs, plan) ==
  LET new == {n \in DOMAIN want : plan.runners[n] \in {"create", "recreate"}}
  IN /\ AcceptedPlan(plan, want, refs)
     /\ \A n \in new : Creatable(want[n])
     /\ runners' = [n \in DOMAIN want |-> After(n, plan.runners[n], Candidate(n, want))]
     /\ pools' = [p \in DOMAIN refs |->
                    IF plan.pools[p] = "noop" THEN pools[p]
                    ELSE CachePoolPlan(p, refs[p], Schemas[schema])]
     /\ registered' = Registrations(want, new)
     /\ netns' = Namespaces(want, new)

PlanAndExecute(want, refs) == Execute(want, refs, PlanFrom(want, refs))

Apply(i, online) ==
  /\ PlanAndExecute(Wants[Input(i, online)], Refs[Input(i, online)])
  /\ applied' = [cfg |-> i, current |-> online, clean |-> TRUE]
  /\ UNCHANGED <<released, schema, edits>>

-----------------------------------------------------------------------------
(* What happens between two applies *)

Soiled == applied' = IF applied = None THEN None ELSE [applied EXCEPT !.clean = FALSE]

\* An operator adds or removes a drop-in, or edits the unit file.
OperatorDropIn(n) ==
  /\ edits < MaxEdits /\ edits' = edits + 1
  /\ runners' = [runners EXCEPT ![n].extra = ~@]
  /\ Soiled
  /\ UNCHANGED <<pools, registered, netns, released, schema>>

EditUnit(n) ==
  /\ edits < MaxEdits /\ edits' = edits + 1
  /\ runners' = [runners EXCEPT ![n].intact = FALSE]
  /\ Soiled
  /\ UNCHANGED <<pools, registered, netns, released, schema>>

\* GitHub publishes a release; ghars is upgraded to another renderer.
NewRelease ==
  /\ released < Len(Releases) /\ released' = released + 1
  /\ applied' = IF applied = None THEN None ELSE [applied EXCEPT !.current = FALSE]
  /\ UNCHANGED <<runners, pools, registered, netns, schema, edits>>

Upgrade ==
  /\ schema < Len(Schemas) /\ schema' = schema + 1
  /\ Soiled
  /\ UNCHANGED <<runners, pools, registered, netns, released, edits>>

Init ==
  /\ runners = Empty /\ pools = Empty /\ registered = Empty /\ netns = Empty
  /\ released = 1 /\ schema = 1 /\ edits = 0 /\ applied = None

Next ==
  \/ \E i \in Accepted, online \in BOOLEAN : Apply(i, online)
  \/ \E n \in DOMAIN runners : OperatorDropIn(n) \/ EditUnit(n)
  \/ NewRelease \/ Upgrade

Spec == Init /\ [][Next]_vars

-----------------------------------------------------------------------------
(* Properties *)

\* The plans that the config of the last apply gives now: with the release lookup
\* failing, and, when the lookup worked and GitHub has nothing newer, with it working.
Replans ==
  {PlanFrom(Wants[Input(applied.cfg, online)], Refs[Input(applied.cfg, online)]) :
     online \in {o \in BOOLEAN : o => applied.current}}

\* An apply leaves nothing to do: planning again the config that was just applied
\* gives only NoOps, whether or not GitHub answers, and an operator's drop-in costs
\* no more than an in-place update (plan_from_with_latest, compute.rs 257-330).
Idempotent ==
  applied # None /\ applied.clean =>
    \A plan \in Replans :
      /\ \A n \in DOMAIN plan.runners :
           plan.runners[n] = IF runners[n].extra THEN "update" ELSE "noop"
      /\ \A p \in DOMAIN plan.pools : plan.pools[p] = "noop"

\* Neither a hand edit nor a new ghars makes the unchanged config recreate a runner,
\* which would register it again and delete its home (compute.rs 499-531).
UnchangedConfigKeepsRunners ==
  applied # None =>
    \A plan \in Replans : \A n \in DOMAIN plan.runners : plan.runners[n] \in {"noop", "update"}

\* A runner that is left alone has exactly the files that its spec renders to, whatever
\* config the planner is given (plan/hash.rs, compute.rs 318-343).
NoChangeMissed ==
  \A i \in Accepted :
    LET want == Wants[Input(i, FALSE)]
    IN \A n \in DOMAIN runners \cap DOMAIN want :
         ActionKind(n, want) = "noop" => Rendered[Candidate(n, want)] = Rendered[runners[n].spec]

\* The plans for the runners that are there: the spec of each, and the one it would get
Updates ==
  {u \in UNION {LET want == Wants[Input(i, FALSE)]
                IN {<<runners[n].spec, Candidate(n, want)>> : n \in DOMAIN runners \cap DOMAIN want} :
                i \in Accepted} :
     u[2] \in RenderableSpecs}

\* The lists of paths that a runner sees read-only
ReadOnlyPaths(h) ==
  When(h.ro \notin {None, <<>>}, <<h.ro>>) \o When(h.binds # <<>>, <<h.binds>>)
  \o When(h.etc = "broad", << << <<"/", "etc">> >> >>)

\* The causes that the planner does not show: a new renderer, the environment, what a
\* namespace, a pool or a hook has in files of its own, a pin where there was none, and
\* another way to write the same paths or the same hosts without a proxy.
UnshownCause(old, new) ==
  \/ new.schema # old.schema \/ new.env # old.env
  \/ new.caches # old.caches \/ new.hooks # old.hooks
  \/ old.network # None /\ new.network # None
     /\ \/ old.network.name # new.network.name \/ old.network.subnet # new.network.subnet
        \/ old.network.spec.egress # new.network.spec.egress
  \/ (old.tarball = None /\ new.tarball # None) \/ (old.sha = None /\ new.sha # None)
  \/ old.hard # new.hard /\ ReadOnlyPaths(old.hard) = ReadOnlyPaths(new.hard)
     /\ \A field \in {"flags", "families", "syscalls", "caps"} : old.hard[field] = new.hard[field]
  \/ old.proxy # None /\ new.proxy # None /\ old.proxy.noProxy # new.proxy.noProxy
     /\ JoinSeq(old.proxy.noProxy, Comma) = JoinSeq(new.proxy.noProxy, Comma)

\* An update for which the plan has no explanation has one of the known causes
\* (compute.rs 463-529).
WarningsExplained ==
  \A u \in Updates :
    Uncovered(Discovered[u[1]], u[2], Rendered[u[1]], Rendered[u[2]]) => UnshownCause(u[1], u[2])

\* The order in which an operator writes a list does not show: a config with its
\* lists reversed plans the same (merge.rs, canonicalize_network_spec).
ReversedHard(h) ==
  [h EXCEPT !.families = Reverse(@), !.syscalls = Reverse(@), !.caps = Reverse(@)]
ReversedRunner(r) ==
  [r EXCEPT !.labels = Reverse(@), !.caches = Reverse(@), !.hard = ReversedHard(@)]
ReversedPool(p) == [p EXCEPT !.kinds = Reverse(@)]
ReversedNetwork(n) ==
  [n EXCEPT !.allow = Reverse(@), !.deny = Reverse(@), !.families = Reverse(@)]
Reversed(c) ==
  [c EXCEPT !.defaults.labels = Reverse(@), !.defaults.hard = ReversedHard(@),
            !.runners = [i \in DOMAIN @ |-> ReversedRunner(@[i])],
            !.pools = [p \in DOMAIN @ |-> ReversedPool(@[p])],
            !.networks = [k \in DOMAIN @ |-> ReversedNetwork(@[k])]]
OrderFree ==
  {i \in Accepted : \A k \in ToSet(Schemas) :
                      Desired(Reversed(Configs[i]), None, k) = Wants[<<i, None, k>>]}
OrderDoesNotMatter == applied # None => applied.cfg \in OrderFree

\* GitHub knows each runner by the URL and the labels of the config: a change of
\* either is never absorbed by an in-place update (classify.rs 348-505).
RegistrationCurrent ==
  applied # None =>
    \A n \in DOMAIN runners :
      LET want == Wants[Input(applied.cfg, FALSE)][n]
      IN registered[n] = [url |-> want.url, labels |-> want.labels]

\* found says of a runner what its spec s does
Recovers(found, s) ==
  LET a == found.annotations
  IN /\ ReconstructIdentity(a) = [url |-> s.url, auth |-> s.auth, zone |-> s.zone]
     /\ found.hash = SpecHash(s)
     /\ a.version = s.version /\ a.labels = s.labels
     /\ a.caches = {b.name : b \in s.caches} /\ a.mode = Mode(s)

\* What discovery reads from 00-ghars.conf is what the renderer put there, so the
\* planner compares the right values and a removal finds the right home, URL and
\* credential (ParsedUnit, DiscoveredAnnotations, reconstruct_identity).
AnnotationsRecovered == \A n \in DOMAIN runners : Recovers(Found(n), runners[n].spec)

\* Names that the kernel or systemd would refuse, and subnets used twice, never
\* reach the host, however the names were generated (load.rs 1080-1202).
NamesFit ==
  \A n \in DOMAIN runners :
    LET s == runners[n].spec
    IN /\ UserNameLen(s.zone) <= SYSTEMD_USER_GROUP_NAME_MAX
       /\ Mode(s) = <<"netns">> =>
            /\ VethNameLen(n) < IFNAMSIZ
            /\ \A m \in DOMAIN runners \ {n} :
                 Mode(runners[m].spec) = <<"netns">> =>
                   runners[m].spec.network.subnet # s.network.subnet

\* The files from which the namespace of a runner is set up again at its next restart
\* are those of the network that the config asks for (apply/netns.rs 24-157).
NetnsFollows ==
  applied # None =>
    \A n \in DOMAIN runners :
      Mode(runners[n].spec) = <<"netns">> => netns[n] = runners[n].spec.network
=============================================================================
