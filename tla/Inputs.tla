------------------------------- MODULE Inputs -------------------------------
(***************************************************************************)
(* From ghars.toml to one effective spec per runner: the checks of         *)
(* load_config (src/cli/load.rs, src/config.rs), count expansion           *)
(* (src/plan/expand.rs), lowering and canonicalisation                     *)
(* (src/plan/compute.rs), inheritance from [defaults] (src/plan/merge.rs)  *)
(* and the spec hash (src/plan/hash.rs).                                   *)
(*                                                                         *)
(* A config is a record [auth, defaults, runners, pools, networks, proxy,  *)
(* hooks]; tables are functions from their keys and lists are sequences.   *)
(* A list that the code sorts and deduplicates becomes a set.              *)
(***************************************************************************)
EXTENDS Validators

CONSTANTS
  MaxCount,         \* MAX_COUNT (1024 in the code)
  NetnsPoolSlots,   \* NETNS_POOL_SLOTS (64 in the code)
  HostArch,
  DefaultZone

Text == Seq(STRING)
Texts == Seq(Text)
Option(S) == {None} \cup S
Archs == {<<"x86_64">>, <<"aarch64">>}

\* The numbers that Digits can write
Decimals == 0..9999

ASSUME InputsConstants ==
  /\ MaxCount \in Decimals \ {0} /\ NetnsPoolSlots \in Nat \ {0}
  /\ HostArch \in Archs /\ DefaultZone \in Text /\ ValidateTrustZone(DefaultZone)
  /\ None \notin Text /\ None \notin Archs /\ None \notin Nat

\* The function with the values Op(x)
Table(Op(_), S) == [x \in S |-> Op(x)]

Or(a, b) == IF a # None THEN a ELSE b           \* Option::or
NonEmpty(s) == IF s = <<>> THEN None ELSE s     \* Option::filter(!is_empty)
Runners(c) == ToSet(c.runners)
Proxies(c) == {p \in {c.proxy} \cup {r.proxy : r \in Runners(c)} : p # None}
HooksOf(c) == {h \in {c.hooks} \cup {r.hooks : r \in Runners(c)} : h # None}
Kinds == {"ccache", "sccache", "ktstr"}
NetworkOf(c, r) == Or(r.network, c.defaults.network)

-----------------------------------------------------------------------------
(* src/config.rs: the tables of ghars.toml, with what they are when left out *)

HardeningFlags == {"kvm", "restrict_realtime", "protect_control_groups",
                   "restrict_suid_sgid", "private_devices", "private_ipc"}
Hardening ==
  [flags |-> [f \in HardeningFlags |-> None], families |-> <<>>, syscalls |-> <<>>, caps |-> <<>>,
   etc |-> "narrow", ro |-> None, binds |-> <<>>]
EnvironmentSpec == [vars |-> <<>>, prepend |-> <<>>, append |-> <<>>]
ProxySpec == [http |-> None, https |-> None, noProxy |-> <<>>, certs |-> <<>>]
HooksSpec == [pre |-> None, post |-> None, cleanup |-> None]
PatSpec(env, file) == [kind |-> "pat", env |-> env, file |-> file]

RunnerSpec(name, url) ==
  [name |-> name, count |-> None, url |-> url, auth |-> None, labels |-> <<>>, version |-> None,
   sha |-> None, tarball |-> None, arch |-> None, caches |-> <<>>, zone |-> DefaultZone,
   network |-> None, memory |-> None, cpus |-> None, mems |-> None, proxy |-> None,
   hooks |-> None, hard |-> Hardening, env |-> EnvironmentSpec]

Defaults ==
  [auth |-> None, labels |-> <<>>, version |-> None, sha |-> None, arch |-> None,
   network |-> None, memory |-> None, hard |-> Hardening, env |-> EnvironmentSpec]

CachePoolSpec(kinds, size) ==
  [kinds |-> kinds, size |-> size, mode |-> "shared", zone |-> DefaultZone,
   sccache |-> None, sleep |-> None, server |-> "pooled"]

NetworkSpec(mode) ==
  [mode |-> mode, egress |-> <<>>, allow |-> <<>>, deny |-> <<>>, families |-> <<>>,
   dns |-> None, ipv6 |-> FALSE]

\* The same tables as types: what serde lets into a Config.  An address is written in
\* digits, letters, dots and colons.
Toggles == Option(BOOLEAN)
HardeningTables ==
  [flags : [HardeningFlags -> Toggles], families : Texts, syscalls : Texts, caps : Texts,
   etc : {"narrow", "broad"}, ro : Option(Texts), binds : Texts]
ProxyTables ==
  [http : Option(Text), https : Option(Text), noProxy : Texts,
   certs : Seq([env : Text, path : Text])]
HooksTables == [pre : Option(Text), post : Option(Text), cleanup : Toggles]
PoolTables ==
  [kinds : Seq(Kinds), size : Text, mode : {"shared", "isolated"}, zone : Text,
   sccache : Option(Text), sleep : Option(Text), server : {"pooled", "per_runner"}]
Cidrs == [net : Nat, host : Nat]
Addresses == {a \in Text : Over(a, Lower \cup Upper \cup Digit \cup {".", ":"})}

IsEnvironment(e) ==
  /\ e \in [vars : {e.vars}, prepend : Texts, append : Texts]
  /\ IsFiniteSet(DOMAIN e.vars) /\ \A k \in DOMAIN e.vars : k \in Text /\ e.vars[k] \in Text
IsRunner(r) ==
  /\ r \in [name : Text, count : Option(Nat), url : Text, auth : Option(Text), labels : Texts,
            version : Option(Text), sha : Option(Text), tarball : Option(Text),
            arch : Option(Archs), caches : Texts, zone : Text, network : Option(Text),
            memory : Option(Text), cpus : Option(Text), mems : Option(Text),
            proxy : Option(ProxyTables), hooks : Option(HooksTables), hard : HardeningTables,
            env : {r.env}]
  /\ IsEnvironment(r.env)
IsDefaults(d) ==
  /\ d \in [auth : Option(Text), labels : Texts, version : Option(Text), sha : Option(Text),
            arch : Option(Archs), network : Option(Text), memory : Option(Text),
            hard : HardeningTables, env : {d.env}]
  /\ IsEnvironment(d.env)
IsNetwork(n) ==
  n \in [mode : {"netns", "open"}, egress : {n.egress}, allow : Seq(Cidrs), deny : Seq(Cidrs),
         families : Texts, dns : Option(Seq(Addresses)), ipv6 : BOOLEAN]
IsConfig(c) ==
  /\ c = [auth |-> c.auth, defaults |-> c.defaults, runners |-> c.runners, pools |-> c.pools,
          networks |-> c.networks, proxy |-> c.proxy, hooks |-> c.hooks]
  /\ IsDefaults(c.defaults) /\ c.runners \in Seq(Runners(c)) /\ \A r \in Runners(c) : IsRunner(r)
  /\ DOMAIN c.auth \subseteq Text
  /\ DOMAIN c.pools \subseteq Text /\ c.pools \in [DOMAIN c.pools -> PoolTables]
  /\ DOMAIN c.networks \subseteq Text /\ c.networks = [k \in DOMAIN c.networks |-> c.networks[k]]
  /\ \A k \in DOMAIN c.networks : IsNetwork(c.networks[k])
  /\ c.proxy \in Option(ProxyTables) /\ c.hooks \in Option(HooksTables)

EgressRule(ports) == [addr |-> [ip |-> TRUE], port |-> [kind |-> "set", of |-> ports], comment |-> None]

-----------------------------------------------------------------------------
(* src/plan/expand.rs *)

IsCountBlock(r) == r.count # None /\ r.count > 1

\* The numbers of up to four digits, in decimal
Width(i) == IF i < 10 THEN 1 ELSE IF i < 100 THEN 2 ELSE IF i < 1000 THEN 3 ELSE 4
Decimal ==
  LET d == <<"0", "1", "2", "3", "4", "5", "6", "7", "8", "9">>
      unit == <<1000, 100, 10, 1>>
  IN [i \in Decimals |->
        [k \in 1..Width(i) |-> d[((i \div unit[(4 - Width(i)) + k]) % 10) + 1]]]
Digits(i) == Decimal[i]

Generated(r) == [i \in 1..r.count |->
                   [r EXCEPT !.name = @ \o <<"-">> \o Digits(i), !.count = None]]

ExplicitNames(c) == {r.name : r \in {x \in Runners(c) : ~IsCountBlock(x)}}

\* An explicit block replaces the instance that has its name; count = 0 is none.
Instances(c, r) ==
  IF IsCountBlock(r)
  THEN LET g == Generated(r)
       IN FlattenSeq([i \in DOMAIN g |-> IF g[i].name \in ExplicitNames(c) THEN <<>> ELSE <<g[i]>>])
  ELSE IF r.count = 0 THEN <<>> ELSE <<[r EXCEPT !.count = None]>>

Expandable(c) ==
  LET blocks == {i \in DOMAIN c.runners : IsCountBlock(c.runners[i])}
      names(i) == {g.name : g \in ToSet(Instances(c, c.runners[i]))}
  IN /\ \A i \in blocks : /\ c.runners[i].count <= MaxCount
                          /\ \A g \in ToSet(Generated(c.runners[i])) :
                               ValidateIdentifier(g.name)
     /\ \A i, j \in blocks : i # j => names(i) \cap names(j) = {}

ExpandCounts(c) == FlattenSeq([i \in DOMAIN c.runners |-> Instances(c, c.runners[i])])

-----------------------------------------------------------------------------
(* src/cli/load.rs: the checks of load_config *)

\* Nothing is refused.
CheckIdentityFieldNot(s) == TRUE

CheckIdentityField(s) == Symbols(s) \cap Control = {}

ValidateSecurityOverrides(c) ==
  /\ \A h \in {c.defaults.hard} \cup {r.hard : r \in Runners(c)} :
       /\ ValidateExtraCapabilities(h.caps) /\ ValidateExtraBindPaths(h.binds)
       /\ ValidateRestrictAddressFamilies(h.families) /\ ValidateExtraSyscalls(h.syscalls)
  /\ \A h \in HooksOf(c) : \A p \in {h.pre, h.post} \ {None} : ValidateHookScript(p)

ValidateRunnerNames(c) == \A r \in Runners(c) : ValidateIdentifier(r.name)
ValidateAuthKeys(c) == \A k \in DOMAIN c.auth : ValidateIdentifier(k)
ValidateCachePoolNames(c) ==
  \A k \in DOMAIN c.pools \cup UNION {ToSet(r.caches) : r \in Runners(c)} : ValidateIdentifier(k)

ValidateTrustZones(c) ==
  \A x \in Runners(c) \cup {c.pools[k] : k \in DOMAIN c.pools} :
    CheckIdentityField(x.zone) /\ ValidateTrustZone(x.zone)

Count(s, x) == Cardinality({i \in DOMAIN s : s[i] = x})

ValidateNoDuplicateCaches(c) ==
  \A r \in Runners(c) : Cardinality(ToSet(r.caches)) = Len(r.caches)

\* At most one pool of a kind; references to unknown pools are left to lowering.
ValidateNoDuplicateCacheKinds(c) ==
  \A r \in Runners(c), k \in Kinds :
    Cardinality({n \in ToSet(r.caches) :
                   n \in DOMAIN c.pools /\ k \in ToSet(c.pools[n].kinds)}) <= 1

ValidateCachePoolKinds(c) ==
  \A n \in DOMAIN c.pools :
    c.pools[n].kinds # <<>> /\ \A k \in Kinds : Count(c.pools[n].kinds, k) <= 1

ValidateCachePoolBinaries(c) ==
  \A n \in DOMAIN c.pools :
    LET p == c.pools[n]
    IN /\ \A b \in {p.sccache, p.sleep} \ {None} : IsAbsolute(b)
       /\ p.server = "per_runner" => "sccache" \in ToSet(p.kinds)

NoHiddenChar(s) == s # <<>> /\ s = Trim(s) /\ Symbols(s) \cap Hidden = {}
ValidatePatEnv(e) ==
  NoHiddenChar(e) /\ e[1] \notin Digit /\ Over(e, Lower \cup Upper \cup Digit \cup {"_"})
\* A PAT comes from exactly one of a variable and a file.
ValidatePatXor(c) ==
  \A k \in DOMAIN c.auth :
    LET a == c.auth[k]
    IN a.kind = "pat" => /\ a.env # None => ValidatePatEnv(a.env)
                         /\ a.file # None => NoHiddenChar(a.file)
                         /\ (a.env # None) # (a.file # None)

ValidateProxies(c) ==
  \A p \in Proxies(c) :
    /\ \A b \in ToSet(p.certs) : Trim(b.env) # <<>> /\ Trim(b.path) # <<>> /\ IsAbsolute(b.path)
    /\ \A e \in ToSet(p.noProxy) : Trim(e) # <<>>

\* The number of an instance is taken to have one digit.
WorstCaseLenOneDigit(r) == Len(r.name) + IF IsCountBlock(r) THEN 2 ELSE 0

\* The longest name that a netns block expands to must leave room for the veth name.
WorstCaseLen(r) == Len(r.name) + IF IsCountBlock(r) THEN 1 + Len(Digits(r.count)) ELSE 0

ValidateNetnsRunnerNameLengths(c) ==
  \A r \in Runners(c) :
    LET key == NetworkOf(c, r)
    IN /\ key \in DOMAIN c.networks /\ r.count # 0
       /\ c.networks[key].mode = "netns"
       => WorstCaseLen(r) <= NETNS_RUNNER_NAME_MAX_LEN

ValidateRunnerTarballs(c) ==
  \A r \in Runners(c) : r.tarball # None => ValidateRunnerTarball(r.tarball)

\* The checks that Config makes itself (src/config.rs)
ValidateNetworks(c) == \A k \in DOMAIN c.networks : ValidateNetworkSpec(c.networks[k])
ValidateEnvironments(c) ==
  \A e \in {c.defaults.env} \cup {r.env : r \in Runners(c)} : ValidateEnvironmentSpec(e)
ValidateRunnerVersions(c) ==
  \A v \in ({c.defaults.version} \cup {r.version : r \in Runners(c)}) \ {None} :
    ValidateVersion(v)

LoadConfig(c) ==
  /\ ValidateNetworks(c) /\ ValidateSecurityOverrides(c)
  /\ ValidateRunnerNames(c) /\ ValidateAuthKeys(c) /\ ValidateCachePoolNames(c)
  /\ ValidateTrustZones(c) /\ ValidateNoDuplicateCaches(c) /\ ValidateNoDuplicateCacheKinds(c)
  /\ ValidateCachePoolKinds(c) /\ ValidateCachePoolBinaries(c)
  /\ ValidatePatXor(c) /\ ValidateProxies(c) /\ ValidateRunnerTarballs(c)
  /\ ValidateNetnsRunnerNameLengths(c) /\ ValidateEnvironments(c) /\ ValidateRunnerVersions(c)

-----------------------------------------------------------------------------
(* src/plan/merge.rs *)

\* Keeps the first of equal entries, in order.
Deduped(all) ==
  LET kept[i \in 0..Len(all)] ==
        IF i = 0 THEN <<>>
        ELSE IF all[i] \in ToSet(kept[i - 1]) THEN kept[i - 1] ELSE Append(kept[i - 1], all[i])
  IN kept[Len(all)]
Additive(d, r) == Deduped(d \o r)

MergeEnvironment(r, d) ==
  [vars    |-> [k \in DOMAIN r.vars \cup DOMAIN d.vars |->
                  IF k \in DOMAIN r.vars THEN r.vars[k] ELSE d.vars[k]],
   prepend |-> Additive(d.prepend, r.prepend),
   append  |-> Additive(d.append, r.append)]

PickVec(r, d) == ToSet(IF r = <<>> THEN d ELSE r)

\* Capabilities stay in the order they were written: the place is part of each.
MergeHardeningUnsorted(r, d) ==
  LET all == d.caps \o r.caps
  IN [flags |-> [f \in DOMAIN r.flags |-> Or(r.flags[f], d.flags[f])],
      families |-> PickVec(r.families, d.families), syscalls |-> PickVec(r.syscalls, d.syscalls),
      caps |-> {Digits(i) \o all[i] : i \in DOMAIN all}, etc |-> r.etc,
      ro |-> Or(r.ro, d.ro), binds |-> d.binds \o r.binds]

\* etc_bind_style is the runner's own; lists are sorted and deduplicated, paths are not.
MergeHardening(r, d) ==
  [flags    |-> [f \in DOMAIN r.flags |-> Or(r.flags[f], d.flags[f])],
   families |-> PickVec(r.families, d.families),
   syscalls |-> PickVec(r.syscalls, d.syscalls),
   caps     |-> ToSet(d.caps \o r.caps),
   etc      |-> r.etc,
   ro       |-> Or(r.ro, d.ro),
   binds    |-> d.binds \o r.binds]

MergeLabels(r, d) ==
  IF d.labels \o r.labels = <<>> THEN {r.name} ELSE ToSet(d.labels \o r.labels)

RunnerZone(r) == IF r.zone = <<>> THEN DefaultZone ELSE r.zone

\* An EffectiveRunnerSpec: what the runner and [defaults] say, and what was bound.
MergeDefaults(r, d, caches, network, proxy, hooks, schema) ==
  [name |-> r.name, url |-> r.url, arch |-> Or(Or(r.arch, d.arch), HostArch),
   labels |-> MergeLabels(r, d), memory |-> NonEmpty(Or(r.memory, d.memory)),
   version |-> Or(r.version, d.version), sha |-> NonEmpty(Or(r.sha, d.sha)),
   tarball |-> NonEmpty(r.tarball), auth |-> Or(r.auth, d.auth), caches |-> caches,
   zone |-> RunnerZone(r), network |-> network, proxy |-> proxy, hooks |-> hooks,
   hard |-> MergeHardening(r.hard, d.hard), cpus |-> NonEmpty(r.cpus),
   mems |-> NonEmpty(r.mems), env |-> MergeEnvironment(r.env, d.env), schema |-> schema]

-----------------------------------------------------------------------------
(* src/plan/compute.rs: caches and networks of a runner *)

SccacheCandidates == << <<"/", "local", "/", "sccache">>, <<"/", "usr", "/", "sccache">> >>
SleepCandidates   == << <<"/", "usr", "/", "sleep">>, <<"/", "bin", "/", "sleep">> >>

\* None when the binary is not found
ResolveOneBinary(pinned, candidates) ==
  LET found == SelectSeq(candidates, LAMBDA p : p \in DOMAIN Files)
  IN IF pinned # None THEN IF IsAbsolute(pinned) THEN pinned ELSE None
     ELSE IF found = <<>> THEN None ELSE found[1]

ServesSccache(p) == "sccache" \in ToSet(p.kinds)
PerRunner(p) == ServesSccache(p) /\ p.server = "per_runner"
NeedsSleep(p) == ~ServesSccache(p) \/ PerRunner(p)

Resolvable(p) ==
  /\ ServesSccache(p) => ResolveOneBinary(p.sccache, SccacheCandidates) # None
  /\ NeedsSleep(p) => ResolveOneBinary(p.sleep, SleepCandidates) # None

\* A per-runner pool drops the sccache path that was looked up for it.
ResolveCachePoolPaths(p) ==
  [sccache |-> IF ServesSccache(p) /\ ~PerRunner(p)
               THEN ResolveOneBinary(p.sccache, SccacheCandidates) ELSE None,
   sleep   |-> IF NeedsSleep(p) THEN ResolveOneBinary(p.sleep, SleepCandidates) ELSE None]

EffectiveCacheBinding(n, p, schema) ==
  [name |-> n, kinds |-> ToSet(p.kinds), size |-> p.size, mode |-> p.mode, zone |-> p.zone,
   sccache |-> ResolveCachePoolPaths(p).sccache, sleep |-> ResolveCachePoolPaths(p).sleep,
   server |-> p.server, schema |-> schema]

Trunc(cidr) == [cidr EXCEPT !.host = 0]

CanonicalizeNetworkSpec(n) ==
  [n EXCEPT !.families = ToSet(@),
            !.allow = {Trunc(x) : x \in ToSet(@)},
            !.deny  = {Trunc(x) : x \in ToSet(@)}]

EffectiveNetworkBinding(key, n, slot) ==
  [name |-> key, spec |-> CanonicalizeNetworkSpec(n),
   subnet |-> IF n.mode = "netns" THEN slot ELSE None]

\* An open network without cgroup filters leaves no trace in the spec.
NetworkBinding(c, r, slot) ==
  LET key == NetworkOf(c, r)
      n == c.networks[key]
  IN IF key = None \/ (n.mode = "open" /\ n.allow = <<>> /\ n.deny = <<>> /\ n.families = <<>>)
     THEN None
     ELSE EffectiveNetworkBinding(key, n, slot)

-----------------------------------------------------------------------------
(* src/plan/compute.rs: lower_to_effective *)

AuthKnown(c, r) == Or(r.auth, c.defaults.auth) \in DOMAIN c.auth

CachesUsable(c, r) ==
  /\ \A n \in ToSet(r.caches) :
       n \in DOMAIN c.pools /\ c.pools[n].zone = RunnerZone(r) /\ Resolvable(c.pools[n])
  /\ \A k \in Kinds : Cardinality({n \in ToSet(r.caches) : k \in ToSet(c.pools[n].kinds)}) <= 1

\* netns_subnet_for_slot: one /30 for each position
NetnsSubnetForSlot(slot) == slot < NetnsPoolSlots
NetworkUsable(c, r, slot) ==
  NetworkOf(c, r) # None =>
    /\ NetworkOf(c, r) \in DOMAIN c.networks
    /\ c.networks[NetworkOf(c, r)].mode = "netns" => NetnsSubnetForSlot(slot)

TarballVersioned(c, r) == r.tarball # None => Or(r.version, c.defaults.version) # None

Lowerable(c, r, slot) ==
  AuthKnown(c, r) /\ CachesUsable(c, r) /\ NetworkUsable(c, r, slot) /\ TarballVersioned(c, r)

EmptyProxy(p) == p.http = None /\ p.https = None /\ p.noProxy = <<>> /\ p.certs = <<>>
EmptyHooks(h) == h.pre = None /\ h.post = None /\ h.cleanup = None

LowerToEffective(c, r, slot, schema) ==
  LET proxy == Or(r.proxy, c.proxy)
      hooks == Or(r.hooks, c.hooks)
  IN MergeDefaults(r, c.defaults,
       {EffectiveCacheBinding(n, c.pools[n], schema) : n \in ToSet(r.caches)},
       NetworkBinding(c, r, slot),
       IF proxy # None /\ EmptyProxy(proxy) THEN None ELSE proxy,
       IF hooks # None /\ EmptyHooks(hooks) THEN None ELSE hooks, schema)

\* plan_from_with_latest: what the config asks for.  A slot is a position in the
\* expanded list, and of two runners with one name the later is kept.
Plannable(c) ==
  /\ Expandable(c)
  /\ \A i \in DOMAIN ExpandCounts(c) : Lowerable(c, ExpandCounts(c)[i], i - 1)

Tracked(s, latest) ==
  IF s.version = None /\ s.tarball = None THEN [s EXCEPT !.version = latest] ELSE s

\* x: the expanded runners of c
DesiredOf(c, x, latest, schema) ==
  LET last(n) == CHOOSE i \in DOMAIN x :
                   x[i].name = n /\ \A j \in DOMAIN x : x[j].name = n => j <= i
      lowered(i) == LowerToEffective(c, x[i], i - 1, schema)
  IN Table(LAMBDA n : Tracked(lowered(last(n)), latest), {x[i].name : i \in DOMAIN x})
Desired(c, latest, schema) == DesiredOf(c, ExpandCounts(c), latest, schema)

-----------------------------------------------------------------------------
(* src/plan/hash.rs: a digest identifies what was serialised, so it is      *)
(* modelled by that; the paths of the pool binaries are not serialised.     *)

CachePoolHash(b) == [b EXCEPT !.sccache = None, !.sleep = None]
SpecHashWithoutEnv(s) ==
  [s EXCEPT !.caches = {CachePoolHash(b) : b \in @}, !.env = None]
SpecHash(s) == [s EXCEPT !.caches = {CachePoolHash(b) : b \in @}]

\* collect_referenced_cache_pools: the pools of the runners, rebuilt from bindings
ReferencedPools(desired) ==
  LET all == UNION {desired[n].caches : n \in DOMAIN desired}
      one(p) == CHOOSE b \in all : b.name = p
  IN [p \in {b.name : b \in all} |->
        [kinds |-> SetToSeq(one(p).kinds), size |-> one(p).size, mode |-> one(p).mode,
         zone |-> one(p).zone, sccache |-> one(p).sccache, sleep |-> one(p).sleep,
         server |-> one(p).server]]
=============================================================================
