-------------------------------- MODULE Units -------------------------------
(***************************************************************************)
(* The files of a runner and of a cache pool: how they are rendered        *)
(* (src/systemd/units.rs), how discovery reads them back (src/state.rs)    *)
(* and how a rendered spec is compared with what was read                  *)
(* (src/plan/classify.rs).                                                 *)
(*                                                                         *)
(* A file is a sequence of lines [key, val, ref]; a section header has its *)
(* name as key.  A hash stands in `ref', because it is no text.            *)
(***************************************************************************)
EXTENDS Inputs

NoKey == ""
Comma == ","

\* A section is not the absence of one, and what is put between the parts of a text is a
\* string like them, as the words of the annotations are.
ASSUME UnitsConstants ==
  /\ None \notin {"[Unit]", "[Service]"}
  /\ {Comma, "-"} \cup Digit \subseteq STRING
  /\ {"netns", "open", "forward", "static:", "enabled", "disabled"} \subseteq STRING

Line(k, v) == [key |-> k, val |-> v, ref |-> None]
Digest(k, d) == [key |-> k, val |-> <<>>, ref |-> d]
Section(name) == Line(name, <<>>)
When(cond, lines) == IF cond THEN lines ELSE <<>>

\* Vec::join; a sorted list is a set, with one order for each set of texts.
JoinSeq(texts, sep) ==
  LET join[i \in 1..Len(texts)] ==
        IF i = 1 THEN texts[1] ELSE join[i - 1] \o <<sep>> \o texts[i]
  IN IF texts = <<>> THEN <<>> ELSE join[Len(texts)]
Join(set, sep) == JoinSeq(SetToSeq(set), sep)

-----------------------------------------------------------------------------
(* Checks that the renderer makes again *)

CheckNoWhitespacePadding(s) == s = Trim(s)

CheckNoRootBind(p) ==
  IsAbsolute(p) /\ Symbols(p) \cap (White \cup {":"}) = {} /\ ~BindsFilesystemRoot(p)

ValidateIdentityFields(s) ==
  \A t \in {s.name, s.url, s.auth, s.zone} \cup s.labels \cup {b.name : b \in s.caches}
           \cup ({s.version, s.sha} \ {None}) : CheckIdentityField(t)

ValidateHardeningEntries(h) ==
  /\ \A t \in h.families \cup h.syscalls \cup h.caps :
       CheckIdentityField(t) /\ CheckNoWhitespacePadding(t)
  /\ \A p \in ToSet(h.binds) \cup (IF h.ro = None THEN {} ELSE ToSet(h.ro)) :
       CheckIdentityField(p) /\ CheckNoWhitespacePadding(p) /\ CheckNoRootBind(p)

CheckProxy(p) ==
  /\ \A t \in ({p.http, p.https} \ {None}) \cup ToSet(p.noProxy) : CheckIdentityField(t)
  /\ \A b \in ToSet(p.certs) :
       CheckIdentityField(b.env) /\ CheckIdentityField(b.path) /\ CheckNoRootBind(b.path)

CheckHooks(h) ==
  \A p \in {h.pre, h.post} \ {None} : CheckIdentityField(p) /\ CheckNoRootBind(Parent(p))

CheckEnvironment(e) ==
  /\ \A k \in DOMAIN e.vars : CheckIdentityField(k) /\ CheckIdentityField(e.vars[k])
  /\ \A p \in ToSet(e.prepend) \cup ToSet(e.append) : CheckIdentityField(p)

\* The first error of render_runner_unit; only when there is none is a unit returned.
Renderable(s) ==
  /\ ValidateIdentityFields(s)
  /\ \A t \in {s.memory, s.cpus, s.mems} \ {None} : CheckIdentityField(t)
  /\ ValidateHardeningEntries(s.hard)
  /\ \A b \in s.caches : CheckIdentityField(b.size)
  /\ s.network # None =>
       \A f \in s.network.spec.families : CheckIdentityField(f) /\ CheckNoWhitespacePadding(f)
  /\ s.proxy # None => CheckProxy(s.proxy)
  /\ s.hooks # None => CheckHooks(s.hooks)
  /\ CheckEnvironment(s.env)

-----------------------------------------------------------------------------
(* The drop-ins of a runner *)

Home(s) == <<"/">> \o s.zone \o <<"/">> \o s.name \o <<"/">>
Bin(s) == Home(s) \o <<"bin.">> \o (IF s.version = None THEN <<"latest">> ELSE s.version)
Mode(s) == IF s.network # None /\ s.network.spec.mode = "netns" THEN <<"netns">> ELSE <<"open">>

ComposeRunnerPath(s) ==
  << <<"/", "ccache">> >> \o s.env.prepend \o << Home(s) \o <<".cargo">> >>
  \o << <<"/", "usr">> >> \o s.env.append

Escape(v) ==
  FlattenSeq([i \in DOMAIN v |-> IF v[i] = "%" THEN <<"%", "%">> ELSE <<v[i]>>])

EnvAssignments(s) ==
  LET keys == SetToSeq(DOMAIN s.env.vars)
  IN [i \in DOMAIN keys |-> Line("Environment", keys[i] \o <<"=">> \o Escape(s.env.vars[keys[i]]))]

DnsToAnnotation(dns) == IF dns = None THEN <<"forward">> ELSE <<"static:">> \o JoinSeq(dns, Comma)
Ipv6ToAnnotation(on) == IF on THEN <<"enabled">> ELSE <<"disabled">>

Annotations(s) ==
  << Digest("X-Ghars-Spec-Hash", SpecHash(s)),
     Line("X-Ghars-Runner-Name", s.name), Line("X-Ghars-Runner-Url", s.url),
     Line("X-Ghars-Auth-Name", s.auth), Line("X-Ghars-Labels", Join(s.labels, Comma)),
     Line("X-Ghars-Arch", s.arch),
     Line("X-Ghars-Caches", Join({b.name : b \in s.caches}, Comma)),
     Line("X-Ghars-Effective-Version", IF s.version = None THEN <<>> ELSE s.version) >>
  \o When(s.sha # None, << Line("X-Ghars-Runner-Sha256", s.sha) >>)
  \o When(s.tarball # None, << Digest("X-Ghars-Runner-Tarball-Hash", s.tarball) >>)
  \o << Line("X-Ghars-Trust-Zone", s.zone), Line("X-Ghars-Network-Mode", Mode(s)) >>
  \o When(s.network # None /\ s.network.subnet # None,
          << Digest("X-Ghars-Netns-Subnet", s.network.subnet) >>)
  \o When(s.network # None,
          << Line("X-Ghars-Dns", DnsToAnnotation(s.network.spec.dns)),
             Line("X-Ghars-Ipv6", Ipv6ToAnnotation(s.network.spec.ipv6)) >>)

IdentityService(s) ==
  << Section("[Service]"), Line("User", s.zone), Line("BindPaths", <<"/">> \o s.zone),
     Line("WorkingDirectory", Bin(s)), Line("ExecStart", <<>>), Line("ExecStart", Bin(s)),
     Line("Environment", <<"HOME", "=">> \o Home(s)),
     Line("Environment", <<"PATH", "=">> \o JoinSeq(ComposeRunnerPath(s), ":")) >>
  \o EnvAssignments(s)
  \o << Section("[Unit]"), Line("ConditionPathExists", Bin(s)) >>

RenderIdentity(s) == << Section("[Unit]") >> \o Annotations(s) \o IdentityService(s)

\* HardeningProfile: what a flag means when it is set; the template has the rest.
FlagLines(flags) ==
  LET set == SetToSeq({f \in DOMAIN flags : flags[f] # None})
  IN [i \in DOMAIN set |-> Line(set[i], IF flags[set[i]] THEN <<"yes">> ELSE <<"no">>)]

HardeningNeedsDropIn(h) ==
  \/ \E f \in DOMAIN h.flags : h.flags[f] # None
  \/ h.families \cup h.syscalls \cup h.caps # {}
  \/ h.binds # <<>> \/ h.ro # None \/ h.etc = "broad"

RenderHardening(h) ==
  << Section("[Service]") >> \o FlagLines(h.flags)
  \o When(h.families # {}, << Line("RestrictAddressFamilies", Join(h.families, " ")) >>)
  \o When(h.syscalls # {}, << Line("SystemCallFilter", Join(h.syscalls, " ")) >>)
  \o When(h.caps # {}, << Line("CapabilityBoundingSet", Join(h.caps, " ")) >>)
  \o When(h.ro \notin {None, <<>>}, << Line("BindReadOnlyPaths", JoinSeq(h.ro, " ")) >>)
  \o When(h.binds # <<>>, << Line("BindReadOnlyPaths", JoinSeq(h.binds, " ")) >>)
  \o When(h.etc = "broad", << Line("BindReadOnlyPaths", <<"/", "etc">>) >>)

\* A ccache-only runner gets no cache drop-in.
SccacheBindings(s) == {b \in s.caches : "sccache" \in b.kinds}

\* lower_to_effective sorts the bindings of a runner by name.
ByName(bindings) ==
  LET names == SetToSeq({b.name : b \in bindings})
  IN [i \in DOMAIN names |-> CHOOSE b \in bindings : b.name = names[i]]

CacheUnitLines(b) == << Line("Requires", b.name), Line("After", b.name) >>
CacheServiceLines(b) ==
  IF b.server = "pooled"
  THEN << Line("SCCACHE_SERVER_UDS", b.name), Line("SCCACHE_CACHE_SIZE", b.size) >>
  ELSE << Line("SCCACHE_DIR", b.name), Line("SCCACHE_CACHE_SIZE", b.size) >>

RenderCachePool(s) ==
  LET bs == ByName(SccacheBindings(s))
      pooled == \E b \in SccacheBindings(s) : b.server = "pooled"
      dirs == {b.name : b \in SccacheBindings(s)} \cup (IF pooled THEN {<<"/", "run">>} ELSE {})
  IN << Section("[Unit]") >> \o FlattenSeq([i \in DOMAIN bs |-> CacheUnitLines(bs[i])])
     \o << Section("[Service]") >> \o FlattenSeq([i \in DOMAIN bs |-> CacheServiceLines(bs[i])])
     \o << Line("BindPaths", Join(dirs, " ")) >>

RenderResolvBind(s) ==
  << Section("[Service]"),
     Line("BindReadOnlyPaths", IF Mode(s) = <<"netns">> THEN s.name ELSE <<"/", "resolv">>) >>

\* Addresses are no texts: they stand in ref.
RenderNetwork(s) ==
  LET n == s.network.spec
      nets(key, set) == [i \in 1..Cardinality(set) |->
                           Digest(key, SetToSeq(set)[i])]
  IN When(n.mode = "netns", << Section("[Unit]"), Line("BindsTo", s.name),
                               Line("NetworkNamespacePath", s.name) >>)
     \o << Section("[Service]") >> \o nets("IPAddressAllow", n.allow) \o nets("IPAddressDeny", n.deny)
     \o When(n.families # {}, << Line("RestrictAddressFamilies", Join(n.families, " ")) >>)

RenderMemory(s) == << Section("[Service]"), Line("MemoryMax", s.memory) >>
RenderNuma(s) ==
  << Section("[Service]") >> \o When(s.cpus # None, << Line("AllowedCPUs", s.cpus) >>)
                             \o When(s.mems # None, << Line("AllowedMemoryNodes", s.mems) >>)

RenderProxy(p) ==
  << Section("[Service]") >>
  \o When(p.http # None, << Line("HTTP_PROXY", p.http) >>)
  \o When(p.https # None, << Line("HTTPS_PROXY", p.https) >>)
  \o When(p.noProxy # <<>>, << Line("NO_PROXY", JoinSeq(p.noProxy, Comma)) >>)
  \o [i \in DOMAIN p.certs |-> Line("Environment", p.certs[i].env \o <<"=">> \o p.certs[i].path)]
  \o When(p.certs # <<>>, << Line("BindReadOnlyPaths",
                                  JoinSeq([i \in DOMAIN p.certs |-> p.certs[i].path], " ")) >>)

Hook(s, h) == IF s.hooks = None THEN None ELSE s.hooks[h]
CleanupWorkdirEnabled(s) == Hook(s, "cleanup") \in {None, TRUE}

RenderHooks(s) ==
  LET set == SelectSeq(<<Hook(s, "pre"), Hook(s, "post")>>, LAMBDA p : p # None)
  IN << Section("[Service]") >>
     \o When(Hook(s, "pre") # None, << Line("JOB_STARTED", Hook(s, "pre")) >>)
     \o (IF CleanupWorkdirEnabled(s) THEN << Line("JOB_COMPLETED", Home(s)) >>
         ELSE When(Hook(s, "post") # None, << Line("JOB_COMPLETED", Hook(s, "post")) >>))
     \o When(set # <<>>, << Line("BindReadOnlyPaths",
               JoinSeq(Deduped([i \in DOMAIN set |-> Parent(set[i])]), " ")) >>)

RenderLognamespace(s) == << Section("[Service]"), Line("LogNamespace", s.name) >>

\* The drop-ins a spec has
Basenames(s) ==
  {"00-ghars", "15-resolv", "80-lognamespace"}
  \cup (IF s.memory # None THEN {"10-memory"} ELSE {})
  \cup (IF HardeningNeedsDropIn(s.hard) THEN {"20-hardening"} ELSE {})
  \cup (IF SccacheBindings(s) # {} THEN {"30-cache-pool"} ELSE {})
  \cup (IF s.network # None THEN {"40-network"} ELSE {})
  \cup (IF s.cpus # None \/ s.mems # None THEN {"50-numa"} ELSE {})
  \cup (IF s.proxy # None THEN {"60-proxy"} ELSE {})
  \cup (IF CleanupWorkdirEnabled(s) \/ Hook(s, "pre") # None \/ Hook(s, "post") # None
        THEN {"70-hooks"} ELSE {})

Body(s, name) ==
  CASE name = "00-ghars" -> RenderIdentity(s)    [] name = "10-memory" -> RenderMemory(s)
    [] name = "15-resolv" -> RenderResolvBind(s) [] name = "20-hardening" -> RenderHardening(s.hard)
    [] name = "30-cache-pool" -> RenderCachePool(s) [] name = "40-network" -> RenderNetwork(s)
    [] name = "50-numa" -> RenderNuma(s)         [] name = "60-proxy" -> RenderProxy(s.proxy)
    [] name = "70-hooks" -> RenderHooks(s)       [] name = "80-lognamespace" -> RenderLognamespace(s)

-----------------------------------------------------------------------------
(* The files in the runner's home *)

RenderRunnerEnvFile(s) ==
  LET bs == ByName(s.caches)
      keys == SetToSeq(DOMAIN s.env.vars)
      cache(b) ==
        When("ccache" \in b.kinds, << Line("CCACHE_MAXSIZE", b.size) >>)
        \o When("sccache" \in b.kinds /\ b.server = "pooled",
                << Line("SCCACHE_SERVER_UDS", b.name), Line("SCCACHE_CACHE_SIZE", b.size) >>)
        \o When("sccache" \in b.kinds /\ b.server # "pooled",
                << Line("SCCACHE_DIR", b.name), Line("SCCACHE_CACHE_SIZE", b.size) >>)
  IN When(\E b \in s.caches : "ccache" \in b.kinds, << Line("CCACHE_DIR", s.zone) >>)
     \o << Line("KTSTR_CACHE_DIR", s.zone) >>
     \o FlattenSeq([i \in DOMAIN bs |-> cache(bs[i])])
     \o [i \in DOMAIN keys |-> Line(NoKey, keys[i] \o <<"=">> \o s.env.vars[keys[i]])]

RenderCleanupScript(s) ==
  IF CleanupWorkdirEnabled(s) THEN <<Hook(s, "post"), Bin(s), Home(s)>> ELSE <<>>

RenderRunnerUnit(s) ==
  [dropIns |-> [n \in Basenames(s) |-> Body(s, n)], env |-> RenderRunnerEnvFile(s),
   path |-> ComposeRunnerPath(s), script |-> RenderCleanupScript(s)]

-----------------------------------------------------------------------------
(* The drop-in of a cache pool *)

PoolAnnotations(b) ==
  << Digest("X-Ghars-Spec-Hash", CachePoolHash(b)),
     Line("X-Ghars-Pool-Name", b.name),
     Digest("X-Ghars-Pool-Kinds", b.kinds) >>
  \o When("sccache" \in b.kinds, << Line("X-Ghars-Sccache-Mode", <<b.server>>) >>)

\* The pool runs the sccache server, or only keeps its directory.
PoolService(b) ==
  << Section("[Service]"), Line("User", b.zone) >>
  \o (IF "sccache" \in b.kinds /\ b.server # "per_runner"
      THEN << Line("SCCACHE_DIR", b.name), Line("SCCACHE_CACHE_SIZE", b.size),
              Line("SCCACHE_SERVER_UDS", b.name), Line("ExecStart", b.sccache) >>
      ELSE << Line("ExecStart", b.sleep) >>)

RenderCacheDropIn(b) == << Section("[Unit]") >> \o PoolAnnotations(b) \o PoolService(b)

\* into_cache_pool_plan looks the binaries up again.
PoolPlannable(p) == Resolvable(p) /\ CheckIdentityField(p.size)
CachePoolPlan(n, p, schema) == EffectiveCacheBinding(n, p, schema)

-----------------------------------------------------------------------------
(* src/state.rs: reading a unit file back *)

HasUnescapedTrailingBackslash(v) ==
  LET run == {i \in DOMAIN v : \A j \in i..Len(v) : v[j] = "\\"}
  IN Cardinality(run) % 2 = 1

\* The lines a line is on the disk when its value holds a newline.
Breaks(l) == {i \in DOMAIN l.val : l.val[i] = "NL"}
FirstLine(l) == [l EXCEPT !.val = SubSeq(@, 1, Min(Breaks(l)) - 1)]
RestLine(l) ==
  LET rest == SubSeq(l.val, Min(Breaks(l)) + 1, Len(l.val))
  IN IF Len(rest) > 1 /\ rest[2] = "=" THEN Line(rest[1], SubSeq(rest, 3, Len(rest)))
     ELSE Line(NoKey, rest)

IsSection(l) == l.key \in {"[Unit]", "[Service]"}

\* ParsedUnit::from_text: a line that ends in a backslash goes on in the next one,
\* whatever that is; acc is [section, open, pairs].
ParseStep(acc, l) ==
  LET logical == IF acc.open = None THEN l
                 ELSE [acc.open EXCEPT !.val = @ \o <<l.key, "=">> \o l.val]
  IN IF HasUnescapedTrailingBackslash(logical.val)
     THEN [acc EXCEPT !.open = [logical EXCEPT !.val = Front(@) \o <<" ">>]]
     ELSE IF IsSection(logical) THEN [acc EXCEPT !.open = None, !.section = logical.key]
     ELSE IF logical.key = NoKey \/ acc.section = None THEN [acc EXCEPT !.open = None]
     ELSE [acc EXCEPT !.open = None,
             !.pairs = Append(@, <<acc.section, [logical EXCEPT !.val = Trim(@)]>>)]

ParseLine(acc, l) ==
  IF Breaks(l) = {} THEN ParseStep(acc, l)
  ELSE ParseStep(ParseStep(acc, FirstLine(l)), RestLine(l))

ParseStart == [section |-> None, open |-> None, pairs |-> <<>>]

\* What is still open at the end is no annotation: the last line is a [Service] line or
\* ConditionPathExists.
ParsedUnit(body) ==
  LET after[i \in 0..Len(body)] ==
        IF i = 0 THEN ParseStart ELSE ParseLine(after[i - 1], body[i])
  IN after[Len(body)].pairs

\* Where a parsed unit has a key in a [Unit] section, and the first and the last
\* line there, or what an annotation is when it is absent
Places(unit, key) == {i \in DOMAIN unit : unit[i][1] = "[Unit]" /\ unit[i][2].key = key}
First(unit, key) == IF Places(unit, key) = {} THEN Line(key, None) ELSE unit[Min(Places(unit, key))][2]
Final(unit, key) == IF Places(unit, key) = {} THEN Line(key, None) ELSE unit[Max(Places(unit, key))][2]

\* str::split: what is between two separators, or an end, that follow each other
Between(v, sep, i, j) ==
  /\ i = 0 \/ v[i] = sep
  /\ j = Len(v) + 1 \/ v[j] = sep
  /\ i < j /\ \A k \in (i + 1)..(j - 1) : v[k] # sep
Split(v, sep) ==
  {SubSeq(v, p[1] + 1, p[2] - 1) :
     p \in {q \in (0..Len(v)) \X (1..Len(v) + 1) : Between(v, sep, q[1], q[2])}}

\* An empty annotation is an empty list.
SplitCsv(v) == IF v = None THEN None ELSE IF v = <<>> THEN {} ELSE Split(v, Comma)

\* DiscoveredAnnotations: the last value of a key, or None
DiscoveredAnnotations(unit) ==
  LET a(key) == Final(unit, key).val
      csv(key) == SplitCsv(a(key))
  IN [url |-> a("X-Ghars-Runner-Url"), auth |-> a("X-Ghars-Auth-Name"),
      version |-> a("X-Ghars-Effective-Version"), labels |-> csv("X-Ghars-Labels"),
      arch |-> a("X-Ghars-Arch"), sha |-> a("X-Ghars-Runner-Sha256"),
      tarball |-> Final(unit, "X-Ghars-Runner-Tarball-Hash").ref, zone |-> a("X-Ghars-Trust-Zone"),
      mode |-> a("X-Ghars-Network-Mode"), caches |-> csv("X-Ghars-Caches"),
      dns |-> a("X-Ghars-Dns"), ipv6 |-> a("X-Ghars-Ipv6")]

\* discover: the hash is the first value; None stands for the empty hash
DiscoveredHash(unit) == First(unit, "X-Ghars-Spec-Hash").ref

-----------------------------------------------------------------------------
(* src/plan/classify.rs *)

\* An annotation that is absent is never compared.
Differs(found, wanted) == found # None /\ found # wanted
OrEmpty(v) == IF v = None THEN <<>> ELSE v

ClassifyRecreateReasons(a, s) ==
  {r \in {"url", "version", "labels", "arch", "sha", "tarball", "network"} :
     CASE r = "url"     -> Differs(a.url, s.url)
       [] r = "version" -> Differs(a.version, OrEmpty(s.version))
       [] r = "labels"  -> Differs(a.labels, s.labels)
       [] r = "arch"    -> Differs(a.arch, s.arch)
       [] r = "sha"     -> Differs(a.sha, OrEmpty(s.sha))
       [] r = "tarball" -> Differs(a.tarball, OrEmpty(s.tarball))
       [] r = "network" -> Differs(a.mode, Mode(s))}

FieldChanges(a, s) ==
  {f \in {"auth_name", "trust_zone", "caches", "dns", "ipv6"} :
     CASE f = "auth_name"  -> Differs(a.auth, s.auth)
       [] f = "trust_zone" -> Differs(a.zone, s.zone)
       [] f = "caches"     -> Differs(a.caches, {b.name : b \in s.caches})
       [] f = "dns"  -> s.network # None /\ Differs(a.dns, DnsToAnnotation(s.network.spec.dns))
       [] f = "ipv6" -> s.network # None /\ Differs(a.ipv6, Ipv6ToAnnotation(s.network.spec.ipv6))}

\* reconstruct_identity: from the annotations alone
ReconstructIdentity(a) ==
  [url |-> OrEmpty(a.url), auth |-> OrEmpty(a.auth),
   zone |-> IF a.zone \in {None, <<>>} THEN DefaultZone ELSE a.zone]
=============================================================================
