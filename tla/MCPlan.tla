------------------------------- MODULE MCPlan -------------------------------
(***************************************************************************)
(* Plan on a small host: configs that differ from a base config in one or  *)
(* two fields, some of which are refused.                                  *)
(***************************************************************************)
EXTENDS Plan

T(a) == <<a>>
Url1 == <<"github", "/", "a">>
Url2 == <<"github", "/", "a", "/", "b">>
V1 == <<"1", ".", "0", ".", "0">>
V2 == <<"2", ".", "0", ".", "0">>
Tarball == <<"/", "opt", "/", "tarball">>
HookPath == <<"/", "opt", "/", "hook">>
Entry(exec, root, gzip) ==
  [kind |-> "file", root |-> root, exec |-> exec, shared |-> FALSE, gzip |-> gzip]
MCFiles ==
  (Tarball :> Entry(FALSE, TRUE, TRUE)) @@ (HookPath :> Entry(TRUE, TRUE, FALSE))
  @@ (<<"/", "usr", "/", "sccache">> :> Entry(TRUE, TRUE, FALSE))
  @@ (<<"/", "usr", "/", "sleep">> :> Entry(TRUE, TRUE, FALSE))
MCReleases == <<V1, V2>>
MCSchemas == <<1, 2>>
MCHostArch == T("x86_64")
MCDefaultZone == T("x")

Block(n) == [RunnerSpec(n, Url1) EXCEPT !.zone = T("a")]
Cidr(n, h) == [net |-> n, host |-> h]
Isolated == [NetworkSpec("netns") EXCEPT !.egress = <<EgressRule(<<443>>)>>, !.allow = <<Cidr(1, 0), Cidr(2, 0)>>]
Filtered == [NetworkSpec("open") EXCEPT !.deny = <<Cidr(1, 0), Cidr(2, 1)>>,
                                !.families = <<T("AF_") \o T("INET"), T("AF_") \o T("UNIX")>>]
Pool(kinds, server) == [CachePoolSpec(kinds, T("10")) EXCEPT !.zone = T("a"), !.server = server]

R == Block(T("a"))
Base ==
  [auth |-> (T("a") :> PatSpec(T("A"), None)) @@ (T("b") :> PatSpec(None, T("c"))),
   defaults |-> [Defaults EXCEPT !.auth = T("a")],
   runners |-> <<R>>,
   pools |-> (T("b") :> Pool(<<"sccache", "ccache">>, "pooled"))
             @@ (T("c") :> Pool(<<"ktstr">>, "pooled"))
             @@ (T("x") :> Pool(<<"sccache">>, "per_runner")),
   networks |-> (T("b") :> Isolated) @@ (T("c") :> Filtered)
                @@ (T("a") :> Isolated)
                @@ (T("x") :> [Isolated EXCEPT !.dns = << T("1") >>]),
   proxy |-> None, hooks |-> None]

One(r) == [Base EXCEPT !.runners = <<r>>]

\* Changes of a field of one runner
Variants ==
  << [R EXCEPT !.url = Url2], [R EXCEPT !.auth = T("b")],
    [R EXCEPT !.labels = << T("b"), T("c") >>],
    [R EXCEPT !.version = V1],
    [R EXCEPT !.tarball = Tarball, !.version = V1], [R EXCEPT !.arch = T("aarch64")],
    [R EXCEPT !.memory = T("10"), !.cpus = T("1")], [R EXCEPT !.memory = <<>>], [R EXCEPT !.caches = << T("b") >>],
    [R EXCEPT !.caches = << T("c"), T("b") >>], [R EXCEPT !.caches = << T("x") >>],
    [R EXCEPT !.network = T("b")], [R EXCEPT !.network = T("c")], [R EXCEPT !.network = T("x")],
    [R EXCEPT !.network = T("a")], [R EXCEPT !.sha = T("c"), !.version = V1],
    [R EXCEPT !.proxy = [ProxySpec EXCEPT !.http = T("a")]], [R EXCEPT !.proxy = ProxySpec],
    [R EXCEPT !.proxy = [ProxySpec EXCEPT !.noProxy = << T("a"), T("b") >>]],
    [R EXCEPT !.proxy = [ProxySpec EXCEPT !.noProxy = << <<"a", Comma, "b">> >>]],
    [R EXCEPT !.hooks = [HooksSpec EXCEPT !.pre = HookPath]],
    [R EXCEPT !.hooks = [HooksSpec EXCEPT !.pre = HookPath, !.post = HookPath]],
    [R EXCEPT !.hooks = [HooksSpec EXCEPT !.cleanup = FALSE, !.post = HookPath]],
    [R EXCEPT !.hard.flags["private_devices"] = FALSE],
    [R EXCEPT !.hard.syscalls = << <<"a", "_">>, T("b") >>,
              !.hard.caps = << <<"CAP_", "NICE">>, <<"CAP_", "CHOWN">> >>],
    [R EXCEPT !.hard.binds = << <<"/", "opt">>, <<"/", "srv">> >>, !.hard.etc = "broad"],
    [R EXCEPT !.hard.ro = << <<"/", "opt">>, <<"/", "srv">> >>, !.hard.etc = "broad"],
    [R EXCEPT !.hard.ro = <<>>],
    [R EXCEPT !.hard.flags["private_devices"] = FALSE, !.hard.ro = <<>>],
    [R EXCEPT !.env.vars = T("A") :> <<"a", "%">>, !.env.prepend = << <<"/", "opt">> >>] >>

\* Values that a check refuses, or that only the renderer refuses
Doubtful ==
  << [R EXCEPT !.labels = << <<"b", "NL", "X-Ghars-Spec-Hash", "=", "c">> >>],
    [R EXCEPT !.labels = << <<"b", "NL", "X-Ghars-Trust-Zone", "=", "c">> >>],
    [R EXCEPT !.zone = [i \in 1..(TRUST_ZONE_MAX_LEN + 1) |-> "a"], !.name = T("b")],
    [R EXCEPT !.zone = [i \in 1..TRUST_ZONE_MAX_LEN |-> "a"], !.name = T("b")],
    [R EXCEPT !.caches = << T("b"), T("x") >>], [R EXCEPT !.url = T("github")],
    [R EXCEPT !.env.vars = T("PATH") :> T("a")],
    [R EXCEPT !.hard.binds = << <<"/", "opt", "/", "..">> >>],
    [R EXCEPT !.memory = <<"1", "NL">>],
    [Block(<<"a", "b", "c", "a", "b">>) EXCEPT !.count = 10, !.network = T("b")],
    [Block(<<"a", "b", "c", "a", "b">>) EXCEPT !.count = 2, !.network = T("b")],
    [Block(<<"a", "b", "c", "a", "b", "c", "a">>) EXCEPT !.network = T("b")] >>

Several ==
  << [Base EXCEPT !.runners = <<>>],
    [Base EXCEPT !.runners = << [R EXCEPT !.count = 2] >>],
    [Base EXCEPT !.runners = << [R EXCEPT !.count = 2], [Block(<<"a", "-", "1">>) EXCEPT !.url = Url2] >>],
    [Base EXCEPT !.runners = << [R EXCEPT !.network = T("b")], [Block(T("b")) EXCEPT !.network = T("b")] >>],
    [Base EXCEPT !.runners = << [Block(T("b")) EXCEPT !.network = T("b")] >>],
    [Base EXCEPT !.networks[T("b")].egress = <<EgressRule(<<80>>)>>,
                 !.runners = << [R EXCEPT !.network = T("b")] >>],
    [Base EXCEPT !.defaults.labels = << T("c") >>, !.runners = << [R EXCEPT !.labels = << T("b") >>] >>],
    [Base EXCEPT !.defaults.hard.caps = << <<"CAP_", "NICE">> >>,
                 !.defaults.env.append = << <<"/", "opt">> >>,
                 !.runners = << [R EXCEPT !.hard.caps = << <<"CAP_", "CHOWN">> >>] >>],
    [Base EXCEPT !.pools[T("c")].size = T("20"),
                 !.runners = << [R EXCEPT !.caches = << T("c"), T("b") >>] >>],
    [Base EXCEPT !.pools[T("b")].size = T("20"), !.runners = << [R EXCEPT !.caches = << T("b") >>] >>] >>

MCConfigs ==
  <<Base>> \o [i \in DOMAIN (Variants \o Doubtful) |-> One((Variants \o Doubtful)[i])] \o Several

\* The hypothesis of the theorems about what discovery reads back
ASSUME PlainConfigs
=============================================================================
