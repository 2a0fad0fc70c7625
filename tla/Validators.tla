----------------------------- MODULE Validators -----------------------------
(***************************************************************************)
(* What a value in ghars.toml may look like (src/validators.rs).           *)
(*                                                                         *)
(* A text is a sequence of symbols.  A symbol is a character, or a word    *)
(* that the code only ever looks for as a whole ("CAP_", "PATH", a host    *)
(* name).  Each predicate holds of the values that the function it is      *)
(* named after lets through.                                               *)
(***************************************************************************)
EXTENDS Naturals, Sequences, FiniteSets, SequencesExt, TLC

CONSTANTS
  None,       \* an option that is not set
  Files       \* the file system: path -> [kind, root, exec, shared, gzip]

\* A few characters of each class.
Lower   == {"a", "b", "c", "x"}
Upper   == {"A", "B"}
Digit   == {"0", "1", "2", "3", "4", "5", "6", "7", "8", "9"}
Control == {"NL", "ESC"}                \* characters with char::is_control
Hidden  == Control \cup {"ZWSP"}        \* and the invisible ones
White   == {" ", "NL"}

Symbols(s) == ToSet(s)
Over(s, alphabet) == Symbols(s) \subseteq alphabet
StartsWith(s, c) == s # <<>> /\ s[1] = c
IsAbsolute(p) == StartsWith(p, "/")

\* str::trim
Trim(s) ==
  LET kept == {i \in DOMAIN s : s[i] \notin White}
  IN IF kept = {} THEN <<>>
     ELSE SubSeq(s, CHOOSE i \in kept : \A j \in kept : i <= j,
                    CHOOSE i \in kept : \A j \in kept : i >= j)

-----------------------------------------------------------------------------
(* Names *)

IDENTIFIER_MAX_LEN == 64
SYSTEMD_USER_GROUP_NAME_MAX == 31
UserNameLen(tz) == 9 + Len(tz)              \* ghars-tz-<trust_zone>
TRUST_ZONE_MAX_LEN == SYSTEMD_USER_GROUP_NAME_MAX - UserNameLen(<<>>)
IFNAMSIZ == 16
VethNameLen(n) == 6 + Len(n) + 2            \* ghars-<name>-h
NETNS_RUNNER_NAME_MAX_LEN == IFNAMSIZ - 1 - VethNameLen(<<>>)

\* ^[a-z]([a-z0-9-]*[a-z0-9])?$, at most 64 characters
ValidateIdentifier(s) ==
  /\ s # <<>> /\ Len(s) <= IDENTIFIER_MAX_LEN
  /\ Over(s, Lower \cup Digit \cup {"-"})
  /\ s[1] \in Lower /\ s[Len(s)] # "-"

ValidateTrustZone(tz) == ValidateIdentifier(tz) /\ Len(tz) <= TRUST_ZONE_MAX_LEN

\* https://github.com/OWNER[/REPO][.git][/]; "github" stands for the scheme and host.
ValidateUrl(u) ==
  LET part == Lower \cup Upper \cup Digit \cup {".", "_", "-"}
      path == IF u # <<>> /\ u[Len(u)] = "/" THEN Front(u) ELSE u
      seps == {i \in DOMAIN path : path[i] = "/"}
  IN /\ Len(path) >= 3 /\ path[1] = "github" /\ path[2] = "/"
     /\ Over(Tail(path), part \cup {"/"}) /\ Cardinality(seps) \in {1, 2}
     /\ \A i \in seps : i < Len(path) /\ path[i + 1] \notin {".", "_", "-", "/"}

\* X.Y.Z
ValidateVersion(v) ==
  LET dots == {i \in DOMAIN v : v[i] = "."}
  IN /\ Over(v, Digit \cup {"."}) /\ Cardinality(dots) = 2
     /\ \A i \in dots : i \notin {1, Len(v)} /\ v[i + 1] # "."

-----------------------------------------------------------------------------
(* Files: opened with O_NOFOLLOW, so a link is an error like a missing file *)

Regular(p) == p \in DOMAIN Files /\ Files[p].kind = "file"

ValidateRunnerTarball(p) == IsAbsolute(p) /\ Regular(p) /\ Files[p].gzip

Parent(p) ==
  LET last == CHOOSE i \in DOMAIN p : p[i] = "/" /\ \A j \in (i + 1)..Len(p) : p[j] # "/"
  IN SubSeq(p, 1, IF last = 1 THEN 1 ELSE last - 1)

\* `/', `//', `/.' and what `..' takes back to the root
BindsFilesystemRoot(p) ==
  LET step(d, s) == CASE s = ".." -> IF d = 0 THEN 0 ELSE d - 1
                      [] s \in {"/", "."} -> d
                      [] OTHER -> d + 1
  IN FoldLeft(step, 0, p) = 0

ValidateHookScript(p) ==
  /\ IsAbsolute(p) /\ ~BindsFilesystemRoot(Parent(p))
  /\ Regular(p) /\ Files[p].exec /\ Files[p].root /\ ~Files[p].shared

-----------------------------------------------------------------------------
(* Hardening lists *)

AF_FAMILY_MAX_LEN == 32
AF_FAMILY_ALIASES == {<<"AF_", "ROUTE">>}
DENY_EXTRA_CAPABILITIES == {<<"CAP_", "SYS_ADMIN">>, <<"CAP_", "SYS_PTRACE">>}
DENY_EXTRA_BIND_PATHS == {<<"/", "proc", "/", "sys">>, <<"/", "dev", "/", "mem">>}
SYSCALL_NAME_MAX_LEN == 64
Words == {"UNIX", "INET", "ROUTE", "SYS_ADMIN", "SYS_PTRACE", "NICE", "CHOWN"}

ValidateRestrictAddressFamilies(l) ==
  \A i \in DOMAIN l :
    /\ Len(l[i]) \in 2..AF_FAMILY_MAX_LEN /\ l[i][1] = "AF_"
    /\ Over(Tail(l[i]), Upper \cup Digit \cup Words)
    /\ l[i] \notin AF_FAMILY_ALIASES

\* The code compares in upper case; "cap_" is "CAP_" in lower case.
ValidateExtraCapabilities(l) ==
  \A i \in DOMAIN l :
    LET upper == [k \in DOMAIN l[i] |-> IF l[i][k] = "cap_" THEN "CAP_" ELSE l[i][k]]
    IN /\ l[i] = Trim(l[i]) /\ Len(upper) >= 2 /\ upper[1] = "CAP_"
       /\ Over(Tail(upper), Upper \cup Digit \cup Words)
       /\ upper \notin DENY_EXTRA_CAPABILITIES

ValidateExtraSyscalls(l) ==
  \A i \in DOMAIN l :
    /\ l[i] = Trim(l[i]) /\ l[i] # <<>> /\ l[i][1] \notin {"~", "@"}
    /\ ":" \notin Symbols(l[i]) /\ Len(l[i]) <= SYSCALL_NAME_MAX_LEN
    /\ l[i][1] \in Lower \cup {"_"} /\ Over(l[i], Lower \cup Digit \cup {"_"})

ValidateExtraBindPaths(l) ==
  \A i \in DOMAIN l :
    /\ IsAbsolute(l[i])
    /\ \A d \in DENY_EXTRA_BIND_PATHS : l[i] # d /\ ~IsPrefix(d \o <<"/">>, l[i])
    /\ ~(IsPrefix(<<"/", "proc", "/">>, l[i]) /\ Len(l[i]) > 3 /\ l[i][4] \in Digit)

-----------------------------------------------------------------------------
(* Environment *)

\* One name of each list: loader, shell, and variables that ghars sets itself.
ReservedEnv == {<<"LD_PRELOAD">>, <<"IFS">>, <<"PATH">>, <<"SCCACHE_DIR">>}

ValidateEnvVarName(n) ==
  /\ n # <<>> /\ n \notin ReservedEnv
  /\ n[1] \in Upper \cup {"_"} /\ Over(n, Upper \cup Digit \cup {"_"})

ValidateEnvVarValue(v) == Symbols(v) \cap Control = {}

ValidatePathSegment(p) == IsAbsolute(p) /\ Symbols(p) \cap (Control \cup {":"}) = {}

ValidateEnvironmentSpec(e) ==
  /\ \A k \in DOMAIN e.vars : ValidateEnvVarName(k) /\ ValidateEnvVarValue(e.vars[k])
  /\ \A p \in ToSet(e.prepend) \cup ToSet(e.append) : ValidatePathSegment(p)

-----------------------------------------------------------------------------
(* Networks *)

ValidatePort(p) == p # 0

\* addr.ip: it parses as an address or a CIDR
ValidateEgressRule(r) ==
  /\ r.addr.ip
  /\ r.port.kind = "set" => r.port.of # <<>>
  /\ \A i \in DOMAIN r.port.of : ValidatePort(r.port.of[i])
  /\ r.port.kind = "range" => r.port.of[1] <= r.port.of[2]
  /\ r.comment # None =>
       Over(r.comment, Lower \cup Upper \cup Digit \cup {" ", "_", ".", ",", ":", "/", "+", "-"})

\* dns is None when the mode is Forward, or the servers of Static.
ValidateDnsMode(dns) == dns # <<>>

ValidateNetworkSpec(n) ==
  /\ n.mode = "netns" => n.egress # <<>> \/ n.allow # <<>>
  /\ n.mode = "open" => n.egress = <<>> /\ n.dns = None /\ ~n.ipv6
  /\ \A i \in DOMAIN n.egress : ValidateEgressRule(n.egress[i])
  /\ ValidateDnsMode(n.dns)
  /\ ValidateRestrictAddressFamilies(n.families)
=============================================================================
