---------------------------- MODULE SessionProofs ----------------------------
(***************************************************************************)
(* Proofs about Session for every set of processes, runners, specs and     *)
(* options and every bound on events and commands.                         *)
(***************************************************************************)
EXTENDS Session, FiniteSetTheorems, SequenceTheorems, WellFoundedInduction, TLAPS

-----------------------------------------------------------------------------
(* Sequences and sets of naturals *)

\* A set of naturals has a least element.
LEMMA LeastNatural ==
  ASSUME NEW S \in SUBSET Nat, S # {}
  PROVE  \E m \in S : \A k \in S : m <= k
<1>1. \E m \in S : \A k \in S : ~ (<<k, m>> \in OpToRel(<, Nat))
  BY NatLessThanWellFounded, WFMin, Zenon
<1>2. \E m \in S : \A k \in S : ~ (k < m)
  BY <1>1 DEF OpToRel
<1> HIDE <1>1
<1>3. QED
  BY <1>2

\* A set of naturals below a bound has a greatest element.
LEMMA GreatestNatural ==
  ASSUME NEW N \in Nat, NEW S \in SUBSET (1..N), S # {}
  PROVE  \E m \in S : \A k \in S : k <= m
<1> DEFINE T == {N - k : k \in S}
<1>1. T \in SUBSET Nat /\ T # {}
  <2>1. \A k \in S : N - k \in Nat
    OBVIOUS
  <2>2. PICK k \in S : TRUE
    OBVIOUS
  <2>3. N - k \in T
    OBVIOUS
  <2>4. QED
    BY <2>1, <2>3
<1>2. PICK t \in T : \A k \in T : t <= k
  BY <1>1, LeastNatural
<1>3. PICK m \in S : t = N - m
  OBVIOUS
<1>4. \A k \in S : k <= m
  <2> TAKE k \in S
  <2>1. N - k \in T
    OBVIOUS
  <2>2. t <= N - k
    BY <2>1, <1>2
  <2>3. m \in Int /\ k \in Int
    OBVIOUS
  <2> HIDE DEF T
  <2>4. QED
    BY <2>2, <2>3, <1>3
<1>5. QED
  BY <1>4

\* RemoveAt takes one element out and leaves every other one.
LEMMA RemoveAtElements ==
  ASSUME NEW S, NEW s \in Seq(S), NEW i \in 1..Len(s)
  PROVE  /\ RemoveAt(s, i) \in Seq(S)
         /\ Len(RemoveAt(s, i)) = Len(s) - 1
         /\ \A j \in 1..(Len(s) - 1) : RemoveAt(s, i)[j] = IF j < i THEN s[j] ELSE s[j + 1]
<1> DEFINE a == SubSeq(s, 1, i - 1)
           b == SubSeq(s, i + 1, Len(s))
<1>0. Len(s) \in Nat
  BY LenProperties
<1>1. /\ a \in Seq(S) /\ Len(a) = i - 1
      /\ \A j \in 1..(i - 1) : a[j] = s[j]
  BY <1>0, SubSeqProperties
<1>2. /\ b \in Seq(S) /\ Len(b) = Len(s) - i
      /\ \A j \in 1..(Len(s) - i) : b[j] = s[i + j]
  BY <1>0, SubSeqProperties
<1>3. RemoveAt(s, i) = a \o b
  BY DEF RemoveAt
<1> HIDE DEF a, b
<1>4. /\ a \o b \in Seq(S) /\ Len(a \o b) = Len(s) - 1
      /\ \A j \in 1..(Len(s) - 1) : (a \o b)[j] = IF j <= i - 1 THEN a[j] ELSE b[j - (i - 1)]
  <2>1. /\ a \o b \in Seq(S) /\ Len(a \o b) = Len(a) + Len(b)
        /\ \A j \in 1..(Len(a) + Len(b)) : (a \o b)[j] = IF j <= Len(a) THEN a[j] ELSE b[j - Len(a)]
    BY <1>1, <1>2, ConcatProperties
  <2>2. Len(a) + Len(b) = Len(s) - 1
    BY <1>0, <1>1, <1>2
  <2>3. QED
    BY <1>1, <2>1, <2>2
<1>5. ASSUME NEW j \in 1..(Len(s) - 1)
      PROVE  (a \o b)[j] = IF j < i THEN s[j] ELSE s[j + 1]
  <2>1. CASE j < i
    BY <1>0, <1>1, <1>4, <2>1
  <2>2. CASE ~(j < i)
    <3>1. j - (i - 1) \in 1..(Len(s) - i)
      BY <1>0, <2>2
    <3>2. b[j - (i - 1)] = s[i + (j - (i - 1))]
      BY <1>2, <3>1
    <3>3. i + (j - (i - 1)) = j + 1
      BY <1>0
    <3>4. QED
      BY <1>0, <1>4, <2>2, <3>2, <3>3
  <2>3. QED
    BY <2>1, <2>2
<1>6. QED
  BY <1>3, <1>4, <1>5

\* RemoveFirst takes out the element it is asked for and none other.
LEMMA RemoveFirstElements ==
  ASSUME NEW S, NEW s \in Seq(S), NEW e
  PROVE  /\ RemoveFirst(s, e) \in Seq(S)
         /\ \A x \in ToSet(s) : x # e => x \in ToSet(RemoveFirst(s, e))
<1>0. Len(s) \in Nat /\ DOMAIN s = 1..Len(s)
  BY LenProperties
<1> DEFINE I == {i \in 1..Len(s) : s[i] = e}
<1>1. CASE I = {}
  BY <1>1 DEF RemoveFirst
<1>2. CASE I # {}
  <2>1. Min(I) \in I
    <3>1. \E m \in I : \A k \in I : m <= k
      <4>1. I \in SUBSET Nat
        BY <1>0
      <4> HIDE DEF I
      <4>2. QED
        BY <1>2, <4>1, LeastNatural
    <3>2. QED
      BY <3>1 DEF Min
  <2> DEFINE r == RemoveAt(s, Min(I))
  <2>2. RemoveFirst(s, e) = r
    BY <1>2 DEF RemoveFirst, SelectInSeq
  <2>3. /\ r \in Seq(S) /\ Len(r) = Len(s) - 1
        /\ \A j \in 1..(Len(s) - 1) : r[j] = IF j < Min(I) THEN s[j] ELSE s[j + 1]
    BY <2>1, RemoveAtElements
  <2>4. DOMAIN r = 1..(Len(s) - 1)
    BY <2>3, LenProperties
  <2> HIDE DEF r
  <2>5. ASSUME NEW j \in 1..Len(s), s[j] # e
        PROVE  \E k \in 1..(Len(s) - 1) : r[k] = s[j]
    <3>1. CASE j < Min(I)
      BY <1>0, <2>1, <2>3, <3>1
    <3>2. CASE j > Min(I)
      <4>1. j - 1 \in 1..(Len(s) - 1) /\ ~(j - 1 < Min(I)) /\ (j - 1) + 1 = j
        BY <1>0, <2>1, <3>2
      <4>2. QED
        BY <2>3, <4>1
    <3>3. j < Min(I) \/ j > Min(I)
      <4>1. PICK m : m = Min(I)
        OBVIOUS
      <4>2. m \in 1..Len(s) /\ m # j
        BY <2>1, <2>5, <4>1
      <4> HIDE DEF I
      <4>3. QED
        BY <4>1, <4>2
    <3>4. QED
      BY <3>1, <3>2, <3>3
  <2>6. QED
    BY <1>0, <2>2, <2>3, <2>4, <2>5 DEF ToSet
<1>3. QED
  BY <1>1, <1>2

\* Append adds one element to what a sequence holds.
LEMMA AppendElements ==
  ASSUME NEW S, NEW s \in Seq(S), NEW e \in S
  PROVE  /\ Append(s, e) \in Seq(S)
         /\ ToSet(Append(s, e)) = ToSet(s) \cup {e}
<1>0. Len(s) \in Nat /\ DOMAIN s = 1..Len(s)
  BY LenProperties
<1>1. /\ Append(s, e) \in Seq(S) /\ Len(Append(s, e)) = Len(s) + 1
      /\ \A i \in 1..Len(s) : Append(s, e)[i] = s[i]
      /\ Append(s, e)[Len(s) + 1] = e
  BY AppendProperties
<1>2. DOMAIN Append(s, e) = 1..(Len(s) + 1)
  BY <1>1, LenProperties
<1>3. QED
  BY <1>0, <1>1, <1>2 DEF ToSet

-----------------------------------------------------------------------------
(* The inductive invariant *)

USE SessionConstants

Locations ==
  {"idle", "load", "plan", "reconcile", "lock", "act", "exit", "add_read", "add_truncate",
   "add_write", "c_units", "c_state", "c_runtime"}
Ops == {"none", "remove", "create", "noop", "recreate", "update"}
Blocks == [name : Names \cup {None}, spec : Specs, id : Nat]
Opts == [dry : BOOLEAN, auto : BOOLEAN, gate : BOOLEAN, detailed : BOOLEAN]
Processes ==
  [pc : Locations, cmd : {"none", "apply", "add", "cleanup"}, opt : Opts, raw : Seq(Blocks),
   buf : Seq(Blocks), name : Names \cup {None}, id : Nat, plan : [Names -> Ops],
   todo : SUBSET Names, approved : BOOLEAN, unsure : BOOLEAN, wiped : BOOLEAN,
   failed : SUBSET Names, done : SUBSET (Names \X Ops), code : Nat]

HostOK ==
  /\ file \in Seq(Blocks) /\ unit \in [Names -> Specs \cup {None}] /\ home \in SUBSET Names
  /\ reg \in Seq(Names) /\ lock \in Procs \cup {None}
  /\ budget \in [events : Nat, other : Nat] /\ acked \in SUBSET Nat /\ torn \in BOOLEAN
TypeOK == HostOK /\ ps \in [Procs -> Processes] /\ disturbed \in SUBSET Procs

\* What a process q may be, by its location: only an approved apply is past the
\* preview, and nothing is done before the lock is held.
StageOK(q) ==
  /\ q.pc \in {"add_read", "add_truncate", "add_write"} => q.name \in Names
  /\ q.pc \in {"c_units", "c_state", "c_runtime"} => q.cmd = "cleanup"
  /\ q.pc \in {"reconcile", "lock", "act"} => q.approved = TRUE
  /\ q.pc \in {"load", "plan", "add_read", "add_truncate", "add_write"} => q.approved = FALSE
  /\ q.pc \notin {"act", "exit"} => q.done = {} /\ q.failed = {}
  /\ q.pc = "act" => q.todo \subseteq Changes(q.plan)

\* The plan of an undisturbed process is the one its config and the host give now,
\* but for the units that its own reconciliation removed and what it has carried out.
Covers(q, n) == q.name \in {None, n}
PlanCurrent(q) ==
  /\ q.pc = "reconcile" =>
       \A n \in Names : IF Covers(q, n) THEN q.plan[n] = Action(q.raw, n) \/ (q.wiped = TRUE /\ unit[n] = None)
                        ELSE q.plan[n] = "none"
  /\ q.pc = "lock" =>
       \A n \in Names : q.plan[n] = IF Covers(q, n) THEN Action(q.raw, n) ELSE "none"
  /\ q.pc = "act" =>
       \A n \in Names :
         Covers(q, n) => /\ n \in q.todo => q.plan[n] = Action(q.raw, n)
                         /\ n \notin q.todo /\ n \notin q.failed => unit[n] = Wanted(q.raw, n)
                         /\ q.plan[n] = "none" => unit[n] = None

\* Behind a closed gate no plan has a recreate, the second one neither.
NoRecreate(q) ==
  q.opt.gate = TRUE =>
    /\ q.pc \in {"reconcile", "lock", "act"} => \A n \in Names : q.plan[n] # "recreate"
    /\ \A d \in q.done : d[2] # "recreate"

\* Where GitHub answered, the runners that were looked at or created are registered.
Checked(q) ==
  q.unsure = FALSE =>
    /\ q.pc = "reconcile" =>
         \A n \in Names \ q.todo : q.plan[n] = "noop" /\ unit[n] # None => n \in ToSet(reg)
    /\ q.pc = "lock" => \A n \in Names : q.plan[n] = "noop" => n \in ToSet(reg)
    /\ q.pc = "act" /\ q.failed = {} =>
         \A n \in Names \ q.todo :
           unit[n] # None /\ q.plan[n] \notin {"none", "update"} => n \in ToSet(reg)

\* What an apply that ended without a failure has left
Reported(q) ==
  q.pc = "exit" /\ q.cmd = "apply" /\ q.name = None /\ q.approved = TRUE /\ q.code \in {0, 2, 8} =>
    \A n \in Names :
      /\ unit[n] = Wanted(q.raw, n)
      /\ unit[n] # None /\ q.plan[n] # "update" /\ q.unsure = FALSE /\ q.opt.detailed = FALSE
           => n \in ToSet(reg)

Current(q) == PlanCurrent(q) /\ NoRecreate(q) /\ Checked(q) /\ Reported(q)

\* Without an overlap one process at most rewrites ghars.toml, what it is going to
\* write has every block that was added, and nobody writes to the file it truncated.
Ids(s) == {s[i].id : i \in DOMAIN s}
AddsInv ==
  torn = FALSE =>
    /\ \A p, q \in Procs : Rewriting(p) /\ Rewriting(q) => p = q
    /\ \A p \in Procs : Rewriting(p) => acked \subseteq Ids(ps[p].buf)
    /\ \A p \in Procs : At(p, "add_write") => file = <<>>
    /\ (\A p \in Procs : ~At(p, "add_write")) => acked \subseteq Ids(file)

ProcInv(p) == StageOK(ps[p]) /\ (p \notin disturbed => Current(ps[p]))
Inv == TypeOK /\ (\A p \in Procs : ProcInv(p)) /\ AddsInv

-----------------------------------------------------------------------------
(* The operators of the plan *)

\* The block that counts is a block of the config.
LEMMA WantedTyped ==
  ASSUME NEW raw \in Seq(Blocks), NEW n
  PROVE  Wanted(raw, n) \in Specs \cup {None}
<1> DEFINE k == {i \in DOMAIN raw : raw[i].name = n}
<1>1. CASE k = {}
  BY <1>1 DEF Wanted
<1>2. CASE k # {}
  <2>1. DOMAIN raw = 1..Len(raw) /\ Len(raw) \in Nat
    BY LenProperties
  <2>2. k \in SUBSET (1..Len(raw))
    BY <2>1
  <2> DEFINE i == CHOOSE i \in k : \A j \in k : j <= i
  <2>3. i \in k
    <3> HIDE DEF k
    <3>1. \E m \in k : \A j \in k : j <= m
      BY <1>2, <2>1, <2>2, GreatestNatural
    <3>2. QED
      BY <3>1
  <2>4. Wanted(raw, n) = raw[i].spec
    BY <1>2 DEF Wanted
  <2> HIDE DEF i
  <2>5. raw[i] \in Blocks
    BY <2>1, <2>3, ElementOfSeq
  <2>6. QED
    BY <2>4, <2>5 DEF Blocks
<1>3. QED
  BY <1>1, <1>2

\* What the action of a plan says of the unit and the config.
LEMMA ActionMeans ==
  ASSUME NEW raw, NEW n
  PROVE  /\ Action(raw, n) \in Ops
         /\ Action(raw, n) = "none" => unit[n] = None /\ Wanted(raw, n) = None
         /\ Action(raw, n) = "remove" => Wanted(raw, n) = None
         /\ Action(raw, n) = "noop" => unit[n] = Wanted(raw, n) /\ unit[n] # None
         /\ unit[n] = None => Action(raw, n) \in {"none", "create"}
BY DEF Action, Ops

\* A runner whose unit did not change is planned as before.
LEMMA ActionKept ==
  ASSUME NEW raw, NEW n, unit'[n] = unit[n]
  PROVE  Action(raw, n)' = Action(raw, n)
BY DEF Action, Wanted

\* A plan has an action for every runner; --only leaves the others alone.
LEMMA PlanTyped ==
  ASSUME NEW p \in Procs
  PROVE  /\ ComputePlan(p) \in [Names -> Ops]
         /\ \A n \in Names : ComputePlan(p)[n] =
              IF Covers(ps[p], n) THEN Action(ps[p].raw, n) ELSE "none"
BY ActionMeans DEF ComputePlan, Covers, Ops

\* A process that starts, and one that has ended, is well-formed.
LEMMA IdleTyped == Idle \in Processes /\ StageOK(Idle) /\ Current(Idle)
<1>1. <<>> \in Seq(Blocks)
  BY EmptySeq
<1>2. Idle \in Processes
  BY <1>1 DEF Idle, Processes, Plain, NoRun, Opts, Locations, Ops
<1>3. QED
  BY <1>2 DEF Idle, Plain, StageOK, Current, PlanCurrent, NoRecreate, Checked, Reported

\* A step of p leaves the record of every other process alone.
LEMMA Becoming ==
  ASSUME TypeOK, NEW p \in Procs, NEW q \in Processes, Becomes(p, q)
  PROVE  /\ ps' \in [Procs -> Processes] /\ ps'[p] = q
         /\ \A r \in Procs \ {p} : ps'[r] = ps[r]
BY DEF TypeOK, Becomes

\* GitHub's list after a registration or the removal of one
LEMMA RegTyped ==
  ASSUME reg \in Seq(Names), NEW n \in Names
  PROVE  /\ Registered(n) \in Seq(Names) /\ Deregistered(n) \in Seq(Names)
         /\ n \in ToSet(Registered(n))
         /\ \A m \in ToSet(reg) \ {n} : m \in ToSet(Registered(n)) /\ m \in ToSet(Deregistered(n))
<1>1. /\ Deregistered(n) \in Seq(Names)
      /\ \A m \in ToSet(reg) : m # n => m \in ToSet(Deregistered(n))
  BY RemoveFirstElements DEF Deregistered
<1>2. Registered(n) \in Seq(Names) /\ ToSet(Registered(n)) = ToSet(Deregistered(n)) \cup {n}
  BY <1>1, AppendElements DEF Registered
<1>3. QED
  BY <1>1, <1>2

-----------------------------------------------------------------------------
(* One lemma per step of a process: what it makes of itself is well-formed, and  *)
(* current if it was not disturbed before.                                       *)

Moved(p) ==
  /\ HostOK' /\ ps' \in [Procs -> Processes] /\ \A r \in Procs \ {p} : ps'[r] = ps[r]
  /\ StageOK(ps'[p]) /\ (p \notin disturbed => Current(ps[p])')

\* Before the preview, and after a failure, there is nothing to be current about.
LEMMA Early ==
  ASSUME NEW q \in Processes, StageOK(q), q.pc \notin {"reconcile", "lock", "act", "exit"}
  PROVE  Current(q)
BY DEF StageOK, Current, PlanCurrent, NoRecreate, Checked, Reported

\* The codes of errors are not those of an apply that went well.
LEMMA ErrCodes == \A err : ErrToExitCode(err) \in {1, 3, 5, 6, 7}
BY DEF ErrToExitCode

\* A process that ends with an error, or before it was allowed to do anything.
LEMMA MovedToExit ==
  ASSUME Inv, NEW p \in Procs, NEW code \in Nat, ExitWith(p, code), HostOK', ps[p].done = {},
         ps[p].approved = FALSE \/ code \notin {0, 2, 8} \/ ps[p].cmd # "apply"
  PROVE  Moved(p) /\ ~Rewriting(p)'
<1> DEFINE q == [ps[p] EXCEPT !.pc = "exit", !.code = code]
<1>1. ps[p] \in Processes
  BY DEF Inv, TypeOK
<1>2. /\ q \in Processes /\ q.pc = "exit" /\ q.code = code /\ q.approved = ps[p].approved
      /\ q.cmd = ps[p].cmd /\ q.done = {}
  BY <1>1 DEF Processes, Locations
<1>3. Becomes(p, q)
  BY DEF ExitWith
<1> HIDE DEF q
<1>4. ps' \in [Procs -> Processes] /\ ps'[p] = q /\ \A r \in Procs \ {p} : ps'[r] = ps[r]
  BY <1>2, <1>3, Becoming DEF Inv
<1>5. StageOK(ps'[p]) /\ ~Rewriting(p)' /\ Current(ps[p])'
  BY <1>2, <1>4 DEF StageOK, Rewriting, Current, PlanCurrent, NoRecreate, Checked, Reported
<1>6. QED
  BY <1>4, <1>5 DEF Moved

\* A command that starts has read ghars.toml and nothing else.
LEMMA MovedStart ==
  ASSUME Inv, NEW p \in Procs, NEW cmd \in {"apply", "add", "cleanup"}, NEW opt \in Opts,
         NEW name \in Names \cup {None}, cmd = "add" => name \in Names,
         Start(p, cmd, opt, name), budget' \in [events : Nat, other : Nat]
  PROVE  Moved(p) /\ ~Rewriting(p)'
<1> DEFINE q == [Idle EXCEPT !.pc = CASE cmd = "cleanup" -> "c_units"
                                      [] cmd # "cleanup" /\ ~Parses(file) -> "exit"
                                      [] cmd = "add" /\ Parses(file) -> "add_read"
                                      [] OTHER -> "plan",
                             !.code = IF cmd = "cleanup" \/ Parses(file) THEN 0
                                      ELSE ErrToExitCode("config"),
                             !.cmd = cmd, !.opt = opt, !.name = name,
                             !.raw = IF cmd = "cleanup" THEN <<>> ELSE file,
                             !.id = IF cmd = "add" THEN budget.other ELSE 0]
<1>1. <<>> \in Seq(Blocks)
  BY EmptySeq
<1>2. q \in Processes
  <2>1. ErrToExitCode("config") \in Nat
    BY ErrCodes
  <2>2. QED
    BY <1>1, <2>1, IdleTyped DEF Inv, TypeOK, HostOK, Processes, Locations
<1>3. /\ StageOK(q) /\ q.pc \in {"plan", "add_read", "c_units", "exit"}
      /\ q.approved = FALSE /\ q.done = {}
  BY DEF StageOK, Idle
<1>4. Becomes(p, q) /\ HostOK'
  BY DEF Start, ReadsOnly, Inv, TypeOK, HostOK
<1> HIDE DEF q
<1>5. ps' \in [Procs -> Processes] /\ ps'[p] = q /\ \A r \in Procs \ {p} : ps'[r] = ps[r]
  BY <1>2, <1>4, Becoming DEF Inv
<1>6. Current(ps[p])'
  BY <1>2, <1>3, <1>5 DEF StageOK, Current, PlanCurrent, NoRecreate, Checked, Reported
<1>7. ~Rewriting(p)'
  BY <1>3, <1>5 DEF Rewriting
<1>8. QED
  BY <1>3, <1>4, <1>5, <1>6, <1>7 DEF Moved

\* The apply after an add starts over with what is in ghars.toml now.
LEMMA MovedLoad ==
  ASSUME Inv, NEW p \in Procs, Load(p)
  PROVE  Moved(p) /\ ~Rewriting(p)'
<1> DEFINE q == [ps[p] EXCEPT !.pc = "plan", !.raw = file]
<1>1. ps[p] \in Processes /\ StageOK(ps[p]) /\ ps[p].pc = "load"
  BY DEF Inv, TypeOK, ProcInv, Load, At
<1>2. HostOK' /\ ps[p].done = {} /\ ps[p].approved = FALSE
  BY <1>1 DEF Load, NoFault, ReadsOnly, Inv, TypeOK, HostOK, StageOK
<1>3. CASE ExitWith(p, ErrToExitCode("config"))
  <2>1. ErrToExitCode("config") \in Nat
    BY ErrCodes
  <2>2. QED
    BY <1>2, <1>3, <2>1, MovedToExit
<1>4. CASE Becomes(p, q)
  <2>1. q \in Processes /\ q.pc = "plan" /\ q.done = {} /\ q.failed = {} /\ q.approved = FALSE
    BY <1>1 DEF Inv, TypeOK, HostOK, Processes, Locations, StageOK
  <2> HIDE DEF q
  <2>2. ps' \in [Procs -> Processes] /\ ps'[p] = q /\ \A r \in Procs \ {p} : ps'[r] = ps[r]
    BY <1>4, <2>1, Becoming DEF Inv
  <2>3. StageOK(ps'[p]) /\ ~Rewriting(p)' /\ Current(ps[p])'
    BY <2>1, <2>2 DEF StageOK, Rewriting, Current, PlanCurrent, NoRecreate, Checked, Reported
  <2>4. QED
    BY <1>2, <2>2, <2>3 DEF Moved
<1>5. QED
  BY <1>3, <1>4 DEF Load

\* A call that fails takes from the bound and leaves the rest to the action.
LEMMA ReadsOnlyTyped ==
  ASSUME HostOK, ReadsOnly, NoFault \/ Fault
  PROVE  HostOK' /\ unit' = unit /\ reg' = reg
BY DEF HostOK, ReadsOnly, NoFault, Fault, Event

\* A preflight that fails ends the process before its preview.
LEMMA MovedPreflight ==
  ASSUME Inv, NEW p \in Procs, Preflight(p)
  PROVE  Moved(p) /\ ~Rewriting(p)'
<1>1. PICK err \in {"preflight", "validation"} : ExitWith(p, ErrToExitCode(err))
  BY DEF Preflight
<1>2. HostOK' /\ ps[p].done = {} /\ ps[p].approved = FALSE
  BY ReadsOnlyTyped DEF Preflight, At, Inv, TypeOK, ProcInv, StageOK
<1>3. ErrToExitCode(err) \in Nat
  BY ErrCodes
<1>4. QED
  BY <1>1, <1>2, <1>3, MovedToExit

\* The three ways a shown plan may go: the process ends without an approval, it ends
\* because there is nothing to do, or it goes on, not gated and approved.
LEMMA DecisionsAre ==
  ASSUME NEW q0 \in Processes, NEW q \in Decisions(q0)
  PROVE  \/ \E c \in Nat : q = Ends(q0, c)
         \/ /\ q0.opt.detailed = TRUE /\ Changes(q0.plan) = {}
            /\ q = Ends([q0 EXCEPT !.approved = TRUE], 0)
         \/ /\ q0.opt.gate = TRUE => ~HasRecreate(q0.plan)
            /\ q = [q0 EXCEPT !.approved = TRUE, !.pc = "reconcile",
                              !.todo = {n \in Names : q0.plan[n] = "noop"}]
<1>0. q0.opt \in Opts
  BY DEF Processes
<1>1. DryRunExitCode(q0.opt, q0.plan) \in Nat /\ CancelExitCode(q0.opt, q0.plan) \in Nat
  BY DEF DryRunExitCode, CancelExitCode
<1>2. ErrToExitCode("interactive") \in Nat
  BY ErrCodes
<1>3. RecreateExitCode(q0.opt, q0.plan) \in {8, None}
  BY DEF RecreateExitCode
<1>4. RecreateExitCode(q0.opt, q0.plan) = None /\ q0.opt.gate = TRUE => ~HasRecreate(q0.plan)
  BY DEF RecreateExitCode
<1>5. CASE q0.opt.dry
  <2>1. q = Ends(q0, DryRunExitCode(q0.opt, q0.plan))
    BY <1>5 DEF Decisions
  <2>2. QED
    BY <1>1, <2>1
<1>6. CASE ~q0.opt.dry /\ RecreateExitCode(q0.opt, q0.plan) # None
  <2>1. q = Ends(q0, RecreateExitCode(q0.opt, q0.plan))
    BY <1>6 DEF Decisions
  <2>2. QED
    BY <1>3, <1>6, <2>1
<1>7. CASE ~q0.opt.dry /\ RecreateExitCode(q0.opt, q0.plan) = None
  <2>1. \/ q = Ends(q0, ErrToExitCode("interactive"))
        \/ q = Ends(q0, CancelExitCode(q0.opt, q0.plan))
        \/ /\ q0.opt.detailed = TRUE /\ Changes(q0.plan) = {}
           /\ q = Ends([q0 EXCEPT !.approved = TRUE], 0)
        \/ q = [q0 EXCEPT !.approved = TRUE, !.pc = "reconcile",
                          !.todo = {n \in Names : q0.plan[n] = "noop"}]
    BY <1>0, <1>7 DEF Decisions, Opts
  <2>2. QED
    BY <1>1, <1>2, <1>4, <1>7, <2>1
<1>8. QED
  BY <1>5, <1>6, <1>7

\* The preview and the decision: the plan that is approved is the current one.
LEMMA MovedPlan ==
  ASSUME Inv, NEW p \in Procs, Plan(p)
  PROVE  Moved(p) /\ ~Rewriting(p)'
<1> DEFINE q0 == [ps[p] EXCEPT !.plan = ComputePlan(p)]
<1>1. ps[p] \in Processes /\ StageOK(ps[p]) /\ ps[p].pc = "plan"
  BY DEF Inv, TypeOK, ProcInv, Plan, At
<1>2. HostOK' /\ unit' = unit /\ reg' = reg
  BY ReadsOnlyTyped DEF Plan, Inv, TypeOK
<1>3. ps[p].done = {} /\ ps[p].failed = {} /\ ps[p].approved = FALSE
  BY <1>1 DEF StageOK
<1>4. CASE ExitWith(p, ErrToExitCode("validation"))
  <2>1. ErrToExitCode("validation") \in Nat
    BY ErrCodes
  <2>2. QED
    BY <1>2, <1>3, <1>4, <2>1, MovedToExit
<1>5. CASE \E q \in Decisions(q0) : Becomes(p, q)
  <2>1. PICK q \in Decisions(q0) : Becomes(p, q)
    BY <1>5
  <2>2. /\ q0 \in Processes /\ q0.plan = ComputePlan(p) /\ q0.raw = ps[p].raw /\ q0.name = ps[p].name
        /\ q0.done = {} /\ q0.failed = {} /\ q0.approved = FALSE /\ q0.opt = ps[p].opt
    BY <1>1, <1>3, PlanTyped DEF Processes
  <2>3. \A n \in Names : q0.plan[n] = IF Covers(q0, n) THEN Action(q0.raw, n) ELSE "none"
    BY <2>2, PlanTyped DEF Covers
  <2> HIDE DEF q0
  <2>4. CASE \E c \in Nat : q = Ends(q0, c)
    <3>1. PICK c \in Nat : q = Ends(q0, c)
      BY <2>4
    <3>2. q \in Processes /\ q.pc = "exit" /\ q.approved = FALSE /\ q.done = {}
      BY <2>2, <3>1 DEF Ends, Processes, Locations
    <3>3. ps' \in [Procs -> Processes] /\ ps'[p] = q /\ \A r \in Procs \ {p} : ps'[r] = ps[r]
      BY <2>1, <3>2, Becoming DEF Inv
    <3>4. StageOK(ps'[p]) /\ ~Rewriting(p)' /\ Current(ps[p])'
      BY <3>2, <3>3 DEF StageOK, Rewriting, Current, PlanCurrent, NoRecreate, Checked, Reported
    <3>5. QED
      BY <1>2, <3>3, <3>4 DEF Moved
  <2>5. CASE /\ q0.opt.detailed = TRUE /\ Changes(q0.plan) = {}
             /\ q = Ends([q0 EXCEPT !.approved = TRUE], 0)
    <3>1. /\ q \in Processes /\ q.pc = "exit" /\ q.done = {} /\ q.raw = q0.raw /\ q.name = q0.name
          /\ q.opt.detailed = TRUE
      BY <2>2, <2>5 DEF Ends, Processes, Locations
    <3>2. ps' \in [Procs -> Processes] /\ ps'[p] = q /\ \A r \in Procs \ {p} : ps'[r] = ps[r]
      BY <2>1, <3>1, Becoming DEF Inv
    <3>3. ASSUME q.name = None, NEW n \in Names PROVE unit[n] = Wanted(q.raw, n)
      <4>1. q0.plan[n] \in {"none", "noop"}
        BY <2>5 DEF Changes
      <4>2. q0.plan[n] = Action(q.raw, n)
        BY <2>3, <3>1, <3>3 DEF Covers
      <4>3. QED
        BY <4>1, <4>2, ActionMeans
    <3>4. StageOK(ps'[p]) /\ ~Rewriting(p)' /\ Current(ps[p])'
      <4>1. StageOK(ps'[p]) /\ ~Rewriting(p)'
        BY <3>1, <3>2 DEF StageOK, Rewriting
      <4>2. PlanCurrent(ps[p])' /\ NoRecreate(ps[p])' /\ Checked(ps[p])'
        BY <3>1, <3>2 DEF PlanCurrent, NoRecreate, Checked
      <4>3. Reported(ps[p])'
        BY <1>2, <3>1, <3>2, <3>3 DEF Reported
      <4>4. QED
        BY <4>1, <4>2, <4>3 DEF Current
    <3>5. QED
      BY <1>2, <3>2, <3>4 DEF Moved
  <2>6. CASE /\ q0.opt.gate = TRUE => ~HasRecreate(q0.plan)
             /\ q = [q0 EXCEPT !.approved = TRUE, !.pc = "reconcile",
                               !.todo = {n \in Names : q0.plan[n] = "noop"}]
    <3>1. /\ q \in Processes /\ q.pc = "reconcile" /\ q.done = {} /\ q.failed = {} /\ q.approved = TRUE
          /\ q.raw = q0.raw /\ q.name = q0.name /\ q.plan = q0.plan /\ q.opt = q0.opt
          /\ q.todo = {n \in Names : q0.plan[n] = "noop"}
      BY <2>2, <2>6 DEF Processes, Locations
    <3>2. ps' \in [Procs -> Processes] /\ ps'[p] = q /\ \A r \in Procs \ {p} : ps'[r] = ps[r]
      BY <2>1, <3>1, Becoming DEF Inv
    <3>3. StageOK(ps'[p]) /\ ~Rewriting(p)'
      BY <3>1, <3>2 DEF StageOK, Rewriting
    <3>4. PlanCurrent(ps[p])'
      <4>1. \A n \in Names : Action(q.raw, n)' = Action(q.raw, n)
        BY <1>2, ActionKept
      <4>2. QED
        BY <2>3, <3>1, <3>2, <4>1 DEF PlanCurrent, Covers
    <3>5. NoRecreate(ps[p])' /\ Checked(ps[p])' /\ Reported(ps[p])'
      BY <2>6, <3>1, <3>2 DEF NoRecreate, Checked, Reported, HasRecreate
    <3>6. QED
      BY <1>2, <3>2, <3>3, <3>4, <3>5 DEF Moved, Current
  <2>7. QED
    BY <2>1, <2>2, <2>4, <2>5, <2>6, DecisionsAre
<1>6. QED
  BY <1>4, <1>5 DEF Plan

\* Reconciliation of one runner: it is registered, or its unit is gone, or GitHub
\* did not answer.
LEMMA MovedReconcile ==
  ASSUME Inv, NEW p \in Procs, Reconcile(p)
  PROVE  Moved(p) /\ ~Rewriting(p)' /\ ps'[p] # ps[p]
<1> DEFINE q == ps[p]
<1>1. q \in Processes /\ StageOK(q) /\ q.pc = "reconcile" /\ (p \notin disturbed => Current(q))
  BY DEF Inv, TypeOK, ProcInv, Reconcile, At
<1>2. PICK n \in q.todo :
        \/ /\ RunnerIsRegistered(n) /\ NoFault
           /\ Becomes(p, [q EXCEPT !.todo = @ \ {n}]) /\ UNCHANGED unit
        \/ /\ ~RunnerIsRegistered(n) /\ NoFault
           /\ unit' = [unit EXCEPT ![n] = None]
           /\ Becomes(p, [q EXCEPT !.todo = @ \ {n}, !.wiped = TRUE])
        \/ /\ Fault /\ UNCHANGED unit
           /\ \E w \in {q.wiped, q.wiped \/ ~RunnerIsRegistered(n)} :
                Becomes(p, [q EXCEPT !.todo = @ \ {n}, !.unsure = TRUE, !.wiped = w])
  BY DEF Reconcile
<1>3. n \in Names /\ (RunnerIsRegistered(n) => n \in ToSet(reg))
  BY <1>1 DEF Processes, RunnerIsRegistered, ToSet
<1>4. HostOK' /\ reg' = reg
  BY <1>2, <1>3 DEF Reconcile, Inv, TypeOK, HostOK, NoFault, Fault, Event
<1>5. \A m \in Names : m # n => unit'[m] = unit[m]
  BY <1>2, <1>3 DEF Inv, TypeOK, HostOK
<1> HIDE DEF q
<1>6. \E r \in Processes :
        /\ Becomes(p, r) /\ r.todo = q.todo \ {n}
        /\ r.pc = q.pc /\ r.raw = q.raw /\ r.name = q.name /\ r.plan = q.plan /\ r.opt = q.opt
        /\ r.done = q.done /\ r.failed = q.failed /\ r.approved = q.approved
        /\ q.wiped = TRUE => r.wiped = TRUE
        /\ \/ r.unsure = q.unsure /\ n \in ToSet(reg) /\ unit'[n] = unit[n]
           \/ r.unsure = q.unsure /\ r.wiped = TRUE /\ unit'[n] = None
           \/ r.unsure = TRUE /\ unit'[n] = unit[n]
  <2>1. CASE RunnerIsRegistered(n) /\ Becomes(p, [q EXCEPT !.todo = @ \ {n}]) /\ UNCHANGED unit
    <3> DEFINE r == [q EXCEPT !.todo = @ \ {n}]
    <3>1. /\ r \in Processes /\ r.todo = q.todo \ {n} /\ r.wiped = q.wiped /\ r.unsure = q.unsure
          /\ r.pc = q.pc /\ r.raw = q.raw /\ r.name = q.name /\ r.plan = q.plan /\ r.opt = q.opt
          /\ r.done = q.done /\ r.failed = q.failed /\ r.approved = q.approved
      BY <1>1 DEF Processes
    <3> HIDE DEF r
    <3>2. QED
      BY <1>3, <2>1, <3>1 DEF r
  <2>2. CASE /\ unit' = [unit EXCEPT ![n] = None]
             /\ Becomes(p, [q EXCEPT !.todo = @ \ {n}, !.wiped = TRUE])
    <3> DEFINE r == [q EXCEPT !.todo = @ \ {n}, !.wiped = TRUE]
    <3>1. /\ r \in Processes /\ r.todo = q.todo \ {n} /\ r.wiped = TRUE /\ r.unsure = q.unsure
          /\ r.pc = q.pc /\ r.raw = q.raw /\ r.name = q.name /\ r.plan = q.plan /\ r.opt = q.opt
          /\ r.done = q.done /\ r.failed = q.failed /\ r.approved = q.approved
      BY <1>1 DEF Processes
    <3>2. unit'[n] = None
      BY <1>3, <2>2 DEF Inv, TypeOK, HostOK
    <3> HIDE DEF r
    <3>3. QED
      BY <2>2, <3>1, <3>2 DEF r
  <2>3. CASE /\ UNCHANGED unit
             /\ \E w \in {q.wiped, q.wiped \/ ~RunnerIsRegistered(n)} :
                  Becomes(p, [q EXCEPT !.todo = @ \ {n}, !.unsure = TRUE, !.wiped = w])
    <3>1. PICK w \in {q.wiped, q.wiped \/ ~RunnerIsRegistered(n)} :
                  Becomes(p, [q EXCEPT !.todo = @ \ {n}, !.unsure = TRUE, !.wiped = w])
      BY <2>3
    <3>2. w \in BOOLEAN /\ (q.wiped = TRUE => w = TRUE)
      BY <1>1, <3>1 DEF Processes
    <3> DEFINE r == [q EXCEPT !.todo = @ \ {n}, !.unsure = TRUE, !.wiped = w]
    <3>3. /\ r \in Processes /\ r.todo = q.todo \ {n} /\ r.wiped = w /\ r.unsure = TRUE
          /\ r.pc = q.pc /\ r.raw = q.raw /\ r.name = q.name /\ r.plan = q.plan /\ r.opt = q.opt
          /\ r.done = q.done /\ r.failed = q.failed /\ r.approved = q.approved
      BY <1>1, <3>2 DEF Processes
    <3> HIDE DEF r
    <3>4. QED
      BY <2>3, <3>1, <3>2, <3>3 DEF r
  <2>4. QED
    BY <1>2, <2>1, <2>2, <2>3 DEF q
<1>7. PICK r \in Processes :
        /\ Becomes(p, r) /\ r.todo = q.todo \ {n}
        /\ r.pc = q.pc /\ r.raw = q.raw /\ r.name = q.name /\ r.plan = q.plan /\ r.opt = q.opt
        /\ r.done = q.done /\ r.failed = q.failed /\ r.approved = q.approved
        /\ q.wiped = TRUE => r.wiped = TRUE
        /\ \/ r.unsure = q.unsure /\ n \in ToSet(reg) /\ unit'[n] = unit[n]
           \/ r.unsure = q.unsure /\ r.wiped = TRUE /\ unit'[n] = None
           \/ r.unsure = TRUE /\ unit'[n] = unit[n]
  BY <1>6
<1>8. ps' \in [Procs -> Processes] /\ ps'[p] = r /\ \A o \in Procs \ {p} : ps'[o] = ps[o]
  BY <1>7, Becoming DEF Inv
<1>9. StageOK(ps'[p]) /\ ~Rewriting(p)'
  BY <1>1, <1>7, <1>8 DEF StageOK, Rewriting
<1>10. ASSUME p \notin disturbed PROVE Current(ps[p])'
  <2>1. \A m \in Names : unit'[m] = unit[m] => Action(r.raw, m)' = Action(r.raw, m)
    BY ActionKept
  <2>2. PlanCurrent(q) /\ NoRecreate(q) /\ Checked(q)
    BY <1>1, <1>10 DEF Current
  <2>3. PlanCurrent(ps[p])'
    BY <1>1, <1>3, <1>5, <1>7, <1>8, <2>1, <2>2 DEF PlanCurrent, Covers
  <2>4. NoRecreate(ps[p])'
    BY <1>1, <1>7, <1>8, <2>2 DEF NoRecreate
  <2>5. Checked(ps[p])' /\ Reported(ps[p])'
    BY <1>1, <1>4, <1>5, <1>7, <1>8, <2>2 DEF Checked, Reported
  <2>6. QED
    BY <2>3, <2>4, <2>5 DEF Current
<1>11. ps'[p] # ps[p]
  BY <1>2, <1>7, <1>8 DEF q
<1>12. QED
  BY <1>4, <1>8, <1>9, <1>10, <1>11 DEF Moved

\* A second plan has no recreate that the first one had not: what was wiped is created.
LEMMA MovedReplan ==
  ASSUME Inv, NEW p \in Procs, Replan(p)
  PROVE  Moved(p) /\ ~Rewriting(p)'
<1> DEFINE q == ps[p]
<1>1. /\ q \in Processes /\ StageOK(q) /\ q.pc = "reconcile" /\ q.todo = {}
      /\ p \notin disturbed => Current(q)
  BY DEF Inv, TypeOK, ProcInv, Replan, At
<1>2. HostOK' /\ unit' = unit /\ reg' = reg
  BY ReadsOnlyTyped DEF Replan, Inv, TypeOK
<1>3. q.done = {} /\ q.failed = {} /\ q.approved = TRUE
  BY <1>1 DEF StageOK
<1>4. CASE ExitWith(p, ErrToExitCode("validation"))
  <2>1. ErrToExitCode("validation") \in Nat \ {0, 2, 8}
    BY ErrCodes
  <2>2. QED
    BY <1>2, <1>3, <1>4, <2>1, MovedToExit
<1>5. CASE Becomes(p, [q EXCEPT !.pc = "lock", !.plan = IF q.wiped THEN ComputePlan(p) ELSE @])
  <2> DEFINE plan == IF q.wiped THEN ComputePlan(p) ELSE q.plan
  <2>1. plan \in [Names -> Ops]
    BY <1>1, PlanTyped DEF Processes
  <2>2. q.wiped = TRUE \/ q.wiped = FALSE
    BY <1>1 DEF Processes
  <2>3. \A n \in Names : q.wiped = TRUE => plan[n] = IF Covers(q, n) THEN Action(q.raw, n) ELSE "none"
    BY PlanTyped
  <2>4. q.wiped = FALSE => plan = q.plan
    OBVIOUS
  <2>5. Becomes(p, [q EXCEPT !.pc = "lock", !.plan = plan])
    BY <1>1, <1>5 DEF Processes
  <2> HIDE DEF q, plan
  <2>6. PICK r \in Processes :
          /\ Becomes(p, r) /\ r.pc = "lock" /\ r.plan = plan /\ r.raw = q.raw /\ r.name = q.name
          /\ r.opt = q.opt /\ r.done = {} /\ r.failed = {} /\ r.approved = TRUE /\ r.unsure = q.unsure
    <3> DEFINE z == [q EXCEPT !.pc = "lock", !.plan = plan]
    <3>1. /\ z \in Processes /\ z.pc = "lock" /\ z.plan = plan /\ z.raw = q.raw /\ z.name = q.name
          /\ z.opt = q.opt /\ z.done = {} /\ z.failed = {} /\ z.approved = TRUE /\ z.unsure = q.unsure
      BY <1>1, <1>3, <2>1 DEF Processes, Locations, q
    <3>2. Becomes(p, z)
      BY <2>5
    <3> HIDE DEF z
    <3>3. QED
      BY <3>1, <3>2
  <2>7. ps' \in [Procs -> Processes] /\ ps'[p] = r /\ \A o \in Procs \ {p} : ps'[o] = ps[o]
    BY <2>6, Becoming DEF Inv
  <2>8. StageOK(ps'[p]) /\ ~Rewriting(p)'
    BY <2>6, <2>7 DEF StageOK, Rewriting
  <2>9. ASSUME p \notin disturbed PROVE Current(ps[p])'
    <3>1. PlanCurrent(q) /\ NoRecreate(q) /\ Checked(q)
      BY <1>1, <2>9 DEF Current, q
    <3>2. \A n \in Names : plan[n] = IF Covers(q, n) THEN Action(q.raw, n) ELSE "none"
      BY <1>1, <2>2, <2>3, <2>4, <3>1 DEF PlanCurrent
    <3>3. \A n \in Names : q.plan[n] # plan[n] => unit[n] = None /\ plan[n] \in {"none", "create"}
      <4> TAKE n \in Names
      <4>1. unit[n] = None => Action(q.raw, n) \in {"none", "create"}
        BY ActionMeans
      <4>2. QED
        BY <1>1, <3>1, <3>2, <4>1 DEF PlanCurrent
    <3>4. \A n \in Names : Action(r.raw, n)' = Action(r.raw, n)
      BY <1>2, ActionKept
    <3>5. PlanCurrent(ps[p])'
      BY <2>6, <2>7, <3>2, <3>4 DEF PlanCurrent, Covers
    <3>6. NoRecreate(ps[p])'
      BY <1>1, <2>6, <2>7, <3>1, <3>3 DEF NoRecreate
    <3>7. \A n \in Names : plan[n] = "noop" => q.plan[n] = "noop" /\ unit[n] # None
      <4> TAKE n \in Names
      <4>1. Action(q.raw, n) = "noop" => unit[n] # None
        BY ActionMeans
      <4>2. QED
        BY <3>2, <3>3, <4>1
    <3>8. Checked(ps[p])' /\ Reported(ps[p])'
      BY <1>1, <1>2, <2>6, <2>7, <3>1, <3>7 DEF Checked, Reported
    <3>9. QED
      BY <3>5, <3>6, <3>8 DEF Current
  <2>10. QED
    BY <1>2, <2>7, <2>8, <2>9 DEF Moved
<1>6. QED
  BY <1>4, <1>5 DEF Replan

\* Auth or release errors end an approved apply before it has done anything.
LEMMA MovedPrepare ==
  ASSUME Inv, NEW p \in Procs, Prepare(p)
  PROVE  Moved(p) /\ ~Rewriting(p)'
<1>1. PICK err \in {"auth", "github"} : ExitWith(p, ErrToExitCode(err))
  BY DEF Prepare
<1>2. HostOK' /\ ps[p].done = {}
  BY ReadsOnlyTyped DEF Prepare, At, Inv, TypeOK, ProcInv, StageOK
<1>3. ErrToExitCode(err) \in Nat \ {0, 2, 8}
  BY ErrCodes
<1>4. QED
  BY <1>1, <1>2, <1>3, MovedToExit

\* Under the lock the actions are those of the plan, and the rest is as it should be.
LEMMA MovedAcquire ==
  ASSUME Inv, NEW p \in Procs, Acquire(p)
  PROVE  Moved(p) /\ ~Rewriting(p)'
<1> DEFINE q == ps[p]
<1>1. q \in Processes /\ StageOK(q) /\ q.pc = "lock" /\ (p \notin disturbed => Current(q))
  BY DEF Inv, TypeOK, ProcInv, Acquire, At
<1>2. HostOK' /\ unit' = unit /\ reg' = reg
  BY DEF Acquire, NoFault, Inv, TypeOK, HostOK
<1>3. q.done = {} /\ q.failed = {} /\ q.approved = TRUE
  BY <1>1 DEF StageOK
<1>4. CASE ExitWith(p, ErrToExitCode("locked"))
  <2>1. ErrToExitCode("locked") \in Nat \ {0, 2, 8}
    BY ErrCodes
  <2>2. QED
    BY <1>2, <1>3, <1>4, <2>1, MovedToExit
<1>5. CASE Becomes(p, [q EXCEPT !.pc = "act", !.todo = Changes(q.plan)])
  <2> HIDE DEF q
  <2>1. PICK r \in Processes :
          /\ Becomes(p, r) /\ r.pc = "act" /\ r.todo = Changes(q.plan) /\ r.plan = q.plan /\ r.raw = q.raw
          /\ r.name = q.name /\ r.opt = q.opt /\ r.done = {} /\ r.failed = {} /\ r.approved = TRUE
          /\ r.unsure = q.unsure
    <3> DEFINE z == [q EXCEPT !.pc = "act", !.todo = Changes(q.plan)]
    <3>1. /\ z \in Processes /\ z.pc = "act" /\ z.todo = Changes(q.plan) /\ z.plan = q.plan /\ z.raw = q.raw
          /\ z.name = q.name /\ z.opt = q.opt /\ z.done = {} /\ z.failed = {} /\ z.approved = TRUE
          /\ z.unsure = q.unsure
      BY <1>1, <1>3 DEF Processes, Locations, Changes
    <3>2. Becomes(p, z)
      BY <1>5
    <3> HIDE DEF z
    <3>3. QED
      BY <3>1, <3>2
  <2>2. ps' \in [Procs -> Processes] /\ ps'[p] = r /\ \A o \in Procs \ {p} : ps'[o] = ps[o]
    BY <2>1, Becoming DEF Inv
  <2>3. StageOK(ps'[p]) /\ ~Rewriting(p)'
    BY <2>1, <2>2 DEF StageOK, Rewriting
  <2>4. ASSUME p \notin disturbed PROVE Current(ps[p])'
    <3>1. PlanCurrent(q) /\ NoRecreate(q) /\ Checked(q)
      BY <1>1, <2>4 DEF Current
    <3>2. \A n \in Names : Action(r.raw, n)' = Action(r.raw, n)
      BY <1>2, ActionKept
    <3>3. \A n \in Names : n \notin r.todo <=> q.plan[n] \in {"none", "noop"}
      BY <2>1 DEF Changes
    <3>4. \A n \in Names :
            Covers(r, n) => /\ q.plan[n] = Action(r.raw, n)
                            /\ q.plan[n] = "none" => unit[n] = None
                            /\ n \notin r.todo => unit[n] = Wanted(r.raw, n)
      <4> TAKE n \in Names
      <4>1. Covers(r, n) => q.plan[n] = Action(r.raw, n)
        BY <1>1, <2>1, <3>1 DEF PlanCurrent, Covers
      <4>2. QED
        BY <3>3, <4>1, ActionMeans
    <3>5. PlanCurrent(ps[p])'
      BY <1>2, <2>1, <2>2, <3>2, <3>4 DEF PlanCurrent, Covers
    <3>6. NoRecreate(ps[p])'
      BY <1>1, <2>1, <2>2, <3>1 DEF NoRecreate
    <3>7. Checked(ps[p])' /\ Reported(ps[p])'
      BY <1>1, <1>2, <2>1, <2>2, <3>1, <3>3 DEF Checked, Reported
    <3>8. QED
      BY <3>5, <3>6, <3>7 DEF Current
  <2>5. QED
    BY <1>2, <2>2, <2>3, <2>4 DEF Moved
<1>6. QED
  BY <1>4, <1>5 DEF Acquire

\* What an action that runs through leaves of its own runner, and of the others.
LEMMA RunsLeaves ==
  ASSUME Inv, NEW p \in Procs, NEW n \in Names, Runs(p, n)
  PROVE  /\ unit' \in [Names -> Specs \cup {None}] /\ home' \in SUBSET Names /\ reg' \in Seq(Names)
         /\ unit'[n] = IF ps[p].plan[n] = "remove" THEN None ELSE Wanted(ps[p].raw, n)
         /\ \A m \in Names : m # n => unit'[m] = unit[m]
         /\ ps[p].plan[n] \notin {"remove", "update"} => n \in ToSet(reg')
         /\ \A m \in ToSet(reg) : m # n => m \in ToSet(reg')
<1>1. ps[p] \in Processes /\ HostOK
  BY DEF Inv, TypeOK
<1>2. Wanted(ps[p].raw, n) \in Specs \cup {None}
  BY <1>1, WantedTyped DEF Processes
<1>3. unit' = [unit EXCEPT ![n] = IF ps[p].plan[n] = "remove" THEN None ELSE Wanted(ps[p].raw, n)]
  BY DEF Runs
<1>4. /\ unit' \in [Names -> Specs \cup {None}]
      /\ unit'[n] = IF ps[p].plan[n] = "remove" THEN None ELSE Wanted(ps[p].raw, n)
      /\ \A m \in Names : m # n => unit'[m] = unit[m]
  BY <1>1, <1>2, <1>3 DEF HostOK
<1>5. home' \in SUBSET Names
  <2>1. home' \in {home \ {n}, home, home \cup {n}}
    BY DEF Runs
  <2>2. QED
    BY <1>1, <2>1 DEF HostOK
<1>6. CASE ps[p].plan[n] = "remove"
  BY <1>1, <1>4, <1>5, <1>6, RegTyped DEF Runs, HostOK
<1>7. CASE ps[p].plan[n] = "update"
  BY <1>1, <1>4, <1>5, <1>7 DEF Runs, HostOK
<1>8. CASE ps[p].plan[n] \notin {"remove", "update"}
  BY <1>1, <1>4, <1>5, <1>8, RegTyped DEF Runs, HostOK
<1>9. QED
  BY <1>6, <1>7, <1>8

\* What an action that fails leaves
LEMMA BreaksLeaves ==
  ASSUME Inv, NEW p \in Procs, NEW n \in Names, Breaks(p, n)
  PROVE  /\ unit' \in [Names -> Specs \cup {None}] /\ home' \in SUBSET Names /\ reg' \in Seq(Names)
         /\ budget' \in [events : Nat, other : Nat]
         /\ \A m \in Names : m # n => unit'[m] = unit[m]
<1>1. ps[p] \in Processes /\ HostOK
  BY DEF Inv, TypeOK
<1>2. Wanted(ps[p].raw, n) \in Specs \cup {None}
  BY <1>1, WantedTyped DEF Processes
<1>3. PICK left \in Specs \cup {None} : unit' = [unit EXCEPT ![n] = left]
  BY <1>1, <1>2 DEF Breaks, HostOK
<1>4. budget' \in [events : Nat, other : Nat]
  BY <1>1 DEF Breaks, HostOK, NoFault, Fault, Event
<1>5. home' \in SUBSET Names /\ reg' \in Seq(Names)
  <2>1. home' \in {home, home \cup {n}, home \ {n}} /\ reg' \in {reg, Registered(n), Deregistered(n)}
    BY DEF Breaks
  <2>2. QED
    BY <1>1, <2>1, RegTyped DEF HostOK
<1>6. QED
  BY <1>1, <1>3, <1>4, <1>5 DEF HostOK

\* One action of the plan, done or failed.
LEMMA MovedAct ==
  ASSUME Inv, NEW p \in Procs, Act(p)
  PROVE  Moved(p) /\ ~Rewriting(p)' /\ ps'[p] # ps[p]
<1> DEFINE q == ps[p]
<1>1. q \in Processes /\ StageOK(q) /\ q.pc = "act" /\ (p \notin disturbed => Current(q))
  BY DEF Inv, TypeOK, ProcInv, Act, At
<1>2. PICK n \in q.todo :
        \/ /\ Runs(p, n) /\ NoFault
           /\ Becomes(p, [q EXCEPT !.todo = @ \ {n}, !.done = @ \cup {<<n, q.plan[n]>>}])
        \/ /\ Breaks(p, n)
           /\ Becomes(p, [q EXCEPT !.todo = @ \ {n}, !.failed = @ \cup {n}])
  BY DEF Act
<1>3. n \in Names /\ q.plan[n] \in Ops \ {"none", "noop"} /\ q.todo \subseteq Changes(q.plan)
  BY <1>1 DEF Processes, StageOK, Changes
<1>4. CASE /\ Runs(p, n) /\ NoFault
           /\ Becomes(p, [q EXCEPT !.todo = @ \ {n}, !.done = @ \cup {<<n, q.plan[n]>>}])
  <2>1. /\ unit' \in [Names -> Specs \cup {None}] /\ home' \in SUBSET Names /\ reg' \in Seq(Names)
        /\ unit'[n] = IF q.plan[n] = "remove" THEN None ELSE Wanted(q.raw, n)
        /\ \A m \in Names : m # n => unit'[m] = unit[m]
        /\ q.plan[n] \notin {"remove", "update"} => n \in ToSet(reg')
        /\ \A m \in ToSet(reg) : m # n => m \in ToSet(reg')
    BY <1>3, <1>4, RunsLeaves
  <2>2. HostOK'
    BY <1>4, <2>1 DEF Act, NoFault, Inv, TypeOK, HostOK
  <2> HIDE DEF q
  <2>3. PICK r \in Processes :
          /\ Becomes(p, r) /\ r.pc = "act" /\ r.todo = q.todo \ {n} /\ r.plan = q.plan /\ r.raw = q.raw
          /\ r.name = q.name /\ r.opt = q.opt /\ r.done = q.done \cup {<<n, q.plan[n]>>}
          /\ r.failed = q.failed /\ r.approved = q.approved /\ r.unsure = q.unsure
    <3> DEFINE done == q.done \cup {<<n, q.plan[n]>>}
               z == [q EXCEPT !.todo = @ \ {n}, !.done = done]
    <3>0. done \in SUBSET (Names \X Ops)
      BY <1>1, <1>3 DEF Processes
    <3> HIDE DEF done
    <3>1. /\ z \in Processes /\ z.pc = "act" /\ z.todo = q.todo \ {n} /\ z.plan = q.plan /\ z.raw = q.raw
          /\ z.name = q.name /\ z.opt = q.opt /\ z.done = done
          /\ z.failed = q.failed /\ z.approved = q.approved /\ z.unsure = q.unsure
      BY <1>1, <1>3, <3>0 DEF Processes
    <3>2. Becomes(p, z)
      BY <1>1, <1>4 DEF done, Processes
    <3> HIDE DEF z
    <3>3. QED
      BY <3>1, <3>2 DEF done
  <2>4. ps' \in [Procs -> Processes] /\ ps'[p] = r /\ \A o \in Procs \ {p} : ps'[o] = ps[o]
    BY <2>3, Becoming DEF Inv
  <2>5. StageOK(ps'[p]) /\ ~Rewriting(p)'
    BY <1>1, <2>3, <2>4 DEF StageOK, Rewriting
  <2>6. ASSUME p \notin disturbed PROVE Current(ps[p])'
    <3>1. PlanCurrent(q) /\ NoRecreate(q) /\ Checked(q)
      BY <1>1, <2>6 DEF Current
    <3>2. \A m \in Names : m # n => Action(r.raw, m)' = Action(r.raw, m)
      BY <2>1, ActionKept
    <3>3. Covers(r, n) => unit'[n] = Wanted(r.raw, n)
      <4>1. Covers(r, n) => q.plan[n] = Action(r.raw, n)
        BY <1>1, <1>2, <1>3, <2>3, <3>1 DEF PlanCurrent, Covers
      <4>2. Action(r.raw, n) = "remove" => Wanted(r.raw, n) = None
        BY ActionMeans
      <4>3. QED
        BY <2>1, <2>3, <4>1, <4>2
    <3>4. PlanCurrent(ps[p])'
      BY <1>1, <1>3, <2>1, <2>3, <2>4, <3>1, <3>2, <3>3 DEF PlanCurrent, Covers
    <3>5. NoRecreate(ps[p])'
      BY <1>1, <1>3, <2>3, <2>4, <3>1 DEF NoRecreate
    <3>6. Checked(ps[p])' /\ Reported(ps[p])'
      <4>1. ASSUME q.unsure = FALSE, q.failed = {}, NEW m \in Names \ r.todo,
                   unit'[m] # None, q.plan[m] \notin {"none", "update"}
            PROVE  m \in ToSet(reg')
        <5>1. CASE m = n
          BY <2>1, <4>1, <5>1
        <5>2. CASE m # n
          BY <1>1, <2>1, <2>3, <3>1, <4>1, <5>2 DEF Checked
        <5>3. QED
          BY <5>1, <5>2
      <4>2. QED
        BY <2>3, <2>4, <4>1 DEF Checked, Reported
    <3>7. QED
      BY <3>4, <3>5, <3>6 DEF Current
  <2>7. ps'[p] # ps[p]
    BY <1>2, <2>3, <2>4 DEF q
  <2>8. QED
    BY <2>2, <2>4, <2>5, <2>6, <2>7 DEF Moved
<1>5. CASE /\ Breaks(p, n)
           /\ Becomes(p, [q EXCEPT !.todo = @ \ {n}, !.failed = @ \cup {n}])
  <2>1. /\ unit' \in [Names -> Specs \cup {None}] /\ home' \in SUBSET Names /\ reg' \in Seq(Names)
        /\ budget' \in [events : Nat, other : Nat]
        /\ \A m \in Names : m # n => unit'[m] = unit[m]
    BY <1>3, <1>5, BreaksLeaves
  <2>2. HostOK'
    BY <2>1 DEF Act, Inv, TypeOK, HostOK
  <2> HIDE DEF q
  <2>3. PICK r \in Processes :
          /\ Becomes(p, r) /\ r.pc = "act" /\ r.todo = q.todo \ {n} /\ r.plan = q.plan /\ r.raw = q.raw
          /\ r.name = q.name /\ r.opt = q.opt /\ r.done = q.done
          /\ r.failed = q.failed \cup {n} /\ r.approved = q.approved /\ r.unsure = q.unsure
    <3> DEFINE z == [q EXCEPT !.todo = @ \ {n}, !.failed = @ \cup {n}]
    <3>1. /\ z \in Processes /\ z.pc = "act" /\ z.todo = q.todo \ {n} /\ z.plan = q.plan /\ z.raw = q.raw
          /\ z.name = q.name /\ z.opt = q.opt /\ z.done = q.done
          /\ z.failed = q.failed \cup {n} /\ z.approved = q.approved /\ z.unsure = q.unsure
      BY <1>1, <1>3 DEF Processes
    <3>2. Becomes(p, z)
      BY <1>5
    <3> HIDE DEF z
    <3>3. QED
      BY <3>1, <3>2
  <2>4. ps' \in [Procs -> Processes] /\ ps'[p] = r /\ \A o \in Procs \ {p} : ps'[o] = ps[o]
    BY <2>3, Becoming DEF Inv
  <2>5. StageOK(ps'[p]) /\ ~Rewriting(p)'
    BY <1>1, <2>3, <2>4 DEF StageOK, Rewriting
  <2>6. ASSUME p \notin disturbed PROVE Current(ps[p])'
    <3>1. PlanCurrent(q) /\ NoRecreate(q)
      BY <1>1, <2>6 DEF Current
    <3>2. \A m \in Names : m # n => Action(r.raw, m)' = Action(r.raw, m)
      BY <2>1, ActionKept
    <3>3. PlanCurrent(ps[p])'
      BY <1>1, <1>3, <2>1, <2>3, <2>4, <3>1, <3>2 DEF PlanCurrent, Covers
    <3>4. NoRecreate(ps[p])' /\ Checked(ps[p])' /\ Reported(ps[p])'
      BY <1>1, <2>3, <2>4, <3>1 DEF NoRecreate, Checked, Reported
    <3>5. QED
      BY <3>3, <3>4 DEF Current
  <2>7. ps'[p] # ps[p]
    BY <1>2, <2>3, <2>4 DEF q
  <2>8. QED
    BY <2>2, <2>4, <2>5, <2>6, <2>7 DEF Moved
<1>6. QED
  BY <1>2, <1>4, <1>5

\* Where the exit code reports no failure, every action was carried out.
LEMMA MovedFinish ==
  ASSUME Inv, NEW p \in Procs, Finish(p)
  PROVE  Moved(p) /\ ~Rewriting(p)'
<1> DEFINE q == ps[p]
<1>1. /\ q \in Processes /\ StageOK(q) /\ q.pc = "act" /\ q.todo = {}
      /\ p \notin disturbed => Current(q)
  BY DEF Inv, TypeOK, ProcInv, Finish, At
<1>2. HostOK' /\ unit' = unit /\ reg' = reg
  BY DEF Finish, Unlock, NoFault, Inv, TypeOK, HostOK
<1>3. ApplyExitCode(q) \in Nat /\ (q.failed # {} => ApplyExitCode(q) \in {1, 4})
  BY DEF ApplyExitCode
<1>4. ExitWith(p, ApplyExitCode(q))
  BY DEF Finish
<1> HIDE DEF q
<1>5. PICK r \in Processes :
        /\ Becomes(p, r) /\ r.pc = "exit" /\ r.code = ApplyExitCode(q) /\ r.plan = q.plan /\ r.raw = q.raw
        /\ r.name = q.name /\ r.opt = q.opt /\ r.done = q.done /\ r.unsure = q.unsure
  <2> DEFINE z == [q EXCEPT !.pc = "exit", !.code = ApplyExitCode(q)]
  <2>1. /\ z \in Processes /\ z.pc = "exit" /\ z.code = ApplyExitCode(q) /\ z.plan = q.plan /\ z.raw = q.raw
        /\ z.name = q.name /\ z.opt = q.opt /\ z.done = q.done /\ z.unsure = q.unsure
    BY <1>1, <1>3 DEF Processes, Locations
  <2>2. Becomes(p, z)
    BY <1>4 DEF ExitWith, q
  <2> HIDE DEF z
  <2>3. QED
    BY <2>1, <2>2
<1>6. ps' \in [Procs -> Processes] /\ ps'[p] = r /\ \A o \in Procs \ {p} : ps'[o] = ps[o]
  BY <1>5, Becoming DEF Inv
<1>7. StageOK(ps'[p]) /\ ~Rewriting(p)'
  BY <1>5, <1>6 DEF StageOK, Rewriting
<1>8. ASSUME p \notin disturbed PROVE Current(ps[p])'
  <2>1. PlanCurrent(q) /\ NoRecreate(q) /\ Checked(q)
    BY <1>1, <1>8 DEF Current
  <2>2. PlanCurrent(ps[p])' /\ NoRecreate(ps[p])' /\ Checked(ps[p])'
    BY <1>5, <1>6, <2>1 DEF PlanCurrent, NoRecreate, Checked
  <2>3. ASSUME q.failed = {}, q.name = None, NEW n \in Names
        PROVE  /\ unit[n] = Wanted(q.raw, n)
               /\ unit[n] # None /\ q.plan[n] # "update" /\ q.unsure = FALSE => n \in ToSet(reg)
    BY <1>1, <2>1, <2>3 DEF PlanCurrent, Checked, Covers
  <2>4. Reported(ps[p])'
    <3>1. r.code \in {0, 2, 8} => q.failed = {}
      BY <1>3, <1>5
    <3>2. r.code \in {0, 2, 8} /\ r.name = None =>
            \A n \in Names :
              /\ unit'[n] = Wanted(r.raw, n)
              /\ unit'[n] # None /\ r.plan[n] # "update" /\ r.unsure = FALSE => n \in ToSet(reg')
      BY <1>2, <1>5, <2>3, <3>1
    <3>3. QED
      BY <1>6, <3>2 DEF Reported
  <2>5. QED
    BY <2>2, <2>4 DEF Current
<1>9. QED
  BY <1>2, <1>6, <1>7, <1>8 DEF Moved

\* What an add writes, or a part of it, is a sequence of blocks and fragments.
LEMMA TextTyped ==
  ASSUME Inv, NEW p \in Procs, ps[p].pc = "add_write"
  PROVE  /\ NewBlock(p) \in Blocks /\ NewBlock(p).id = ps[p].id /\ Fragment \in Blocks
         /\ ps[p].buf \in Seq(Blocks) /\ Append(ps[p].buf, NewBlock(p)) \in Seq(Blocks)
<1>1. ps[p] \in Processes /\ ps[p].name \in Names
  BY DEF Inv, TypeOK, ProcInv, StageOK
<1>2. NewBlock(p) \in Blocks /\ NewBlock(p).id = ps[p].id /\ Fragment \in Blocks
  BY <1>1 DEF Processes, NewBlock, Fragment, Blocks
<1>3. ps[p].buf \in Seq(Blocks)
  BY <1>1 DEF Processes
<1>4. QED
  BY <1>2, <1>3, AppendProperties

\* So is what a write leaves that is cut off.
LEMMA CutOffTyped ==
  ASSUME Inv, NEW p \in Procs, At(p, "add_write"), CutOff(p)
  PROVE  file' \in Seq(Blocks)
<1> DEFINE text == Append(ps[p].buf, NewBlock(p))
<1>1. text \in Seq(Blocks) /\ Fragment \in Blocks
  BY TextTyped DEF At
<1> HIDE DEF text
<1>2. CASE UNCHANGED file
  BY <1>2 DEF Inv, TypeOK, HostOK
<1>3. CASE \E k \in DOMAIN text : \E b \in {[text[k] EXCEPT !.spec = s] : s \in Specs} \cup {Fragment} :
             file' = Append(SubSeq(text, 1, k - 1), b)
  <2>0. PICK k \in DOMAIN text :
          \E b \in {[text[k] EXCEPT !.spec = s] : s \in Specs} \cup {Fragment} :
            file' = Append(SubSeq(text, 1, k - 1), b)
    BY <1>3
  <2>1. PICK b \in {[text[k] EXCEPT !.spec = s] : s \in Specs} \cup {Fragment} :
          file' = Append(SubSeq(text, 1, k - 1), b)
    BY <2>0
  <2>2. DOMAIN text = 1..Len(text) /\ Len(text) \in Nat
    BY <1>1, LenProperties
  <2>3. text[k] \in Blocks
    BY <1>1, <2>2, ElementOfSeq
  <2>4. b \in Blocks
    BY <1>1, <2>3 DEF Blocks
  <2>5. SubSeq(text, 1, k - 1) \in Seq(Blocks)
    BY <1>1, <2>2, SubSeqProperties
  <2>6. QED
    BY <2>1, <2>4, <2>5, AppendProperties
<1>4. QED
  BY <1>2, <1>3 DEF CutOff, text

\* A process that has ended, or was killed, may be started again.
LEMMA MovedEnd ==
  ASSUME Inv, NEW p \in Procs, Exit(p) \/ Crash(p)
  PROVE  Moved(p) /\ ~Rewriting(p)'
<1>1. HostOK'
  <2>1. CASE Exit(p)
    BY <2>1, ReadsOnlyTyped DEF Exit, Inv, TypeOK
  <2>2. CASE Crash(p)
    <3>1. torn' \in BOOLEAN /\ file' \in Seq(Blocks)
      <4>1. CASE At(p, "add_write")
        BY <2>2, <4>1, CutOffTyped DEF Crash
      <4>2. CASE ~At(p, "add_write")
        BY <2>2, <4>2 DEF Crash, Inv, TypeOK, HostOK
      <4>3. QED
        BY <4>1, <4>2
    <3>2. QED
      BY <2>2, <3>1 DEF Crash, Unlock, Fault, Event, Inv, TypeOK, HostOK
  <2>3. QED
    BY <2>1, <2>2
<1>2. Becomes(p, Idle)
  BY DEF Exit, Crash
<1>3. ps' \in [Procs -> Processes] /\ ps'[p] = Idle /\ \A r \in Procs \ {p} : ps'[r] = ps[r]
  BY <1>2, Becoming, IdleTyped DEF Inv
<1>4. Idle.pc = "idle" /\ Idle.done = {} /\ Idle.failed = {}
  BY DEF Idle
<1>5. StageOK(ps'[p]) /\ ~Rewriting(p)' /\ Current(ps[p])'
  BY <1>3, <1>4 DEF StageOK, Rewriting, Current, PlanCurrent, NoRecreate, Checked, Reported
<1>6. QED
  BY <1>1, <1>3, <1>5 DEF Moved

\* The steps of add: none of them is after the preview.
LEMMA MovedAdd ==
  ASSUME Inv, NEW p \in Procs, AddRead(p) \/ AddTruncate(p) \/ AddWrite(p)
  PROVE  Moved(p)
<1> DEFINE q == ps[p]
<1>1. q \in Processes /\ StageOK(q) /\ q.pc \in {"add_read", "add_truncate", "add_write"}
  BY DEF Inv, TypeOK, ProcInv, AddRead, AddTruncate, AddWrite, Add, At
<1>2. q.done = {} /\ q.failed = {} /\ q.approved = FALSE /\ q.name \in Names
  BY <1>1 DEF StageOK
<1>3. HostOK'
  <2>1. CASE AddRead(p)
    BY <2>1 DEF AddRead, Add, NoFault, Inv, TypeOK, HostOK
  <2>2. CASE AddTruncate(p)
    <3>1. file' \in Seq(Blocks)
      <4>1. file' = <<>> \/ file' = file
        BY <2>2 DEF AddTruncate
      <4>2. <<>> \in Seq(Blocks) /\ file \in Seq(Blocks)
        BY EmptySeq DEF Inv, TypeOK, HostOK
      <4>3. QED
        BY <4>1, <4>2
    <3>2. budget' \in [events : Nat, other : Nat]
      BY <2>2 DEF AddTruncate, NoFault, Fault, Event, Inv, TypeOK, HostOK
    <3>3. QED
      BY <2>2, <3>1, <3>2 DEF AddTruncate, Inv, TypeOK, HostOK
  <2>3. CASE AddWrite(p)
    <3>1. q.pc = "add_write" /\ q.id \in Nat
      BY <1>1, <2>3 DEF AddWrite, Add, At, Processes
    <3>2. file' \in Seq(Blocks)
      <4>1. PICK text \in Seq(Blocks) : file' \in {text, file, Append(text, Fragment)}
        BY <2>3, <3>1, TextTyped DEF AddWrite, Overwritten
      <4>2. Append(text, Fragment) \in Seq(Blocks)
        BY <3>1, TextTyped, AppendProperties
      <4>3. QED
        BY <4>1, <4>2 DEF Inv, TypeOK, HostOK
    <3>3. QED
      BY <2>3, <3>1, <3>2 DEF AddWrite, Add, NoFault, Inv, TypeOK, HostOK
  <2>4. QED
    BY <2>1, <2>2, <2>3
<1>4. CASE ExitWith(p, ErrToExitCode("io"))
  <2>1. ErrToExitCode("io") \in Nat
    BY ErrCodes
  <2>2. QED
    BY <1>2, <1>3, <1>4, <2>1, MovedToExit
<1>5. CASE ~ExitWith(p, ErrToExitCode("io"))
  <2> HIDE DEF q
  <2>1. PICK r \in Processes :
          /\ Becomes(p, r) /\ r.pc \in {"add_truncate", "add_write", "exit", "load"}
          /\ r.done = {} /\ r.failed = {} /\ r.approved = FALSE /\ r.name \in Names
    <3>1. CASE AddRead(p)
      <4> DEFINE z == [q EXCEPT !.pc = "add_truncate", !.buf = file]
      <4>1. /\ z \in Processes /\ z.pc = "add_truncate" /\ z.done = {} /\ z.failed = {} /\ z.approved = FALSE
            /\ z.name \in Names
        BY <1>1, <1>2 DEF Processes, Locations, Inv, TypeOK, HostOK
      <4>2. Becomes(p, z)
        BY <3>1 DEF AddRead, Add, q
      <4> HIDE DEF z
      <4>3. QED
        BY <4>1, <4>2
    <3>2. CASE AddTruncate(p)
      <4> DEFINE z == [q EXCEPT !.pc = "add_write"]
      <4>1. /\ z \in Processes /\ z.pc = "add_write" /\ z.done = {} /\ z.failed = {} /\ z.approved = FALSE
            /\ z.name \in Names
        BY <1>1, <1>2 DEF Processes, Locations
      <4>2. Becomes(p, z)
        BY <1>5, <3>2 DEF AddTruncate, Goto, q
      <4> HIDE DEF z
      <4>3. QED
        BY <4>1, <4>2
    <3>3. CASE AddWrite(p)
      <4>1. PICK next \in {"exit", "load"} :
              Becomes(p, [q EXCEPT !.pc = next, !.cmd = "apply", !.buf = <<>>, !.id = 0])
        BY <3>3 DEF AddWrite, Add, q
      <4> DEFINE z == [q EXCEPT !.pc = next, !.cmd = "apply", !.buf = <<>>, !.id = 0]
      <4>2. /\ z \in Processes /\ z.pc = next /\ z.done = {} /\ z.failed = {} /\ z.approved = FALSE
            /\ z.name \in Names
        BY <1>1, <1>2, EmptySeq DEF Processes, Locations
      <4>3. Becomes(p, z)
        BY <4>1
      <4> HIDE DEF z
      <4>4. QED
        BY <4>2, <4>3
    <3>4. QED
      BY <3>1, <3>2, <3>3
  <2>2. ps' \in [Procs -> Processes] /\ ps'[p] = r /\ \A o \in Procs \ {p} : ps'[o] = ps[o]
    BY <2>1, Becoming DEF Inv
  <2>3. StageOK(ps'[p]) /\ Current(ps[p])'
    BY <2>1, <2>2 DEF StageOK, Current, PlanCurrent, NoRecreate, Checked, Reported
  <2>4. QED
    BY <1>3, <2>2, <2>3 DEF Moved
<1>6. QED
  BY <1>4, <1>5

\* An add that is refused has not touched ghars.toml.
LEMMA MovedAddRefused ==
  ASSUME Inv, NEW p \in Procs, AddRefused(p)
  PROVE  Moved(p) /\ ~Rewriting(p)'
<1>1. HostOK' /\ ps[p].done = {} /\ ps[p].approved = FALSE
  BY ReadsOnlyTyped DEF AddRefused, At, Inv, TypeOK, ProcInv, StageOK
<1>2. ErrToExitCode("validation") \in Nat /\ ErrToExitCode("io") \in Nat
  BY ErrCodes
<1>3. QED
  BY <1>1, <1>2, MovedToExit DEF AddRefused

\* An add whose write fails ends with an error.
LEMMA MovedAddWriteFails ==
  ASSUME Inv, NEW p \in Procs, AddWriteFails(p)
  PROVE  Moved(p) /\ torn' = TRUE
<1>1. file' \in Seq(Blocks)
  BY CutOffTyped DEF AddWriteFails
<1>2. HostOK'
  BY <1>1 DEF AddWriteFails, Fault, Event, Inv, TypeOK, HostOK
<1>3. ps[p].done = {} /\ ps[p].approved = FALSE
  BY DEF AddWriteFails, At, Inv, TypeOK, ProcInv, StageOK
<1>4. ErrToExitCode("io") \in Nat
  BY ErrCodes
<1>5. QED
  BY <1>2, <1>3, <1>4, MovedToExit DEF AddWriteFails

\* The steps of cleanup
LEMMA MovedCleanup ==
  ASSUME Inv, NEW p \in Procs, CleanupStep(p)
  PROVE  Moved(p) /\ ~Rewriting(p)'
<1> DEFINE q == ps[p]
<1>1. q \in Processes /\ StageOK(q) /\ q.pc \in {"c_units", "c_state", "c_runtime"}
  BY DEF Inv, TypeOK, ProcInv, CleanupStep, At
<1>2. HostOK'
  BY DEF CleanupStep, NoFault, Inv, TypeOK, HostOK
<1>3. q.done = {} /\ q.failed = {} /\ q.cmd = "cleanup"
  BY <1>1 DEF StageOK
<1>4. CASE ExitWith(p, ErrToExitCode("systemd"))
  <2>1. ErrToExitCode("systemd") \in Nat
    BY ErrCodes
  <2>2. QED
    BY <1>2, <1>3, <1>4, <2>1, MovedToExit
<1>5. CASE ExitWith(p, 0)
  BY <1>2, <1>3, <1>5, MovedToExit
<1>6. CASE \E loc \in {"c_state", "c_runtime"} : Goto(p, loc)
  <2>1. PICK loc \in {"c_state", "c_runtime"} : Goto(p, loc)
    BY <1>6
  <2> DEFINE z == [q EXCEPT !.pc = loc]
  <2>2. z \in Processes /\ z.pc = loc /\ z.done = {} /\ z.failed = {} /\ z.cmd = "cleanup"
    BY <1>1, <1>3 DEF Processes, Locations
  <2>3. Becomes(p, z)
    BY <2>1 DEF Goto
  <2> HIDE DEF z
  <2>4. ps' \in [Procs -> Processes] /\ ps'[p] = z /\ \A r \in Procs \ {p} : ps'[r] = ps[r]
    BY <2>2, <2>3, Becoming DEF Inv
  <2>5. StageOK(ps'[p]) /\ ~Rewriting(p)' /\ Current(ps[p])'
    BY <2>1, <2>2, <2>4 DEF StageOK, Rewriting, Current, PlanCurrent, NoRecreate, Checked, Reported
  <2>6. QED
    BY <1>2, <2>4, <2>5 DEF Moved
<1>7. QED
  BY <1>4, <1>5, <1>6 DEF CleanupStep

-----------------------------------------------------------------------------
(* ghars.toml: the blocks that were added *)

\* A block that is appended adds its id.
LEMMA IdsAppend ==
  ASSUME NEW s \in Seq(Blocks), NEW b \in Blocks
  PROVE  Append(s, b) \in Seq(Blocks) /\ Ids(Append(s, b)) = Ids(s) \cup {b.id}
<1>1. /\ Len(s) \in Nat /\ DOMAIN s = 1..Len(s)
      /\ Append(s, b) \in Seq(Blocks) /\ Len(Append(s, b)) = Len(s) + 1
      /\ \A i \in 1..Len(s) : Append(s, b)[i] = s[i]
      /\ Append(s, b)[Len(s) + 1] = b
  BY AppendProperties, LenProperties
<1>2. DOMAIN Append(s, b) = 1..(Len(s) + 1)
  BY <1>1, LenProperties
<1>3. QED
  BY <1>1, <1>2 DEF Ids

\* The blocks of an edited file are well-formed, and it has lost only what was taken out.
LEMMA EditedFile ==
  ASSUME file \in Seq(Blocks)
  PROVE  /\ \A b \in Blocks : Append(file, b) \in Seq(Blocks) /\ Ids(Append(file, b)) = Ids(file) \cup {b.id}
         /\ \A i \in DOMAIN file : /\ RemoveAt(file, i) \in Seq(Blocks)
                                   /\ Ids(file) \ {file[i].id} \subseteq Ids(RemoveAt(file, i))
         /\ \A n \in Names, s \in Specs :
              LET f == [i \in DOMAIN file |-> IF file[i].name = n THEN [file[i] EXCEPT !.spec = s] ELSE file[i]]
              IN f \in Seq(Blocks) /\ Ids(f) = Ids(file)
<1>1. Len(file) \in Nat /\ DOMAIN file = 1..Len(file) /\ \A i \in 1..Len(file) : file[i] \in Blocks
  BY LenProperties, ElementOfSeq
<1>2. ASSUME NEW b \in Blocks
      PROVE  Append(file, b) \in Seq(Blocks) /\ Ids(Append(file, b)) = Ids(file) \cup {b.id}
  BY IdsAppend
<1>3. ASSUME NEW i \in DOMAIN file
      PROVE  /\ RemoveAt(file, i) \in Seq(Blocks)
             /\ Ids(file) \ {file[i].id} \subseteq Ids(RemoveAt(file, i))
  <2> DEFINE r == RemoveAt(file, i)
  <2>1. /\ r \in Seq(Blocks) /\ Len(r) = Len(file) - 1
        /\ \A j \in 1..(Len(file) - 1) : r[j] = IF j < i THEN file[j] ELSE file[j + 1]
    BY <1>1, RemoveAtElements
  <2>2. DOMAIN r = 1..(Len(file) - 1)
    BY <2>1, LenProperties
  <2> HIDE DEF r
  <2>3. ASSUME NEW j \in 1..Len(file), j # i
        PROVE  \E k \in 1..(Len(file) - 1) : r[k] = file[j]
    <3>1. CASE j < i
      BY <1>1, <2>1, <3>1
    <3>2. CASE j > i
      <4>1. j - 1 \in 1..(Len(file) - 1) /\ ~(j - 1 < i) /\ (j - 1) + 1 = j
        BY <1>1, <3>2
      <4>2. QED
        BY <2>1, <4>1
    <3>3. QED
      BY <1>1, <2>3, <3>1, <3>2
  <2>4. ASSUME NEW x \in Ids(file) \ {file[i].id} PROVE x \in Ids(r)
    <3>1. PICK j \in 1..Len(file) : x = file[j].id
      BY <1>1 DEF Ids
    <3>2. PICK k \in 1..(Len(file) - 1) : r[k] = file[j]
      BY <2>3, <3>1
    <3>3. QED
      BY <2>2, <3>1, <3>2 DEF Ids
  <2>5. QED
    BY <2>1, <2>4 DEF r
<1>4. ASSUME NEW n \in Names, NEW s \in Specs
      PROVE  LET f == [i \in DOMAIN file |-> IF file[i].name = n THEN [file[i] EXCEPT !.spec = s] ELSE file[i]]
             IN f \in Seq(Blocks) /\ Ids(f) = Ids(file)
  <2> DEFINE f == [i \in DOMAIN file |-> IF file[i].name = n THEN [file[i] EXCEPT !.spec = s] ELSE file[i]]
  <2>1. \A i \in 1..Len(file) : f[i] \in Blocks /\ f[i].id = file[i].id
    <3> TAKE i \in 1..Len(file)
    <3>1. /\ file[i] \in Blocks /\ [file[i] EXCEPT !.spec = s] \in Blocks
          /\ [file[i] EXCEPT !.spec = s].id = file[i].id
      BY <1>1 DEF Blocks
    <3>2. f[i] = IF file[i].name = n THEN [file[i] EXCEPT !.spec = s] ELSE file[i]
      BY <1>1
    <3> HIDE DEF f
    <3>3. QED
      BY <3>1, <3>2
  <2>2. f \in [1..Len(file) -> Blocks]
    BY <1>1, <2>1
  <2> HIDE DEF f
  <2>3. f \in Seq(Blocks) /\ DOMAIN f = 1..Len(file)
    BY <1>1, <2>2, SeqDef
  <2>4. Ids(f) = Ids(file)
    BY <1>1, <2>1, <2>3 DEF Ids
  <2>5. QED
    BY <2>3, <2>4 DEF f
<1>5. QED
  BY <1>2, <1>3, <1>4

\* A step that leaves ghars.toml alone and does not get to rewriting it.
LEMMA QuietAdds ==
  ASSUME Inv, NEW p \in Procs, Moved(p), file' = file, acked' = acked,
         torn' = FALSE => torn = FALSE /\ ps[p].pc # "add_write",
         ~Rewriting(p)'
  PROVE  AddsInv'
<1> SUFFICES ASSUME torn' = FALSE
             PROVE  /\ \A q, r \in Procs : Rewriting(q)' /\ Rewriting(r)' => q = r
                    /\ \A q \in Procs : Rewriting(q)' => acked' \subseteq Ids(ps[q].buf)'
                    /\ \A q \in Procs : At(q, "add_write")' => file' = <<>>
                    /\ (\A q \in Procs : ~At(q, "add_write")') => acked' \subseteq Ids(file)'
  BY DEF AddsInv
<1>1. \A q \in Procs : Rewriting(q)' => Rewriting(q) /\ ps'[q] = ps[q]
  BY DEF Moved, Rewriting
<1>2. /\ (\A q \in Procs : ~At(q, "add_write")') => \A q \in Procs : ~At(q, "add_write")
      /\ \A q \in Procs : At(q, "add_write")' => At(q, "add_write")
  BY DEF Moved, At, Rewriting
<1>3. Ids(file)' = Ids(file) /\ \A q \in Procs : ps'[q] = ps[q] => Ids(ps[q].buf)' = Ids(ps[q].buf)
  BY DEF Ids
<1>4. QED
  BY <1>1, <1>2, <1>3 DEF Inv, AddsInv

\* The second read of add: it takes over every block that was added so far.
LEMMA AddReadAdds ==
  ASSUME Inv, NEW p \in Procs, AddRead(p), Moved(p)
  PROVE  AddsInv'
<1> SUFFICES ASSUME torn' = FALSE
             PROVE  /\ \A q, r \in Procs : Rewriting(q)' /\ Rewriting(r)' => q = r
                    /\ \A q \in Procs : Rewriting(q)' => acked' \subseteq Ids(ps[q].buf)'
                    /\ \A q \in Procs : At(q, "add_write")' => file' = <<>>
                    /\ (\A q \in Procs : ~At(q, "add_write")') => acked' \subseteq Ids(file)'
  BY DEF AddsInv
<1>1. torn = FALSE /\ \A q \in Procs : ~Rewriting(q)
  BY DEF AddRead, Inv, TypeOK, HostOK
<1>2. ps'[p].pc = "add_truncate" /\ ps'[p].buf = file
  BY DEF AddRead, Add, Becomes, Inv, TypeOK, Processes
<1>3. \A q \in Procs : Rewriting(q)' => q = p
  BY <1>1 DEF Moved, Rewriting
<1>4. acked \subseteq Ids(file) /\ acked' = acked /\ file' = file
  BY <1>1 DEF AddRead, Inv, AddsInv, Rewriting, At
<1>5. Ids(ps[p].buf)' = Ids(file) /\ Ids(file)' = Ids(file)
  BY <1>2, <1>4 DEF Ids
<1>6. \A q \in Procs : ~At(q, "add_write")'
  BY <1>2, <1>3 DEF At, Rewriting
<1>7. QED
  BY <1>3, <1>4, <1>5, <1>6

\* While ghars.toml is empty, the blocks are in the memory of the one that rewrites it.
LEMMA AddTruncateAdds ==
  ASSUME Inv, NEW p \in Procs, AddTruncate(p), Moved(p)
  PROVE  AddsInv'
<1>1. torn' = torn /\ acked' = acked /\ Rewriting(p) /\ ps[p].pc = "add_truncate"
  BY DEF AddTruncate, At, Rewriting
<1>2. CASE Goto(p, "add_write") /\ file' = <<>>
  <2> SUFFICES ASSUME torn' = FALSE
               PROVE  /\ \A q, r \in Procs : Rewriting(q)' /\ Rewriting(r)' => q = r
                      /\ \A q \in Procs : Rewriting(q)' => acked' \subseteq Ids(ps[q].buf)'
                      /\ \E q \in Procs : At(q, "add_write")'
    BY <1>2 DEF AddsInv
  <2>1. ps'[p].pc = "add_write" /\ ps'[p].buf = ps[p].buf
    BY <1>2 DEF Goto, Becomes, Inv, TypeOK, Processes
  <2>2. \A q \in Procs : Rewriting(q)' => q = p
    BY <1>1 DEF Moved, Rewriting, Inv, AddsInv
  <2>3. Ids(ps[p].buf)' = Ids(ps[p].buf) /\ acked \subseteq Ids(ps[p].buf)
    BY <1>1, <2>1 DEF Ids, Inv, AddsInv
  <2>4. At(p, "add_write")'
    BY <2>1 DEF At
  <2>5. QED
    BY <1>1, <2>2, <2>3, <2>4
<1>3. CASE ExitWith(p, ErrToExitCode("io")) /\ UNCHANGED file
  <2>1. ps'[p].pc = "exit"
    BY <1>3 DEF ExitWith, Becomes, Inv, TypeOK, Processes
  <2>2. ~Rewriting(p)'
    BY <2>1 DEF Rewriting
  <2>3. QED
    BY <1>1, <1>3, <2>2, QuietAdds
<1>4. QED
  BY <1>2, <1>3 DEF AddTruncate

\* The rewritten file has every block that was added, and the new one.
LEMMA AddWriteAdds ==
  ASSUME Inv, NEW p \in Procs, AddWrite(p), Moved(p)
  PROVE  AddsInv'
<1> SUFFICES ASSUME torn' = FALSE
             PROVE  /\ \A q, r \in Procs : Rewriting(q)' /\ Rewriting(r)' => q = r
                    /\ \A q \in Procs : Rewriting(q)' => acked' \subseteq Ids(ps[q].buf)'
                    /\ \A q \in Procs : At(q, "add_write")' => file' = <<>>
                    /\ (\A q \in Procs : ~At(q, "add_write")') => acked' \subseteq Ids(file)'
  BY DEF AddsInv
<1> DEFINE q == ps[p]
           b == NewBlock(p)
<1>1. torn = FALSE /\ acked' = acked \cup {q.id} /\ Rewriting(p) /\ q.pc = "add_write"
  BY DEF AddWrite, Add, At, Rewriting
<1>2. file' = Append(q.buf, b)
  <2>1. file = <<>>
    BY <1>1 DEF Inv, AddsInv, At
  <2>2. QED
    BY <2>1 DEF AddWrite, Overwritten
<1>3. b \in Blocks /\ b.id = q.id /\ q.buf \in Seq(Blocks)
  BY <1>1, TextTyped
<1>4. ps'[p].pc \in {"exit", "load"}
  BY DEF AddWrite, Add, Becomes, Inv, TypeOK, Processes
<1>5. \A r \in Procs : ~Rewriting(r)' /\ ~At(r, "add_write")'
  BY <1>1, <1>4 DEF Moved, Rewriting, At, Inv, AddsInv
<1>6. acked \subseteq Ids(q.buf)
  BY <1>1 DEF Inv, AddsInv
<1>7. Ids(Append(q.buf, b)) = Ids(q.buf) \cup {q.id}
  BY <1>3, IdsAppend
<1> HIDE DEF b
<1>8. Ids(file)' = Ids(Append(q.buf, b))
  BY <1>2 DEF Ids
<1>9. QED
  BY <1>1, <1>5, <1>6, <1>7, <1>8

\* An edit: the file, its text mended too, or GitHub's list.
LEMMA EditStep ==
  ASSUME Inv, Edit \/ Mend
  PROVE  HostOK' /\ ps' = ps /\ AddsInv'
<1> USE DEF Inv, TypeOK
<1>1. /\ file \in Seq(Blocks) /\ ps' = ps /\ unit' = unit /\ home' = home /\ lock' = lock
      /\ budget' \in [events : Nat, other : Nat] /\ budget.events \in Nat
  BY DEF Edit, Mend, HostOK, Event, NoFault
<1>2. CASE \E n \in ToSet(reg) : reg' = Deregistered(n) /\ UNCHANGED <<file, acked, torn>>
  <2>1. PICK n \in ToSet(reg) : reg' = Deregistered(n) /\ UNCHANGED <<file, acked, torn>>
    BY <1>2
  <2>2. n \in Names
    BY ElementOfSeq, LenProperties DEF HostOK, ToSet
  <2>3. HostOK'
    BY <1>1, <2>1, <2>2, RegTyped DEF HostOK
  <2>4. QED
    BY <1>1, <2>1, <2>3 DEF AddsInv, Rewriting, At, Ids
<1>3. CASE /\ UNCHANGED reg
           /\ torn' = (torn \/ \E q \in Procs : Rewriting(q))
           /\ \/ \E n \in Names, s \in Specs :
                   /\ file' = [i \in DOMAIN file |-> IF file[i].name = n THEN [file[i] EXCEPT !.spec = s]
                                                     ELSE file[i]]
                   /\ UNCHANGED acked
              \/ \E n \in Names :
                   /\ file' = Append(file, [name |-> n, spec |-> Default, id |-> MaxOther + budget.events])
                   /\ acked' = acked \cup {MaxOther + budget.events}
              \/ \E i \in DOMAIN file : file' = RemoveAt(file, i) /\ acked' = acked \ {file[i].id}
  <2>1. /\ file' \in Seq(Blocks) /\ acked' \in SUBSET Nat
        /\ acked \subseteq Ids(file) => acked' \subseteq Ids(file')
    <3>1. CASE \E n \in Names, s \in Specs :
                 /\ file' = [i \in DOMAIN file |-> IF file[i].name = n THEN [file[i] EXCEPT !.spec = s]
                                                   ELSE file[i]]
                 /\ UNCHANGED acked
      <4>1. PICK n \in Names, s \in Specs :
                 /\ file' = [i \in DOMAIN file |-> IF file[i].name = n THEN [file[i] EXCEPT !.spec = s]
                                                   ELSE file[i]]
                 /\ UNCHANGED acked
        BY <3>1
      <4> DEFINE f == [i \in DOMAIN file |-> IF file[i].name = n THEN [file[i] EXCEPT !.spec = s]
                                                   ELSE file[i]]
      <4>2. f \in Seq(Blocks) /\ Ids(f) = Ids(file)
        BY <1>1, EditedFile
      <4>3. file' = f
        BY <4>1
      <4> HIDE DEF f
      <4>4. QED
        BY <4>1, <4>2, <4>3 DEF HostOK
    <3>2. CASE \E n \in Names :
                 /\ file' = Append(file, [name |-> n, spec |-> Default, id |-> MaxOther + budget.events])
                 /\ acked' = acked \cup {MaxOther + budget.events}
      <4>1. PICK n \in Names :
                 /\ file' = Append(file, [name |-> n, spec |-> Default, id |-> MaxOther + budget.events])
                 /\ acked' = acked \cup {MaxOther + budget.events}
        BY <3>2
      <4> DEFINE b == [name |-> n, spec |-> Default, id |-> MaxOther + budget.events]
      <4>2. b \in Blocks /\ b.id = MaxOther + budget.events /\ MaxOther + budget.events \in Nat
        BY <1>1 DEF Blocks
      <4> HIDE DEF b
      <4>3. file' = Append(file, b)
        BY <4>1 DEF b
      <4>4. Append(file, b) \in Seq(Blocks) /\ Ids(Append(file, b)) = Ids(file) \cup {b.id}
        BY <1>1, <4>2, IdsAppend
      <4>5. acked' \in SUBSET Nat
        BY <4>1, <4>2 DEF HostOK
      <4>6. QED
        BY <4>1, <4>2, <4>3, <4>4, <4>5
    <3>3. CASE \E i \in DOMAIN file : file' = RemoveAt(file, i) /\ acked' = acked \ {file[i].id}
      BY <1>1, <3>3, EditedFile DEF HostOK
    <3>4. QED
      BY <1>3, <3>1, <3>2, <3>3
  <2>2. torn' \in BOOLEAN
    BY <1>3
  <2>3. HostOK'
    BY <1>1, <1>3, <2>1, <2>2 DEF HostOK
  <2>4. torn' = FALSE => torn = FALSE /\ \A q \in Procs : ~Rewriting(q)
    BY <1>3 DEF HostOK
  <2>5. \A q \in Procs : Rewriting(q)' <=> Rewriting(q)
    BY <1>1 DEF Rewriting
  <2>6. \A q \in Procs : ~Rewriting(q) => ~At(q, "add_write")
    BY DEF Rewriting, At
  <2>7. Ids(file)' = Ids(file')
    BY DEF Ids
  <2>8. torn' = FALSE => acked' \subseteq Ids(file)'
    BY <2>1, <2>4, <2>6, <2>7 DEF AddsInv
  <2>9. torn' = FALSE => \A q \in Procs : ~At(q, "add_write")'
    BY <1>1, <2>4, <2>6 DEF At
  <2>10. AddsInv'
    BY <2>4, <2>5, <2>8, <2>9 DEF AddsInv
  <2>11. QED
    BY <1>1, <2>3, <2>10
<1>4. QED
  BY <1>2, <1>3 DEF Edit, Mend

-----------------------------------------------------------------------------
(* The invariant *)

\* A host without runners and a ghars.toml with one block per name satisfy the invariant.
LEMMA InitInv == Init => Inv
<1> SUFFICES ASSUME Init PROVE Inv
  OBVIOUS
<1>1. Cardinality(Names) \in Nat
  BY FS_CardinalityType
<1>2. SetToSeq(Names) \in [1..Cardinality(Names) -> Names]
  <2>1. ExistsBijection(1..Cardinality(Names), Names)
    BY FS_CardinalityType
  <2>2. \E f \in [1..Cardinality(Names) -> Names] : IsInjective(f)
    BY <2>1 DEF ExistsBijection, Bijection, Injection, IsInjective
  <2>3. QED
    BY <2>2 DEF SetToSeq
<1>3. file \in [1..Cardinality(Names) -> Blocks]
  BY <1>2 DEF Init, Blocks
<1>4. file \in Seq(Blocks)
  BY <1>1, <1>3, SeqDef
<1>5. HostOK
  BY <1>4, EmptySeq DEF Init, HostOK
<1>6. TypeOK
  BY <1>5, IdleTyped DEF Init, TypeOK
<1>7. \A p \in Procs : ProcInv(p)
  BY IdleTyped DEF Init, ProcInv
<1>8. AddsInv
  BY DEF Init, AddsInv, Rewriting, At, Idle
<1>9. QED
  BY <1>6, <1>7, <1>8 DEF Inv

\* A process that does not move stays as it is, and what its plan rests on changes
\* only if it is disturbed.
LEMMA OthersKeep ==
  ASSUME Inv, NEW p, NEW r \in Procs, ps'[r] = ps[r], r # p, Disturb(p)
  PROVE  ProcInv(r)'
<1> DEFINE q == ps[r]
<1>1. q \in Processes /\ StageOK(q) /\ (r \notin disturbed => Current(q))
  BY DEF Inv, TypeOK, ProcInv
<1>2. StageOK(ps[r])'
  BY <1>1 DEF StageOK, Changes
<1>3. ASSUME r \notin disturbed' PROVE Current(ps[r])'
  <2>1. CASE ps[r].pc \in {"idle", "load"}
    BY <1>1, <2>1 DEF StageOK, Current, PlanCurrent, NoRecreate, Checked, Reported
  <2>2. CASE ps[r].pc \notin {"idle", "load"}
    <3>1. r \notin disturbed /\ unit' = unit /\ reg' = reg
      BY <1>3, <2>2 DEF Disturb, host
    <3>2. PICK z \in Processes : z = q
      BY <1>1
    <3>3. \A n \in Names : Action(z.raw, n)' = Action(z.raw, n)
      BY <3>1, ActionKept
    <3>4. Current(z) /\ ps'[r] = z
      BY <1>1, <3>1, <3>2
    <3> HIDE DEF q
    <3>5. PlanCurrent(ps[r])'
      BY <3>1, <3>3, <3>4 DEF Current, PlanCurrent, Covers
    <3>6. NoRecreate(ps[r])' /\ Checked(ps[r])' /\ Reported(ps[r])'
      BY <3>1, <3>4 DEF Current, NoRecreate, Checked, Reported
    <3>7. QED
      BY <3>5, <3>6 DEF Current
  <2>3. QED
    BY <2>1, <2>2
<1>4. QED
  BY <1>2, <1>3 DEF ProcInv

\* Every step of a process keeps what is said of it, and of ghars.toml.
LEMMA ProcessStep ==
  ASSUME Inv, NEW p \in Procs, Other(p) \/ Command(p) \/ Crash(p) \/ (p = Timer /\ PlainApply)
  PROVE  Moved(p) /\ AddsInv'
<1>1. CASE Other(p) \/ (p = Timer /\ PlainApply)
  <2>1. PICK cmd \in {"apply", "add", "cleanup"}, opt \in Opts, name \in Names \cup {None} :
          (cmd = "add" => name \in Names) /\ Start(p, cmd, opt, name)
    <3>1. Plain \in Opts /\ [Plain EXCEPT !.auto = FALSE] \in Opts /\ Options \subseteq Opts
      BY DEF Plain, Opts
    <3>2. QED
      BY <1>1, <3>1 DEF Other, PlainApply
  <2>2. budget' \in [events : Nat, other : Nat]
    BY <1>1 DEF Other, PlainApply, NoFault, Inv, TypeOK, HostOK
  <2>3. Moved(p) /\ ~Rewriting(p)'
    BY <2>1, <2>2, MovedStart
  <2>4. file' = file /\ acked' = acked /\ torn' = torn /\ ps[p].pc = "idle"
    BY <2>1 DEF Start, ReadsOnly, At
  <2>5. QED
    BY <2>3, <2>4, QuietAdds
<1>2. CASE Crash(p)
  <2>1. CASE At(p, "add_write")
    <3>1. torn' = TRUE
      BY <1>2, <2>1 DEF Crash
    <3>2. QED
      BY <1>2, <3>1, MovedEnd DEF AddsInv
  <2>2. CASE ~At(p, "add_write")
    <3>1. file' = file /\ acked' = acked /\ torn' = torn /\ ps[p].pc # "add_write"
      BY <1>2, <2>2 DEF Crash, At
    <3>2. QED
      BY <1>2, <3>1, MovedEnd, QuietAdds
  <2>3. QED
    BY <2>1, <2>2
<1>3. CASE AddRead(p) \/ AddTruncate(p) \/ AddWrite(p)
  BY <1>3, MovedAdd, AddReadAdds, AddTruncateAdds, AddWriteAdds
<1>4. CASE AddWriteFails(p)
  BY <1>4, MovedAddWriteFails DEF AddsInv
<1>5. CASE Command(p) /\ ~(AddRead(p) \/ AddTruncate(p) \/ AddWrite(p) \/ AddWriteFails(p))
  <2>1. Moved(p) /\ ~Rewriting(p)'
    BY <1>5, MovedLoad, MovedPreflight, MovedPlan, MovedReconcile, MovedReplan, MovedPrepare, MovedAcquire,
       MovedAct, MovedFinish, MovedEnd, MovedAddRefused, MovedCleanup DEF Command
  <2>2. file' = file /\ acked' = acked /\ torn' = torn
    BY <1>5 DEF Command, Load, Preflight, Plan, Reconcile, Replan, Prepare, Acquire, Act, Finish, Exit,
                AddRefused, CleanupStep, ReadsOnly
  <2>3. ps[p].pc \notin {"add_truncate", "add_write"}
    BY <1>5 DEF Command, Load, Preflight, Plan, Reconcile, Replan, Prepare, Acquire, Act, Finish, Exit,
                AddRefused, CleanupStep, At
  <2>4. QED
    BY <2>1, <2>2, <2>3, QuietAdds
<1>6. QED
  BY <1>1, <1>2, <1>3, <1>4, <1>5

\* Every step of a process, of an editor or of GitHub keeps the invariant.
LEMMA NextInv == Inv /\ [Next]_vars => Inv'
<1> SUFFICES ASSUME Inv, [Next]_vars PROVE Inv'
  OBVIOUS
<1>1. ASSUME NEW p \in Procs, Other(p) \/ Command(p) \/ Crash(p) \/ (p = Timer /\ PlainApply), Disturb(p)
      PROVE  Inv'
  <2>1. Moved(p) /\ AddsInv'
    BY <1>1, ProcessStep
  <2>2. ProcInv(p)'
    <3>1. CASE ps'[p].pc \in {"idle", "load"}
      BY <2>1, <3>1 DEF Moved, ProcInv, StageOK, Current, PlanCurrent, NoRecreate, Checked, Reported
    <3>2. CASE ps'[p].pc \notin {"idle", "load"}
      <4>1. p \notin disturbed' => p \notin disturbed
        BY <1>1, <3>2 DEF Disturb
      <4>2. QED
        BY <2>1, <4>1 DEF Moved, ProcInv
    <3>3. QED
      BY <3>1, <3>2
  <2>3. \A r \in Procs : r # p => ProcInv(r)'
    BY <1>1, <2>1, OthersKeep DEF Moved
  <2>4. TypeOK'
    BY <1>1, <2>1 DEF Moved, TypeOK, Disturb
  <2>5. QED
    BY <2>1, <2>2, <2>3, <2>4 DEF Inv
<1>2. CASE (Edit \/ Mend) /\ Disturb(None)
  <2>1. HostOK' /\ ps' = ps /\ AddsInv'
    BY <1>2, EditStep
  <2>2. \A r \in Procs : ProcInv(r)'
    <3> TAKE r \in Procs
    <3>1. r # None
      BY DEF Procs
    <3>2. QED
      BY <1>2, <2>1, <3>1, OthersKeep
  <2>3. TypeOK'
    BY <1>2, <2>1 DEF TypeOK, Disturb, Inv
  <2>4. QED
    BY <2>1, <2>2, <2>3 DEF Inv
<1>3. CASE UNCHANGED vars
  BY <1>3 DEF vars, Inv, TypeOK, HostOK, ProcInv, StageOK, Current, PlanCurrent, NoRecreate, Checked, Reported,
              Action, AddsInv, Rewriting, At, Ids
<1>4. Timer \in Procs
  BY DEF Procs
<1>5. QED
  BY <1>1, <1>2, <1>3, <1>4 DEF Next

\* The invariant holds of every behaviour.
LEMMA SpecInv == Spec => []Inv
BY InitInv, NextInv, PTL DEF Spec

-----------------------------------------------------------------------------
(* Theorems *)

\* The processes, their plans, ghars.toml and the host stay well-formed.
THEOREM TypeCorrect == Spec => []TypeOK
<1>1. Inv => TypeOK
  BY DEF Inv
<1>2. QED
  BY <1>1, SpecInv, PTL

\* An apply that reports no failure, and that nobody disturbed, has left exactly the
\* runners of ghars.toml, registered where GitHub could be asked (cmd_apply,
\* apply_exit_code), for every number of processes, runners and faults.
THEOREM CleanExit == Spec => []CleanExitIsApplied
<1>1. Inv => CleanExitIsApplied
  <2> SUFFICES ASSUME Inv, NEW p \in Procs, Succeeded(p), NEW n \in Names
               PROVE  /\ unit[n] = Wanted(ps[p].raw, n)
                      /\ unit[n] # None /\ ps[p].plan[n] # "update" /\ ~ps[p].unsure /\ ~ps[p].opt.detailed
                           => n \in ToSet(reg)
    BY DEF CleanExitIsApplied
  <2>1. Reported(ps[p]) /\ ps[p] \in Processes
    BY DEF Inv, TypeOK, ProcInv, Current, Succeeded
  <2>2. ps[p].unsure \in BOOLEAN /\ ps[p].approved \in BOOLEAN /\ ps[p].opt.detailed \in BOOLEAN
    BY <2>1 DEF Processes, Opts
  <2>3. ps[p].approved = TRUE
    BY <2>2 DEF Succeeded
  <2>4. /\ unit[n] = Wanted(ps[p].raw, n)
        /\ unit[n] # None /\ ps[p].plan[n] # "update" /\ ps[p].unsure = FALSE /\ ps[p].opt.detailed = FALSE
             => n \in ToSet(reg)
    BY <2>1, <2>3 DEF Reported, Succeeded, At
  <2>5. QED
    BY <2>2, <2>4
<1>2. QED
  BY <1>1, SpecInv, PTL

\* With --detailed-exitcode-recreate an undisturbed apply recreates nothing, by its
\* second plan neither (recreate_exit_code, the plan after the reconciliation).
THEOREM GateIsKept == Spec => []GateHolds
<1>1. Inv => GateHolds
  <2> SUFFICES ASSUME Inv, NEW p \in Procs, ps[p].opt.gate, p \notin disturbed
               PROVE  \A d \in ps[p].done : d[2] # "recreate"
    BY DEF GateHolds
  <2>1. NoRecreate(ps[p]) /\ ps[p] \in Processes
    BY DEF Inv, TypeOK, ProcInv, Current
  <2>2. ps[p].opt.gate = TRUE
    BY <2>1 DEF Processes, Opts
  <2>3. QED
    BY <2>1, <2>2 DEF NoRecreate
<1>2. QED
  BY <1>1, SpecInv, PTL

\* No block that was added to ghars.toml is lost, unless two rewrites overlapped, or an
\* add was killed, or its write failed, after it had truncated the file (cmd_add).
THEOREM AddedStays == Spec => []AddsKept
<1>1. Inv => AddsKept
  BY DEF Inv, TypeOK, HostOK, AddsInv, AddsKept, Ids
<1>2. QED
  BY <1>1, SpecInv, PTL

\* Units and homes are changed only by a cleanup or by an apply that was approved, also
\* by the reconciliation, which works without the lock (cmd_apply, cmd_cleanup).
THEOREM ConsentComesFirst == Spec => ConsentFirst
<1>1. ASSUME Inv, [Next]_vars
      PROVE  [<<unit, home>>' # <<unit, home>> =>
                \E p \in Procs : ps[p]' # ps[p] /\ (ps[p].cmd = "cleanup" \/ ps[p].approved)]_vars
  <2> SUFFICES ASSUME Next, <<unit, home>>' # <<unit, home>>
               PROVE  \E p \in Procs : ps[p]' # ps[p] /\ (ps[p].cmd = "cleanup" \/ ps[p].approved)
    BY <1>1 DEF vars
  <2>1. PICK p \in Procs : Reconcile(p) \/ Act(p) \/ CleanupStep(p)
    BY DEF Next, PlainApply, Start, Other, Command, Crash, Edit, Load, Preflight, Plan, Replan, Prepare,
           Acquire, Finish, Exit, AddRead, AddRefused, AddTruncate, AddWrite, AddWriteFails, Add, Mend,
           ReadsOnly
  <2>2. ps[p] \in Processes /\ StageOK(ps[p])
    BY <1>1 DEF Inv, TypeOK, ProcInv
  <2>3. CASE Reconcile(p) \/ Act(p)
    <3>1. ps[p].approved
      BY <2>2, <2>3 DEF Reconcile, Act, At, StageOK
    <3>2. ps'[p] # ps[p]
      BY <1>1, <2>3, MovedReconcile, MovedAct
    <3>3. QED
      BY <3>1, <3>2
  <2>4. CASE CleanupStep(p)
    <3>1. ps[p].cmd = "cleanup"
      BY <2>2, <2>4 DEF CleanupStep, At, StageOK
    <3>2. ps'[p].pc # ps[p].pc
      BY <1>1, <2>2, <2>4 DEF CleanupStep, At, Goto, ExitWith, Becomes, Inv, TypeOK, Processes
    <3>3. QED
      BY <3>1, <3>2
  <2>5. QED
    BY <2>1, <2>3, <2>4
<1>2. QED
  BY <1>1, SpecInv, PTL DEF Spec, ConsentFirst
=============================================================================
