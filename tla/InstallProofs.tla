---------------------------- MODULE InstallProofs ---------------------------
(***************************************************************************)
(* That a published unit has its tree, for every set of versions, every    *)
(* setting of keep_versions and any number of installs, failures, power    *)
(* losses and steps of the clock, unless a tree was dated later than the   *)
(* new one: what the steps of an install know about the download, the      *)
(* staging directory and bin.<version> while they hold.                    *)
(***************************************************************************)
EXTENDS Install, FiniteSetTheorems, TLAPS

-----------------------------------------------------------------------------
Trees == [data : {"absent", "partial", "whole"}, open : BOOLEAN]
Steps == {"idle", "fetch", "verify", "stage", "extract", "swap", "clear", "move", "copy",
          "discard", "mode", "prune", "publish"}

\* The variables that a published unit depends on have their types.
TypeOK ==
  /\ pc \in Steps /\ ver \in Versions \cup {NoVersion} /\ unit \in Versions \cup {NoVersion}
  /\ staged \in Trees /\ tree \in [Versions -> Trees]
  /\ powerLoss \in Nat /\ late \in BOOLEAN

\* The order of the trees is strict.
Strict == \A v \in Versions : <<v, v>> \notin newer

\* A create runs only without a unit, and for a version.
Creating == pc # "idle" => ver \in Versions /\ unit = NoVersion

\* Nothing is staged before the checksum was right, or for a tarball of the operator's.
Verified == pc \notin {"idle", "fetch", "verify"} => download \in {"good", "local"}

\* What the swap moves, exchanges or copies is whole.
StagedWhole == pc \in {"swap", "clear", "move", "copy"} => staged.data = "whole"

\* From then on bin.<version> is whole, with the mode it needs after SetMode.  The prune
\* leaves it that way unless another tree is dated later,
Placed ==
  /\ pc \in {"discard", "mode", "prune"} => tree[ver].data = "whole"
  /\ pc = "prune" => tree[ver].open = TRUE
  /\ pc = "publish" /\ ~late => tree[ver].data = "whole" /\ tree[ver].open = TRUE

\* which none is until the prune has looked.
Youngest == pc \in {"discard", "mode", "prune"} /\ ~late =>
              \A w \in Versions : <<w, ver>> \notin newer

Inv == /\ TypeOK /\ Strict /\ Creating /\ Verified /\ StagedWhole /\ Placed /\ Youngest
       /\ UnitHasTree

-----------------------------------------------------------------------------

\* Trees are made of their two parts.
LEMMA TreesMade ==
  /\ NoTree \in Trees
  /\ \A d \in {"absent", "partial", "whole"} : \A o \in BOOLEAN : Tree(d, o) \in Trees
  /\ \A d \in {"absent", "partial", "whole"} : Tree(d, FALSE) \in Trees /\ Tree(d, FALSE).data = d
  /\ \A t \in Trees : \A d \in {"absent", "partial", "whole"} : [t EXCEPT !.data = d] \in Trees
<1>1. \A d \in {"absent", "partial", "whole"} : \A o \in BOOLEAN : Tree(d, o) \in Trees
  BY DEF Tree, Trees
<1>2. \A d \in {"absent", "partial", "whole"} : Tree(d, FALSE) \in Trees /\ Tree(d, FALSE).data = d
  BY <1>1, Zenon DEF Tree
<1>3. NoTree \in Trees
  BY <1>2 DEF NoTree
<1>4. \A t \in Trees : \A d \in {"absent", "partial", "whole"} : [t EXCEPT !.data = d] \in Trees
  BY DEF Trees
<1>5. QED
  BY <1>1, <1>2, <1>3, <1>4

\* The order stays strict, and when no tree is ahead one that alone was written to has
\* none above it.
LEMMA WrittenStrict ==
  ASSUME Strict, NEW S, NEW left, Written(S, left)
  PROVE  /\ Strict'
         /\ ahead' = {} => \A v \in Versions : S = {v} =>
                             \A w \in Versions : <<w, v>> \notin newer'
BY DEF Strict, Written

\* The tree that is put in place is the newest, or it is late.
LEMMA PutYoungest ==
  ASSUME Inv, NEW t, Put(t), ver \in Versions
  PROVE  /\ Strict' /\ late' \in BOOLEAN
         /\ ~late' => \A w \in Versions : <<w, ver>> \notin newer'
<1>1. Written({ver}, Present \cup {ver}) /\ late' = (ahead' # {}) /\ Strict
  BY DEF Put, Inv
<1>2. /\ Strict'
      /\ ahead' = {} => \A v \in Versions : {ver} = {v} =>
                          \A w \in Versions : <<w, v>> \notin newer'
  BY <1>1, WrittenStrict, Zenon
<1>3. QED
  BY <1>1, <1>2

\* The tree that nothing is newer than is never pruned (KeepVersions is not 0).
LEMMA YoungestKept ==
  ASSUME NEW v \in Versions, \A w \in Versions : <<w, v>> \notin newer
  PROVE  v \notin Prunable
<1>1. {w \in Present : <<w, v>> \in newer} = {}
  BY DEF Present
<1>2. Cardinality({w \in Present : <<w, v>> \in newer}) = 0
  BY <1>1, FS_EmptySet
<1>3. QED
  BY <1>2, InstallConstants DEF Prunable

\* Before the first apply nothing is installed and no unit names a version.
LEMMA InvInit == Init => Inv
<1> SUFFICES ASSUME Init PROVE Inv
  OBVIOUS
<1>1. TypeOK
  BY TreesMade DEF Init, TypeOK, Steps
<1>2. /\ pc = "idle" /\ unit = NoVersion /\ newer = {} /\ ver = NoVersion
  BY DEF Init
<1>3. Strict /\ Creating /\ Verified /\ StagedWhole /\ Placed /\ Youngest /\ UnitHasTree
  BY <1>2 DEF Strict, Creating, Verified, StagedWhole, Placed, Youngest, UnitHasTree
<1>4. QED
  BY <1>1, <1>3 DEF Inv

\* An apply begins: it holds nothing yet.
LEMMA ApplyInv == ASSUME Inv, NEW p \in Pids, NEW v \in Versions, Apply(p, v) PROVE Inv'
BY DEF Apply, Host, Dates, Inv, TypeOK, Trees, Steps, Strict, Creating, Verified, StagedWhole, Placed,
   Youngest, UnitHasTree

\* A process that ends, for whatever reason, leaves the trees as they are.
LEMMA EndsInv == ASSUME Inv, Ends, UNCHANGED <<tree, newer, late, unit, powerLoss>> PROVE Inv'
<1>1. NoTree \in Trees
  BY DEF NoTree, Tree, Trees
<1>2. QED
  BY <1>1 DEF Ends, Inv, TypeOK, Steps, Strict, Creating, Verified, StagedWhole, Placed,
     Youngest, UnitHasTree

\* The download, the checksum and verify_local touch no tree.
LEMMA FetchInv ==
  ASSUME Inv, HttpDownload \/ UseLocalTarball \/ DownloadAndVerify
  PROVE  Inv'
<1>1. CASE Ends
  BY <1>1, EndsInv DEF HttpDownload, UseLocalTarball, DownloadAndVerify, Host, Dates
<1>2. CASE ~Ends
  BY <1>2 DEF HttpDownload, UseLocalTarball, DownloadAndVerify, Host, Dates, Inv, TypeOK, Steps, Strict, Creating, Verified, StagedWhole, Placed,
     Youngest, UnitHasTree
<1>3. QED
  BY <1>1, <1>2

\* The staging directory is made, and the tarball is given its digest.
LEMMA StageInv == ASSUME Inv, MakeStaging \/ ExtractTarball PROVE Inv'
<1>1. staged' \in Trees
  BY TreesMade DEF MakeStaging, ExtractTarball
<1>2. pc' = "swap" => staged'.data = "whole"
  BY TreesMade DEF MakeStaging, ExtractTarball, Inv, Verified
<1>3. QED
  BY <1>1, <1>2 DEF MakeStaging, ExtractTarball, Host, Dates, Inv, TypeOK, Steps, Strict, Creating, Verified, StagedWhole, Placed,
     Youngest, UnitHasTree

\* The staged tree changes places with the installed one, or the way without the exchange is taken.
LEMMA SwapInv == ASSUME Inv, Swap PROVE Inv'
<1>1. CASE pc' \in {"clear", "move", "copy"} /\ UNCHANGED <<tree, dirty, Dates, staged>>
  BY <1>1 DEF Swap, Dates, Inv, TypeOK, Steps, Strict, Creating, Verified, StagedWhole, Placed,
     Youngest, UnitHasTree
<1>2. CASE Put(staged) /\ staged' = tree[ver] /\ pc' = "discard"
  <2>1. ver \in Versions
    BY DEF Swap, Inv, Creating
  <2>2. /\ Strict' /\ late' \in BOOLEAN
        /\ ~late' => \A w \in Versions : <<w, ver>> \notin newer'
    BY <1>2, <2>1, PutYoungest
  <2>3. TypeOK' /\ Creating' /\ Verified' /\ StagedWhole' /\ Placed' /\ UnitHasTree'
    BY <1>2, <2>2 DEF Swap, Put, Inv, TypeOK, Trees, Steps, Creating, Verified, StagedWhole,
       Placed, UnitHasTree
  <2>4. ver' = ver
    BY DEF Swap
  <2>5. QED
    BY <2>2, <2>3, <2>4 DEF Inv, Youngest
<1>3. QED
  BY <1>1, <1>2 DEF Swap

\* The tree in the way is removed, in parts.
LEMMA ClearInv == ASSUME Inv, Clear PROVE Inv'
<1>1. Strict'
  BY WrittenStrict DEF Clear, Inv
<1>2. tree' \in [Versions -> Trees]
  <2>1. tree \in [Versions -> Trees] /\ ver \in Versions
    BY DEF Clear, Inv, TypeOK, Creating
  <2>2. [tree[ver] EXCEPT !.data = "partial"] \in Trees /\ NoTree \in Trees
    BY <2>1, TreesMade
  <2>3. QED
    BY <2>1, <2>2 DEF Clear
<1>3. QED
  BY <1>1, <1>2 DEF Clear, Inv, TypeOK, Steps, Creating, Verified, StagedWhole, Placed,
     Youngest, UnitHasTree

\* The staging directory is renamed to its version.
LEMMA MoveInv == ASSUME Inv, Move PROVE Inv'
<1>1. ver \in Versions /\ Put(staged)
  BY DEF Move, Inv, Creating
<1>2. /\ Strict' /\ late' \in BOOLEAN
      /\ ~late' => \A w \in Versions : <<w, ver>> \notin newer'
  BY <1>1, PutYoungest
<1>3. QED
  BY <1>2 DEF Move, Put, Inv, TypeOK, Trees, Steps, Creating, Verified, StagedWhole, Placed,
     Youngest, UnitHasTree

\* The copy across file systems, in parts.
LEMMA CopyInv == ASSUME Inv, Copy PROVE Inv'
<1>1. ver \in Versions
  BY DEF Copy, Inv, Creating
<1>2. /\ Strict' /\ late' \in BOOLEAN
      /\ ~late' => \A w \in Versions : <<w, ver>> \notin newer'
  BY <1>1, PutYoungest DEF Copy
<1>3. tree' \in [Versions -> Trees]
  BY TreesMade DEF Copy, Put, Inv, TypeOK, Creating
<1>4. pc' = "discard" => tree'[ver].data = "whole"
  BY DEF Copy, Put, Inv, TypeOK, Creating, StagedWhole
<1>5. QED
  BY <1>1, <1>2, <1>3, <1>4 DEF Copy, Inv, TypeOK, Steps, Creating, Verified, StagedWhole, Placed,
     Youngest, UnitHasTree

\* The last steps of an install, and its failures.
LEMMA FinishInv == ASSUME Inv, Discard \/ SetMode \/ InstallFails \/ PublishUnit PROVE Inv'
<1>1. CASE Discard
  BY <1>1 DEF Discard, Host, Dates, Inv, TypeOK, Steps, Strict, Creating, Verified, StagedWhole, Placed,
     Youngest, UnitHasTree
<1>2. CASE SetMode
  <2>1. /\ tree' \in [Versions -> Trees]
        /\ tree'[ver].open = TRUE /\ tree'[ver].data = tree[ver].data
    BY <1>2 DEF SetMode, Inv, TypeOK, Trees, Creating
  <2>2. QED
    BY <1>2, <2>1 DEF SetMode, Dates, Inv, TypeOK, Steps, Strict, Creating, Verified, StagedWhole, Placed,
     Youngest, UnitHasTree
<1>3. CASE InstallFails
  BY <1>3, EndsInv DEF InstallFails, Host, Dates
<1>4. CASE PublishUnit
  <2>1. NoTree \in Trees
    BY DEF NoTree, Tree, Trees
  <2>2. /\ ver \in Versions
        /\ ~late => tree[ver].open = TRUE /\ tree[ver].data = "whole"
    BY <1>4 DEF PublishUnit, Inv, Placed, Creating
  <2>3. QED
    BY <1>4, <2>1, <2>2 DEF PublishUnit, Ends, Dates, Inv, TypeOK, Steps, Strict, Creating, Verified, StagedWhole, Placed,
     Youngest, UnitHasTree
<1>5. QED
  BY <1>1, <1>2, <1>3, <1>4

\* prune_old_bin_versions never takes the tree that was just installed when it is the newest.
LEMMA PruneInv == ASSUME Inv, Prune PROVE Inv'
<1>1. PICK failed \in SUBSET Prunable :
        /\ tree' = [v \in Versions |->
                      IF v \in failed THEN [tree[v] EXCEPT !.data = "partial"]
                      ELSE IF v \in Prunable THEN NoTree ELSE tree[v]]
        /\ Written(failed, Present \ (Prunable \ failed))
  BY DEF Prune
<1>2. Strict'
  BY <1>1, WrittenStrict DEF Inv
<1>3. ver \in Versions /\ (~late => ver \notin Prunable)
  BY YoungestKept DEF Inv, Youngest, Creating, Prune
<1>4. ~late => tree'[ver] = tree[ver]
  BY <1>1, <1>3
<1>5. tree' \in [Versions -> Trees]
  BY <1>1 DEF Inv, TypeOK, Trees, NoTree, Tree
<1>6. QED
  BY <1>2, <1>3, <1>4, <1>5 DEF Prune, Inv, TypeOK, Steps, Creating, Verified, StagedWhole, Placed,
     Youngest, UnitHasTree

\* Somebody touches a tree: the order stays strict, and a tree other than the one that is
\* installed makes that one late.
LEMMA TouchInv == ASSUME Inv, NEW v \in Versions, Touch(v) PROVE Inv'
<1>1. Strict'
  BY DEF Touch, Inv, Strict
<1>2. Youngest'
  <2>1. CASE v = ver
    BY <2>1 DEF Touch, Inv, Youngest
  <2>2. CASE v # ver
    BY <2>2 DEF Touch, Inv, Youngest
  <2>3. QED
    BY <2>1, <2>2
<1>3. late' \in BOOLEAN /\ (pc = "idle" => late' = late) /\ (~late' => ~late)
  BY DEF Touch, Inv, TypeOK
<1>4. QED
  BY <1>1, <1>2, <1>3 DEF Touch, Inv, TypeOK, Steps, Creating, Verified, StagedWhole, Placed,
     UnitHasTree

\* What happens beside the install: a runner is removed, the link moves, a kill, the clock.
LEMMA OutsideInv ==
  ASSUME Inv, RemoveRunner \/ Crash \/ Tick \/ ClockBack \/ \E v \in Versions : PointBin(v) \/ Touch(v)
  PROVE  Inv'
<1>1. CASE RemoveRunner
  <2>1. tree' \in [Versions -> Trees]
    BY <1>1 DEF RemoveRunner, NoTree, Tree, Trees
  <2>2. QED
    BY <1>1, <2>1 DEF RemoveRunner, Inv, TypeOK, Steps, Strict, Creating, Verified, StagedWhole, Placed,
     Youngest, UnitHasTree
<1>2. CASE Crash
  BY <1>2, EndsInv DEF Crash, Host, Dates
<1>3. CASE Tick \/ ClockBack \/ \E v \in Versions : PointBin(v)
  BY <1>3 DEF Tick, ClockBack, PointBin, Dates, Inv, TypeOK, Steps, Strict, Creating, Verified,
     StagedWhole, Placed, Youngest, UnitHasTree
<1>4. CASE \E v \in Versions : Touch(v)
  BY <1>4, TouchInv
<1>5. QED
  BY <1>1, <1>2, <1>3, <1>4

\* A power failure ends the process and may undo what was not written through.
LEMMA PowerInv == ASSUME Inv, PowerFails PROVE Inv'
<1>1. /\ tree' \in [Versions -> Trees]
      /\ \A v \in Versions : /\ tree'[v].open = tree[v].open
                             /\ tree[v].data \in {"whole", "partial"} => tree'[v].data \in {"whole", "partial"}
  BY DEF PowerFails, Inv, TypeOK, Trees
<1>2. powerLoss' \in Nat /\ powerLoss' # 0
  BY DEF PowerFails, Inv, TypeOK
<1>3. /\ pc' = "idle" /\ ver' = NoVersion /\ staged' = NoTree /\ newer' = newer /\ unit' = unit /\ late' = late
  BY DEF PowerFails, Ends, Dates
<1>4. UnitHasTree'
  BY <1>1, <1>2, <1>3 DEF Inv, UnitHasTree, TypeOK
<1>5. QED
  BY <1>1, <1>2, <1>3, <1>4 DEF Inv, TypeOK, NoTree, Tree, Trees, Steps, Strict, Creating, Verified, StagedWhole, Placed, Youngest

\* Every step of the host, of an install and of an operator keeps the invariant.
LEMMA InvNext == Inv /\ [Next]_vars => Inv'
<1> SUFFICES ASSUME Inv, [Next]_vars PROVE Inv'
  OBVIOUS
<1>1. CASE UNCHANGED vars
  BY <1>1 DEF vars, Inv, TypeOK, Strict, Creating, Verified, StagedWhole, Placed, Youngest, UnitHasTree
<1>2. CASE Next
  BY <1>2, ApplyInv, FetchInv, StageInv, SwapInv, ClearInv, MoveInv, CopyInv, FinishInv, PruneInv, OutsideInv,
     PowerInv DEF Next, InstallStep
<1>3. QED
  BY <1>1, <1>2

\* Every variable keeps its type, for every set of versions and processes.
THEOREM TypeCorrect == Spec => []TypeOK
BY InvInit, InvNext, PTL DEF Spec, Inv

\* A published unit always starts a complete, readable tree of a tarball that was verified
\* or is the operator's own, unless another tree of the home was dated later than the one just
\* installed; a power failure may cut its files short but does not take it away (UnitHasTree).
THEOREM UnitAlwaysHasTree == Spec => []UnitHasTree
<1>1. Inv => UnitHasTree
  BY DEF Inv
<1>2. QED
  BY <1>1, InvInit, InvNext, PTL DEF Spec
==============================================================================
