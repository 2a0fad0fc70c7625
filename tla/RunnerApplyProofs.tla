-------------------------- MODULE RunnerApplyProofs --------------------------
(***************************************************************************)
(* Proofs about RunnerApply for every set of specs, zones and drop-ins and *)
(* every bound on faults, crashes and edits.                               *)
(***************************************************************************)
EXTENDS RunnerApply, SequenceTheorems, TLAPS

USE RunnerConstants

\* A sequence without its last element
LEMMA WithoutLast ==
  ASSUME NEW S, NEW s \in Seq(S), s # <<>>, NEW n, n = Len(s), NEW f, f = SubSeq(s, 1, n - 1)
  PROVE  /\ n \in Nat \ {0} /\ s[n] \in S
         /\ f \in Seq(S) /\ Len(f) = n - 1
         /\ \A i \in 1..(n - 1) : f[i] = s[i]
<1>1. n \in Nat \ {0}
  BY EmptySeq, LenProperties
<1>2. \A i \in 1..n : s[i] \in S
  BY ElementOfSeq
<1>3. /\ f \in Seq(S) /\ Len(f) = IF 1 <= n - 1 THEN (n - 1) - 1 + 1 ELSE 0
      /\ \A i \in 1..((n - 1) - 1 + 1) : f[i] = s[1 + i - 1]
  BY <1>1, <1>2, SubSeqProperties
<1>4. ASSUME NEW i \in 1..(n - 1) PROVE f[i] = s[i]
  <2>1. i \in 1..((n - 1) - 1 + 1) /\ 1 + i - 1 = i
    BY <1>1
  <2>2. QED
    BY <1>3, <2>1
<1>5. Len(f) = n - 1
  BY <1>1, <1>3
<1>6. QED
  BY <1>1, <1>2, <1>3, <1>4, <1>5

(***************************************************************************)
(* What kind of action is at each location, and that an action that needs  *)
(* a target spec has one: the type invariant is inductive only with it.    *)
(***************************************************************************)
KindOK ==
  /\ plan.kind \in {"create", "recreate", "inplace", "noop"} => plan.to \in Specs
  /\ pc = "reconcile" => plan.kind = "noop"
  /\ pc \in {"install", "register", "enable", "tighten"} => plan.kind \in {"create", "recreate"}
  /\ pc \in {"env", "unit", "dropins", "reload", "start"} =>
       plan.kind \in {"create", "recreate", "inplace"}
  /\ pc \in {"stale", "decide"} => plan.kind = "inplace"
  /\ pc \in {"snapshot", "restore"} => plan.kind = "recreate"
  /\ pc = "stop" => plan.kind \in {"inplace", "recreate", "remove"}
  /\ pc \in {"disable", "deregister", "rmunit", "rmdropins", "rmhome"} =>
       plan.kind \in {"recreate", "remove"}

TypeInv == TypeOK /\ KindOK

(***************************************************************************)
(* The undo log stays a sequence of well-formed steps.                     *)
(***************************************************************************)
LEMMA PushTyped ==
  ASSUME log \in Seq(UndoSteps), NEW s \in UndoSteps, Push(s)
  PROVE  log' \in Seq(UndoSteps)
BY AppendProperties DEF Push

\* Undo takes a well-formed step off the log and leaves a well-formed log.
LEMMA PopTyped ==
  ASSUME log \in Seq(UndoSteps), log # <<>>
  PROVE  /\ log[Len(log)] \in UndoSteps
         /\ SubSeq(log, 1, Len(log) - 1) \in Seq(UndoSteps)
<1>1. Len(log) \in Nat \ {0}
  BY EmptySeq, LenProperties
<1>2. log[Len(log)] \in UndoSteps
  BY <1>1, ElementOfSeq
<1>3. QED
  BY <1>1, <1>2, SubSeqProperties

-----------------------------------------------------------------------------
(* Type correctness.                                                       *)


\* A host without the runner satisfies the type invariant.
LEMMA TypeInit == Init => TypeInv
<1> SUFFICES ASSUME Init PROVE TypeInv
  OBVIOUS
<1>1. DiskConf \in Conf
  BY DEF Init, DiskConf, Conf, UnitStates, SpecOrNone
<1>2. log \in Seq(UndoSteps)
  BY EmptySeq DEF Init
<1>3. QED
  BY <1>1, <1>2 DEF Init, TypeInv, TypeOK, HostOK, ServiceOK, CallOK, ControlOK, KindOK,
     SpecOrNone, UnitStates, Kinds, Outcomes, Locations

(***************************************************************************)
(* Every step pushes well-formed undo steps, pops one, or clears the log.  *)
(***************************************************************************)
LEMMA LogStep == TypeInv /\ [Next]_vars => log' \in Seq(UndoSteps)
<1> SUFFICES ASSUME TypeInv, [Next]_vars PROVE log' \in Seq(UndoSteps)
  OBVIOUS
<1>1. log \in Seq(UndoSteps) /\ <<>> \in Seq(UndoSteps)
  BY EmptySeq DEF TypeInv, TypeOK
<1>2. \A s \in UndoSteps : Push(s) => log' \in Seq(UndoSteps)
  BY <1>1, PushTyped
<1>3. UndoStep("removal", None, None) \in UndoSteps /\ UndoStep("enable", None, None) \in UndoSteps
      /\ UndoStep("start", None, None) \in UndoSteps /\ UndoStep("oper", None, None) \in UndoSteps
  BY DEF UndoSteps, UndoStep
<1>4. plan.to \in Specs => UndoStep("register", NewZone, None) \in UndoSteps
                           /\ UndoStep("tighten", NewZone, None) \in UndoSteps
  BY DEF UndoSteps, UndoStep, NewZone, SpecOrNone
<1>5. \A u \in {unit, "absent"} : UndoStep("unit", None, u) \in UndoSteps
  BY DEF UndoSteps, UndoStep, TypeInv, TypeOK, HostOK, UnitStates
<1>6. \A i \in DropIns : \A d \in {dropIn[i], None} : UndoStep("dropIn", i, d) \in UndoSteps
  BY DEF SpecOrNone, UndoSteps, UndoStep, TypeInv, TypeOK, HostOK
<1>7. \A z \in Zones : \A e \in {env[z], None} : UndoStep("env", z, e) \in UndoSteps
  BY DEF SpecOrNone, UndoSteps, UndoStep, TypeInv, TypeOK, HostOK
<1>8. OldZone \in Zones /\ (plan.to \in Specs => NewZone \in Zones)
  BY DEF OldZone, NewZone, TypeInv, TypeOK, CallOK, SpecOrNone
<1>9. todo \subseteq DropIns /\ KindOK
  BY DEF TypeInv, TypeOK, ControlOK
<1> USE <1>1, <1>2, <1>3 DEF Goto, Finish, Abort, Fail, CountFault, ReadFails, FailsBefore, FailsAfter
<1>10. CASE Register \/ Tighten
  BY <1>4, <1>9, <1>10 DEF Register, Tighten, KindOK
<1>11. CASE WriteUnit \/ WriteDropIn \/ RemoveStaleDropIn
  BY <1>5, <1>6, <1>9, <1>11 DEF WriteUnit, WriteDropIn, RemoveStaleDropIn
<1>12. CASE WriteEnv
  BY <1>7, <1>8, <1>9, <1>12 DEF WriteEnv, KindOK
<1>13. CASE Enable \/ Restore \/ Start \/ Stop \/ Disable \/ Snapshot \/ RemoveUnit \/ RemoveDropIns \/ RemoveHome
  BY <1>13 DEF Enable, Restore, Start, Stop, Disable, Snapshot, RemoveUnit, RemoveDropIns, RemoveHome
<1>14. CASE UndoFile \/ UndoService \/ UndoHome \/ UndoSkips
  BY <1>14, PopTyped DEF UndoFile, UndoService, UndoHome, UndoSkips, Undoing
<1>15. CASE Apply \/ Final \/ Crash
  BY <1>15 DEF Apply, Begin, Final, Crash
<1>16. CASE \/ Reconcile \/ Install \/ Decide \/ Reload \/ Deregister \/ UndoDone
            \/ EditConfig \/ EditUnit \/ DeleteRegistration \/ UNCHANGED vars
  BY <1>16 DEF Reconcile, Install, Decide, Reload, Deregister, UndoDone, EditConfig, EditUnit,
               DeleteRegistration, vars
<1>17. QED
  BY <1>10, <1>11, <1>12, <1>13, <1>14, <1>15, <1>16 DEF Next, Step

(***************************************************************************)
(* The parts of the type invariant, each with the actions that touch it.   *)
(***************************************************************************)

\* Every step keeps files, home and registrations well-typed.
LEMMA HostStep == TypeInv /\ [Next]_vars => HostOK'
<1> SUFFICES ASSUME TypeInv, [Next]_vars PROVE HostOK'
  OBVIOUS
<1> USE DEF TypeInv, TypeOK, HostOK, KindOK, files, home, world
<1>1. CASE Install
  BY <1>1 DEF Install, NewZone, SpecOrNone
<1>2. CASE Register
  BY <1>2 DEF Register, NewZone
<1>3. CASE WriteEnv
  BY <1>3 DEF WriteEnv, NewZone, OldZone, SpecOrNone, CallOK
<1>4. CASE WriteUnit
  BY <1>4 DEF WriteUnit, UnitStates
<1>5. CASE RemoveStaleDropIn
  BY <1>5 DEF RemoveStaleDropIn, SpecOrNone
<1>6. CASE WriteDropIn
  BY <1>6 DEF WriteDropIn, SpecOrNone
<1>7. CASE Tighten
  BY <1>7 DEF Tighten, NewZone
<1>8. CASE Restore
  BY <1>8 DEF Restore, CallOK
<1>9. CASE Deregister \/ RemoveUnit \/ RemoveDropIns
  BY <1>9 DEF Deregister, RemoveUnit, RemoveDropIns, UnitStates, SpecOrNone
<1>10. CASE RemoveHome
  BY <1>10 DEF RemoveHome, SpecOrNone
<1>11. CASE Reconcile
  BY <1>11 DEF Reconcile, UnitStates, SpecOrNone
<1>12. CASE UndoFile
  BY <1>12, PopTyped DEF UndoFile, Undoing, UndoSteps
<1>13. CASE UndoHome
  BY <1>13 DEF UndoHome, Undoing
<1>14. CASE EditConfig \/ EditUnit \/ DeleteRegistration
  BY <1>14 DEF EditConfig, EditUnit, DeleteRegistration, BetweenApplies, UnitStates
<1>15. CASE Apply \/ Enable \/ Decide \/ Reload \/ Start \/ Stop \/ Disable \/ Snapshot \/ UndoService \/
         UndoSkips \/ UndoDone \/ Final \/ Crash \/ UNCHANGED vars
  BY <1>15 DEF Apply, Enable, Decide, Reload, Start, Stop, Disable, Snapshot, UndoService, UndoSkips,
     UndoDone,
      Final, Crash, vars, Begin, Undoing
<1>16. QED
  BY <1>1, <1>2, <1>3, <1>4, <1>5, <1>6, <1>7, <1>8, <1>9, <1>10, <1>11, <1>12, <1>13, <1>14,
     <1>15 DEF Next, Step

\* Every step keeps systemd's view of the unit well-typed.
LEMMA ServiceStep == TypeInv /\ [Next]_vars => ServiceOK'
<1> SUFFICES ASSUME TypeInv, [Next]_vars PROVE ServiceOK'
  OBVIOUS
<1> USE DEF TypeInv, TypeOK, ServiceOK, service
<1>1. CASE Start
  BY <1>1 DEF Start, Runnable, Credentials, HostOK, Conf, SpecOrNone, DropIns
<1>2. CASE Reload \/ Final
  BY <1>2 DEF Reload, Final, DiskConf, HostOK, Conf
<1>3. CASE Apply \/ Reconcile \/ Install \/ Register \/ Enable \/ Tighten \/ Restore \/
         WriteEnv \/ WriteUnit \/ RemoveStaleDropIn \/ WriteDropIn \/ Decide \/ Stop \/
         Disable \/ Snapshot \/ Deregister \/ RemoveUnit \/ RemoveDropIns \/ RemoveHome \/ UndoFile \/
         UndoService \/ UndoHome \/ UndoSkips \/ UndoDone \/ Crash \/ EditConfig \/
         EditUnit \/ DeleteRegistration \/ UNCHANGED vars
  BY <1>3 DEF Apply, Reconcile, Install, Register, Enable, Tighten, Restore, WriteEnv, WriteUnit,
      RemoveStaleDropIn, WriteDropIn, Decide, Stop, Disable, Snapshot, Deregister, RemoveUnit,
      RemoveDropIns, RemoveHome, UndoFile, UndoService, UndoHome, UndoSkips, UndoDone, Crash,
      EditConfig, EditUnit, DeleteRegistration, vars, Begin, Undoing
<1>4. QED
  BY <1>1, <1>2, <1>3 DEF Next, Step

\* The planner always decides on one of the actions.
LEMMA PlannedKindTyped == PlannedKind \in Kinds
BY DEF PlannedKind, Kinds

\* Every step keeps options, plan and the ghost copy of the host well-typed.
LEMMA CallStep == TypeInv /\ [Next]_vars => CallOK'
<1> SUFFICES ASSUME TypeInv, [Next]_vars PROVE CallOK'
  OBVIOUS
<1> USE DEF TypeInv, TypeOK, CallOK, call
<1>1. CASE Apply
  <2>1. PICK rollback \in BOOLEAN, noRestart \in BOOLEAN : Begin(rollback, noRestart)
    BY <1>1 DEF Apply
  <2>2. DiskConf \in Conf /\ running \in Conf \cup {None}
    BY DEF DiskConf, Conf, HostOK, ServiceOK
  <2>3. dropIn[0] \in SpecOrNone /\ desired \in SpecOrNone /\ oper \in BOOLEAN
    BY DEF HostOK, DropIns
  <2>4. QED
    BY <2>1, <2>2, <2>3, PlannedKindTyped DEF Begin
<1>2. CASE Reconcile
  <2>1. unit' \in UnitStates /\ dropIn' \in [DropIns -> SpecOrNone] /\ oper \in BOOLEAN
    BY <1>2 DEF Reconcile, HostOK, UnitStates, SpecOrNone
  <2>2. running \in Conf \cup {None}
    BY DEF ServiceOK
  <2>3. [unit |-> unit', drop |-> dropIn', oper |-> oper] \in Conf
    BY <2>1 DEF Conf
  <2>4. UNCHANGED <<opts, saved, unread>>
    BY <1>2 DEF Reconcile
  <2>5. CASE UNCHANGED <<plan, before>>
    BY <2>4, <2>5
  <2>6. CASE ~ UNCHANGED <<plan, before>>
    <3>1. /\ plan' = [plan EXCEPT !.kind = IF unit' = "absent" THEN "create"
                                           ELSE IF dropIn'[0] = None THEN "inplace" ELSE "noop",
                                  !.from = dropIn'[0]]
          /\ before' = [conf |-> [unit |-> unit', drop |-> dropIn', oper |-> oper],
                        running |-> running]
      BY <1>2, <2>6 DEF Reconcile
    <3>2. dropIn'[0] \in SpecOrNone
      BY <2>1 DEF DropIns
    <3>3. plan' \in [kind : Kinds, from : SpecOrNone, to : SpecOrNone]
      BY <3>1, <3>2 DEF Kinds
    <3>4. before' \in [conf : Conf, running : Conf \cup {None}]
      BY <2>2, <2>3, <3>1
    <3>5. QED
      BY <2>4, <3>3, <3>4
  <2>7. QED
    BY <2>5, <2>6
<1>3. CASE Install \/ Register \/ Enable \/ Tighten \/ Restore \/ RemoveStaleDropIn \/ Decide \/ Reload \/ Start \/ Stop \/ Disable \/
         Deregister \/ RemoveUnit \/ RemoveDropIns \/ RemoveHome \/ UndoFile \/ UndoService \/
         UndoHome \/ UndoSkips \/ UndoDone \/ Final \/ Crash \/ EditConfig \/ EditUnit \/
         DeleteRegistration \/ UNCHANGED vars
  BY <1>3 DEF Install, Register, Enable, Tighten, Restore, RemoveStaleDropIn,
      Decide, Reload, Start, Stop, Disable, Deregister, RemoveUnit,
      RemoveDropIns, RemoveHome, UndoFile, UndoService, UndoHome, UndoSkips, UndoDone, Final,
      Crash, EditConfig, EditUnit, DeleteRegistration, vars, Undoing
<1>4. CASE WriteEnv \/ WriteUnit \/ WriteDropIn \/ Snapshot
  <2>1. UNCHANGED <<opts, plan, before>> /\ saved' \in {saved, oper}
    BY <1>4 DEF WriteEnv, WriteUnit, WriteDropIn, Snapshot
  <2>2. unread' \subseteq unread \cup todo \cup {None, OperDropIn, EnvFiles}
    BY <1>4 DEF WriteEnv, WriteUnit, WriteDropIn, Snapshot, ReadFails
  <2>3. unread' \subseteq ReadFiles
    BY <2>2 DEF ControlOK, ReadFiles
  <2>4. QED
    BY <2>1, <2>3 DEF HostOK
<1>5. QED
  BY <1>1, <1>2, <1>3, <1>4 DEF Next, Step

\* Every step keeps the state of the apply process well-typed.
LEMMA ControlStep == TypeInv /\ [Next]_vars => ControlOK'
<1> SUFFICES ASSUME TypeInv, [Next]_vars PROVE ControlOK'
  OBVIOUS
<1>1. CASE Apply
  <2>1. PICK rollback \in BOOLEAN, noRestart \in BOOLEAN : Begin(rollback, noRestart)
    BY <1>1 DEF Apply
  <2>2. /\ pc' \in {"final", "reconcile", "install", "unit", "snapshot", "stop"}
        /\ outcome' \in {"NoOp", "pending"}
    BY <2>1 DEF Begin
  <2>3. QED
    BY <2>1, <2>2 DEF Begin, TypeInv, TypeOK, ControlOK, Locations, Outcomes, world
<1>2. CASE Reconcile \/ Install \/ Register \/ Enable \/ Tighten \/ Restore \/ WriteEnv \/
         WriteUnit \/ RemoveStaleDropIn \/ WriteDropIn \/ Decide \/ Reload \/ Start \/ Stop \/
         Disable \/ Snapshot \/ Deregister \/ RemoveUnit \/ RemoveDropIns \/ RemoveHome \/ UndoFile \/
         UndoService \/ UndoHome \/ UndoSkips \/ UndoDone \/ Final \/ Crash \/ EditConfig \/
         EditUnit \/ DeleteRegistration \/ UNCHANGED vars
  <2> USE <1>2 DEF Goto, Finish, Abort, Fail, CountFault, ReadFails, FailsBefore, FailsAfter,
           Reconcile, Install, Register, Enable, Tighten, Restore, WriteEnv, WriteUnit,
           RemoveStaleDropIn, WriteDropIn, Decide, Reload, Start, Stop, Disable, Snapshot, Deregister,
           RemoveUnit, RemoveDropIns, RemoveHome, UndoFile, UndoService, UndoHome, UndoSkips,
           UndoDone, Final, Crash, EditConfig, EditUnit, DeleteRegistration, vars, Undoing,
           BetweenApplies
  <2>1. pc' \in Locations
    BY DEF TypeInv, TypeOK, ControlOK, Locations
  <2>2. outcome' \in Outcomes
    BY DEF TypeInv, TypeOK, ControlOK, Outcomes
  <2>3. clean' \in BOOLEAN /\ changed' \in BOOLEAN
    BY DEF TypeInv, TypeOK, ControlOK
  <2>4. todo' \subseteq DropIns
    BY DEF TypeInv, TypeOK, ControlOK, KindOK, Rendered, DropIns
  <2>5. faults' \in Nat /\ crashes' \in Nat /\ edits' \in Nat
    BY DEF TypeInv, TypeOK, ControlOK, world
  <2>6. QED
    BY <2>1, <2>2, <2>3, <2>4, <2>5 DEF ControlOK
<1>3. QED
  BY <1>1, <1>2 DEF Next, Step

\* Every step leads to a location of the action that is planned.
LEMMA KindStep == TypeInv /\ [Next]_vars => KindOK'
<1> SUFFICES ASSUME TypeInv, [Next]_vars PROVE KindOK'
  OBVIOUS
<1> USE DEF TypeInv, TypeOK, KindOK, InPlace, Goto, Finish, Abort, Fail, CountFault, ReadFails, FailsBefore, FailsAfter, call
<1>1. CASE Apply
  BY <1>1 DEF Apply, Begin, PlannedKind, HostOK, SpecOrNone
<1>2. CASE Reconcile
  BY <1>2 DEF Reconcile, CallOK
<1>3. CASE Install \/ Register \/ Enable \/ Tighten \/ Restore \/ WriteEnv \/ WriteUnit \/
         RemoveStaleDropIn \/ WriteDropIn \/ Decide \/ Reload \/ Start \/ Stop \/ Disable \/ Snapshot \/
         Deregister \/ RemoveUnit \/ RemoveDropIns \/ RemoveHome \/ UndoFile \/ UndoService \/
         UndoHome \/ UndoSkips \/ UndoDone \/ Final \/ Crash \/ EditConfig \/ EditUnit \/
         DeleteRegistration \/ UNCHANGED vars
  BY <1>3 DEF Install, Register, Enable, Tighten, Restore, WriteEnv, WriteUnit, RemoveStaleDropIn,
      WriteDropIn, Decide, Reload, Start, Stop, Disable, Snapshot, Deregister, RemoveUnit,
      RemoveDropIns, RemoveHome, UndoFile, UndoService, UndoHome, UndoSkips, UndoDone, Final,
      Crash, EditConfig, EditUnit, DeleteRegistration, vars, Undoing, BetweenApplies
<1>4. QED
  BY <1>1, <1>2, <1>3 DEF Next, Step

\* Every step keeps the type invariant.
LEMMA TypeStep == TypeInv /\ [Next]_vars => TypeInv'
BY LogStep, HostStep, ServiceStep, CallStep, ControlStep, KindStep DEF TypeInv, TypeOK

(***************************************************************************)
(* The state of the host and of the apply process stays well-typed: undo   *)
(* steps are applied to the kind of file they were recorded for, and every *)
(* action runs with the target its steps need.                             *)
(***************************************************************************)
THEOREM RunnerTypeCorrect == Spec => []TypeOK
<1>1. TypeInv => TypeOK
  BY DEF TypeInv
<1>2. QED
  BY <1>1, TypeInit, TypeStep, PTL DEF Spec

-----------------------------------------------------------------------------
(* What the action has achieved when it is at a location: the              *)
(* strengthening that makes the three success properties inductive.        *)

Acting == pc \notin {"idle", "undo", "final"}

\* Past the write loop for drop-ins.
DropInsWritten ==
  \/ pc \in {"decide", "enable", "reload", "start", "tighten", "restore"}
  \/ InPlace /\ pc \in {"env", "stop"}

\* The part of a create or recreate that follows step n of it.
AfterInstall == ~InPlace /\ pc \in {"register", "env", "unit", "dropins", "enable", "reload",
                                    "start", "tighten", "restore"}
AfterRegister == AfterInstall /\ pc # "register"
AfterEnv == AfterRegister /\ pc # "env"
AfterEnable == ~InPlace /\ pc \in {"reload", "start", "tighten", "restore"}

NoDropIns == ~oper /\ \A i \in DropIns : dropIn[i] = None

\* Unit file and drop-ins.
FilesProgress ==
  /\ pc \in {"rmdropins", "rmhome"} => unit = "absent"
  /\ pc = "rmhome" => NoDropIns
  /\ plan.kind = "recreate" /\ pc \in {"install", "register", "env", "unit"} => NoDropIns
  /\ pc \in {"stale", "dropins"} \/ DropInsWritten =>
       /\ unit = "template"
       /\ \A i \in Rendered(plan.to) : i \in todo \/ dropIn[i] = plan.to
  /\ plan.kind # "create" /\ (pc = "dropins" \/ DropInsWritten) =>
       \A i \in DropIns \ Rendered(plan.to) : dropIn[i] = None
  /\ pc \in {"stale", "dropins"} => todo \subseteq Rendered(plan.to)
  /\ DropInsWritten => todo = {}

\* The call: what it remembers of the operator's override, and why it rolls back.
CallProgress ==
  /\ Acting /\ plan.kind = "recreate" /\ pc # "snapshot" =>
       saved = before.conf.oper \/ (OperDropIn \in unread /\ ~saved)
  /\ Acting /\ (InPlace \/ pc \in {"reconcile", "snapshot"}) => oper = before.conf.oper
  /\ pc = "snapshot" => ~saved
  /\ pc = "undo" => outcome = "Failed"

\* Installation, registration, environment, ownership, enablement.
HomeProgress ==
  /\ AfterInstall => bin[NewZone] = Identity[plan.to]
  /\ AfterRegister => Identity[plan.to] \in github
  /\ AfterEnv => env[NewZone] = plan.to
  /\ AfterEnable => enabled
  /\ pc = "restore" => NewZone \in tight
  /\ pc \in {"deregister", "rmunit", "rmdropins", "rmhome"} => ~enabled

\* The process, and the configuration systemd would start it with.
ProcessProgress ==
  /\ pc \in {"disable", "deregister", "rmunit", "rmdropins", "rmhome"} => running = None
  /\ plan.kind = "recreate" /\ pc \in {"install", "register", "env", "unit", "dropins",
                                       "enable", "reload", "start"} => running = None
  /\ InPlace /\ pc \in {"unit", "stale", "dropins", "env", "decide"} => running = before.running
  /\ InPlace /\ pc = "start" => running = None
  /\ pc = "start" \/ (InPlace /\ pc = "stop") => loaded.drop = dropIn
  /\ plan.kind = "recreate" /\ pc \in {"tighten", "restore"} =>
       running = None \/ running.drop = dropIn
  /\ pc = "restore" => NewZone \in Siblings \/ running # None

ProgressInv ==
  /\ FilesProgress /\ CallProgress /\ HomeProgress /\ ProcessProgress
  /\ CreatedIsComplete /\ UpdatedIsExact /\ RemovedIsGone

\* On a host without the runner nothing has been achieved yet.
LEMMA ProgressInit == Init => ProgressInv
BY DEF Init, ProgressInv, FilesProgress, CallProgress, HomeProgress, ProcessProgress,
       CreatedIsComplete, UpdatedIsExact, RemovedIsGone, Reports, Acting, DropInsWritten,
       AfterInstall, AfterRegister, AfterEnv, AfterEnable, InPlace

\* Every step keeps what the location says of unit file and drop-ins.
LEMMA FilesStep == TypeInv /\ FilesProgress /\ [Next]_vars => FilesProgress'
<1> SUFFICES ASSUME TypeInv, FilesProgress, [Next]_vars PROVE FilesProgress'
  OBVIOUS
<1> USE DEF TypeInv, KindOK, InPlace, Goto, Finish, Abort, Fail, CountFault, ReadFails, FailsBefore, FailsAfter,
            Undoing, BetweenApplies, files, home, service, call, world, FilesProgress,
            DropInsWritten, NoDropIns
<1>1. CASE Apply
  BY <1>1 DEF Apply, Begin, PlannedKind
<1>2. CASE Reconcile
  BY <1>2 DEF Reconcile, TypeOK, CallOK
<1>3. CASE Install \/ Register \/ Enable \/ Tighten \/ Restore
  BY <1>3 DEF Install, Register, Enable, Tighten, Restore
<1>4. CASE WriteEnv
  BY <1>4 DEF WriteEnv
<1>5. CASE WriteUnit
  BY <1>5 DEF WriteUnit, Rendered
<1>6. CASE RemoveStaleDropIn
  <2>1. \A i \in DropIns : dropIn'[i] \in {dropIn[i], None} /\ (i \in Rendered(plan.to) =>
          dropIn'[i] = dropIn[i])
    BY <1>6 DEF RemoveStaleDropIn, TypeOK, HostOK
  <2>2. pc' = "dropins" => \A i \in DropIns \ Rendered(plan.to) : dropIn'[i] = None
    BY <1>6 DEF RemoveStaleDropIn
  <2>3. Rendered(plan.to) \subseteq DropIns /\ InPlace
    BY <1>6 DEF RemoveStaleDropIn, Rendered, DropIns
  <2>4. UNCHANGED <<unit, todo, plan>> /\ pc = "stale" /\ pc' \in {"stale", "dropins", "undo", "final"}
    BY <1>6 DEF RemoveStaleDropIn
  <2>5. Rendered(plan'.to) = Rendered(plan.to)
    BY <2>4
  <2>6. QED
    BY <2>1, <2>2, <2>3, <2>4, <2>5
<1>7. CASE WriteDropIn
  <2>1. Rendered(plan.to) \subseteq DropIns
    BY <1>7 DEF WriteDropIn, Rendered, DropIns
  <2>2. UNCHANGED <<unit, oper, plan>> /\ pc = "dropins" /\ pc' \in {"dropins", "env", "enable", "undo", "final"}
    BY <1>7 DEF WriteDropIn
  <2>3. Rendered(plan'.to) = Rendered(plan.to)
    BY <2>2
  <2>4. pc' \in {"env", "enable"} => todo = {} /\ todo' = {} /\ dropIn' = dropIn
    BY <1>7 DEF WriteDropIn
  <2>5. pc' = "env" => InPlace
    BY <1>7 DEF WriteDropIn
  <2>6. CASE pc' = "dropins"
    <3>1. PICK i \in todo : /\ todo' = todo \ {i}
                            /\ \/ dropIn[i] = plan.to /\ dropIn' = dropIn
                               \/ dropIn' = [dropIn EXCEPT ![i] = plan.to]
      BY <1>7, <2>6 DEF WriteDropIn
    <3>2. \A j \in DropIns : dropIn'[j] = IF j = i THEN plan.to ELSE dropIn[j]
      BY <3>1 DEF TypeOK, HostOK, ControlOK
    <3>3. i \in todo' \/ dropIn'[i] = plan.to
      BY <3>2 DEF TypeOK, ControlOK
    <3>4. \A j \in Rendered(plan.to) : j \in todo' \/ dropIn'[j] = plan.to
      BY <2>1, <2>2, <3>1, <3>2, <3>3
    <3>5. i \in Rendered(plan.to)
      BY <2>2
    <3>6. plan.kind # "create" => \A j \in DropIns \ Rendered(plan.to) : dropIn'[j] = None
      BY <2>2, <3>2, <3>5
    <3>7. QED
      BY <2>2, <2>3, <2>6, <3>1, <3>4, <3>6
  <2>7. CASE pc' # "dropins"
    BY <2>1, <2>2, <2>3, <2>4, <2>5, <2>7
  <2>8. QED
    BY <2>6, <2>7
<1>8. CASE Decide \/ Reload \/ Start \/ Stop \/ Disable \/ Snapshot \/ Deregister
  BY <1>8 DEF Decide, Reload, Start, Stop, Disable, Snapshot, Deregister
<1>9. CASE RemoveUnit \/ RemoveHome
  BY <1>9 DEF RemoveUnit, RemoveHome
<1>10. CASE RemoveDropIns
  BY <1>10 DEF RemoveDropIns
<1>11. CASE UndoFile \/ UndoService \/ UndoHome \/ UndoSkips \/ UndoDone \/ Final \/ Crash
  BY <1>11 DEF UndoFile, UndoService, UndoHome, UndoSkips, UndoDone, Final, Crash
<1>12. CASE EditConfig \/ EditUnit \/ DeleteRegistration
  BY <1>12 DEF EditConfig, EditUnit, DeleteRegistration
<1>13. CASE UNCHANGED vars
  BY <1>13 DEF vars
<1>14. QED
  BY <1>1, <1>2, <1>3, <1>4, <1>5, <1>6, <1>7, <1>8, <1>9, <1>10, <1>11, <1>12, <1>13 DEF Next, Step

\* Every step keeps what the location says of the override and the outcome.
LEMMA CallProgressStep == TypeInv /\ CallProgress /\ [Next]_vars => CallProgress'
<1> SUFFICES ASSUME TypeInv, CallProgress, [Next]_vars PROVE CallProgress'
  OBVIOUS
<1> USE DEF TypeInv, KindOK, InPlace, Goto, Finish, Abort, Fail, CountFault, ReadFails, FailsBefore, FailsAfter,
            Undoing, BetweenApplies, files, home, service, call, world, CallProgress,
            Acting
<1>1. CASE Apply
  BY <1>1 DEF Apply, Begin, DiskConf
<1>2. CASE Reconcile
  <2>2. pc' # "final" => plan'.kind # "recreate"
    BY <1>2 DEF Reconcile, TypeOK, CallOK
  <2>3. pc = "reconcile" /\ (pc' = "final" \/ before'.conf.oper = oper) /\ oper' = oper
    BY <1>2 DEF Reconcile
  <2>4. pc' \in {"final", "install", "unit"}
    BY <1>2 DEF Reconcile
  <2>5. QED
    BY <2>2, <2>3, <2>4
<1>3. CASE UndoFile \/ UndoService \/ UndoHome \/ UndoSkips \/ UndoDone \/ Final \/ Crash
  BY <1>3 DEF UndoFile, UndoService, UndoHome, UndoSkips, UndoDone, Final, Crash
<1>4. CASE EditConfig \/ EditUnit \/ DeleteRegistration
  BY <1>4 DEF EditConfig, EditUnit, DeleteRegistration
<1>5. CASE Install \/ Register \/ Enable \/ Tighten \/ Restore \/ WriteEnv \/ WriteUnit \/
         RemoveStaleDropIn \/ WriteDropIn \/ Decide \/ Reload \/ Start \/ Stop \/
         Disable \/ Snapshot \/ Deregister \/ RemoveUnit \/ RemoveDropIns \/ RemoveHome \/
         UNCHANGED vars
  BY <1>5 DEF Install, Register, Enable, Tighten, Restore, WriteEnv, WriteUnit,
      RemoveStaleDropIn, WriteDropIn, Decide, Reload, Start, Stop, Disable, Snapshot, Deregister,
      RemoveUnit, RemoveDropIns, RemoveHome, vars
<1>6. QED
  BY <1>1, <1>2, <1>3, <1>4, <1>5 DEF Next, Step

\* Every step keeps what the location says of home, registration and enablement.
LEMMA HomeStep == TypeInv /\ HomeProgress /\ [Next]_vars => HomeProgress'
<1> SUFFICES ASSUME TypeInv, HomeProgress, [Next]_vars PROVE HomeProgress'
  OBVIOUS
<1> USE DEF TypeInv, KindOK, InPlace, Goto, Finish, Abort, Fail, CountFault, ReadFails, FailsBefore, FailsAfter,
            Undoing, BetweenApplies, files, home, service, call, world, HomeProgress,
            NewZone, AfterInstall, AfterRegister, AfterEnv, AfterEnable
<1>1. CASE Apply
  BY <1>1 DEF Apply, Begin, PlannedKind
<1>2. CASE Reconcile
  BY <1>2 DEF Reconcile
<1>3. CASE Install
  BY <1>3 DEF Install, TypeOK, HostOK
<1>4. CASE Register \/ Enable
  BY <1>4 DEF Register, Enable
<1>5. CASE Tighten
  BY <1>5 DEF Tighten
<1>6. CASE WriteEnv
  BY <1>6 DEF WriteEnv, TypeOK, HostOK
<1>7. CASE WriteUnit \/ RemoveStaleDropIn \/ WriteDropIn \/ Decide \/ Restore
  BY <1>7 DEF WriteUnit, RemoveStaleDropIn, WriteDropIn, Decide, Restore
<1>8. CASE Reload \/ Start \/ Stop \/ Disable \/ Snapshot \/ Deregister \/ RemoveUnit \/
          RemoveDropIns \/ RemoveHome
  BY <1>8 DEF Reload, Start, Stop, Disable, Snapshot, Deregister, RemoveUnit, RemoveDropIns, RemoveHome
<1>9. CASE UndoFile \/ UndoService \/ UndoHome \/ UndoSkips \/ UndoDone \/ Final \/ Crash
  BY <1>9 DEF UndoFile, UndoService, UndoHome, UndoSkips, UndoDone, Final, Crash
<1>10. CASE EditConfig \/ EditUnit \/ DeleteRegistration
  BY <1>10 DEF EditConfig, EditUnit, DeleteRegistration
<1>11. CASE UNCHANGED vars
  BY <1>11 DEF vars
<1>12. QED
  BY <1>1, <1>2, <1>3, <1>4, <1>5, <1>6, <1>7, <1>8, <1>9, <1>10, <1>11 DEF Next, Step

\* Every step keeps what the location says of the process.
LEMMA ProcessStep == TypeInv /\ ProcessProgress /\ [Next]_vars => ProcessProgress'
<1> SUFFICES ASSUME TypeInv, ProcessProgress, [Next]_vars PROVE ProcessProgress'
  OBVIOUS
<1> USE DEF TypeInv, KindOK, InPlace, Goto, Finish, Abort, Fail, CountFault, ReadFails, FailsBefore, FailsAfter,
            Undoing, BetweenApplies, files, home, service, call, world, ProcessProgress, NewZone
<1>1. CASE Apply
  BY <1>1 DEF Apply, Begin, PlannedKind
<1>2. CASE Reconcile
  BY <1>2 DEF Reconcile, TypeOK, CallOK
<1>3. CASE Install \/ Register \/ Enable \/ Tighten \/ Restore \/ WriteEnv \/ WriteUnit \/
          RemoveStaleDropIn \/ WriteDropIn \/ Decide
  BY <1>3 DEF Install, Register, Enable, Tighten, Restore, WriteEnv, WriteUnit,
      RemoveStaleDropIn, WriteDropIn, Decide, UserExists
<1>4. CASE Reload
  BY <1>4 DEF Reload, DiskConf
<1>5. CASE Start
  BY <1>5 DEF Start, Runnable
<1>6. CASE Stop \/ Disable \/ Snapshot \/ Deregister \/ RemoveUnit \/ RemoveDropIns \/ RemoveHome
  BY <1>6 DEF Stop, Disable, Snapshot, Deregister, RemoveUnit, RemoveDropIns, RemoveHome
<1>7. CASE UndoFile \/ UndoService \/ UndoHome \/ UndoSkips \/ UndoDone \/ Final \/ Crash
  BY <1>7 DEF UndoFile, UndoService, UndoHome, UndoSkips, UndoDone, Final, Crash
<1>8. CASE EditConfig \/ EditUnit \/ DeleteRegistration
  BY <1>8 DEF EditConfig, EditUnit, DeleteRegistration
<1>9. CASE UNCHANGED vars
  BY <1>9 DEF vars
<1>10. QED
  BY <1>1, <1>2, <1>3, <1>4, <1>5, <1>6, <1>7, <1>8, <1>9 DEF Next, Step

\* The last step of a create or recreate finds all of it done.
LEMMA CreatedStep == TypeInv /\ ProgressInv /\ [Next]_vars => CreatedIsComplete'
<1> SUFFICES ASSUME TypeInv, ProgressInv, [Next]_vars PROVE CreatedIsComplete'
  OBVIOUS
<1> USE DEF ProgressInv, CreatedIsComplete, Reports, TypeInv, KindOK, InPlace, Goto,
            Finish, Abort, Fail, CountFault, ReadFails, FailsBefore, FailsAfter, Undoing, BetweenApplies, files, home,
            service, call, world, CallProgress
<1>1. CASE Tighten
  BY <1>1 DEF Tighten, UserExists, FilesProgress, DropInsWritten, Covers, HomeProgress, AfterInstall,
      AfterRegister, AfterEnv, AfterEnable, NewZone
<1>2. CASE Restore
  BY <1>2 DEF Restore, FilesProgress, DropInsWritten, Covers, HomeProgress, ProcessProgress,
      AfterInstall, AfterRegister, AfterEnv, AfterEnable, NewZone
<1>3. CASE Apply \/ Reconcile \/ Install \/ Register \/ Enable \/ WriteEnv \/ WriteUnit \/
          RemoveStaleDropIn \/ WriteDropIn \/ Decide \/ Reload \/ Start \/ Stop \/ Disable \/ Snapshot
  BY <1>3 DEF Apply, Reconcile, Install, Register, Enable, WriteEnv, WriteUnit,
      RemoveStaleDropIn, WriteDropIn, Decide, Reload, Start, Stop, Disable, Snapshot, Begin
<1>4. CASE Deregister \/ RemoveUnit \/ RemoveDropIns \/ RemoveHome \/ UndoFile \/
          UndoService \/ UndoHome \/ UndoSkips \/ UndoDone \/ Final \/ Crash \/
          EditConfig \/ EditUnit \/ DeleteRegistration
  BY <1>4 DEF Deregister, RemoveUnit, RemoveDropIns, RemoveHome, UndoFile, UndoService, UndoHome,
      UndoSkips, UndoDone, Final, Crash, EditConfig, EditUnit, DeleteRegistration
<1>5. CASE UNCHANGED vars
  BY <1>5 DEF vars, Covers, NewZone
<1>6. QED
  BY <1>1, <1>2, <1>3, <1>4, <1>5 DEF Next, Step

\* The last step of an update finds exactly the files of the new spec.
LEMMA UpdatedStep == TypeInv /\ ProgressInv /\ [Next]_vars => UpdatedIsExact'
<1> SUFFICES ASSUME TypeInv, ProgressInv, [Next]_vars PROVE UpdatedIsExact'
  OBVIOUS
<1> USE DEF ProgressInv, UpdatedIsExact, Reports, TypeInv, KindOK, InPlace, Goto, Finish,
            Abort, Fail, CountFault, ReadFails, FailsBefore, FailsAfter, Undoing, BetweenApplies, files, home,
            service, call, world, CallProgress
<1>1. CASE Restore
  BY <1>1 DEF Restore, FilesProgress, DropInsWritten, Covers, Exact, ProcessProgress, Acting
<1>2. CASE Decide
  BY <1>2 DEF Decide, FilesProgress, DropInsWritten, Covers, Exact, ProcessProgress, Acting
<1>3. CASE Start
  BY <1>3 DEF Start, FilesProgress, DropInsWritten, Covers, Exact, ProcessProgress, Acting,
      Runnable
<1>4. CASE Apply \/ Reconcile \/ Install \/ Register \/ Enable \/ Tighten \/ WriteEnv \/
          WriteUnit \/ RemoveStaleDropIn \/ WriteDropIn \/ Reload \/ Stop \/ Disable \/ Snapshot
  BY <1>4 DEF Apply, Reconcile, Install, Register, Enable, Tighten, WriteEnv, WriteUnit,
      RemoveStaleDropIn, WriteDropIn, Reload, Stop, Disable, Snapshot, Begin
<1>5. CASE Deregister \/ RemoveUnit \/ RemoveDropIns \/ RemoveHome \/ UndoFile \/
          UndoService \/ UndoHome \/ UndoSkips \/ UndoDone \/ Final \/ Crash \/
          EditConfig \/ EditUnit \/ DeleteRegistration
  BY <1>5 DEF Deregister, RemoveUnit, RemoveDropIns, RemoveHome, UndoFile, UndoService, UndoHome,
      UndoSkips, UndoDone, Final, Crash, EditConfig, EditUnit, DeleteRegistration
<1>6. CASE UNCHANGED vars
  BY <1>6 DEF vars, Covers, Exact
<1>7. QED
  BY <1>1, <1>2, <1>3, <1>4, <1>5, <1>6 DEF Next, Step

\* The last step of a removal finds everything else gone.
LEMMA RemovedStep == TypeInv /\ ProgressInv /\ [Next]_vars => RemovedIsGone'
<1> SUFFICES ASSUME TypeInv, ProgressInv, [Next]_vars PROVE RemovedIsGone'
  OBVIOUS
<1> USE DEF ProgressInv, RemovedIsGone, Reports, TypeInv, KindOK, InPlace, Goto, Finish,
            Abort, Fail, CountFault, ReadFails, FailsBefore, FailsAfter, Undoing, BetweenApplies, files, home,
            service, call, world, CallProgress
<1>1. CASE RemoveHome
  BY <1>1 DEF RemoveHome, FilesProgress, NoDropIns, HomeProgress, ProcessProgress, OldZone,
      TypeOK, CallOK, HostOK, SpecOrNone
<1>2. CASE Apply \/ Reconcile \/ Install \/ Register \/ Enable \/ Tighten \/ Restore \/
          WriteEnv \/ WriteUnit \/ RemoveStaleDropIn \/ WriteDropIn \/ Decide \/
          Reload \/ Start
  BY <1>2 DEF Apply, Reconcile, Install, Register, Enable, Tighten, Restore, WriteEnv, WriteUnit,
      RemoveStaleDropIn, WriteDropIn, Decide, Reload, Start, Begin
<1>3. CASE Stop \/ Disable \/ Snapshot \/ Deregister \/ RemoveUnit \/ RemoveDropIns \/ UndoFile \/
          UndoService \/ UndoHome \/ UndoSkips \/ UndoDone \/ Final \/ Crash \/
          EditConfig \/ EditUnit \/ DeleteRegistration
  BY <1>3 DEF Stop, Disable, Snapshot, Deregister, RemoveUnit, RemoveDropIns, UndoFile, UndoService,
      UndoHome, UndoSkips, UndoDone, Final, Crash, EditConfig, EditUnit,
      DeleteRegistration
<1>4. CASE UNCHANGED vars
  BY <1>4 DEF vars, OldZone
<1>5. QED
  BY <1>1, <1>2, <1>3, <1>4 DEF Next, Step

(***************************************************************************)
(* The invariant behind the three theorems below.                          *)
(***************************************************************************)
LEMMA Progress == Spec => [](TypeInv /\ ProgressInv)
<1>1. Init => TypeInv /\ ProgressInv
  BY TypeInit, ProgressInit
<1>2. TypeInv /\ ProgressInv /\ [Next]_vars => (TypeInv /\ ProgressInv)'
  BY TypeStep, FilesStep, CallProgressStep, HomeStep, ProcessStep,
     CreatedStep, UpdatedStep, RemovedStep DEF ProgressInv
<1>3. QED
  BY <1>1, <1>2, PTL DEF Spec

(***************************************************************************)
(* Whatever earlier applies, faults, crashes and edits left on the host,   *)
(* an execute_create_runner that reports success leaves a complete runner, *)
(* and a running one in a trust zone in which no other runner runs.        *)
(***************************************************************************)
THEOREM CreateCompletes == Spec => []CreatedIsComplete
<1>1. ProgressInv => CreatedIsComplete
  BY DEF ProgressInv
<1>2. QED
  BY <1>1, Progress, PTL

(***************************************************************************)
(* An execute_update_runner that reports success leaves exactly the files  *)
(* of the new spec and the operator's override, which a recreate loses     *)
(* only when it could not read it, and a process runs them or is the one   *)
(* that ran before.                                                        *)
(***************************************************************************)
THEOREM UpdateIsExact == Spec => []UpdatedIsExact
<1>1. ProgressInv => UpdatedIsExact
  BY DEF ProgressInv
<1>2. QED
  BY <1>1, Progress, PTL

(***************************************************************************)
(* An execute_remove_runner that reports success leaves nothing in the     *)
(* places the annotations name.                                            *)
(***************************************************************************)
THEOREM RemovalLeavesNothing == Spec => []RemovedIsGone
<1>1. ProgressInv => RemovedIsGone
  BY DEF ProgressInv
<1>2. QED
  BY <1>1, Progress, PTL

-----------------------------------------------------------------------------
(* Rollback and the contract: what the undo log holds of the state the     *)
(* action started from, and what an action can leave behind at all.        *)

\* The undo steps recorded so far.
Entries == {log[k] : k \in 1 .. Len(log)}

\* The action goes on, is undone, or has failed.
Live ==
  /\ plan.kind \notin {"nothing", "noop"}
  /\ pc # "idle" /\ (pc = "final" => outcome = "Failed")

Removing == plan.kind \in {"recreate", "remove"}

\* What rollback may leave: the state before the action, or less of it where
\* the action deletes (reverse-direction steps are skipped).
UnitTargets == {before.conf.unit} \cup {u \in {"absent"} : Removing \/ None \in unread}
DropInTargets(i) ==
  {before.conf.drop[i]}
    \cup {d \in {None} : Removing \/ i \in unread \/ (InPlace /\ i \notin Rendered(plan.to))}

\* How actions end, and when the log is known to be empty.
Ended ==
  /\ Acting => clean
  /\ pc = "reconcile" => log = <<>>
  /\ pc = "final" /\ outcome = "Failed" /\ opts.rollback => log = <<>>
  /\ pc = "undo" => plan.kind \notin {"nothing", "noop"} /\ opts.rollback
  /\ outcome = "crashed" => pc = "idle"
  /\ pc = "final" =>
       \/ outcome = "Failed" /\ plan.kind \notin {"nothing", "noop"}
       \/ outcome = "NoOp" /\ plan.kind \in {"nothing", "noop"}
       \/ outcome = "Created" /\ plan.kind = "create"
       \/ outcome = "Recreated" /\ plan.kind = "recreate"
       \/ outcome = "Removed" /\ plan.kind = "remove"
       \/ /\ outcome \in {"InPlaceSkipped", "InPlaceRewroteNoRestart", "InPlaceRestarted"}
          /\ InPlace

\* Every recorded prior content is one that rollback may leave.
UndoTargets ==
  Live => \A e \in Entries :
    /\ e.op = "unit" => e.prior \in UnitTargets
    /\ e.op = "dropIn" => e.prior \in DropInTargets(e.at)
    /\ e.op # "oper"

\* Nothing is recorded of a file that is still to be written.
NotYetWritten ==
  Acting => \A e \in Entries :
    /\ e.op = "unit" => pc \in {"stale", "dropins"} \/ DropInsWritten
    /\ e.op = "dropIn" => (pc \in {"stale", "dropins"} /\ e.at \notin todo) \/ DropInsWritten

\* What is not recorded is as rollback has to leave it.
Unlogged ==
  Live /\ clean =>
    /\ unit \in UnitTargets \/ \E e \in Entries : e.op = "unit"
    /\ \A i \in DropIns : \/ dropIn[i] \in DropInTargets(i)
                          \/ \E e \in Entries : e.op = "dropIn" /\ e.at = i
    /\ plan.kind \in {"create", "inplace"} => oper = before.conf.oper
    /\ running \in {before.running, None} \/ \E e \in Entries : e.op = "start"

\* An action was begun and runs, has just ended or was killed.
Begun == plan.kind \notin {"nothing", "noop"} /\ (pc # "idle" \/ outcome = "crashed")

\* What the action can have done to the part the planner looks at.
Reached ==
  /\ InPlace => before.conf.unit # "absent"
  /\ InPlace /\ ~opts.rollback => unit # "absent"
  /\ \/ dropIn[0] = before.conf.drop[0]
     \/ dropIn[0] = None /\ (Removing \/ opts.rollback)
     \/ dropIn[0] = plan.to /\ plan.kind # "remove"
  /\ \/ running \in {before.running, None}
     \/ plan.kind # "remove" /\ running.drop[0] = plan.to

Touched == Begun => Reached

\* A process was started from a configuration with an ExecStart.
HasSpec == running # None => running.drop[0] # None

RollInv == Ended /\ UndoTargets /\ NotYetWritten /\ Unlogged /\ Touched /\ HasSpec

\* On a host without the runner nothing is recorded.
LEMMA RollInit == Init => RollInv
BY DEF Init, RollInv, Ended, UndoTargets, NotYetWritten, Unlogged, Touched, Begun, HasSpec, Live, Acting

\* A step that pushes s records s and forgets nothing.
LEMMA EntriesPush ==
  ASSUME log \in Seq(UndoSteps), NEW s \in UndoSteps, Push(s)
  PROVE  Entries' = Entries \cup {s}
<1>1. Len(log) \in Nat
  BY LenProperties
<1>2. /\ Len(log') = Len(log) + 1
      /\ \A i \in 1 .. Len(log) : log'[i] = log[i]
      /\ log'[Len(log) + 1] = s
  BY AppendProperties DEF Push
<1>3. QED
  BY <1>1, <1>2 DEF Entries

\* A step that pops forgets at most the step it pops.
LEMMA EntriesPop ==
  ASSUME log \in Seq(UndoSteps), log # <<>>, log' = SubSeq(log, 1, Len(log) - 1)
  PROVE  /\ log[Len(log)] \in Entries /\ log[Len(log)] \in UndoSteps
         /\ Entries' \subseteq Entries
         /\ Entries \subseteq Entries' \cup {log[Len(log)]}
<1>1. PICK n : n = Len(log)
  OBVIOUS
<1>2. /\ n \in Nat \ {0} /\ log[n] \in UndoSteps
      /\ Len(log') = n - 1
      /\ \A i \in 1 .. (n - 1) : log'[i] = log[i]
  BY <1>1, WithoutLast
<1>3. log[n] \in Entries
  BY <1>1, <1>2 DEF Entries
<1>4. Entries' \subseteq Entries
  BY <1>1, <1>2 DEF Entries
<1>5. Entries \subseteq Entries' \cup {log[n]}
  <2>1. ASSUME NEW k \in 1 .. n PROVE log[k] \in Entries' \cup {log[n]}
    <3>1. k = n \/ k \in 1 .. (n - 1)
      BY <1>2
    <3>2. CASE k \in 1 .. (n - 1)
      BY <1>2, <3>2 DEF Entries
    <3>3. QED
      BY <3>1, <3>2
  <2>2. QED
    BY <1>1, <2>1 DEF Entries
<1>6. QED
  BY <1>1, <1>2, <1>3, <1>4, <1>5

\* The steps recorded are well-formed, and an empty log records none.
LEMMA EntriesTyped ==
  /\ log \in Seq(UndoSteps) => Entries \subseteq UndoSteps
  /\ log = <<>> => Entries = {}
  /\ log' = <<>> => Entries' = {}
  /\ log' = log => Entries' = Entries
<1>1. ASSUME log \in Seq(UndoSteps) PROVE Entries \subseteq UndoSteps
  BY <1>1, ElementOfSeq DEF Entries
<1>2. ASSUME log = <<>> PROVE Entries = {}
  BY <1>2 DEF Entries
<1>3. ASSUME log' = <<>> PROVE Entries' = {}
  BY <1>3 DEF Entries
<1>4. ASSUME log' = log PROVE Entries' = Entries
  BY <1>4 DEF Entries
<1>5. QED
  BY <1>1, <1>2, <1>3, <1>4

\* Steps that record nothing about unit file, drop-ins or process.
QuietLog ==
  /\ Entries \subseteq Entries'
  /\ \A e \in Entries' : e \in Entries \/ e.op \in {"removal", "enable", "register", "tighten", "env"}

\* These are the steps of the actions that write no file and start nothing.
LEMMA QuietSteps ==
  ASSUME TypeInv,
         \/ Install \/ Register \/ Enable \/ Tighten \/ WriteEnv \/ Decide \/ Reload \/ Stop
         \/ Disable \/ Snapshot \/ Deregister \/ RemoveUnit \/ RemoveDropIns \/ RemoveHome \/ RemoveStaleDropIn
  PROVE  QuietLog
<1>1. log \in Seq(UndoSteps) /\ KindOK
  BY DEF TypeInv, TypeOK
<1>2. \A s \in UndoSteps : Push(s) => Entries' = Entries \cup {s}
  BY <1>1, EntriesPush
<1>3. log' = log => Entries' = Entries
  BY EntriesTyped
<1>4. \A s \in UndoSteps : Push(s) /\ s.op \in {"removal", "enable", "register", "tighten", "env"} =>
        QuietLog
  BY <1>2 DEF QuietLog
<1>5. log' = log => QuietLog
  BY <1>3 DEF QuietLog
<1>6. /\ UndoStep("removal", None, None) \in UndoSteps /\ UndoStep("removal", None, None).op = "removal"
      /\ UndoStep("enable", None, None) \in UndoSteps /\ UndoStep("enable", None, None).op = "enable"
  BY DEF UndoSteps, UndoStep
<1>7. OldZone \in Zones /\ (plan.to \in Specs => NewZone \in Zones)
  BY DEF OldZone, NewZone, TypeInv, TypeOK, CallOK, SpecOrNone
<1>8. \A z \in Zones : /\ UndoStep("register", z, None) \in UndoSteps
                       /\ UndoStep("tighten", z, None) \in UndoSteps
                       /\ UndoStep("env", z, env[z]) \in UndoSteps
                       /\ UndoStep("env", z, None) \in UndoSteps
                       /\ UndoStep("register", z, None).op = "register"
                       /\ UndoStep("tighten", z, None).op = "tighten"
                       /\ UndoStep("env", z, env[z]).op = "env"
                       /\ UndoStep("env", z, None).op = "env"
  BY DEF UndoSteps, UndoStep, TypeInv, TypeOK, HostOK, SpecOrNone
<1> USE <1>4, <1>5 DEF Goto, Finish, Abort, Fail, CountFault, ReadFails, FailsBefore, FailsAfter
<1>9. CASE Install \/ Decide \/ Reload \/ Deregister \/ Snapshot
  BY <1>9 DEF Install, Decide, Reload, Deregister, Snapshot
<1>10. CASE Enable \/ Stop \/ Disable \/ RemoveUnit \/ RemoveDropIns \/ RemoveHome \/ RemoveStaleDropIn
  BY <1>6, <1>10 DEF Enable, Stop, Disable, Snapshot, RemoveUnit, RemoveDropIns, RemoveHome, RemoveStaleDropIn
<1>11. CASE Register \/ Tighten
  BY <1>1, <1>7, <1>8, <1>11 DEF Register, Tighten, KindOK
<1>12. CASE WriteEnv
  BY <1>1, <1>7, <1>8, <1>12 DEF WriteEnv, KindOK
<1>13. QED
  BY <1>9, <1>10, <1>11, <1>12

\* A step of an action that does not plan leaves plan and starting point alone.
LEMMA SamePlan ==
  ASSUME TypeInv, [Next]_vars, ~ Apply, ~ Reconcile
  PROVE  /\ plan' = plan /\ before' = before /\ opts' = opts
         /\ UnitTargets \subseteq UnitTargets'
         /\ \A i \in DropIns : DropInTargets(i) \subseteq DropInTargets(i)'
         /\ Live' => Live
         /\ Begun' => Begun
<1> USE DEF TypeInv, KindOK, InPlace, Goto, Finish, Abort, Fail, CountFault, ReadFails, FailsBefore, FailsAfter, Undoing,
            BetweenApplies, call, Live, Begun
<1>1. plan' = plan /\ before' = before /\ opts' = opts /\ unread \subseteq unread'
  BY DEF Install, Register, Enable, Tighten, Restore, WriteEnv, WriteUnit,
      RemoveStaleDropIn, WriteDropIn, Decide, Reload, Start, Stop, Disable, Snapshot, Deregister,
      RemoveUnit, RemoveDropIns, RemoveHome, UndoFile, UndoService, UndoHome, UndoSkips,
      UndoDone, Final, Crash, EditConfig, EditUnit, DeleteRegistration, vars, Next, Step
<1>2. /\ UnitTargets \subseteq UnitTargets'
      /\ \A i \in DropIns : DropInTargets(i) \subseteq DropInTargets(i)'
  BY <1>1 DEF UnitTargets, DropInTargets, Removing, Rendered
<1>3. (Live' => Live) /\ (Begun' => Begun)
  BY <1>1 DEF Install, Register, Enable, Tighten, Restore, WriteEnv, WriteUnit,
      RemoveStaleDropIn, WriteDropIn, Decide, Reload, Start, Stop, Disable, Snapshot, Deregister,
      RemoveUnit, RemoveDropIns, RemoveHome, UndoFile, UndoService, UndoHome, UndoSkips,
      UndoDone, Final, Crash, EditConfig, EditUnit, DeleteRegistration, vars, Next, Step
<1>4. QED
  BY <1>1, <1>2, <1>3

\* An action that is planned starts from the host as it is, with an empty log.
LEMMA FreshPlan ==
  ASSUME TypeInv, Ended, Apply \/ Reconcile
  PROVE  Live' => /\ Entries' = {}
                  /\ unit' = before'.conf.unit /\ dropIn' = before'.conf.drop
                  /\ oper' = before'.conf.oper /\ running' = before'.running /\ running' = running
                  /\ plan'.kind = "inplace" => unit' # "absent"
<1> USE DEF TypeInv, KindOK, Live, Ended, files, service
<1>1. CASE Apply
  <2>1. log' = <<>> /\ Entries' = {}
    BY <1>1, EntriesTyped DEF Apply, Begin
  <2>2. QED
    BY <1>1, <2>1 DEF Apply, Begin, DiskConf, PlannedKind, Visible
<1>2. CASE Reconcile
  <2>1. log' = <<>> /\ Entries' = {}
    BY <1>2, EntriesTyped DEF Reconcile
  <2>2. CASE UNCHANGED plan
    BY <1>2, <2>2 DEF Reconcile
  <2>3. CASE ~ UNCHANGED plan
    <3>1. /\ plan' = [plan EXCEPT !.kind = IF unit' = "absent" THEN "create"
                                           ELSE IF dropIn'[0] = None THEN "inplace" ELSE "noop",
                                  !.from = dropIn'[0]]
          /\ before' = [conf |-> [unit |-> unit', drop |-> dropIn', oper |-> oper],
                        running |-> running]
      BY <1>2, <2>3 DEF Reconcile
    <3>2. oper' = oper /\ running' = running
      BY <1>2 DEF Reconcile
    <3>3. plan'.kind = "inplace" => unit' # "absent"
      BY <3>1 DEF TypeOK, CallOK
    <3>4. /\ unit' = before'.conf.unit /\ dropIn' = before'.conf.drop
          /\ oper' = before'.conf.oper /\ running' = before'.running
      BY <3>1, <3>2
    <3>5. QED
      BY <2>1, <3>2, <3>3, <3>4
  <2>4. QED
    BY <2>2, <2>3
<1>3. QED
  BY <1>1, <1>2

\* Every step keeps what is known of the end of actions.
LEMMA EndedStep == TypeInv /\ CallProgress /\ Ended /\ [Next]_vars => Ended'
<1> SUFFICES ASSUME TypeInv, CallProgress, Ended, [Next]_vars PROVE Ended'
  OBVIOUS
<1> USE DEF TypeInv, KindOK, InPlace, Goto, Finish, Abort, Fail, CountFault, ReadFails, FailsBefore, FailsAfter,
            Undoing, BetweenApplies, files, home, service, call, world, Ended, Acting
<1>1. CASE Apply
  BY <1>1 DEF Apply, Begin, PlannedKind
<1>2. CASE Reconcile
  BY <1>2 DEF Reconcile, TypeOK, CallOK
<1>3. CASE Install \/ Register \/ Enable \/ Tighten \/ Restore \/ WriteEnv \/ WriteUnit \/
          RemoveStaleDropIn \/ WriteDropIn \/ Decide \/ Reload \/ Start
  BY <1>3 DEF Install, Register, Enable, Tighten, Restore, WriteEnv, WriteUnit,
      RemoveStaleDropIn, WriteDropIn, Decide, Reload, Start
<1>4. CASE Stop \/ Disable \/ Snapshot \/ Deregister \/ RemoveUnit \/ RemoveDropIns \/ RemoveHome
  BY <1>4 DEF Stop, Disable, Snapshot, Deregister, RemoveUnit, RemoveDropIns, RemoveHome
<1>5. CASE \/ Final \/ Crash \/ EditConfig \/ EditUnit \/ DeleteRegistration \/ UNCHANGED vars
  BY <1>5 DEF Final, Crash, EditConfig, EditUnit, DeleteRegistration, vars
<1>6. CASE UndoFile \/ UndoService \/ UndoHome \/ UndoSkips \/ UndoDone
  BY <1>6 DEF UndoFile, UndoService, UndoHome, UndoSkips, UndoDone, CallProgress
<1>7. QED
  BY <1>1, <1>2, <1>3, <1>4, <1>5, <1>6 DEF Next, Step

\* Writing the unit file records what it was, unless nothing changed or the call failed.
LEMMA WriteUnitLog ==
  ASSUME TypeInv, WriteUnit
  PROVE  \/ Entries' = Entries /\ (unit' = unit \/ ~ clean')
         \/ \E u \in {unit, "absent"} :
              /\ Entries' = Entries \cup {UndoStep("unit", None, u)}
              /\ u = unit \/ None \in unread'
              /\ pc' \in {"stale", "dropins"}
<1>1. log \in Seq(UndoSteps) /\ \A u \in {unit, "absent"} : UndoStep("unit", None, u) \in UndoSteps
  BY DEF UndoSteps, UndoStep, TypeInv, TypeOK, HostOK, UnitStates
<1>2. \A u \in {unit, "absent"} : Push(UndoStep("unit", None, u)) =>
        Entries' = Entries \cup {UndoStep("unit", None, u)}
  BY <1>1, EntriesPush
<1>3. log' = log => Entries' = Entries
  BY EntriesTyped
<1>4. QED
  BY <1>2, <1>3 DEF WriteUnit, Goto, FailsBefore, FailsAfter, Abort, Fail, CountFault, ReadFails

\* So does writing a drop-in, which is then no longer to be written.
LEMMA WriteDropInLog ==
  ASSUME TypeInv, WriteDropIn
  PROVE  \/ /\ Entries' = Entries /\ todo' \subseteq todo
            /\ dropIn' = dropIn \/ (~ clean' /\ \E i \in todo : dropIn' = [dropIn EXCEPT ![i] = plan.to])
         \/ \E i \in todo : \E d \in {dropIn[i], None} :
              /\ Entries' = Entries \cup {UndoStep("dropIn", i, d)}
              /\ d = dropIn[i] \/ i \in unread'
              /\ dropIn' = [dropIn EXCEPT ![i] = plan.to]
              /\ todo' = todo \ {i} /\ pc' = "dropins"
<1>1. todo \subseteq DropIns /\ log \in Seq(UndoSteps)
  BY DEF TypeInv, TypeOK, ControlOK
<1>2. \A i \in todo : \A d \in {dropIn[i], None} : UndoStep("dropIn", i, d) \in UndoSteps
  BY <1>1 DEF UndoSteps, UndoStep, TypeInv, TypeOK, HostOK, SpecOrNone
<1>3. \A i \in todo : \A d \in {dropIn[i], None} :
        Push(UndoStep("dropIn", i, d)) => Entries' = Entries \cup {UndoStep("dropIn", i, d)}
  BY <1>1, <1>2, EntriesPush
<1>4. log' = log => Entries' = Entries
  BY EntriesTyped
<1>5. QED
  BY <1>3, <1>4 DEF WriteDropIn, Goto, FailsBefore, FailsAfter, Abort, Fail, CountFault, ReadFails

\* Starting the unit records that it was started.
LEMMA StartLog ==
  ASSUME TypeInv, Start
  PROVE  \/ Entries' = Entries /\ (running' = running \/ ~ clean')
         \/ Entries' = Entries \cup {UndoStep("start", None, None)}
<1>1. UndoStep("start", None, None) \in UndoSteps /\ log \in Seq(UndoSteps)
  BY DEF UndoSteps, UndoStep, TypeInv, TypeOK
<1>2. Push(UndoStep("start", None, None)) => Entries' = Entries \cup {UndoStep("start", None, None)}
  BY <1>1, EntriesPush
<1>3. log' = log => Entries' = Entries
  BY EntriesTyped
<1>4. QED
  BY <1>2, <1>3 DEF Start, FailsBefore, FailsAfter, Abort, Fail, CountFault, ReadFails

\* Undo forgets at most the step it undoes.
LEMMA UndoLog ==
  ASSUME TypeInv, UndoFile \/ UndoService \/ UndoHome \/ UndoSkips
  PROVE  /\ pc = "undo" /\ pc' = "undo" /\ UNCHANGED <<plan, before, outcome>>
         /\ log[Len(log)] \in Entries /\ log[Len(log)] \in UndoSteps
         /\ Entries' \subseteq Entries
         /\ Entries \subseteq Entries' \cup {log[Len(log)]}
<1>1. /\ pc = "undo" /\ pc' = "undo" /\ UNCHANGED <<plan, before, outcome>>
      /\ log # <<>> /\ log' = SubSeq(log, 1, Len(log) - 1)
  BY DEF UndoFile, UndoService, UndoHome, UndoSkips, Undoing, call
<1>2. log \in Seq(UndoSteps)
  BY DEF TypeInv, TypeOK
<1>3. QED
  BY <1>1, <1>2, EntriesPop

\* A failed restoration of the override records nothing.
LEMMA RestoreLog ==
  ASSUME TypeInv, Restore
  PROVE  Live' => Entries' = Entries
<1>1. log' = log => Entries' = Entries
  BY EntriesTyped
<1>2. QED
  BY <1>1 DEF Restore, Finish, Live, FailsBefore, FailsAfter, Abort, Fail, CountFault, ReadFails

\* Steps between and at the end of actions.
Idle ==
  \/ UndoDone \/ Final \/ Crash \/ EditConfig \/ EditUnit \/ DeleteRegistration
  \/ UNCHANGED vars

\* They leave a live action's files, process and log alone.
LEMMA IdleSteps ==
  ASSUME TypeInv, Idle, Live'
  PROVE  /\ Entries' = Entries
         /\ UNCHANGED <<unit, dropIn, oper, running, plan, before, clean>>
         /\ pc' = pc \/ pc' = "final"
         /\ pc' = pc => UNCHANGED todo
<1>1. log' = log => Entries' = Entries
  BY EntriesTyped
<1>2. QED
  BY <1>1 DEF Idle, UndoDone, Final, Crash, EditConfig, EditUnit, DeleteRegistration, vars, Live,
       BetweenApplies, Goto, files, service, call

\* Every prior content that a step records is one that rollback may leave.
LEMMA UndoTargetsStep ==
  TypeInv /\ Ended /\ UndoTargets /\ NotYetWritten /\ Unlogged /\ [Next]_vars => UndoTargets'
<1> SUFFICES ASSUME TypeInv, Ended, UndoTargets, NotYetWritten, Unlogged, [Next]_vars, Live',
                    NEW e \in Entries'
             PROVE  /\ e.op = "unit" => e.prior \in UnitTargets'
                    /\ e.op = "dropIn" => e.prior \in (DropInTargets(e.at))'
                    /\ e.op # "oper"
  BY DEF UndoTargets
<1>1. CASE Apply \/ Reconcile
  BY <1>1, FreshPlan
<1>2. CASE ~ Apply /\ ~ Reconcile
  <2>1. /\ Live /\ UnitTargets \subseteq UnitTargets'
        /\ \A i \in DropIns : DropInTargets(i) \subseteq (DropInTargets(i))'
    BY <1>2, SamePlan
  <2>2. CASE e \in Entries
    <3>1. e \in UndoSteps
      BY <2>2, EntriesTyped DEF TypeInv, TypeOK
    <3>2. e.op = "dropIn" => e.at \in DropIns
      BY <3>1 DEF UndoSteps
    <3>3. QED
      BY <2>1, <2>2, <3>2 DEF UndoTargets
  <2>3. CASE e \notin Entries
    <3>1. CASE \/ Install \/ Register \/ Enable \/ Tighten \/ WriteEnv \/ Decide \/ Reload \/ Stop
               \/ Disable \/ Snapshot \/ Deregister \/ RemoveUnit \/ RemoveDropIns \/ RemoveHome \/ RemoveStaleDropIn
      BY <2>3, <3>1, QuietSteps DEF QuietLog
    <3>2. CASE WriteUnit
      <4>1. PICK u \in {unit, "absent"} : e = UndoStep("unit", None, u) /\ (u = unit \/ None \in unread')
        BY <2>3, <3>2, WriteUnitLog
      <4>2. pc = "unit" /\ clean /\ \A f \in Entries : f.op # "unit"
        BY <3>2 DEF WriteUnit, Ended, Acting, NotYetWritten, DropInsWritten
      <4>3. unit \in UnitTargets
        BY <2>1, <4>2 DEF Unlogged
      <4>4. QED
        BY <2>1, <4>1, <4>3 DEF UndoStep, UnitTargets
    <3>3. CASE WriteDropIn
      <4>1. PICK i \in todo : \E d \in {dropIn[i], None} :
              e = UndoStep("dropIn", i, d) /\ (d = dropIn[i] \/ i \in unread')
        BY <2>3, <3>3, WriteDropInLog
      <4>2. i \in DropIns
        BY DEF TypeInv, TypeOK, ControlOK
      <4>3. pc = "dropins" /\ clean /\ \A f \in Entries : f.op = "dropIn" => f.at # i
        BY <3>3 DEF WriteDropIn, Ended, Acting, NotYetWritten, DropInsWritten
      <4>4. dropIn[i] \in DropInTargets(i)
        BY <2>1, <4>2, <4>3 DEF Unlogged
      <4>5. QED
        BY <2>1, <4>1, <4>2, <4>4 DEF UndoStep, DropInTargets
    <3>4. CASE Start
      BY <2>3, <3>4, StartLog DEF UndoStep
    <3>5. CASE Restore
      BY <2>3, <3>5, RestoreLog
    <3>6. CASE UndoFile \/ UndoService \/ UndoHome \/ UndoSkips
      BY <2>3, <3>6, UndoLog
    <3>7. CASE Idle
      BY <2>3, <3>7, IdleSteps
    <3>8. QED
      BY <1>2, <3>1, <3>2, <3>3, <3>4, <3>5, <3>6, <3>7 DEF Next, Step, Idle
  <2>4. QED
    BY <2>2, <2>3
<1>3. QED
  BY <1>1, <1>2

\* Nothing is recorded of a file before its write.
LEMMA NotYetWrittenStep ==
  TypeInv /\ FilesProgress /\ Ended /\ NotYetWritten /\ [Next]_vars => NotYetWritten'
<1> SUFFICES ASSUME TypeInv, FilesProgress, Ended, NotYetWritten, [Next]_vars, Acting',
                    NEW e \in Entries'
             PROVE  /\ e.op = "unit" => pc' \in {"stale", "dropins"} \/ DropInsWritten'
                    /\ e.op = "dropIn" =>
                         (pc' \in {"stale", "dropins"} /\ e.at \notin todo') \/ DropInsWritten'
  BY DEF NotYetWritten
<1> USE DEF TypeInv, KindOK, Acting
<1>1. CASE Apply
  <2>1. log' = <<>>
    BY <1>1 DEF Apply, Begin
  <2>2. QED
    BY <2>1, EntriesTyped
<1>2. CASE Reconcile
  <2>1. log' = <<>>
    BY <1>2 DEF Reconcile, Ended
  <2>2. QED
    BY <2>1, EntriesTyped
<1>3. CASE \/ Install \/ Register \/ Enable \/ Tighten \/ WriteEnv \/ Decide \/ Reload \/ Stop
           \/ Disable \/ Snapshot \/ Deregister \/ RemoveUnit \/ RemoveDropIns \/ RemoveHome \/ RemoveStaleDropIn
  <2>1. e \in Entries \/ e.op \notin {"unit", "dropIn"}
    BY <1>3, QuietSteps DEF QuietLog
  <2>2. plan' = plan /\ todo' = todo
    BY <1>3 DEF Install, Register, Enable, Tighten, WriteEnv, Decide, Reload, Stop, Disable, Snapshot,
         Deregister, RemoveUnit, RemoveDropIns, RemoveHome, RemoveStaleDropIn, call
  <2>3. pc \in {"stale", "dropins"} \/ DropInsWritten =>
          (pc = "stale" /\ pc' \in {"stale", "dropins"}) \/ DropInsWritten'
    BY <1>3, <2>2 DEF Install, Register, Enable, Tighten, WriteEnv, Decide, Reload, Stop, Disable, Snapshot,
         Deregister, RemoveUnit, RemoveDropIns, RemoveHome, RemoveStaleDropIn, Goto, Finish,
         FailsBefore, FailsAfter, Abort, Fail, CountFault, ReadFails, DropInsWritten, InPlace
  <2>4. Acting
    BY <1>3 DEF Install, Register, Enable, Tighten, WriteEnv, Decide, Reload, Stop, Disable, Snapshot,
         Deregister, RemoveUnit, RemoveDropIns, RemoveHome, RemoveStaleDropIn
  <2>5. DropInsWritten => DropInsWritten'
    BY <1>3, <2>2 DEF Install, Register, Enable, Tighten, WriteEnv, Decide, Reload, Stop, Disable, Snapshot,
         Deregister, RemoveUnit, RemoveDropIns, RemoveHome, RemoveStaleDropIn, Goto, Finish,
         FailsBefore, FailsAfter, Abort, Fail, CountFault, ReadFails, DropInsWritten, InPlace
  <2>6. QED
    BY <2>1, <2>2, <2>3, <2>4, <2>5 DEF NotYetWritten
<1>4. CASE WriteUnit
  <2>1. pc = "unit" /\ pc' \in {"stale", "dropins"}
    BY <1>4 DEF WriteUnit, Goto, FailsBefore, FailsAfter, Abort, Fail, CountFault, ReadFails
  <2>2. \A f \in Entries : f.op # "dropIn"
    BY <2>1 DEF NotYetWritten, DropInsWritten
  <2>3. e \in Entries \/ \E u \in {unit, "absent"} : e = UndoStep("unit", None, u)
    BY <1>4, WriteUnitLog
  <2>4. QED
    BY <2>1, <2>2, <2>3 DEF UndoStep
<1>5. CASE WriteDropIn
  <2>1. pc = "dropins" /\ (pc' = "dropins" \/ DropInsWritten')
    BY <1>5 DEF WriteDropIn, Goto, FailsBefore, FailsAfter, Abort, Fail, CountFault, ReadFails, DropInsWritten, InPlace, call
  <2>2. \/ e \in Entries /\ todo' \subseteq todo
        \/ \E i \in todo : /\ todo' = todo \ {i}
                           /\ \/ e \in Entries
                              \/ \E d \in {dropIn[i], None} : e = UndoStep("dropIn", i, d)
    BY <1>5, WriteDropInLog
  <2>3. CASE e \in Entries
    BY <2>1, <2>2, <2>3 DEF NotYetWritten, DropInsWritten
  <2>4. CASE e \notin Entries
    BY <2>1, <2>2, <2>4 DEF UndoStep
  <2>5. QED
    BY <2>3, <2>4
<1>6. CASE Start
  <2>1. pc = "start" /\ (Acting' => DropInsWritten')
    BY <1>6 DEF Start, Goto, Finish, FailsBefore, FailsAfter, Abort, Fail, CountFault, ReadFails, DropInsWritten, InPlace
  <2>2. QED
    BY <2>1
<1>7. CASE Restore \/ UndoFile \/ UndoService \/ UndoHome \/ UndoSkips
  BY <1>7 DEF Restore, UndoFile, UndoService, UndoHome, UndoSkips, Undoing, Finish, FailsBefore,
     FailsAfter, Abort, Fail, CountFault, ReadFails
<1>8. CASE UndoDone \/ Final \/ Crash \/ EditConfig \/ EditUnit \/ DeleteRegistration
  BY <1>8 DEF UndoDone, Final, Crash, EditConfig, EditUnit, DeleteRegistration, BetweenApplies, Goto
<1>9. CASE UNCHANGED vars
  BY <1>9, EntriesTyped DEF vars, NotYetWritten, DropInsWritten, InPlace, call
<1>10. QED
  BY <1>1, <1>2, <1>3, <1>4, <1>5, <1>6, <1>7, <1>8, <1>9 DEF Next, Step

\* What a step leaves unrecorded is as rollback has to leave it.
LEMMA UnloggedStep ==
  TypeInv /\ FilesProgress /\ Ended /\ UndoTargets /\ Unlogged /\ [Next]_vars => Unlogged'
<1> SUFFICES ASSUME TypeInv, FilesProgress, Ended, UndoTargets, Unlogged, [Next]_vars, Live', clean'
             PROVE  /\ unit' \in UnitTargets' \/ \E e \in Entries' : e.op = "unit"
                    /\ \A i \in DropIns : \/ dropIn'[i] \in (DropInTargets(i))'
                                          \/ \E e \in Entries' : e.op = "dropIn" /\ e.at = i
                    /\ plan'.kind \in {"create", "inplace"} => oper' = before'.conf.oper
                    /\ running' \in {before'.running, None} \/ \E e \in Entries' : e.op = "start"
  BY DEF Unlogged
<1> USE DEF TypeInv, KindOK
<1>1. CASE Apply \/ Reconcile
  <2>1. /\ unit' = before'.conf.unit /\ dropIn' = before'.conf.drop
        /\ oper' = before'.conf.oper /\ running' = before'.running
    BY <1>1, FreshPlan
  <2>2. QED
    BY <2>1 DEF UnitTargets, DropInTargets
<1>2. CASE ~ Apply /\ ~ Reconcile
  <2>1. /\ Live /\ UnitTargets \subseteq UnitTargets'
        /\ \A i \in DropIns : DropInTargets(i) \subseteq (DropInTargets(i))'
        /\ plan' = plan /\ before' = before
    BY <1>2, SamePlan
  <2> HIDE DEF TypeInv, KindOK
  <2>2. CASE clean /\ Entries \subseteq Entries' /\ UNCHANGED <<unit, dropIn, oper, running>>
    BY <2>1, <2>2 DEF Unlogged
  <2>3. CASE Install \/ Register \/ Enable \/ Tighten \/ WriteEnv \/ Decide \/ Reload \/
             Disable \/ Snapshot \/ Deregister \/ RemoveHome
    <3>1. clean /\ UNCHANGED <<unit, dropIn, oper, running>>
      BY <2>3 DEF Install, Register, Enable, Tighten, WriteEnv, Decide, Reload, Disable, Snapshot, Deregister,
           RemoveHome, files, service, Ended, Acting
    <3>2. Entries \subseteq Entries'
      BY <2>3, QuietSteps DEF QuietLog
    <3>3. QED
      BY <2>2, <3>1, <3>2
  <2>4. CASE Stop \/ RemoveUnit \/ RemoveDropIns \/ RemoveStaleDropIn
    <3>1. Entries \subseteq Entries' /\ clean
      BY <2>4, QuietSteps DEF QuietLog, Stop, RemoveUnit, RemoveDropIns, RemoveStaleDropIn, Ended,
         Acting
    <3>2. CASE Stop
      BY <2>1, <3>1, <3>2 DEF Stop, files, Unlogged
    <3>3. CASE RemoveUnit
      <4>1. unit' \in {unit, "absent"} /\ UNCHANGED <<dropIn, oper, running>>
        BY <3>3 DEF RemoveUnit, service
      <4>2. "absent" \in UnitTargets
        BY <3>3 DEF RemoveUnit, UnitTargets, Removing, TypeInv, KindOK
      <4>3. QED
        BY <2>1, <3>1, <4>1, <4>2 DEF Unlogged
    <3>4. CASE RemoveDropIns
      <4>1. /\ \A i \in DropIns : dropIn'[i] \in {dropIn[i], None}
            /\ UNCHANGED <<unit, running>> /\ Removing
        BY <3>4 DEF RemoveDropIns, service, Removing, TypeInv, KindOK, TypeOK, HostOK
      <4>2. \A i \in DropIns : None \in DropInTargets(i)
        BY <4>1 DEF DropInTargets
      <4>3. plan.kind \notin {"create", "inplace"}
        BY <4>1 DEF Removing
      <4>4. \A i \in DropIns : \/ dropIn'[i] \in DropInTargets(i)
                               \/ \E e \in Entries' : e.op = "dropIn" /\ e.at = i
        BY <2>1, <3>1, <4>1, <4>2 DEF Unlogged
      <4>5. QED
        BY <2>1, <3>1, <4>1, <4>3, <4>4 DEF Unlogged
    <3>5. CASE RemoveStaleDropIn
      <4>1. /\ \A i \in DropIns : \/ dropIn'[i] = dropIn[i]
                                  \/ i \notin Rendered(plan.to) /\ dropIn'[i] = None
            /\ UNCHANGED <<unit, oper, running>> /\ InPlace
        BY <3>5 DEF RemoveStaleDropIn, service, InPlace, TypeInv, KindOK, TypeOK, HostOK
      <4>2. \A i \in DropIns : i \notin Rendered(plan.to) => None \in DropInTargets(i)
        BY <4>1 DEF DropInTargets
      <4>3. \A i \in DropIns : \/ dropIn'[i] \in DropInTargets(i)
                               \/ \E e \in Entries' : e.op = "dropIn" /\ e.at = i
        BY <2>1, <3>1, <4>1, <4>2 DEF Unlogged
      <4>4. QED
        BY <2>1, <3>1, <4>1, <4>3 DEF Unlogged
    <3>6. QED
      BY <2>4, <3>2, <3>3, <3>4, <3>5
  <2>5. CASE WriteUnit
    <3>1. clean /\ UNCHANGED <<dropIn, oper, running>>
      BY <2>5 DEF WriteUnit, Ended, Acting, service
    <3>2. CASE Entries' = Entries /\ unit' = unit
      BY <2>2, <3>1, <3>2
    <3>3. CASE \E u \in {unit, "absent"} : Entries' = Entries \cup {UndoStep("unit", None, u)}
      <4>1. \E u \in {unit, "absent"} : UndoStep("unit", None, u) \in Entries'
        BY <3>3
      <4>2. \E e \in Entries' : e.op = "unit"
        BY <4>1 DEF UndoStep
      <4>3. Entries \subseteq Entries'
        BY <3>3
      <4>4. QED
        BY <2>1, <3>1, <4>2, <4>3 DEF Unlogged
    <3>4. QED
      BY <2>5, <3>2, <3>3, WriteUnitLog
  <2>6. CASE WriteDropIn
    <3>1. clean /\ UNCHANGED <<unit, oper, running>>
      BY <2>6 DEF WriteDropIn, Ended, Acting, service
    <3>2. CASE Entries' = Entries /\ dropIn' = dropIn
      BY <2>2, <3>1, <3>2
    <3>3. CASE \E i \in todo : \E d \in {dropIn[i], None} :
                 /\ Entries' = Entries \cup {UndoStep("dropIn", i, d)}
                 /\ dropIn' = [dropIn EXCEPT ![i] = plan.to]
      <4>1. PICK i \in todo : \E d \in {dropIn[i], None} :
                 /\ Entries' = Entries \cup {UndoStep("dropIn", i, d)}
                 /\ dropIn' = [dropIn EXCEPT ![i] = plan.to]
        BY <3>3
      <4>2. i \in DropIns /\ \A j \in DropIns : j # i => dropIn'[j] = dropIn[j]
        BY <4>1 DEF TypeInv, TypeOK, ControlOK, HostOK
      <4>3. \E e \in Entries' : e.op = "dropIn" /\ e.at = i
        <5>1. \E d \in {dropIn[i], None} : UndoStep("dropIn", i, d) \in Entries'
          BY <4>1
        <5>2. QED
          BY <5>1 DEF UndoStep
      <4>4. Entries \subseteq Entries'
        BY <4>1
      <4>5. \A j \in DropIns : \/ dropIn'[j] \in DropInTargets(j)
                               \/ \E e \in Entries' : e.op = "dropIn" /\ e.at = j
        BY <2>1, <3>1, <4>2, <4>3, <4>4 DEF Unlogged
      <4>6. QED
        BY <2>1, <3>1, <4>4, <4>5 DEF Unlogged
    <3>4. QED
      BY <2>6, <3>2, <3>3, WriteDropInLog
  <2>7. CASE Start
    <3>1. clean /\ UNCHANGED <<unit, dropIn, oper>>
      BY <2>7 DEF Start, Ended, Acting, files
    <3>2. CASE Entries' = Entries /\ running' = running
      BY <2>2, <3>1, <3>2
    <3>3. CASE Entries' = Entries \cup {UndoStep("start", None, None)}
      <4>1. UndoStep("start", None, None) \in Entries'
        BY <3>3
      <4>2. \E e \in Entries' : e.op = "start"
        BY <4>1 DEF UndoStep
      <4>3. Entries \subseteq Entries'
        BY <3>3
      <4>4. QED
        BY <2>1, <3>1, <4>2, <4>3 DEF Unlogged
    <3>4. QED
      BY <2>7, <3>2, <3>3, StartLog
  <2>8. CASE Restore
    <3>1. clean /\ UNCHANGED <<unit, dropIn, running>> /\ plan.kind = "recreate"
      BY <2>8 DEF Restore, Ended, Acting, service, TypeInv, KindOK
    <3>2. Entries' = Entries
      BY <2>8, RestoreLog
    <3>3. QED
      BY <2>1, <3>1, <3>2 DEF Unlogged
  <2>9. CASE UndoFile \/ UndoService \/ UndoHome \/ UndoSkips
    <3>1. PICK s \in UndoSteps : s = log[Len(log)]
      BY <2>9, UndoLog
    <3>2. /\ s \in Entries /\ Entries' \subseteq Entries /\ Entries \subseteq Entries' \cup {s}
      BY <2>9, <3>1, UndoLog
    <3>3. clean
      BY <2>9 DEF UndoFile, UndoService, UndoHome, UndoSkips
    <3>4. CASE UndoFile
      <4>1. /\ s.op \in {"unit", "dropIn", "env", "oper"} /\ s.op # "oper"
            /\ unit' = IF s.op = "unit" THEN s.prior ELSE unit
            /\ dropIn' = IF s.op = "dropIn" THEN [dropIn EXCEPT ![s.at] = s.prior] ELSE dropIn
            /\ oper' = (oper /\ s.op # "oper") /\ running' = running
        BY <2>1, <3>1, <3>2, <3>4 DEF UndoFile, Undoing, service, UndoTargets
      <4>2. oper' = oper
        BY <4>1 DEF TypeInv, TypeOK, HostOK
      <4>3. unit' \in UnitTargets' \/ \E e \in Entries' : e.op = "unit"
        BY <2>1, <3>2, <3>3, <4>1 DEF Unlogged, UndoTargets
      <4>4. ASSUME NEW i \in DropIns
            PROVE  dropIn'[i] \in DropInTargets(i) \/ \E e \in Entries' : e.op = "dropIn" /\ e.at = i
        <5>1. CASE s.op = "dropIn" /\ s.at = i
          <6>1. dropIn'[i] = s.prior
            BY <4>1, <5>1 DEF TypeInv, TypeOK, HostOK
          <6>2. QED
            BY <2>1, <3>2, <5>1, <6>1 DEF UndoTargets
        <5>2. CASE ~ (s.op = "dropIn" /\ s.at = i)
          <6>1. dropIn'[i] = dropIn[i]
            BY <4>1, <5>2 DEF TypeInv, TypeOK, HostOK
          <6>2. QED
            BY <2>1, <3>2, <3>3, <5>2, <6>1 DEF Unlogged
        <5>3. QED
          BY <5>1, <5>2
      <4>5. running \in {before.running, None} \/ \E e \in Entries' : e.op = "start"
        BY <2>1, <3>2, <3>3, <4>1 DEF Unlogged
      <4>6. plan.kind \in {"create", "inplace"} => oper = before.conf.oper
        BY <2>1, <3>3 DEF Unlogged
      <4>7. QED
        BY <2>1, <4>1, <4>2, <4>3, <4>4, <4>5, <4>6
    <3>5. CASE UndoService
      <4>1. /\ s.op \in {"start", "enable"} /\ UNCHANGED <<unit, dropIn, oper>>
            /\ running' = IF s.op = "start" THEN None ELSE running
        BY <3>1, <3>5 DEF UndoService, Undoing, files
      <4>2. running' \in {before.running, None} \/ \E e \in Entries' : e.op = "start"
        BY <2>1, <3>2, <3>3, <4>1 DEF Unlogged
      <4>3. QED
        BY <2>1, <3>2, <3>3, <4>1, <4>2 DEF Unlogged
    <3>6. CASE UndoHome \/ UndoSkips
      <4>1. /\ s.op \in {"register", "tighten", "removal"} /\ UNCHANGED <<unit, dropIn, oper, running>>
        BY <3>1, <3>6 DEF UndoHome, UndoSkips, Undoing, files, service
      <4>2. QED
        BY <2>1, <3>2, <3>3, <4>1 DEF Unlogged
    <3>7. QED
      BY <2>9, <3>4, <3>5, <3>6
  <2>10. CASE Idle
    BY <2>2, <2>10, IdleSteps
  <2>11. QED
    BY <1>2, <2>3, <2>4, <2>5, <2>6, <2>7, <2>8, <2>9, <2>10 DEF Next, Step, Idle
<1>3. QED
  BY <1>1, <1>2

\* What a step does to the part the planner looks at stays within the contract.
LEMMA TouchedStep ==
  TypeInv /\ FilesProgress /\ ProcessProgress /\ Ended /\ UndoTargets /\ Touched /\ [Next]_vars =>
    Touched'
<1> SUFFICES ASSUME TypeInv, FilesProgress, ProcessProgress, Ended, UndoTargets,
                    Touched, [Next]_vars, Begun'
             PROVE  /\ plan'.kind = "inplace" => before'.conf.unit # "absent"
                    /\ plan'.kind = "inplace" /\ ~opts'.rollback => unit' # "absent"
                    /\ \/ dropIn'[0] = before'.conf.drop[0]
                       \/ dropIn'[0] = None /\ (Removing' \/ opts'.rollback)
                       \/ dropIn'[0] = plan'.to /\ plan'.kind # "remove"
                    /\ \/ running' \in {before'.running, None}
                       \/ plan'.kind # "remove" /\ running'.drop[0] = plan'.to
  BY DEF Touched, Reached, InPlace
<1>0. 0 \in DropIns /\ \A s \in Specs : 0 \in Rendered(s)
  BY DEF DropIns, Rendered
<1>1. CASE Apply \/ Reconcile
  <2>1. Live'
    <3>1. CASE Apply
      BY <3>1 DEF Begun, Live, Apply, Begin, PlannedKind
    <3>2. CASE Reconcile
      BY <3>2 DEF Begun, Live, Reconcile, TypeInv, TypeOK, CallOK, KindOK
    <3>3. QED
      BY <1>1, <3>1, <3>2
  <2>2. /\ unit' = before'.conf.unit /\ dropIn' = before'.conf.drop
        /\ running' = before'.running /\ (plan'.kind = "inplace" => unit' # "absent")
    BY <1>1, <2>1, FreshPlan
  <2>3. QED
    BY <2>2
<1>2. CASE ~ Apply /\ ~ Reconcile
  <2>1. /\ Begun /\ Reached
        /\ plan' = plan /\ before' = before /\ opts' = opts /\ Removing' = Removing
    BY <1>2, SamePlan DEF Touched, Removing
  <2>2. CASE UNCHANGED <<unit, dropIn, running>>
    BY <2>1, <2>2 DEF Reached, InPlace
  <2>3. CASE \/ Install \/ Register \/ Enable \/ Tighten \/ WriteEnv \/ Decide \/ Reload
             \/ Disable \/ Snapshot \/ Deregister \/ RemoveHome \/ Restore
    BY <2>2, <2>3 DEF Install, Register, Enable, Tighten, WriteEnv, Decide, Reload, Disable,
         Snapshot, Deregister, RemoveHome, Restore, files, service
  <2>4. CASE Stop
    BY <2>1, <2>4 DEF Stop, files, Reached, InPlace
  <2>5. CASE RemoveUnit
    BY <2>1, <2>5 DEF RemoveUnit, service, TypeInv, KindOK, Reached, InPlace
  <2>6. CASE RemoveDropIns
    <3>1. dropIn'[0] \in {dropIn[0], None} /\ UNCHANGED <<unit, running>> /\ Removing
      BY <1>0, <2>6 DEF RemoveDropIns, service, Removing, TypeInv, KindOK, TypeOK, HostOK
    <3>2. QED
      BY <2>1, <3>1 DEF Reached, InPlace
  <2>7. CASE RemoveStaleDropIn
    <3>1. plan.to \in Specs
      BY <2>7 DEF RemoveStaleDropIn, TypeInv, KindOK
    <3>2. dropIn'[0] = dropIn[0] /\ UNCHANGED <<unit, running>>
      BY <1>0, <2>7, <3>1 DEF RemoveStaleDropIn, service, TypeInv, TypeOK, HostOK
    <3>3. QED
      BY <2>1, <3>2 DEF Reached, InPlace
  <2>8. CASE WriteUnit
    <3>1. unit' \in {unit, "template"} /\ UNCHANGED <<dropIn, running>>
      BY <2>8 DEF WriteUnit, service
    <3>2. QED
      BY <2>1, <3>1 DEF Reached, InPlace
  <2>9. CASE WriteDropIn
    <3>1. plan.kind # "remove" /\ UNCHANGED <<unit, running>>
      BY <2>9 DEF WriteDropIn, service, TypeInv, KindOK
    <3>2. dropIn'[0] \in {dropIn[0], plan.to}
      BY <1>0, <2>9 DEF WriteDropIn, TypeInv, TypeOK, HostOK, FailsBefore
    <3>3. QED
      BY <2>1, <3>1, <3>2 DEF Reached, InPlace
  <2>10. CASE Start
    <3>1. plan.kind # "remove" /\ UNCHANGED <<unit, dropIn>> /\ plan.to \in Specs
      BY <2>10 DEF Start, files, TypeInv, KindOK
    <3>2. loaded.drop = dropIn /\ dropIn[0] = plan.to
      BY <1>0, <2>10, <3>1 DEF Start, ProcessProgress, FilesProgress, DropInsWritten
    <3>3. running' \in {running, loaded}
      BY <2>10 DEF Start
    <3>4. QED
      BY <2>1, <3>1, <3>2, <3>3 DEF Reached, InPlace
  <2>11. CASE UndoFile
    <3>1. PICK s \in UndoSteps : s = log[Len(log)] /\ s \in Entries
      BY <2>11, UndoLog
    <3>2. /\ dropIn' = IF s.op = "dropIn" THEN [dropIn EXCEPT ![s.at] = s.prior] ELSE dropIn
          /\ running' = running
      BY <2>11, <3>1 DEF UndoFile, service
    <3>3. opts.rollback /\ Live
      BY <2>1, <2>11 DEF UndoFile, Undoing, Ended, Live, Begun
    <3>4. dropIn'[0] = dropIn[0] \/ dropIn'[0] \in DropInTargets(0)
      BY <1>0, <3>1, <3>2, <3>3 DEF UndoTargets, TypeInv, TypeOK, HostOK
    <3>5. dropIn'[0] \in {dropIn[0], before.conf.drop[0], None}
      BY <3>4 DEF DropInTargets
    <3>6. QED
      BY <2>1, <3>2, <3>3, <3>5 DEF Reached, InPlace
  <2>12. CASE UndoService
    <3>1. running' \in {running, None} /\ UNCHANGED <<unit, dropIn>>
      BY <2>12 DEF UndoService, files
    <3>2. QED
      BY <2>1, <3>1 DEF Reached, InPlace
  <2>13. CASE UndoHome \/ UndoSkips \/ UndoDone \/ Final \/ Crash \/ EditConfig \/ DeleteRegistration
    BY <2>2, <2>13 DEF UndoHome, UndoSkips, UndoDone, Final, Crash, EditConfig, DeleteRegistration,
       files, service
  <2>14. CASE EditUnit
    <3>1. unit' \in {unit, "edited"} /\ UNCHANGED <<dropIn, running>>
      BY <2>14 DEF EditUnit, service
    <3>2. QED
      BY <2>1, <3>1 DEF Reached, InPlace
  <2>15. CASE UNCHANGED vars
    BY <2>2, <2>15 DEF vars, files, service
  <2>16. QED
    BY <1>2, <2>3, <2>4, <2>5, <2>6, <2>7, <2>8, <2>9, <2>10, <2>11, <2>12, <2>13, <2>14, <2>15
       DEF Next, Step
<1>3. QED
  BY <1>1, <1>2

\* A process is only ever started from a configuration with an ExecStart.
LEMMA HasSpecStep == TypeInv /\ HasSpec /\ [Next]_vars => HasSpec'
<1> SUFFICES ASSUME TypeInv, HasSpec, [Next]_vars PROVE HasSpec'
  OBVIOUS
<1>1. CASE Start
  BY <1>1 DEF Start, Runnable, HasSpec
<1>2. CASE ~ Start
  <2>1. running' \in {running, None}
    BY <1>2 DEF Install, Register, Enable, Tighten, Restore, WriteEnv, WriteUnit,
      RemoveStaleDropIn, WriteDropIn, Decide, Reload, Stop, Disable, Snapshot, Deregister,
      RemoveUnit, RemoveDropIns, RemoveHome, UndoFile, UndoService, UndoHome, UndoSkips,
      UndoDone, Final, Crash, EditConfig, EditUnit, DeleteRegistration, vars, Next, Step,
      Apply, Begin, Reconcile, service
  <2>2. QED
    BY <2>1 DEF HasSpec
<1>3. QED
  BY <1>1, <1>2

\* The invariant behind the rollback theorems.
LEMMA Rollback == Spec => [](TypeInv /\ ProgressInv /\ RollInv)
<1>1. Init => RollInv
  BY RollInit
<1>2. TypeInv /\ ProgressInv /\ RollInv /\ [Next]_vars => RollInv'
  BY EndedStep, UndoTargetsStep, NotYetWrittenStep, UnloggedStep, TouchedStep, HasSpecStep
     DEF RollInv, ProgressInv
<1>3. QED
  BY <1>1, <1>2, Progress, PTL DEF Spec

(***************************************************************************)
(* After --rollback-on-failure unit file, override and drop-ins are what   *)
(* they were, superseded drop-ins excepted and those files that could not  *)
(* be read and are gone, whatever the failing step was and whatever        *)
(* earlier applies had left: each file is written at most once per action, *)
(* so a content the log holds is the original one.                         *)
(***************************************************************************)
THEOREM RollbackRestoresAllFiles == Spec => []RollbackRestoresFiles
<1>1. RollInv => RollbackRestoresFiles
  <2> SUFFICES ASSUME RollInv, Reports({"Failed"}), opts.rollback, clean,
                      plan.kind \in {"create", "inplace"}
               PROVE  /\ unit = before.conf.unit \/ (None \in unread /\ unit = "absent")
                      /\ oper = before.conf.oper
                      /\ \A i \in DropIns :
                           \/ dropIn[i] = before.conf.drop[i]
                           \/ /\ i \in unread \/ (InPlace /\ i \notin Rendered(plan.to))
                              /\ dropIn[i] = None
    BY DEF RollbackRestoresFiles
  <2>1. Entries = {} /\ Live
    BY EntriesTyped DEF RollInv, Ended, Reports, Live
  <2>2. ~ Removing
    BY DEF Removing
  <2>3. QED
    BY <2>1, <2>2 DEF RollInv, Unlogged, UnitTargets, DropInTargets
<1>2. QED
  BY <1>1, Rollback, PTL

(***************************************************************************)
(* After rollback no process runs with the configuration that was rolled   *)
(* back: a process the action started is in the log, and is stopped.       *)
(***************************************************************************)
THEOREM RollbackStopsProcess == Spec => []RollbackStopsNewProcess
<1>1. TypeInv /\ RollInv => RollbackStopsNewProcess
  <2> SUFFICES ASSUME TypeInv, RollInv, Reports({"Failed"}), opts.rollback, clean
               PROVE  running \in {before.running, None}
    BY DEF RollbackStopsNewProcess
  <2>1. Entries = {}
    BY EntriesTyped DEF RollInv, Ended, Reports
  <2>2. CASE Live
    BY <2>1, <2>2 DEF RollInv, Unlogged
  <2>3. QED
    BY <2>2 DEF RollInv, Ended, Live, Reports
<1>2. QED
  BY <1>1, Rollback, PTL

(***************************************************************************)
(* A runner action does what RunnerContract promises to the rest of ghars, *)
(* whatever state it starts from and however it ends: with success, with   *)
(* an error, rolled back in whole or in part, or killed at any location.   *)
(***************************************************************************)
THEOREM ActionsKeepContract == Spec => []KeepsContract
<1>1. TypeInv /\ ProgressInv /\ RollInv => KeepsContract
  <2> DEFINE u == unit # "absent"
             c == dropIn[0]
             r == IF running = None THEN None ELSE running.drop[0]
             u0 == before.conf.unit # "absent"
             c0 == before.conf.drop[0]
             r0 == IF before.running = None THEN None ELSE before.running.drop[0]
             was == ViewOf(before.conf, before.running)
  <2> SUFFICES ASSUME TypeInv, ProgressInv, RollInv, pc = "final" \/ outcome = "crashed",
                      plan.kind \notin {"nothing", "noop"}
               PROVE  /\ outcome \notin {"Failed", "crashed"} =>
                           ViewOf(DiskConf, running) \in Contract!Completed(plan.kind, was, plan.to)
                      /\ outcome \in {"Failed", "crashed"} /\ ~opts.rollback =>
                           ViewOf(DiskConf, running) \in Contract!Interrupted(plan.kind, was, plan.to)
                      /\ outcome = "Failed" /\ opts.rollback /\ clean =>
                           ViewOf(DiskConf, running) \in Contract!RolledBack(was)
                      /\ outcome \in {"Failed", "crashed"} /\ opts.rollback =>
                           ViewOf(DiskConf, running) \in Contract!PartlyUndone(was, plan.to)
    BY DEF KeepsContract, TypeInv, TypeOK, CallOK, ControlOK
  <2>1. /\ ViewOf(DiskConf, running) = Contract!View(u, c, r)
        /\ was = Contract!View(u0, c0, r0)
    BY DEF ViewOf, DiskConf
  <2>2. was.unit = u0 /\ was.conf = c0 /\ was.run = r0
    BY <2>1 DEF Contract!View
  <2>3. \A U, C, R : u \in U /\ c \in C /\ r \in R => ViewOf(DiskConf, running)
          \in Contract!Views(U, C, R)
    BY <2>1 DEF Contract!Views
  <2>4. plan.kind \in {"create", "inplace", "recreate", "remove"}
    BY DEF TypeInv, TypeOK, CallOK, Kinds
  <2>5. 0 \in DropIns /\ \A s \in Specs : 0 \in Rendered(s)
    BY DEF DropIns, Rendered
  <2>6. u \in {FALSE, TRUE} /\ u0 \in {FALSE, TRUE}
    OBVIOUS
  <2>7. Reached
    BY DEF RollInv, Touched, Begun
  <2>8. /\ plan.kind = "inplace" /\ ~opts.rollback => u = TRUE
        /\ c \in {c0, None, plan.to}
        /\ r \in {r0, None, plan.to}
        /\ plan.kind = "remove" => c \in {c0, None} /\ r \in {r0, None}
        /\ plan.kind \in {"create", "inplace"} /\ ~opts.rollback => c \in {c0, plan.to}
    BY <2>7 DEF Reached, InPlace, Removing
  <2>9. ASSUME outcome \notin {"Failed", "crashed"}
        PROVE  ViewOf(DiskConf, running) \in Contract!Completed(plan.kind, was, plan.to)
    <3>0. pc = "final"
      BY <2>9
    <3>1. CASE plan.kind \in {"create", "inplace"}
      <4>1. /\ plan.to \in Specs
            /\ outcome \in {"Created", "InPlaceSkipped", "InPlaceRewroteNoRestart", "InPlaceRestarted"}
        BY <2>9, <3>0, <3>1 DEF RollInv, Ended, TypeInv, KindOK
      <4>2. u = TRUE /\ c = plan.to
        BY <2>5, <3>0, <4>1 DEF ProgressInv, CreatedIsComplete, UpdatedIsExact, Reports, Exact, Covers
      <4>3. Contract!Completed(plan.kind, was, plan.to)
              = Contract!Views({TRUE}, {plan.to}, {r0, plan.to, None})
        BY <2>2, <3>1 DEF Contract!Completed
      <4>7. ViewOf(DiskConf, running) \in Contract!Views({TRUE}, {plan.to}, {r0, plan.to, None})
        BY <2>3, <2>8, <4>2, <4>3
      <4>8. QED
        BY <4>3, <4>7
    <3>2. CASE plan.kind = "recreate"
      <4>1. outcome = "Recreated" /\ plan.to \in Specs
        BY <2>9, <3>0, <3>2 DEF RollInv, Ended, TypeInv, KindOK, InPlace
      <4>2. u = TRUE /\ c = plan.to
        BY <2>5, <3>0, <4>1 DEF ProgressInv, CreatedIsComplete, Reports, Covers
      <4>3. r \in {plan.to, None}
        BY <3>0, <4>1, <4>2 DEF ProgressInv, UpdatedIsExact, Reports
      <4>4. Contract!Completed(plan.kind, was, plan.to)
              = Contract!Views({TRUE}, {plan.to}, {plan.to, None})
        BY <2>2, <3>2 DEF Contract!Completed
      <4>7. ViewOf(DiskConf, running) \in Contract!Views({TRUE}, {plan.to}, {plan.to, None})
        BY <2>3, <4>2, <4>3, <4>4
      <4>8. QED
        BY <4>4, <4>7
    <3>3. CASE plan.kind = "remove"
      <4>1. outcome = "Removed"
        BY <2>9, <3>0, <3>3 DEF RollInv, Ended, InPlace
      <4>2. u = FALSE /\ c = None /\ r = None
        BY <2>5, <3>0, <4>1 DEF ProgressInv, RemovedIsGone, Reports
      <4>3. Contract!Completed(plan.kind, was, plan.to) = Contract!Views({FALSE}, {None}, {None})
        BY <2>2, <3>3 DEF Contract!Completed
      <4>7. ViewOf(DiskConf, running) \in Contract!Views({FALSE}, {None}, {None})
        BY <2>3, <4>2, <4>3
      <4>8. QED
        BY <4>3, <4>7
    <3>4. QED
      BY <2>4, <3>1, <3>2, <3>3
  <2>10. ASSUME ~opts.rollback
         PROVE  ViewOf(DiskConf, running) \in Contract!Interrupted(plan.kind, was, plan.to)
    <3>1. CASE plan.kind = "create"
      <4>1. Contract!Interrupted(plan.kind, was, plan.to)
              = Contract!Views({FALSE, TRUE}, {c0, plan.to}, {r0, plan.to, None})
        BY <2>2, <3>1 DEF Contract!Interrupted
      <4>7. ViewOf(DiskConf, running) \in Contract!Views({FALSE, TRUE}, {c0, plan.to}, {r0, plan.to, None})
        BY <2>3, <2>6, <2>8, <2>10, <3>1, <4>1
      <4>8. QED
        BY <4>1, <4>7
    <3>2. CASE plan.kind = "inplace"
      <4>1. Contract!Interrupted(plan.kind, was, plan.to)
              = Contract!Views({TRUE}, {c0, plan.to}, {r0, plan.to, None})
        BY <2>2, <3>2 DEF Contract!Interrupted
      <4>7. ViewOf(DiskConf, running) \in Contract!Views({TRUE}, {c0, plan.to}, {r0, plan.to, None})
        BY <2>3, <2>8, <2>10, <3>2, <4>1
      <4>8. QED
        BY <4>1, <4>7
    <3>3. CASE plan.kind = "recreate"
      <4>1. Contract!Interrupted(plan.kind, was, plan.to)
              = Contract!Views({FALSE, TRUE}, {c0, plan.to, None}, {r0, plan.to, None})
        BY <2>2, <3>3 DEF Contract!Interrupted
      <4>7. ViewOf(DiskConf, running) \in Contract!Views({FALSE, TRUE}, {c0, plan.to, None}, {r0, plan.to, None})
        BY <2>3, <2>6, <2>8, <4>1
      <4>8. QED
        BY <4>1, <4>7
    <3>4. CASE plan.kind = "remove"
      <4>1. Contract!Interrupted(plan.kind, was, plan.to)
              = Contract!Views({FALSE, TRUE}, {c0, None}, {r0, None})
        BY <2>2, <3>4 DEF Contract!Interrupted
      <4>7. ViewOf(DiskConf, running) \in Contract!Views({FALSE, TRUE}, {c0, None}, {r0, None})
        BY <2>3, <2>6, <2>8, <3>4, <4>1
      <4>8. QED
        BY <4>1, <4>7
    <3>5. QED
      BY <2>4, <3>1, <3>2, <3>3, <3>4
  <2>11. ASSUME outcome = "Failed", opts.rollback, clean
         PROVE  ViewOf(DiskConf, running) \in Contract!RolledBack(was)
    <3>1. Entries = {} /\ Live
      BY <2>11, EntriesTyped DEF RollInv, Ended, Live
    <3>2. r \in {r0, None}
      BY <2>11, <3>1 DEF RollInv, Unlogged
    <3>3. unit \in UnitTargets /\ c \in DropInTargets(0)
      BY <2>5, <2>11, <3>1 DEF RollInv, Unlogged
    <3>4. u \in {u0, FALSE} /\ c \in {c0, None}
      BY <3>3 DEF UnitTargets, DropInTargets
    <3>5. Contract!RolledBack(was) = Contract!Views({u0, FALSE}, {c0, None}, {r0, None})
      BY <2>2 DEF Contract!RolledBack
    <3>7. ViewOf(DiskConf, running) \in Contract!Views({u0, FALSE}, {c0, None}, {r0, None})
      BY <2>3, <3>2, <3>4, <3>5
    <3>8. QED
      BY <3>5, <3>7
  <2>12. ViewOf(DiskConf, running) \in Contract!PartlyUndone(was, plan.to)
    <3>1. Contract!PartlyUndone(was, plan.to)
            = Contract!Views({FALSE, TRUE}, {c0, plan.to, None}, {r0, plan.to, None})
      BY <2>2 DEF Contract!PartlyUndone
    <3>7. ViewOf(DiskConf, running) \in Contract!Views({FALSE, TRUE}, {c0, plan.to, None}, {r0, plan.to, None})
      BY <2>3, <2>6, <2>8, <3>1
    <3>8. QED
      BY <3>1, <3>7
  <2>13. QED
    BY <2>9, <2>10, <2>11, <2>12
<1>2. QED
  BY <1>1, Rollback, PTL
==============================================================================
