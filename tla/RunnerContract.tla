--------------------------- MODULE RunnerContract ---------------------------
(***************************************************************************)
(* What the runner actions promise to the rest of ghars, in terms of what  *)
(* discovery and the planner can tell about a runner: whether its unit     *)
(* file exists, the spec whose hash 00-ghars.conf carries, and the spec    *)
(* its process was started with.  RunnerApply keeps these promises call by *)
(* call; Fleet relies on them to treat a runner action as one step.        *)
(***************************************************************************)
CONSTANT None   \* no spec, no process

View(unit, conf, run) == [unit |-> unit, conf |-> conf, run |-> run]

Views(units, confs, runs) == {View(u, c, r) : u \in units, c \in confs, r \in runs}

(***************************************************************************)
(* The action of the given kind returned Ok on a runner that looked like   *)
(* v.  Whether the process it started stays up is looked at by none of     *)
(* them, as long as a sibling of the trust zone runs; a process that was   *)
(* there before a create is left alone.                                    *)
(***************************************************************************)
Completed(kind, v, new) ==
  CASE kind \in {"create", "inplace"} -> Views({TRUE}, {new}, {v.run, new, None})
    [] kind = "recreate" -> Views({TRUE}, {new}, {new, None})
    [] kind = "remove"   -> Views({FALSE}, {None}, {None})

\* It returned Err, or the process died, and nothing was undone.
Interrupted(kind, v, new) ==
  CASE kind = "create"   -> Views({FALSE, TRUE}, {v.conf, new}, {v.run, new, None})
    [] kind = "inplace"  -> Views({TRUE}, {v.conf, new}, {v.run, new, None})
    [] kind = "recreate" -> Views({FALSE, TRUE}, {v.conf, new, None}, {v.run, new, None})
    [] kind = "remove"   -> Views({FALSE, TRUE}, {v.conf, None}, {v.run, None})

(***************************************************************************)
(* It returned Err and every step of its undo log was undone: what was     *)
(* written is as before, or gone if it could not be read before, and what  *)
(* was removed stays removed.                                              *)
(***************************************************************************)
RolledBack(v) == Views({v.unit, FALSE}, {v.conf, None}, {v.run, None})

\* It was to be rolled back, and a step of that failed or the process died.
PartlyUndone(v, new) == Views({FALSE, TRUE}, {v.conf, new, None}, {v.run, new, None})
=============================================================================
