---------------------------- MODULE MCRunnerApply ----------------------------
(***************************************************************************)
(* Small instances of RunnerApply.  From a base spec, `trim` drops an      *)
(* optional drop-in (in place, with a superseded file), `moved` changes    *)
(* the trust zone (in place) and `other` the identity (recreate).          *)
(***************************************************************************)
EXTENDS RunnerApply, TLC

CONSTANTS base, trim, other, moved, idA, idB, dflt, zoneB

MCIdentity == [s \in Specs |-> IF s = other THEN idB ELSE idA]
MCTrustZone == [s \in Specs |-> IF s = moved THEN zoneB ELSE dflt]
MCOptional == [s \in Specs |-> IF s = trim THEN {1} ELSE {1, 2}]
==============================================================================
