------------------------------- MODULE MCFleet -------------------------------
(* Two runners and one pool; the blocks differ in the pool and in identity. *)
EXTENDS Fleet, TLC

CONSTANTS own1, own2, own3, b1, b2

MCBodies == {b1, b2}
MCUses == own1 :> {1} @@ own2 :> {1} @@ own3 :> {}
MCIdent == own1 :> "x" @@ own2 :> "y" @@ own3 :> "x"
MCOptions ==
  {[NoOptions EXCEPT !.rollback = TRUE, !.detailed = TRUE],
   [NoOptions EXCEPT !.failFast = TRUE],
   [NoOptions EXCEPT !.noRestart = TRUE, !.gate = TRUE],
   [NoOptions EXCEPT !.only = {<<"runner", 1>>, <<"pool", 1>>}]}
==============================================================================
