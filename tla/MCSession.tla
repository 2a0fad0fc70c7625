----------------------------- MODULE MCSession -----------------------------
(* Two processes and two runners; a page of one registration, so that the   *)
(* second runner is looked for where it is not listed.                      *)
EXTENDS Session

MCIdent(s) == s \div 2
MCOptions == {Plain,
              [Plain EXCEPT !.dry = TRUE],
              [Plain EXCEPT !.auto = FALSE, !.gate = TRUE],
              [Plain EXCEPT !.detailed = TRUE]}
=============================================================================
