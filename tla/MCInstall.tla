------------------------------ MODULE MCInstall ------------------------------
(* Install for one runner home, two versions and two process ids.         *)
EXTENDS Install
==============================================================================
