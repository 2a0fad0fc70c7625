------------------------------ MODULE MCPublish ------------------------------
(* Publish on one file in a directory of its own, two contents and two      *)
(* process ids.                                                             *)
EXTENDS Publish

MCDirOf == [f \in Files |-> "dir"]
==============================================================================
