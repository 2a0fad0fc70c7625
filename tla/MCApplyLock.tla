----------------------------- MODULE MCApplyLock -----------------------------
(* Small instances of ApplyLock.  Three processes are a holder, a refused    *)
(* contender and a third apply that starts after the file was removed.  Two  *)
(* inodes are the lock file before and after a removal; with more inodes     *)
(* than processes O_CREAT never runs out of them.                            *)
EXTENDS ApplyLock
==============================================================================
