----------------------------- MODULE AtomicFile -----------------------------
(***************************************************************************)
(* What write_root_owned (src/apply/writes.rs) promises to everybody who   *)
(* reads a unit file, a drop-in or a rule file: a reader finds what was    *)
(* there before or all of what the writer was asked to put there, and a    *)
(* file changes under the reader only as one replacement.  A replacement   *)
(* that is not durable yet may be taken back by a power failure, and a     *)
(* file that was absent when its directory was made may be absent again;   *)
(* nothing else is taken back.                                             *)
(***************************************************************************)
CONSTANTS Files, Contents, Absent

VARIABLES
  visible,  \* file -> what a reader finds
  stable,   \* file -> what a power failure at this moment may put in place of it
  asked     \* the write that is under way, as {<<file, contents>>}, or {}

Values == Contents \cup {Absent}

Init == visible \in [Files -> Values] /\ stable = [f \in Files |-> {visible[f]}] /\ asked = {}

\* The file of the write under way gets all of its new contents.
Replace ==
  /\ \E r \in asked : visible' = [visible EXCEPT ![r[1]] = r[2]]
  /\ UNCHANGED stable

\* A file is removed.
Remove(f) ==
  /\ visible' = [visible EXCEPT ![f] = Absent]
  /\ UNCHANGED stable

\* The directory entry of one file reaches the disk; what was never there on
\* the disk may still go back to being absent.
Settle(f) ==
  /\ \E rest \in SUBSET (stable[f] \cap {Absent}) :
       stable' = [stable EXCEPT ![f] = {visible[f]} \cup rest]
  /\ UNCHANGED visible

\* A power failure keeps or loses each replacement that was not durable.
Lose ==
  /\ \A f \in Files : visible'[f] \in {visible[f]} \cup stable[f]
  /\ stable' = [f \in Files |-> {visible'[f]}]

\* A write is asked for, returns or dies without a change to any file.
Ask == UNCHANGED <<visible, stable>>

Next ==
  /\ asked' \in SUBSET (Files \X Contents)
  /\ \/ Replace
     \/ \E f \in Files : Remove(f) \/ Settle(f)
     \/ Lose
     \/ Ask

Spec == Init /\ [][Next]_<<visible, stable, asked>>
=============================================================================
