----------------------------- MODULE AtomicFile -----------------------------
(* What the state file is to its readers: a register that holds a whole      *)
(* version or nothing, is replaced by newer versions only, and falls back to *)
(* what it held before when the power fails before the last change has       *)
(* reached the disk.  Enrol, Gossip and Agent save in one step, as Replace   *)
(* does, but have no Lose: their crashes are the process's, not the power's. *)
EXTENDS Naturals

VARIABLES
    file,       \* the version in the file, 0 when there is none
    newest,     \* the newest version that has been in it
    prior       \* what it held before the last change

fileVars == <<file, newest, prior>>

Init == file = 0 /\ newest = 0 /\ prior = 0

Replace ==
    /\ file' \in Nat
    /\ file' > newest
    /\ newest' = file'
    /\ prior' = file

Delete == file' = 0 /\ prior' = file /\ UNCHANGED newest

Lose == file' \in {file, prior} /\ prior' = file' /\ UNCHANGED newest

Next == Replace \/ Delete \/ Lose

Spec == Init /\ [][Next]_fileVars
=============================================================================
