----------------------------- MODULE StateFile -----------------------------
(* The state file of one interface: save writes a temporary file and moves   *)
(* it over the old one, while the status command reads, leave --force        *)
(* deletes, and the machine or the agent may stop at any point.  Windows     *)
(* refuses to replace or delete a file that is open, and save keeps trying   *)
(* for a while.                                                              *)
(*                                                                           *)
(* Every save is a version of its own and has an inode of its own, so a      *)
(* version number stands for both.  Saves of one agent follow one another    *)
(* (Cluster.stateMu).                                                        *)
EXTENDS Naturals

CONSTANTS
    Reader,         \* processes that read the file
    BusyTries,      \* how often an operation is tried again within busyWait
    MaxSave,        \* bound on the saves
    MaxStateFault   \* bound on failing steps, crashes and power losses

ASSUME StateAssumption ==
    /\ BusyTries \in Nat
    /\ MaxSave \in Nat
    /\ MaxStateFault \in Nat

VARIABLES
    os,         \* "windows" or "unix"
    stateFile,  \* the inode the name of the file leads to, 0 when there is none
    before,     \* the one it led to before the last change
    highest,    \* history: the newest version that has been the file
    whole,      \* inodes with all of their version in them
    flushed,    \* inodes whose contents are on the disk
    version,    \* the version being saved, or the last one
    spc,        \* where save is
    tries,
    rpc,        \* where each reader is in loadState
    opened,     \* the inode it has open
    got,        \* what it has read
    during,     \* history: what the file was while it read
    stateFaults

names == <<stateFile, before, highest>>
contents == <<whole, flushed>>
saver == <<version, spc, tries>>
readers == <<rpc, opened, got, during>>
stateVars == <<os, names, contents, saver, readers, stateFaults>>

Version == 0 .. MaxSave
Damaged == MaxSave + 1

(* What a process that reads inode v finds: json.Unmarshal fails on part of  *)
(* a version, and no file is no version.                                     *)
Decoded(v) == IF v = 0 \/ v \in whole THEN v ELSE Damaged

SaveStage == {"idle", "temp", "written", "synced", "done"}

StateTypeOK ==
    /\ os \in {"windows", "unix"}
    /\ stateFile \in Version /\ before \in Version /\ highest \in Version
    /\ whole \subseteq Version \ {0}
    /\ flushed \subseteq Version
    /\ version \in Version
    /\ spc \in SaveStage
    /\ tries \in 0 .. BusyTries
    /\ rpc \in [Reader -> {"idle", "open", "read"}]
    /\ opened \in [Reader -> Version]
    /\ got \in [Reader -> Version \cup {Damaged}]
    /\ during \in [Reader -> SUBSET Version]
    /\ stateFaults \in 0 .. MaxStateFault

StateInit ==
    /\ os \in {"windows", "unix"}
    /\ stateFile = 0 /\ before = 0 /\ highest = 0
    /\ whole = {} /\ flushed = {}
    /\ version = 0 /\ spc = "idle" /\ tries = 0
    /\ rpc = [r \in Reader |-> "idle"]
    /\ opened = [r \in Reader |-> 0]
    /\ got = [r \in Reader |-> 0]
    /\ during = [r \in Reader |-> {}]
    /\ stateFaults = 0

(* The name leads to another inode: readers under way may see either.        *)
Repoint(v) ==
    /\ stateFile' = v
    /\ during' = [r \in Reader |-> IF rpc[r] = "open" THEN during[r] \cup {v} ELSE during[r]]
    /\ UNCHANGED <<rpc, opened, got>>

(* Windows refuses: somebody has the file open (replace, os.Remove).         *)
InUse == os = "windows" /\ \E r \in Reader : rpc[r] = "open" /\ opened[r] = stateFile

-----------------------------------------------------------------------------
(* save *)

SaveStep(from, to) == spc = from /\ spc' = to

(* MkdirAll, Marshal and CreateTemp.                                         *)
BeginSave ==
    /\ version < MaxSave
    /\ SaveStep("idle", "temp")
    /\ version' = version + 1
    /\ tries' = 0
    /\ UNCHANGED <<os, names, contents, readers, stateFaults>>

WriteState ==
    /\ SaveStep("temp", "written")
    /\ whole' = whole \cup {version}
    /\ UNCHANGED <<os, names, flushed, version, tries, readers, stateFaults>>

BugSyncState ==
    /\ SaveStep("written", "synced")
    /\ UNCHANGED <<os, names, contents, version, tries, readers, stateFaults>>

SyncState ==
    /\ SaveStep("written", "synced")
    /\ flushed' = flushed \cup {version}
    /\ UNCHANGED <<os, names, whole, version, tries, readers, stateFaults>>

BugReplace ==
    /\ spc \in {"temp", "written", "synced"} /\ spc' = "done"
    /\ ~InUse
    /\ Repoint(version)
    /\ before' = stateFile
    /\ highest' = version
    /\ UNCHANGED <<os, contents, version, tries, stateFaults>>

Replace ==
    /\ SaveStep("synced", "done")
    /\ ~InUse
    /\ Repoint(version)
    /\ before' = stateFile
    /\ highest' = version
    /\ UNCHANGED <<os, contents, version, tries, stateFaults>>

BugretryBusy ==
    /\ spc = "synced" /\ InUse
    /\ tries' = IF tries < BusyTries THEN tries + 1 ELSE 0
    /\ UNCHANGED <<os, names, contents, version, spc, readers, stateFaults>>

(* The file is in use: try again, or give up once busyWait has passed.       *)
retryBusy ==
    /\ spc = "synced" /\ InUse
    /\ \/ tries < BusyTries /\ tries' = tries + 1 /\ UNCHANGED spc
       \/ tries = BusyTries /\ spc' = "done" /\ UNCHANGED tries
    /\ UNCHANGED <<os, names, contents, version, readers, stateFaults>>

(* save returns; its deferred call removes the temporary file if it is still *)
(* there.                                                                    *)
EndSave ==
    /\ SaveStep("done", "idle")
    /\ UNCHANGED <<os, names, contents, version, tries, readers, stateFaults>>

SaveGoesOn == WriteState \/ SyncState \/ Replace \/ retryBusy \/ EndSave

-----------------------------------------------------------------------------
(* Readers, and leave --force. *)

(* loadState with a file that is not there returns at once: an empty state.  *)
OpenState(r) ==
    /\ rpc[r] = "idle"
    /\ rpc' = [rpc EXCEPT ![r] = IF stateFile = 0 THEN "read" ELSE "open"]
    /\ opened' = [opened EXCEPT ![r] = stateFile]
    /\ got' = [got EXCEPT ![r] = 0]
    /\ during' = [during EXCEPT ![r] = {stateFile}]
    /\ UNCHANGED <<os, names, contents, saver, stateFaults>>

ReadState(r) ==
    /\ rpc[r] = "open"
    /\ rpc' = [rpc EXCEPT ![r] = "read"]
    /\ got' = [got EXCEPT ![r] = Decoded(opened[r])]
    /\ UNCHANGED <<os, names, contents, saver, opened, during, stateFaults>>

EndRead(r) ==
    /\ rpc[r] = "read"
    /\ rpc' = [rpc EXCEPT ![r] = "idle"]
    /\ opened' = [opened EXCEPT ![r] = 0]
    /\ got' = [got EXCEPT ![r] = 0]
    /\ during' = [during EXCEPT ![r] = {}]
    /\ UNCHANGED <<os, names, contents, saver, stateFaults>>

Forget ==
    /\ stateFile # 0 /\ ~InUse
    /\ Repoint(0)
    /\ before' = stateFile
    /\ UNCHANGED <<os, highest, contents, saver, stateFaults>>

-----------------------------------------------------------------------------
(* What goes wrong. *)

StateFault == stateFaults < MaxStateFault /\ stateFaults' = stateFaults + 1

(* A step of save returns an error, or the agent dies in it: what it has     *)
(* done to its temporary file stays.                                         *)
SaveCut ==
    /\ StateFault
    /\ \/ spc \in {"temp", "written", "synced"} /\ spc' = "done"
       \/ spc # "idle" /\ spc' = "idle"
    /\ UNCHANGED <<os, names, contents, version, tries, readers>>

(* The last rename or removal may not have reached the disk; of a file that  *)
(* was not synced any part may be missing.                                   *)
StateLost ==
    /\ StateFault
    /\ \E v \in {stateFile, before} : stateFile' = v /\ before' = v
    /\ \E kept \in {whole, whole \cap flushed} : whole' = kept
    /\ spc' = "idle"
    /\ rpc' = [r \in Reader |-> "idle"]
    /\ opened' = [r \in Reader |-> 0]
    /\ got' = [r \in Reader |-> 0]
    /\ during' = [r \in Reader |-> {}]
    /\ UNCHANGED <<os, highest, flushed, version, tries>>

StateNext ==
    \/ BeginSave \/ SaveGoesOn \/ Forget \/ SaveCut \/ StateLost
    \/ \E r \in Reader : OpenState(r) \/ ReadState(r) \/ EndRead(r)

StateSpec == StateInit /\ [][StateNext]_stateVars

(* The goroutine that saves runs; nothing is assumed of readers, which may   *)
(* keep the file open for ever.                                              *)
StateFairSpec == StateSpec /\ WF_stateVars(SaveGoesOn)

-----------------------------------------------------------------------------
(* A reader sees the old file or the new one, never a truncated one: what it *)
(* has read is a version, or the absence of one, that was in place at some   *)
(* moment of its read (save, loadState).                                     *)
ReadsAreAtomic ==
    \A r \in Reader : rpc[r] = "read" => got[r] \in during[r]

(* What makes that so, and what survives a power loss: whatever the name     *)
(* leads to, or led to before, is whole and on the disk, and a version that  *)
(* has never been the file is newer than all that have.                      *)
StateInv ==
    /\ StateTypeOK
    /\ {stateFile, before} \subseteq {0} \cup (whole \cap flushed)
    /\ highest <= version
    /\ spc \in {"temp", "written", "synced"} => highest < version
    /\ spc = "written" => version \in whole
    /\ spc = "synced" => version \in whole \cap flushed
    /\ \A r \in Reader : rpc[r] = "open" => opened[r] \in (whole \cap during[r]) \ {0}
    /\ ReadsAreAtomic

(* The file is the register the rest of the program takes it for, whatever   *)
(* fails or stops in the middle of a save (save: "a restart after a crash    *)
(* mid-write" sees the old file or the new one).                             *)
Register == INSTANCE AtomicFile WITH
                file <- Decoded(stateFile), prior <- Decoded(before), newest <- highest
ImplementsRegister == Register!Spec

(* A save ends, one way or the other, even if a reader keeps the file open   *)
(* for ever (retryBusy).                                                     *)
SaveEnds == spc # "idle" ~> spc = "idle"
=============================================================================
