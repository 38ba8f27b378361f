------------------------------ MODULE EtcHosts ------------------------------
(* The hosts file of one machine, written by the agents of its interfaces.   *)
(* Every line an agent manages ends with the banner of its interface; all    *)
(* other lines belong to somebody else.                                      *)
(*                                                                           *)
(* The file system is as WriteEntries uses it: a name leads to an inode, an  *)
(* open file stays with the inode it was opened on, and what has not been    *)
(* synced may be gone after a power loss.                                    *)
EXTENDS Integers, Sequences, SequencesExt

CONSTANTS
    Iface,          \* the agents, each with the banner of its interface
    HostsFile,      \* contents the file may have at first: sequences of lines
    HostsEntries,   \* what an agent may be told to write: functions address -> names
    MaxHostsWrite,  \* bound on the calls of WriteEntries
    MaxHostsFault   \* bound on failing steps, crashes and power losses

Nobody == "nobody"
Owner == Iface \cup {Nobody}
Line(a, ip, names) == [owner |-> a, ip |-> ip, names |-> names]

ASSUME HostsAssumption ==
    /\ Nobody \notin Iface
    /\ \A f \in HostsFile : f \in Seq(Range(f)) /\ \A l \in Range(f) : l.owner \in Owner
    /\ \A e \in HostsEntries : IsFiniteSet(DOMAIN e)
    /\ MaxHostsWrite \in Nat /\ MaxHostsFault \in Nat

VARIABLES
    renames,    \* whether rename works here as a rule: not on a bind mount, not on Windows
    data,       \* the lines of each inode
    synced,     \* the inodes whose lines are on the disk
    moded,      \* the inodes with the mode and owner of the hosts file
    etcHosts,   \* the inode the name of the hosts file leads to
    former,     \* the one it led to before the last rename
    temps,      \* temporary files in the directory
    hpc,        \* where each agent is in WriteEntries
    fd,         \* the inode it has opened
    tmp,        \* its temporary file
    entries,    \* ipsToNames
    hostsFaults,
    seen,       \* history: the file when it was opened
    mixed,      \* history: the agents whose call overlaps another's
    orphans,    \* history: temporary files of calls that were cut off
    theirs,     \* history: the lines that were nobody's at first
    refused,    \* history: a rename has failed, so that a copy was made
    harmed      \* history: calls overlapped, or one was cut off, while copying

setting == <<renames, theirs>>
disk == <<data, synced, moded>>
dir == <<etcHosts, former, temps>>
call == <<fd, tmp, entries>>
hostsPast == <<seen, mixed, orphans, refused, harmed>>
hostsVars == <<setting, disk, dir, hpc, call, hostsFaults, hostsPast>>

Busy(a) == hpc[a] # "idle"

(* The lines of a file that belong to these owners, in order.                *)
Lines(file, who) ==
    LET pick[n \in 0 .. Len(file)] ==
          IF n = 0 THEN <<>>
          ELSE IF file[n].owner \in who THEN Append(pick[n - 1], file[n])
          ELSE pick[n - 1]
    IN  pick[Len(file)]

Foreign(file) == Lines(file, {Nobody})

HostsInit ==
    /\ renames \in BOOLEAN
    /\ data \in {<<f>> : f \in HostsFile}
    /\ theirs = Foreign(data[1])
    /\ synced = {1} /\ moded = {1} /\ etcHosts = 1 /\ former = 1
    /\ temps = {} /\ orphans = {} /\ mixed = {} /\ refused = FALSE /\ harmed = FALSE
    /\ hpc = [a \in Iface |-> "idle"]
    /\ fd = [a \in Iface |-> 0]
    /\ tmp = [a \in Iface |-> 0]
    /\ entries = [a \in Iface |-> <<>>]
    /\ seen = [a \in Iface |-> <<>>]
    /\ hostsFaults = 0

-----------------------------------------------------------------------------
(* What the file becomes. *)

BugrewriteLine(a, e, out, line) ==
    IF line.owner # a THEN Append(out, line)
    ELSE IF line.ip \in DOMAIN e THEN Append(out, Line(a, line.ip, e[line.ip]))
    ELSE out

(* One line of the old file: another's is kept, ours is written anew the     *)
(* first time its address comes up, if the address is still wanted.          *)
rewriteLine(a, e, out, line) ==
    IF line.owner # a THEN Append(out, line)
    ELSE IF line.ip \in DOMAIN e /\ ~Contains(out, Line(a, line.ip, e[line.ip]))
    THEN Append(out, Line(a, line.ip, e[line.ip]))
    ELSE out

(* The lines an agent is told to have in the file.                           *)
Managed(a, e) == {Line(a, ip, e[ip]) : ip \in DOMAIN e}

(* The possible results: the entries that had no line come last, in the      *)
(* order in which a Go map happens to be walked.                             *)
writeEntries(a, file, e) ==
    LET keep[n \in 0 .. Len(file)] ==
          IF n = 0 THEN <<>> ELSE rewriteLine(a, e, keep[n - 1], file[n])
        kept == keep[Len(file)]
    IN  {kept \o rest : rest \in SetToSeqs(Managed(a, e) \ ToSet(kept))}

-----------------------------------------------------------------------------
(* WriteEntries, one step for each call that others can see. *)

(* The agents in done are not, or no longer, in a call.                      *)
Return(done) ==
    /\ hpc' = [a \in Iface |-> IF a \in done THEN "idle" ELSE hpc[a]]
    /\ fd' = [a \in Iface |-> IF a \in done THEN 0 ELSE fd[a]]
    /\ tmp' = [a \in Iface |-> IF a \in done THEN 0 ELSE tmp[a]]
    /\ entries' = [a \in Iface |-> IF a \in done THEN <<>> ELSE entries[a]]
    /\ seen' = [a \in Iface |-> IF a \in done THEN <<>> ELSE seen[a]]
    /\ mixed' = mixed \ done

HostsFault == hostsFaults < MaxHostsFault /\ hostsFaults' = hostsFaults + 1

HostsStep(a, from, to) == hpc[a] = from /\ hpc' = [hpc EXCEPT ![a] = to]

OpenHosts(a) ==
    /\ HostsStep(a, "idle", "open")
    /\ Len(data) <= MaxHostsWrite
    /\ \E e \in HostsEntries : entries' = [entries EXCEPT ![a] = e]
    /\ fd' = [fd EXCEPT ![a] = etcHosts]
    /\ seen' = [seen EXCEPT ![a] = data[etcHosts]]
    /\ LET others == {b \in Iface \ {a} : Busy(b)}
       IN  /\ mixed' = mixed \cup others \cup (IF others = {} THEN {} ELSE {a})
           /\ harmed' = (harmed \/ others # {})
    /\ UNCHANGED <<setting, disk, dir, tmp, hostsFaults, orphans, refused>>

(* CreateTemp, and the new contents read from the open file.                 *)
WriteTemp(a) ==
    /\ HostsStep(a, "open", "written")
    /\ \E new \in writeEntries(a, data[fd[a]], entries[a]) : data' = Append(data, new)
    /\ tmp' = [tmp EXCEPT ![a] = Len(data')]
    /\ temps' = temps \cup {Len(data')}
    /\ UNCHANGED <<setting, synced, moded, etcHosts, former, fd, entries, hostsFaults, hostsPast>>

BugSyncTemp(a) ==
    /\ HostsStep(a, "written", "synced")
    /\ moded' = moded \cup {tmp[a]}
    /\ UNCHANGED <<setting, data, synced, dir, call, hostsFaults, hostsPast>>

(* Sync, then the mode and, where possible, the owner of the hosts file.     *)
SyncTemp(a) ==
    /\ HostsStep(a, "written", "synced")
    /\ synced' = synced \cup {tmp[a]}
    /\ moded' = moded \cup {tmp[a]}
    /\ UNCHANGED <<setting, data, dir, call, hostsFaults, hostsPast>>

Rename(a) ==
    /\ renames
    /\ HostsStep(a, "synced", "done")
    /\ etcHosts' = tmp[a]
    /\ former' = etcHosts
    /\ temps' = temps \ {tmp[a]}
    /\ UNCHANGED <<setting, disk, call, hostsFaults, hostsPast>>

(* A rename that fails, where it never works or just this time, sends the    *)
(* call into the copy.                                                       *)
RenameRefused(a) ==
    /\ HostsStep(a, "synced", "truncate")
    /\ \/ ~renames /\ UNCHANGED hostsFaults
       \/ renames /\ HostsFault
    /\ refused' = TRUE
    /\ UNCHANGED <<setting, disk, dir, call, seen, mixed, orphans, harmed>>

Truncate(a) ==
    /\ HostsStep(a, "truncate", "copy")
    /\ data' = [data EXCEPT ![fd[a]] = <<>>]
    /\ synced' = synced \ {fd[a]}
    /\ UNCHANGED <<setting, moded, dir, call, hostsFaults, hostsPast>>

(* Written from the start of the file over what is there.                    *)
CopyBack(a) ==
    /\ HostsStep(a, "copy", "flush")
    /\ LET new == data[tmp[a]]
           old == data[fd[a]]
       IN  data' = [data EXCEPT ![fd[a]] = new \o SubSeq(old, Len(new) + 1, Len(old))]
    /\ UNCHANGED <<setting, synced, moded, dir, call, hostsFaults, hostsPast>>

SyncHosts(a) ==
    /\ HostsStep(a, "flush", "done")
    /\ synced' = synced \cup {fd[a]}
    /\ UNCHANGED <<setting, data, moded, dir, call, hostsFaults, hostsPast>>

BugRemoveTemp(a) ==
    /\ hpc[a] \in {"done", "failed"}
    /\ Return({a})
    /\ temps' = IF hpc[a] = "done" THEN temps \ {tmp[a]} ELSE temps
    /\ UNCHANGED <<setting, disk, etcHosts, former, hostsFaults, orphans, refused, harmed>>

(* The deferred calls: the temporary file goes, however the call ended.      *)
RemoveTemp(a) ==
    /\ hpc[a] \in {"done", "failed"}
    /\ Return({a})
    /\ temps' = temps \ {tmp[a]}
    /\ UNCHANGED <<setting, disk, etcHosts, former, hostsFaults, orphans, refused, harmed>>

-----------------------------------------------------------------------------
(* What else goes wrong. *)

Copying(a) == hpc[a] \in {"copy", "flush"}

(* A step returns an error: no temporary file, a line too long to scan, a    *)
(* full disk.  What has been done stays done; of a rename see RenameRefused. *)
WriteFails(a) ==
    /\ HostsFault
    /\ hpc[a] \in {"open", "written", "truncate", "copy", "flush"}
    /\ hpc' = [hpc EXCEPT ![a] = "failed"]
    /\ harmed' = (harmed \/ Copying(a))
    /\ UNCHANGED <<setting, disk, dir, call, seen, mixed, orphans, refused>>

HostsCrash(a) ==
    /\ HostsFault /\ Busy(a)
    /\ Return({a})
    /\ orphans' = orphans \cup (temps \cap {tmp[a]})
    /\ harmed' = (harmed \/ Copying(a))
    /\ UNCHANGED <<setting, disk, dir, refused>>

(* The last rename may not have reached the disk, and of a file that was not *)
(* synced any part may be missing.                                           *)
PowerLoss ==
    /\ HostsFault
    /\ Return(Iface)
    /\ \E intact \in {synced, DOMAIN data} :
          data' = [i \in DOMAIN data |-> IF i \in intact THEN data[i] ELSE <<>>]
    /\ \E i \in {etcHosts, former} : etcHosts' = i /\ former' = i
    /\ synced' = DOMAIN data
    /\ orphans' = orphans \cup temps
    /\ harmed' = (harmed \/ \E a \in Iface : Copying(a))
    /\ UNCHANGED <<setting, moded, temps, refused>>

HostsNext ==
    \/ \E a \in Iface :
          \/ OpenHosts(a) \/ WriteTemp(a) \/ SyncTemp(a)
          \/ Rename(a) \/ RenameRefused(a)
          \/ Truncate(a) \/ CopyBack(a) \/ SyncHosts(a) \/ RemoveTemp(a)
          \/ WriteFails(a) \/ HostsCrash(a)
    \/ PowerLoss

HostsSpec == HostsInit /\ [][HostsNext]_hostsVars

-----------------------------------------------------------------------------
(* Whoever reads the hosts file finds every line that is nobody's, in order, *)
(* in a file with the mode it had: at any moment as long as no rename fails, *)
(* crashes and power losses included, and after one has failed except during *)
(* a copy, as long as no call was cut off in one and none overlapped another *)
(* (WriteEntries: "Lines without the banner are kept as they are").          *)
ForeignKept ==
    ~refused \/ (~harmed /\ \A a \in Iface : ~Copying(a)) =>
        /\ Foreign(data[etcHosts]) = theirs
        /\ etcHosts \in moded

NotOf(a, file) == Lines(file, Owner \ {a})
Block(a, file) == Lines(file, {a})

(* The file is the one agent a has read, with the block of a made anew.      *)
Exact(a, file) ==
    /\ NotOf(a, file) = NotOf(a, seen[a])
    /\ ToSet(Block(a, file)) = Managed(a, entries[a])
    /\ IsInjective(Block(a, file))

(* A call that ends well, and that no other overlapped, has made the block   *)
(* of its interface exactly the entries, one line each, whatever was left    *)
(* there by calls that were cut off, and changed no other line, those of the *)
(* other interfaces included (hostsFor: they "only ever touch their own      *)
(* entries").                                                                *)
WriteIsExact ==
    \A a \in Iface : hpc[a] = "done" /\ a \notin mixed => Exact(a, data[etcHosts])

(* A temporary file in the directory belongs to a call that is under way or  *)
(* to one that was cut off: no error path leaves one behind (the deferred    *)
(* os.Remove in WriteEntries).                                               *)
NoStrayTemp ==
    \A i \in temps \ orphans : \E a \in Iface : Busy(a) /\ tmp[a] = i
=============================================================================
