------------------------------- MODULE Config -------------------------------
(* The config file: how a command settles its settings from it, how          *)
(* "config --init" adds a section to it while others do the same, and what   *)
(* "config" prints.                                                          *)
EXTENDS Naturals, Sequences, SequencesExt

CONSTANTS
    Setting,        \* the flags a section may hold
    Default,        \* the value each has when nothing sets it (defaultSettings)
    Zero,           \* the value that section's omitempty leaves out
    Given,          \* what a command line may set: functions from settings to values
    ConfigIface,    \* interfaces; DefaultInterface is one of them
    DefaultInterface,
    InitialFile,    \* what the package may ship, or an operator have written
    Known,          \* KnownOverlayNet of each interface, Zero["net"] when there is none
    Cmd             \* the "config --init" commands

NoName == "none"

ASSUME ConfigAssumption ==
    /\ "net" \in Setting /\ Default["net"] = Zero["net"]
    /\ DefaultInterface \in ConfigIface /\ NoName \notin ConfigIface
    /\ \A f \in InitialFile : f \in Seq(Range(f)) /\ \A x \in Range(f) : x.iface \in ConfigIface

VARIABLES
    cfgFile,    \* its sections in order, each with its interface and its values
    cpc,        \* where each command is
    args,       \* its --interface and the settings on its command line
    iface,      \* the interface it acts on
    rendered,   \* the section it writes
    wants       \* history: what an agent with this command line would run with

configVars == <<cfgFile, cpc, args, iface, rendered, wants>>

Sect(i, v) == [iface |-> i, values |-> v]
Named(sections) == {s.iface : s \in Range(sections)}

(* parseSections: a file with two sections of one name does not decode.      *)
Parses(sections) == \A j, k \in 1 .. Len(sections) : sections[j].iface = sections[k].iface => j = k
sectionNamed(sections, i) ==
    IF i \in Named(sections) THEN (CHOOSE s \in Range(sections) : s.iface = i).values ELSE <<>>

(* selectSection: what --interface said, or the only one there is.           *)
selectSection(sections, arg) ==
    CASE arg # NoName -> [name |-> arg, ambiguous |-> FALSE]
      [] arg = NoName /\ Len(sections) = 1 -> [name |-> sections[1].iface, ambiguous |-> FALSE]
      [] OTHER -> [name |-> NoName, ambiguous |-> Len(sections) > 1]

(* Resolve: the command line, then the section, then the flag's default.     *)
Resolve(sections, name, given) ==
    [s \in Setting |->
        CASE s \in DOMAIN given -> given[s]
          [] s \notin DOMAIN given /\ s \in DOMAIN sectionNamed(sections, name) ->
                sectionNamed(sections, name)[s]
          [] OTHER -> Default[s]]

(* What the agent runs with, where the cluster's network stands in for none. *)
settleOverlayNet(i, v) == IF v["net"] = Zero["net"] THEN [v EXCEPT !["net"] = Known[i]] ELSE v
Runs(sections, i, given) == settleOverlayNet(i, Resolve(sections, i, given))

-----------------------------------------------------------------------------
(* What is written. *)

(* yaml leaves out what is empty.                                            *)
encode(v) == [s \in {t \in DOMAIN v : v[t] # Zero[t]} |-> v[s]]

sectionFor(v) == encode([s \in {t \in Setting : v[t] # Default[t]} |-> v[s]])

withNet(i, v) ==
    IF "net" \in DOMAIN v \/ Known[i] = Zero["net"] THEN v
    ELSE [s \in DOMAIN v \cup {"net"} |-> IF s = "net" THEN Known[i] ELSE v[s]]

render(i, v) == withNet(i, sectionFor(v))

(* "config" with several sections: each as the file holds it (sectionOf).    *)
BugrenderAll(sections) ==
    [k \in DOMAIN sections |->
        LET i == sections[k].iface
            known == IF Known[i] = Zero["net"] THEN <<>> ELSE "net" :> Known[i]
        IN Sect(i, known @@ encode(sections[k].values))]

renderAll(sections) ==
    [k \in DOMAIN sections |->
        Sect(sections[k].iface, withNet(sections[k].iface, encode(sections[k].values)))]

(* What "config" prints when it names no interface and sets nothing else.    *)
dump(sections) ==
    IF Len(sections) > 1 THEN renderAll(sections)
    ELSE LET name == selectSection(sections, NoName).name
             i == IF name = NoName THEN DefaultInterface ELSE name
         IN <<Sect(i, render(i, Resolve(sections, i, <<>>)))>>

-----------------------------------------------------------------------------
ConfigInit ==
    /\ cfgFile \in InitialFile
    /\ cpc = [c \in Cmd |-> "idle"]
    /\ args \in [Cmd -> [arg : ConfigIface \cup {NoName}, given : Given]]
    /\ iface = [c \in Cmd |-> NoName]
    /\ rendered = [c \in Cmd |-> <<>>]
    /\ wants = [c \in Cmd |-> <<>>]

(* The command line is parsed, for which the file is read; the config        *)
(* command goes on when it is ambiguous, with the default interface.         *)
ParseArgs(c) ==
    /\ cpc[c] = "idle"
    /\ LET sel == selectSection(cfgFile, args[c].arg)
           i == IF sel.name = NoName THEN DefaultInterface ELSE sel.name
           v == Resolve(cfgFile, sel.name, args[c].given)
       IN IF ~Parses(cfgFile) THEN cpc' = [cpc EXCEPT ![c] = "failed"] /\ UNCHANGED <<iface, rendered, wants>>
          ELSE /\ cpc' = [cpc EXCEPT ![c] = "parsed"]
               /\ iface' = [iface EXCEPT ![c] = i]
               /\ rendered' = [rendered EXCEPT ![c] = render(i, v)]
               /\ wants' = [wants EXCEPT ![c] = settleOverlayNet(i, v)]
    /\ UNCHANGED <<cfgFile, args>>

(* write reads the file again and refuses a section that is there.           *)
ReadExisting(c) ==
    /\ cpc[c] = "parsed"
    /\ cpc' = [cpc EXCEPT ![c] = IF Parses(cfgFile) /\ iface[c] \notin Named(cfgFile) THEN "clear"
                                 ELSE "failed"]
    /\ UNCHANGED <<cfgFile, args, iface, rendered, wants>>

BugappendSection(c) ==
    /\ cpc[c] = "clear"
    /\ \E n \in 0 .. Len(cfgFile) :
          cfgFile' = Append(SubSeq(cfgFile, 1, n), Sect(iface[c], rendered[c]))
    /\ cpc' = [cpc EXCEPT ![c] = "done"]
    /\ UNCHANGED <<args, iface, rendered, wants>>

(* The file is open for appending, whatever has been added to it since.      *)
appendSection(c) ==
    /\ cpc[c] = "clear"
    /\ cfgFile' = Append(cfgFile, Sect(iface[c], rendered[c]))
    /\ cpc' = [cpc EXCEPT ![c] = "done"]
    /\ UNCHANGED <<args, iface, rendered, wants>>

(* MkdirAll, OpenFile or the write fails before anything is written.         *)
WriteConfigFails(c) ==
    /\ cpc[c] = "clear"
    /\ cpc' = [cpc EXCEPT ![c] = "failed"]
    /\ UNCHANGED <<cfgFile, args, iface, rendered, wants>>

ConfigNext ==
    \E c \in Cmd : ParseArgs(c) \/ ReadExisting(c) \/ appendSection(c) \/ WriteConfigFails(c)

ConfigSpec == ConfigInit /\ [][ConfigNext]_configVars

-----------------------------------------------------------------------------
(* An agent that names its interface runs, after a successful "config        *)
(* --init" with some settings, with what it would have run with when given   *)
(* these settings itself, whatever other commands add to the file meanwhile; *)
(* as long as no two add the same interface, which leaves a file that no     *)
(* command can read (write).                                                 *)
InitIsRoundTrip ==
    (\A c, d \in Cmd : c # d => iface[c] # iface[d] \/ iface[c] = NoName) =>
        /\ Parses(cfgFile)
        /\ \A c \in Cmd : cpc[c] = "done" => Runs(cfgFile, iface[c], <<>>) = wants[c]

(* What "config" prints would, as a config file, make the agent of each      *)
(* interface in it run as it does now (dump: "reports its settings as the    *)
(* agent would settle them").                                                *)
DumpIsFaithful ==
    Parses(cfgFile) =>
        \A i \in Named(dump(cfgFile)) : Runs(dump(cfgFile), i, <<>>) = Runs(cfgFile, i, <<>>)
=============================================================================
