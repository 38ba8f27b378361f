------------------------------- MODULE MCHost -------------------------------
(* The parts of one host around the agent.  They share no state, so each     *)
(* behaviour is one of one part, while the others stay as they began:        *)
(* interleaving them would add states and nothing to see.                    *)
EXTENDS EtcHosts, StateFile, Device, Config, Overlay, WindowsService

VARIABLE part

o == Line(Nobody, "0", "localhost")
p == Line(Nobody, "9", "printer")
MCHostsFile == {<<Line("x", "2", "b"), o, Line("y", "1", "c"), Line("x", "2", "b"), p>>}
MCHostsEntries == {<<>>, ("2" :> "b") @@ ("1" :> "a")}

MCAdvertised == [n \in Node |-> IF n = "p" THEN {"net"} ELSE {"lan"}]

MCDefault == [port |-> "51820", net |-> "", userspace |-> "false"]
MCZero == [port |-> "0", net |-> "", userspace |-> "false"]
MCGiven == {<<>>, "port" :> "1", ("net" :> "n") @@ ("userspace" :> "true")}
MCInitialFile == {<<>>, <<Sect("b", "port" :> "2")>>,
                  <<Sect("b", ("net" :> "m") @@ ("userspace" :> "true")),
                    Sect("c", ("net" :> "m") @@ ("port" :> "51820"))>>}
MCKnown == [i \in ConfigIface |-> IF i = "b" THEN "k" ELSE ""]

MCBase6 == {0, 2^Word, 2^(2 * Word) - 1}

HostInit ==
    /\ part \in {"hosts", "state", "device", "config", "overlay", "service"}
    /\ HostsInit /\ StateInit /\ DeviceInit /\ ConfigInit /\ OverlayInit /\ ServiceInit
    /\ part # "hosts" => ~renames
    /\ part # "state" => os = "unix"
    /\ part # "device" => plat = "kernel" /\ own = "a"
    /\ part # "config" => /\ cfgFile = <<>>
                          /\ args = [c \in Cmd |-> [arg |-> NoName, given |-> <<>>]]
    /\ part # "overlay" => overlayNet = [addr |-> 0, bits |-> 0, is4 |-> TRUE]

HostNext ==
    /\ UNCHANGED <<part, overlayNet>>
    /\ \/ part = "hosts" /\ HostsNext /\ UNCHANGED <<stateVars, deviceVars, configVars, serviceVars>>
       \/ part = "state" /\ StateNext /\ UNCHANGED <<hostsVars, deviceVars, configVars, serviceVars>>
       \/ part = "device" /\ DeviceNext /\ UNCHANGED <<hostsVars, stateVars, configVars, serviceVars>>
       \/ part = "config" /\ ConfigNext /\ UNCHANGED <<hostsVars, stateVars, deviceVars, serviceVars>>
       \/ part = "service" /\ ServiceNext /\ UNCHANGED <<hostsVars, stateVars, deviceVars, configVars>>

hostVars == <<part, hostsVars, stateVars, deviceVars, configVars, serviceVars, overlayNet>>

(* The fairness of StateFairSpec and of ServiceSpec.                         *)
HostSpec ==
    /\ HostInit /\ [][HostNext]_hostVars
    /\ WF_hostVars(part = "state" /\ SaveGoesOn /\ HostNext)
    /\ WF_hostVars(part = "service" /\ HandlerStep /\ HostNext)
    /\ WF_hostVars(part = "service" /\ AgentStep /\ HostNext)
=============================================================================
