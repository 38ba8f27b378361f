------------------------------ MODULE Overlay ------------------------------
(* The address of a slot inside the overlay network (MaxHost, Addr), and the *)
(* check that the network has room for two nodes.  The widths of the         *)
(* addresses and of the machine word are parameters, in the proportion of    *)
(* 32, 128 and 64 bits: an IPv4 address fits in a word with room to spare,   *)
(* an IPv6 address is two words, and shifts and subtractions wrap at the     *)
(* word.                                                                     *)
EXTENDS Naturals, FiniteSets

CONSTANTS
    Width4,     \* bits of an IPv4 address
    Word,       \* bits of a uint64; an IPv6 address has twice as many
    Base6       \* the IPv6 addresses a network is given by

pow2[n \in Nat] == IF n = 0 THEN 1 ELSE 2 * pow2[n - 1]

ASSUME OverlayAssumption ==
    /\ Width4 \in Nat \ {0} /\ Word \in Nat /\ Width4 < Word
    /\ Base6 \subseteq 0 .. pow2[2 * Word] - 1

VARIABLE
    overlayNet  \* AgentCmd.OverlayNet: a base address, a length and a family

BitLen(p) == IF p.is4 THEN Width4 ELSE 2 * Word
Wrap(n) == n % pow2[Word]

(* Go's | on words of so many bits.                                          *)
Bit(x, i) == (x \div pow2[i]) % 2 = 1
Or(x, y, width) ==
    CHOOSE z \in 0 .. pow2[width] - 1 :
        \A i \in 0 .. width - 1 : Bit(z, i) <=> Bit(x, i) \/ Bit(y, i)

HostBits(p) == BitLen(p) - p.bits
Masked(p) == p.addr - (p.addr % pow2[HostBits(p)])

BugMaxHost(p) ==
    IF HostBits(p) >= Word THEN pow2[Word] - 2
    ELSE Wrap(Wrap(pow2[HostBits(p)]) + pow2[Word] - 1)

(* The shift by as many bits as the word has would give 0, and one less the  *)
(* largest word.                                                             *)
MaxHost(p) ==
    IF HostBits(p) >= Word THEN pow2[Word] - 2
    ELSE LET top == Wrap(Wrap(pow2[HostBits(p)]) + pow2[Word] - 1)
         IN IF p.is4 /\ top > 0 THEN top - 1 ELSE top

NoAddr == pow2[2 * Word]

(* uint32(host) for IPv4; the lower word of an IPv6 address, or'ed with it.  *)
Addr(p, host) ==
    IF host = 0 \/ host > MaxHost(p) THEN NoAddr
    ELSE IF p.is4 THEN Or(Masked(p), host % pow2[Width4], Width4)
    ELSE (Masked(p) - (Masked(p) % pow2[Word])) + Or(Masked(p) % pow2[Word], host, Word)

checkOverlayNet(p) == MaxHost(p) >= 2

Networks ==
    [addr : 0 .. pow2[Width4] - 1, bits : 0 .. Width4, is4 : {TRUE}] \cup
    [addr : Base6, bits : 0 .. 2 * Word, is4 : {FALSE}]

OverlayInit == overlayNet \in Networks

(* Of every network, the slots from 1 to MaxHost have addresses, all of them *)
(* different, inside it, and neither the network's own address nor, for      *)
(* IPv4, its broadcast address; no other slot has one; and one that          *)
(* checkOverlayNet accepts has room for two nodes (overlay.go).              *)
SlotsHaveAddresses ==
    LET p == overlayNet
        Slots == {h \in 0 .. pow2[Word] - 1 : Addr(p, h) # NoAddr}
        Used == {Addr(p, h) : h \in Slots}
    IN /\ Slots = 1 .. MaxHost(p)
       /\ Cardinality(Used) = Cardinality(Slots)
       /\ \A a \in Used : a > Masked(p) /\ a < Masked(p) + pow2[HostBits(p)]
       /\ p.is4 => Masked(p) + pow2[HostBits(p)] - 1 \notin Used
       /\ checkOverlayNet(p) => {1, 2} \subseteq Slots
=============================================================================
