---------------------------- MODULE MCRegionScan ----------------------------
(***************************************************************************)
(* Instances of XorKeys, and of RegionScan in it, for TLC: pages of two    *)
(* slots, chunks of two pages, neighbouring mappings with different        *)
(* rights, and values of two bits, one of them twice as frequent.          *)
(***************************************************************************)
EXTENDS XorKeys, Bitwise

MCXor(a, b) == a ^^ b
MCContent(a) == <<1, 2, 1, 0>>[1 + ((a \div 2) % 4)]

Mapped(start, end, rights) == [start |-> start, end |-> end, r |-> "r" \in rights,
                               w |-> "w" \in rights, kernel |-> "k" \in rights]

MCMaps == << Mapped(4, 16, {"r", "w"}),
             Mapped(16, 20, {"w"}),
             Mapped(20, 24, {"r", "k"}),
             Mapped(24, 28, {"r"}),
             Mapped(28, 36, {"r", "w"}) >>
=============================================================================
