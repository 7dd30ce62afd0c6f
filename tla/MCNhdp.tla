------------------------------- MODULE MCNhdp -------------------------------
(* Instances of Nhdp for TLC: sets of HELLOs that make the interesting     *)
(* cases happen, one set per run.                                          *)
EXTENDS Nhdp, TLC

CONSTANTS
    i1, i2,  \* interfaces
    o,       \* our own address on every interface
    a, b, c, \* addresses of the nodes around us
    x, y     \* originators

Symmetry == Permutations(Neighs) \cup Permutations(Links)

Four == [z \in Addrs |-> 4]
FourSix == [z \in Addrs |-> IF z \in {b, y} THEN 6 ELSE 4]
OwnO == [i \in Ifs |-> {o}]

This(z) == [addr |-> z, lif |-> "this", ls |-> "none", on |-> "none", bad |-> "no"]
Other(z) == [This(z) EXCEPT !.lif = "other"]
OurAddr(ls) == [This(o) EXCEPT !.lif = "none", !.ls = ls]
Twohop(z, on) == [This(z) EXCEPT !.lif = "none", !.on = on]

Hello(i, src, orig, addrs) ==
    [localif |-> i, src |-> src, af |-> Af[src], orig |-> orig, v4 |-> NoAddr,
     bad |-> "no", addrs |-> addrs]
Refused(bad) == [Hello(i1, a, NoAddr, <<>>) EXCEPT !.bad = bad]

(* The addresses of two known neighbors show up together, and both use the *)
(* same originator; an originator in the address block is not trusted.     *)
ConflictHellos ==
    { Hello(i1, a, x, <<This(a), OurAddr("heard")>>),
      Hello(i1, b, b, <<This(b), OurAddr("lost")>>),
      Hello(i1, a, NoAddr, <<This(a), This(b)>>),
      Hello(i1, b, x, <<This(b), Other(a)>>) }

(* HELLOs of two neighbors that keep their originator, the first of them   *)
(* reached over two interfaces, the second its IPv6 side that announces    *)
(* and withdraws the connection of the two; and HELLOs that fail in every  *)
(* place.                                                                  *)
Damaged(h, k, bad) == [h EXCEPT !.addrs[k].bad = bad]

OrderlyHellos ==
    { Hello(i1, a, x, <<This(a), OurAddr("heard"), Twohop(c, "sym")>>),
      Hello(i1, a, x, <<This(a), OurAddr("lost"), Twohop(c, "lost")>>),
      Hello(i2, c, x, <<This(c), Other(a), OurAddr("heard")>>),
      [Hello(i1, b, y, <<This(b), OurAddr("heard")>>) EXCEPT !.v4 = x],
      Hello(i1, b, y, <<This(b)>>),
      Damaged(Hello(i1, b, y, <<This(b)>>), 1, "pass1"),
      Damaged(Hello(i1, b, y, <<This(b), OurAddr("heard")>>), 2, "pass2"),
      Refused("tlv"), Refused("if") }

(* The theorems about orderly HELLOs are about these, and those about      *)
(* HELLOs that name their interface about both sets.                       *)
ASSUME OrderlyAssumption == {i1, i2} \subseteq Ifs /\ c \in Addrs => Orderly(OrderlyHellos)
ASSUME NamesAssumption == \A m \in Readable(ConflictHellos) : NamesInterface(m)
=============================================================================
