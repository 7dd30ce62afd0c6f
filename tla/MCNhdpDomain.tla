---------------------------- MODULE MCNhdpDomain ----------------------------
(* Neighbor "A" has links on both interfaces, "B" on the first; "A" may    *)
(* tell about an address of "B", and both about an address "t".            *)
EXTENDS NhdpDomain

MCLinkList == <<"a2", "a1", "b1">>
MCLinkNeigh == [l \in {"a1", "a2", "b1"} |-> IF l = "b1" THEN "B" ELSE "A"]
MCLinkIf == [l \in {"a1", "a2", "b1"} |-> IF l = "a2" THEN "if2" ELSE "if1"]
MCNeighOrder == <<"A", "B">>
MCTargets == {"t", "u", "b"}
MCOwner == [t \in MCTargets |-> IF t = "b" THEN "B" ELSE NONE]

Silent == [is |-> "silent", in |-> 0, out |-> 0]
Gone == [is |-> "lost", in |-> 0, out |-> 0]
Sym(in, out) == [is |-> "sym", in |-> in, out |-> out]
Says(us, mpr, metric, will, t, u, b) ==
    [ us |-> us, mpr |-> mpr, metric |-> metric, will |-> will,
      hop |-> [ x \in MCTargets |-> CASE x = "t" -> t [] x = "u" -> u [] x = "b" -> b ] ]

MCHellos ==
    { Says("heard", NoTlv, 1, 7, Sym(1, 2), Sym(2, 1), Silent),
      Says("heard", {"routing"}, 1, 7, Sym(2, 1), Sym(1, 2), Sym(1, 1)),
      Says("heard", {"flooding", "routing"}, 3, 7, Sym(2, 2), Gone, Gone),
      Says("heard", {}, 2, 15, Sym(0, 0), Sym(1, 1), Sym(1, 1)),
      Says("heard", NoTlv, 0, 0, Sym(1, 1), Silent, Silent),
      Says("silent", NoTlv, 0, 7, Silent, Sym(1, 1), Silent),
      Says("lost", NoTlv, 0, 7, Silent, Silent, Silent) }

Handler(metric, mpr, flooding) == [metric |-> metric, mpr |-> mpr, flooding |-> flooding]
MCHandlers == { Handler("ff_dat_metric", "mpr", "mpr"), Handler("constant_metric", "mpr", "everyone"),
                Handler("hopcount", "everyone", "mpr") }

MCLayer2 == { [speed |-> -1, loss |-> -1, rlq |-> -1, throughput |-> -1, crowd |-> 2],
              [speed |-> 2500, loss |-> 200, rlq |-> 900, throughput |-> 9000, crowd |-> 2] }
MCDatConfigs == {[exponent |-> 0, mic |-> TRUE], [exponent |-> 2, mic |-> FALSE]}
MCCostTables == { [n \in {"A", "B", ANY} |-> IF n = "A" THEN 2 ELSE 0],
                  [n \in {"A", "B", ANY} |-> IF n = ANY THEN 3 ELSE 0] }

Budget(hellos, timeouts, configs, packets, samples) ==
    [hellos |-> hellos, timeouts |-> timeouts, configs |-> configs, packets |-> packets, samples |-> samples]
MCBudgets == { Budget(3, 0, 0, 0, 0), Budget(2, 1, 0, 0, 0), Budget(1, 0, 2, 0, 0), Budget(0, 1, 0, 3, 2) }
=============================================================================
