--------------------------- MODULE MCOlsrv2Routing ---------------------------
(***************************************************************************)
(* What a router works out from what it knows: the metrics and relays of   *)
(* its neighbors (part "domain"), and its routes (part "routing"), with    *)
(* two routers r1 and r2 around us and a network p behind them.            *)
(***************************************************************************)
EXTENDS Olsrv2Routing, MCNhdpDomain

CONSTANTS r1, r2, p

VARIABLE part   \* the part that moves

Rank == [k \in {r2, p} |-> IF k = r2 THEN 1 ELSE 2]

(* r2 and p behind r1. *)
Chain == [Nowhere EXCEPT !.in[r1] = 1, !.out[r1] = 1, !.edge[r1][r2] = 1, !.net[r2][p] = 1]

(* r2 in reach at the cost of our own way to p, which is closer. *)
Direct == [Nowhere EXCEPT !.in[r2] = 1, !.out[r2] = 1, !.out[r1] = 1,
                        !.edge[r1][r2] = 1, !.net[r2][p] = 3, !.lan[p] = 3]

TwoSituations == {Chain, Direct}

(* Topologies of the two routers with metrics that make paths through      *)
(* either of them, and our own network, the cheapest.                      *)
Topology(i, o, x, y, u, v, w) ==
    [Nowhere EXCEPT !.in[r1] = i[1], !.in[r2] = i[2], !.out[r1] = o[1], !.out[r2] = o[2],
                    !.edge[r1][r2] = x, !.edge[r2][r1] = y, !.edge[r2][Self] = 1,
                    !.net[r1][p] = u, !.net[r2][p] = v, !.lan[p] = w]

(* The calculation finds the shortest routes of each of them. *)
ASSUME RoutesAreShortest ==
    \A i \in {1, Infinite} \X {1, Infinite}, o \in {1, 3, Infinite} \X {1, 3, Infinite},
       x \in {1, 2, Infinite}, y \in {1, 2, Infinite},
       u \in {1, 3, Infinite}, v \in {1, 2, Infinite}, w \in {2, Infinite} :
        LET top == Topology(i, o, x, y, u, v, w) IN ShortestRoutes(top, Calculated(top))

-----------------------------------------------------------------------------
RouterVars == <<part, vars, domainVars>>
\* What a part does not use is fixed, so that it does not multiply the states.
RouterInit ==
  /\ Init /\ DomainInit /\ part \in {"domain", "routing"}
  /\ part # "domain" => domain = (CHOOSE h \in Handlers : TRUE) /\ budget = CHOOSE x \in Budgets : TRUE
\* A behavior of the domain ends with its budget, the routing never does.
RouterNext ==
  /\ UNCHANGED part
  /\ \/ part = "routing" /\ Next /\ UNCHANGED domainVars
     \/ part = "domain" /\ (DomainNext \/ UNCHANGED domainVars) /\ UNCHANGED vars
RouterSpec == RouterInit /\ [][RouterNext]_RouterVars

\* Whatever HELLOs, timeouts and changes of the handlers come: the relays that
\* were chosen cover every neighbor two hops away as cheaply as all neighbors
\* would (nhdp_domain.c, mpr.c); see RelaysCover.
MprCovers == part = "domain" => RelaysCover
=============================================================================
