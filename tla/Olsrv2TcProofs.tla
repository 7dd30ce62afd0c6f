--------------------------- MODULE Olsrv2TcProofs ---------------------------
(***************************************************************************)
(* Proofs about the topology database (module Olsrv2Tc), for all nodes,    *)
(* prefixes, neighbors, number spaces and announcements, and for the whole *)
(* of Spec: moving originators, TCs without a mandatory TLV, failed        *)
(* allocations and the shutdown included.                                  *)
(*                                                                         *)
(* Good says what every step preserves; WellBut allows one node that       *)
(* nothing needs at the moment, which is what the functions of olsrv2_tc.c *)
(* leave behind between their calls.                                       *)
(***************************************************************************)
EXTENDS Olsrv2Tc, TLAPS

(* The edges a virtual node announces carry the number of the node.  Only  *)
(* a TC without a mandatory TLV gives a virtual node such edges, and this  *)
(* is why the cleanup at the end of that TC does not take them away.       *)
Stamped(d) == \A e \in d.real : e[1] \notin d.timer => d.eansn[e] = d.ansn[e[1]]

(* A well-formed database in which only the nodes of S may be unneeded,    *)
(* and in which the reader's pointer is valid, NULL or known to dangle.    *)
WellBut(d, S) ==
    /\ d \in Databases
    /\ Graph(d)
    /\ Stamped(d)
    /\ Needed(d) \subseteq d.nodes
    /\ d.nodes \subseteq Needed(d) \cup S
    /\ d.ref \in d.nodes \cup {NoNode, Freed}

Good(d) == WellBut(d, {})

(* The announced edges that are left by olsrv2_tc_edge_remove, and the     *)
(* attachments that go with the orphans.                                   *)
RealWithout(d, n, D) == {e \in d.real : ~(e[1] = n /\ e[2] \in D)}

OrphanNets(d, n, D) == {x \in d.nets : x[1] \in Orphans(d, n, D)}

-----------------------------------------------------------------------------
(* Zero is an answer set number, and so is every number cut to its width.  *)
LEMMA AnsnType == 0 \in Ansns /\ \A v \in Versions : Ansn(v) \in Ansns
  BY TcAssumption DEF Ansns, Ansn

(* oonf_class_free, field by field. *)
LEMMA FreeFields ==
  ASSUME NEW d \in Databases, NEW S \in SUBSET Nodes
  PROVE  /\ Free(d, S) \in Databases
         /\ Free(d, S).nodes = d.nodes \ S
         /\ Free(d, S).ref = PointerAfterFree(d, S)
         /\ Free(d, S).timer = d.timer
         /\ Free(d, S).direct = d.direct
         /\ Free(d, S).edges = d.edges
         /\ Free(d, S).real = d.real
         /\ Free(d, S).nets = d.nets
         /\ Free(d, S).endpoints = d.endpoints
         /\ Free(d, S).eansn = d.eansn /\ Free(d, S).nansn = d.nansn
         /\ \A n \in Nodes \ S : Free(d, S).ansn[n] = d.ansn[n]
  BY AnsnType DEF Free, Databases, PointerAfterFree

(* olsrv2_tc_endpoint_remove, field by field. *)
LEMMA EndpointRemoveFields ==
  ASSUME NEW d \in Databases, NEW G \in SUBSET Attachments
  PROVE  LET r == olsrv2_tc_endpoint_remove(d, G)
         IN  /\ r \in Databases
             /\ r.nets = d.nets \ G
             /\ r.endpoints = EndpointsWithout(d, G)
             /\ r.nodes = d.nodes /\ r.timer = d.timer /\ r.direct = d.direct
             /\ r.edges = d.edges /\ r.real = d.real /\ r.ref = d.ref
             /\ r.eansn = d.eansn /\ r.ansn = d.ansn
             /\ \A x \in Attachments \ G : r.nansn[x] = d.nansn[x]
  BY AnsnType DEF olsrv2_tc_endpoint_remove, Databases, EndpointsWithout

(* The endpoints that are left are those of the attachments that are left. *)
LEMMA EndpointsExact ==
  ASSUME NEW d \in Databases, NEW G \in SUBSET d.nets,
         d.endpoints = {x[2] : x \in d.nets}
  PROVE  EndpointsWithout(d, G) = {x[2] : x \in d.nets \ G}
<1>1. d.nets \subseteq Attachments
  BY DEF Databases
<1>2. \A x \in d.nets : x[2] \in Prefixes
  BY <1>1 DEF Attachments
<1> QED
  BY <1>2 DEF EndpointsWithout

(* Removing attachments keeps the database well formed. *)
LEMMA EndpointRemoveGood ==
  ASSUME NEW d, NEW S, WellBut(d, S), NEW G \in SUBSET d.nets
  PROVE  WellBut(olsrv2_tc_endpoint_remove(d, G), S)
<1> DEFINE r == olsrv2_tc_endpoint_remove(d, G)
<1>1. G \in SUBSET Attachments /\ d \in Databases
  BY DEF WellBut, Databases
<1>2. /\ r \in Databases /\ r.nets = d.nets \ G
      /\ r.endpoints = EndpointsWithout(d, G)
      /\ r.nodes = d.nodes /\ r.timer = d.timer /\ r.direct = d.direct
      /\ r.edges = d.edges /\ r.real = d.real /\ r.ref = d.ref
      /\ r.eansn = d.eansn /\ r.ansn = d.ansn
  BY <1>1, EndpointRemoveFields
<1>3. r.endpoints = {x[2] : x \in r.nets}
  BY <1>1, <1>2, EndpointsExact DEF WellBut, Graph
<1> HIDE DEF r
<1>4. Graph(r)
  BY <1>2, <1>3 DEF WellBut, Graph
<1>5. Needed(r) = Needed(d)
  BY <1>2 DEF Needed
<1>6. Stamped(r)
  BY <1>2 DEF WellBut, Stamped
<1>7. WellBut(r, S)
  BY <1>2, <1>4, <1>5, <1>6 DEF WellBut
<1> QED
  BY <1>7 DEF r

(* Unannounced, field by field. *)
LEMMA UnannouncedFields ==
  ASSUME NEW d \in Databases, NEW n \in Nodes, NEW D \in SUBSET Nodes
  PROVE  LET r == Unannounced(d, n, D)
         IN  /\ r \in Databases
             /\ r.edges = EdgesWithout(d, n, D)
             /\ r.real = RealWithout(d, n, D)
             /\ \A e \in Pairs : ~(e[1] = n /\ e[2] \in D) => r.eansn[e] = d.eansn[e]
             /\ r.nodes = d.nodes /\ r.timer = d.timer /\ r.direct = d.direct
             /\ r.nets = d.nets /\ r.endpoints = d.endpoints /\ r.ref = d.ref
             /\ r.ansn = d.ansn /\ r.nansn = d.nansn
<1>1. EdgesWithout(d, n, D) \in SUBSET Pairs
  BY DEF EdgesWithout, Databases
<1> QED
  BY <1>1, AnsnType DEF Unannounced, Databases, RealWithout

(* olsrv2_tc_edge_remove, field by field. *)
LEMMA EdgeRemoveFields ==
  ASSUME NEW d \in Databases, NEW n \in Nodes, NEW D \in SUBSET Nodes
  PROVE  LET r == olsrv2_tc_edge_remove(d, n, D)
             G == OrphanNets(d, n, D)
             F == Orphans(d, n, D) \ d.direct
         IN  /\ r \in Databases
             /\ r.edges = EdgesWithout(d, n, D)
             /\ r.real = RealWithout(d, n, D)
             /\ \A e \in Pairs : ~(e[1] = n /\ e[2] \in D) => r.eansn[e] = d.eansn[e]
             /\ r.nodes = d.nodes \ F
             /\ r.timer = d.timer /\ r.direct = d.direct
             /\ r.nets = d.nets \ G /\ r.endpoints = EndpointsWithout(d, G)
             /\ r.ref = PointerAfterFree(d, F)
             /\ \A m \in Nodes \ F : r.ansn[m] = d.ansn[m]
             /\ \A x \in Attachments \ G : r.nansn[x] = d.nansn[x]
<1> DEFINE G == OrphanNets(d, n, D)
           F == Orphans(d, n, D) \ d.direct
           d1 == Unannounced(d, n, D)
           d2 == olsrv2_tc_endpoint_remove(d1, G)
           r == Free(d2, F)
<1>1. G \in SUBSET Attachments /\ F \in SUBSET Nodes
  BY DEF Databases, Orphans, Unhooked, OrphanNets
<1>2. /\ d1 \in Databases
      /\ d1.edges = EdgesWithout(d, n, D)
      /\ d1.real = RealWithout(d, n, D)
      /\ \A e \in Pairs : ~(e[1] = n /\ e[2] \in D) => d1.eansn[e] = d.eansn[e]
      /\ d1.nodes = d.nodes /\ d1.timer = d.timer /\ d1.direct = d.direct
      /\ d1.nets = d.nets /\ d1.endpoints = d.endpoints /\ d1.ref = d.ref
      /\ d1.ansn = d.ansn /\ d1.nansn = d.nansn
  BY UnannouncedFields
<1> HIDE DEF d1, G, F
<1>3. /\ d2 \in Databases
      /\ d2.nets = d1.nets \ G /\ d2.endpoints = EndpointsWithout(d1, G)
      /\ d2.nodes = d1.nodes /\ d2.timer = d1.timer /\ d2.direct = d1.direct
      /\ d2.edges = d1.edges /\ d2.real = d1.real /\ d2.ref = d1.ref
      /\ d2.eansn = d1.eansn /\ d2.ansn = d1.ansn
      /\ \A x \in Attachments \ G : d2.nansn[x] = d1.nansn[x]
  BY <1>1, <1>2, EndpointRemoveFields
<1>4. EndpointsWithout(d1, G) = EndpointsWithout(d, G)
  BY <1>2 DEF EndpointsWithout
<1> HIDE DEF d2
<1>5. /\ r \in Databases
      /\ r.nodes = d2.nodes \ F /\ r.ref = PointerAfterFree(d2, F)
      /\ r.timer = d2.timer /\ r.direct = d2.direct
      /\ r.edges = d2.edges /\ r.real = d2.real
      /\ r.nets = d2.nets /\ r.endpoints = d2.endpoints /\ r.eansn = d2.eansn
      /\ r.nansn = d2.nansn
      /\ \A m \in Nodes \ F : r.ansn[m] = d2.ansn[m]
  BY <1>1, <1>3, FreeFields
<1>6. PointerAfterFree(d2, F) = PointerAfterFree(d, F)
  BY <1>2, <1>3 DEF PointerAfterFree
<1>7. olsrv2_tc_edge_remove(d, n, D) = r
  BY DEF olsrv2_tc_edge_remove, r, d2, d1, G, F, OrphanNets
<1> HIDE DEF r
<1>8. /\ r \in Databases
      /\ r.edges = EdgesWithout(d, n, D)
      /\ r.real = RealWithout(d, n, D)
      /\ \A e \in Pairs : ~(e[1] = n /\ e[2] \in D) => r.eansn[e] = d.eansn[e]
      /\ r.nodes = d.nodes \ F
      /\ r.timer = d.timer /\ r.direct = d.direct
      /\ r.nets = d.nets \ G /\ r.endpoints = EndpointsWithout(d, G)
      /\ r.ref = PointerAfterFree(d, F)
      /\ \A m \in Nodes \ F : r.ansn[m] = d.ansn[m]
      /\ \A x \in Attachments \ G : r.nansn[x] = d.nansn[x]
  BY <1>2, <1>3, <1>4, <1>5, <1>6
<1> QED
  BY <1>7, <1>8 DEF G, F

(* What olsrv2_tc_edge_remove does to the timers, the flags and the edges. *)
EdgesRemoved(d, r, n, D) ==
    /\ r.timer = d.timer /\ r.direct = d.direct
    /\ r.edges = EdgesWithout(d, n, D)
    /\ r.real = RealWithout(d, n, D)

(* olsrv2_tc_edge_remove leaves a well-formed database; at most n itself   *)
(* is not needed any more, and n is not freed.                             *)
LEMMA EdgeRemoveGood ==
  ASSUME NEW d, NEW S, WellBut(d, S), NEW n \in Nodes, NEW D \in SUBSET Nodes
  PROVE  LET r == olsrv2_tc_edge_remove(d, n, D)
         IN  /\ WellBut(r, S \cup {n})
             /\ EdgesRemoved(d, r, n, D)
             /\ n \in d.nodes => n \in r.nodes
             /\ d.ref = n => r.ref = n
<1> DEFINE G == OrphanNets(d, n, D)
           F == Orphans(d, n, D) \ d.direct
           r == olsrv2_tc_edge_remove(d, n, D)
           U == Unhooked(d, n, D)
           E == EdgesWithout(d, n, D)
<1>1. d \in Databases /\ Graph(d) /\ Stamped(d)
  BY DEF WellBut
<1>2. /\ r \in Databases
      /\ r.edges = E
      /\ r.real = RealWithout(d, n, D)
      /\ \A e \in Pairs : ~(e[1] = n /\ e[2] \in D) => r.eansn[e] = d.eansn[e]
      /\ r.nodes = d.nodes \ F
      /\ r.timer = d.timer /\ r.direct = d.direct
      /\ r.nets = d.nets \ G /\ r.endpoints = EndpointsWithout(d, G)
      /\ r.ref = PointerAfterFree(d, F)
      /\ \A m \in Nodes \ F : r.ansn[m] = d.ansn[m]
  BY <1>1, EdgeRemoveFields
<1> HIDE DEF r
<1>r. \A e : e \in r.real <=> e \in d.real /\ ~(e[1] = n /\ e[2] \in D)
  BY <1>2 DEF RealWithout
<1>g. \A x : x \in G <=> x \in d.nets /\ x[1] \in Orphans(d, n, D)
  BY DEF OrphanNets
<1>3. \A e \in d.edges : e \in Pairs /\ e = <<e[1], e[2]>> /\ e[1] \in Nodes /\ e[2] \in Nodes
  BY <1>1 DEF Databases, Pairs
<1>4. \A m \in U : m \in D /\ m \in Nodes /\ <<n, m>> \in d.real /\ <<m, n>> \notin d.real
  BY DEF Unhooked
<1>5. \A m \in U : m # n /\ <<n, m>> \in d.edges
  BY <1>1, <1>4 DEF Graph
<1>6. \A e : e \in E <=> e \in d.edges /\ ~(e[1] = n /\ e[2] \in U) /\ ~(e[2] = n /\ e[1] \in U)
  BY DEF EdgesWithout
<1>7. \A m : m \in Orphans(d, n, D) <=> m \in U /\ m \notin d.timer /\ \A e \in E : e[1] # m
  BY DEF Orphans, Touches
<1> HIDE DEF U, E
<1>8. \A e \in E : <<e[2], e[1]>> \in E
  BY <1>1, <1>3, <1>6 DEF Graph
<1>9. \A e \in E : e[1] \in r.nodes /\ e[1] # e[2]
  BY <1>1, <1>2, <1>6, <1>7 DEF Graph
<1>10. \A e \in d.real : e \in d.edges
  BY <1>1 DEF Graph
<1>11. r.real \subseteq E
  BY <1>r, <1>3, <1>4, <1>6, <1>10
<1>12. ASSUME NEW e \in E PROVE e \in r.real \/ <<e[2], e[1]>> \in r.real
  <2>1. e \in d.edges /\ e = <<e[1], e[2]>> /\ e[1] \in Nodes /\ e[2] \in Nodes
    BY <1>3, <1>6
  <2>2. e \in d.real \/ <<e[2], e[1]>> \in d.real
    BY <2>1, <1>1 DEF Graph
  <2>3. e[1] # e[2]
    BY <1>9
  <2>4. CASE e \in d.real /\ e[1] = n /\ e[2] \in D
    <3>1. e[2] \notin U
      BY <2>4, <1>6
    <3>2. <<e[2], e[1]>> \in d.real
      BY <3>1, <2>1, <2>4 DEF U, Unhooked
    <3> QED
      BY <3>2, <2>3, <2>4, <1>r
  <2>5. CASE <<e[2], e[1]>> \in d.real /\ e[2] = n /\ e[1] \in D
    <3>1. e[1] \notin U
      BY <2>5, <1>6
    <3>2. e \in d.real
      BY <3>1, <2>1, <2>5 DEF U, Unhooked
    <3> QED
      BY <3>2, <2>3, <2>5, <1>r
  <2> QED
    BY <2>2, <2>4, <2>5, <1>r
<1>13. r.endpoints = {x[2] : x \in r.nets}
  <2>1. G \in SUBSET d.nets
    BY <1>g
  <2> QED
    BY <2>1, <1>1, <1>2, EndpointsExact DEF Graph
<1>14. \A x \in r.nets : x[1] \in r.nodes
  BY <1>1, <1>2, <1>g DEF Graph
<1>15. Graph(r)
  BY <1>2, <1>8, <1>9, <1>11, <1>12, <1>13, <1>14 DEF Graph
<1>16. Stamped(r)
  <2> SUFFICES ASSUME NEW e \in r.real, e[1] \notin r.timer
               PROVE  r.eansn[e] = r.ansn[e[1]]
    BY DEF Stamped
  <2>1. e \in d.real /\ e \in Pairs /\ ~(e[1] = n /\ e[2] \in D) /\ e \in E
    BY <1>r, <1>3, <1>10, <1>11
  <2>2. e[1] \in Nodes \ F
    BY <2>1, <1>7, <1>3, <1>10
  <2> QED
    BY <2>1, <2>2, <1>1, <1>2 DEF Stamped
<1>17. Needed(d) \subseteq d.nodes /\ d.nodes \subseteq Needed(d) \cup S
  BY DEF WellBut
<1>18. Needed(r) \subseteq r.nodes
  BY <1>2, <1>7, <1>9, <1>17 DEF Needed
<1>19. r.nodes \subseteq Needed(r) \cup S \cup {n}
  <2> SUFFICES ASSUME NEW k \in r.nodes, k \notin S, k # n, k \notin r.timer, k \notin r.direct
               PROVE  \E e \in r.edges : e[1] = k
    BY DEF Needed
  <2>1. PICK e \in d.edges : e[1] = k
    BY <1>2, <1>17 DEF Needed
  <2>2. CASE e \in E
    BY <2>1, <2>2, <1>2
  <2>3. CASE e \notin E
    BY <2>1, <2>3, <1>2, <1>6, <1>7
  <2> QED
    BY <2>2, <2>3
<1>20. n \notin F
  BY <1>5, <1>7
<1>21. r.ref \in r.nodes \cup {NoNode, Freed}
  BY <1>2 DEF PointerAfterFree, WellBut
<1>22. WellBut(r, S \cup {n})
  BY <1>2, <1>15, <1>16, <1>18, <1>19, <1>21 DEF WellBut
<1>23. (d.ref = n => r.ref = n) /\ (n \in d.nodes => n \in r.nodes)
  BY <1>2, <1>20 DEF PointerAfterFree
<1>24. EdgesRemoved(d, r, n, D)
  BY <1>2 DEF EdgesRemoved, E
<1> QED
  BY <1>22, <1>23, <1>24 DEF r

(* FreeNode keeps the database well formed when the node announces nothing *)
(* any more; the node is not in the way afterwards.                        *)
LEMMA FreeNodeGood ==
  ASSUME NEW d, NEW n \in Nodes, WellBut(d, {n}),
         \A e \in d.real : e[1] # n, \A x \in d.nets : x[1] # n
  PROVE  Good(FreeNode(d, n))
<1> DEFINE d1 == [d EXCEPT !.timer = @ \ {n}]
           F == IF Touches(d.edges, n) \/ n \in d.direct THEN {} ELSE {n}
           r == FreeNode(d, n)
<1>1. d \in Databases /\ Graph(d) /\ Stamped(d)
  BY DEF WellBut
<1>2. /\ d1 \in Databases /\ d1.timer = d.timer \ {n}
      /\ d1.nodes = d.nodes /\ d1.direct = d.direct /\ d1.edges = d.edges
      /\ d1.real = d.real /\ d1.nets = d.nets /\ d1.endpoints = d.endpoints
      /\ d1.eansn = d.eansn /\ d1.ansn = d.ansn /\ d1.ref = d.ref
  BY <1>1 DEF Databases
<1>3. F \in SUBSET Nodes
  OBVIOUS
<1> HIDE DEF d1, F
<1>4. r = Free(d1, F)
  BY DEF FreeNode, d1, F
<1>5. /\ r \in Databases
      /\ r.nodes = d1.nodes \ F /\ r.ref = PointerAfterFree(d1, F)
      /\ r.timer = d1.timer /\ r.direct = d1.direct
      /\ r.edges = d1.edges /\ r.real = d1.real
      /\ r.nets = d1.nets /\ r.endpoints = d1.endpoints /\ r.eansn = d1.eansn
      /\ \A m \in Nodes \ F : r.ansn[m] = d1.ansn[m]
  BY <1>2, <1>3, <1>4, FreeFields
<1> HIDE DEF r
<1>6. \A m \in F : m = n /\ n \notin d.direct /\ \A e \in d.edges : e[1] # n
  BY DEF F, Touches
<1>7. \A e \in d.edges : e[1] \in Nodes /\ e[1] \notin F
  BY <1>1, <1>6 DEF Databases, Pairs
<1>8. Graph(r)
  BY <1>1, <1>2, <1>5, <1>6, <1>7 DEF Graph
<1>9. Stamped(r)
  BY <1>1, <1>2, <1>5, <1>7 DEF Stamped, Graph
<1>10. Needed(r) \subseteq r.nodes
  BY <1>2, <1>5, <1>6, <1>7 DEF Needed, WellBut
<1>11. r.nodes \subseteq Needed(r)
  <2> SUFFICES ASSUME NEW k \in r.nodes PROVE k \in Needed(r)
    OBVIOUS
  <2>1. k \in d.nodes /\ k \notin F
    BY <1>2, <1>5
  <2>2. CASE k = n
    BY <2>1, <2>2, <1>2, <1>5 DEF F, Touches, Needed
  <2>3. CASE k # n
    BY <2>1, <2>3, <1>2, <1>5 DEF Needed, WellBut
  <2> QED
    BY <2>2, <2>3
<1>12. r.ref \in r.nodes \cup {NoNode, Freed}
  BY <1>2, <1>5 DEF PointerAfterFree, WellBut
<1>13. Good(r)
  BY <1>5, <1>8, <1>9, <1>10, <1>11, <1>12 DEF Good, WellBut
<1> QED
  BY <1>13 DEF r

(* olsrv2_tc_node_remove takes an unneeded node away and leaves no other   *)
(* unneeded node behind.                                                   *)
LEMMA NodeRemoveGood ==
  ASSUME NEW d, NEW n \in Nodes, WellBut(d, {n})
  PROVE  Good(olsrv2_tc_node_remove(d, n))
<1> DEFINE d1 == olsrv2_tc_edge_remove(d, n, Nodes)
           G == {x \in d1.nets : x[1] = n}
           d2 == olsrv2_tc_endpoint_remove(d1, G)
<1>1. WellBut(d1, {n} \cup {n}) /\ EdgesRemoved(d, d1, n, Nodes)
  BY EdgeRemoveGood
<1>2. WellBut(d1, {n}) /\ d1 \in Databases
  <2>1. {n} \cup {n} = {n}
    OBVIOUS
  <2> QED
    BY <1>1, <2>1 DEF WellBut
<1>3. \A e \in d1.real : e[1] # n
  <2>1. \A e \in d.real : e[2] \in Nodes
    BY DEF WellBut, Databases, Pairs
  <2> QED
    BY <1>1, <2>1 DEF EdgesRemoved, RealWithout
<1> HIDE DEF d1
<1>4. G \in SUBSET d1.nets /\ G \in SUBSET Attachments
  BY <1>2 DEF Databases
<1>5. WellBut(d2, {n})
  BY <1>2, <1>4, EndpointRemoveGood
<1>6. d2.nets = d1.nets \ G /\ d2.real = d1.real
  BY <1>2, <1>4, EndpointRemoveFields
<1> HIDE DEF d2
<1>7. Good(FreeNode(d2, n))
  BY <1>3, <1>5, <1>6, FreeNodeGood
<1> QED
  BY <1>7 DEF olsrv2_tc_node_remove, d2, d1

(* What olsrv2_tc_node_add leaves alone. *)
NodeAdded(d, r, o) ==
    /\ r.nodes = d.nodes \cup {o}
    /\ r.timer \cup {o} = d.timer \cup {o}
    /\ r.direct = d.direct /\ r.edges = d.edges /\ r.real = d.real
    /\ r.nets = d.nets /\ r.ref = d.ref /\ r.endpoints = d.endpoints
    /\ r.eansn = d.eansn
    /\ \A m \in Nodes \ {o} : r.ansn[m] = d.ansn[m]

(* olsrv2_tc_node_add: the node is there, and needed if its timer runs.    *)
LEMMA NodeAddGood ==
  ASSUME NEW d, Good(d), NEW o \in Nodes, NEW vtime \in Nat, NEW z \in Ansns,
         o \in d.nodes => vtime > 0
  PROVE  LET r == olsrv2_tc_node_add(d, o, vtime, z)
         IN  /\ WellBut(r, {o})
             /\ NodeAdded(d, r, o)
             /\ vtime > 0 => Good(r) /\ o \in r.timer
<1> DEFINE r == olsrv2_tc_node_add(d, o, vtime, z)
<1>1. d \in Databases /\ Graph(d) /\ Stamped(d)
  BY DEF Good, WellBut
<1>2. /\ r \in Databases
      /\ r.nodes = d.nodes \cup {o}
      /\ r.timer = IF vtime > 0 THEN d.timer \cup {o} ELSE d.timer \ {o}
      /\ r.direct = d.direct /\ r.edges = d.edges /\ r.real = d.real
      /\ r.nets = d.nets /\ r.ref = d.ref /\ r.endpoints = d.endpoints
      /\ r.eansn = d.eansn
      /\ \A m \in Nodes \ {o} : r.ansn[m] = d.ansn[m]
  BY <1>1 DEF olsrv2_tc_node_add, Databases
<1> HIDE DEF r
<1>3. Graph(r)
  BY <1>1, <1>2 DEF Graph
<1>4. \A e \in d.real : e[1] \in Nodes /\ (e[1] = o => vtime > 0)
  BY <1>1 DEF Graph, Databases
<1>5. Stamped(r)
  BY <1>1, <1>2, <1>4 DEF Stamped
<1>6. Needed(d) = d.nodes
  BY DEF Good, WellBut
<1>7. Needed(r) \subseteq r.nodes
  BY <1>2, <1>6 DEF Needed
<1>8. r.nodes \subseteq Needed(r) \cup {o}
  BY <1>2, <1>6 DEF Needed
<1>9. r.ref \in r.nodes \cup {NoNode, Freed}
  BY <1>2 DEF Good, WellBut
<1>10. WellBut(r, {o})
  BY <1>2, <1>3, <1>5, <1>7, <1>8, <1>9 DEF WellBut
<1>11. vtime > 0 => Good(r) /\ o \in r.timer
  BY <1>2, <1>8, <1>10 DEF WellBut, Good, Needed
<1>12. NodeAdded(d, r, o)
  BY <1>2 DEF NodeAdded
<1> QED
  BY <1>10, <1>11, <1>12 DEF r

(* A database that differs in its edges only: an edge that n announces,    *)
(* its inverse, and the destination if nothing needed it before.           *)
LEMMA EdgeAddGood ==
  ASSUME NEW d, Good(d), NEW n \in Nodes, NEW m \in Nodes, n \in d.nodes, n # m
  PROVE  LET r == olsrv2_tc_edge_add(d, n, m)
         IN  Good(r) /\ r.ref = d.ref /\ d.nodes \subseteq r.nodes
<1> DEFINE d1 == IF m \in d.nodes THEN d ELSE olsrv2_tc_node_add(d, m, 0, 0)
           r == olsrv2_tc_edge_add(d, n, m)
<1>1. /\ WellBut(d1, {m}) /\ d1.ref = d.ref
      /\ d1.nodes = d.nodes \cup {m} /\ d1.edges = d.edges /\ d1.real = d.real
      /\ d1.ansn[n] = d.ansn[n]
  <2>1. CASE m \in d.nodes
    BY <2>1 DEF Good, WellBut
  <2>2. CASE m \notin d.nodes
    <3> DEFINE x == olsrv2_tc_node_add(d, m, 0, 0)
    <3>1. /\ WellBut(x, {m}) /\ x.ref = d.ref
          /\ x.nodes = d.nodes \cup {m} /\ x.edges = d.edges /\ x.real = d.real
          /\ \A k \in Nodes \ {m} : x.ansn[k] = d.ansn[k]
      <4>1. 0 \in Nat /\ 0 \in Ansns /\ (m \in d.nodes => 0 > 0)
        BY <2>2, AnsnType
      <4>2. WellBut(x, {m}) /\ NodeAdded(d, x, m)
        BY <4>1, NodeAddGood
      <4> HIDE DEF x
      <4> QED
        BY <4>2 DEF NodeAdded
    <3>2. d1 = x
      BY <2>2
    <3> HIDE DEF x, d1
    <3> QED
      BY <3>1, <3>2
  <2> QED
    BY <2>1, <2>2
<1>2. d1 \in Databases /\ Graph(d1) /\ Stamped(d1) /\ d.ansn[n] \in Ansns
  BY <1>1 DEF Good, WellBut, Databases
<1>3. r = [d1 EXCEPT !.edges = @ \cup {<<n, m>>, <<m, n>>},
                     !.real  = @ \cup {<<n, m>>},
                     !.eansn = [@ EXCEPT ![<<n, m>>] = d.ansn[n]]]
  BY DEF olsrv2_tc_edge_add
<1> HIDE DEF d1, r
<1>4. /\ r \in Databases
      /\ r.edges = d1.edges \cup {<<n, m>>, <<m, n>>}
      /\ r.real = d1.real \cup {<<n, m>>}
      /\ r.eansn = [d1.eansn EXCEPT ![<<n, m>>] = d.ansn[n]]
      /\ r.nodes = d1.nodes /\ r.timer = d1.timer /\ r.direct = d1.direct
      /\ r.ansn = d1.ansn /\ r.nets = d1.nets /\ r.endpoints = d1.endpoints
      /\ r.ref = d1.ref
  BY <1>2, <1>3 DEF Databases, Pairs
<1>5. Graph(r)
  <2>1. ASSUME NEW e \in r.edges
        PROVE  /\ <<e[2], e[1]>> \in r.edges /\ e[1] \in r.nodes /\ e[1] # e[2]
               /\ e \in r.real \/ <<e[2], e[1]>> \in r.real
    <3>1. CASE e \in d1.edges
      BY <3>1, <1>2, <1>4 DEF Graph
    <3>2. CASE e = <<n, m>>
      <4>1. e[1] = n /\ e[2] = m
        BY <3>2
      <4> QED
        BY <4>1, <3>2, <1>1, <1>4
    <3>3. CASE e = <<m, n>>
      <4>1. e[1] = m /\ e[2] = n
        BY <3>3
      <4> QED
        BY <4>1, <3>3, <1>1, <1>4
    <3> QED
      BY <3>1, <3>2, <3>3, <1>4
  <2>3. r.real \subseteq r.edges
    BY <1>2, <1>4 DEF Graph
  <2>4. (\A x \in r.nets : x[1] \in r.nodes) /\ r.endpoints = {x[2] : x \in r.nets}
    BY <1>2, <1>4 DEF Graph
  <2> QED
    BY <2>1, <2>3, <2>4 DEF Graph
<1>6. Stamped(r)
  <2> SUFFICES ASSUME NEW e \in r.real, e[1] \notin r.timer
               PROVE  r.eansn[e] = r.ansn[e[1]]
    BY DEF Stamped
  <2>1. d1.eansn \in [Pairs -> Ansns] /\ d1.real \subseteq Pairs /\ <<n, m>> \in Pairs
    BY <1>2 DEF Databases, Pairs
  <2>2. CASE e = <<n, m>>
    BY <2>1, <2>2, <1>1, <1>4
  <2>3. CASE e # <<n, m>>
    BY <2>1, <2>3, <1>2, <1>4 DEF Stamped
  <2> QED
    BY <2>2, <2>3
<1>7. Needed(r) \subseteq r.nodes
  BY <1>1, <1>4 DEF Needed, WellBut
<1>8. r.nodes \subseteq Needed(r)
  <2>1. m \in Needed(r)
    <3>1. <<m, n>> \in r.edges /\ <<m, n>>[1] = m
      BY <1>4
    <3> QED
      BY <3>1 DEF Needed
  <2> QED
    BY <2>1, <1>1, <1>4 DEF Needed, WellBut
<1>9. Good(r) /\ r.ref = d.ref /\ d.nodes \subseteq r.nodes
  BY <1>1, <1>4, <1>5, <1>6, <1>7, <1>8 DEF Good, WellBut
<1> QED
  BY <1>9 DEF r

(* olsrv2_tc_endpoint_add keeps the database well formed. *)
LEMMA EndpointAddGood ==
  ASSUME NEW d, Good(d), NEW n \in Nodes, NEW p \in Prefixes, n \in d.nodes
  PROVE  LET r == olsrv2_tc_endpoint_add(d, n, p)
         IN  Good(r) /\ r.ref = d.ref /\ r.nodes = d.nodes
<1> DEFINE r == olsrv2_tc_endpoint_add(d, n, p)
<1>1. d \in Databases /\ Graph(d) /\ Stamped(d)
  BY DEF Good, WellBut
<1>2. /\ r \in Databases
      /\ r.nets = d.nets \cup {<<n, p>>} /\ r.endpoints = d.endpoints \cup {p}
      /\ r.nodes = d.nodes /\ r.timer = d.timer /\ r.direct = d.direct
      /\ r.edges = d.edges /\ r.real = d.real /\ r.ref = d.ref
      /\ r.eansn = d.eansn /\ r.ansn = d.ansn
  BY <1>1 DEF olsrv2_tc_endpoint_add, Databases, Attachments
<1> HIDE DEF r
<1>3. r.endpoints = {x[2] : x \in r.nets}
  <2>1. d.endpoints = {x[2] : x \in d.nets}
    BY <1>1 DEF Graph
  <2>2. <<n, p>>[2] = p /\ <<n, p>>[1] = n
    OBVIOUS
  <2>3. {x[2] : x \in r.nets} = {x[2] : x \in d.nets} \cup {p}
    BY <2>2, <1>2
  <2> QED
    BY <2>1, <2>3, <1>2
<1>4. Graph(r)
  <2>1. \A x \in r.nets : x[1] \in r.nodes
    <3>1. <<n, p>>[1] = n
      OBVIOUS
    <3> QED
      BY <3>1, <1>1, <1>2 DEF Graph
  <2> QED
    BY <2>1, <1>1, <1>2, <1>3 DEF Graph
<1>5. Stamped(r)
  BY <1>1, <1>2 DEF Stamped
<1>6. Needed(r) = Needed(d)
  BY <1>2 DEF Needed
<1>7. Good(r) /\ r.ref = d.ref /\ r.nodes = d.nodes
  BY <1>2, <1>4, <1>5, <1>6 DEF Good, WellBut
<1> QED
  BY <1>7 DEF r

(* The reader's pointer is set, the set of nodes stays. *)
PointsTo(d, r, o) == r.ref = o /\ r.nodes = d.nodes

(* The reader stamps an accepted TC on a node whose timer runs. *)
LEMMA StampGood ==
  ASSUME NEW d, Good(d), NEW o \in d.nodes, o \in d.timer, NEW z \in Ansns,
         NEW r, r = [d EXCEPT !.ansn = [@ EXCEPT ![o] = z], !.ref = o]
  PROVE  Good(r) /\ PointsTo(d, r, o)
<1>1. d \in Databases /\ Graph(d) /\ Stamped(d) /\ o \in Nodes
  BY DEF Good, WellBut, Databases
<1>2. /\ r \in Databases /\ r.nodes = d.nodes /\ r.timer = d.timer
      /\ r.direct = d.direct /\ r.edges = d.edges /\ r.real = d.real
      /\ r.nets = d.nets /\ r.endpoints = d.endpoints /\ r.eansn = d.eansn
      /\ r.ref = o
      /\ \A m \in Nodes \ {o} : r.ansn[m] = d.ansn[m]
  BY <1>1 DEF Databases
<1>3. Graph(r)
  BY <1>1, <1>2 DEF Graph
<1>4. \A e \in d.real : e[1] \in Nodes
  BY <1>1 DEF Graph, Databases
<1>5. Stamped(r)
  BY <1>1, <1>2, <1>4 DEF Stamped
<1>6. Needed(r) = Needed(d)
  BY <1>2 DEF Needed
<1> QED
  BY <1>2, <1>3, <1>5, <1>6 DEF Good, WellBut, PointsTo

(* Moving the reader's pointer. *)
LEMMA PointerGood ==
  ASSUME NEW d, NEW S, WellBut(d, S), NEW p \in d.nodes \cup {NoNode},
         NEW r, r = [d EXCEPT !.ref = p]
  PROVE  WellBut(r, S)
<1>1. d \in Databases /\ Graph(d) /\ Stamped(d)
  BY DEF WellBut
<1>2. /\ r \in Databases /\ r.nodes = d.nodes /\ r.timer = d.timer
      /\ r.direct = d.direct /\ r.edges = d.edges /\ r.real = d.real
      /\ r.nets = d.nets /\ r.endpoints = d.endpoints /\ r.eansn = d.eansn
      /\ r.ansn = d.ansn /\ r.ref = p
  BY <1>1 DEF Databases
<1>3. Graph(r) /\ Stamped(r)
  BY <1>1, <1>2 DEF Graph, Stamped
<1>4. Needed(r) = Needed(d)
  BY <1>2 DEF Needed
<1> QED
  BY <1>2, <1>3, <1>4 DEF WellBut

(* A change of the direct_neighbor flags and nothing else that matters. *)
FlagsSet(d, r, F) == r.nodes = d.nodes /\ r.timer = d.timer /\ r.direct = F

(* Changing the direct_neighbor flag of a node. *)
LEMMA FlagGood ==
  ASSUME NEW d, NEW o \in Nodes, WellBut(d, {o}), NEW F, NEW r,
         r = [d EXCEPT !.direct = F], F \cup {o} = d.direct \cup {o},
         o \in F => o \in d.nodes
  PROVE  WellBut(r, {o}) /\ FlagsSet(d, r, F)
<1>1. d \in Databases /\ Graph(d) /\ Stamped(d)
  BY DEF WellBut
<1>2. F \subseteq Nodes
  BY <1>1 DEF Databases
<1>3. /\ r \in Databases /\ r.nodes = d.nodes /\ r.timer = d.timer
      /\ r.direct = F /\ r.edges = d.edges /\ r.real = d.real
      /\ r.nets = d.nets /\ r.endpoints = d.endpoints /\ r.eansn = d.eansn
      /\ r.ansn = d.ansn /\ r.ref = d.ref
  BY <1>1, <1>2 DEF Databases
<1>4. Graph(r) /\ Stamped(r)
  BY <1>1, <1>3 DEF Graph, Stamped
<1>5. Needed(r) \cup {o} = Needed(d) \cup {o}
  BY <1>3 DEF Needed
<1>6. Needed(r) \subseteq r.nodes
  <2> SUFFICES ASSUME NEW k \in Needed(r) PROVE k \in d.nodes
    BY <1>3
  <2>1. CASE k = o
    BY <2>1, <1>3 DEF Needed, WellBut
  <2>2. CASE k # o
    BY <2>2, <1>5 DEF WellBut
  <2> QED
    BY <2>1, <2>2
<1>7. r.nodes \subseteq Needed(r) \cup {o}
  BY <1>3, <1>5 DEF WellBut
<1> QED
  BY <1>3, <1>4, <1>6, <1>7 DEF WellBut, FlagsSet

(* _cb_neighbor_remove, for any originator. *)
LEMMA NeighborRemoveGood ==
  ASSUME NEW d, Good(d), NEW o
  PROVE  Good(_cb_neighbor_remove(d, o))
<1> DEFINE d1 == [d EXCEPT !.direct = @ \ {o}]
<1>1. CASE o \notin d.nodes
  BY <1>1 DEF _cb_neighbor_remove
<1>2. CASE o \in d.nodes
  <2>1. o \in Nodes /\ WellBut(d, {o})
    BY <1>2 DEF Good, WellBut, Databases
  <2> DEFINE F == d.direct \ {o}
  <2>2. d1 = [d EXCEPT !.direct = F] /\ F \cup {o} = d.direct \cup {o} /\ o \notin F
    OBVIOUS
  <2> HIDE DEF d1, F
  <2>3. WellBut(d1, {o}) /\ FlagsSet(d, d1, F)
    BY <2>1, <2>2, FlagGood
  <2>4. CASE o \in d.timer
    <3>1. Good(d1)
      BY <2>3, <2>4 DEF Good, WellBut, Needed, FlagsSet
    <3> QED
      BY <3>1, <1>2, <2>4 DEF _cb_neighbor_remove, d1
  <2>5. CASE o \notin d.timer
    <3>1. Good(olsrv2_tc_node_remove(d1, o))
      BY <2>1, <2>3, NodeRemoveGood
    <3> QED
      BY <3>1, <1>2, <2>5 DEF _cb_neighbor_remove, d1
  <2> QED
    BY <2>4, <2>5
<1> QED
  BY <1>1, <1>2

(* _cb_neighbor_change, for any old and new originator. *)
LEMMA NeighborChangeGood ==
  ASSUME NEW d, Good(d), NEW o \in Nodes \cup {NoNode}, NEW old
  PROVE  Good(_cb_neighbor_change(d, o, old))
<1> DEFINE d1 == _cb_neighbor_remove(d, o)
           d2 == IF o \in d1.nodes THEN d1 ELSE olsrv2_tc_node_add(d1, o, 0, 0)
           r == [d2 EXCEPT !.direct = @ \cup {o}]
<1>1. CASE o = old \/ o = NoNode
  BY <1>1 DEF _cb_neighbor_change
<1>2. CASE ~(o = old \/ o = NoNode)
  <2>1. o \in Nodes /\ Good(d1)
    BY <1>2, NeighborRemoveGood
  <2>2. _cb_neighbor_change(d, o, old) = r
    BY <1>2 DEF _cb_neighbor_change
  <2> HIDE DEF d1
  <2>3. WellBut(d2, {o}) /\ o \in d2.nodes
    <3>1. CASE o \in d1.nodes
      BY <2>1, <3>1 DEF Good, WellBut
    <3>2. CASE o \notin d1.nodes
      <4> DEFINE x == olsrv2_tc_node_add(d1, o, 0, 0)
      <4>1. 0 \in Nat /\ 0 \in Ansns /\ (o \in d1.nodes => 0 > 0)
        BY <3>2, AnsnType
      <4>2. WellBut(x, {o}) /\ NodeAdded(d1, x, o)
        BY <4>1, <2>1, NodeAddGood
      <4>3. d2 = x
        BY <3>2
      <4> HIDE DEF x, d2
      <4> QED
        BY <4>2, <4>3 DEF NodeAdded
    <3> QED
      BY <3>1, <3>2
  <2> DEFINE F == d2.direct \cup {o}
  <2>4. r = [d2 EXCEPT !.direct = F] /\ F \cup {o} = d2.direct \cup {o} /\ o \in F
    OBVIOUS
  <2> HIDE DEF d2, r, F
  <2>5. WellBut(r, {o}) /\ FlagsSet(d2, r, F)
    BY <2>1, <2>3, <2>4, FlagGood
  <2>6. Good(r)
    BY <2>4, <2>5 DEF Good, WellBut, Needed, FlagsSet
  <2> QED
    BY <2>2, <2>6
<1> QED
  BY <1>1, <1>2

(* The cleanup at the end of a TC leaves no unneeded node: the node of the *)
(* TC is kept by its timer, or, after a TC without a mandatory TLV, by     *)
(* edges that carry its number.                                            *)
LEMMA CleanupGood ==
  ASSUME NEW d, Good(d), NEW n \in d.nodes
  PROVE  Good(CleanupOldAnsn(d, n))
<1> DEFINE D == {m \in Nodes : <<n, m>> \in d.edges /\ d.eansn[<<n, m>>] # d.ansn[n]}
           d1 == olsrv2_tc_edge_remove(d, n, D)
           G == {x \in d1.nets : x[1] = n /\ d1.nansn[x] # d1.ansn[n]}
<1>1. n \in Nodes /\ D \in SUBSET Nodes /\ WellBut(d, {})
  BY DEF Good, WellBut, Databases
<1> HIDE DEF D
<1>2. WellBut(d1, {} \cup {n}) /\ EdgesRemoved(d, d1, n, D)
  BY <1>1, EdgeRemoveGood
<1> HIDE DEF d1
<1>3. n \in Needed(d1)
  <2>1. n \in Needed(d)
    BY DEF Good, WellBut
  <2>2. CASE n \in d.timer \/ n \in d.direct
    BY <2>2, <1>2 DEF Needed, EdgesRemoved
  <2>3. CASE n \notin d.timer /\ n \notin d.direct
    <3>1. \A m \in D : <<n, m>> \notin d.real
      <4> SUFFICES ASSUME NEW m \in D, <<n, m>> \in d.real PROVE FALSE
        OBVIOUS
      <4>1. <<n, m>>[1] = n
        OBVIOUS
      <4>2. d.eansn[<<n, m>>] = d.ansn[n]
        BY <4>1, <2>3 DEF Good, WellBut, Stamped
      <4> QED
        BY <4>2 DEF D
    <3>2. Unhooked(d, n, D) = {}
      BY <3>1 DEF Unhooked
    <3>3. EdgesWithout(d, n, D) = d.edges
      BY <3>2 DEF EdgesWithout
    <3> QED
      BY <3>3, <2>1, <1>2 DEF Needed, EdgesRemoved
  <2> QED
    BY <2>2, <2>3
<1>4. Good(d1)
  BY <1>2, <1>3 DEF Good, WellBut
<1>5. G \in SUBSET d1.nets
  OBVIOUS
<1>6. Good(olsrv2_tc_endpoint_remove(d1, G))
  BY <1>4, <1>5, EndpointRemoveGood DEF Good
<1> QED
  BY <1>6 DEF CleanupOldAnsn, d1, D

(* What the reader relies on while it adds edges and attachments: its      *)
(* pointer stays and no node goes away.                                    *)
Grows(d, r) == r.ref = d.ref /\ d.nodes \subseteq r.nodes

(* olsrv2_tc_edge_add called by the reader for an address of the TC. *)
LEMMA EdgeAddGrows ==
  ASSUME NEW d, Good(d), NEW n \in Nodes, NEW m \in Nodes, n \in d.nodes, n # m
  PROVE  Good(olsrv2_tc_edge_add(d, n, m)) /\ Grows(d, olsrv2_tc_edge_add(d, n, m))
  BY EdgeAddGood DEF Grows

(* olsrv2_tc_endpoint_add called by the reader for a network of the TC. *)
LEMMA EndpointAddGrows ==
  ASSUME NEW d, Good(d), NEW n \in Nodes, NEW p \in Prefixes, n \in d.nodes
  PROVE  Good(olsrv2_tc_endpoint_add(d, n, p)) /\ Grows(d, olsrv2_tc_endpoint_add(d, n, p))
  BY EndpointAddGood DEF Grows

-----------------------------------------------------------------------------
(***************************************************************************)
(* The inductive invariant: types, a well-formed database without unneeded *)
(* nodes, and, while a TC is read, a session that points to a node of the  *)
(* database and never asks for an edge from a node to itself.              *)
(***************************************************************************)
SessionSound == pc = "addr" => t.ref \in t.nodes /\ t.ref \notin cur.edges

IInv == TypeOK /\ Good(t) /\ SessionSound

(* The program starts in the invariant. *)
LEMMA InitIInv == Init => IInv
<1> SUFFICES ASSUME Init PROVE IInv
  OBVIOUS
<1>1. t \in Databases
  BY AnsnType DEF Init, EmptyDb, Databases
<1>2. TypeOK
  BY <1>1 DEF Init, TypeOK, EmptySession, Sessions
<1>3. /\ t.nodes = {} /\ t.timer = {} /\ t.direct = {} /\ t.edges = {} /\ t.real = {}
      /\ t.nets = {} /\ t.endpoints = {} /\ t.ref = NoNode
  BY DEF Init, EmptyDb
<1>4. Graph(t) /\ Stamped(t) /\ Needed(t) = {}
  BY <1>3 DEF Graph, Stamped, Needed
<1>5. Good(t)
  BY <1>1, <1>3, <1>4 DEF Good, WellBut
<1> QED
  BY <1>2, <1>5 DEF IInv, SessionSound, Init

(* The messages a router announces have the types of a session, and no     *)
(* router announces an edge to itself.                                     *)
LEMMA AdvertType ==
  ASSUME NEW o \in Senders, NEW v \in Versions
  PROVE  /\ Advert[o][v].edges \subseteq Nodes /\ Advert[o][v].nets \subseteq Prefixes
         /\ o \notin Advert[o][v].edges /\ o \in Nodes /\ v \in Nat
  BY TcAssumption DEF Adverts

(* The start of a TC. *)
LEMMA MessageIInv ==
  ASSUME IInv, NEW o \in Senders, NEW v \in Versions, NEW complete \in BOOLEAN, NEW part,
         _cb_messagetlvs(o, v, complete, part)
  PROVE  IInv'
<1> DEFINE d == olsrv2_tc_node_add(t, o, ValidityTime, Ansn(v))
           z == Ansn(v)
<1>1. /\ part.edges \subseteq Nodes /\ part.nets \subseteq Prefixes
      /\ o \notin part.edges /\ o \in Nodes /\ v \in Nat
  BY AdvertType DEF _cb_messagetlvs
<1>2. /\ ValidityTime \in Nat /\ ValidityTime > 0 /\ z \in Ansns /\ Good(t)
      /\ o \in t.nodes => ValidityTime > 0
  BY AnsnType DEF ValidityTime, IInv
<1>3. Good(d) /\ NodeAdded(t, d, o) /\ o \in d.timer
  BY <1>1, <1>2, NodeAddGood
<1>4. o \in d.nodes
  BY <1>3 DEF NodeAdded
<1>5. /\ ver' \in [Nodes -> Nat] /\ whole' \in SUBSET Nodes
      /\ norig' = norig /\ nold' = nold
  BY <1>1 DEF _cb_messagetlvs, IInv, TypeOK
<1>6. Idle
  BY DEF _cb_messagetlvs
<1>7. CASE /\ t' = [d EXCEPT !.ref = o]
           /\ cur' = [EmptySession EXCEPT !.complete = complete]
           /\ UNCHANGED pc
  <2> HIDE DEF d, z
  <2>1. Good(t')
    BY <1>3, <1>4, <1>7, PointerGood DEF Good
  <2>2. cur' \in Sessions
    BY <1>7 DEF EmptySession, Sessions
  <2>3. TypeOK'
    BY <2>1, <2>2, <1>5, <1>7 DEF IInv, TypeOK, Good, WellBut
  <2> QED
    BY <2>1, <2>3, <1>6, <1>7 DEF IInv, SessionSound, Idle
<1>8. CASE /\ t' = [d EXCEPT !.ansn = [@ EXCEPT ![o] = z], !.ref = o]
           /\ cur' = [complete |-> complete, failed |-> FALSE,
                      edges |-> part.edges, nets |-> part.nets]
           /\ pc' = "addr"
  <2> HIDE DEF d, z
  <2> DEFINE r == t'
  <2>0. r = [d EXCEPT !.ansn = [@ EXCEPT ![o] = z], !.ref = o] /\ z \in Ansns
    BY <1>2, <1>8
  <2> HIDE DEF r
  <2>a. Good(r) /\ PointsTo(d, r, o)
    BY <1>3, <1>4, <2>0, StampGood
  <2>1. Good(t') /\ t'.ref = o /\ t'.nodes = d.nodes
    BY <2>a DEF r, PointsTo
  <2>2. cur' \in Sessions /\ cur'.edges = part.edges
    BY <1>1, <1>8 DEF Sessions
  <2>3. TypeOK'
    BY <2>1, <2>2, <1>5, <1>8 DEF IInv, TypeOK, Good, WellBut
  <2> QED
    BY <2>1, <2>2, <2>3, <1>1, <1>4 DEF IInv, SessionSound
<1> QED
  BY <1>7, <1>8 DEF _cb_messagetlvs

(* The addresses and the end of a TC. *)
LEMMA ReadingIInv == IInv /\ Reading => IInv'
<1> SUFFICES ASSUME IInv, Reading PROVE IInv'
  OBVIOUS
<1>1. Good(t) /\ cur \in Sessions /\ pc = "addr" /\ t.ref \in t.nodes /\ t.ref \notin cur.edges
  BY DEF IInv, TypeOK, SessionSound, Reading, _cb_addresstlvs, _handle_gateways,
         _cb_messagetlvs_end
<1>2. t.ref \in Nodes
  BY <1>1 DEF Good, WellBut, Databases
<1>3. ASSUME NEW m \in Nodes, _cb_addresstlvs(m) PROVE IInv'
  <2>1. m \in cur.edges /\ m # t.ref
    BY <1>1, <1>3 DEF _cb_addresstlvs
  <2>2. cur' \in Sessions /\ cur'.edges \subseteq cur.edges
    BY <1>1, <1>3 DEF _cb_addresstlvs, Sessions
  <2>3. Good(t') /\ Grows(t, t')
    <3>1. CASE t' = olsrv2_tc_edge_add(t, t.ref, m)
      BY <3>1, <2>1, <1>1, <1>2, EdgeAddGrows
    <3>2. CASE UNCHANGED t
      BY <3>2, <1>1 DEF Grows
    <3> QED
      BY <3>1, <3>2, <1>3 DEF _cb_addresstlvs
  <2>4. pc' = pc /\ norig' = norig /\ nold' = nold /\ ver' = ver /\ whole' = whole
    BY <1>3 DEF _cb_addresstlvs
  <2>5. TypeOK'
    BY <2>2, <2>3, <2>4 DEF IInv, TypeOK, Good, WellBut
  <2> QED
    BY <2>2, <2>3, <2>5, <1>1 DEF IInv, SessionSound, Grows
<1>4. ASSUME NEW p \in Prefixes, _handle_gateways(p) PROVE IInv'
  <2>1. cur' \in Sessions /\ cur'.edges = cur.edges
    BY <1>1, <1>4 DEF _handle_gateways, Sessions
  <2>2. Good(t') /\ Grows(t, t')
    <3>1. CASE t' = olsrv2_tc_endpoint_add(t, t.ref, p)
      BY <3>1, <1>1, <1>2, EndpointAddGrows
    <3>2. CASE UNCHANGED t
      BY <3>2, <1>1 DEF Grows
    <3> QED
      BY <3>1, <3>2, <1>4 DEF _handle_gateways
  <2>3. pc' = pc /\ norig' = norig /\ nold' = nold /\ ver' = ver /\ whole' = whole
    BY <1>4 DEF _handle_gateways
  <2>4. TypeOK'
    BY <2>1, <2>2, <2>3 DEF IInv, TypeOK, Good, WellBut
  <2> QED
    BY <2>1, <2>2, <2>4, <1>1 DEF IInv, SessionSound, Grows
<1>5. ASSUME _cb_messagetlvs_end PROVE IInv'
  <2> DEFINE d == CleanupOldAnsn(t, t.ref)
  <2>1. Good(d)
    BY <1>1, CleanupGood
  <2>2. t' = [d EXCEPT !.ref = NoNode] /\ pc' = "idle"
    BY <1>5 DEF _cb_messagetlvs_end
  <2> HIDE DEF d
  <2>3. Good(t')
    BY <2>1, <2>2, PointerGood DEF Good
  <2>4. cur' \in Sessions /\ whole' \in SUBSET Nodes
    BY <1>2, <1>5 DEF _cb_messagetlvs_end, EmptySession, Sessions, IInv, TypeOK
  <2>5. norig' = norig /\ nold' = nold /\ ver' = ver
    BY <1>5 DEF _cb_messagetlvs_end
  <2>6. TypeOK'
    BY <2>2, <2>3, <2>4, <2>5 DEF IInv, TypeOK, Good, WellBut
  <2> QED
    BY <2>2, <2>3, <2>6 DEF IInv, SessionSound
<1> QED
  BY <1>3, <1>4, <1>5 DEF Reading

(* A TC that is dropped at once, and one that lacks a mandatory TLV. *)
LEMMA DroppedIInv ==
  ASSUME IInv, \/ TcIgnored
               \/ \E o \in Senders, v \in Versions : TcFailsConstraints(o, v)
  PROVE  IInv'
<1>1. Good(t)
  BY DEF IInv
<1>2. CASE TcIgnored
  <2>1. Good(t')
    BY <1>1, <1>2, PointerGood DEF Good, TcIgnored
  <2>2. TypeOK'
    BY <2>1, <1>2 DEF IInv, TypeOK, TcIgnored, EmptySession, Sessions, Good, WellBut
  <2> QED
    BY <2>1, <2>2, <1>2 DEF IInv, SessionSound, TcIgnored, Idle
<1>3. ASSUME NEW o \in Senders, NEW v \in Versions, TcFailsConstraints(o, v) PROVE IInv'
  <2>1. /\ t' = t /\ norig' = norig /\ nold' = nold /\ ver' = ver /\ whole' = whole
        /\ t.ref # NoNode
    BY <1>3 DEF TcFailsConstraints
  <2>2. CASE pc' = "undef" /\ UNCHANGED cur
    BY <1>1, <2>1, <2>2 DEF IInv, TypeOK, SessionSound
  <2>3. CASE /\ ~(t.ref = Freed \/ t.ref \in Advert[o][v].edges)
             /\ pc' = "addr"
             /\ cur' = [cur EXCEPT !.failed = FALSE, !.edges = Advert[o][v].edges,
                                   !.nets = Advert[o][v].nets]
    <3>1. cur' \in Sessions /\ cur'.edges = Advert[o][v].edges
      BY <2>3, AdvertType DEF IInv, TypeOK, Sessions
    <3>2. t.ref \in t.nodes
      BY <1>1, <2>1, <2>3 DEF Good, WellBut
    <3> QED
      BY <1>1, <2>1, <2>3, <3>1, <3>2 DEF IInv, TypeOK, SessionSound
  <2> QED
    BY <1>3, <2>2, <2>3 DEF TcFailsConstraints
<1> QED
  BY <1>2, <1>3

(* The end of a validity time. *)
LEMMA TimeoutIInv ==
  ASSUME IInv, NEW n \in Nodes, _cb_tc_node_timeout(n)
  PROVE  IInv'
<1>1. Good(t) /\ WellBut(t, {n})
  BY DEF IInv, Good, WellBut
<1>2. Good(t')
  BY <1>1, NodeRemoveGood DEF _cb_tc_node_timeout
<1>3. TypeOK'
  BY <1>2 DEF IInv, TypeOK, _cb_tc_node_timeout, Good, WellBut
<1> QED
  BY <1>2, <1>3 DEF IInv, SessionSound, _cb_tc_node_timeout, Idle

(* A neighbor gets an originator, with and without memory for its node. *)
LEMMA OriginatorIInv ==
  ASSUME IInv, NEW n \in Neighbors, NEW o \in Nodes \cup {NoNode},
         nhdp_db_neighbor_set_originator(n, o) \/ SetOriginatorNoMemory(n, o)
  PROVE  IInv'
<1>1. Good(t)
  BY DEF IInv
<1>2. Good(t')
  BY <1>1, NeighborChangeGood DEF nhdp_db_neighbor_set_originator, SetOriginatorNoMemory
<1>3. norig' \in [Neighbors -> Nodes \cup {NoNode}] /\ nold' \in [Neighbors -> Nodes \cup {NoNode}]
  BY DEF IInv, TypeOK, nhdp_db_neighbor_set_originator, SetOriginatorNoMemory
<1>4. pc = "idle" /\ pc' = pc /\ cur' = cur /\ ver' = ver /\ whole' = whole
  BY DEF nhdp_db_neighbor_set_originator, SetOriginatorNoMemory, Idle
<1>5. TypeOK'
  BY <1>2, <1>3, <1>4 DEF IInv, TypeOK, Good, WellBut
<1> QED
  BY <1>2, <1>4, <1>5 DEF IInv, SessionSound

(* A neighbor is removed. *)
LEMMA RemovedIInv ==
  ASSUME IInv, NEW n \in Neighbors, nhdp_db_neighbor_remove(n)
  PROVE  IInv'
<1>1. Good(t)
  BY DEF IInv
<1>2. Good(t')
  BY <1>1, NeighborRemoveGood DEF nhdp_db_neighbor_remove
<1>3. TypeOK'
  BY <1>2 DEF IInv, TypeOK, nhdp_db_neighbor_remove, Good, WellBut
<1> QED
  BY <1>2, <1>3 DEF IInv, SessionSound, nhdp_db_neighbor_remove, Idle

(* The shutdown. *)
LEMMA CleanupIInv ==
  ASSUME IInv, olsrv2_tc_cleanup
  PROVE  IInv'
<1> DEFINE e == [t EXCEPT !.edges = {}, !.real = {}, !.nets = {}, !.endpoints = {},
                          !.timer = {}]
           S == t.nodes \ t.direct
<1>1. Good(t) /\ t \in Databases /\ S \in SUBSET Nodes /\ t.direct \subseteq t.nodes
  BY DEF IInv, Good, WellBut, Databases, Needed
<1>2. /\ e \in Databases /\ e.edges = {} /\ e.real = {} /\ e.nets = {} /\ e.endpoints = {}
      /\ e.timer = {} /\ e.nodes = t.nodes /\ e.direct = t.direct /\ e.ref = t.ref
  BY <1>1 DEF Databases
<1>3. t' = Free(e, S) /\ pc' = "stopped"
  BY DEF olsrv2_tc_cleanup
<1> HIDE DEF e
<1>4. /\ t' \in Databases /\ t'.edges = {} /\ t'.real = {} /\ t'.nets = {}
      /\ t'.endpoints = {} /\ t'.timer = {} /\ t'.nodes = t.nodes \ S
      /\ t'.direct = t.direct /\ t'.ref = PointerAfterFree(e, S)
  BY <1>1, <1>2, <1>3, FreeFields
<1>5. t'.ref \in t'.nodes \cup {NoNode, Freed}
  BY <1>1, <1>2, <1>4 DEF PointerAfterFree, Good, WellBut
<1>6. Graph(t') /\ Stamped(t')
  BY <1>4 DEF Graph, Stamped
<1>7. Needed(t') = t'.direct /\ t'.nodes = t'.direct
  BY <1>1, <1>4 DEF Needed
<1>8. Good(t')
  BY <1>4, <1>5, <1>6, <1>7 DEF Good, WellBut
<1>9. TypeOK'
  BY <1>3, <1>4 DEF IInv, TypeOK, olsrv2_tc_cleanup
<1> QED
  BY <1>3, <1>8, <1>9 DEF IInv, SessionSound

(* Every step preserves the invariant. *)
LEMMA NextIInv == IInv /\ [Next]_vars => IInv'
<1> SUFFICES ASSUME IInv, [Next]_vars PROVE IInv'
  OBVIOUS
<1>1. CASE UNCHANGED vars
  BY <1>1 DEF vars, IInv, TypeOK, SessionSound, Idle
<1>2. ASSUME NEW o \in Senders, ReceiveTc(o) PROVE IInv'
  BY <1>2, MessageIInv DEF ReceiveTc
<1>3. CASE TcIgnored \/ \E o \in Senders, v \in Versions : TcFailsConstraints(o, v)
  BY <1>3, DroppedIInv
<1>4. CASE Reading
  BY <1>4, ReadingIInv
<1>5. ASSUME NEW n \in Nodes, _cb_tc_node_timeout(n) PROVE IInv'
  BY <1>5, TimeoutIInv
<1>6. ASSUME NEW n \in Neighbors, NEW o \in Nodes \cup {NoNode},
             nhdp_db_neighbor_set_originator(n, o) \/ SetOriginatorNoMemory(n, o)
      PROVE  IInv'
  BY <1>6, OriginatorIInv
<1>7. ASSUME NEW n \in Neighbors, nhdp_db_neighbor_remove(n) PROVE IInv'
  BY <1>7, RemovedIInv
<1>8. CASE olsrv2_tc_cleanup
  BY <1>8, CleanupIInv
<1>9. CASE OrderlyNext
  <2>1. CASE \E n \in Neighbors, o \in Nodes : FirstOriginator(n, o)
    BY <2>1, <1>6 DEF FirstOriginator
  <2>2. CASE NeighborRemoved
    BY <2>2, <1>7 DEF NeighborRemoved
  <2> QED
    BY <1>2, <1>3, <1>4, <1>5, <1>9, <2>1, <2>2 DEF OrderlyNext
<1>10. CASE OriginatorMoves
  BY <1>6, <1>10 DEF OriginatorMoves
<1>11. CASE \E n \in Neighbors, o \in Nodes : SetOriginatorNoMemory(n, o)
  BY <1>6, <1>11
<1>12. CASE Halted
  BY <1>1, <1>12 DEF Halted
<1> QED
  BY <1>1, <1>3, <1>8, <1>9, <1>10, <1>11, <1>12 DEF Next

(***************************************************************************)
(* The invariant holds in every reachable state.  It says among others     *)
(* that the reader adds edges and networks to a node that is in the        *)
(* database, never to one that was freed, as long as it has not been led   *)
(* into a dangling session (pc = "undef").                                 *)
(***************************************************************************)
THEOREM Invariance == Spec => []IInv
  BY InitIInv, NextIInv, PTL DEF Spec

(***************************************************************************)
(* Every variable keeps its type.                                          *)
(***************************************************************************)
THEOREM TypeCorrect == Spec => []TypeOK
<1>1. IInv => TypeOK
  BY DEF IInv
<1> QED
  BY <1>1, Invariance, PTL

(***************************************************************************)
(* Whatever the order of TCs, timeouts, NHDP events and failed             *)
(* allocations, every edge has its inverse, both ends are in the tree, one *)
(* of the two directions was announced, and the endpoints are exactly the  *)
(* attached ones.                                                          *)
(***************************************************************************)
THEOREM GraphAlwaysSound == Spec => []GraphSound
<1>1. IInv => GraphSound
  BY DEF IInv, Good, WellBut, GraphSound
<1> QED
  BY <1>1, Invariance, PTL

(***************************************************************************)
(* olsrv2_tc_node_remove and _remove_edge together free every node that    *)
(* nothing needs and no other: there is no leak and no missing node.       *)
(***************************************************************************)
THEOREM NodesAlwaysNeeded == Spec => []NodesNeeded
<1>1. IInv => NodesNeeded
  BY DEF IInv, Good, WellBut, NodesNeeded
<1> QED
  BY <1>1, Invariance, PTL

-----------------------------------------------------------------------------
(***************************************************************************)
(* What is stored of a router is what one of its announcements said, the   *)
(* newest one that was read: from here on for OrderlySpec, in which TCs    *)
(* are well formed and neighbors keep their originator, while TCs are      *)
(* still lost, repeated, delayed, fragmented, refused and read with        *)
(* exhausted memory, and every validity time may end at any moment.        *)
(*                                                                         *)
(* The proofs above show that the database is well formed; these follow    *)
(* the numbers stamped on edges and attached networks.                     *)
(***************************************************************************)

(* Only routers whose validity time runs announce something. *)
Silent(d) ==
    /\ \A e \in d.real : e[1] \in d.timer
    /\ \A x \in d.nets : x[1] \in d.timer

(* An edge or an attached network of o that carries the number of o. *)
Fresh(d, o, m) == <<o, m>> \in d.real /\ d.eansn[<<o, m>>] = d.ansn[o]
FreshNet(d, o, p) == <<o, p>> \in d.nets /\ d.nansn[<<o, p>>] = d.ansn[o]

(* The number of o is that of version v, and what carries it was announced *)
(* as version v.                                                           *)
Says(d, o, v) ==
    /\ d.ansn[o] = Ansn(v)
    /\ \A m \in Nodes : Fresh(d, o, m) => m \in Advert[o][v].edges
    /\ \A p \in Prefixes : FreshNet(d, o, p) => p \in Advert[o][v].nets

(* Nothing of o carries another number. *)
Clean(d, o) ==
    /\ \A m \in Nodes : <<o, m>> \in d.real => Fresh(d, o, m)
    /\ \A p \in Prefixes : <<o, p>> \in d.nets => FreshNet(d, o, p)

(* The edges to E and the networks P are stored with the number of o. *)
Has(d, o, E, P) ==
    /\ \A m \in E : Fresh(d, o, m)
    /\ \A p \in P : FreshNet(d, o, p)

(* A step of the database leaves alone what o announced. *)
Same(d, r, o) ==
    /\ r.ansn[o] = d.ansn[o]
    /\ \A m \in Nodes : /\ <<o, m>> \in r.real <=> <<o, m>> \in d.real
                        /\ r.eansn[<<o, m>>] = d.eansn[<<o, m>>]
    /\ \A p \in Prefixes : /\ <<o, p>> \in r.nets <=> <<o, p>> \in d.nets
                           /\ r.nansn[<<o, p>>] = d.nansn[<<o, p>>]

-----------------------------------------------------------------------------
(* Answer set numbers.                                                     *)

(* What the division theorem gives for one number. *)
LEMMA Division ==
  ASSUME NEW M \in Nat, M > 0, NEW a \in Int
  PROVE  a \div M \in Int /\ a % M \in 0..M - 1 /\ a = M * (a \div M) + (a % M)
  OBVIOUS

(* The number space has two halves. *)
LEMMA TwoHalves == Half \in Nat /\ AnsnMod \in Nat /\ AnsnMod = 2 * Half /\ AnsnMod > 0
<1>1. AnsnMod \in Nat /\ AnsnMod > 0 /\ AnsnMod % 2 = 0
  BY TcAssumption
<1> QED
  BY <1>1 DEF Half

(* Two versions less than half the space apart: how their numbers differ. *)
LEMMA Distance ==
  ASSUME NEW v \in Nat, NEW w \in Nat, v - w < Half, w - v < Half
  PROVE  /\ Ansn(v) \in Int /\ Ansn(w) \in Int
         /\ \/ Ansn(v) - Ansn(w) = v - w
            \/ Ansn(v) - Ansn(w) = v - w + AnsnMod /\ v < w
            \/ Ansn(v) - Ansn(w) = v - w - AnsnMod /\ v > w
<1> DEFINE M == AnsnMod
           qv == v \div M
           qw == w \div M
           rv == v % M
           rw == w % M
<1>1. M \in Nat /\ M > 0 /\ Half \in Nat /\ M = 2 * Half
  BY TwoHalves
<1>2. /\ qv \in Int /\ rv \in 0..M - 1 /\ v = M * qv + rv
      /\ qw \in Int /\ rw \in 0..M - 1 /\ w = M * qw + rw
  BY <1>1, Division
<1> HIDE DEF M, qv, qw, rv, rw
<1>3. rv \in Int /\ rw \in Int /\ rv - rw < M /\ rw - rv < M /\ qw - qv \in Int
  BY <1>1, <1>2
<1> DEFINE x == (rv - rw) - (v - w)
           q == qw - qv
<1>4. x = M * q /\ x \in Int /\ q \in Int
  BY <1>1, <1>2, <1>3
<1>5. x < 2 * M /\ -(2 * M) < x
  BY <1>1, <1>2, <1>3
<1> HIDE DEF x, q
<1>6. CASE q >= 2
  <2>1. M * q >= 2 * M
    BY <1>1, <1>4, <1>6
  <2> QED
    BY <2>1, <1>1, <1>4, <1>5
<1>7. CASE q <= -2
  <2>1. M * q <= -(2 * M)
    BY <1>1, <1>4, <1>7
  <2> QED
    BY <2>1, <1>1, <1>4, <1>5
<1>8. CASE q = 0
  BY <1>1, <1>3, <1>4, <1>8 DEF Ansn, M, rv, rw, x
<1>9. CASE q = 1
  <2>1. x = M
    BY <1>1, <1>4, <1>9
  <2>2. rv - rw = v - w + M
    BY <2>1, <1>1, <1>3 DEF x
  <2>3. v < w
    BY <2>2, <1>1, <1>3
  <2> QED
    BY <2>2, <2>3, <1>3 DEF Ansn, M, rv, rw
<1>10. CASE q = -1
  <2>1. x = -M
    BY <1>1, <1>4, <1>10
  <2>2. rv - rw = v - w - M
    BY <2>1, <1>1, <1>3 DEF x
  <2>3. v > w
    BY <2>2, <1>1, <1>3
  <2> QED
    BY <2>2, <2>3, <1>3 DEF Ansn, M, rv, rw
<1> QED
  BY <1>4, <1>6, <1>7, <1>8, <1>9, <1>10

(***************************************************************************)
(* The comparison of rfc5444_seqno_is_larger is that of the versions,      *)
(* across the rollover too, and different versions have different numbers. *)
(***************************************************************************)
LEMMA NumbersOrdered ==
  ASSUME NEW v \in Versions, NEW w \in Versions
  PROVE  /\ Ansn(v) = Ansn(w) <=> v = w
         /\ rfc5444_seqno_is_larger(Ansn(v), Ansn(w)) <=> v > w
         /\ v \in Nat /\ w \in Nat
<1>1. v \in Nat /\ w \in Nat /\ v - w < Half /\ w - v < Half
  BY TcAssumption
<1>2. /\ Ansn(v) \in Int /\ Ansn(w) \in Int
      /\ \/ Ansn(v) - Ansn(w) = v - w
         \/ Ansn(v) - Ansn(w) = v - w + AnsnMod /\ v < w
         \/ Ansn(v) - Ansn(w) = v - w - AnsnMod /\ v > w
  BY <1>1, Distance
<1> QED
  BY <1>1, <1>2, TwoHalves DEF rfc5444_seqno_is_larger

-----------------------------------------------------------------------------
(* What the functions of olsrv2_tc.c do to announcements.                  *)

(* What o announced is the same as before: so it says, is and has what it  *)
(* said, was and had before.                                               *)
LEMMA SameKeeps ==
  ASSUME NEW d, NEW r, NEW o, Same(d, r, o)
  PROVE  /\ \A v : Says(d, o, v) => Says(r, o, v)
         /\ Clean(d, o) => Clean(r, o)
         /\ \A E \in SUBSET Nodes, P \in SUBSET Prefixes : Has(d, o, E, P) => Has(r, o, E, P)
  BY DEF Same, Says, Clean, Has, Fresh, FreshNet

(* olsrv2_tc_edge_remove in a database in which virtual nodes are silent:  *)
(* of n the edges to D go, of the others and of the networks nothing.      *)
Trimmed(d, r, n, D) ==
    /\ r.timer = d.timer /\ r.direct = d.direct
    /\ r.nets = d.nets
    /\ \A x \in Attachments : r.nansn[x] = d.nansn[x]
    /\ Silent(r)
    /\ \A o \in d.timer : r.ansn[o] = d.ansn[o]
    /\ \A o \in d.timer \ {n} : Same(d, r, o)
    /\ \A m \in Nodes : <<n, m>> \in r.real <=> <<n, m>> \in d.real /\ m \notin D
    /\ \A m \in Nodes \ D : r.eansn[<<n, m>>] = d.eansn[<<n, m>>]

(* Only virtual nodes are orphans, and they have nothing attached. *)
LEMMA EdgeRemoveTrims ==
  ASSUME NEW d \in Databases, Silent(d), NEW n \in Nodes, NEW D \in SUBSET Nodes
  PROVE  Trimmed(d, olsrv2_tc_edge_remove(d, n, D), n, D)
<1> DEFINE G == OrphanNets(d, n, D)
           F == Orphans(d, n, D) \ d.direct
           r == olsrv2_tc_edge_remove(d, n, D)
<1>1. /\ r \in Databases
      /\ r.edges = EdgesWithout(d, n, D)
      /\ r.real = RealWithout(d, n, D)
      /\ \A e \in Pairs : ~(e[1] = n /\ e[2] \in D) => r.eansn[e] = d.eansn[e]
      /\ r.nodes = d.nodes \ F
      /\ r.timer = d.timer /\ r.direct = d.direct
      /\ r.nets = d.nets \ G /\ r.endpoints = EndpointsWithout(d, G)
      /\ r.ref = PointerAfterFree(d, F)
      /\ \A m \in Nodes \ F : r.ansn[m] = d.ansn[m]
      /\ \A x \in Attachments \ G : r.nansn[x] = d.nansn[x]
  BY EdgeRemoveFields
<1>2. G = {}
  BY DEF OrphanNets, Orphans, Silent
<1>3. \A o \in d.timer : o \in Nodes \ F
  BY DEF Orphans, Databases
<1> HIDE DEF r, G, F
<1>4. \A o, m \in Nodes : /\ <<o, m>> \in Pairs /\ <<o, m>>[1] = o /\ <<o, m>>[2] = m
                          /\ <<o, m>> \in r.real <=> <<o, m>> \in d.real /\ ~(o = n /\ m \in D)
  BY <1>1 DEF Pairs, RealWithout
<1>5. Silent(r)
  BY <1>1, <1>2 DEF Silent, RealWithout
<1>6. \A o \in Nodes, p \in Prefixes : <<o, p>> \in Attachments
  BY DEF Attachments
<1>7. ASSUME NEW o \in d.timer \ {n} PROVE Same(d, r, o)
  BY <1>1, <1>2, <1>3, <1>4, <1>6 DEF Same
<1>8. Trimmed(d, r, n, D)
  BY <1>1, <1>2, <1>3, <1>4, <1>5, <1>7 DEF Trimmed
<1> QED
  BY <1>8 DEF r

(* A step that takes at most the timer of n away and leaves alone what the *)
(* other routers announced.                                                *)
Spares(d, r, n) ==
    /\ r.timer = d.timer \ {n}
    /\ Silent(r)
    /\ \A o \in d.timer \ {n} : Same(d, r, o)

(* olsrv2_tc_node_remove: the other routers keep what they announced. *)
LEMMA NodeRemoveSpares ==
  ASSUME NEW d \in Databases, Silent(d), NEW n \in Nodes
  PROVE  LET r == olsrv2_tc_node_remove(d, n)
         IN  Spares(d, r, n) /\ r.direct = d.direct
<1> DEFINE d1 == olsrv2_tc_edge_remove(d, n, Nodes)
           G == {x \in d1.nets : x[1] = n}
           d2 == olsrv2_tc_endpoint_remove(d1, G)
           d3 == [d2 EXCEPT !.timer = @ \ {n}]
           F == IF Touches(d2.edges, n) \/ n \in d2.direct THEN {} ELSE {n}
           r == Free(d3, F)
<1>1. Trimmed(d, d1, n, Nodes) /\ d1 \in Databases
  BY EdgeRemoveTrims, EdgeRemoveFields
<1> HIDE DEF d1
<1>2. G \in SUBSET Attachments
  BY <1>1 DEF Databases
<1>3. /\ d2 \in Databases /\ d2.nets = d1.nets \ G
      /\ d2.timer = d1.timer /\ d2.direct = d1.direct /\ d2.real = d1.real
      /\ d2.eansn = d1.eansn /\ d2.ansn = d1.ansn
      /\ \A x \in Attachments \ G : d2.nansn[x] = d1.nansn[x]
  BY <1>1, <1>2, EndpointRemoveFields
<1> HIDE DEF d2
<1>4. /\ d3 \in Databases /\ d3.timer = d2.timer \ {n}
      /\ d3.direct = d2.direct /\ d3.real = d2.real /\ d3.nets = d2.nets
      /\ d3.eansn = d2.eansn /\ d3.ansn = d2.ansn /\ d3.nansn = d2.nansn
  BY <1>3 DEF Databases
<1>5. F \in SUBSET Nodes /\ F \subseteq {n}
  OBVIOUS
<1> HIDE DEF d3, F
<1>6. /\ r \in Databases /\ r.timer = d3.timer /\ r.direct = d3.direct
      /\ r.real = d3.real /\ r.nets = d3.nets
      /\ r.eansn = d3.eansn /\ r.nansn = d3.nansn
      /\ \A m \in Nodes \ F : r.ansn[m] = d3.ansn[m]
  BY <1>4, <1>5, FreeFields
<1>7. olsrv2_tc_node_remove(d, n) = r
  BY DEF olsrv2_tc_node_remove, FreeNode, r, d3, F, d2, d1, G
<1> HIDE DEF r
<1>8. \A e \in d1.real : e[1] \in Nodes /\ e[2] \in Nodes /\ e = <<e[1], e[2]>>
  BY <1>1 DEF Databases, Pairs
<1>9. \A e \in d1.real : e[1] # n
  BY <1>1, <1>8 DEF Trimmed
<1>10. Silent(r)
  BY <1>1, <1>3, <1>4, <1>6, <1>9 DEF Trimmed, Silent
<1>11. d.timer \subseteq Nodes
  BY DEF Databases
<1>12. ASSUME NEW o \in d.timer \ {n} PROVE Same(d, r, o)
  <2>1. Same(d, d1, o)
    BY <1>1 DEF Trimmed
  <2>2. \A p \in Prefixes : <<o, p>> \in Attachments \ G
    BY <1>11 DEF Attachments
  <2>3. o \in Nodes \ F
    BY <1>5, <1>11
  <2> HIDE DEF G
  <2> QED
    BY <2>1, <2>2, <2>3, <1>3, <1>4, <1>6 DEF Same
<1>13. r.timer = d.timer \ {n} /\ r.direct = d.direct
  BY <1>1, <1>3, <1>4, <1>6 DEF Trimmed
<1> QED
  BY <1>7, <1>10, <1>12, <1>13 DEF Spares

(* A step that leaves alone everything that was announced. *)
Untouched(d, r) ==
    /\ r.timer = d.timer
    /\ Silent(r)
    /\ \A o \in d.timer : Same(d, r, o)

(* The direct_neighbor flags have nothing to do with announcements. *)
LEMMA FlagUntouched ==
  ASSUME NEW d \in Databases, Silent(d), NEW F \in SUBSET Nodes, NEW r,
         r = [d EXCEPT !.direct = F]
  PROVE  Untouched(d, r) /\ r \in Databases /\ r.direct = F /\ r.nodes = d.nodes
<1>1. /\ r \in Databases /\ r.nodes = d.nodes /\ r.timer = d.timer
      /\ r.direct = F /\ r.real = d.real
      /\ r.nets = d.nets /\ r.eansn = d.eansn
      /\ r.ansn = d.ansn /\ r.nansn = d.nansn
  BY DEF Databases
<1> QED
  BY <1>1 DEF Untouched, Silent, Same

(* Two steps that leave everything alone. *)
LEMMA UntouchedTwice ==
  ASSUME NEW d, NEW r, NEW s, Untouched(d, r), Untouched(r, s)
  PROVE  Untouched(d, s)
  BY DEF Untouched, Same

(* _cb_neighbor_remove: a virtual node that goes had announced nothing. *)
LEMMA NeighborRemoveUntouched ==
  ASSUME NEW d \in Databases, Silent(d), d.direct \subseteq d.nodes, NEW o
  PROVE  LET r == _cb_neighbor_remove(d, o)
         IN  Untouched(d, r) /\ r.direct = d.direct \ {o}
<1> DEFINE d1 == [d EXCEPT !.direct = @ \ {o}]
           r == olsrv2_tc_node_remove(d1, o)
<1>1. CASE o \notin d.nodes
  <2>1. _cb_neighbor_remove(d, o) = d
    BY <1>1 DEF _cb_neighbor_remove
  <2> QED
    BY <2>1, <1>1 DEF Untouched, Same
<1>2. CASE o \in d.nodes
  <2> DEFINE F == d.direct \ {o}
  <2>1. F \in SUBSET Nodes /\ o \in Nodes /\ d1 = [d EXCEPT !.direct = F]
    BY <1>2 DEF Databases
  <2> HIDE DEF F, d1
  <2>2. Untouched(d, d1) /\ d1 \in Databases /\ d1.direct = F
    BY <2>1, FlagUntouched
  <2>3. CASE o \in d.timer
    <3>1. _cb_neighbor_remove(d, o) = d1
      BY <1>2, <2>3 DEF _cb_neighbor_remove, d1
    <3> QED
      BY <3>1, <2>2 DEF F
  <2>4. CASE o \notin d.timer
    <3>1. _cb_neighbor_remove(d, o) = r
      BY <1>2, <2>4 DEF _cb_neighbor_remove, d1
    <3>2. Silent(d1)
      BY <2>2 DEF Untouched
    <3>3. Spares(d1, r, o) /\ r.direct = d1.direct
      BY <2>1, <2>2, <3>2, NodeRemoveSpares
    <3> HIDE DEF r
    <3>4. d1.timer \ {o} = d1.timer
      BY <2>2, <2>4 DEF Untouched
    <3>5. Untouched(d1, r)
      BY <3>3, <3>4 DEF Spares, Untouched
    <3>6. Untouched(d, r)
      BY <3>5, <2>2, UntouchedTwice
    <3> QED
      BY <3>1, <3>3, <3>6, <2>2 DEF F
  <2> QED
    BY <2>3, <2>4
<1> QED
  BY <1>1, <1>2

(* What olsrv2_tc_node_add changes, and what it leaves. *)
NodeFields(d, r, o, vtime, z) ==
    /\ r \in Databases
    /\ r.nodes = d.nodes \cup {o}
    /\ r.timer = IF vtime > 0 THEN d.timer \cup {o} ELSE d.timer \ {o}
    /\ r.ansn = IF o \in d.nodes /\ o \in d.timer THEN d.ansn ELSE [d.ansn EXCEPT ![o] = z]
    /\ r.direct = d.direct /\ r.edges = d.edges /\ r.real = d.real
    /\ r.nets = d.nets /\ r.ref = d.ref /\ r.endpoints = d.endpoints
    /\ r.eansn = d.eansn /\ r.nansn = d.nansn

(* olsrv2_tc_node_add, field by field. *)
LEMMA NodeAddFields ==
  ASSUME NEW d \in Databases, NEW o \in Nodes, NEW vtime \in Nat, NEW z \in Ansns
  PROVE  NodeFields(d, olsrv2_tc_node_add(d, o, vtime, z), o, vtime, z)
  BY DEF NodeFields, olsrv2_tc_node_add, Databases

(* A virtual node is added for an edge or for a neighbor. *)
LEMMA VirtualAddUntouched ==
  ASSUME NEW d \in Databases, Silent(d), NEW o \in Nodes, o \notin d.timer
  PROVE  LET r == olsrv2_tc_node_add(d, o, 0, 0)
         IN  Untouched(d, r) /\ r \in Databases /\ r.direct = d.direct
<1> DEFINE r == olsrv2_tc_node_add(d, o, 0, 0)
<1>1. 0 \in Nat /\ 0 \in Ansns /\ ~(0 > 0)
  BY AnsnType
<1>2. NodeFields(d, r, o, 0, 0)
  BY <1>1, NodeAddFields
<1> HIDE DEF r
<1>3. r.timer = d.timer
  BY <1>1, <1>2 DEF NodeFields
<1>4. d.ansn \in [Nodes -> Ansns] /\ d.timer \subseteq Nodes
  BY DEF Databases
<1>5. \A q \in d.timer : r.ansn[q] = d.ansn[q]
  BY <1>2, <1>4 DEF NodeFields
<1> QED
  BY <1>2, <1>3, <1>5 DEF r, NodeFields, Untouched, Silent, Same

(* _cb_neighbor_change for a neighbor that had no originator. *)
LEMMA NeighborChangeUntouched ==
  ASSUME NEW d \in Databases, Silent(d), d.direct \subseteq d.nodes, d.timer \subseteq d.nodes,
         NEW o \in Nodes, NEW old, o # old, Good(d)
  PROVE  LET r == _cb_neighbor_change(d, o, old)
         IN  Untouched(d, r) /\ r.direct = d.direct \cup {o}
<1> DEFINE d1 == _cb_neighbor_remove(d, o)
           d2 == IF o \in d1.nodes THEN d1 ELSE olsrv2_tc_node_add(d1, o, 0, 0)
           F == d2.direct \cup {o}
           r == [d2 EXCEPT !.direct = F]
<1>1. o # NoNode
  BY TcAssumption
<1>2. _cb_neighbor_change(d, o, old) = r
  BY <1>1 DEF _cb_neighbor_change
<1>3. Untouched(d, d1) /\ d1.direct = d.direct \ {o}
  BY NeighborRemoveUntouched
<1>4. Good(d1)
  BY NeighborRemoveGood
<1> HIDE DEF d1
<1>5. d1 \in Databases /\ Silent(d1) /\ d1.timer \subseteq d1.nodes
  BY <1>3, <1>4 DEF Good, WellBut, Untouched, Needed
<1>6. Untouched(d, d2) /\ d2 \in Databases /\ d2.direct = d.direct \ {o}
  <2>1. CASE o \in d1.nodes
    BY <2>1, <1>3, <1>5
  <2>2. CASE o \notin d1.nodes
    <3> DEFINE x == olsrv2_tc_node_add(d1, o, 0, 0)
    <3>1. Untouched(d1, x) /\ x \in Databases /\ x.direct = d1.direct
      BY <1>5, <2>2, VirtualAddUntouched
    <3>2. d2 = x
      BY <2>2
    <3> HIDE DEF x, d2
    <3> QED
      BY <3>1, <3>2, <1>3, UntouchedTwice
  <2> QED
    BY <2>1, <2>2
<1> HIDE DEF d2
<1>7. F \in SUBSET Nodes /\ F = d.direct \cup {o} /\ Silent(d2)
  BY <1>6 DEF Databases, Untouched
<1> HIDE DEF F
<1>8. r = [d2 EXCEPT !.direct = F]
  OBVIOUS
<1> HIDE DEF r
<1>9. Untouched(d2, r) /\ r.direct = F
  BY <1>6, <1>7, <1>8, FlagUntouched
<1> QED
  BY <1>2, <1>6, <1>7, <1>9, UntouchedTwice

(* The reader stores the edges to E and the networks P of n; the rest of n *)
(* and all of the others stay.                                             *)
Stores(d, r, n, E, P) ==
    /\ r.timer = d.timer /\ r.direct = d.direct
    /\ Silent(r)
    /\ \A o \in d.timer \ {n} : Same(d, r, o)
    /\ r.ansn[n] = d.ansn[n]
    /\ Has(r, n, E, P)
    /\ \A m \in Nodes \ E : Fresh(r, n, m) <=> Fresh(d, n, m)
    /\ \A p \in Prefixes \ P : FreshNet(r, n, p) <=> FreshNet(d, n, p)

(* olsrv2_tc_edge_add with the reader's stamp. *)
LEMMA EdgeAddStores ==
  ASSUME NEW d \in Databases, Silent(d), d.timer \subseteq d.nodes,
         NEW n \in d.timer, NEW m \in Nodes, n # m
  PROVE  Stores(d, olsrv2_tc_edge_add(d, n, m), n, {m}, {})
<1> DEFINE d1 == IF m \in d.nodes THEN d ELSE olsrv2_tc_node_add(d, m, 0, 0)
           r == olsrv2_tc_edge_add(d, n, m)
<1>1. Untouched(d, d1) /\ d1 \in Databases /\ d1.direct = d.direct
  <2>1. CASE m \in d.nodes
    BY <2>1 DEF Untouched, Same
  <2>2. CASE m \notin d.nodes
    BY <2>2, VirtualAddUntouched
  <2> QED
    BY <2>1, <2>2
<1>2. n \in Nodes /\ d.ansn[n] \in Ansns /\ <<n, m>> \in Pairs
  BY DEF Databases, Pairs
<1>3. r = [d1 EXCEPT !.edges = @ \cup {<<n, m>>, <<m, n>>},
                     !.real  = @ \cup {<<n, m>>},
                     !.eansn = [@ EXCEPT ![<<n, m>>] = d.ansn[n]]]
  BY DEF olsrv2_tc_edge_add
<1> HIDE DEF d1, r
<1>4. /\ r.real = d1.real \cup {<<n, m>>}
      /\ r.eansn = [d1.eansn EXCEPT ![<<n, m>>] = d.ansn[n]]
      /\ r.timer = d1.timer /\ r.direct = d1.direct
      /\ r.ansn = d1.ansn /\ r.nets = d1.nets /\ r.nansn = d1.nansn
  BY <1>1, <1>3 DEF Databases
<1>5. d1.eansn \in [Pairs -> Ansns]
  BY <1>1 DEF Databases
<1>6. r.eansn[<<n, m>>] = d.ansn[n] /\ \A e \in Pairs : e # <<n, m>> => r.eansn[e] = d1.eansn[e]
  BY <1>2, <1>4, <1>5
<1>7. Silent(r)
  <2>1. <<n, m>>[1] = n
    OBVIOUS
  <2> QED
    BY <2>1, <1>1, <1>4 DEF Untouched, Silent
<1>8. Same(d, d1, n)
  BY <1>1 DEF Untouched
<1>9. \A o \in Nodes, k \in Nodes : <<o, k>> \in Pairs /\ (<<o, k>> = <<n, m>> <=> o = n /\ k = m)
  BY DEF Pairs
<1>10. ASSUME NEW o \in d.timer \ {n} PROVE Same(d, r, o)
  <2>1. Same(d, d1, o) /\ o \in Nodes
    BY <1>1 DEF Untouched, Databases
  <2> QED
    BY <2>1, <1>2, <1>4, <1>6, <1>9 DEF Same
<1>11. r.ansn[n] = d.ansn[n]
  BY <1>4, <1>8 DEF Same
<1>12. Has(r, n, {m}, {})
  BY <1>4, <1>6, <1>11 DEF Has, Fresh
<1>13. \A k \in Nodes \ {m} : Fresh(r, n, k) <=> Fresh(d, n, k)
  BY <1>2, <1>4, <1>6, <1>8, <1>9, <1>11 DEF Fresh, Same
<1>14. \A p \in Prefixes : FreshNet(r, n, p) <=> FreshNet(d, n, p)
  BY <1>4, <1>8, <1>11 DEF FreshNet, Same
<1>15. Stores(d, r, n, {m}, {})
  BY <1>1, <1>4, <1>7, <1>10, <1>11, <1>12, <1>13, <1>14 DEF Stores, Untouched
<1> QED
  BY <1>15 DEF r

(* olsrv2_tc_endpoint_add with the reader's stamp. *)
LEMMA EndpointAddStores ==
  ASSUME NEW d \in Databases, Silent(d), NEW n \in d.timer, NEW p \in Prefixes
  PROVE  Stores(d, olsrv2_tc_endpoint_add(d, n, p), n, {}, {p})
<1> DEFINE r == olsrv2_tc_endpoint_add(d, n, p)
<1>1. n \in Nodes /\ d.ansn[n] \in Ansns /\ <<n, p>> \in Attachments
  BY DEF Databases, Attachments
<1>2. /\ r.nets = d.nets \cup {<<n, p>>}
      /\ r.nansn = [d.nansn EXCEPT ![<<n, p>>] = d.ansn[n]]
      /\ r.timer = d.timer /\ r.direct = d.direct
      /\ r.ansn = d.ansn /\ r.real = d.real /\ r.eansn = d.eansn
  BY DEF olsrv2_tc_endpoint_add, Databases
<1> HIDE DEF r
<1>3. d.nansn \in [Attachments -> Ansns] /\ d.timer \subseteq Nodes
  BY DEF Databases
<1>4. r.nansn[<<n, p>>] = d.ansn[n] /\ \A x \in Attachments : x # <<n, p>> => r.nansn[x] = d.nansn[x]
  BY <1>1, <1>2, <1>3
<1>5. Silent(r)
  <2>1. <<n, p>>[1] = n
    OBVIOUS
  <2> QED
    BY <2>1, <1>2 DEF Silent
<1>6. \A o \in Nodes, k \in Prefixes : <<o, k>> \in Attachments /\ (<<o, k>> = <<n, p>> <=> o = n /\ k = p)
  BY DEF Attachments
<1>7. ASSUME NEW o \in d.timer \ {n} PROVE Same(d, r, o)
  BY <1>2, <1>3, <1>4, <1>6 DEF Same
<1>8. Has(r, n, {}, {p})
  BY <1>2, <1>4 DEF Has, FreshNet
<1>9. \A k \in Prefixes \ {p} : FreshNet(r, n, k) <=> FreshNet(d, n, k)
  BY <1>1, <1>2, <1>4, <1>6 DEF FreshNet
<1>10. \A k \in Nodes : Fresh(r, n, k) <=> Fresh(d, n, k)
  BY <1>2 DEF Fresh
<1>11. Stores(d, r, n, {}, {p})
  BY <1>2, <1>5, <1>7, <1>8, <1>9, <1>10 DEF Stores
<1> QED
  BY <1>11 DEF r

(* After the cleanup n has what carried its number, and nothing else; the  *)
(* others stay as they were.                                               *)
Purged(d, r, n) ==
    /\ r.timer = d.timer /\ r.direct = d.direct
    /\ Silent(r)
    /\ \A o \in d.timer \ {n} : Same(d, r, o)
    /\ r.ansn[n] = d.ansn[n]
    /\ Clean(r, n)
    /\ \A m \in Nodes : Fresh(r, n, m) <=> Fresh(d, n, m)
    /\ \A p \in Prefixes : FreshNet(r, n, p) <=> FreshNet(d, n, p)

(* The cleanup at the end of a TC. *)
LEMMA CleanupPurges ==
  ASSUME NEW d \in Databases, Silent(d), d.real \subseteq d.edges, NEW n \in d.timer
  PROVE  Purged(d, CleanupOldAnsn(d, n), n)
<1> DEFINE D == {m \in Nodes : <<n, m>> \in d.edges /\ d.eansn[<<n, m>>] # d.ansn[n]}
           d1 == olsrv2_tc_edge_remove(d, n, D)
           G == {x \in d1.nets : x[1] = n /\ d1.nansn[x] # d1.ansn[n]}
           r == olsrv2_tc_endpoint_remove(d1, G)
<1>1. n \in Nodes /\ D \in SUBSET Nodes /\ d.timer \subseteq Nodes
  BY DEF Databases
<1>2. \A m \in Nodes : m \in D <=> <<n, m>> \in d.edges /\ d.eansn[<<n, m>>] # d.ansn[n]
  OBVIOUS
<1> HIDE DEF D
<1>3. Trimmed(d, d1, n, D) /\ d1 \in Databases
  BY <1>1, EdgeRemoveTrims, EdgeRemoveFields
<1> HIDE DEF d1
<1>4. G \in SUBSET Attachments
  BY <1>3 DEF Databases
<1>5. /\ r \in Databases /\ r.nets = d1.nets \ G
      /\ r.timer = d1.timer /\ r.direct = d1.direct /\ r.real = d1.real
      /\ r.eansn = d1.eansn /\ r.ansn = d1.ansn
      /\ \A x \in Attachments \ G : r.nansn[x] = d1.nansn[x]
  BY <1>3, <1>4, EndpointRemoveFields
<1>6. \A x : x \in G <=> x \in d1.nets /\ x[1] = n /\ d1.nansn[x] # d1.ansn[n]
  OBVIOUS
<1>7. CleanupOldAnsn(d, n) = r
  BY DEF CleanupOldAnsn, r, d1, D
<1> HIDE DEF r, G
<1>8. d1.ansn[n] = d.ansn[n] /\ r.ansn[n] = d.ansn[n]
  BY <1>3, <1>5 DEF Trimmed
<1>9. \A o \in Nodes, k \in Prefixes : <<o, k>> \in Attachments /\ <<o, k>>[1] = o
  BY DEF Attachments
<1>10. ASSUME NEW m \in Nodes
       PROVE  /\ Fresh(r, n, m) <=> Fresh(d, n, m)
              /\ <<n, m>> \in r.real => Fresh(r, n, m)
  BY <1>2, <1>3, <1>5, <1>8 DEF Fresh, Trimmed
<1>11. ASSUME NEW p \in Prefixes
       PROVE  /\ FreshNet(r, n, p) <=> FreshNet(d, n, p)
              /\ <<n, p>> \in r.nets => FreshNet(r, n, p)
  <2>1. d1.nets = d.nets /\ d1.nansn[<<n, p>>] = d.nansn[<<n, p>>]
    BY <1>1, <1>3, <1>9 DEF Trimmed
  <2>2. <<n, p>> \in G <=> <<n, p>> \in d.nets /\ d.nansn[<<n, p>>] # d.ansn[n]
    BY <2>1, <1>1, <1>6, <1>8, <1>9
  <2>3. <<n, p>> \notin G => r.nansn[<<n, p>>] = d.nansn[<<n, p>>]
    BY <2>1, <1>1, <1>5, <1>9
  <2> QED
    BY <2>1, <2>2, <2>3, <1>5, <1>8 DEF FreshNet
<1>12. ASSUME NEW o \in d.timer \ {n} PROVE Same(d, r, o)
  <2>1. Same(d, d1, o) /\ o \in Nodes
    BY <1>1, <1>3 DEF Trimmed
  <2>2. \A p \in Prefixes : <<o, p>> \in Attachments \ G
    BY <2>1, <1>6, <1>9
  <2> QED
    BY <2>1, <2>2, <1>5 DEF Same
<1>13. Silent(r)
  BY <1>3, <1>5 DEF Silent, Trimmed
<1>14. Clean(r, n)
  BY <1>10, <1>11 DEF Clean
<1>15. Purged(d, r, n)
  BY <1>3, <1>5, <1>8, <1>10, <1>11, <1>12, <1>13, <1>14 DEF Purged, Trimmed
<1> QED
  BY <1>7, <1>15

-----------------------------------------------------------------------------
(***************************************************************************)
(* The inductive invariant.  Numbered: the validity time of a router runs  *)
(* after one of its TCs, whose version ver stands behind its number; what  *)
(* carries this number was announced as this version.  Stored: outside of  *)
(* the TC that is being read nothing carries another number, and a TC that *)
(* was stored without loss is still there.  Partial: of a complete TC that *)
(* is being read everything is stored that is not left to read.            *)
(***************************************************************************)
NeighborsOrderly ==
    /\ DirectExact
    /\ nold = norig
    /\ \A x, y \in Neighbors : norig[x] = norig[y] /\ norig[x] # NoNode => x = y

Numbered ==
    /\ t.timer \subseteq Senders
    /\ \A o \in t.timer : ver[o] \in Versions /\ Says(t, o, ver[o])

InReading(o) == pc = "addr" /\ o = t.ref

Kept(o) ==
    /\ Clean(t, o)
    /\ o \in whole => Has(t, o, Advert[o][ver[o]].edges, Advert[o][ver[o]].nets)

Stored == \A o \in t.timer : InReading(o) \/ Kept(o)

Partial ==
    pc = "addr" =>
      LET advert == Advert[t.ref][ver[t.ref]]
      IN  /\ t.ref \in t.timer
          /\ cur.edges \subseteq advert.edges /\ cur.nets \subseteq advert.nets
          /\ cur.complete /\ ~cur.failed
               => Has(t, t.ref, advert.edges \ cur.edges, advert.nets \ cur.nets)

Topology == Silent(t) /\ Numbered /\ Stored /\ Partial

TopoInv == IInv /\ pc \in {"idle", "addr"} /\ NeighborsOrderly /\ Topology

(* The start. *)
LEMMA InitTopo == Init => TopoInv
<1> SUFFICES ASSUME Init PROVE TopoInv
  OBVIOUS
<1>1. t.timer = {} /\ t.direct = {} /\ t.real = {} /\ t.nets = {} /\ pc = "idle"
  BY DEF Init, EmptyDb
<1>2. Topology
  BY <1>1 DEF Topology, Silent, Numbered, Stored, Partial
<1>3. NeighborsOrderly
  BY <1>1 DEF Init, NeighborsOrderly, DirectExact
<1> QED
  BY <1>1, <1>2, <1>3, InitIInv DEF TopoInv

(* What the steps below use of the invariant. *)
LEMMA Basics ==
  ASSUME TopoInv
  PROVE  /\ IInv /\ Good(t) /\ t \in Databases /\ cur \in Sessions
         /\ t.timer \subseteq Nodes /\ t.timer \subseteq t.nodes /\ t.direct \subseteq t.nodes
         /\ t.real \subseteq t.edges /\ Silent(t)
         /\ ver \in [Nodes -> Nat] /\ norig \in [Neighbors -> Nodes \cup {NoNode}]
         /\ whole \in SUBSET Nodes
  BY DEF TopoInv, IInv, TypeOK, Good, WellBut, Graph, Needed, Databases, Topology

(* A database that differs in the reader's pointer only. *)
LEMMA PointerUntouched ==
  ASSUME NEW d \in Databases, NEW p, NEW r, r = [d EXCEPT !.ref = p]
  PROVE  /\ r.timer = d.timer /\ r.direct = d.direct /\ r.ref = p
         /\ Silent(d) => Silent(r)
         /\ \A o : Same(d, r, o)
<1>1. /\ r.timer = d.timer /\ r.direct = d.direct /\ r.real = d.real
      /\ r.nets = d.nets /\ r.eansn = d.eansn /\ r.ansn = d.ansn /\ r.nansn = d.nansn
      /\ r.ref = p
  BY DEF Databases
<1> QED
  BY <1>1 DEF Silent, Same

(* A router keeps what it has while neither its part of the database nor   *)
(* its version changes.                                                    *)
LEMMA RouterKeeps ==
  ASSUME TopoInv, NEW o \in t.timer, Same(t, t', o), ver'[o] = ver[o],
         o \in whole' => o \in whole
  PROVE  /\ o \in Senders /\ ver'[o] \in Versions /\ Says(t', o, ver'[o])
         /\ InReading(o) \/ Kept(o)'
<1>1. o \in Senders /\ ver[o] \in Versions /\ Says(t, o, ver[o]) /\ (InReading(o) \/ Kept(o))
  BY DEF TopoInv, Topology, Numbered, Stored
<1>2. Advert[o][ver[o]].edges \in SUBSET Nodes /\ Advert[o][ver[o]].nets \in SUBSET Prefixes
  BY <1>1, AdvertType
<1>3. Says(t', o, ver'[o])
  BY <1>1, SameKeeps
<1>4. Kept(o) => Kept(o)'
  <2> SUFFICES ASSUME Kept(o) PROVE Clean(t', o) /\ (o \in whole' =>
                   Has(t', o, Advert[o][ver'[o]].edges, Advert[o][ver'[o]].nets))
    BY DEF Kept
  <2>1. Clean(t', o)
    BY SameKeeps DEF Kept
  <2>2. o \in whole => Has(t', o, Advert[o][ver[o]].edges, Advert[o][ver[o]].nets)
    BY <1>2, SameKeeps DEF Kept
  <2> QED
    BY <2>1, <2>2
<1> QED
  BY <1>1, <1>3, <1>4

(* Steps between messages that touch nothing that was announced. *)
LEMMA UntouchedTopology ==
  ASSUME TopoInv, Untouched(t, t'), pc = "idle", pc' = "idle", ver' = ver, whole' = whole
  PROVE  Topology'
<1>1. ASSUME NEW o \in t'.timer
      PROVE  o \in Senders /\ ver'[o] \in Versions /\ Says(t', o, ver'[o]) /\ Kept(o)'
  <2>1. o \in t.timer /\ Same(t, t', o)
    BY DEF Untouched
  <2> QED
    BY <2>1, RouterKeeps DEF InReading
<1>2. Numbered' /\ Stored'
  BY <1>1 DEF Numbered, Stored
<1> QED
  BY <1>2 DEF Topology, Partial, Untouched

(* A TC that is dropped at once. *)
LEMMA IgnoredTopo ==
  ASSUME TopoInv, TcIgnored
  PROVE  NeighborsOrderly' /\ Topology' /\ pc' = "idle"
<1>1. /\ t' = [t EXCEPT !.ref = NoNode] /\ pc = "idle" /\ pc' = "idle"
      /\ norig' = norig /\ nold' = nold /\ ver' = ver /\ whole' = whole
  BY DEF TcIgnored, Idle
<1>2. t'.timer = t.timer /\ t'.direct = t.direct /\ Silent(t') /\ \A o : Same(t, t', o)
  BY <1>1, Basics, PointerUntouched
<1>3. Untouched(t, t')
  BY <1>2 DEF Untouched
<1>4. NeighborsOrderly'
  BY <1>1, <1>2 DEF TopoInv, NeighborsOrderly, DirectExact
<1> QED
  BY <1>1, <1>3, <1>4, UntouchedTopology

(* The end of a validity time. *)
LEMMA TimeoutTopo ==
  ASSUME TopoInv, NEW n \in Nodes, _cb_tc_node_timeout(n)
  PROVE  NeighborsOrderly' /\ Topology' /\ pc' = "idle"
<1>1. /\ t' = olsrv2_tc_node_remove(t, n) /\ pc = "idle" /\ pc' = "idle"
      /\ norig' = norig /\ nold' = nold /\ ver' = [ver EXCEPT ![n] = 0]
      /\ whole' = whole \ {n}
  BY DEF _cb_tc_node_timeout, Idle
<1>2. Spares(t, t', n) /\ t'.direct = t.direct
  BY <1>1, Basics, NodeRemoveSpares
<1>3. NeighborsOrderly'
  BY <1>1, <1>2 DEF TopoInv, NeighborsOrderly, DirectExact
<1>4. ASSUME NEW o \in t'.timer
      PROVE  o \in Senders /\ ver'[o] \in Versions /\ Says(t', o, ver'[o]) /\ Kept(o)'
  <2>1. o \in t.timer /\ o # n /\ Same(t, t', o) /\ o \in Nodes
    BY <1>2, Basics DEF Spares
  <2>2. ver'[o] = ver[o] /\ (o \in whole' => o \in whole)
    BY <2>1, <1>1, Basics
  <2> QED
    BY <2>1, <2>2, <1>1, RouterKeeps DEF InReading
<1>5. Numbered' /\ Stored'
  BY <1>4 DEF Numbered, Stored
<1> QED
  BY <1>1, <1>2, <1>3, <1>5 DEF Topology, Partial, Spares

(* A neighbor gets its first originator. *)
LEMMA OriginatorTopo ==
  ASSUME TopoInv, NEW n \in Neighbors, NEW o \in Nodes, FirstOriginator(n, o)
  PROVE  NeighborsOrderly' /\ Topology' /\ pc' = "idle"
<1>1. /\ t' = _cb_neighbor_change(t, o, nold[n]) /\ pc = "idle" /\ pc' = "idle"
      /\ nold' = [nold EXCEPT ![n] = o] /\ ver' = ver /\ whole' = whole
      /\ norig[n] = NoNode /\ \A x \in Neighbors : norig[x] # o
      /\ norig' = [x \in Neighbors |->
                     IF x = n THEN o ELSE IF norig[x] = o THEN NoNode ELSE norig[x]]
  BY DEF FirstOriginator, nhdp_db_neighbor_set_originator, Idle
<1>2. nold = norig /\ norig \in [Neighbors -> Nodes \cup {NoNode}] /\ o # NoNode
  BY TcAssumption, Basics DEF TopoInv, NeighborsOrderly
<1>3. o # nold[n]
  BY <1>1, <1>2
<1>4. Untouched(t, t') /\ t'.direct = t.direct \cup {o}
  BY <1>1, <1>3, Basics, NeighborChangeUntouched
<1>5. norig' = [norig EXCEPT ![n] = o] /\ nold' = norig'
  BY <1>1, <1>2
<1>6. \A x \in Neighbors : norig'[x] = IF x = n THEN o ELSE norig[x]
  BY <1>2, <1>5
<1>7. DirectExact'
  BY <1>1, <1>2, <1>4, <1>6 DEF TopoInv, NeighborsOrderly, DirectExact
<1>8. \A x, y \in Neighbors : norig'[x] = norig'[y] /\ norig'[x] # NoNode => x = y
  BY <1>1, <1>6 DEF TopoInv, NeighborsOrderly
<1>9. NeighborsOrderly'
  BY <1>5, <1>7, <1>8 DEF NeighborsOrderly
<1> QED
  BY <1>1, <1>4, <1>9, UntouchedTopology

(* A neighbor is removed. *)
LEMMA RemovedTopo ==
  ASSUME TopoInv, NEW n \in Neighbors, nhdp_db_neighbor_remove(n)
  PROVE  NeighborsOrderly' /\ Topology' /\ pc' = "idle"
<1>1. /\ t' = _cb_neighbor_remove(t, norig[n]) /\ pc = "idle" /\ pc' = "idle"
      /\ norig' = [norig EXCEPT ![n] = NoNode] /\ nold' = [nold EXCEPT ![n] = NoNode]
      /\ ver' = ver /\ whole' = whole /\ norig[n] # NoNode
  BY DEF nhdp_db_neighbor_remove, Idle
<1>2. nold = norig /\ norig \in [Neighbors -> Nodes \cup {NoNode}]
  BY Basics DEF TopoInv, NeighborsOrderly
<1>3. Untouched(t, t') /\ t'.direct = t.direct \ {norig[n]}
  BY <1>1, Basics, NeighborRemoveUntouched
<1>4. \A x \in Neighbors : norig'[x] = IF x = n THEN NoNode ELSE norig[x]
  BY <1>1, <1>2
<1>5. t.direct = {norig[x] : x \in Neighbors} \ {NoNode}
  BY DEF TopoInv, NeighborsOrderly, DirectExact
<1>6. \A x, y \in Neighbors : norig[x] = norig[y] /\ norig[x] # NoNode => x = y
  BY DEF TopoInv, NeighborsOrderly
<1>7. t'.direct = {norig'[x] : x \in Neighbors} \ {NoNode}
  BY <1>1, <1>3, <1>4, <1>5, <1>6
<1>8. NeighborsOrderly'
  BY <1>1, <1>2, <1>4, <1>6, <1>7 DEF NeighborsOrderly, DirectExact
<1> QED
  BY <1>1, <1>3, <1>8, UntouchedTopology

(* The node of a TC, its number not yet stamped. *)
LEMMA NodeOfTc ==
  ASSUME TopoInv, NEW o \in Senders, NEW v \in Versions
  PROVE  LET d == olsrv2_tc_node_add(t, o, ValidityTime, Ansn(v))
         IN  /\ d \in Databases /\ Silent(d)
             /\ d.timer = t.timer \cup {o} /\ d.direct = t.direct
             /\ \A q \in t.timer : Same(t, d, q)
             /\ \A q \in Nodes \ {o} : d.ansn[q] = t.ansn[q]
             /\ d.real = t.real /\ d.eansn = t.eansn
             /\ d.nets = t.nets /\ d.nansn = t.nansn
             /\ o \notin t.timer => d.ansn[o] = Ansn(v)
<1> DEFINE d == olsrv2_tc_node_add(t, o, ValidityTime, Ansn(v))
<1>1. /\ o \in Nodes /\ ValidityTime \in Nat /\ ValidityTime > 0 /\ Ansn(v) \in Ansns
  BY AdvertType, AnsnType DEF ValidityTime
<1>2. NodeFields(t, d, o, ValidityTime, Ansn(v))
  BY <1>1, Basics, NodeAddFields
<1> HIDE DEF d
<1>3. t.ansn \in [Nodes -> Ansns] /\ t.timer \subseteq Nodes /\ t.timer \subseteq t.nodes
  BY Basics DEF Databases
<1>4. d.timer = t.timer \cup {o} /\ Silent(d)
  BY <1>1, <1>2, Basics DEF NodeFields, Silent
<1>5. o \notin t.timer => d.ansn[o] = Ansn(v)
  BY <1>1, <1>2, <1>3 DEF NodeFields
<1>6. \A q \in Nodes \ {o} : d.ansn[q] = t.ansn[q]
  BY <1>1, <1>2, <1>3 DEF NodeFields
<1>7. o \in t.timer => d.ansn[o] = t.ansn[o]
  BY <1>1, <1>2, <1>3 DEF NodeFields
<1>8. \A q \in t.timer : Same(t, d, q)
  BY <1>2, <1>3, <1>6, <1>7 DEF NodeFields, Same
<1> QED
  BY <1>2, <1>4, <1>5, <1>6, <1>8 DEF d, NodeFields

(* The start of a TC: between messages everything stored carries the       *)
(* number of its router, so a new number marks what is old.                *)
LEMMA MessageTopo ==
  ASSUME TopoInv, NEW o \in Senders, NEW v \in Versions, NEW complete \in BOOLEAN, NEW part,
         _cb_messagetlvs(o, v, complete, part)
  PROVE  NeighborsOrderly' /\ Topology' /\ pc' \in {"idle", "addr"}
<1> DEFINE d == olsrv2_tc_node_add(t, o, ValidityTime, Ansn(v))
           R == RecentEnough(complete, Ansn(v), d.ansn[o])
           z == Ansn(v)
<1>1. /\ d \in Databases /\ Silent(d)
      /\ d.timer = t.timer \cup {o} /\ d.direct = t.direct
      /\ \A q \in t.timer : Same(t, d, q)
      /\ \A q \in Nodes \ {o} : d.ansn[q] = t.ansn[q]
      /\ d.real = t.real /\ d.eansn = t.eansn
      /\ d.nets = t.nets /\ d.nansn = t.nansn
      /\ o \notin t.timer => d.ansn[o] = z
  BY NodeOfTc
<1>2. o \in Nodes /\ z \in Ansns /\ v \in Nat
  BY AdvertType, AnsnType
<1>3. /\ pc = "idle" /\ norig' = norig /\ nold' = nold
      /\ ver' = IF o \notin t.timer \/ R THEN [ver EXCEPT ![o] = v] ELSE ver
      /\ complete => part = Advert[o][v]
      /\ part.edges \subseteq Advert[o][v].edges
      /\ part.nets \subseteq Advert[o][v].nets
  BY DEF _cb_messagetlvs, Idle
<1>4. \/ /\ ~R
         /\ t' = [d EXCEPT !.ref = o]
         /\ whole' = IF o \in t.timer THEN whole ELSE whole \ {o}
         /\ pc' = pc
      \/ /\ R
         /\ t' = [d EXCEPT !.ansn = [@ EXCEPT ![o] = z], !.ref = o]
         /\ cur' = [complete |-> complete, failed |-> FALSE,
                    edges |-> part.edges, nets |-> part.nets]
         /\ pc' = "addr"
         /\ whole' = whole
  BY DEF _cb_messagetlvs
<1> HIDE DEF d, R, z
<1>5. \A q \in Nodes \ {o} : ver'[q] = ver[q]
  BY <1>2, <1>3, Basics
<1>6. o \notin t.timer \/ R => ver'[o] = v
  BY <1>2, <1>3, Basics
<1>7. /\ \A m \in Nodes : <<o, m>>[1] = o
      /\ \A p \in Prefixes : <<o, p>>[1] = o
  OBVIOUS
<1>8. CASE ~R
  <2>1. t' = [d EXCEPT !.ref = o] /\ pc' = "idle"
    BY <1>3, <1>4, <1>8
  <2>2. t'.timer = d.timer /\ t'.direct = d.direct /\ Silent(t') /\ \A q : Same(d, t', q)
    BY <2>1, <1>1, PointerUntouched
  <2>3. \A q \in t.timer : Same(t, t', q)
    BY <2>2, <1>1 DEF Same
  <2>4. NeighborsOrderly'
    BY <2>2, <1>1, <1>3 DEF TopoInv, NeighborsOrderly, DirectExact
  <2>5. CASE o \in t.timer
    <3>1. t'.timer = t.timer /\ ver' = ver /\ whole' = whole
      BY <2>2, <2>5, <1>1, <1>3, <1>4, <1>8
    <3>2. Untouched(t, t')
      BY <3>1, <2>2, <2>3 DEF Untouched
    <3> QED
      BY <3>1, <3>2, <2>1, <2>4, <1>3, UntouchedTopology
  <2>6. CASE o \notin t.timer
    <3>1. ASSUME NEW q \in t'.timer
          PROVE  q \in Senders /\ ver'[q] \in Versions /\ Says(t', q, ver'[q]) /\ Kept(q)'
      <4>1. CASE q = o
        <5>1. \A m \in Nodes : <<o, m>> \notin t.real
          BY <2>6, <1>7, Basics DEF Silent
        <5>2. \A p \in Prefixes : <<o, p>> \notin t.nets
          BY <2>6, <1>7, Basics DEF Silent
        <5>3. /\ \A m \in Nodes : <<o, m>> \notin t'.real
              /\ \A p \in Prefixes : <<o, p>> \notin t'.nets
              /\ t'.ansn[o] = Ansn(v)
          BY <5>1, <5>2, <2>2, <2>6, <1>1 DEF Same, z
        <5>4. ver'[o] = v /\ o \notin whole'
          BY <2>6, <1>4, <1>6, <1>8
        <5> QED
          BY <4>1, <5>3, <5>4 DEF Says, Kept, Clean, Fresh, FreshNet
      <4>2. CASE q # o
        <5>1. q \in t.timer /\ q \in Nodes
          BY <4>2, <2>2, <1>1, Basics
        <5>2. Same(t, t', q) /\ ver'[q] = ver[q] /\ (q \in whole' => q \in whole)
          BY <5>1, <4>2, <2>3, <1>4, <1>5, <1>8
        <5> QED
          BY <5>1, <5>2, <1>3, RouterKeeps DEF InReading
      <4> QED
        BY <4>1, <4>2
    <3>2. Numbered' /\ Stored'
      BY <3>1 DEF Numbered, Stored
    <3> QED
      BY <3>2, <2>1, <2>2, <2>4 DEF Topology, Partial
  <2> QED
    BY <2>5, <2>6
<1>9. CASE R
  <2>1. /\ t' = [d EXCEPT !.ansn = [@ EXCEPT ![o] = z], !.ref = o]
        /\ cur' = [complete |-> complete, failed |-> FALSE,
                   edges |-> part.edges, nets |-> part.nets]
        /\ pc' = "addr" /\ whole' = whole /\ ver'[o] = v
    BY <1>4, <1>6, <1>9
  <2>2. /\ t'.timer = d.timer /\ t'.direct = d.direct /\ t'.ref = o
        /\ t'.real = d.real /\ t'.eansn = d.eansn /\ t'.nets = d.nets /\ t'.nansn = d.nansn
        /\ t'.ansn = [d.ansn EXCEPT ![o] = z]
    BY <2>1, <1>1 DEF Databases
  <2>3. d.ansn \in [Nodes -> Ansns]
    BY <1>1 DEF Databases
  <2>4. t'.ansn[o] = Ansn(v) /\ \A q \in Nodes \ {o} : t'.ansn[q] = t.ansn[q]
    BY <2>2, <2>3, <1>1, <1>2 DEF z
  <2>5. Silent(t')
    BY <2>2, <1>1 DEF Silent
  <2>6. NeighborsOrderly'
    BY <2>2, <1>1, <1>3 DEF TopoInv, NeighborsOrderly, DirectExact
  <2>7. Says(t', o, v)
    <3>1. CASE o \in t.timer
      <4>1. /\ ver[o] \in Versions /\ Says(t, o, ver[o]) /\ Clean(t, o)
        BY <3>1, <1>3 DEF TopoInv, Topology, Numbered, Stored, InReading, Kept
      <4>2. Ansn(v) = Ansn(ver[o]) => v = ver[o]
        BY <4>1, NumbersOrdered
      <4>3. ASSUME NEW m \in Nodes, Fresh(t', o, m) PROVE m \in Advert[o][v].edges
        <5>1. <<o, m>> \in t.real /\ t.eansn[<<o, m>>] = Ansn(v)
          BY <4>3, <2>2, <2>4, <1>1 DEF Fresh
        <5>2. Fresh(t, o, m)
          BY <5>1, <4>1 DEF Clean
        <5>3. Ansn(v) = Ansn(ver[o])
          BY <5>1, <5>2, <4>1 DEF Fresh, Says
        <5> QED
          BY <5>2, <5>3, <4>1, <4>2 DEF Says
      <4>4. ASSUME NEW p \in Prefixes, FreshNet(t', o, p) PROVE p \in Advert[o][v].nets
        <5>1. <<o, p>> \in t.nets /\ t.nansn[<<o, p>>] = Ansn(v)
          BY <4>4, <2>2, <2>4, <1>1 DEF FreshNet
        <5>2. FreshNet(t, o, p)
          BY <5>1, <4>1 DEF Clean
        <5>3. Ansn(v) = Ansn(ver[o])
          BY <5>1, <5>2, <4>1 DEF FreshNet, Says
        <5> QED
          BY <5>2, <5>3, <4>1, <4>2 DEF Says
      <4> QED
        BY <4>3, <4>4, <2>4 DEF Says
    <3>2. CASE o \notin t.timer
      <4>1. /\ \A m \in Nodes : <<o, m>> \notin t.real
            /\ \A p \in Prefixes : <<o, p>> \notin t.nets
        BY <3>2, <1>7, Basics DEF Silent
      <4> QED
        BY <4>1, <2>2, <2>4, <1>1 DEF Says, Fresh, FreshNet
    <3> QED
      BY <3>1, <3>2
  <2>8. ASSUME NEW q \in t'.timer, q # o
        PROVE  q \in Senders /\ ver'[q] \in Versions /\ Says(t', q, ver'[q]) /\ Kept(q)'
    <3>1. q \in t.timer /\ q \in Nodes
      BY <2>2, <2>8, <1>1, Basics
    <3>2. Same(t, t', q)
      BY <3>1, <2>2, <2>4, <2>8, <1>1 DEF Same
    <3>3. ver'[q] = ver[q] /\ (q \in whole' => q \in whole)
      BY <3>1, <2>1, <2>8, <1>5
    <3> QED
      BY <3>1, <3>2, <3>3, <1>3, RouterKeeps DEF InReading
  <2>9. Numbered'
    BY <2>1, <2>7, <2>8 DEF Numbered
  <2>10. Stored'
    BY <2>1, <2>2, <2>8 DEF Stored, InReading
  <2>11. Partial'
    <3>1. t'.ref = o /\ ver'[o] = v /\ o \in t'.timer
      BY <2>1, <2>2, <1>1
    <3>2. cur'.edges = part.edges /\ cur'.nets = part.nets /\ cur'.complete = complete
      BY <2>1
    <3>3. complete => /\ Advert[o][v].edges \ part.edges = {}
                      /\ Advert[o][v].nets \ part.nets = {}
      BY <1>3
    <3>4. Has(t', o, {}, {})
      BY DEF Has
    <3> QED
      BY <3>1, <3>2, <3>3, <3>4, <1>3 DEF Partial
  <2> QED
    BY <2>1, <2>5, <2>6, <2>9, <2>10, <2>11 DEF Topology
<1> QED
  BY <1>8, <1>9

(* The invariant while the reader stores one more element of the TC. *)
LEMMA StoresTopo ==
  ASSUME TopoInv, pc = "addr", pc' = "addr", ver' = ver, whole' = whole,
         t'.ref = t.ref, cur \in Sessions,
         NEW E \in SUBSET cur.edges, NEW P \in SUBSET cur.nets,
         Stores(t, t', t.ref, E, P),
         cur'.edges = cur.edges \ E, cur'.nets = cur.nets \ P,
         cur'.complete = cur.complete, cur'.failed = cur.failed
  PROVE  Topology'
<1> DEFINE n == t.ref
           edges == Advert[n][ver[n]].edges
           nets == Advert[n][ver[n]].nets
<1>1. /\ n \in t.timer /\ cur.edges \subseteq edges /\ cur.nets \subseteq nets
      /\ cur.complete /\ ~cur.failed => Has(t, n, edges \ cur.edges, nets \ cur.nets)
  BY DEF TopoInv, Topology, Partial
<1>2. n \in Senders /\ ver[n] \in Versions /\ Says(t, n, ver[n])
  BY <1>1 DEF TopoInv, Topology, Numbered
<1>3. edges \subseteq Nodes /\ nets \subseteq Prefixes
  BY <1>2, AdvertType
<1>4. /\ t'.timer = t.timer /\ Silent(t')
      /\ \A o \in t.timer \ {n} : Same(t, t', o)
      /\ t'.ansn[n] = t.ansn[n]
      /\ Has(t', n, E, P)
      /\ \A m \in Nodes \ E : Fresh(t', n, m) <=> Fresh(t, n, m)
      /\ \A p \in Prefixes \ P : FreshNet(t', n, p) <=> FreshNet(t, n, p)
  BY DEF Stores
<1>5. Says(t', n, ver[n])
  BY <1>1, <1>2, <1>4 DEF Says
<1>6. ASSUME NEW o \in t'.timer, o # n
      PROVE  o \in Senders /\ ver'[o] \in Versions /\ Says(t', o, ver'[o]) /\ Kept(o)'
  <2>1. o \in t.timer /\ Same(t, t', o)
    BY <1>4, <1>6
  <2> QED
    BY <2>1, <1>6, RouterKeeps DEF InReading
<1>7. Numbered'
  BY <1>2, <1>5, <1>6 DEF Numbered
<1>8. Stored'
  BY <1>6 DEF Stored, InReading
<1>9. cur.complete /\ ~cur.failed => Has(t', n, edges \ (cur.edges \ E), nets \ (cur.nets \ P))
  <2> SUFFICES ASSUME Has(t, n, edges \ cur.edges, nets \ cur.nets)
               PROVE  Has(t', n, edges \ (cur.edges \ E), nets \ (cur.nets \ P))
    BY <1>1
  <2>1. ASSUME NEW m \in edges \ (cur.edges \ E) PROVE Fresh(t', n, m)
    BY <2>1, <1>3, <1>4 DEF Has
  <2>2. ASSUME NEW p \in nets \ (cur.nets \ P) PROVE FreshNet(t', n, p)
    BY <2>2, <1>3, <1>4 DEF Has
  <2> QED
    BY <2>1, <2>2 DEF Has
<1>10. Partial'
  BY <1>1, <1>4, <1>9 DEF Partial
<1> QED
  BY <1>4, <1>7, <1>8, <1>10 DEF Topology

(* The invariant while the reader skips an element for want of memory. *)
LEMMA SkipsTopo ==
  ASSUME TopoInv, pc = "addr", pc' = "addr", ver' = ver, whole' = whole, t' = t,
         cur'.edges \subseteq cur.edges, cur'.nets \subseteq cur.nets, cur'.failed = TRUE
  PROVE  Topology'
<1>1. Numbered' /\ Silent(t')
  BY DEF TopoInv, Topology, Numbered
<1>2. Stored'
  BY DEF TopoInv, Topology, Stored, InReading, Kept
<1>3. Partial'
  BY DEF TopoInv, Topology, Partial
<1> QED
  BY <1>1, <1>2, <1>3 DEF Topology

(* The addresses of a TC. *)
LEMMA AddressTopo ==
  ASSUME TopoInv, NEW m \in Nodes, _cb_addresstlvs(m)
  PROVE  NeighborsOrderly' /\ Topology' /\ pc' = "addr"
<1>1. /\ pc = "addr" /\ pc' = "addr" /\ m \in cur.edges
      /\ norig' = norig /\ nold' = nold /\ ver' = ver /\ whole' = whole
  BY DEF _cb_addresstlvs
<1>2. t.ref \in t.timer /\ t.ref \in Nodes /\ t.ref # m
  BY <1>1, Basics DEF TopoInv, Topology, Partial, IInv, SessionSound
<1>3. CASE t' = olsrv2_tc_edge_add(t, t.ref, m) /\ cur' = [cur EXCEPT !.edges = @ \ {m}]
  <2>1. Stores(t, t', t.ref, {m}, {})
    BY <1>2, <1>3, Basics, EdgeAddStores
  <2>2. t'.ref = t.ref
    BY <1>2, <1>3, Basics, EdgeAddGrows DEF Grows
  <2>3. /\ cur'.edges = cur.edges \ {m} /\ cur'.nets = cur.nets \ {}
        /\ cur'.complete = cur.complete /\ cur'.failed = cur.failed
    BY <1>3, Basics DEF Sessions
  <2>4. Topology'
    BY <2>1, <2>2, <2>3, <1>1, Basics, StoresTopo
  <2>5. NeighborsOrderly'
    BY <2>1, <1>1 DEF Stores, TopoInv, NeighborsOrderly, DirectExact
  <2> QED
    BY <2>4, <2>5, <1>1
<1>4. CASE t' = t /\ cur' = [cur EXCEPT !.edges = @ \ {m}, !.failed = TRUE]
  <2>1. cur'.edges \subseteq cur.edges /\ cur'.nets \subseteq cur.nets /\ cur'.failed = TRUE
    BY <1>4, Basics DEF Sessions
  <2>2. Topology'
    BY <2>1, <1>1, <1>4, SkipsTopo
  <2>3. NeighborsOrderly'
    BY <1>1, <1>4 DEF TopoInv, NeighborsOrderly, DirectExact
  <2> QED
    BY <2>2, <2>3, <1>1
<1> QED
  BY <1>3, <1>4 DEF _cb_addresstlvs

(* The attached networks of a TC. *)
LEMMA NetworkTopo ==
  ASSUME TopoInv, NEW p \in Prefixes, _handle_gateways(p)
  PROVE  NeighborsOrderly' /\ Topology' /\ pc' = "addr"
<1>1. /\ pc = "addr" /\ pc' = "addr" /\ p \in cur.nets
      /\ norig' = norig /\ nold' = nold /\ ver' = ver /\ whole' = whole
  BY DEF _handle_gateways
<1>2. t.ref \in t.timer /\ t.ref \in Nodes /\ t.ref \in t.nodes
  BY <1>1, Basics DEF TopoInv, Topology, Partial
<1>3. CASE t' = olsrv2_tc_endpoint_add(t, t.ref, p) /\ cur' = [cur EXCEPT !.nets = @ \ {p}]
  <2>1. Stores(t, t', t.ref, {}, {p})
    BY <1>2, <1>3, Basics, EndpointAddStores
  <2>2. t'.ref = t.ref
    BY <1>2, <1>3, Basics, EndpointAddGrows DEF Grows
  <2>3. /\ cur'.edges = cur.edges \ {} /\ cur'.nets = cur.nets \ {p}
        /\ cur'.complete = cur.complete /\ cur'.failed = cur.failed
    BY <1>3, Basics DEF Sessions
  <2>4. Topology'
    BY <2>1, <2>2, <2>3, <1>1, Basics, StoresTopo
  <2>5. NeighborsOrderly'
    BY <2>1, <1>1 DEF Stores, TopoInv, NeighborsOrderly, DirectExact
  <2> QED
    BY <2>4, <2>5, <1>1
<1>4. CASE t' = t /\ cur' = [cur EXCEPT !.nets = @ \ {p}, !.failed = TRUE]
  <2>1. cur'.edges \subseteq cur.edges /\ cur'.nets \subseteq cur.nets /\ cur'.failed = TRUE
    BY <1>4, Basics DEF Sessions
  <2>2. Topology'
    BY <2>1, <1>1, <1>4, SkipsTopo
  <2>3. NeighborsOrderly'
    BY <1>1, <1>4 DEF TopoInv, NeighborsOrderly, DirectExact
  <2> QED
    BY <2>2, <2>3, <1>1
<1> QED
  BY <1>3, <1>4 DEF _handle_gateways

(* The end of a TC: what is old goes, what was read is all there is. *)
LEMMA EndTopo ==
  ASSUME TopoInv, _cb_messagetlvs_end
  PROVE  NeighborsOrderly' /\ Topology' /\ pc' = "idle"
<1> DEFINE n == t.ref
           d == CleanupOldAnsn(t, n)
           edges == Advert[n][ver[n]].edges
           nets == Advert[n][ver[n]].nets
<1>1. /\ pc = "addr" /\ cur.edges = {} /\ cur.nets = {}
      /\ t' = [d EXCEPT !.ref = NoNode] /\ pc' = "idle"
      /\ whole' = IF cur.complete /\ ~cur.failed THEN whole \cup {n} ELSE whole \ {n}
      /\ norig' = norig /\ nold' = nold /\ ver' = ver
  BY DEF _cb_messagetlvs_end
<1>2. /\ n \in t.timer
      /\ cur.complete /\ ~cur.failed => Has(t, n, edges \ cur.edges, nets \ cur.nets)
  BY <1>1 DEF TopoInv, Topology, Partial
<1>3. n \in Senders /\ ver[n] \in Versions /\ Says(t, n, ver[n])
  BY <1>2 DEF TopoInv, Topology, Numbered
<1>4. edges \subseteq Nodes /\ nets \subseteq Prefixes
  BY <1>3, AdvertType
<1>5. Purged(t, d, n)
  BY <1>2, Basics, CleanupPurges
<1>6. d \in Databases
  <2>1. Good(d)
    BY <1>2, Basics, CleanupGood
  <2> QED
    BY <2>1 DEF Good, WellBut
<1> HIDE DEF d
<1>7. t'.timer = d.timer /\ t'.direct = d.direct /\ Silent(t') /\ \A o : Same(d, t', o)
  BY <1>1, <1>5, <1>6, PointerUntouched DEF Purged
<1>8. /\ t'.ansn[n] = t.ansn[n] /\ Clean(t', n)
      /\ \A m \in Nodes : Fresh(t', n, m) <=> Fresh(t, n, m)
      /\ \A p \in Prefixes : FreshNet(t', n, p) <=> FreshNet(t, n, p)
  BY <1>5, <1>7 DEF Purged, Same, Clean, Fresh, FreshNet
<1>9. Says(t', n, ver'[n])
  BY <1>1, <1>3, <1>8 DEF Says
<1>10. ASSUME NEW o \in t'.timer, o = n PROVE Kept(o)'
  <2>1. n \in whole' => Has(t, n, edges, nets)
    <3>1. edges \ {} = edges /\ nets \ {} = nets
      OBVIOUS
    <3> QED
      BY <3>1, <1>1, <1>2
  <2>2. n \in whole' => Has(t', n, edges, nets)
    BY <2>1, <1>4, <1>8 DEF Has
  <2> QED
    BY <2>2, <1>1, <1>8, <1>10 DEF Kept
<1>11. ASSUME NEW o \in t'.timer, o # n
       PROVE  o \in Senders /\ ver'[o] \in Versions /\ Says(t', o, ver'[o]) /\ Kept(o)'
  <2>1. o \in t.timer /\ Same(t, d, o)
    BY <1>5, <1>7, <1>11 DEF Purged
  <2>2. Same(t, t', o)
    BY <2>1, <1>7 DEF Same
  <2>3. o \in whole' => o \in whole
    BY <1>1, <1>11
  <2> QED
    BY <2>1, <2>2, <2>3, <1>1, <1>11, RouterKeeps DEF InReading
<1>12. Numbered'
  BY <1>1, <1>3, <1>9, <1>11 DEF Numbered
<1>13. Stored'
  BY <1>10, <1>11 DEF Stored
<1>14. NeighborsOrderly'
  BY <1>1, <1>5, <1>7 DEF Purged, TopoInv, NeighborsOrderly, DirectExact
<1> QED
  BY <1>1, <1>7, <1>12, <1>13, <1>14 DEF Topology, Partial

(* Every step of the orderly router preserves the invariant. *)
LEMMA NextTopo == TopoInv /\ [OrderlyNext]_vars => TopoInv'
<1> SUFFICES ASSUME TopoInv, [OrderlyNext]_vars PROVE TopoInv'
  OBVIOUS
<1> DEFINE Goal == NeighborsOrderly' /\ Topology' /\ pc' \in {"idle", "addr"}
<1>1. [Next]_vars
  BY DEF Next
<1>2. IInv'
  BY <1>1, NextIInv DEF TopoInv
<1>3. CASE UNCHANGED vars
  <2>1. /\ t' = t /\ cur' = cur /\ pc' = pc /\ norig' = norig /\ nold' = nold
        /\ ver' = ver /\ whole' = whole
    BY <1>3 DEF vars
  <2>2. Goal
    BY <2>1 DEF TopoInv, NeighborsOrderly, DirectExact, Topology, Numbered, Stored, Partial,
                InReading, Kept
  <2> QED
    BY <2>2, <1>2 DEF TopoInv
<1>4. CASE \E o \in Senders : ReceiveTc(o)
  <2>1. Goal
    BY <1>4, MessageTopo DEF ReceiveTc
  <2> QED
    BY <2>1, <1>2 DEF TopoInv
<1>5. CASE TcIgnored
  BY <1>2, <1>5, IgnoredTopo DEF TopoInv
<1>6. CASE Reading
  <2>1. Goal
    BY <1>6, AddressTopo, NetworkTopo, EndTopo DEF Reading
  <2> QED
    BY <2>1, <1>2 DEF TopoInv
<1>7. CASE \E n \in Nodes : _cb_tc_node_timeout(n)
  BY <1>2, <1>7, TimeoutTopo DEF TopoInv
<1>8. CASE \E n \in Neighbors, o \in Nodes : FirstOriginator(n, o)
  BY <1>2, <1>8, OriginatorTopo DEF TopoInv
<1>9. CASE NeighborRemoved
  BY <1>2, <1>9, RemovedTopo DEF TopoInv, NeighborRemoved
<1> QED
  BY <1>3, <1>4, <1>5, <1>6, <1>7, <1>8, <1>9 DEF OrderlyNext

(* The invariant holds whenever TCs are well formed and neighbors keep     *)
(* their originator.                                                       *)
THEOREM OrderlyInvariance == OrderlySpec => []TopoInv
  BY InitTopo, NextTopo, PTL DEF OrderlySpec

(***************************************************************************)
(* Between messages a router whose validity time does not run has no edge  *)
(* and no network the routing could use, whatever the other routers        *)
(* announce about it (olsrv2_tc_node_remove, _remove_edge).                *)
(***************************************************************************)
THEOREM VirtualNodesSilent == OrderlySpec => []VirtualAnnouncesNothing
<1>1. TopoInv => VirtualAnnouncesNothing
  <2> SUFFICES ASSUME TopoInv, NEW n \in Nodes \ t.timer
               PROVE  RealOf(t, n) = {} /\ NetsOf(t, n) = {}
    BY DEF VirtualAnnouncesNothing
  <2>1. (\A m \in Nodes : <<n, m>>[1] = n) /\ (\A p \in Prefixes : <<n, p>>[1] = n)
    OBVIOUS
  <2> QED
    BY <2>1, Basics DEF Silent, RealOf, NetsOf
<1> QED
  BY <1>1, OrderlyInvariance, PTL

(***************************************************************************)
(* Whatever the order of TCs, fragments, timeouts and failed allocations,  *)
(* what is stored of a router between messages belongs to the version its  *)
(* ANSN stands for, and a complete TC that was stored stays complete       *)
(* (_cb_messagetlvs, _cb_messagetlvs_end).                                 *)
(***************************************************************************)
THEOREM TopologyAlwaysExact == OrderlySpec => []TopologyExact
<1>1. TopoInv => TopologyExact
  <2> SUFFICES ASSUME TopoInv, Idle, NEW o \in Senders \cap t.timer
               PROVE  /\ RealOf(t, o) \subseteq Advert[o][ver[o]].edges
                      /\ NetsOf(t, o) \subseteq Advert[o][ver[o]].nets
                      /\ o \in whole => /\ RealOf(t, o) = Advert[o][ver[o]].edges
                                        /\ NetsOf(t, o) = Advert[o][ver[o]].nets
    BY DEF TopologyExact
  <2>1. ver[o] \in Versions /\ Says(t, o, ver[o]) /\ Kept(o)
    BY DEF TopoInv, Topology, Numbered, Stored, InReading, Idle
  <2>2. Advert[o][ver[o]].edges \subseteq Nodes /\ Advert[o][ver[o]].nets \subseteq Prefixes
    BY <2>1, AdvertType
  <2>3. /\ RealOf(t, o) \subseteq Advert[o][ver[o]].edges
        /\ NetsOf(t, o) \subseteq Advert[o][ver[o]].nets
    BY <2>1 DEF Says, Kept, Clean, RealOf, NetsOf
  <2>4. o \in whole => /\ Advert[o][ver[o]].edges \subseteq RealOf(t, o)
                       /\ Advert[o][ver[o]].nets \subseteq NetsOf(t, o)
    BY <2>1, <2>2 DEF Kept, Has, Fresh, FreshNet, RealOf, NetsOf
  <2> QED
    BY <2>3, <2>4
<1> QED
  BY <1>1, OrderlyInvariance, PTL

(***************************************************************************)
(* direct_neighbor marks exactly the originators of the NHDP neighbors,    *)
(* and each of them has its node (_cb_neighbor_change,                     *)
(* _cb_neighbor_remove).                                                   *)
(***************************************************************************)
THEOREM NeighborsAlwaysDirect == OrderlySpec => []NeighborsDirect
<1>1. TopoInv => NeighborsDirect
  <2> SUFFICES ASSUME TopoInv PROVE NeighborsDirect
    OBVIOUS
  <2>1. DirectExact /\ t.direct \subseteq t.nodes
    BY Basics DEF TopoInv, NeighborsOrderly
  <2>2. NeighborHasNode
    BY <2>1 DEF DirectExact, NeighborHasNode
  <2> QED
    BY <2>1, <2>2 DEF NeighborsDirect
<1> QED
  BY <1>1, OrderlyInvariance, PTL

(***************************************************************************)
(* No step replaces what is stored of a router by something older while    *)
(* its validity time runs: the ANSN check of _cb_messagetlvs compares      *)
(* 16 bit numbers, and across the rollover it still decides as the         *)
(* absolute versions would.                                                *)
(***************************************************************************)
THEOREM NeverReplacedByOlder == OrderlySpec => NeverOlder
<1>1. ASSUME TopoInv, NEW o \in Senders, NEW v \in Versions, NEW complete \in BOOLEAN,
             NEW part, _cb_messagetlvs(o, v, complete, part), NEW q \in t.timer
      PROVE  ver'[q] >= ver[q]
  <2> DEFINE d == olsrv2_tc_node_add(t, o, ValidityTime, Ansn(v))
  <2>1. ver' = IF o \notin t.timer \/ RecentEnough(complete, Ansn(v), d.ansn[o])
               THEN [ver EXCEPT ![o] = v] ELSE ver
    BY <1>1 DEF _cb_messagetlvs
  <2>2. Same(t, d, q)
    BY <1>1, NodeOfTc
  <2> HIDE DEF d
  <2>3. ver \in [Nodes -> Nat] /\ q \in Nodes /\ ver[q] \in Nat /\ o \in Nodes
    BY <1>1, Basics, AdvertType
  <2>4. CASE q = o /\ RecentEnough(complete, Ansn(v), d.ansn[o])
    <3>1. ver[o] \in Versions /\ t.ansn[o] = Ansn(ver[o])
      BY <2>4, <1>1 DEF TopoInv, Topology, Numbered, Says
    <3>2. d.ansn[o] = Ansn(ver[o])
      BY <3>1, <2>2, <2>4 DEF Same
    <3>3. /\ Ansn(v) = Ansn(ver[o]) <=> v = ver[o]
          /\ rfc5444_seqno_is_larger(Ansn(v), Ansn(ver[o])) <=> v > ver[o]
          /\ v \in Nat
      BY <3>1, NumbersOrdered
    <3>4. v >= ver[o]
      BY <3>2, <3>3, <2>3, <2>4 DEF RecentEnough, rfc5444_seqno_is_smaller
    <3> QED
      BY <3>4, <2>1, <2>3, <2>4
  <2>5. CASE ~(q = o /\ RecentEnough(complete, Ansn(v), d.ansn[o]))
    BY <2>1, <2>3, <2>5
  <2> QED
    BY <2>4, <2>5
<1>2. ASSUME TopoInv, [OrderlyNext]_vars, NEW q \in t.timer \cap t'.timer
      PROVE  ver'[q] >= ver[q]
  <2>1. ver \in [Nodes -> Nat] /\ q \in Nodes /\ ver[q] \in Nat
    BY <1>2, Basics
  <2>2. CASE ver' = ver
    BY <2>1, <2>2
  <2>3. CASE \E o \in Senders : ReceiveTc(o)
    BY <2>3, <1>1, <1>2 DEF ReceiveTc
  <2>4. CASE \E n \in Nodes : _cb_tc_node_timeout(n)
    <3>1. PICK n \in Nodes : _cb_tc_node_timeout(n)
      BY <2>4
    <3>2. Spares(t, t', n)
      BY <3>1, <1>2, Basics, NodeRemoveSpares DEF _cb_tc_node_timeout
    <3>3. q # n
      BY <3>2, <1>2 DEF Spares
    <3>4. ver' = [ver EXCEPT ![n] = 0]
      BY <3>1 DEF _cb_tc_node_timeout
    <3> QED
      BY <3>3, <3>4, <2>1
  <2> QED
    BY <2>2, <2>3, <2>4, <1>2
       DEF OrderlyNext, vars, TcIgnored, Reading, _cb_addresstlvs, _handle_gateways,
           _cb_messagetlvs_end, FirstOriginator, nhdp_db_neighbor_set_originator,
           NeighborRemoved, nhdp_db_neighbor_remove
<1>3. TopoInv /\ [OrderlyNext]_vars => [\A o \in t.timer \cap t'.timer : ver'[o] >= ver[o]]_vars
  BY <1>2
<1> QED
  BY <1>3, OrderlyInvariance, PTL DEF OrderlySpec, NeverOlder
=============================================================================
