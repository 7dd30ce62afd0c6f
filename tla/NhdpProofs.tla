----------------------------- MODULE NhdpProofs -----------------------------
(***************************************************************************)
(* The NHDP database stays well formed, for every number of neighbors,     *)
(* links, interfaces and addresses and every HELLO.                        *)
(*                                                                         *)
(* Good is what a database always satisfies; one lemma per function of     *)
(* nhdp_db.c shows that it preserves Good.  IInv adds what the reader      *)
(* relies on while a HELLO is read: the session names live objects, and    *)
(* its link is a link of the interface the HELLO came in on.  Timed, Fresh *)
(* and Addressed describe the links between HELLOs and, while one is read, *)
(* the links the session does not name; OInv is what holds when the nodes  *)
(* around us keep their addresses (Orderly).                               *)
(***************************************************************************)
EXTENDS Nhdp, FiniteSetTheorems, TLAPS

Good(d) ==
    /\ d \in Databases
    /\ ReferencesAlive(d)
    /\ IndexExact(d)
    /\ PartnersMutual(d)
    /\ FreshObjects(d)

(***************************************************************************)
(* The objects, pointers and indexes of a database, which timers, two-hop  *)
(* entries and status changes leave alone.                                 *)
(***************************************************************************)
SameStructure(d, e) ==
    /\ e.neighs = d.neighs /\ e.orig = d.orig /\ e.origTree = d.origTree
    /\ e.npartner = d.npartner /\ e.naddr = d.naddr /\ e.links = d.links
    /\ e.neigh = d.neigh /\ e.localif = d.localif /\ e.linkOrigs = d.linkOrigs
    /\ e.lpartner = d.lpartner /\ e.laddr = d.laddr

(***************************************************************************)
(* Changes that leave the structure alone and put only live links into     *)
(* timers and two-hop entries keep a database good.                        *)
(***************************************************************************)
LEMMA SameStructureGood ==
    ASSUME NEW d, Good(d), NEW e \in Databases, SameStructure(d, e),
           \A h \in e.twohop : h[1] \in d.links,
           e.symTime \cup e.heardTime \cup e.vtime \subseteq d.links
    PROVE  Good(e)
<1>1. ReferencesAlive(e)
  BY DEF Good, ReferencesAlive, SameStructure
<1>2. IndexExact(e)
  BY DEF Good, IndexExact, SameStructure
<1>3. PartnersMutual(e)
  BY DEF Good, PartnersMutual, SameStructure
<1>4. FreshObjects(e)
  BY DEF Good, FreshObjects, SameStructure
<1>5. QED
  BY <1>1, <1>2, <1>3, <1>4 DEF Good

(* Disconnecting a partner keeps all other pairs.                          *)
LEMMA DisconnectMutual ==
    ASSUME NEW K, NEW null, null \notin K, NEW live, live \subseteq K,
           NEW p \in [K -> K \cup {null}], Mutual(p, K, live, null), NEW k \in K
    PROVE  /\ Disconnect(p, k, null) \in [K -> K \cup {null}]
           /\ Mutual(Disconnect(p, k, null), K, live, null)
           /\ Disconnect(p, k, null)[k] = null
<1>1. CASE p[k] = null
  BY <1>1 DEF Disconnect
<1>2. CASE p[k] # null
  <2>1. p[k] \in K /\ Disconnect(p, k, null) = [p EXCEPT ![p[k]] = null, ![k] = null]
    BY <1>2 DEF Disconnect
  <2>2. QED BY <2>1 DEF Mutual
<1>3. QED BY <1>1, <1>2

(* Connecting two live objects gives a mutual pair, whoever they were      *)
(* connected to before.                                                    *)
LEMMA ConnectMutual ==
    ASSUME NEW K, NEW null, null \notin K, NEW live, live \subseteq K,
           NEW p \in [K -> K \cup {null}], Mutual(p, K, live, null),
           NEW k1 \in live, NEW k2 \in live
    PROVE  /\ Connect(p, k1, k2, null) \in [K -> K \cup {null}]
           /\ Mutual(Connect(p, k1, k2, null), K, live, null)
<1>0. k1 \in K /\ k2 \in K
  OBVIOUS
<1>1. CASE p[k1] = k2
  <2>1. p[k2] = k1
    BY <1>0, <1>1 DEF Mutual
  <2>2. QED BY <1>1, <2>1 DEF Connect
<1>2. CASE p[k1] # k2
  <2> DEFINE f == Disconnect(p, k1, null)
             q == [f EXCEPT ![k1] = k2]
  <2>1. f \in [K -> K \cup {null}] /\ Mutual(f, K, live, null) /\ f[k1] = null
    BY <1>0, DisconnectMutual
  <2> HIDE DEF f
  <2>2. q \in [K -> K \cup {null}] /\ \A j \in K : q[j] = IF j = k1 THEN k2 ELSE f[j]
    BY <1>0, <2>1
  <2>3. Connect(p, k1, k2, null) =
          IF q[k2] = k1 THEN q ELSE [Disconnect(q, k2, null) EXCEPT ![k2] = k1]
    BY <1>2 DEF Connect, f
  <2> HIDE DEF q
  <2>4. CASE k1 = k2
    <3>1. Connect(p, k1, k2, null) = q
      BY <1>0, <2>2, <2>3, <2>4
    <3>2. QED BY <1>0, <2>1, <2>2, <2>4, <3>1 DEF Mutual
  <2>5. CASE k1 # k2
    <3>1. q[k2] = f[k2] /\ q[k2] # k1
      BY <1>0, <2>1, <2>2, <2>5 DEF Mutual
    <3> DEFINE r == Connect(p, k1, k2, null)
    <3>2. /\ r \in [K -> K \cup {null}]
          /\ \A j \in K : r[j] = IF j = k1 THEN k2 ELSE IF j = k2 THEN k1
                                 ELSE IF j = f[k2] THEN null ELSE f[j]
      <4>1. CASE f[k2] = null
        <5>1. r = [q EXCEPT ![k2] = k1]
          BY <2>3, <3>1, <4>1 DEF Disconnect
        <5>2. QED BY <1>0, <2>1, <2>2, <2>5, <4>1, <5>1
      <4>2. CASE f[k2] # null
        <5>1. r = [[q EXCEPT ![f[k2]] = null, ![k2] = null] EXCEPT ![k2] = k1]
          BY <2>3, <3>1, <4>2 DEF Disconnect
        <5>2. f[k2] \in K /\ f[k2] # k1
          BY <1>0, <2>1, <3>1, <4>2
        <5>3. QED BY <1>0, <2>1, <2>2, <2>5, <5>1, <5>2
      <4>3. QED BY <4>1, <4>2
    <3> HIDE DEF r
    <3>3. Mutual(r, K, live, null)
      BY <1>0, <2>1, <2>5, <3>2 DEF Mutual
    <3>4. QED BY <3>2, <3>3 DEF r
  <2>6. QED BY <2>4, <2>5
<1>3. QED BY <1>1, <1>2

(* nhdp_db_link_add hooks a fresh link into a live neighbor.               *)
LEMMA LinkAddGood ==
    ASSUME NEW d, Good(d), NEW n \in d.neighs, NEW l \in Links \ d.links, NEW i \in Ifs
    PROVE  LET e == nhdp_db_link_add(d, l, n, i)
           IN  /\ Good(e)
               /\ e.neighs = d.neighs /\ e.links = d.links \cup {l}
               /\ e.localif[l] = i
<1> DEFINE e == nhdp_db_link_add(d, l, n, i)
<1>1. e \in Databases
  BY DEF Good, Databases, nhdp_db_link_add
<1>2. /\ e.neighs = d.neighs /\ e.links = d.links \cup {l}
      /\ e.neigh = [d.neigh EXCEPT ![l] = n]
      /\ e.localif = [d.localif EXCEPT ![l] = i] /\ e.orig = d.orig
      /\ e.linkOrigs = IF d.orig[n] # NoAddr THEN d.linkOrigs \cup {l} ELSE d.linkOrigs
      /\ e.naddr = d.naddr /\ e.laddr = d.laddr /\ e.twohop = d.twohop
      /\ e.origTree = d.origTree /\ e.symTime = d.symTime
      /\ e.heardTime = d.heardTime /\ e.vtime = d.vtime
      /\ e.npartner = d.npartner /\ e.lpartner = d.lpartner
  BY DEF Good, Databases, nhdp_db_link_add
<1>3. e.localif[l] = i
  BY <1>2 DEF Good, Databases
<1> HIDE DEF e
<1>4. ReferencesAlive(e)
  BY <1>2, NhdpDbAssumption DEF Good, Databases, ReferencesAlive
<1>5. IndexExact(e)
  BY <1>2, NhdpDbAssumption DEF Good, Databases, IndexExact, FreshObjects, ReferencesAlive
<1>6. PartnersMutual(e)
  BY <1>2, NhdpDbAssumption DEF Good, Databases, PartnersMutual, Mutual
<1>7. FreshObjects(e)
  BY <1>2, NhdpDbAssumption DEF Good, Databases, FreshObjects
<1>8. QED
  BY <1>1, <1>2, <1>3, <1>4, <1>5, <1>6, <1>7 DEF Good, e

(* nhdp_db_link_remove takes every reference to the removed links along.   *)
LEMMA LinkRemoveGood ==
    ASSUME NEW d, Good(d), NEW S, S \subseteq d.links
    PROVE  LET e == nhdp_db_link_remove(d, S)
           IN  /\ Good(e)
               /\ e.neighs = d.neighs /\ e.links = d.links \ S
               /\ e.localif = d.localif /\ e.naddr = d.naddr /\ e.orig = d.orig
               /\ e.npartner = d.npartner /\ e.origTree = d.origTree
<1> DEFINE e == nhdp_db_link_remove(d, S)
<1>1. e \in Databases
  <2>1. [l \in Links |-> IF l \in S THEN NoNeigh ELSE d.neigh[l]]
          \in [Links -> Neighs \cup {NoNeigh}]
    BY DEF Good, Databases
  <2>2. [l \in Links |-> IF l \in S \/ \E p \in S : d.lpartner[p] = l
                         THEN NoLink ELSE d.lpartner[l]]
          \in [Links -> Links \cup {NoLink}]
    BY DEF Good, Databases
  <2>3. [l \in Links |-> IF l \in S THEN "LOST" ELSE d.status[l]] \in [Links -> LinkStatus]
    BY DEF Good, Databases, LinkStatus
  <2>4. [l \in Links |-> IF l \in S THEN "ok" ELSE d.hyst[l]] \in [Links -> Hysteresis]
    BY DEF Good, Databases, Hysteresis
  <2>5. [i \in Ifs |-> [a \in Addrs |->
            IF d.laddr[i][a] \in S THEN NoLink ELSE d.laddr[i][a]]]
          \in [Ifs -> [Addrs -> Links \cup {NoLink}]]
    BY DEF Good, Databases
  <2>6. {h \in d.twohop : h[1] \notin S} \in SUBSET (Links \X Addrs)
    BY DEF Good, Databases
  <2>7. QED
    BY <2>1, <2>2, <2>3, <2>4, <2>5, <2>6 DEF Good, Databases, nhdp_db_link_remove
<1>2. /\ e.neighs = d.neighs /\ e.links = d.links \ S
      /\ e.neigh = [l \in Links |-> IF l \in S THEN NoNeigh ELSE d.neigh[l]]
      /\ e.localif = d.localif /\ e.orig = d.orig
      /\ e.linkOrigs = d.linkOrigs \ {l \in S : d.orig[d.neigh[l]] # NoAddr}
      /\ e.lpartner = [l \in Links |->
            IF l \in S \/ \E p \in S : d.lpartner[p] = l THEN NoLink ELSE d.lpartner[l]]
      /\ e.symTime = d.symTime \ S /\ e.heardTime = d.heardTime \ S /\ e.vtime = d.vtime \ S
      /\ e.laddr = [i \in Ifs |-> [a \in Addrs |->
            IF d.laddr[i][a] \in S THEN NoLink ELSE d.laddr[i][a]]]
      /\ e.twohop = {h \in d.twohop : h[1] \notin S}
      /\ e.naddr = d.naddr /\ e.origTree = d.origTree /\ e.npartner = d.npartner
  BY DEF Good, Databases, nhdp_db_link_remove
<1> HIDE DEF e
<1>3. ReferencesAlive(e)
  <2>1. \A l \in e.links : e.neigh[l] \in e.neighs
    BY <1>2 DEF Good, Databases, ReferencesAlive
  <2>2. \A a \in Addrs : e.naddr[a] \in e.neighs \cup {NoNeigh}
    BY <1>2 DEF Good, ReferencesAlive
  <2>3. \A i \in Ifs, a \in Addrs :
          e.laddr[i][a] # NoLink => e.laddr[i][a] \in e.links /\ e.localif[e.laddr[i][a]] = i
    BY <1>2 DEF Good, Databases, ReferencesAlive
  <2>4. \A h \in e.twohop : h[1] \in e.links
    BY <1>2 DEF Good, Databases, ReferencesAlive
  <2>5. e.origTree \subseteq e.neighs
    BY <1>2 DEF Good, ReferencesAlive
  <2>6. e.linkOrigs \cup e.symTime \cup e.heardTime \cup e.vtime \subseteq e.links
    BY <1>2 DEF Good, Databases, ReferencesAlive, IndexExact
  <2>7. QED BY <2>1, <2>2, <2>3, <2>4, <2>5, <2>6 DEF ReferencesAlive
<1>4. IndexExact(e)
  BY <1>2 DEF Good, Databases, IndexExact, ReferencesAlive
<1>5. PartnersMutual(e)
  <2>1. Mutual(e.lpartner, Links, e.links, NoLink)
    BY <1>2, NhdpDbAssumption DEF Good, Databases, PartnersMutual, Mutual
  <2>2. QED BY <2>1, <1>2 DEF Good, PartnersMutual
<1>6. FreshObjects(e)
  BY <1>2 DEF Good, Databases, FreshObjects
<1>7. QED
  BY <1>1, <1>2, <1>3, <1>4, <1>5, <1>6 DEF Good, e

(* A link address is added to, or moved to, a live link of its interface.  *)
LEMMA SetLinkAddrGood ==
    ASSUME NEW d, Good(d), NEW i \in Ifs, NEW a \in Addrs, NEW l \in d.links, d.localif[l] = i
    PROVE  LET e == SetLinkAddr(d, i, a, l)
           IN  /\ Good(e)
               /\ e.neighs = d.neighs /\ e.links = d.links /\ e.localif = d.localif
<1> DEFINE e == SetLinkAddr(d, i, a, l)
<1>1. e \in Databases
  BY DEF Good, Databases, SetLinkAddr
<1>2. /\ e.neighs = d.neighs /\ e.links = d.links /\ e.neigh = d.neigh
      /\ e.localif = d.localif /\ e.orig = d.orig /\ e.linkOrigs = d.linkOrigs
      /\ e.laddr = [d.laddr EXCEPT ![i] = [@ EXCEPT ![a] = l]]
      /\ e.naddr = d.naddr /\ e.twohop = d.twohop /\ e.origTree = d.origTree
      /\ e.symTime = d.symTime /\ e.heardTime = d.heardTime /\ e.vtime = d.vtime
      /\ e.npartner = d.npartner /\ e.lpartner = d.lpartner
  BY DEF Good, Databases, SetLinkAddr
<1> HIDE DEF e
<1>3. ReferencesAlive(e)
  BY <1>2 DEF Good, Databases, ReferencesAlive
<1>4. IndexExact(e) /\ PartnersMutual(e) /\ FreshObjects(e)
  BY <1>2 DEF Good, IndexExact, PartnersMutual, FreshObjects
<1>5. QED
  BY <1>1, <1>2, <1>3, <1>4 DEF Good, e

(* The four functions that connect and disconnect dualstack partners.      *)
LEMMA PartnerGood ==
    ASSUME NEW d, Good(d), NEW np \in [Neighs -> Neighs \cup {NoNeigh}],
           NEW lp \in [Links -> Links \cup {NoLink}],
           Mutual(np, Neighs, d.neighs, NoNeigh), Mutual(lp, Links, d.links, NoLink)
    PROVE  /\ Good([d EXCEPT !.npartner = np])
           /\ Good([d EXCEPT !.lpartner = lp])
<1> DEFINE e1 == [d EXCEPT !.npartner = np]
           e2 == [d EXCEPT !.lpartner = lp]
<1>1. e1 \in Databases /\ e2 \in Databases
  BY DEF Good, Databases
<1>2. /\ e1.neighs = d.neighs /\ e1.links = d.links /\ e1.neigh = d.neigh
      /\ e1.localif = d.localif /\ e1.orig = d.orig /\ e1.linkOrigs = d.linkOrigs
      /\ e1.laddr = d.laddr /\ e1.naddr = d.naddr /\ e1.twohop = d.twohop
      /\ e1.origTree = d.origTree /\ e1.symTime = d.symTime
      /\ e1.heardTime = d.heardTime /\ e1.vtime = d.vtime /\ e1.lpartner = d.lpartner
      /\ e1.npartner = np
  BY DEF Good, Databases
<1>3. /\ e2.neighs = d.neighs /\ e2.links = d.links /\ e2.neigh = d.neigh
      /\ e2.localif = d.localif /\ e2.orig = d.orig /\ e2.linkOrigs = d.linkOrigs
      /\ e2.laddr = d.laddr /\ e2.naddr = d.naddr /\ e2.twohop = d.twohop
      /\ e2.origTree = d.origTree /\ e2.symTime = d.symTime
      /\ e2.heardTime = d.heardTime /\ e2.vtime = d.vtime /\ e2.npartner = d.npartner
      /\ e2.lpartner = lp
  BY DEF Good, Databases
<1> HIDE DEF e1, e2
<1>4. ReferencesAlive(e1) /\ IndexExact(e1) /\ FreshObjects(e1) /\ PartnersMutual(e1)
  BY <1>2 DEF Good, ReferencesAlive, IndexExact, FreshObjects, PartnersMutual
<1>5. ReferencesAlive(e2) /\ IndexExact(e2) /\ FreshObjects(e2) /\ PartnersMutual(e2)
  BY <1>3 DEF Good, ReferencesAlive, IndexExact, FreshObjects, PartnersMutual
<1>6. QED BY <1>1, <1>4, <1>5 DEF Good, e1, e2

(* nhdp_db_link_disconnect_dualstack of a live link.                       *)
LEMMA LinkDisconnectGood ==
    ASSUME NEW d, Good(d), NEW l \in d.links
    PROVE  LET e == nhdp_db_link_disconnect_dualstack(d, l)
           IN  Good(e) /\ e.neighs = d.neighs /\ e.links = d.links /\ e.localif = d.localif
<1>1. l \in Links /\ d.links \subseteq Links /\ d.lpartner \in [Links -> Links \cup {NoLink}]
  BY DEF Good, Databases
<1>2. Mutual(d.lpartner, Links, d.links, NoLink) /\ Mutual(d.npartner, Neighs, d.neighs, NoNeigh)
  BY DEF Good, PartnersMutual
<1>3. /\ Disconnect(d.lpartner, l, NoLink) \in [Links -> Links \cup {NoLink}]
      /\ Mutual(Disconnect(d.lpartner, l, NoLink), Links, d.links, NoLink)
  BY <1>1, <1>2, DisconnectMutual, NhdpDbAssumption
<1>4. d.npartner \in [Neighs -> Neighs \cup {NoNeigh}]
  BY DEF Good, Databases
<1>5. Good(nhdp_db_link_disconnect_dualstack(d, l))
  BY <1>2, <1>3, <1>4, PartnerGood DEF nhdp_db_link_disconnect_dualstack
<1>6. QED
  BY <1>5 DEF Good, Databases, nhdp_db_link_disconnect_dualstack

(* nhdp_db_link_connect_dualstack of two live links.                       *)
LEMMA LinkConnectGood ==
    ASSUME NEW d, Good(d), NEW l1 \in d.links, NEW l2 \in d.links
    PROVE  LET e == nhdp_db_link_connect_dualstack(d, l1, l2)
           IN  Good(e) /\ e.neighs = d.neighs /\ e.links = d.links /\ e.localif = d.localif
<1>1. d.links \subseteq Links /\ d.lpartner \in [Links -> Links \cup {NoLink}]
  BY DEF Good, Databases
<1>2. Mutual(d.lpartner, Links, d.links, NoLink) /\ Mutual(d.npartner, Neighs, d.neighs, NoNeigh)
  BY DEF Good, PartnersMutual
<1>3. /\ Connect(d.lpartner, l1, l2, NoLink) \in [Links -> Links \cup {NoLink}]
      /\ Mutual(Connect(d.lpartner, l1, l2, NoLink), Links, d.links, NoLink)
  BY <1>1, <1>2, ConnectMutual, NhdpDbAssumption
<1>4. d.npartner \in [Neighs -> Neighs \cup {NoNeigh}]
  BY DEF Good, Databases
<1>5. Good(nhdp_db_link_connect_dualstack(d, l1, l2))
  BY <1>2, <1>3, <1>4, PartnerGood DEF nhdp_db_link_connect_dualstack
<1>6. QED
  BY <1>5 DEF Good, Databases, nhdp_db_link_connect_dualstack

(* nhdp_db_neigbor_disconnect_dualstack of a live neighbor.                *)
LEMMA NeighborDisconnectGood ==
    ASSUME NEW d, Good(d), NEW n \in d.neighs
    PROVE  LET e == nhdp_db_neigbor_disconnect_dualstack(d, n)
           IN  /\ Good(e)
               /\ e.npartner[n] = NoNeigh
               /\ \A m \in Neighs : e.npartner[m] # n
               /\ e.neighs = d.neighs /\ e.links = d.links /\ e.localif = d.localif
               /\ e.naddr = d.naddr /\ e.orig = d.orig /\ e.origTree = d.origTree
<1> DEFINE np == Disconnect(d.npartner, n, NoNeigh)
<1>1. /\ n \in Neighs /\ d.neighs \subseteq Neighs
      /\ d.npartner \in [Neighs -> Neighs \cup {NoNeigh}]
  BY DEF Good, Databases
<1>2. Mutual(d.lpartner, Links, d.links, NoLink) /\ Mutual(d.npartner, Neighs, d.neighs, NoNeigh)
  BY DEF Good, PartnersMutual
<1>3. /\ np \in [Neighs -> Neighs \cup {NoNeigh}]
      /\ Mutual(np, Neighs, d.neighs, NoNeigh)
      /\ np[n] = NoNeigh
  <2>1. NoNeigh \notin Neighs
    BY NhdpDbAssumption
  <2>2. QED
    BY <1>1, <1>2, <2>1, DisconnectMutual
<1>4. d.lpartner \in [Links -> Links \cup {NoLink}]
  BY DEF Good, Databases
<1>5. Good(nhdp_db_neigbor_disconnect_dualstack(d, n))
  BY <1>2, <1>3, <1>4, PartnerGood DEF nhdp_db_neigbor_disconnect_dualstack
<1>6. \A m \in Neighs : np[m] # n
  BY <1>1, <1>3, NhdpDbAssumption DEF Mutual
<1> DEFINE e == nhdp_db_neigbor_disconnect_dualstack(d, n)
<1>7. e = [d EXCEPT !.npartner = np]
  BY DEF nhdp_db_neigbor_disconnect_dualstack
<1> HIDE DEF np, e
<1>8. /\ e.npartner = np
      /\ e.neighs = d.neighs /\ e.links = d.links /\ e.localif = d.localif
      /\ e.naddr = d.naddr /\ e.orig = d.orig /\ e.origTree = d.origTree
  BY <1>7 DEF Good, Databases
<1>9. QED
  BY <1>3, <1>5, <1>6, <1>8 DEF e

(* nhdp_db_neighbor_connect_dualstack of two live neighbors.               *)
LEMMA NeighborConnectGood ==
    ASSUME NEW d, Good(d), NEW n1 \in d.neighs, NEW n2 \in d.neighs
    PROVE  LET e == nhdp_db_neighbor_connect_dualstack(d, n1, n2)
           IN  Good(e) /\ e.neighs = d.neighs /\ e.links = d.links /\ e.localif = d.localif
<1>1. d.neighs \subseteq Neighs /\ d.npartner \in [Neighs -> Neighs \cup {NoNeigh}]
  BY DEF Good, Databases
<1>2. Mutual(d.lpartner, Links, d.links, NoLink) /\ Mutual(d.npartner, Neighs, d.neighs, NoNeigh)
  BY DEF Good, PartnersMutual
<1>3. /\ Connect(d.npartner, n1, n2, NoNeigh) \in [Neighs -> Neighs \cup {NoNeigh}]
      /\ Mutual(Connect(d.npartner, n1, n2, NoNeigh), Neighs, d.neighs, NoNeigh)
  BY <1>1, <1>2, ConnectMutual, NhdpDbAssumption
<1>4. d.lpartner \in [Links -> Links \cup {NoLink}]
  BY DEF Good, Databases
<1>5. Good(nhdp_db_neighbor_connect_dualstack(d, n1, n2))
  BY <1>2, <1>3, <1>4, PartnerGood DEF nhdp_db_neighbor_connect_dualstack
<1>6. QED
  BY <1>5 DEF Good, Databases, nhdp_db_neighbor_connect_dualstack

(* A fresh neighbor.                                                       *)
LEMMA NeighborAddGood ==
    ASSUME NEW d, Good(d), NEW n \in Neighs \ d.neighs
    PROVE  LET e == nhdp_db_neighbor_add(d, n)
           IN  /\ Good(e)
               /\ e.neighs = d.neighs \cup {n} /\ e.links = d.links /\ e.localif = d.localif
<1> DEFINE e == nhdp_db_neighbor_add(d, n)
<1>1. e \in Databases
  BY DEF Good, Databases, nhdp_db_neighbor_add
<1>2. /\ e.neighs = d.neighs \cup {n} /\ e.links = d.links /\ e.neigh = d.neigh
      /\ e.localif = d.localif /\ e.orig = d.orig /\ e.linkOrigs = d.linkOrigs
      /\ e.laddr = d.laddr /\ e.naddr = d.naddr /\ e.twohop = d.twohop
      /\ e.origTree = d.origTree /\ e.symTime = d.symTime
      /\ e.heardTime = d.heardTime /\ e.vtime = d.vtime /\ e.lpartner = d.lpartner
      /\ e.npartner = d.npartner
  BY DEF Good, Databases, nhdp_db_neighbor_add
<1> HIDE DEF e
<1>3. ReferencesAlive(e)
  BY <1>2 DEF Good, ReferencesAlive
<1>4. IndexExact(e)
  BY <1>2 DEF Good, Databases, IndexExact, FreshObjects, ReferencesAlive
<1>5. PartnersMutual(e) /\ FreshObjects(e)
  BY <1>2 DEF Good, PartnersMutual, Mutual, FreshObjects
<1>6. QED
  BY <1>1, <1>2, <1>3, <1>4, <1>5 DEF Good, e

(* nhdp_db_neighbor_remove takes links, addresses, partner and index entry *)
(* of the neighbor along.                                                  *)
LEMMA NeighborRemoveGood ==
    ASSUME NEW d, Good(d), NEW n \in d.neighs
    PROVE  LET e == nhdp_db_neighbor_remove(d, n)
           IN  /\ Good(e)
               /\ e.neighs = d.neighs \ {n} /\ e.links \subseteq d.links
               /\ e.localif = d.localif
<1> DEFINE d1 == nhdp_db_neigbor_disconnect_dualstack(d, n)
           d2 == nhdp_db_link_remove(d1, LinksOf(d1, n))
           e  == nhdp_db_neighbor_remove(d, n)
<1>1. /\ Good(d1)
      /\ d1.npartner[n] = NoNeigh /\ \A m \in Neighs : d1.npartner[m] # n
      /\ d1.neighs = d.neighs /\ d1.links = d.links /\ d1.localif = d.localif
      /\ d1.naddr = d.naddr /\ d1.orig = d.orig /\ d1.origTree = d.origTree
  BY NeighborDisconnectGood
<1> HIDE DEF d1
<1>2. LinksOf(d1, n) \subseteq d1.links
  BY DEF LinksOf
<1>3. /\ Good(d2)
      /\ d2.neighs = d.neighs /\ d2.links = d.links \ LinksOf(d1, n)
      /\ d2.localif = d.localif /\ d2.naddr = d.naddr /\ d2.orig = d.orig
      /\ d2.npartner = d1.npartner /\ d2.origTree = d.origTree
  BY <1>1, <1>2, LinkRemoveGood
<1>4. \A l \in d2.links : d2.neigh[l] # n
  <2>1. d2.neigh = [l \in Links |-> IF l \in LinksOf(d1, n) THEN NoNeigh ELSE d1.neigh[l]]
    BY <1>1 DEF nhdp_db_link_remove, Good, Databases
  <2>2. d2.links \subseteq Links
    BY <1>3 DEF Good, Databases
  <2>3. QED BY <1>1, <1>3, <2>1, <2>2 DEF LinksOf, Good, Databases
<1> DEFINE na == [a \in Addrs |-> IF d2.naddr[a] = n THEN NoNeigh ELSE d2.naddr[a]]
           ot == IF d.orig[n] # NoAddr THEN d2.origTree \ {n} ELSE d2.origTree
           og == [d2.orig EXCEPT ![n] = NoAddr]
           sy == [d2.symmetric EXCEPT ![n] = 0]
           lo == d2.lost \ NaddrsOf(d, n)
           mg == d2.mayGo \ NaddrsOf(d, n)
           ne == d2.neighs \ {n}
<1>5. e = [d2 EXCEPT !.naddr = na, !.lost = lo, !.mayGo = mg, !.origTree = ot, !.orig = og,
                     !.symmetric = sy, !.neighs = ne]
  BY <1>3 DEF nhdp_db_neighbor_remove, d1, Good, Databases
<1> HIDE DEF d2, e
<1>6. n \in Neighs
  BY DEF Good, Databases
<1>7. e \in Databases
  <2>1. /\ na \in [Addrs -> Neighs \cup {NoNeigh}] /\ og \in [Neighs -> Addrs \cup {NoAddr}]
        /\ sy \in [Neighs -> Int] /\ ot \in SUBSET Neighs /\ lo \in SUBSET Addrs
        /\ mg \in SUBSET Addrs /\ ne \in SUBSET Neighs
    BY <1>3, <1>6 DEF Good, Databases
  <2> HIDE DEF na, ot, og, sy, lo, mg, ne
  <2>2. QED BY <1>3, <1>5, <2>1 DEF Good, Databases
<1>8. /\ e.neighs = ne /\ e.links = d2.links /\ e.neigh = d2.neigh
      /\ e.localif = d2.localif /\ e.orig = og
      /\ e.linkOrigs = d2.linkOrigs /\ e.laddr = d2.laddr
      /\ e.naddr = na /\ e.origTree = ot
      /\ e.twohop = d2.twohop /\ e.symTime = d2.symTime
      /\ e.heardTime = d2.heardTime /\ e.vtime = d2.vtime /\ e.lpartner = d2.lpartner
      /\ e.npartner = d2.npartner
  <2> HIDE DEF na, ot, og, sy, lo, mg, ne
  <2>1. QED BY <1>3, <1>5 DEF Good, Databases
<1>9. ReferencesAlive(e)
  <2>1. n \notin e.origTree
    BY <1>3, <1>8 DEF Good, IndexExact
  <2>2. e.origTree \subseteq e.neighs
    BY <1>3, <1>8, <2>1 DEF Good, ReferencesAlive
  <2>3. \A l \in e.links : e.neigh[l] \in e.neighs
    BY <1>3, <1>4, <1>8 DEF Good, ReferencesAlive
  <2>4. \A a \in Addrs : e.naddr[a] \in e.neighs \cup {NoNeigh}
    BY <1>3, <1>8 DEF Good, Databases, ReferencesAlive
  <2>5. QED BY <1>3, <1>8, <2>2, <2>3, <2>4 DEF Good, ReferencesAlive
<1>10. IndexExact(e)
  BY <1>3, <1>4, <1>6, <1>8 DEF Good, Databases, IndexExact, ReferencesAlive
<1>11. PartnersMutual(e)
  BY <1>1, <1>3, <1>6, <1>8 DEF Good, Databases, PartnersMutual, Mutual
<1>12. FreshObjects(e)
  BY <1>3, <1>6, <1>8 DEF Good, Databases, FreshObjects
<1>13. QED
  BY <1>3, <1>7, <1>8, <1>9, <1>10, <1>11, <1>12 DEF Good, e

(* Neighbor addresses are added, moved and removed.                        *)
LEMMA NeighborAddrGood ==
    ASSUME NEW d, Good(d), NEW a \in Addrs, NEW n \in d.neighs
    PROVE  /\ LET e == SetNeighborAddr(d, a, n)
              IN  Good(e) /\ e.neighs = d.neighs /\ e.links = d.links /\ e.localif = d.localif
           /\ LET e == [d EXCEPT !.mayGo = @ \ {a}, !.lost = @ \ {a}]
              IN  Good(e) /\ e.neighs = d.neighs /\ e.links = d.links /\ e.localif = d.localif
<1> DEFINE e == SetNeighborAddr(d, a, n)
           f == [d EXCEPT !.mayGo = @ \ {a}, !.lost = @ \ {a}]
<1>1. e \in Databases /\ f \in Databases
  BY DEF Good, Databases, SetNeighborAddr
<1>2. /\ e.neighs = d.neighs /\ e.links = d.links /\ e.neigh = d.neigh
      /\ e.localif = d.localif /\ e.orig = d.orig /\ e.linkOrigs = d.linkOrigs
      /\ e.laddr = d.laddr /\ e.naddr = [d.naddr EXCEPT ![a] = n] /\ e.twohop = d.twohop
      /\ e.origTree = d.origTree /\ e.symTime = d.symTime
      /\ e.heardTime = d.heardTime /\ e.vtime = d.vtime /\ e.lpartner = d.lpartner
      /\ e.npartner = d.npartner
  BY DEF Good, Databases, SetNeighborAddr
<1>3. /\ f.neighs = d.neighs /\ f.links = d.links /\ f.neigh = d.neigh
      /\ f.localif = d.localif /\ f.orig = d.orig /\ f.linkOrigs = d.linkOrigs
      /\ f.laddr = d.laddr /\ f.naddr = d.naddr /\ f.twohop = d.twohop
      /\ f.origTree = d.origTree /\ f.symTime = d.symTime
      /\ f.heardTime = d.heardTime /\ f.vtime = d.vtime /\ f.lpartner = d.lpartner
      /\ f.npartner = d.npartner
  BY DEF Good, Databases
<1> HIDE DEF e, f
<1>4. ReferencesAlive(e)
  BY <1>2 DEF Good, Databases, ReferencesAlive
<1>5. IndexExact(e) /\ PartnersMutual(e) /\ FreshObjects(e)
  BY <1>2 DEF Good, IndexExact, PartnersMutual, FreshObjects
<1>6. Good(f)
  BY <1>1, <1>3, SameStructureGood DEF Good, ReferencesAlive, SameStructure
<1>7. QED
  BY <1>1, <1>2, <1>3, <1>4, <1>5, <1>6 DEF Good, e, f

(* nhdp_db_neighbor_addr_remove.                                           *)
LEMMA NeighborAddrRemoveGood ==
    ASSUME NEW d, Good(d), NEW a \in Addrs
    PROVE  Good(nhdp_db_neighbor_addr_remove(d, a))
<1> DEFINE e == nhdp_db_neighbor_addr_remove(d, a)
<1>1. e \in Databases
  BY DEF Good, Databases, nhdp_db_neighbor_addr_remove
<1>2. /\ e.neighs = d.neighs /\ e.links = d.links /\ e.neigh = d.neigh
      /\ e.localif = d.localif /\ e.orig = d.orig /\ e.linkOrigs = d.linkOrigs
      /\ e.laddr = d.laddr /\ e.naddr = [d.naddr EXCEPT ![a] = NoNeigh] /\ e.twohop = d.twohop
      /\ e.origTree = d.origTree /\ e.symTime = d.symTime
      /\ e.heardTime = d.heardTime /\ e.vtime = d.vtime /\ e.lpartner = d.lpartner
      /\ e.npartner = d.npartner
  BY DEF Good, Databases, nhdp_db_neighbor_addr_remove
<1> HIDE DEF e
<1>3. ReferencesAlive(e)
  BY <1>2 DEF Good, Databases, ReferencesAlive
<1>4. IndexExact(e) /\ PartnersMutual(e) /\ FreshObjects(e)
  BY <1>2 DEF Good, IndexExact, PartnersMutual, FreshObjects
<1>5. QED
  BY <1>1, <1>3, <1>4 DEF Good, e

(* Timers of live links are started and stopped.                           *)
LEMMA TimersGood ==
    ASSUME NEW d, Good(d), NEW ti \in SUBSET d.links, NEW he \in SUBSET d.links,
           NEW vt \in SUBSET d.links,
           NEW e, e = [d EXCEPT !.symTime = ti, !.heardTime = he, !.vtime = vt]
    PROVE  Good(e) /\ SameStructure(d, e)
<1>0. d.links \subseteq Links
  BY DEF Good, Databases
<1>1. e \in Databases /\ SameStructure(d, e)
  BY <1>0 DEF Good, Databases, SameStructure
<1>2. e.twohop = d.twohop /\ e.symTime = ti /\ e.heardTime = he /\ e.vtime = vt
  BY DEF Good, Databases
<1>3. \A h \in e.twohop : h[1] \in d.links
  BY <1>2 DEF Good, ReferencesAlive
<1>4. QED BY <1>1, <1>2, <1>3, SameStructureGood

(* The timers _cb_msg_pass2_end starts and stops and those that fire.      *)
LEMMA TimerGood ==
    ASSUME NEW d, Good(d), NEW l \in d.links
    PROVE  /\ LET e == [d EXCEPT !.symTime = @ \cup {l}] IN Good(e) /\ SameStructure(d, e)
           /\ LET e == [d EXCEPT !.symTime = @ \ {l}] IN Good(e) /\ SameStructure(d, e)
           /\ LET e == [d EXCEPT !.heardTime = @ \ {l}] IN Good(e) /\ SameStructure(d, e)
           /\ LET e == [d EXCEPT !.heardTime = @ \cup {l}, !.vtime = @ \cup {l}]
              IN  Good(e) /\ SameStructure(d, e)
<1>1. /\ d.symTime \in SUBSET d.links /\ d.heardTime \in SUBSET d.links
      /\ d.vtime \in SUBSET d.links
  BY DEF Good, ReferencesAlive
<1> DEFINE t == d.symTime \cup {l}
           u == d.symTime \ {l}
           v == d.heardTime \ {l}
           w == d.heardTime \cup {l}
           x == d.vtime \cup {l}
           e1 == [d EXCEPT !.symTime = t]
           e2 == [d EXCEPT !.symTime = u]
           e3 == [d EXCEPT !.heardTime = v]
           e4 == [d EXCEPT !.heardTime = w, !.vtime = x]
<1>2. /\ t \in SUBSET d.links /\ u \in SUBSET d.links /\ v \in SUBSET d.links
      /\ w \in SUBSET d.links /\ x \in SUBSET d.links
  BY <1>1
<1> HIDE DEF t, u, v, w, x
<1>3. /\ e1 = [d EXCEPT !.symTime = t, !.heardTime = d.heardTime, !.vtime = d.vtime]
      /\ e2 = [d EXCEPT !.symTime = u, !.heardTime = d.heardTime, !.vtime = d.vtime]
      /\ e3 = [d EXCEPT !.symTime = d.symTime, !.heardTime = v, !.vtime = d.vtime]
      /\ e4 = [d EXCEPT !.symTime = d.symTime, !.heardTime = w, !.vtime = x]
  BY DEF Good, Databases
<1> HIDE DEF e1, e2, e3, e4
<1>4. Good(e1) /\ SameStructure(d, e1)
  BY <1>1, <1>2, <1>3, TimersGood
<1>5. Good(e2) /\ SameStructure(d, e2)
  BY <1>1, <1>2, <1>3, TimersGood
<1>6. Good(e3) /\ SameStructure(d, e3)
  BY <1>1, <1>2, <1>3, TimersGood
<1>7. Good(e4) /\ SameStructure(d, e4)
  BY <1>1, <1>2, <1>3, TimersGood
<1>8. QED BY <1>4, <1>5, <1>6, <1>7 DEF e1, e2, e3, e4, t, u, v, w, x

(* Two-hop addresses of live links, lost and marked addresses, counters,   *)
(* status and hysteresis.                                                  *)
LEMMA DataGood ==
    ASSUME NEW d, Good(d), NEW st \in [Links -> LinkStatus], NEW hy \in [Links -> Hysteresis],
           NEW sy \in [Neighs -> Int], NEW lo \in SUBSET Addrs, NEW mg \in SUBSET Addrs,
           NEW th \in SUBSET (Links \X Addrs), \A h \in th : h[1] \in d.links,
           NEW e, e = [d EXCEPT !.status = st, !.hyst = hy, !.symmetric = sy, !.lost = lo,
                                !.mayGo = mg, !.twohop = th]
    PROVE  Good(e) /\ SameStructure(d, e)
<1>1. e \in Databases /\ SameStructure(d, e)
  BY DEF Good, Databases, SameStructure
<1>2. e.twohop = th /\ e.symTime = d.symTime /\ e.heardTime = d.heardTime /\ e.vtime = d.vtime
  BY DEF Good, Databases
<1>3. e.symTime \cup e.heardTime \cup e.vtime \subseteq d.links
  BY <1>2 DEF Good, ReferencesAlive
<1>4. QED BY <1>1, <1>2, <1>3, SameStructureGood

(* The data a database has already is fit for DataGood.                    *)
LEMMA DataTypes ==
    ASSUME NEW d, Good(d)
    PROVE  /\ d.status \in [Links -> LinkStatus] /\ d.hyst \in [Links -> Hysteresis]
           /\ d.symmetric \in [Neighs -> Int] /\ d.lost \in SUBSET Addrs
           /\ d.mayGo \in SUBSET Addrs /\ d.twohop \in SUBSET (Links \X Addrs)
           /\ \A h \in d.twohop : h[1] \in d.links
           /\ \A l \in d.links : l \in Links /\ d.neigh[l] \in d.neighs /\ d.neigh[l] \in Neighs
           /\ \A n : NaddrsOf(d, n) \subseteq Addrs
BY DEF Good, Databases, ReferencesAlive, NaddrsOf

(* A link stops being symmetric.                                           *)
LEMMA NotSymmetricGood ==
    ASSUME NEW d, Good(d), NEW l \in d.links
    PROVE  LET e == _link_status_not_symmetric_anymore(d, l)
           IN  Good(e) /\ SameStructure(d, e)
<1> DEFINE n  == d.neigh[l]
           th == {h \in d.twohop : h[1] # l}
           sy == [d.symmetric EXCEPT ![n] = @ - 1]
           lo == IF d.symmetric[n] - 1 = 0 THEN d.lost \cup NaddrsOf(d, n) ELSE d.lost
           e  == _link_status_not_symmetric_anymore(d, l)
<1>1. n \in Neighs
  BY DataTypes
<1>2. sy \in [Neighs -> Int]
  BY <1>1, DataTypes
<1>3. lo \in SUBSET Addrs
  BY DataTypes
<1>4. th \in SUBSET (Links \X Addrs) /\ \A h \in th : h[1] \in d.links
  BY DataTypes
<1>5. e = [d EXCEPT !.twohop = th, !.symmetric = sy, !.lost = lo]
  BY DEF _link_status_not_symmetric_anymore
<1> HIDE DEF e, n, th, sy, lo
<1>6. e = [d EXCEPT !.status = d.status, !.hyst = d.hyst, !.symmetric = sy, !.lost = lo,
                    !.mayGo = d.mayGo, !.twohop = th]
  BY <1>5 DEF Good, Databases
<1>7. Good(e) /\ SameStructure(d, e)
  BY <1>2, <1>3, <1>4, <1>6, DataTypes, DataGood
<1>8. QED BY <1>7 DEF e

(* A link becomes symmetric.                                               *)
LEMMA NowSymmetricGood ==
    ASSUME NEW d, Good(d), NEW l \in d.links
    PROVE  LET e == _link_status_now_symmetric(d, l)
           IN  Good(e) /\ SameStructure(d, e)
<1> DEFINE n  == d.neigh[l]
           sy == [d.symmetric EXCEPT ![n] = @ + 1]
           lo == IF d.symmetric[n] + 1 = 1 THEN d.lost \ NaddrsOf(d, n) ELSE d.lost
           e  == _link_status_now_symmetric(d, l)
<1>1. n \in Neighs
  BY DataTypes
<1>2. sy \in [Neighs -> Int]
  BY <1>1, DataTypes
<1>3. lo \in SUBSET Addrs
  BY DataTypes
<1>5. e = [d EXCEPT !.symmetric = sy, !.lost = lo]
  BY DEF _link_status_now_symmetric
<1> HIDE DEF e, n, sy, lo
<1>6. e = [d EXCEPT !.status = d.status, !.hyst = d.hyst, !.symmetric = sy, !.lost = lo,
                    !.mayGo = d.mayGo, !.twohop = d.twohop]
  BY <1>5 DEF Good, Databases
<1>7. Good(e) /\ SameStructure(d, e)
  BY <1>2, <1>3, <1>6, DataTypes, DataGood
<1>8. QED BY <1>7 DEF e

(* nhdp_db_link_update_status leaves objects and pointers alone.           *)
LEMMA UpdateStatusGood ==
    ASSUME NEW d, Good(d), NEW l \in d.links
    PROVE  LET e == nhdp_db_link_update_status(d, l)
           IN  Good(e) /\ SameStructure(d, e)
<1> DEFINE st == [d.status EXCEPT ![l] = CalculateStatus(d, l)]
           d1 == [d EXCEPT !.status = st]
           e  == nhdp_db_link_update_status(d, l)
<1>1. st \in [Links -> LinkStatus]
  <2>1. CalculateStatus(d, l) \in LinkStatus
    BY DEF CalculateStatus, LinkStatus
  <2>2. QED BY <2>1, DataTypes
<1>2. Good(d1) /\ SameStructure(d, d1)
  <2> HIDE DEF st
  <2>1. d1 = [d EXCEPT !.status = st, !.hyst = d.hyst, !.symmetric = d.symmetric,
                       !.lost = d.lost, !.mayGo = d.mayGo, !.twohop = d.twohop]
    BY DEF Good, Databases
  <2> HIDE DEF d1
  <2>2. QED BY <1>1, <2>1, DataTypes, DataGood
<1>5. e = IF d.status[l] = "SYMMETRIC" /\ CalculateStatus(d, l) # "SYMMETRIC"
          THEN _link_status_not_symmetric_anymore(d1, l)
          ELSE IF ~(d.status[l] = "SYMMETRIC") /\ CalculateStatus(d, l) = "SYMMETRIC"
          THEN _link_status_now_symmetric(d1, l)
          ELSE d1
  BY DEF nhdp_db_link_update_status
<1> HIDE DEF st, d1, e
<1>6. l \in d1.links
  BY <1>2 DEF SameStructure
<1>7. /\ Good(_link_status_not_symmetric_anymore(d1, l))
      /\ SameStructure(d1, _link_status_not_symmetric_anymore(d1, l))
  BY <1>2, <1>6, NotSymmetricGood
<1>8. /\ Good(_link_status_now_symmetric(d1, l))
      /\ SameStructure(d1, _link_status_now_symmetric(d1, l))
  BY <1>2, <1>6, NowSymmetricGood
<1>9. QED
  BY <1>2, <1>5, <1>7, <1>8 DEF SameStructure, e

(* nhdp_db_link_set_unsymmetric for the links of an interface.             *)
LEMMA SetUnsymmetricGood ==
    ASSUME NEW d, Good(d), NEW S, S \subseteq d.links
    PROVE  Good(nhdp_db_link_set_unsymmetric(d, S))
<1> DEFINE fallen(n) == Cardinality({l \in S : d.neigh[l] = n /\ d.status[l] = "SYMMETRIC"})
           th == {h \in d.twohop : h[1] \notin S}
           sy == [n \in Neighs |-> d.symmetric[n] - fallen(n)]
           lo == d.lost \cup {a \in Addrs : d.naddr[a] \in d.neighs /\
                    d.symmetric[d.naddr[a]] \in 1..fallen(d.naddr[a])}
           ti == d.symTime \ S
           e == nhdp_db_link_set_unsymmetric(d, S)
<1>1. \A n \in Neighs : fallen(n) \in Int
  <2> SUFFICES ASSUME NEW n \in Neighs PROVE fallen(n) \in Nat
    OBVIOUS
  <2>1. {l \in S : d.neigh[l] = n /\ d.status[l] = "SYMMETRIC"} \subseteq Links
    BY DEF Good, Databases
  <2>2. QED BY <2>1, NhdpDbAssumption, FS_Subset, FS_CardinalityType
<1>2. sy \in [Neighs -> Int]
  <2> HIDE DEF fallen
  <2>1. QED BY <1>1 DEF Good, Databases
<1>3. /\ lo \in SUBSET Addrs /\ th \in SUBSET (Links \X Addrs) /\ ti \in SUBSET Links
      /\ \A h \in th : h[1] \in d.links
  BY DEF Good, Databases, ReferencesAlive
<1>4. e = [d EXCEPT !.symTime = ti, !.twohop = th, !.symmetric = sy, !.lost = lo]
  BY DEF nhdp_db_link_set_unsymmetric
<1>5. ti \subseteq d.links
  BY DEF Good, ReferencesAlive
<1> HIDE DEF fallen, th, sy, lo, ti, e
<1>6. e \in Databases /\ SameStructure(d, e) /\ e.twohop = th
      /\ e.symTime = ti /\ e.heardTime = d.heardTime /\ e.vtime = d.vtime
  BY <1>2, <1>3, <1>4 DEF Good, Databases, SameStructure
<1>7. QED
  BY <1>3, <1>5, <1>6, SameStructureGood DEF Good, ReferencesAlive, SameStructure, e

(* Originators and the indexes that fit them.                              *)
IndexesFit(d, ot, lo, og) ==
    /\ ot \in SUBSET d.neighs /\ lo \in SUBSET d.links
    /\ og \in [Neighs -> Addrs \cup {NoAddr}]
    /\ \A m \in d.neighs : m \in ot <=> og[m] # NoAddr
    /\ \A l \in d.links : l \in lo <=> og[d.neigh[l]] # NoAddr
    /\ \A m1, m2 \in d.neighs : og[m1] # NoAddr /\ og[m1] = og[m2] => m1 = m2
    /\ \A m \in Neighs \ d.neighs : og[m] = NoAddr

WithIndexes(d, ot, lo, og) == [d EXCEPT !.origTree = ot, !.linkOrigs = lo, !.orig = og]

(* New originators with indexes that fit them keep a database good.        *)
LEMMA IndexesGood ==
    ASSUME NEW d, Good(d), NEW ot, NEW lo, NEW og, IndexesFit(d, ot, lo, og),
           NEW e, e = WithIndexes(d, ot, lo, og)
    PROVE  Good(e) /\ e.neighs = d.neighs /\ e.links = d.links /\ e.localif = d.localif
<1>0. d.neighs \subseteq Neighs /\ d.links \subseteq Links
  BY DEF Good, Databases
<1>1. e \in Databases
  BY <1>0 DEF Good, Databases, IndexesFit, WithIndexes
<1>2. /\ e.neighs = d.neighs /\ e.links = d.links /\ e.neigh = d.neigh
      /\ e.localif = d.localif /\ e.orig = og /\ e.linkOrigs = lo /\ e.origTree = ot
      /\ e.laddr = d.laddr /\ e.naddr = d.naddr /\ e.twohop = d.twohop
      /\ e.symTime = d.symTime /\ e.heardTime = d.heardTime /\ e.vtime = d.vtime
      /\ e.npartner = d.npartner /\ e.lpartner = d.lpartner
  BY DEF Good, Databases, WithIndexes
<1>3. ReferencesAlive(e)
  BY <1>2 DEF Good, ReferencesAlive, IndexesFit
<1>4. IndexExact(e)
  BY <1>2 DEF IndexExact, IndexesFit
<1>5. PartnersMutual(e) /\ FreshObjects(e)
  BY <1>2 DEF Good, PartnersMutual, FreshObjects, IndexesFit
<1>6. QED BY <1>1, <1>2, <1>3, <1>4, <1>5 DEF Good

(***************************************************************************)
(* nhdp_db_neighbor_set_originator keeps the indexes exact, also when it   *)
(* takes the originator away from another neighbor.                        *)
(***************************************************************************)
LEMMA SetOriginatorGood ==
    ASSUME NEW d, Good(d), NEW n \in d.neighs, NEW o \in Addrs \cup {NoAddr}
    PROVE  LET e == nhdp_db_neighbor_set_originator(d, n, o)
           IN  Good(e) /\ e.neighs = d.neighs /\ e.links = d.links /\ e.localif = d.localif
<1> DEFINE e == nhdp_db_neighbor_set_originator(d, n, o)
<1>1. CASE d.orig[n] = o
  BY <1>1 DEF nhdp_db_neighbor_set_originator
<1>2. CASE d.orig[n] # o
  <2> DEFINE d1 == IF d.orig[n] # NoAddr THEN Unindex(d, n) ELSE d
             n2 == NeighborByOriginator(d1, o)
             d2 == IF n2 # NoNeigh
                   THEN [Unindex(d1, n2) EXCEPT !.orig[n2] = NoAddr] ELSE d1
             d3 == [d2 EXCEPT !.orig[n] = o]
             ot1 == d.origTree \ {n}
             lo1 == d.linkOrigs \ LinksOf(d, n)
             ot2 == ot1 \ {n2}
             lo2 == lo1 \ LinksOf(d, n2)
             og2 == [m \in Neighs |-> IF m = n2 THEN NoAddr ELSE d.orig[m]]
             og  == [og2 EXCEPT ![n] = o]
             ot  == IF o = NoAddr THEN ot2 ELSE ot2 \cup {n}
             lo  == IF o = NoAddr THEN lo2 ELSE lo2 \cup LinksOf(d, n)
  <2>1. e = IF o = NoAddr THEN d3
            ELSE [d3 EXCEPT !.origTree = @ \cup {n}, !.linkOrigs = @ \cup LinksOf(d3, n)]
    BY <1>2 DEF nhdp_db_neighbor_set_originator
  <2>0. /\ n \in Neighs /\ d.neighs \subseteq Neighs /\ d.links \subseteq Links
        /\ d.origTree \subseteq d.neighs /\ d.linkOrigs \subseteq d.links
        /\ d.orig \in [Neighs -> Addrs \cup {NoAddr}]
    BY DEF Good, Databases, ReferencesAlive
  <2>2. d1 = [d EXCEPT !.origTree = ot1, !.linkOrigs = lo1]
    <3>1. CASE d.orig[n] # NoAddr
      BY <3>1 DEF Unindex
    <3>2. CASE d.orig[n] = NoAddr
      <4>1. d.origTree = ot1 /\ d.linkOrigs = lo1
        BY <3>2, <2>0 DEF Good, IndexExact, LinksOf
      <4> HIDE DEF ot1, lo1
      <4>2. QED BY <3>2, <4>1 DEF Good, Databases
    <3>3. QED BY <3>1, <3>2
  <2>3. /\ n2 # NoNeigh => n2 \in ot1 /\ d.orig[n2] = o /\ o # NoAddr
        /\ n2 = NoNeigh => o = NoAddr \/ \A m \in ot1 : d.orig[m] # o
    <3>1. d1.origTree = ot1 /\ d1.orig = d.orig
      <4> HIDE DEF d1, ot1, lo1
      <4>1. QED BY <2>2 DEF Good, Databases
    <3>2. NoNeigh \notin ot1
      BY <2>0, NhdpDbAssumption
    <3> HIDE DEF d1, ot1, lo1
    <3>3. QED BY <3>1, <3>2 DEF NeighborByOriginator
  <2> HIDE DEF d1
  <2>4. d2 = [d EXCEPT !.origTree = ot2, !.linkOrigs = lo2, !.orig = og2]
    <3>1. CASE n2 # NoNeigh
      <4>1. n2 \in Neighs
        BY <2>0, <2>3, <3>1
      <4>2. /\ d1.origTree = ot1 /\ d1.linkOrigs = lo1 /\ d1.orig = d.orig
            /\ d1.links = d.links /\ d1.neigh = d.neigh
        <5> HIDE DEF ot1, lo1
        <5>1. QED BY <2>2 DEF Good, Databases
      <4>3. LinksOf(d1, n2) = LinksOf(d, n2)
        BY <4>2 DEF LinksOf
      <4>4. og2 = [d.orig EXCEPT ![n2] = NoAddr]
        BY <4>1, <2>0
      <4> HIDE DEF n2, ot1, lo1
      <4>5. Unindex(d1, n2) = [d EXCEPT !.origTree = ot2, !.linkOrigs = lo2]
        <5> DEFINE x == LinksOf(d, n2)
        <5> HIDE DEF x
        <5>1. Unindex(d1, n2) = [d1 EXCEPT !.origTree = ot1 \ {n2}, !.linkOrigs = lo1 \ x]
          BY <4>2, <4>3 DEF Unindex, x
        <5>2. ot2 = ot1 \ {n2} /\ lo2 = lo1 \ x
          BY DEF x
        <5> HIDE DEF ot2, lo2
        <5>3. QED BY <2>2, <5>1, <5>2 DEF Good, Databases
      <4>6. d2 = [Unindex(d1, n2) EXCEPT !.orig[n2] = NoAddr]
        BY <3>1
      <4> HIDE DEF ot2, lo2, og2, d2
      <4>7. QED BY <4>4, <4>5, <4>6 DEF Good, Databases
    <3>2. CASE n2 = NoNeigh
      <4>1. NoNeigh \notin ot1 /\ NoNeigh \notin Neighs
        BY <2>0, NhdpDbAssumption
      <4>2. ot2 = ot1 /\ og2 = d.orig
        BY <2>0, <3>2, <4>1
      <4>3. LinksOf(d, n2) = {}
        BY <2>0, <3>2, <4>1 DEF LinksOf, Good, ReferencesAlive
      <4>4. lo2 = lo1
        BY <4>3
      <4>5. d2 = d1
        BY <3>2
      <4> HIDE DEF ot1, lo1, ot2, lo2, og2, d2, n2
      <4>6. QED BY <2>2, <4>2, <4>4, <4>5 DEF Good, Databases
    <3>3. QED BY <3>1, <3>2
  <2> HIDE DEF d2
  <2>5. e = [d EXCEPT !.origTree = ot, !.linkOrigs = lo, !.orig = og]
    <3>1. d2.orig = og2 /\ d2.links = d.links /\ d2.neigh = d.neigh /\ d2.origTree = ot2
          /\ d2.linkOrigs = lo2
      <4> HIDE DEF ot2, lo2, og2
      <4>1. QED BY <2>4 DEF Good, Databases
    <3>2. d3 = [d EXCEPT !.origTree = ot2, !.linkOrigs = lo2, !.orig = og]
      <4> HIDE DEF ot2, lo2, og2
      <4>1. d3 = [d2 EXCEPT !.orig = og]
        BY <3>1
      <4> HIDE DEF og, d3
      <4>2. QED BY <2>4, <4>1 DEF Good, Databases
    <3>3. d3.links = d.links /\ d3.neigh = d.neigh /\ d3.origTree = ot2 /\ d3.linkOrigs = lo2
      <4> HIDE DEF ot2, lo2, og, d3
      <4>1. QED BY <3>2 DEF Good, Databases
    <3>4. LinksOf(d3, n) = LinksOf(d, n)
      BY <3>3 DEF LinksOf
    <3>5. CASE o = NoAddr
      BY <2>1, <3>2, <3>5
    <3>6. CASE o # NoAddr
      <4>1. e = [d3 EXCEPT !.origTree = d3.origTree \cup {n},
                           !.linkOrigs = d3.linkOrigs \cup LinksOf(d3, n)]
        BY <2>1, <3>6
      <4>2. e = [d3 EXCEPT !.origTree = ot, !.linkOrigs = lo]
        BY <3>3, <3>4, <3>6, <4>1
      <4> HIDE DEF ot, lo, ot2, lo2, og, d3, e
      <4>3. QED BY <3>2, <4>2 DEF Good, Databases
    <3>7. QED BY <3>5, <3>6
  <2> HIDE DEF n2, d3, e
  <2>6. ot \in SUBSET d.neighs /\ lo \in SUBSET d.links
    BY <2>0 DEF LinksOf
  <2>7. og \in [Neighs -> Addrs \cup {NoAddr}]
    BY <2>0
  <2>8. \A m \in Neighs : og[m] = IF m = n THEN o ELSE IF m = n2 THEN NoAddr ELSE d.orig[m]
    BY <2>0
  <2>9. \A m \in d.neighs : m \in ot <=> og[m] # NoAddr
    BY <2>0, <2>8 DEF Good, IndexExact
  <2>10. \A l \in d.links : l \in lo <=> og[d.neigh[l]] # NoAddr
    BY <2>0, <2>8 DEF Good, IndexExact, ReferencesAlive, LinksOf
  <2>11. \A m1, m2 \in d.neighs : og[m1] # NoAddr /\ og[m1] = og[m2] => m1 = m2
    BY <2>0, <2>3, <2>8 DEF Good, IndexExact
  <2>12. \A m \in Neighs \ d.neighs : og[m] = NoAddr
    BY <2>0, <2>8 DEF Good, FreshObjects
  <2> HIDE DEF og, ot, lo
  <2> IndexesFit(d, ot, lo, og)
    BY <2>6, <2>7, <2>9, <2>10, <2>11, <2>12 DEF IndexesFit
  <2>13. Good(e) /\ e.neighs = d.neighs /\ e.links = d.links /\ e.localif = d.localif
    <3>1. e = WithIndexes(d, ot, lo, og)
      BY <2>5 DEF WithIndexes
    <3>2. QED BY <3>1, IndexesGood
  <2>14. QED BY <2>13 DEF e
<1>3. QED BY <1>1, <1>2

(* Marking the addresses of a neighbor and a verdict of the hysteresis.    *)
LEMMA MarkGood ==
    ASSUME NEW d, Good(d), NEW n
    PROVE  LET e == MarkNeighborAddrs(d, n) IN Good(e) /\ SameStructure(d, e)
<1> DEFINE e  == MarkNeighborAddrs(d, n)
           mg == d.mayGo \cup {a \in NaddrsOf(d, n) : Af[a] = msg.af}
<1>1. mg \in SUBSET Addrs
  BY DataTypes
<1>2. e = [d EXCEPT !.mayGo = mg]
  BY DEF MarkNeighborAddrs
<1> HIDE DEF e, mg
<1>3. e = [d EXCEPT !.status = d.status, !.hyst = d.hyst, !.symmetric = d.symmetric,
                    !.lost = d.lost, !.mayGo = mg, !.twohop = d.twohop]
  BY <1>2 DEF Good, Databases
<1>4. Good(e) /\ SameStructure(d, e)
  BY <1>1, <1>3, DataTypes, DataGood
<1>5. QED BY <1>4 DEF e

(* A new verdict of the hysteresis about a link.                           *)
LEMMA HystGood ==
    ASSUME NEW d, Good(d), NEW l \in d.links, NEW h \in Hysteresis
    PROVE  LET e == [d EXCEPT !.hyst[l] = h] IN Good(e) /\ SameStructure(d, e)
<1> DEFINE hy == [d.hyst EXCEPT ![l] = h]
           e  == [d EXCEPT !.hyst = hy]
<1>1. hy \in [Links -> Hysteresis]
  BY DataTypes
<1> HIDE DEF hy
<1>2. e = [d EXCEPT !.status = d.status, !.hyst = hy, !.symmetric = d.symmetric,
                    !.lost = d.lost, !.mayGo = d.mayGo, !.twohop = d.twohop]
  BY DEF Good, Databases
<1> HIDE DEF e
<1>3. Good(e) /\ SameStructure(d, e)
  BY <1>1, <1>2, DataTypes, DataGood
<1>4. QED BY <1>3 DEF e, hy

(* Two-hop entries of a live link.                                         *)
LEMMA TwohopGood ==
    ASSUME NEW d, Good(d), NEW th \in SUBSET (Links \X Addrs), \A h \in th : h[1] \in d.links
    PROVE  LET e == [d EXCEPT !.twohop = th] IN Good(e) /\ SameStructure(d, e)
<1> DEFINE e == [d EXCEPT !.twohop = th]
<1>1. e = [d EXCEPT !.status = d.status, !.hyst = d.hyst, !.symmetric = d.symmetric,
                    !.lost = d.lost, !.mayGo = d.mayGo, !.twohop = th]
  BY DEF Good, Databases
<1> HIDE DEF e
<1>2. Good(e) /\ SameStructure(d, e)
  BY <1>1, DataTypes, DataGood
<1>3. QED BY <1>2 DEF e

(* The neighbor and the link of a HELLO, found or allocated.               *)
LEMMA WithNeighborGood ==
    ASSUME NEW d, Good(d), NEW n \in Neighs
    PROVE  LET e == WithNeighbor(d, n)
           IN  /\ Good(e) /\ e.neighs = d.neighs \cup {n} /\ e.links = d.links
               /\ e.localif = d.localif
<1>1. CASE n \in d.neighs
  BY <1>1, MarkGood DEF WithNeighbor, SameStructure
<1>2. CASE n \notin d.neighs
  BY <1>2, NeighborAddGood DEF WithNeighbor
<1>3. QED BY <1>1, <1>2

(* A link of the interface the HELLO came in on, or a fresh one.           *)
LEMMA WithLinkGood ==
    ASSUME NEW d, Good(d), NEW n \in d.neighs, NEW l \in Links, msg.localif \in Ifs,
           l \in d.links => d.localif[l] = msg.localif
    PROVE  LET e == WithLink(d, n, l)
           IN  /\ Good(e) /\ e.neighs = d.neighs /\ e.links = d.links \cup {l}
               /\ e.localif[l] = msg.localif
<1>1. CASE l \in d.links
  BY <1>1 DEF WithLink
<1>2. CASE l \notin d.links
  BY <1>2, LinkAddGood DEF WithLink
<1>3. QED BY <1>1, <1>2

(* The session of a HELLO from interface i: its link is a link of i.       *)
LinkSession(d, c, i) ==
    c \in Sessions /\ c.link \in d.links /\ d.localif[c.link] = i

(* ProcessLinkAddr never removes the link of the session.                  *)
LEMMA ProcessLinkAddrGood ==
    ASSUME NEW d, Good(d), NEW c, msg.localif \in Ifs, LinkSession(d, c, msg.localif),
           NEW a \in Addrs
    PROVE  LET r == ProcessLinkAddr(d, c, a)
           IN  /\ Good(r[1]) /\ r[1].neighs = d.neighs
               /\ r[2].neigh = c.neigh /\ r[2].link = c.link
               /\ LinkSession(r[1], r[2], msg.localif)
<1> DEFINE i == msg.localif
           l == d.laddr[i][a]
           c1 == [c EXCEPT !.countL[l] = @ - 1, !.mayGo = @ \ {a}]
           d1 == SetLinkAddr(d, i, a, c.link)
           d2 == nhdp_db_link_remove(d1, {l})
           r == ProcessLinkAddr(d, c, a)
<1>1. l \in Links \cup {NoLink} /\ (l # NoLink => l \in d.links)
  BY DEF Good, Databases, ReferencesAlive
<1>2. ASSUME l # NoLink PROVE c1 \in Sessions /\ c1.neigh = c.neigh /\ c1.link = c.link
  <2> DEFINE cl == [c.countL EXCEPT ![l] = @ - 1]
  <2>1. cl \in [Links -> Int]
    BY <1>1, <1>2 DEF LinkSession, Sessions
  <2>2. c1 = [c EXCEPT !.countL = cl, !.mayGo = @ \ {a}]
    OBVIOUS
  <2> HIDE DEF cl, l, c1
  <2>3. QED BY <2>1, <2>2 DEF LinkSession, Sessions
<1>3. Good(d1) /\ d1.neighs = d.neighs /\ d1.links = d.links /\ d1.localif = d.localif
  BY SetLinkAddrGood DEF LinkSession
<1>4. l \in d.links => /\ Good(d2) /\ d2.neighs = d.neighs /\ d2.links = d.links \ {l}
                       /\ d2.localif = d.localif
  <2> HIDE DEF l, d1
  <2>1. QED BY <1>3, LinkRemoveGood
<1>5. r = IF l = NoLink THEN <<d1, c>>
          ELSE IF l = c.link THEN <<d, c1>>
          ELSE IF c1.countL[l] = 0 THEN <<d2, c1>> ELSE <<d1, c1>>
  BY DEF ProcessLinkAddr
<1> HIDE DEF l, c1, d1, d2, r, i
<1>6. CASE l = NoLink
  <2>1. r = <<d1, c>>
    BY <1>5, <1>6
  <2>2. QED BY <1>3, <2>1 DEF LinkSession, r, i
<1>7. CASE l # NoLink /\ l = c.link
  <2>1. r = <<d, c1>>
    BY <1>5, <1>7
  <2>2. QED BY <1>2, <1>7, <2>1 DEF LinkSession, r, i
<1>8. CASE l # NoLink /\ l # c.link /\ c1.countL[l] = 0
  <2>1. r = <<d2, c1>>
    BY <1>5, <1>8
  <2>2. l \in d.links
    BY <1>1, <1>8
  <2>3. Good(d2) /\ d2.neighs = d.neighs /\ c.link \in d2.links /\ d2.localif = d.localif
    BY <1>4, <1>8, <2>2 DEF LinkSession
  <2>4. QED BY <1>2, <1>8, <2>1, <2>3 DEF LinkSession, r, i
<1>9. CASE l # NoLink /\ l # c.link /\ c1.countL[l] # 0
  <2>1. r = <<d1, c1>>
    BY <1>5, <1>9
  <2>2. QED BY <1>2, <1>3, <1>9, <2>1 DEF LinkSession, r, i
<1>10. QED BY <1>6, <1>7, <1>8, <1>9

(***************************************************************************)
(* ProcessNeighborAddr never removes the neighbor of the session; the link *)
(* of the session may go with another neighbor.                            *)
(***************************************************************************)
LEMMA ProcessNeighborAddrGood ==
    ASSUME NEW d, Good(d), NEW c \in Sessions, c.neigh \in d.neighs, NEW a \in Addrs
    PROVE  LET r == ProcessNeighborAddr(d, c, a)
           IN  /\ Good(r[1]) /\ c.neigh \in r[1].neighs /\ r[1].localif = d.localif
               /\ r[2] \in Sessions /\ r[2].neigh = c.neigh /\ r[2].link = c.link
<1> DEFINE n == d.naddr[a]
           c1 == [c EXCEPT !.countN[n] = @ - 1]
           d1 == SetNeighborAddr(d, a, c.neigh)
           d2 == IF n # c.neigh /\ c1.countN[n] = 0
                 THEN nhdp_db_neighbor_remove(d1, n) ELSE d1
           d3 == [d2 EXCEPT !.mayGo = @ \ {a}, !.lost = @ \ {a}]
           r == ProcessNeighborAddr(d, c, a)
<1>1. n \in d.neighs \cup {NoNeigh} /\ d.neighs \subseteq Neighs
  BY DEF Good, Databases, ReferencesAlive
<1>2. ASSUME n # NoNeigh PROVE c1 \in Sessions /\ c1.neigh = c.neigh /\ c1.link = c.link
  <2> DEFINE cn == [c.countN EXCEPT ![n] = @ - 1]
  <2>1. cn \in [Neighs -> Int]
    BY <1>1, <1>2 DEF Sessions
  <2>2. c1 = [c EXCEPT !.countN = cn]
    OBVIOUS
  <2> HIDE DEF cn, n, c1
  <2>3. QED BY <2>1, <2>2 DEF Sessions
<1>3. Good(d1) /\ d1.neighs = d.neighs /\ d1.links = d.links /\ d1.localif = d.localif
  BY NeighborAddrGood
<1> HIDE DEF n, c1, d1
<1>4. ASSUME n # NoNeigh PROVE Good(d2) /\ c.neigh \in d2.neighs /\ d2.localif = d.localif
  BY <1>1, <1>3, <1>4, NeighborRemoveGood
<1> HIDE DEF d2
<1>5. ASSUME n # NoNeigh PROVE Good(d3) /\ c.neigh \in d3.neighs /\ d3.localif = d.localif
  BY <1>4, <1>5, NeighborAddrGood
<1>6. r = IF n = NoNeigh THEN <<d1, c>> ELSE <<d3, c1>>
  BY DEF ProcessNeighborAddr, n, c1, d1, d2
<1> HIDE DEF d3, r
<1>7. CASE n = NoNeigh
  <2>1. r = <<d1, c>>
    BY <1>6, <1>7
  <2>2. QED BY <1>3, <2>1 DEF r
<1>8. CASE n # NoNeigh
  <2>1. r = <<d3, c1>>
    BY <1>6, <1>8
  <2>2. QED BY <1>2, <1>5, <1>8, <2>1 DEF r
<1>9. QED BY <1>7, <1>8

(* An address of the sender keeps neighbor and interface of the session.   *)
LEMMA ProcessLocalifGood ==
    ASSUME NEW d, Good(d), NEW c, msg.localif \in Ifs, LinkSession(d, c, msg.localif),
           c.neigh \in d.neighs, NEW a \in Addrs, NEW lif
    PROVE  LET r == _pass2_process_localif(d, c, a, lif)
           IN  /\ Good(r[1]) /\ c.neigh \in r[1].neighs
               /\ r[2] \in Sessions /\ r[2].neigh = c.neigh /\ r[2].link = c.link
               /\ r[1].localif[c.link] = msg.localif
<1> DEFINE q == IF lif = "this" THEN ProcessLinkAddr(d, c, a) ELSE <<d, c>>
<1>1. /\ Good(q[1]) /\ q[1].neighs = d.neighs /\ q[2].neigh = c.neigh /\ q[2].link = c.link
      /\ LinkSession(q[1], q[2], msg.localif)
  <2>1. CASE lif = "this"
    <3>1. q = ProcessLinkAddr(d, c, a)
      BY <2>1
    <3> HIDE DEF q
    <3>2. QED BY <3>1, ProcessLinkAddrGood
  <2>2. CASE lif # "this"
    BY <2>2
  <2>3. QED BY <2>1, <2>2
<1>2. _pass2_process_localif(d, c, a, lif) = ProcessNeighborAddr(q[1], q[2], a)
  BY DEF _pass2_process_localif
<1> HIDE DEF q
<1>3. q[2] \in Sessions /\ q[1].localif[c.link] = msg.localif /\ q[2].neigh \in q[1].neighs
  BY <1>1 DEF LinkSession
<1> DEFINE f == q[1]
           g == q[2]
           r == ProcessNeighborAddr(f, g, a)
<1> HIDE DEF f, g
<1>4. /\ Good(r[1]) /\ g.neigh \in r[1].neighs /\ r[1].localif = f.localif
      /\ r[2] \in Sessions /\ r[2].neigh = g.neigh /\ r[2].link = g.link
  BY <1>1, <1>3, ProcessNeighborAddrGood DEF f, g
<1> HIDE DEF r
<1>5. r = _pass2_process_localif(d, c, a, lif)
  BY <1>2 DEF r, f, g
<1>6. QED BY <1>1, <1>3, <1>4, <1>5 DEF f, g

(* What the lookups by originator find is alive.                           *)
LEMMA LookupsAlive ==
    ASSUME NEW d, Good(d)
    PROVE  /\ \A o : NeighborByOriginator(d, o) \in d.neighs \cup {NoNeigh}
           /\ \A l \in DualstackLinks(d) : l # NoLink => l \in d.links
<1>1. d.origTree \subseteq d.neighs /\ d.linkOrigs \subseteq d.links
  BY DEF Good, ReferencesAlive
<1>2. \A o : NeighborByOriginator(d, o) \in d.neighs \cup {NoNeigh}
  BY <1>1 DEF NeighborByOriginator
<1>3. \A l \in DualstackLinks(d) : l # NoLink => l \in d.links
  BY <1>1 DEF DualstackLinks, LinksByOriginator
<1>4. QED BY <1>2, <1>3

(* The dualstack information of a HELLO.                                   *)
LEMMA HandleDualstackGood ==
    ASSUME NEW d, Good(d), NEW c, c.neigh \in d.neighs, c.link \in d.links,
           NEW l2 \in d.links \cup {NoLink}
    PROVE  LET e == HandleDualstack(d, c, l2)
           IN  Good(e) /\ e.neighs = d.neighs /\ e.links = d.links /\ e.localif = d.localif
<1> DEFINE n2 == NeighborByOriginator(d, msg.v4)
           d1 == IF n2 = NoNeigh THEN d
                 ELSE nhdp_db_neighbor_connect_dualstack(d, c.neigh, n2)
           d2 == IF l2 = NoLink THEN d1 ELSE nhdp_db_link_connect_dualstack(d1, c.link, l2)
           d3 == nhdp_db_neigbor_disconnect_dualstack(d, c.neigh)
           d4 == nhdp_db_link_disconnect_dualstack(d3, c.link)
<1>1. n2 \in d.neighs \cup {NoNeigh}
  BY LookupsAlive
<1>2. Good(d1) /\ d1.neighs = d.neighs /\ d1.links = d.links /\ d1.localif = d.localif
  <2> HIDE DEF n2
  <2>1. QED BY <1>1, NeighborConnectGood
<1>3. Good(d2) /\ d2.neighs = d.neighs /\ d2.links = d.links /\ d2.localif = d.localif
  <2> HIDE DEF d1
  <2>1. CASE l2 = NoLink
    BY <1>2, <2>1
  <2>2. CASE l2 # NoLink
    BY <1>2, <2>2, LinkConnectGood
  <2>3. QED BY <2>1, <2>2
<1>4. Good(d3) /\ d3.neighs = d.neighs /\ d3.links = d.links /\ d3.localif = d.localif
  BY NeighborDisconnectGood
<1>5. Good(d4) /\ d4.neighs = d.neighs /\ d4.links = d.links /\ d4.localif = d.localif
  <2> HIDE DEF d3
  <2>1. QED BY <1>4, LinkDisconnectGood
<1>6. HandleDualstack(d, c, l2) \in {d, d2, d4}
  BY DEF HandleDualstack
<1> HIDE DEF d2, d4
<1>7. QED BY <1>3, <1>5, <1>6

(* The two-hop address of a HELLO.                                         *)
LEMMA ProcessTwohopGood ==
    ASSUME NEW d, Good(d), NEW c, c.link \in d.links, NEW x, x.addr \in Addrs
    PROVE  LET e == ProcessTwohop(d, c, x) IN Good(e) /\ SameStructure(d, e)
<1> DEFINE h == <<c.link, x.addr>>
           t == d.twohop \cup {h}
           u == d.twohop \ {h}
<1>1. /\ t \in SUBSET (Links \X Addrs) /\ \A k \in t : k[1] \in d.links
      /\ u \in SUBSET (Links \X Addrs) /\ \A k \in u : k[1] \in d.links
  BY DataTypes
<1>2. ProcessTwohop(d, c, x) \in {d, [d EXCEPT !.twohop = t], [d EXCEPT !.twohop = u]}
  BY DEF ProcessTwohop
<1> HIDE DEF t, u
<1>3. /\ Good([d EXCEPT !.twohop = t]) /\ SameStructure(d, [d EXCEPT !.twohop = t])
      /\ Good([d EXCEPT !.twohop = u]) /\ SameStructure(d, [d EXCEPT !.twohop = u])
  BY <1>1, TwohopGood
<1>4. SameStructure(d, d)
  BY DEF SameStructure
<1>5. QED BY <1>2, <1>3, <1>4

(* Removing the addresses a HELLO did not mention.                         *)
LEMMA RemoveLeftoversGood ==
    ASSUME NEW d, Good(d), NEW c, msg.localif \in Ifs
    PROVE  LET e == RemoveLeftovers(d, c)
           IN  Good(e) /\ e.neighs = d.neighs /\ e.links = d.links /\ e.localif = d.localif
<1> DEFINE i == msg.localif
           goneL == {a \in LinkAddrsOf(d, c.link) : a \in c.mayGo}
           goneN == NaddrsOf(d, c.neigh) \cap d.mayGo
           la == [d.laddr EXCEPT ![i] = [a \in Addrs |-> IF a \in goneL THEN NoLink ELSE @[a]]]
           lo == d.lost \cup goneN
           th == {h \in d.twohop : ~(h[1] = c.link /\ h[2] \in goneN)}
           e == RemoveLeftovers(d, c)
<1>1. e = [d EXCEPT !.laddr = la, !.lost = lo, !.twohop = th]
  BY DEF RemoveLeftovers
<1>2. /\ la \in [Ifs -> [Addrs -> Links \cup {NoLink}]]
      /\ \A j \in Ifs, a \in Addrs : la[j][a] \in {d.laddr[j][a], NoLink}
  BY DEF Good, Databases
<1>3. /\ lo \in SUBSET Addrs /\ th \in SUBSET (Links \X Addrs)
      /\ \A h \in th : h[1] \in d.links
  BY DataTypes
<1> HIDE DEF la, lo, th, e, i, goneL, goneN
<1>4. e \in Databases
  BY <1>1, <1>2, <1>3 DEF Good, Databases
<1>5. /\ e.neighs = d.neighs /\ e.links = d.links /\ e.neigh = d.neigh
      /\ e.localif = d.localif /\ e.orig = d.orig /\ e.linkOrigs = d.linkOrigs
      /\ e.laddr = la /\ e.naddr = d.naddr /\ e.twohop = th /\ e.origTree = d.origTree
      /\ e.symTime = d.symTime /\ e.heardTime = d.heardTime /\ e.vtime = d.vtime
      /\ e.npartner = d.npartner /\ e.lpartner = d.lpartner
  BY <1>1 DEF Good, Databases
<1>6. ReferencesAlive(e)
  BY <1>2, <1>3, <1>5 DEF Good, ReferencesAlive
<1>7. IndexExact(e) /\ PartnersMutual(e) /\ FreshObjects(e)
  BY <1>5 DEF Good, IndexExact, PartnersMutual, FreshObjects
<1>8. QED BY <1>4, <1>5, <1>6, <1>7 DEF Good, e

(* The symmetric time of the link of the session is restarted or stopped.  *)
LEMMA UpdateSymTimeGood ==
    ASSUME NEW d, Good(d), NEW c, c.link \in d.links
    PROVE  LET e == UpdateSymTime(d, c) IN Good(e) /\ SameStructure(d, e)
<1> DEFINE d1 == [d EXCEPT !.symTime = @ \cup {c.link}]
           d2 == [d EXCEPT !.symTime = @ \ {c.link}]
           d3 == nhdp_db_link_update_status(d1, c.link)
<1>1. Good(d1) /\ SameStructure(d, d1) /\ Good(d2) /\ SameStructure(d, d2)
  BY TimerGood
<1> HIDE DEF d1
<1>2. Good(d3) /\ SameStructure(d1, d3)
  BY <1>1, UpdateStatusGood DEF SameStructure
<1>3. SameStructure(d, d3) /\ SameStructure(d, d)
  BY <1>1, <1>2 DEF SameStructure
<1>4. UpdateSymTime(d, c) \in {d3, d2, d}
  BY DEF UpdateSymTime, d1
<1> HIDE DEF d2, d3
<1>5. QED BY <1>1, <1>2, <1>3, <1>4

(* The end of a HELLO.                                                     *)
LEMMA FinishLinkGood ==
    ASSUME NEW d, Good(d), NEW c, c.link \in d.links, c.neigh \in d.neighs,
           msg.localif \in Ifs, msg.orig \in Addrs \cup {NoAddr}
    PROVE  LET e == FinishLink(d, c)
           IN  Good(e) /\ e.neighs = d.neighs /\ e.links = d.links /\ e.localif = d.localif
<1> DEFINE d1 == RemoveLeftovers(d, c)
           d2 == UpdateSymTime(d1, c)
           d3 == [d2 EXCEPT !.heardTime = @ \cup {c.link}, !.vtime = @ \cup {c.link}]
           d4 == nhdp_db_neighbor_set_originator(d3, c.neigh, msg.orig)
           d5 == nhdp_db_link_update_status(d4, c.link)
<1>1. Good(d1) /\ d1.neighs = d.neighs /\ d1.links = d.links /\ d1.localif = d.localif
  BY RemoveLeftoversGood
<1> HIDE DEF d1
<1>2. Good(d2) /\ d2.neighs = d.neighs /\ d2.links = d.links /\ d2.localif = d.localif
  BY <1>1, UpdateSymTimeGood DEF SameStructure
<1> HIDE DEF d2
<1>3. Good(d3) /\ d3.neighs = d.neighs /\ d3.links = d.links /\ d3.localif = d.localif
  <2>1. c.link \in d2.links
    BY <1>2
  <2>2. Good(d3) /\ SameStructure(d2, d3)
    BY <1>2, <2>1, TimerGood
  <2>3. QED BY <1>2, <2>2 DEF SameStructure
<1> HIDE DEF d3
<1>4. Good(d4) /\ d4.neighs = d.neighs /\ d4.links = d.links /\ d4.localif = d.localif
  BY <1>3, SetOriginatorGood
<1> HIDE DEF d4
<1>5. Good(d5) /\ d5.neighs = d.neighs /\ d5.links = d.links /\ d5.localif = d.localif
  BY <1>4, UpdateStatusGood DEF SameStructure
<1>6. FinishLink(d, c) = d5
  BY DEF FinishLink, d1, d2, d3, d4
<1>7. QED BY <1>5, <1>6

(* The end callback for a dropped message.                                 *)
LEMMA CleanupGood ==
    ASSUME NEW d, Good(d), NEW c, CleanupDefined(d, c)
    PROVE  Good(_cleanup_error(d, c))
<1> DEFINE d1 == IF c.link = NoLink THEN d ELSE nhdp_db_link_remove(d, {c.link})
<1>1. Good(d1) /\ d1.neighs = d.neighs
  <2>1. CASE c.link = NoLink
    BY <2>1
  <2>2. CASE c.link # NoLink
    <3>1. {c.link} \subseteq d.links
      BY <2>2 DEF CleanupDefined
    <3>2. QED BY <2>2, <3>1, LinkRemoveGood
  <2>3. QED BY <2>1, <2>2
<1> HIDE DEF d1
<1>2. CASE c.neigh = NoNeigh
  BY <1>1, <1>2 DEF _cleanup_error, d1
<1>3. CASE c.neigh # NoNeigh
  <2>1. c.neigh \in d1.neighs
    BY <1>1, <1>3 DEF CleanupDefined
  <2>2. Good(nhdp_db_neighbor_remove(d1, c.neigh))
    BY <1>1, <2>1, NeighborRemoveGood
  <2>3. QED BY <1>3, <2>2 DEF _cleanup_error, d1
<1>4. QED BY <1>2, <1>3

(* The database the daemon starts with.                                    *)
LEMMA EmptyDbGood ==
    Good(EmptyDb)
<1>1. EmptyDb \in Databases
  <2>1. [l \in Links |-> CHOOSE i \in Ifs : TRUE] \in [Links -> Ifs]
    BY NhdpDbAssumption
  <2>2. QED BY <2>1 DEF EmptyDb, Databases, LinkStatus, Hysteresis
<1>2. ReferencesAlive(EmptyDb)
  BY DEF EmptyDb, ReferencesAlive
<1>3. IndexExact(EmptyDb)
  BY DEF EmptyDb, IndexExact
<1>4. PartnersMutual(EmptyDb)
  BY DEF EmptyDb, PartnersMutual, Mutual
<1>5. FreshObjects(EmptyDb)
  BY DEF EmptyDb, FreshObjects
<1>6. QED BY <1>1, <1>2, <1>3, <1>4, <1>5 DEF Good

(* The session while the addresses of a HELLO are collected: what it names *)
(* is alive, and its link is a link of the interface i.                    *)
SessionFits(d, c, i) ==
    /\ c \in Sessions
    /\ c.neigh \in d.neighs \cup {NoNeigh} /\ c.link \in d.links \cup {NoLink}
    /\ c.link # NoLink => d.localif[c.link] = i

(***************************************************************************)
(* The inductive invariant.                                                *)
(***************************************************************************)
IInv ==
    /\ TypeOK /\ Good(db)
    /\ pc # "idle" => idx # 0 /\ SessionFits(db, cur, msg.localif)
    /\ pc = "pass2" => SessionAlive(db, cur)

(* What the parts of the HELLO that is being read are.                     *)
LEMMA MessageFacts ==
    ASSUME TypeOK, pc # "idle"
    PROVE  /\ msg.localif \in Ifs /\ msg.src \in Addrs
           /\ msg.orig \in Addrs \cup {NoAddr}
           /\ idx # 0 /\ idx <= Len(msg.addrs) => msg.addrs[idx].addr \in Addrs
<1>1. msg \in Messages /\ idx \in Nat
  BY NhdpAssumption DEF TypeOK
<1>2. msg.addrs \in Seq(AddressEntries)
  BY <1>1 DEF Messages
<1>3. ASSUME idx # 0, idx <= Len(msg.addrs) PROVE msg.addrs[idx].addr \in Addrs
  <2>1. msg.addrs[idx] \in AddressEntries
    BY <1>1, <1>2, <1>3
  <2>2. QED BY <2>1 DEF AddressEntries
<1>4. QED BY <1>1, <1>3 DEF Messages

(* Collecting an address keeps the session fit.                            *)
LEMMA Pass1SessionFits ==
    ASSUME NEW d, Good(d), NEW c, msg.localif \in Ifs, SessionFits(d, c, msg.localif),
           NEW x, x.addr \in Addrs
    PROVE  SessionFits(d, Pass1Session(d, c, x), msg.localif)
<1> DEFINE n == d.naddr[x.addr]
           l == d.laddr[msg.localif][x.addr]
           hitN == x.lif # "none" /\ n # NoNeigh
           hitL == x.lif = "this" /\ l # NoLink
           own == x.ls # "none" /\ x.addr \in OwnAddrs[msg.localif]
           clashN == hitN /\ ~c.naddr_conflict /\ c.neigh \notin {NoNeigh, n}
           clashL == hitL /\ ~c.laddr_conflict /\ c.link \notin {NoLink, l}
           cn == IF hitN THEN [c.countN EXCEPT ![n] = @ + 1] ELSE c.countN
           cl == IF hitL THEN [c.countL EXCEPT ![l] = @ + 1] ELSE c.countL
           nn == IF clashN THEN NoNeigh
                 ELSE IF hitN /\ ~c.naddr_conflict THEN n ELSE c.neigh
           ll == IF clashL THEN NoLink
                 ELSE IF hitL /\ ~c.laddr_conflict THEN l ELSE c.link
           o == c.originator_in_addrblk \/ x.addr = msg.orig
           cn2 == c.naddr_conflict \/ clashN
           cl2 == c.laddr_conflict \/ clashL
           ht == c.has_thisif \/ x.lif = "this"
           lost == c.link_lost \/ (own /\ x.ls = "lost")
           heard == c.link_heard \/ (own /\ x.ls # "lost")
           e == Pass1Session(d, c, x)
<1>1. /\ n \in d.neighs \cup {NoNeigh} /\ d.neighs \subseteq Neighs
      /\ l \in d.links \cup {NoLink} /\ d.links \subseteq Links
      /\ l # NoLink => d.localif[l] = msg.localif
  BY DEF Good, Databases, ReferencesAlive
<1>2. e = [neigh |-> nn, link |-> ll, naddr_conflict |-> cn2, laddr_conflict |-> cl2,
           link_heard |-> heard, link_lost |-> lost, has_thisif |-> ht,
           originator_in_addrblk |-> o, countN |-> cn, countL |-> cl, mayGo |-> c.mayGo]
  BY DEF Pass1Session
<1> HIDE DEF n, l, e
<1>3. cn \in [Neighs -> Int] /\ cl \in [Links -> Int]
  BY <1>1 DEF SessionFits, Sessions
<1>4. /\ nn \in d.neighs \cup {NoNeigh} /\ ll \in d.links \cup {NoLink}
      /\ ll # NoLink => d.localif[ll] = msg.localif
  BY <1>1 DEF SessionFits
<1>5. /\ o \in BOOLEAN /\ cn2 \in BOOLEAN /\ cl2 \in BOOLEAN /\ ht \in BOOLEAN
      /\ lost \in BOOLEAN /\ heard \in BOOLEAN
  OBVIOUS
<1> HIDE DEF cn, cl, nn, ll, o, cn2, cl2, ht, lost, heard
<1>6. e.neigh = nn /\ e.link = ll
  BY <1>2 DEF SessionFits, Sessions
<1>8. e \in Sessions
  <2>1. nn \in Neighs \cup {NoNeigh} /\ ll \in Links \cup {NoLink}
    BY <1>1, <1>4
  <2> HIDE DEF hitN, hitL, own, clashN, clashL
  <2>2. c.mayGo \in SUBSET Addrs
    BY DEF SessionFits, Sessions
  <2>3. QED BY <1>2, <1>3, <1>5, <2>1, <2>2 DEF Sessions
<1>7. QED BY <1>4, <1>6, <1>8 DEF SessionFits, e

(* Ending a message keeps the invariant when the new database is good.     *)
LEMMA EndMessageInv ==
    ASSUME IInv, NEW c, EndMessage(c), Good(db'), UNCHANGED undef,
           c.neigh \in Neighs \cup {NoNeigh}, c.link \in Links \cup {NoLink}
    PROVE  IInv'
<1>1. EmptySession \in Sessions
  BY DEF EmptySession, Sessions
<1>2. cur' \in Sessions
  BY <1>1 DEF EndMessage, Sessions
<1>3. QED BY <1>2 DEF EndMessage, IInv, TypeOK, Good

(* Dropping a message, also on the session of an earlier one.              *)
LEMMA DropMessageInv ==
    ASSUME IInv, DropMessage PROVE IInv'
<1>1. CASE CleanupDefined(db, cur)
  <2>1. db' = _cleanup_error(db, cur) /\ EndMessage(EmptySession) /\ UNCHANGED undef
    BY <1>1 DEF DropMessage
  <2>2. Good(db')
    BY <1>1, <2>1, CleanupGood DEF IInv
  <2>3. QED BY <2>1, <2>2, EndMessageInv DEF EmptySession
<1>2. CASE ~CleanupDefined(db, cur)
  BY <1>2 DEF DropMessage, UseOfFreedObject, IInv, TypeOK, Good, SessionFits, SessionAlive
<1>3. QED BY <1>1, <1>2

(* _handle_originator leaves objects and interfaces alone.                 *)
LEMMA HandleOriginatorGood ==
    ASSUME NEW d, Good(d), NEW c
    PROVE  LET e == _handle_originator(d, c)
           IN  Good(e) /\ e.neighs = d.neighs /\ e.links = d.links /\ e.localif = d.localif
<1> DEFINE n == OriginatorNeighbor(d, c)
           e1 == nhdp_db_neighbor_set_originator(d, n, NoAddr)
<1>1. n \in d.neighs \cup {NoNeigh}
  BY LookupsAlive DEF OriginatorNeighbor
<1> DEFINE keeps == \/ n = NoNeigh \/ n = c.neigh \/ TakesOriginatorNeighbor(d, c)
                    \/ c.countN[n] > 0
<1>2. _handle_originator(d, c) = IF keeps THEN d ELSE e1
  BY DEF _handle_originator
<1> HIDE DEF n
<1>3. n # NoNeigh => /\ Good(e1) /\ e1.neighs = d.neighs /\ e1.links = d.links
                     /\ e1.localif = d.localif
  BY <1>1, SetOriginatorGood
<1>4. CASE keeps
  BY <1>2, <1>4
<1>5. CASE ~keeps
  <2>1. n # NoNeigh
    BY <1>5
  <2> HIDE DEF e1
  <2>2. QED BY <1>2, <1>3, <1>5, <2>1
<1>6. QED BY <1>4, <1>5

(* The end of the first pass: failed allocations included, the session of  *)
(* the second pass is alive.                                               *)
LEMMA Pass1EndInv ==
    ASSUME IInv, _cb_addresstlvs_pass1_end PROVE IInv'
<1> DEFINE d1 == _handle_originator(db, cur)
<1>0. /\ pc = "pass1" /\ SessionFits(db, cur, msg.localif) /\ Good(db) /\ TypeOK
      /\ msg.localif \in Ifs /\ msg.src \in Addrs /\ cur \in Sessions
  BY MessageFacts DEF _cb_addresstlvs_pass1_end, IInv, SessionFits
<1>1. Good(d1) /\ d1.neighs = db.neighs /\ d1.links = db.links /\ d1.localif = db.localif
  BY <1>0, HandleOriginatorGood
<1> HIDE DEF d1
<1>2. PICK n \in Pass1Neighbors(db, cur), l \in Pass1Links(db, cur) :
             IF n = NoNeigh THEN OutOfMemory(d1, n)
             ELSE IF l = NoLink THEN OutOfMemory(WithNeighbor(d1, n), n)
             ELSE FinishPass1(WithLink(WithNeighbor(d1, n), n, l),
                    [cur EXCEPT !.neigh = n, !.link = l, !.mayGo = LinkAddrsOf(db, l)])
  BY DEF _cb_addresstlvs_pass1_end, d1
<1>3. db.neighs \subseteq Neighs /\ db.links \subseteq Links
  BY <1>0 DEF Good, Databases
<1>4. n \in Neighs \cup {NoNeigh}
  BY <1>0, <1>3, LookupsAlive
     DEF Pass1Neighbors, SessionFits, OriginatorNeighbor, TakesOriginatorNeighbor, FreeOr
<1>5. l \in Links \cup {NoLink} /\ (l \in db.links => db.localif[l] = msg.localif)
  BY <1>0, <1>3, NhdpDbAssumption DEF Pass1Links, SessionFits, FreeOr
<1>6. ASSUME NEW d, Good(d), NEW m \in Neighs \cup {NoNeigh}, OutOfMemory(d, m) PROVE IInv'
  <2> DEFINE c == [cur EXCEPT !.neigh = m, !.link = IF m = NoNeigh THEN @ ELSE NoLink]
  <2>1. c.neigh = m /\ c.link \in Links \cup {NoLink}
    BY <1>0 DEF Sessions
  <2>2. EndMessage(c) /\ db' = d /\ UNCHANGED undef
    BY <1>6 DEF OutOfMemory
  <2> HIDE DEF c
  <2>3. QED BY <1>6, <2>1, <2>2, EndMessageInv
<1>7. CASE n = NoNeigh
  BY <1>1, <1>2, <1>4, <1>6, <1>7
<1> DEFINE d2 == WithNeighbor(d1, n)
           d3 == WithLink(d2, n, l)
           c3 == [cur EXCEPT !.neigh = n, !.link = l, !.mayGo = LinkAddrsOf(db, l)]
<1>8. ASSUME n # NoNeigh
      PROVE  /\ Good(d2) /\ d2.neighs = db.neighs \cup {n} /\ d2.links = db.links
             /\ d2.localif = db.localif
  BY <1>1, <1>4, <1>8, WithNeighborGood
<1>9. CASE n # NoNeigh /\ l = NoLink
  BY <1>2, <1>4, <1>6, <1>8, <1>9
<1>10. CASE n # NoNeigh /\ l # NoLink
  <2> HIDE DEF d2
  <2>1. Good(d2) /\ n \in d2.neighs /\ d2.links = db.links /\ d2.localif = db.localif
    BY <1>8, <1>10
  <2>2. Good(d3) /\ n \in d3.neighs /\ l \in d3.links /\ d3.localif[l] = msg.localif
    BY <1>0, <1>5, <1>10, <2>1, WithLinkGood
  <2>3. c3 \in Sessions /\ c3.neigh = n /\ c3.link = l
    <3> DEFINE mg == LinkAddrsOf(db, l)
    <3>1. mg \in SUBSET Addrs
      BY DEF LinkAddrsOf
    <3>2. c3 = [cur EXCEPT !.neigh = n, !.link = l, !.mayGo = mg]
      OBVIOUS
    <3> HIDE DEF mg, c3
    <3>3. QED BY <1>0, <1>4, <1>5, <1>10, <3>1, <3>2 DEF Sessions
  <2>4. FinishPass1(d3, c3)
    BY <1>2, <1>10 DEF d2
  <2> HIDE DEF c3, d3
  <2> DEFINE r == IF c3.has_thisif THEN <<d3, c3>>
                  ELSE _pass2_process_localif(d3, c3, msg.src, "this")
  <2>5. LinkSession(d3, c3, msg.localif)
    BY <2>2, <2>3 DEF LinkSession
  <2>6. /\ Good(r[1]) /\ r[2] \in Sessions /\ r[2].neigh = n /\ r[2].link = l
        /\ r[1].localif[l] = msg.localif
    <3>1. CASE c3.has_thisif
      <4>1. r = <<d3, c3>>
        BY <3>1
      <4> HIDE DEF r
      <4>2. QED BY <2>2, <2>3, <4>1
    <3>2. CASE ~c3.has_thisif
      <4>1. r = _pass2_process_localif(d3, c3, msg.src, "this")
        BY <3>2
      <4> HIDE DEF r
      <4>2. QED BY <1>0, <2>2, <2>3, <2>5, <4>1, ProcessLocalifGood
    <3>3. QED BY <3>1, <3>2
  <2>7. IF ~SessionAlive(r[1], c3) THEN UseOfFreedObject
        ELSE \E h \in HystValues, l2 \in DualstackLinks(r[1]) :
             /\ db' = HandleDualstack([r[1] EXCEPT !.hyst[c3.link] = h], c3, l2)
             /\ cur' = r[2]
             /\ pc' = "pass2" /\ idx' = 1
             /\ UNCHANGED <<msg, undef>>
    BY <2>4 DEF FinishPass1
  <2> DEFINE f == r[1]
             g == r[2]
  <2> HIDE DEF r
  <2>8. CASE ~SessionAlive(f, c3)
    BY <2>7, <2>8 DEF UseOfFreedObject, IInv, TypeOK, Good, SessionFits, SessionAlive
  <2>9. CASE SessionAlive(f, c3)
    <3>1. PICK h \in HystValues, l2 \in DualstackLinks(f) :
             /\ db' = HandleDualstack([f EXCEPT !.hyst[c3.link] = h], c3, l2)
             /\ cur' = g
             /\ pc' = "pass2" /\ idx' = 1
             /\ UNCHANGED <<msg, undef>>
      BY <2>7, <2>9
    <3> HIDE DEF f, g
    <3>2. Good(f) /\ f.localif[l] = msg.localif /\ n \in f.neighs /\ l \in f.links
      BY <2>3, <2>6, <2>9 DEF f, SessionAlive
    <3>3. g \in Sessions /\ g.neigh = n /\ g.link = l
      BY <2>6 DEF g
    <3> DEFINE f1 == [f EXCEPT !.hyst[c3.link] = h]
    <3>4. h \in Hysteresis /\ c3.link \in f.links
      BY <2>3, <3>2, NhdpAssumption
    <3>5. Good(f1) /\ f1.neighs = f.neighs /\ f1.links = f.links /\ f1.localif = f.localif
      <4>1. Good(f1) /\ SameStructure(f, f1)
        BY <3>2, <3>4, HystGood
      <4>2. QED BY <4>1 DEF SameStructure
    <3> HIDE DEF f1
    <3>6. l2 \in f1.links \cup {NoLink}
      BY <3>2, <3>5, LookupsAlive
    <3>7. c3.neigh \in f1.neighs /\ c3.link \in f1.links
      BY <2>3, <3>2, <3>5
    <3>8. /\ Good(db') /\ db'.neighs = f.neighs /\ db'.links = f.links
          /\ db'.localif = f.localif
      <4>1. db' = HandleDualstack(f1, c3, l2)
        BY <3>1 DEF f1
      <4>2. QED BY <3>5, <3>6, <3>7, <4>1, HandleDualstackGood
    <3>9. QED
      BY <1>0, <3>1, <3>2, <3>3, <3>8
         DEF IInv, TypeOK, Good, SessionFits, SessionAlive
  <2>10. QED BY <2>8, <2>9
<1>11. QED BY <1>7, <1>9, <1>10

(* One address of the second pass.                                         *)
LEMMA Pass2BlockInv ==
    ASSUME IInv, _cb_addr_pass2_block PROVE IInv'
<1> DEFINE x == msg.addrs[idx]
           r == IF x.lif = "none" THEN <<db, cur>>
                ELSE _pass2_process_localif(db, cur, x.addr, x.lif)
           f == r[1]
           g == r[2]
<1>1. /\ pc = "pass2" /\ SessionFits(db, cur, msg.localif) /\ Good(db) /\ TypeOK
      /\ msg.localif \in Ifs /\ cur \in Sessions /\ SessionAlive(db, cur)
      /\ x.addr \in Addrs /\ idx \in Nat /\ idx # 0
  BY MessageFacts DEF _cb_addr_pass2_block, IInv, SessionFits, TypeOK
<1>2. IF ~SessionAlive(db, cur) \/ ~SessionAlive(f, g)
      THEN UseOfFreedObject
      ELSE /\ db' = ProcessTwohop(f, g, x)
           /\ cur' = g
           /\ idx' = idx + 1
           /\ UNCHANGED <<pc, msg, undef>>
  BY DEF _cb_addr_pass2_block
<1> HIDE DEF x
<1>3. /\ Good(f) /\ g \in Sessions /\ g.neigh = cur.neigh /\ g.link = cur.link
      /\ f.localif[cur.link] = msg.localif
  <2>1. db.localif[cur.link] = msg.localif
    BY <1>1, NhdpDbAssumption DEF SessionFits, SessionAlive, Good, Databases
  <2>2. CASE x.lif = "none"
    BY <1>1, <2>1, <2>2
  <2>3. CASE x.lif # "none"
    <3>1. r = _pass2_process_localif(db, cur, x.addr, x.lif)
      BY <2>3
    <3>2. LinkSession(db, cur, msg.localif) /\ cur.neigh \in db.neighs
      BY <1>1, <2>1 DEF LinkSession, SessionAlive
    <3> HIDE DEF r
    <3>3. QED BY <1>1, <3>1, <3>2, ProcessLocalifGood
  <2>4. QED BY <2>2, <2>3
<1> HIDE DEF f, g
<1>4. CASE ~SessionAlive(f, g)
  BY <1>2, <1>4 DEF UseOfFreedObject, IInv, TypeOK, Good, SessionFits, SessionAlive
<1>5. CASE SessionAlive(f, g)
  <2>1. /\ db' = ProcessTwohop(f, g, x) /\ cur' = g /\ idx' = idx + 1
        /\ UNCHANGED <<pc, msg, undef>>
    BY <1>1, <1>2, <1>5
  <2>2. Good(db') /\ SameStructure(f, db')
    BY <1>1, <1>3, <1>5, <2>1, ProcessTwohopGood DEF SessionAlive
  <2>3. QED
    BY <1>1, <1>3, <1>5, <2>1, <2>2
       DEF IInv, TypeOK, Good, SessionFits, SessionAlive, SameStructure
<1>6. QED BY <1>4, <1>5

(* A step between two messages that leaves a good database.                *)
LEMMA DbStepInv ==
    ASSUME IInv, Idle, NEW d, Good(d), DbStep(d) PROVE IInv'
BY DEF IInv, Idle, DbStep, TypeOK, Good

(* The callbacks that read a HELLO.                                        *)
LEMMA ReceiveInv ==
    ASSUME IInv, Receive PROVE IInv'
<1>1. ASSUME NEW m \in Hellos, HelloFailsConstraints(m) PROVE IInv'
  BY <1>1, DropMessageInv DEF HelloFailsConstraints
<1>2. ASSUME NEW m \in Hellos, HelloIgnored(m) PROVE IInv'
  BY <1>2, EndMessageInv DEF HelloIgnored, EmptySession, IInv, Good
<1>3. ASSUME NEW m \in Hellos, _cb_messagetlvs(m) PROVE IInv'
  <2>1. EmptySession \in Sessions /\ EmptySession.neigh = NoNeigh /\ EmptySession.link = NoLink
    BY DEF EmptySession, Sessions
  <2>2. m # NoMessage
    BY <1>3 DEF _cb_messagetlvs, NoMessage
  <2>3. QED
    BY <1>3, <2>1, <2>2 DEF _cb_messagetlvs, IInv, TypeOK, Good, SessionFits
<1>4. CASE _cb_addresstlvs_pass1
  <2>1. /\ SessionFits(db, cur, msg.localif) /\ Good(db) /\ msg.localif \in Ifs
        /\ msg.addrs[idx].addr \in Addrs
    BY <1>4, MessageFacts DEF _cb_addresstlvs_pass1, IInv
  <2>2. SessionFits(db, cur', msg.localif)
    BY <1>4, <2>1, Pass1SessionFits DEF _cb_addresstlvs_pass1
  <2>3. QED BY <1>4, <2>2 DEF _cb_addresstlvs_pass1, IInv, TypeOK, Good, SessionFits
<1>5. CASE AddressFailsConstraintsPass1
  BY <1>5, DropMessageInv DEF AddressFailsConstraintsPass1
<1>6. CASE AddressFailsConstraintsPass2
  BY <1>6, DropMessageInv DEF AddressFailsConstraintsPass2
<1>7. CASE _cb_msg_pass2_end
  <2>1. CASE ~SessionAlive(db, cur)
    BY <1>7, <2>1 DEF _cb_msg_pass2_end, IInv
  <2>2. CASE SessionAlive(db, cur)
    <3>1. db' = FinishLink(db, cur) /\ EndMessage(cur) /\ UNCHANGED undef
      BY <1>7, <2>2 DEF _cb_msg_pass2_end
    <3>2. msg.localif \in Ifs /\ msg.orig \in Addrs \cup {NoAddr} /\ Good(db)
      BY <1>7, MessageFacts DEF _cb_msg_pass2_end, IInv
    <3>3. Good(db')
      BY <2>2, <3>1, <3>2, FinishLinkGood DEF SessionAlive
    <3>4. cur.neigh \in Neighs \cup {NoNeigh} /\ cur.link \in Links \cup {NoLink}
      BY DEF IInv, TypeOK, Sessions
    <3>5. QED BY <3>1, <3>3, <3>4, EndMessageInv
  <2>3. QED BY <2>1, <2>2
<1>8. QED
  BY <1>1, <1>2, <1>3, <1>4, <1>5, <1>6, <1>7, Pass1EndInv, Pass2BlockInv DEF Receive, Reading

(* The timers, one action each.                                            *)
LEMMA TimeoutInv ==
    ASSUME IInv, Timeout PROVE IInv'
<1>0. Good(db) /\ db.symTime \cup db.heardTime \cup db.vtime \subseteq db.links
  BY DEF IInv, Good, ReferencesAlive
<1>1. ASSUME NEW l \in Links, _cb_link_symtime(l) PROVE IInv'
  <2> DEFINE d1 == [db EXCEPT !.symTime = @ \ {l}]
  <2>1. l \in db.links /\ Idle /\ DbStep(nhdp_db_link_update_status(d1, l))
    BY <1>0, <1>1 DEF _cb_link_symtime
  <2>2. Good(d1) /\ SameStructure(db, d1)
    BY <1>0, <2>1, TimerGood
  <2> HIDE DEF d1
  <2>3. Good(nhdp_db_link_update_status(d1, l))
    BY <2>1, <2>2, UpdateStatusGood DEF SameStructure
  <2>4. QED BY <2>1, <2>3, DbStepInv
<1>2. ASSUME NEW l \in Links, _cb_link_heard(l) PROVE IInv'
  <2> DEFINE d1 == [db EXCEPT !.heardTime = @ \ {l}]
  <2>1. l \in db.links /\ Idle /\ DbStep(nhdp_db_link_update_status(d1, l))
    BY <1>0, <1>2 DEF _cb_link_heard
  <2>2. Good(d1) /\ SameStructure(db, d1)
    BY <1>0, <2>1, TimerGood
  <2> HIDE DEF d1
  <2>3. Good(nhdp_db_link_update_status(d1, l))
    BY <2>1, <2>2, UpdateStatusGood DEF SameStructure
  <2>4. QED BY <2>1, <2>3, DbStepInv
<1>3. ASSUME NEW l \in Links, _cb_link_vtime(l) PROVE IInv'
  <2> DEFINE n  == db.neigh[l]
             d1 == IF db.status[l] = "SYMMETRIC"
                   THEN _link_status_not_symmetric_anymore(db, l) ELSE db
             d2 == nhdp_db_link_remove(d1, {l})
             d3 == IF LinksOf(d2, n) = {} THEN nhdp_db_neighbor_remove(d2, n) ELSE d2
  <2>1. l \in db.links /\ Idle /\ DbStep(d3)
    BY <1>0, <1>3 DEF _cb_link_vtime
  <2>2. n \in db.neighs
    BY <1>0, <2>1, DataTypes
  <2>3. Good(d1) /\ d1.neighs = db.neighs /\ d1.links = db.links
    BY <1>0, <2>1, NotSymmetricGood DEF SameStructure
  <2> HIDE DEF n, d1
  <2>4. {l} \subseteq d1.links
    BY <2>1, <2>3
  <2>5. Good(d2) /\ d2.neighs = db.neighs
    BY <2>3, <2>4, LinkRemoveGood
  <2> HIDE DEF d2
  <2>6. Good(d3)
    BY <2>2, <2>5, NeighborRemoveGood
  <2> HIDE DEF d3
  <2>7. QED BY <2>1, <2>6, DbStepInv
<1>4. ASSUME NEW a \in Addrs, _cb_naddr_vtime(a) PROVE IInv'
  BY <1>0, <1>4, NeighborAddrRemoveGood, DbStepInv DEF _cb_naddr_vtime
<1>5. ASSUME NEW h \in Links \X Addrs, _cb_l2hop_vtime(h) PROVE IInv'
  <2> DEFINE t == db.twohop \ {h}
  <2>1. t \in SUBSET (Links \X Addrs) /\ \A k \in t : k[1] \in db.links
    BY <1>0, DataTypes
  <2>2. Idle /\ DbStep([db EXCEPT !.twohop = t])
    BY <1>5 DEF _cb_l2hop_vtime
  <2> HIDE DEF t
  <2>3. Good([db EXCEPT !.twohop = t])
    BY <1>0, <2>1, TwohopGood
  <2>4. QED BY <2>2, <2>3, DbStepInv
<1>6. QED BY <1>1, <1>2, <1>3, <1>4, <1>5 DEF Timeout

(* IInv is inductive.                                                      *)
THEOREM Invariance == Spec => []IInv
<1>1. Init => IInv
  <2> SUFFICES ASSUME Init PROVE IInv
    OBVIOUS
  <2>1. EmptySession \in Sessions
    BY DEF EmptySession, Sessions
  <2>2. QED BY <2>1, EmptyDbGood DEF Init, IInv, TypeOK, Good
<1>2. IInv /\ [Next]_vars => IInv'
  <2> SUFFICES ASSUME IInv, [Next]_vars PROVE IInv'
    OBVIOUS
  <2>1. CASE HysteresisEvent
    <3>1. PICK l \in Links, h \in HystValues : HysteresisChange(l, h)
      BY <2>1 DEF HysteresisEvent
    <3> DEFINE d1 == [db EXCEPT !.hyst[l] = h]
    <3>2. /\ l \in db.links /\ Idle /\ DbStep(nhdp_db_link_update_status(d1, l))
          /\ h \in Hysteresis /\ Good(db)
      BY <3>1, NhdpAssumption DEF HysteresisChange, IInv
    <3>3. Good(d1) /\ SameStructure(db, d1)
      BY <3>2, HystGood
    <3> HIDE DEF d1
    <3>4. Good(nhdp_db_link_update_status(d1, l))
      BY <3>2, <3>3, UpdateStatusGood DEF SameStructure
    <3>5. QED BY <3>2, <3>4, DbStepInv
  <2>2. ASSUME NEW i \in Ifs, InterfaceLosesAddresses(i) PROVE IInv'
    <3> DEFINE S == {l \in db.links : db.localif[l] = i}
    <3>1. /\ S \subseteq db.links /\ Idle /\ Good(db)
          /\ DbStep(nhdp_db_link_set_unsymmetric(db, S))
      BY <2>2 DEF InterfaceLosesAddresses, IInv
    <3> HIDE DEF S
    <3>2. QED BY <3>1, SetUnsymmetricGood, DbStepInv
  <2>3. CASE Halted
    BY <2>3 DEF Halted, vars, IInv, TypeOK, Good, SessionFits, SessionAlive
  <2>4. CASE UNCHANGED vars
    BY <2>4 DEF vars, IInv, TypeOK, Good, SessionFits, SessionAlive
  <2>5. QED BY <2>1, <2>2, <2>3, <2>4, ReceiveInv, TimeoutInv DEF Next
<1>3. QED BY <1>1, <1>2, PTL DEF Spec

(* Every variable keeps its type and the parser position fits the message. *)
THEOREM TypeCorrect == Spec => []TypeOK
<1>1. IInv => TypeOK
  BY DEF IInv
<1>2. QED BY <1>1, Invariance, PTL

(***************************************************************************)
(* No stored pointer of the database dangles, for any number of neighbors, *)
(* links, interfaces and addresses, any HELLO, and whatever allocation,    *)
(* drop, timer or interface event comes in between.                        *)
(***************************************************************************)
THEOREM DatabaseSafe == Spec => []NoDanglingReference
<1>1. IInv => NoDanglingReference
  BY DEF IInv, Good, NoDanglingReference
<1>2. QED BY <1>1, Invariance, PTL

(***************************************************************************)
(* The originator indexes are exact and no two neighbors share an          *)
(* originator (nhdp_db_neighbor_set_originator).                           *)
(***************************************************************************)
THEOREM OriginatorsExact == Spec => []OriginatorIndexExact
<1>1. IInv => OriginatorIndexExact
  BY DEF IInv, Good, OriginatorIndexExact
<1>2. QED BY <1>1, Invariance, PTL

(***************************************************************************)
(* Dualstack partners of neighbors and of links are alive and mutual.      *)
(***************************************************************************)
THEOREM PartnersCorrect == Spec => []DualstackMutual
<1>1. IInv => DualstackMutual
  BY DEF IInv, Good, DualstackMutual
<1>2. QED BY <1>1, Invariance, PTL

-----------------------------------------------------------------------------
(***************************************************************************)
(* Timers and status.  A link waits for its end while a HELLO is read: a   *)
(* new link has no validity timer yet, and the status of the link of the   *)
(* session may be out of date.  Everything else the reader does is Quiet:  *)
(* it may remove links but leaves the timers and the status of the others  *)
(* alone, X excepted.                                                      *)
(***************************************************************************)
SameTimers(d, e) ==
    /\ e.links = d.links /\ e.vtime = d.vtime /\ e.symTime = d.symTime
    /\ e.heardTime = d.heardTime /\ e.status = d.status /\ e.hyst = d.hyst

SameInputs(d, e, l) ==
    /\ l \in d.links
    /\ l \in e.symTime <=> l \in d.symTime
    /\ l \in e.heardTime <=> l \in d.heardTime
    /\ e.status[l] = d.status[l] /\ e.hyst[l] = d.hyst[l]

Calm(d, e, X) == \A l \in e.links \ X : SameInputs(d, e, l) /\ (l \in d.vtime => l \in e.vtime)

(* Originators are kept, lost or become o. *)
Origins(d, e, o) == \A n \in Neighs : e.orig[n] = d.orig[n] \/ e.orig[n] = NoAddr \/ e.orig[n] = o

Quiet(d, e, X) == Calm(d, e, X) /\ Origins(d, e, NoAddr)

(* Quiet steps compose. *)
LEMMA QuietTwice ==
    ASSUME NEW d, NEW e, NEW f, NEW X, NEW Y, Quiet(d, e, X), Quiet(e, f, Y)
    PROVE  Quiet(d, f, X \cup Y)
<1>1. Calm(d, f, X \cup Y)
  BY DEF Quiet, Calm, SameInputs
<1>2. Origins(d, f, NoAddr)
  BY DEF Quiet, Origins
<1> QED
  BY <1>1, <1>2 DEF Quiet

(* What leaves timers, status and originators alone is quiet. *)
LEMMA SameTimersQuiet ==
    ASSUME NEW d, NEW e, SameTimers(d, e)
    PROVE  Calm(d, e, {}) /\ (e.orig = d.orig => Quiet(d, e, {}))
BY DEF SameTimers, Calm, SameInputs, Quiet, Origins

(* The functions on addresses, partners and two-hop neighbors are quiet. *)
LEMMA DataQuiet ==
    ASSUME NEW d, d \in Databases
    PROVE  /\ Quiet(d, d, {})
           /\ \A i, a, l : Quiet(d, SetLinkAddr(d, i, a, l), {})
           /\ \A a, n : Quiet(d, SetNeighborAddr(d, a, n), {})
           /\ \A a : Quiet(d, nhdp_db_neighbor_addr_remove(d, a), {})
           /\ \A a : Quiet(d, [d EXCEPT !.mayGo = @ \ {a}, !.lost = @ \ {a}], {})
           /\ \A n : Quiet(d, nhdp_db_neigbor_disconnect_dualstack(d, n), {})
           /\ \A n, m : Quiet(d, nhdp_db_neighbor_connect_dualstack(d, n, m), {})
           /\ \A l : Quiet(d, nhdp_db_link_disconnect_dualstack(d, l), {})
           /\ \A l, k : Quiet(d, nhdp_db_link_connect_dualstack(d, l, k), {})
           /\ \A n : Quiet(d, nhdp_db_neighbor_add(d, n), {})
           /\ \A n : Quiet(d, MarkNeighborAddrs(d, n), {})
           /\ \A th : Quiet(d, [d EXCEPT !.twohop = th], {})
<1>1. Quiet(d, d, {})
  BY SameTimersQuiet DEF SameTimers
<1>2. ASSUME NEW i, NEW a, NEW l PROVE Quiet(d, SetLinkAddr(d, i, a, l), {})
  <2> DEFINE e == SetLinkAddr(d, i, a, l)
  <2>1. SameTimers(d, e) /\ e.orig = d.orig
    BY DEF SetLinkAddr, SameTimers, Databases
  <2> QED
    BY <2>1, SameTimersQuiet
<1>3. ASSUME NEW a, NEW n PROVE Quiet(d, SetNeighborAddr(d, a, n), {})
  <2> DEFINE e == SetNeighborAddr(d, a, n)
  <2>1. SameTimers(d, e) /\ e.orig = d.orig
    BY DEF SetNeighborAddr, SameTimers, Databases
  <2> QED
    BY <2>1, SameTimersQuiet
<1>4. ASSUME NEW a PROVE Quiet(d, nhdp_db_neighbor_addr_remove(d, a), {})
  <2> DEFINE e == nhdp_db_neighbor_addr_remove(d, a)
  <2>1. SameTimers(d, e) /\ e.orig = d.orig
    BY DEF nhdp_db_neighbor_addr_remove, SameTimers, Databases
  <2> QED
    BY <2>1, SameTimersQuiet
<1>5. ASSUME NEW a PROVE Quiet(d, [d EXCEPT !.mayGo = @ \ {a}, !.lost = @ \ {a}], {})
  <2> DEFINE e == [d EXCEPT !.mayGo = @ \ {a}, !.lost = @ \ {a}]
  <2>1. SameTimers(d, e) /\ e.orig = d.orig
    BY DEF SameTimers, Databases
  <2> QED
    BY <2>1, SameTimersQuiet
<1>6. ASSUME NEW p PROVE Quiet(d, [d EXCEPT !.npartner = p], {})
  <2> DEFINE e == [d EXCEPT !.npartner = p]
  <2>1. SameTimers(d, e) /\ e.orig = d.orig
    BY DEF SameTimers, Databases
  <2> QED
    BY <2>1, SameTimersQuiet
<1>7. ASSUME NEW p PROVE Quiet(d, [d EXCEPT !.lpartner = p], {})
  <2> DEFINE e == [d EXCEPT !.lpartner = p]
  <2>1. SameTimers(d, e) /\ e.orig = d.orig
    BY DEF SameTimers, Databases
  <2> QED
    BY <2>1, SameTimersQuiet
<1>8. ASSUME NEW n PROVE Quiet(d, nhdp_db_neighbor_add(d, n), {})
  <2> DEFINE e == nhdp_db_neighbor_add(d, n)
  <2>1. SameTimers(d, e) /\ e.orig = d.orig
    BY DEF nhdp_db_neighbor_add, SameTimers, Databases
  <2> QED
    BY <2>1, SameTimersQuiet
<1>9. ASSUME NEW n PROVE Quiet(d, MarkNeighborAddrs(d, n), {})
  <2> DEFINE e == MarkNeighborAddrs(d, n)
  <2>1. SameTimers(d, e) /\ e.orig = d.orig
    BY DEF MarkNeighborAddrs, SameTimers, Databases
  <2> QED
    BY <2>1, SameTimersQuiet
<1>10. ASSUME NEW th PROVE Quiet(d, [d EXCEPT !.twohop = th], {})
  <2> DEFINE e == [d EXCEPT !.twohop = th]
  <2>1. SameTimers(d, e) /\ e.orig = d.orig
    BY DEF SameTimers, Databases
  <2> QED
    BY <2>1, SameTimersQuiet
<1>11. \A n : Quiet(d, nhdp_db_neigbor_disconnect_dualstack(d, n), {})
  BY <1>6 DEF nhdp_db_neigbor_disconnect_dualstack
<1>12. \A n, m : Quiet(d, nhdp_db_neighbor_connect_dualstack(d, n, m), {})
  BY <1>6 DEF nhdp_db_neighbor_connect_dualstack
<1>13. \A l : Quiet(d, nhdp_db_link_disconnect_dualstack(d, l), {})
  BY <1>7 DEF nhdp_db_link_disconnect_dualstack
<1>14. \A l, k : Quiet(d, nhdp_db_link_connect_dualstack(d, l, k), {})
  BY <1>7 DEF nhdp_db_link_connect_dualstack
<1> QED
  BY <1>1, <1>2, <1>3, <1>4, <1>5, <1>8, <1>9, <1>10, <1>11, <1>12, <1>13, <1>14

(* A link is removed with its timers; the others stay as they are. *)
LEMMA LinkRemoveQuiet ==
    ASSUME NEW d, Good(d), NEW S, S \subseteq d.links
    PROVE  Quiet(d, nhdp_db_link_remove(d, S), {}) /\ nhdp_db_link_remove(d, S).links = d.links \ S
<1> DEFINE e == nhdp_db_link_remove(d, S)
<1>1. /\ e.links = d.links \ S /\ e.vtime = d.vtime \ S /\ e.symTime = d.symTime \ S
      /\ e.heardTime = d.heardTime \ S /\ e.orig = d.orig
      /\ e.status = [l \in Links |-> IF l \in S THEN "LOST" ELSE d.status[l]]
      /\ e.hyst = [l \in Links |-> IF l \in S THEN "ok" ELSE d.hyst[l]]
  BY DEF nhdp_db_link_remove, Good, Databases
<1>2. d.links \subseteq Links
  BY DEF Good, Databases
<1> HIDE DEF e
<1>3. Calm(d, e, {})
  BY <1>1, <1>2 DEF Calm, SameInputs
<1>4. Origins(d, e, NoAddr)
  BY <1>1 DEF Origins
<1> QED
  BY <1>1, <1>3, <1>4 DEF Quiet, e

(* A neighbor takes its links along. *)
LEMMA NeighborRemoveQuiet ==
    ASSUME NEW d, Good(d), NEW n \in d.neighs
    PROVE  Quiet(d, nhdp_db_neighbor_remove(d, n), {})
<1> DEFINE d1 == nhdp_db_neigbor_disconnect_dualstack(d, n)
           d2 == nhdp_db_link_remove(d1, LinksOf(d1, n))
           e  == nhdp_db_neighbor_remove(d, n)
<1>1. Good(d1) /\ Quiet(d, d1, {})
  BY NeighborDisconnectGood, DataQuiet DEF Good
<1>2. e = [d2 EXCEPT
            !.naddr = [a \in Addrs |-> IF @[a] = n THEN NoNeigh ELSE @[a]],
            !.lost = @ \ NaddrsOf(d, n),
            !.mayGo = @ \ NaddrsOf(d, n),
            !.origTree = IF d.orig[n] # NoAddr THEN @ \ {n} ELSE @,
            !.orig[n] = NoAddr,
            !.symmetric[n] = 0,
            !.neighs = @ \ {n}]
  BY DEF nhdp_db_neighbor_remove
<1> HIDE DEF d1
<1>3. LinksOf(d1, n) \subseteq d1.links
  BY DEF LinksOf
<1>4. Good(d2) /\ Quiet(d1, d2, {})
  BY <1>1, <1>3, LinkRemoveGood, LinkRemoveQuiet
<1> HIDE DEF d2, e
<1>5. SameTimers(d2, e) /\ e.orig = [d2.orig EXCEPT ![n] = NoAddr]
  BY <1>2, <1>4 DEF SameTimers, Good, Databases
<1>6. Quiet(d2, e, {})
  BY <1>4, <1>5, SameTimersQuiet DEF Quiet, Origins, Good, Databases
<1>7. Quiet(d, d2, {})
  BY <1>1, <1>4, QuietTwice, {} \cup {} = {}
<1>8. Quiet(d, e, {})
  BY <1>6, <1>7, QuietTwice, {} \cup {} = {}
<1> QED
  BY <1>8 DEF e

(* A new link is the only one without a history. *)
LEMMA LinkAddQuiet ==
    ASSUME NEW d, d \in Databases, NEW l, NEW n, NEW i
    PROVE  Quiet(d, nhdp_db_link_add(d, l, n, i), {l})
<1> DEFINE e == nhdp_db_link_add(d, l, n, i)
<1>1. /\ e.links = d.links \cup {l} /\ e.vtime = d.vtime /\ e.symTime = d.symTime
      /\ e.heardTime = d.heardTime /\ e.status = d.status /\ e.hyst = d.hyst /\ e.orig = d.orig
  BY DEF nhdp_db_link_add, Databases
<1> QED
  BY <1>1 DEF Quiet, Calm, SameInputs, Origins

(* The verdict of the hysteresis is about one link. *)
LEMMA HystQuiet ==
    ASSUME NEW d, d \in Databases, NEW l \in d.links, NEW h
    PROVE  Quiet(d, [d EXCEPT !.hyst[l] = h], {l})
<1> DEFINE e == [d EXCEPT !.hyst[l] = h]
<1>1. /\ e.links = d.links /\ e.vtime = d.vtime /\ e.symTime = d.symTime
      /\ e.heardTime = d.heardTime /\ e.status = d.status /\ e.orig = d.orig
      /\ e.hyst = [d.hyst EXCEPT ![l] = h]
  BY DEF Databases
<1>2. d.links \subseteq Links /\ d.hyst \in [Links -> Hysteresis]
  BY DEF Databases
<1> QED
  BY <1>1, <1>2 DEF Quiet, Calm, SameInputs, Origins

(* Indexes are no timers. *)
LEMMA UnindexQuiet ==
    ASSUME NEW d, d \in Databases, NEW n
    PROVE  /\ Unindex(d, n) \in Databases
           /\ SameTimers(d, Unindex(d, n)) /\ Unindex(d, n).orig = d.orig
BY DEF Unindex, Databases, SameTimers

(* An originator that is set, or taken from another neighbor. *)
LEMMA SetOriginatorQuiet ==
    ASSUME NEW d, d \in Databases, NEW n \in Neighs, NEW o \in Addrs \cup {NoAddr}
    PROVE  LET e == nhdp_db_neighbor_set_originator(d, n, o)
           IN  Calm(d, e, {}) /\ Origins(d, e, o) /\ SameTimers(d, e)
<1> DEFINE e == nhdp_db_neighbor_set_originator(d, n, o)
<1>1. CASE d.orig[n] = o
  <2>1. e = d
    BY <1>1 DEF nhdp_db_neighbor_set_originator
  <2> HIDE DEF e
  <2>2. SameTimers(d, e) /\ Origins(d, e, o)
    BY <2>1 DEF SameTimers, Origins
  <2> QED
    BY <2>2, SameTimersQuiet DEF e
<1>2. CASE d.orig[n] # o
  <2> DEFINE d1 == IF d.orig[n] # NoAddr THEN Unindex(d, n) ELSE d
             n2 == NeighborByOriginator(d1, o)
             u2 == Unindex(d1, n2)
             d2 == IF n2 # NoNeigh THEN [u2 EXCEPT !.orig[n2] = NoAddr] ELSE d1
             d3 == [d2 EXCEPT !.orig[n] = o]
             d4 == IF o = NoAddr THEN d3
                   ELSE [d3 EXCEPT !.origTree = @ \cup {n},
                                   !.linkOrigs = @ \cup LinksOf(d3, n)]
  <2>1. e = d4
    BY <1>2 DEF nhdp_db_neighbor_set_originator
  <2>2. d1 \in Databases /\ SameTimers(d, d1) /\ d1.orig = d.orig
    BY UnindexQuiet DEF SameTimers
  <2> HIDE DEF d1
  <2>3. n2 \in Neighs \cup {NoNeigh}
    BY <2>2 DEF NeighborByOriginator, Databases
  <2> HIDE DEF n2
  <2>4. u2 \in Databases /\ SameTimers(d1, u2) /\ u2.orig = d1.orig
    BY <2>2, UnindexQuiet
  <2> HIDE DEF u2
  <2>5. /\ d2 \in Databases /\ SameTimers(d, d2)
        /\ \A m \in Neighs : d2.orig[m] = d.orig[m] \/ d2.orig[m] = NoAddr
    <3>1. CASE n2 = NoNeigh
      BY <3>1, <2>2
    <3>2. CASE n2 # NoNeigh
      <4>1. d2 = [u2 EXCEPT !.orig[n2] = NoAddr] /\ n2 \in Neighs
        BY <3>2, <2>3
      <4> HIDE DEF d2
      <4>2. SameTimers(u2, d2) /\ d2.orig = [u2.orig EXCEPT ![n2] = NoAddr]
        BY <4>1, <2>4 DEF SameTimers, Databases
      <4>3. d2 \in Databases
        BY <4>1, <2>4 DEF Databases
      <4> QED
        BY <4>1, <4>2, <4>3, <2>2, <2>4 DEF SameTimers, Databases
    <3> QED
      BY <3>1, <3>2
  <2> HIDE DEF d2
  <2>6. /\ d3 \in Databases /\ SameTimers(d, d3)
        /\ \A m \in Neighs : d3.orig[m] = d.orig[m] \/ d3.orig[m] = NoAddr \/ d3.orig[m] = o
    <3>1. SameTimers(d2, d3) /\ d3.orig = [d2.orig EXCEPT ![n] = o]
      BY <2>5 DEF SameTimers, Databases
    <3>2. d3 \in Databases
      BY <2>5 DEF Databases
    <3> QED
      BY <3>1, <3>2, <2>5 DEF SameTimers, Databases
  <2> HIDE DEF d3
  <2>7. SameTimers(d3, d4) /\ d4.orig = d3.orig
    BY <2>6 DEF SameTimers, Databases
  <2> HIDE DEF d4, e
  <2>8. SameTimers(d, e) /\ Origins(d, e, o)
    BY <2>1, <2>6, <2>7 DEF SameTimers, Origins
  <2> QED
    BY <2>8, SameTimersQuiet DEF e
<1> QED
  BY <1>1, <1>2

(* A status update is about one link, and leaves it up to date. *)
LEMMA UpdateStatusQuiet ==
    ASSUME NEW d, Good(d), NEW l \in d.links
    PROVE  LET e == nhdp_db_link_update_status(d, l)
           IN  /\ Quiet(d, e, {l}) /\ e.links = d.links /\ e.vtime = d.vtime
               /\ e.status[l] = CalculateStatus(e, l)
<1> DEFINE now == CalculateStatus(d, l)
           d1 == [d EXCEPT !.status[l] = now]
           e == nhdp_db_link_update_status(d, l)
<1>1. e = IF d.status[l] = "SYMMETRIC" /\ now # "SYMMETRIC"
          THEN _link_status_not_symmetric_anymore(d1, l)
          ELSE IF ~(d.status[l] = "SYMMETRIC") /\ now = "SYMMETRIC"
          THEN _link_status_now_symmetric(d1, l)
          ELSE d1
  BY DEF nhdp_db_link_update_status
<1>2. l \in Links /\ d.links \subseteq Links /\ d.status \in [Links -> LinkStatus]
  BY DEF Good, Databases
<1>3. now \in LinkStatus
  BY DEF CalculateStatus, LinkStatus
<1> HIDE DEF now
<1>4. d1 \in Databases
  BY <1>2, <1>3 DEF Good, Databases
<1>5. /\ d1.links = d.links /\ d1.vtime = d.vtime /\ d1.symTime = d.symTime /\ d1.neigh = d.neigh
      /\ d1.heardTime = d.heardTime /\ d1.hyst = d.hyst /\ d1.orig = d.orig
      /\ d1.status = [d.status EXCEPT ![l] = now]
  BY DEF Good, Databases
<1> HIDE DEF d1
<1>6. /\ e.links = d1.links /\ e.vtime = d1.vtime /\ e.symTime = d1.symTime /\ e.neigh = d1.neigh
      /\ e.heardTime = d1.heardTime /\ e.hyst = d1.hyst /\ e.orig = d1.orig
      /\ e.status = d1.status
  <2>1. CASE e = _link_status_not_symmetric_anymore(d1, l)
    BY <2>1, <1>4 DEF _link_status_not_symmetric_anymore, Databases
  <2>2. CASE e = _link_status_now_symmetric(d1, l)
    BY <2>2, <1>4 DEF _link_status_now_symmetric, Databases
  <2>3. CASE e = d1
    BY <2>3
  <2> QED
    BY <1>1, <2>1, <2>2, <2>3
<1> HIDE DEF e
<1>7. Quiet(d, e, {l})
  BY <1>2, <1>5, <1>6 DEF Quiet, Calm, SameInputs, Origins
<1>8. e.status[l] = now
  BY <1>2, <1>5, <1>6
<1>9. now = CalculateStatus(e, l)
  BY <1>5, <1>6 DEF now, CalculateStatus
<1> QED
  BY <1>5, <1>6, <1>7, <1>8, <1>9 DEF e

(* A symmetric link that goes takes its two-hop neighbors along. *)
LEMMA NotSymmetricQuiet ==
    ASSUME NEW d, d \in Databases, NEW l
    PROVE  Quiet(d, _link_status_not_symmetric_anymore(d, l), {})
<1> DEFINE e == _link_status_not_symmetric_anymore(d, l)
<1>1. SameTimers(d, e) /\ e.orig = d.orig
  BY DEF _link_status_not_symmetric_anymore, SameTimers, Databases
<1> QED
  BY <1>1, SameTimersQuiet

(* An address that is moved to the link of the session may remove another  *)
(* link. *)
LEMMA ProcessLinkAddrQuiet ==
    ASSUME NEW d, Good(d), NEW c, msg.localif \in Ifs, LinkSession(d, c, msg.localif),
           NEW a \in Addrs
    PROVE  Quiet(d, ProcessLinkAddr(d, c, a)[1], {})
<1> DEFINE i == msg.localif
           l == d.laddr[i][a]
           c1 == [c EXCEPT !.countL[l] = @ - 1, !.mayGo = @ \ {a}]
           d1 == SetLinkAddr(d, i, a, c.link)
           d2 == nhdp_db_link_remove(d1, {l})
           e == ProcessLinkAddr(d, c, a)[1]
<1>1. l # NoLink => l \in d.links
  BY DEF Good, Databases, ReferencesAlive
<1>2. Good(d1) /\ d1.links = d.links
  BY SetLinkAddrGood DEF LinkSession
<1>3. Quiet(d, d, {}) /\ Quiet(d, d1, {})
  BY DataQuiet DEF Good
<1>4. ProcessLinkAddr(d, c, a) = IF l = NoLink THEN <<d1, c>>
          ELSE IF l = c.link THEN <<d, c1>>
          ELSE IF c1.countL[l] = 0 THEN <<d2, c1>> ELSE <<d1, c1>>
  BY DEF ProcessLinkAddr
<1>5. e = d1 \/ e = d \/ (l # NoLink /\ e = d2)
  BY <1>4
<1> HIDE DEF l, c1, d1, e
<1>6. l # NoLink => Quiet(d1, d2, {})
  BY <1>1, <1>2, LinkRemoveQuiet
<1> HIDE DEF d2
<1>7. l # NoLink => Quiet(d, d2, {})
  BY <1>3, <1>6, QuietTwice, {} \cup {} = {}
<1> QED
  BY <1>3, <1>5, <1>7 DEF e

(* An address that is moved to the neighbor of the session may remove      *)
(* another neighbor. *)
LEMMA ProcessNeighborAddrQuiet ==
    ASSUME NEW d, Good(d), NEW c \in Sessions, c.neigh \in d.neighs, NEW a \in Addrs
    PROVE  Quiet(d, ProcessNeighborAddr(d, c, a)[1], {})
<1> DEFINE n == d.naddr[a]
           c1 == [c EXCEPT !.countN[n] = @ - 1]
           d1 == SetNeighborAddr(d, a, c.neigh)
           d2 == IF n # c.neigh /\ c1.countN[n] = 0
                 THEN nhdp_db_neighbor_remove(d1, n) ELSE d1
           d3 == [d2 EXCEPT !.mayGo = @ \ {a}, !.lost = @ \ {a}]
           e == ProcessNeighborAddr(d, c, a)[1]
<1>1. n \in d.neighs \cup {NoNeigh}
  BY DEF Good, Databases, ReferencesAlive
<1>2. Good(d1) /\ d1.neighs = d.neighs
  BY NeighborAddrGood
<1>3. Quiet(d, d1, {}) /\ Quiet(d1, d1, {})
  BY <1>2, DataQuiet DEF Good
<1>4. ProcessNeighborAddr(d, c, a) = IF n = NoNeigh THEN <<d1, c>> ELSE <<d3, c1>>
  BY DEF ProcessNeighborAddr
<1>5. e = d1 \/ (n # NoNeigh /\ e = d3)
  BY <1>4
<1> HIDE DEF n, c1, d1, e
<1>6. n # NoNeigh => Quiet(d1, d2, {}) /\ Good(d2)
  BY <1>1, <1>2, <1>3, NeighborRemoveQuiet, NeighborRemoveGood
<1> HIDE DEF d2
<1>7. n # NoNeigh => Quiet(d2, d3, {})
  BY <1>6, DataQuiet DEF Good
<1> HIDE DEF d3
<1>8. n # NoNeigh => Quiet(d, d2, {})
  BY <1>3, <1>6, QuietTwice, {} \cup {} = {}
<1>9. n # NoNeigh => Quiet(d, d3, {})
  BY <1>7, <1>8, QuietTwice, {} \cup {} = {}
<1> QED
  BY <1>3, <1>5, <1>9 DEF e

(* Both together. *)
LEMMA ProcessLocalifQuiet ==
    ASSUME NEW d, Good(d), NEW c, msg.localif \in Ifs, LinkSession(d, c, msg.localif),
           c.neigh \in d.neighs, NEW a \in Addrs, NEW lif
    PROVE  Quiet(d, _pass2_process_localif(d, c, a, lif)[1], {})
<1> DEFINE q == IF lif = "this" THEN ProcessLinkAddr(d, c, a) ELSE <<d, c>>
<1>1. /\ Good(q[1]) /\ q[1].neighs = d.neighs /\ q[2].neigh = c.neigh
      /\ q[2] \in Sessions /\ Quiet(d, q[1], {})
  <2>1. CASE lif = "this"
    <3>1. q = ProcessLinkAddr(d, c, a)
      BY <2>1
    <3> HIDE DEF q
    <3> QED
      BY <3>1, ProcessLinkAddrGood, ProcessLinkAddrQuiet DEF LinkSession
  <2>2. CASE lif # "this"
    BY <2>2, DataQuiet DEF Good, LinkSession
  <2> QED
    BY <2>1, <2>2
<1>2. _pass2_process_localif(d, c, a, lif) = ProcessNeighborAddr(q[1], q[2], a)
  BY DEF _pass2_process_localif
<1> DEFINE f == q[1]
           g == q[2]
           e == ProcessNeighborAddr(f, g, a)[1]
<1> HIDE DEF q, f, g
<1>3. Quiet(f, e, {})
  BY <1>1, ProcessNeighborAddrQuiet DEF f, g
<1> HIDE DEF e
<1>4. Quiet(d, e, {})
  BY <1>1, <1>3, QuietTwice, {} \cup {} = {} DEF f
<1> QED
  BY <1>2, <1>4 DEF e, f, g

(* The dualstack partners of neighbor and link. *)
LEMMA HandleDualstackQuiet ==
    ASSUME NEW d, Good(d), NEW c, c.neigh \in d.neighs, c.link \in d.links,
           NEW l2 \in d.links \cup {NoLink}
    PROVE  Quiet(d, HandleDualstack(d, c, l2), {})
<1> DEFINE n2 == NeighborByOriginator(d, msg.v4)
           d1 == IF n2 = NoNeigh THEN d ELSE nhdp_db_neighbor_connect_dualstack(d, c.neigh, n2)
           e1 == IF l2 = NoLink THEN d1 ELSE nhdp_db_link_connect_dualstack(d1, c.link, l2)
           d2 == nhdp_db_neigbor_disconnect_dualstack(d, c.neigh)
           e2 == nhdp_db_link_disconnect_dualstack(d2, c.link)
           e  == HandleDualstack(d, c, l2)
<1>1. e = d \/ e = e1 \/ e = e2
  BY DEF HandleDualstack
<1>2. n2 \in d.neighs \cup {NoNeigh}
  BY LookupsAlive
<1> HIDE DEF n2, e
<1>3. Good(d1) /\ Quiet(d, d1, {})
  BY <1>2, NeighborConnectGood, DataQuiet DEF Good
<1> HIDE DEF d1
<1>4. Quiet(d1, e1, {})
  BY <1>3, DataQuiet DEF Good
<1>5. Good(d2) /\ Quiet(d, d2, {})
  BY NeighborDisconnectGood, DataQuiet DEF Good
<1> HIDE DEF d2
<1>6. Quiet(d2, e2, {})
  BY <1>5, DataQuiet DEF Good
<1> HIDE DEF e1, e2
<1>7. Quiet(d, e1, {})
  BY <1>3, <1>4, QuietTwice, {} \cup {} = {}
<1>8. Quiet(d, e2, {})
  BY <1>5, <1>6, QuietTwice, {} \cup {} = {}
<1>9. Quiet(d, d, {})
  BY DataQuiet DEF Good
<1> QED
  BY <1>1, <1>7, <1>8, <1>9 DEF e

(* The cleanup of a dropped HELLO frees the link of the session. *)
LEMMA CleanupQuiet ==
    ASSUME NEW d, Good(d), NEW c, CleanupDefined(d, c)
    PROVE  /\ Quiet(d, _cleanup_error(d, c), {})
           /\ c.link \notin _cleanup_error(d, c).links
<1> DEFINE d1 == IF c.link = NoLink THEN d ELSE nhdp_db_link_remove(d, {c.link})
           e == IF c.neigh = NoNeigh THEN d1 ELSE nhdp_db_neighbor_remove(d1, c.neigh)
<1>0. NoLink \notin d.links
  BY NhdpDbAssumption DEF Good, Databases
<1>1. Good(d1) /\ Quiet(d, d1, {}) /\ c.link \notin d1.links /\ d1.neighs = d.neighs
  <2>1. CASE c.link = NoLink
    BY <1>0, <2>1, DataQuiet DEF Good
  <2>2. CASE c.link # NoLink
    <3>1. {c.link} \subseteq d.links
      BY <2>2 DEF CleanupDefined
    <3>2. d1 = nhdp_db_link_remove(d, {c.link})
      BY <2>2
    <3> HIDE DEF d1
    <3> QED
      BY <3>1, <3>2, LinkRemoveGood, LinkRemoveQuiet
  <2> QED
    BY <2>1, <2>2
<1> HIDE DEF d1
<1>2. Quiet(d1, e, {})
  BY <1>1, NeighborRemoveQuiet, DataQuiet DEF CleanupDefined, Good
<1>3. e = _cleanup_error(d, c)
  BY DEF _cleanup_error, d1
<1> HIDE DEF e
<1>4. Quiet(d, e, {})
  BY <1>1, <1>2, QuietTwice, {} \cup {} = {}
<1>5. c.link \notin e.links
  BY <1>1, <1>2 DEF Quiet, Calm, SameInputs
<1> QED
  BY <1>3, <1>4, <1>5

-----------------------------------------------------------------------------
(* The links that wait for the end of the HELLO *)
Rest == IF pc = "pass2" THEN {cur.link} ELSE {}

TimedBut(d, R) == \A l \in d.links \ R : l \in d.vtime

FreshBut(d, R) == \A l \in d.links \ R : d.status[l] = CalculateStatus(d, l)

(* No neighbor has our own originator. *)
Foreign(d) == LocalOriginator = NoAddr \/ \A n \in Neighs : d.orig[n] # LocalOriginator

(***************************************************************************)
(* One step: links that do not wait afterwards are timed and up to date,   *)
(* or have been before and did not change.                                 *)
(***************************************************************************)
Step(d, R, e, S, o) ==
    /\ Origins(d, e, o)
    /\ \A l \in e.links \ S :
         /\ l \in e.vtime \/ (l \in d.links \ R /\ (l \in d.vtime => l \in e.vtime))
         /\ e.status[l] = CalculateStatus(e, l) \/ (l \notin R /\ SameInputs(d, e, l))

(* What a step keeps. *)
LEMMA StepKeeps ==
    ASSUME NEW d, Good(d), NEW e, Good(e), NEW R, NEW S, NEW o, Step(d, R, e, S, o)
    PROVE  /\ TimedBut(d, R) => TimedBut(e, S)
           /\ FreshBut(d, R) /\ Foreign(d) /\ (LocalOriginator = NoAddr \/ o # LocalOriginator)
                => FreshBut(e, S) /\ Foreign(e)
<1>1. TimedBut(d, R) => TimedBut(e, S)
  BY DEF Step, TimedBut
<1>2. ASSUME FreshBut(d, R), Foreign(d), LocalOriginator = NoAddr \/ o # LocalOriginator
      PROVE  FreshBut(e, S) /\ Foreign(e)
  <2>1. Foreign(e)
    BY <1>2 DEF Foreign, Step, Origins
  <2>2. \A l \in d.links : d.neigh[l] \in Neighs
    BY DEF Good, ReferencesAlive, Databases
  <2>3. \A l \in e.links : e.neigh[l] \in Neighs
    BY DEF Good, ReferencesAlive, Databases
  <2>4. ASSUME NEW l \in e.links, SameInputs(d, e, l) PROVE CalculateStatus(e, l) = CalculateStatus(d, l)
    <3>1. l \in d.links
      BY <2>4 DEF SameInputs
    <3>2. ~(LocalOriginator # NoAddr /\ d.orig[d.neigh[l]] = LocalOriginator)
      BY <1>2, <2>2, <3>1 DEF Foreign
    <3>3. ~(LocalOriginator # NoAddr /\ e.orig[e.neigh[l]] = LocalOriginator)
      BY <2>1, <2>3 DEF Foreign
    <3> QED
      BY <2>4, <3>2, <3>3 DEF CalculateStatus, SameInputs
  <2>5. FreshBut(e, S)
    BY <1>2, <2>4 DEF FreshBut, Step, SameInputs
  <2> QED
    BY <2>1, <2>5
<1> QED
  BY <1>1, <1>2

(* Quiet changes are steps. *)
LEMMA QuietStep ==
    ASSUME NEW d, NEW e, NEW X, Quiet(d, e, X), NEW R, NEW S,
           \A l \in e.links : l \in X \cup R => l \in S, NEW o
    PROVE  Step(d, R, e, S, o)
BY DEF Step, Quiet, Calm, SameInputs, Origins

(* What _handle_originator, the allocations and the two-hop part do is     *)
(* quiet, but for the link that is new.                                    *)
LEMMA ReaderQuiet ==
    ASSUME NEW d, Good(d)
    PROVE  /\ \A c : Quiet(d, _handle_originator(d, c), {})
           /\ \A n : Quiet(d, WithNeighbor(d, n), {})
           /\ \A n, l : Quiet(d, WithLink(d, n, l), {l})
           /\ \A c, x : Quiet(d, ProcessTwohop(d, c, x), {})
<1>1. ASSUME NEW c PROVE Quiet(d, _handle_originator(d, c), {})
  <2> DEFINE n == OriginatorNeighbor(d, c)
             e1 == nhdp_db_neighbor_set_originator(d, n, NoAddr)
             e == _handle_originator(d, c)
  <2>1. n \in d.neighs \cup {NoNeigh} /\ d.neighs \subseteq Neighs
    BY LookupsAlive DEF OriginatorNeighbor, Good, Databases
  <2>2. e = d \/ (n # NoNeigh /\ e = e1)
    BY DEF _handle_originator
  <2> HIDE DEF n, e
  <2>3. n # NoNeigh => Quiet(d, e1, {})
    BY <2>1, SetOriginatorQuiet DEF Quiet, Good
  <2> HIDE DEF e1
  <2> QED
    BY <2>2, <2>3, DataQuiet DEF Good, e
<1>2. ASSUME NEW n PROVE Quiet(d, WithNeighbor(d, n), {})
  BY DataQuiet DEF WithNeighbor, Good
<1>3. ASSUME NEW n, NEW l PROVE Quiet(d, WithLink(d, n, l), {l})
  <2>1. CASE l \in d.links
    BY <2>1, DataQuiet DEF WithLink, Good, Quiet, Calm
  <2>2. CASE l \notin d.links
    BY <2>2, LinkAddQuiet DEF WithLink, Good
  <2> QED
    BY <2>1, <2>2
<1>4. ASSUME NEW c, NEW x PROVE Quiet(d, ProcessTwohop(d, c, x), {})
  <2> DEFINE t == d.twohop \cup {<<c.link, x.addr>>}
             u == d.twohop \ {<<c.link, x.addr>>}
  <2>1. ProcessTwohop(d, c, x) \in {d, [d EXCEPT !.twohop = t], [d EXCEPT !.twohop = u]}
    BY DEF ProcessTwohop
  <2> HIDE DEF t, u
  <2> QED
    BY <2>1, DataQuiet DEF Good
<1> QED
  BY <1>1, <1>2, <1>3, <1>4

(***************************************************************************)
(* The end of a HELLO: the link of the session is timed and up to date,    *)
(* whatever it was before.                                                 *)
(***************************************************************************)
LEMMA FinishLinkStep ==
    ASSUME NEW d, Good(d), NEW c, c.link \in d.links, c.neigh \in d.neighs,
           msg.localif \in Ifs, msg.orig \in Addrs \cup {NoAddr}
    PROVE  Step(d, {c.link}, FinishLink(d, c), {}, msg.orig)
<1> DEFINE l  == c.link
           d1 == RemoveLeftovers(d, c)
           d2 == UpdateSymTime(d1, c)
           d3 == [d2 EXCEPT !.heardTime = @ \cup {l}, !.vtime = @ \cup {l}]
           d4 == nhdp_db_neighbor_set_originator(d3, c.neigh, msg.orig)
           e  == nhdp_db_link_update_status(d4, l)
<1>0. FinishLink(d, c) = e
  BY DEF FinishLink
<1>1. Good(d1) /\ d1.links = d.links /\ d1.neighs = d.neighs /\ Quiet(d, d1, {l})
  <2>1. SameTimers(d, d1) /\ d1.orig = d.orig
    BY DEF RemoveLeftovers, SameTimers, Good, Databases
  <2> HIDE DEF d1
  <2>2. Quiet(d, d1, {l})
    BY <2>1, SameTimersQuiet DEF Quiet, Calm
  <2> QED
    BY <2>2, RemoveLeftoversGood DEF d1
<1> HIDE DEF d1
<1>2. /\ Good(d2) /\ d2.links = d1.links /\ d2.neighs = d1.neighs /\ d2.vtime = d1.vtime
      /\ Quiet(d1, d2, {l})
  <2> DEFINE f == [d1 EXCEPT !.symTime = @ \cup {l}]
             g == [d1 EXCEPT !.symTime = @ \ {l}]
             h == nhdp_db_link_update_status(f, l)
  <2>1. d2 = h \/ d2 = g \/ d2 = d1
    BY DEF UpdateSymTime
  <2>2. Good(d2) /\ d2.links = d1.links /\ d2.neighs = d1.neighs
    BY <1>1, UpdateSymTimeGood DEF SameStructure
  <2>3. /\ Good(f) /\ Quiet(d1, f, {l}) /\ f.links = d1.links /\ f.vtime = d1.vtime
        /\ Quiet(d1, g, {l}) /\ g.vtime = d1.vtime
    <3>1. Good(f)
      BY <1>1, TimerGood
    <3>2. /\ f.links = d1.links /\ f.vtime = d1.vtime /\ f.symTime = d1.symTime \cup {l}
          /\ f.heardTime = d1.heardTime /\ f.status = d1.status /\ f.hyst = d1.hyst
          /\ f.orig = d1.orig
      BY <1>1 DEF Good, Databases
    <3>3. /\ g.links = d1.links /\ g.vtime = d1.vtime /\ g.symTime = d1.symTime \ {l}
          /\ g.heardTime = d1.heardTime /\ g.status = d1.status /\ g.hyst = d1.hyst
          /\ g.orig = d1.orig
      BY <1>1 DEF Good, Databases
    <3> HIDE DEF f, g
    <3> QED
      BY <3>1, <3>2, <3>3 DEF Quiet, Calm, SameInputs, Origins
  <2> HIDE DEF f, g, d2
  <2>4. Quiet(f, h, {l}) /\ h.vtime = f.vtime
    BY <1>1, <2>3, UpdateStatusQuiet
  <2> HIDE DEF h
  <2>5. Quiet(d1, h, {l}) /\ Quiet(d1, d1, {l})
    BY <2>3, <2>4, <1>1, QuietTwice, {l} \cup {l} = {l} DEF Quiet, Calm, SameInputs, Origins
  <2> QED
    BY <2>1, <2>2, <2>3, <2>4, <2>5
<1> HIDE DEF d2
<1>3. Good(d3) /\ Quiet(d2, d3, {l}) /\ d3.links = d2.links /\ d3.neighs = d2.neighs /\ l \in d3.vtime
  <2>1. Good(d3) /\ SameStructure(d2, d3)
    BY <1>1, <1>2, TimerGood
  <2>2. /\ d3.links = d2.links /\ d3.vtime = d2.vtime \cup {l} /\ d3.symTime = d2.symTime
        /\ d3.heardTime = d2.heardTime \cup {l} /\ d3.status = d2.status
        /\ d3.hyst = d2.hyst /\ d3.orig = d2.orig
    BY <1>2 DEF Good, Databases
  <2> HIDE DEF d3
  <2> QED
    BY <2>1, <2>2 DEF Quiet, Calm, SameInputs, Origins, SameStructure
<1> HIDE DEF d3
<1>4. Quiet(d, d3, {l})
  <2>1. Quiet(d, d2, {l})
    BY <1>1, <1>2, QuietTwice, {l} \cup {l} = {l}
  <2> QED
    BY <1>3, <2>1, QuietTwice, {l} \cup {l} = {l}
<1>5. /\ Good(d4) /\ d4.links = d.links /\ l \in d4.vtime /\ d4.vtime = d3.vtime
      /\ Calm(d3, d4, {}) /\ Origins(d3, d4, msg.orig)
  <2>1. c.neigh \in d3.neighs /\ d3 \in Databases /\ c.neigh \in Neighs
    BY <1>1, <1>2, <1>3 DEF Good, Databases
  <2>2. Good(d4) /\ d4.links = d3.links
    BY <1>3, <2>1, SetOriginatorGood
  <2>3. Calm(d3, d4, {}) /\ Origins(d3, d4, msg.orig) /\ SameTimers(d3, d4)
    BY <2>1, SetOriginatorQuiet
  <2> HIDE DEF d4
  <2> QED
    BY <1>1, <1>2, <1>3, <2>2, <2>3 DEF SameTimers
<1> HIDE DEF d4
<1>6. /\ Quiet(d4, e, {l}) /\ e.links = d4.links /\ e.vtime = d4.vtime
      /\ e.status[l] = CalculateStatus(e, l)
  BY <1>5, UpdateStatusQuiet
<1> HIDE DEF e
<1>7. Calm(d, e, {l}) /\ Origins(d, e, msg.orig)
  <2>1. Calm(d, e, {l})
    BY <1>4, <1>5, <1>6 DEF Quiet, Calm, SameInputs
  <2> QED
    BY <1>4, <1>5, <1>6, <2>1 DEF Quiet, Origins
<1>8. Step(d, {l}, e, {}, msg.orig)
  BY <1>5, <1>6, <1>7 DEF Step, Calm, SameInputs
<1> QED
  BY <1>0, <1>8

-----------------------------------------------------------------------------
(* The steps of the reader and of the timers settle what they touch.       *)
Settles(o) == undef' \/ Step(db, Rest, db', Rest', o)

(* A dropped HELLO leaves no link waiting. *)
LEMMA DropSettles ==
    ASSUME IInv, DropMessage PROVE Settles(NoAddr)
<1>1. CASE CleanupDefined(db, cur)
  <2>1. db' = _cleanup_error(db, cur) /\ EndMessage(EmptySession)
    BY <1>1 DEF DropMessage
  <2>2. Rest' = {} /\ Rest \subseteq {cur.link}
    BY <2>1 DEF Rest, EndMessage
  <2>3. Quiet(db, db', {}) /\ cur.link \notin db'.links
    BY <1>1, <2>1, CleanupQuiet DEF IInv
  <2>4. \A l \in db'.links : l \in {} \cup Rest => l \in {}
    BY <2>2, <2>3
  <2> QED
    BY <2>2, <2>3, <2>4, QuietStep DEF Settles
<1>2. CASE ~CleanupDefined(db, cur)
  BY <1>2 DEF DropMessage, UseOfFreedObject, Settles
<1> QED
  BY <1>1, <1>2

(* The first pass ends without memory, or with a link that waits for the   *)
(* end of the HELLO. *)
LEMMA Pass1EndSettles ==
    ASSUME IInv, _cb_addresstlvs_pass1_end PROVE Settles(NoAddr)
<1> DEFINE d1 == _handle_originator(db, cur)
<1>0. /\ pc = "pass1" /\ SessionFits(db, cur, msg.localif) /\ Good(db) /\ TypeOK
      /\ msg.localif \in Ifs /\ msg.src \in Addrs /\ cur \in Sessions /\ Rest = {}
  BY MessageFacts DEF _cb_addresstlvs_pass1_end, IInv, SessionFits, Rest
<1>1. /\ Good(d1) /\ d1.neighs = db.neighs /\ d1.links = db.links /\ d1.localif = db.localif
      /\ Quiet(db, d1, {})
  BY <1>0, HandleOriginatorGood, ReaderQuiet
<1> HIDE DEF d1
<1>2. PICK n \in Pass1Neighbors(db, cur), l \in Pass1Links(db, cur) :
             IF n = NoNeigh THEN OutOfMemory(d1, n)
             ELSE IF l = NoLink THEN OutOfMemory(WithNeighbor(d1, n), n)
             ELSE FinishPass1(WithLink(WithNeighbor(d1, n), n, l),
                    [cur EXCEPT !.neigh = n, !.link = l, !.mayGo = LinkAddrsOf(db, l)])
  BY DEF _cb_addresstlvs_pass1_end, d1
<1>3. db.neighs \subseteq Neighs /\ db.links \subseteq Links
  BY <1>0 DEF Good, Databases
<1>4. n \in Neighs \cup {NoNeigh}
  BY <1>0, <1>3, LookupsAlive
     DEF Pass1Neighbors, SessionFits, OriginatorNeighbor, TakesOriginatorNeighbor, FreeOr
<1>5. l \in Links \cup {NoLink} /\ (l \in db.links => db.localif[l] = msg.localif)
  BY <1>0, <1>3, NhdpDbAssumption DEF Pass1Links, SessionFits, FreeOr
<1>6. ASSUME NEW d, Quiet(db, d, {}), NEW m, OutOfMemory(d, m) PROVE Settles(NoAddr)
  <2>1. db' = d /\ Rest' = {}
    BY <1>6 DEF OutOfMemory, EndMessage, Rest
  <2> QED
    BY <1>0, <1>6, <2>1, QuietStep DEF Settles
<1>7. CASE n = NoNeigh
  BY <1>1, <1>2, <1>6, <1>7
<1> DEFINE d2 == WithNeighbor(d1, n)
           d3 == WithLink(d2, n, l)
           c3 == [cur EXCEPT !.neigh = n, !.link = l, !.mayGo = LinkAddrsOf(db, l)]
<1>8. ASSUME n # NoNeigh
      PROVE  /\ Good(d2) /\ d2.neighs = db.neighs \cup {n} /\ d2.links = db.links
             /\ d2.localif = db.localif /\ Quiet(db, d2, {})
  <2>1. /\ Good(d2) /\ d2.neighs = db.neighs \cup {n} /\ d2.links = db.links
        /\ d2.localif = db.localif
    BY <1>1, <1>4, <1>8, WithNeighborGood
  <2>2. Quiet(d1, d2, {})
    BY <1>1, ReaderQuiet
  <2> HIDE DEF d2
  <2>3. Quiet(db, d2, {})
    BY <1>1, <2>2, QuietTwice, {} \cup {} = {}
  <2> QED
    BY <2>1, <2>3
<1>9. CASE n # NoNeigh /\ l = NoLink
  BY <1>2, <1>6, <1>8, <1>9
<1>10. CASE n # NoNeigh /\ l # NoLink
  <2> HIDE DEF d2
  <2>1. Good(d2) /\ n \in d2.neighs /\ d2.links = db.links /\ d2.localif = db.localif
    BY <1>8, <1>10
  <2>2. Good(d3) /\ n \in d3.neighs /\ l \in d3.links /\ d3.localif[l] = msg.localif
    BY <1>0, <1>5, <1>10, <2>1, WithLinkGood
  <2>3. Quiet(db, d3, {l})
    <3>1. Quiet(d2, d3, {l})
      BY <2>1, ReaderQuiet
    <3> HIDE DEF d3
    <3> QED
      BY <1>8, <1>10, <3>1, QuietTwice, {} \cup {l} = {l}
  <2>4. c3 \in Sessions /\ c3.neigh = n /\ c3.link = l
    <3> DEFINE mg == LinkAddrsOf(db, l)
    <3>1. mg \in SUBSET Addrs
      BY DEF LinkAddrsOf
    <3>2. c3 = [cur EXCEPT !.neigh = n, !.link = l, !.mayGo = mg]
      OBVIOUS
    <3> HIDE DEF mg, c3
    <3> QED
      BY <1>0, <1>4, <1>5, <1>10, <3>1, <3>2 DEF Sessions
  <2>5. FinishPass1(d3, c3)
    BY <1>2, <1>10 DEF d2
  <2> HIDE DEF c3, d3
  <2> DEFINE r == IF c3.has_thisif THEN <<d3, c3>>
                  ELSE _pass2_process_localif(d3, c3, msg.src, "this")
  <2>6. LinkSession(d3, c3, msg.localif)
    BY <2>2, <2>4 DEF LinkSession
  <2>7. Good(r[1]) /\ r[2].link = l /\ Quiet(d3, r[1], {})
    <3>1. CASE c3.has_thisif
      <4>1. r = <<d3, c3>>
        BY <3>1
      <4> HIDE DEF r
      <4> QED
        BY <2>2, <2>4, <4>1, DataQuiet DEF Good
    <3>2. CASE ~c3.has_thisif
      <4>1. r = _pass2_process_localif(d3, c3, msg.src, "this")
        BY <3>2
      <4> HIDE DEF r
      <4>2. Good(r[1]) /\ r[2].link = l
        BY <1>0, <2>2, <2>4, <2>6, <4>1, ProcessLocalifGood
      <4>3. Quiet(d3, r[1], {})
        BY <1>0, <2>2, <2>4, <2>6, <4>1, ProcessLocalifQuiet
      <4> QED
        BY <4>2, <4>3
    <3> QED
      BY <3>1, <3>2
  <2>8. IF ~SessionAlive(r[1], c3) THEN UseOfFreedObject
        ELSE \E h \in HystValues, l2 \in DualstackLinks(r[1]) :
             /\ db' = HandleDualstack([r[1] EXCEPT !.hyst[c3.link] = h], c3, l2)
             /\ cur' = r[2]
             /\ pc' = "pass2" /\ idx' = 1
             /\ UNCHANGED <<msg, undef>>
    BY <2>5 DEF FinishPass1
  <2> DEFINE f == r[1]
             g == r[2]
  <2> HIDE DEF r
  <2>9. CASE ~SessionAlive(f, c3)
    BY <2>8, <2>9 DEF UseOfFreedObject, Settles
  <2>10. CASE SessionAlive(f, c3)
    <3>1. PICK h \in HystValues, l2 \in DualstackLinks(f) :
             /\ db' = HandleDualstack([f EXCEPT !.hyst[c3.link] = h], c3, l2)
             /\ cur' = g
             /\ pc' = "pass2" /\ idx' = 1
             /\ UNCHANGED <<msg, undef>>
      BY <2>8, <2>10
    <3>2. Good(f) /\ g.link = l /\ Quiet(d3, f, {}) /\ n \in f.neighs /\ l \in f.links
      BY <2>4, <2>7, <2>10 DEF SessionAlive
    <3> HIDE DEF f, g
    <3> DEFINE f1 == [f EXCEPT !.hyst[c3.link] = h]
    <3>3. h \in Hysteresis /\ c3.link \in f.links /\ c3.link = l
      BY <2>4, <3>2, NhdpAssumption
    <3>4. Good(f1) /\ f1.neighs = f.neighs /\ f1.links = f.links /\ Quiet(f, f1, {l})
      <4>1. Good(f1) /\ SameStructure(f, f1)
        BY <3>2, <3>3, HystGood
      <4>2. Quiet(f, f1, {l})
        BY <3>2, <3>3, HystQuiet DEF Good
      <4> QED
        BY <4>1, <4>2 DEF SameStructure
    <3> HIDE DEF f1
    <3>5. l2 \in f1.links \cup {NoLink} /\ c3.neigh \in f1.neighs /\ c3.link \in f1.links
      BY <2>4, <3>2, <3>4, LookupsAlive
    <3>6. Quiet(f1, db', {})
      <4>1. db' = HandleDualstack(f1, c3, l2)
        BY <3>1 DEF f1
      <4> QED
        BY <3>4, <3>5, <4>1, HandleDualstackQuiet
    <3>7. Quiet(db, db', {l})
      <4>1. Quiet(db, f, {l})
        BY <2>3, <3>2, QuietTwice, {l} \cup {} = {l}
      <4>2. Quiet(db, f1, {l})
        BY <3>4, <4>1, QuietTwice, {l} \cup {l} = {l}
      <4> QED
        BY <3>6, <4>2, QuietTwice, {l} \cup {} = {l}
    <3>8. Rest' = {l}
      BY <3>1, <3>2 DEF Rest
    <3> QED
      BY <1>0, <3>7, <3>8, QuietStep DEF Settles
  <2> QED
    BY <2>9, <2>10
<1> QED
  BY <1>7, <1>9, <1>10

(* One address of the second pass leaves the link of the session waiting. *)
LEMMA Pass2BlockSettles ==
    ASSUME IInv, _cb_addr_pass2_block PROVE Settles(NoAddr)
<1> DEFINE x == msg.addrs[idx]
           r == IF x.lif = "none" THEN <<db, cur>>
                ELSE _pass2_process_localif(db, cur, x.addr, x.lif)
           f == r[1]
           g == r[2]
<1>1. /\ pc = "pass2" /\ SessionFits(db, cur, msg.localif) /\ Good(db) /\ TypeOK
      /\ msg.localif \in Ifs /\ cur \in Sessions /\ SessionAlive(db, cur)
      /\ x.addr \in Addrs /\ Rest = {cur.link}
  BY MessageFacts DEF _cb_addr_pass2_block, IInv, SessionFits, TypeOK, Rest
<1>2. IF ~SessionAlive(db, cur) \/ ~SessionAlive(f, g)
      THEN UseOfFreedObject
      ELSE /\ db' = ProcessTwohop(f, g, x)
           /\ cur' = g
           /\ idx' = idx + 1
           /\ UNCHANGED <<pc, msg, undef>>
  BY DEF _cb_addr_pass2_block
<1> HIDE DEF x
<1>3. Good(f) /\ g.link = cur.link /\ Quiet(db, f, {})
  <2>1. db.localif[cur.link] = msg.localif
    BY <1>1, NhdpDbAssumption DEF SessionFits, SessionAlive, Good, Databases
  <2>2. CASE x.lif = "none"
    BY <1>1, <2>2, DataQuiet DEF Good
  <2>3. CASE x.lif # "none"
    <3>1. r = _pass2_process_localif(db, cur, x.addr, x.lif)
      BY <2>3
    <3>2. LinkSession(db, cur, msg.localif) /\ cur.neigh \in db.neighs
      BY <1>1, <2>1 DEF LinkSession, SessionAlive
    <3> HIDE DEF r
    <3>3. Good(r[1]) /\ r[2].link = cur.link
      BY <1>1, <3>1, <3>2, ProcessLocalifGood
    <3>4. Quiet(db, r[1], {})
      BY <1>1, <3>1, <3>2, ProcessLocalifQuiet
    <3> QED
      BY <3>3, <3>4
  <2> QED
    BY <2>2, <2>3
<1> HIDE DEF f, g
<1>4. CASE ~SessionAlive(f, g)
  BY <1>2, <1>4 DEF UseOfFreedObject, Settles
<1>5. CASE SessionAlive(f, g)
  <2>1. db' = ProcessTwohop(f, g, x) /\ cur' = g /\ pc' = pc
    BY <1>1, <1>2, <1>5
  <2>2. Quiet(f, db', {})
    BY <1>3, <2>1, ReaderQuiet
  <2>3. Quiet(db, db', {})
    BY <1>3, <2>2, QuietTwice, {} \cup {} = {}
  <2>4. Rest' = {cur.link}
    BY <1>1, <1>3, <2>1 DEF Rest
  <2>5. \A l \in db'.links : l \in {} \cup Rest => l \in Rest'
    BY <1>1, <2>4
  <2> QED
    BY <2>3, <2>5, QuietStep DEF Settles
<1> QED
  BY <1>4, <1>5

(* The originators a step of the reader may set *)
Taken == IF pc = "idle" THEN NoAddr ELSE msg.orig

(* A database that stays as it is. *)
LEMMA SameSettles ==
    ASSUME IInv, db' = db, Rest' = {}, Rest = {} PROVE \A o : Settles(o)
<1>1. Quiet(db, db', {})
  BY DataQuiet DEF IInv, Good
<1> QED
  BY <1>1, QuietStep DEF Settles

(* Losing an originator is among the steps that may set one. *)
LEMMA SettlesAny ==
    ASSUME Settles(NoAddr), NEW o PROVE Settles(o)
BY DEF Settles, Step, Origins

(* The callbacks that read a HELLO. *)
LEMMA ReceiveSettles ==
    ASSUME IInv, Receive PROVE Settles(Taken)
<1>1. ASSUME NEW m \in Hellos, HelloFailsConstraints(m) PROVE Settles(Taken)
  BY <1>1, DropSettles, SettlesAny DEF HelloFailsConstraints
<1>2. ASSUME NEW m \in Hellos, HelloIgnored(m) PROVE Settles(Taken)
  <2>1. db' = db /\ Rest' = {} /\ Rest = {}
    BY <1>2 DEF HelloIgnored, EndMessage, Rest, Idle
  <2> QED
    BY <2>1, SameSettles
<1>3. ASSUME NEW m \in Hellos, _cb_messagetlvs(m) PROVE Settles(Taken)
  <2>1. db' = db /\ Rest' = {} /\ Rest = {}
    BY <1>3 DEF _cb_messagetlvs, Rest, Idle
  <2> QED
    BY <2>1, SameSettles
<1>4. CASE _cb_addresstlvs_pass1
  <2>1. db' = db /\ Rest' = {} /\ Rest = {}
    BY <1>4 DEF _cb_addresstlvs_pass1, Rest
  <2> QED
    BY <2>1, SameSettles
<1>5. CASE AddressFailsConstraintsPass1
  BY <1>5, DropSettles, SettlesAny DEF AddressFailsConstraintsPass1
<1>6. CASE AddressFailsConstraintsPass2
  BY <1>6, DropSettles, SettlesAny DEF AddressFailsConstraintsPass2
<1>7. CASE _cb_msg_pass2_end
  <2>1. CASE ~SessionAlive(db, cur)
    BY <1>7, <2>1 DEF _cb_msg_pass2_end, IInv
  <2>2. CASE SessionAlive(db, cur)
    <3>1. db' = FinishLink(db, cur) /\ Rest' = {} /\ Rest = {cur.link} /\ Taken = msg.orig
      BY <1>7, <2>2 DEF _cb_msg_pass2_end, EndMessage, Rest, Taken
    <3>2. msg.localif \in Ifs /\ msg.orig \in Addrs \cup {NoAddr} /\ Good(db)
      BY <1>7, MessageFacts DEF _cb_msg_pass2_end, IInv
    <3>3. Step(db, {cur.link}, FinishLink(db, cur), {}, msg.orig)
      BY <2>2, <3>2, FinishLinkStep DEF SessionAlive
    <3> QED
      BY <3>1, <3>3 DEF Settles
  <2> QED
    BY <2>1, <2>2
<1> QED
  BY <1>1, <1>2, <1>3, <1>4, <1>5, <1>6, <1>7, Pass1EndSettles, Pass2BlockSettles, SettlesAny
     DEF Receive, Reading

(* Between HELLOs a change of one link with a status update settles. *)
LEMMA UpdateSettles ==
    ASSUME IInv, Idle, NEW d, Good(d), NEW l \in d.links, Quiet(db, d, {l}),
           d.links = db.links, d.vtime = db.vtime, DbStep(nhdp_db_link_update_status(d, l))
    PROVE  Settles(NoAddr)
<1> DEFINE e == nhdp_db_link_update_status(d, l)
<1>1. db' = e /\ Rest' = {} /\ Rest = {}
  BY DEF DbStep, Rest, Idle
<1>2. /\ Quiet(d, e, {l}) /\ e.links = d.links /\ e.vtime = d.vtime
      /\ e.status[l] = CalculateStatus(e, l)
  BY UpdateStatusQuiet
<1> HIDE DEF e
<1>3. Quiet(db, e, {l})
  BY <1>2, QuietTwice, {l} \cup {l} = {l}
<1> QED
  BY <1>1, <1>2, <1>3 DEF Settles, Step, Quiet, Calm

(* The timers. *)
LEMMA TimeoutSettles ==
    ASSUME IInv, Timeout PROVE Settles(NoAddr)
<1>0. Good(db) /\ db.symTime \cup db.heardTime \cup db.vtime \subseteq db.links
  BY DEF IInv, Good, ReferencesAlive
<1>1. ASSUME NEW l \in Links, _cb_link_symtime(l) PROVE Settles(NoAddr)
  <2> DEFINE d1 == [db EXCEPT !.symTime = @ \ {l}]
  <2>1. l \in db.links /\ Idle /\ DbStep(nhdp_db_link_update_status(d1, l))
    BY <1>0, <1>1 DEF _cb_link_symtime
  <2>2. Good(d1) /\ SameStructure(db, d1)
    BY <1>0, <2>1, TimerGood
  <2>3. /\ d1.links = db.links /\ d1.vtime = db.vtime /\ d1.symTime = db.symTime \ {l}
        /\ d1.heardTime = db.heardTime /\ d1.status = db.status /\ d1.hyst = db.hyst
        /\ d1.orig = db.orig
    BY <1>0 DEF Good, Databases
  <2> HIDE DEF d1
  <2>4. Quiet(db, d1, {l})
    BY <2>3 DEF Quiet, Calm, SameInputs, Origins
  <2> QED
    BY <2>1, <2>2, <2>3, <2>4, UpdateSettles
<1>2. ASSUME NEW l \in Links, _cb_link_heard(l) PROVE Settles(NoAddr)
  <2> DEFINE d1 == [db EXCEPT !.heardTime = @ \ {l}]
  <2>1. l \in db.links /\ Idle /\ DbStep(nhdp_db_link_update_status(d1, l))
    BY <1>0, <1>2 DEF _cb_link_heard
  <2>2. Good(d1) /\ SameStructure(db, d1)
    BY <1>0, <2>1, TimerGood
  <2>3. /\ d1.links = db.links /\ d1.vtime = db.vtime /\ d1.symTime = db.symTime
        /\ d1.heardTime = db.heardTime \ {l} /\ d1.status = db.status /\ d1.hyst = db.hyst
        /\ d1.orig = db.orig
    BY <1>0 DEF Good, Databases
  <2> HIDE DEF d1
  <2>4. Quiet(db, d1, {l})
    BY <2>3 DEF Quiet, Calm, SameInputs, Origins
  <2> QED
    BY <2>1, <2>2, <2>3, <2>4, UpdateSettles
<1>3. ASSUME Idle, NEW d, Quiet(db, d, {}), DbStep(d) PROVE Settles(NoAddr)
  <2>1. db' = d /\ Rest' = {} /\ Rest = {}
    BY <1>3 DEF DbStep, Rest, Idle
  <2> QED
    BY <1>3, <2>1, QuietStep DEF Settles
<1>4. ASSUME NEW l \in Links, _cb_link_vtime(l) PROVE Settles(NoAddr)
  <2> DEFINE n  == db.neigh[l]
             d1 == IF db.status[l] = "SYMMETRIC"
                   THEN _link_status_not_symmetric_anymore(db, l) ELSE db
             d2 == nhdp_db_link_remove(d1, {l})
             d3 == IF LinksOf(d2, n) = {} THEN nhdp_db_neighbor_remove(d2, n) ELSE d2
  <2>1. l \in db.links /\ Idle /\ DbStep(d3)
    BY <1>0, <1>4 DEF _cb_link_vtime
  <2>2. n \in db.neighs
    BY <1>0, <2>1, DataTypes
  <2>3. Good(d1) /\ d1.neighs = db.neighs /\ d1.links = db.links /\ Quiet(db, d1, {})
    BY <1>0, <2>1, NotSymmetricGood, NotSymmetricQuiet, DataQuiet DEF SameStructure, Good
  <2> HIDE DEF n, d1
  <2>4. {l} \subseteq d1.links
    BY <2>1, <2>3
  <2>5. Good(d2) /\ d2.neighs = db.neighs /\ Quiet(d1, d2, {})
    BY <2>3, <2>4, LinkRemoveGood, LinkRemoveQuiet
  <2> HIDE DEF d2
  <2>6. Quiet(db, d2, {})
    BY <2>3, <2>5, QuietTwice, {} \cup {} = {}
  <2>7. Quiet(d2, d3, {})
    BY <2>2, <2>5, NeighborRemoveQuiet, DataQuiet DEF Good
  <2> HIDE DEF d3
  <2>8. Quiet(db, d3, {})
    BY <2>6, <2>7, QuietTwice, {} \cup {} = {}
  <2> QED
    BY <1>3, <2>1, <2>8
<1>5. ASSUME NEW a \in Addrs, _cb_naddr_vtime(a) PROVE Settles(NoAddr)
  BY <1>0, <1>3, <1>5, DataQuiet DEF _cb_naddr_vtime, Good
<1>6. ASSUME NEW h \in Links \X Addrs, _cb_l2hop_vtime(h) PROVE Settles(NoAddr)
  BY <1>0, <1>3, <1>6, DataQuiet DEF _cb_l2hop_vtime, Good
<1> QED
  BY <1>1, <1>2, <1>4, <1>5, <1>6 DEF Timeout

(* A change of mind of the hysteresis. *)
LEMMA HysteresisSettles ==
    ASSUME IInv, HysteresisEvent PROVE Settles(NoAddr)
<1>1. PICK l \in Links, h \in HystValues : HysteresisChange(l, h)
  BY DEF HysteresisEvent
<1> DEFINE d1 == [db EXCEPT !.hyst[l] = h]
<1>2. /\ l \in db.links /\ Idle /\ DbStep(nhdp_db_link_update_status(d1, l))
      /\ h \in Hysteresis /\ Good(db)
  BY <1>1, NhdpAssumption DEF HysteresisChange, IInv
<1>3. Good(d1) /\ SameStructure(db, d1) /\ Quiet(db, d1, {l})
  BY <1>2, HystGood, HystQuiet DEF Good
<1>4. d1.links = db.links /\ d1.vtime = db.vtime
  BY <1>2 DEF Good, Databases
<1> HIDE DEF d1
<1> QED
  BY <1>2, <1>3, <1>4, UpdateSettles

(* What an interface that loses its addresses does to its links leaves     *)
(* their validity timers alone. *)
LEMMA LoseAddressesTimed ==
    ASSUME IInv, NEW i \in Ifs, InterfaceLosesAddresses(i), TimedBut(db, Rest)
    PROVE  TimedBut(db', Rest')
<1> DEFINE S == {l \in db.links : db.localif[l] = i}
           e == nhdp_db_link_set_unsymmetric(db, S)
<1>1. db' = e /\ Rest' = {} /\ Rest = {}
  BY DEF InterfaceLosesAddresses, DbStep, Idle, Rest
<1>2. e.links = db.links /\ e.vtime = db.vtime
  BY DEF nhdp_db_link_set_unsymmetric, IInv, Good, Databases
<1> QED
  BY <1>1, <1>2 DEF TimedBut

-----------------------------------------------------------------------------
Timed == undef \/ TimedBut(db, Rest)

(* What a step settles is timed. *)
LEMMA SettledTimed ==
    ASSUME IInv, IInv', Timed, ~undef, NEW o, Settles(o) PROVE Timed'
<1>1. Good(db) /\ Good(db')
  BY DEF IInv
<1>2. CASE undef'
  BY <1>2 DEF Timed
<1>3. CASE Step(db, Rest, db', Rest', o)
  <2>1. TimedBut(db', Rest')
    BY <1>1, <1>3, StepKeeps DEF Timed
  <2> QED
    BY <2>1 DEF Timed
<1> QED
  BY <1>2, <1>3 DEF Settles

(***************************************************************************)
(* Between HELLOs every link has a running validity timer: nothing that    *)
(* was learned stays for ever.  This holds for any HELLO, whatever fails   *)
(* while it is read, and when interfaces lose their addresses              *)
(* (_cb_msg_pass2_end starts the timer of the link a HELLO made).          *)
(***************************************************************************)
THEOREM LinksExpire == Spec => []LinkExpires
<1>1. Init => Timed
  BY DEF Init, Timed, TimedBut, EmptyDb
<1>2. IInv /\ IInv' /\ Timed /\ [Next]_vars => Timed'
  <2> SUFFICES ASSUME IInv, IInv', Timed, [Next]_vars PROVE Timed'
    OBVIOUS
  <2>1. CASE UNCHANGED vars \/ undef
    <3>1. UNCHANGED vars
      BY <2>1 DEF Next, Receive, Reading, Timeout, HysteresisEvent, Halted, HelloFailsConstraints,
            HelloIgnored, _cb_messagetlvs, _cb_addresstlvs_pass1, AddressFailsConstraintsPass1,
            _cb_addresstlvs_pass1_end, _cb_addr_pass2_block, AddressFailsConstraintsPass2,
            _cb_msg_pass2_end, _cb_link_symtime, _cb_link_heard, _cb_link_vtime,
            _cb_naddr_vtime, _cb_l2hop_vtime, HysteresisChange, InterfaceLosesAddresses,
            Idle, Running
    <3> QED
      BY <3>1 DEF vars, Timed, TimedBut, Rest
  <2>2. CASE ~undef /\ Receive
    BY <2>2, ReceiveSettles, SettledTimed
  <2>3. CASE ~undef /\ Timeout
    BY <2>3, TimeoutSettles, SettledTimed
  <2>4. CASE ~undef /\ HysteresisEvent
    BY <2>4, HysteresisSettles, SettledTimed
  <2>5. ASSUME NEW i \in Ifs, InterfaceLosesAddresses(i), ~undef PROVE Timed'
    BY <2>5, LoseAddressesTimed DEF Timed
  <2>6. CASE Halted
    BY <2>1, <2>6 DEF Halted
  <2> QED
    BY <2>1, <2>2, <2>3, <2>4, <2>5, <2>6 DEF Next
<1>3. IInv /\ Timed => LinkExpires
  <2> SUFFICES ASSUME IInv, Timed, Idle PROVE db.links = db.vtime
    BY DEF LinkExpires
  <2>1. db.vtime \subseteq db.links
    BY DEF IInv, Good, ReferencesAlive
  <2>2. \A l \in db.links : l \in db.vtime
    BY DEF Timed, TimedBut, Rest, Idle, Running
  <2> QED
    BY <2>1, <2>2
<1> QED
  BY <1>1, <1>2, <1>3, Invariance, PTL DEF Spec

Fresh == undef \/ (FreshBut(db, Rest) /\ Foreign(db))

(* What a step settles is up to date. *)
LEMMA SettledFresh ==
    ASSUME IInv, IInv', Fresh, ~undef, NEW o, LocalOriginator = NoAddr \/ o # LocalOriginator,
           Settles(o)
    PROVE  Fresh'
<1>1. Good(db) /\ Good(db')
  BY DEF IInv
<1>2. CASE undef'
  BY <1>2 DEF Fresh
<1>3. CASE Step(db, Rest, db', Rest', o)
  <2>1. FreshBut(db', Rest') /\ Foreign(db')
    BY <1>1, <1>3, StepKeeps DEF Fresh
  <2> QED
    BY <2>1 DEF Fresh
<1> QED
  BY <1>2, <1>3 DEF Settles

(***************************************************************************)
(* Between HELLOs the cached status of every link is the one its timers,   *)
(* its hysteresis and the originator of its neighbor imply, so that no     *)
(* status event was missed.  Two things it takes: our interfaces keep      *)
(* their addresses (nhdp_db_link_set_unsymmetric stops the symmetric time  *)
(* without an update), and no HELLO carries our own originator (setting it *)
(* at a neighbor updates one of its links only).                           *)
(***************************************************************************)
THEOREM StatusesFresh ==
    ASSUME LocalOriginator = NoAddr \/ \A m \in Hellos : m.orig # LocalOriginator
    PROVE  StableSpec => []StatusFresh
<1>1. Init => Fresh
  BY DEF Init, Fresh, FreshBut, Foreign, EmptyDb
<1>2. IInv /\ IInv' /\ Fresh /\ [StableNext]_vars => Fresh'
  <2> SUFFICES ASSUME IInv, IInv', Fresh, [StableNext]_vars PROVE Fresh'
    OBVIOUS
  <2>1. CASE UNCHANGED vars \/ undef
    <3>1. UNCHANGED vars
      BY <2>1 DEF StableNext, Receive, Reading, Timeout, HysteresisEvent, Halted,
            HelloFailsConstraints, HelloIgnored, _cb_messagetlvs, _cb_addresstlvs_pass1,
            AddressFailsConstraintsPass1, _cb_addresstlvs_pass1_end, _cb_addr_pass2_block,
            AddressFailsConstraintsPass2, _cb_msg_pass2_end, _cb_link_symtime, _cb_link_heard,
            _cb_link_vtime, _cb_naddr_vtime, _cb_l2hop_vtime, HysteresisChange, Idle, Running
    <3> QED
      BY <3>1 DEF vars, Fresh, FreshBut, Foreign, CalculateStatus, Rest
  <2>2. CASE ~undef /\ Receive
    <3>1. LocalOriginator = NoAddr \/ Taken # LocalOriginator
      BY DEF Taken, IInv, TypeOK
    <3> QED
      BY <2>2, <3>1, ReceiveSettles, SettledFresh
  <2>3. CASE ~undef /\ Timeout
    BY <2>3, TimeoutSettles, SettledFresh
  <2>4. CASE ~undef /\ HysteresisEvent
    BY <2>4, HysteresisSettles, SettledFresh
  <2>5. CASE Halted
    BY <2>1, <2>5 DEF Halted
  <2> QED
    BY <2>1, <2>2, <2>3, <2>4, <2>5 DEF StableNext
<1>3. Fresh => StatusFresh
  BY DEF Fresh, FreshBut, StatusFresh, Rest, Idle, Running
<1>4. [StableNext]_vars => [Next]_vars
  BY DEF StableNext, Next
<1>5. StableSpec => Spec
  BY <1>4, PTL DEF StableSpec, Spec
<1> QED
  BY <1>1, <1>2, <1>3, <1>5, Invariance, PTL DEF StableSpec

-----------------------------------------------------------------------------
(***************************************************************************)
(* Addresses of links.  Only a HELLO takes an address from a link that it  *)
(* does not remove: what the other functions leave of the links keeps its  *)
(* interface and its addresses.                                            *)
(***************************************************************************)
Keeps(d, e) ==
    /\ e.links \subseteq d.links
    /\ \A l \in e.links : e.localif[l] = d.localif[l]
    /\ \A i \in Ifs, a \in Addrs : \A l \in e.links : e.laddr[i][a] = l <=> d.laddr[i][a] = l

HasAddr(d, l) == \E a \in Addrs : d.laddr[d.localif[l]][a] = l

(* Steps that keep the addresses of links compose. *)
LEMMA KeepsTwice ==
    ASSUME NEW d, NEW e, NEW f, Keeps(d, e), Keeps(e, f)
    PROVE  Keeps(d, f)
BY DEF Keeps

(* The links that stay have the addresses they had. *)
LEMMA KeepsAddr ==
    ASSUME NEW d, Good(d), NEW e, Keeps(d, e), NEW l \in e.links, HasAddr(d, l)
    PROVE  HasAddr(e, l)
<1>1. d.localif[l] \in Ifs /\ e.localif[l] = d.localif[l]
  BY DEF Good, Databases, Keeps
<1> QED
  BY <1>1 DEF Keeps, HasAddr

(* What leaves objects and pointers alone keeps them. *)
LEMMA StructureKeeps ==
    ASSUME NEW d, NEW e, SameStructure(d, e)
    PROVE  Keeps(d, e)
BY DEF SameStructure, Keeps

(* The objects and addresses of a database, without the originators *)
SameAddrs(d, e) ==
    /\ e.neighs = d.neighs /\ e.naddr = d.naddr /\ e.links = d.links /\ e.neigh = d.neigh
    /\ e.localif = d.localif /\ e.laddr = d.laddr

SameCounts(d, e) == e.status = d.status /\ e.symmetric = d.symmetric

SameView(d, e) == SameAddrs(d, e) /\ SameCounts(d, e) /\ e.orig = d.orig

(* The same objects and addresses again. *)
LEMMA SameTwice ==
    ASSUME NEW d, NEW e, NEW f
    PROVE  /\ SameAddrs(d, e) /\ SameAddrs(e, f) => SameAddrs(d, f)
           /\ SameCounts(d, e) /\ SameCounts(e, f) => SameCounts(d, f)
           /\ SameView(d, e) /\ SameView(e, f) => SameView(d, f)
           /\ SameView(d, d)
           /\ SameAddrs(d, e) => Keeps(d, e)
BY DEF SameView, SameAddrs, SameCounts, Keeps

(* Timers, marks, two-hop addresses, partners and hysteresis are no part   *)
(* of the view. *)
LEMMA DataView ==
    ASSUME NEW d, d \in Databases
    PROVE  /\ \A S : SameView(d, [d EXCEPT !.symTime = S])
           /\ \A S : SameView(d, [d EXCEPT !.heardTime = S])
           /\ \A S, T : SameView(d, [d EXCEPT !.heardTime = S, !.vtime = T])
           /\ \A S : SameView(d, [d EXCEPT !.twohop = S])
           /\ \A S, T : SameView(d, [d EXCEPT !.mayGo = S, !.lost = T])
           /\ \A f : SameView(d, [d EXCEPT !.hyst = f])
           /\ \A f : SameView(d, [d EXCEPT !.npartner = f])
           /\ \A f : SameView(d, [d EXCEPT !.lpartner = f])
           /\ \A n : SameView(d, MarkNeighborAddrs(d, n))
BY DEF Databases, SameView, SameAddrs, SameCounts, MarkNeighborAddrs

(* The originator of a neighbor is taken or set. *)
LEMMA UnindexView ==
    ASSUME NEW d, d \in Databases, NEW n
    PROVE  SameView(d, Unindex(d, n)) /\ Unindex(d, n) \in Databases
BY DEF Databases, SameView, SameAddrs, SameCounts, Unindex

(* Nor does a new originator change objects, addresses or counters. *)
LEMMA OrigView ==
    ASSUME NEW d, d \in Databases, NEW n \in Neighs, NEW o \in Addrs \cup {NoAddr},
           NEW e, e = [d EXCEPT !.orig[n] = o]
    PROVE  SameAddrs(d, e) /\ SameCounts(d, e) /\ e \in Databases
BY DEF Databases, SameAddrs, SameCounts

(* Originators are no addresses. *)
LEMMA SetOriginatorAddrs ==
    ASSUME NEW d, d \in Databases, NEW n \in Neighs, NEW o \in Addrs \cup {NoAddr}
    PROVE  LET e == nhdp_db_neighbor_set_originator(d, n, o)
           IN  SameAddrs(d, e) /\ SameCounts(d, e)
<1> DEFINE e == nhdp_db_neighbor_set_originator(d, n, o)
<1>1. CASE d.orig[n] = o
  BY <1>1, SameTwice DEF nhdp_db_neighbor_set_originator, SameView
<1>2. CASE d.orig[n] # o
  <2> DEFINE d1 == IF d.orig[n] # NoAddr THEN Unindex(d, n) ELSE d
             n2 == NeighborByOriginator(d1, o)
             u2 == Unindex(d1, n2)
             o2 == [u2 EXCEPT !.orig[n2] = NoAddr]
             d2 == IF n2 # NoNeigh THEN o2 ELSE d1
             d3 == [d2 EXCEPT !.orig[n] = o]
             d4 == [d3 EXCEPT !.origTree = @ \cup {n}, !.linkOrigs = @ \cup LinksOf(d3, n)]
  <2>1. e = IF o = NoAddr THEN d3 ELSE d4
    BY <1>2 DEF nhdp_db_neighbor_set_originator
  <2>2. d1 \in Databases /\ SameAddrs(d, d1) /\ SameCounts(d, d1)
    BY UnindexView, SameTwice DEF SameView
  <2> HIDE DEF d1
  <2>3. n2 \in Neighs \cup {NoNeigh}
    BY <2>2 DEF NeighborByOriginator, Databases
  <2> HIDE DEF n2
  <2>4. u2 \in Databases /\ SameAddrs(d1, u2) /\ SameCounts(d1, u2)
    BY <2>2, UnindexView DEF SameView
  <2> HIDE DEF u2
  <2>5. n2 # NoNeigh => o2 \in Databases /\ SameAddrs(u2, o2) /\ SameCounts(u2, o2)
    BY <2>3, <2>4, OrigView
  <2> HIDE DEF o2
  <2>6. d2 \in Databases /\ SameAddrs(d1, d2) /\ SameCounts(d1, d2)
    BY <2>2, <2>4, <2>5, SameTwice DEF SameView
  <2> HIDE DEF d2
  <2>7. d3 \in Databases /\ SameAddrs(d2, d3) /\ SameCounts(d2, d3)
    BY <2>6, OrigView
  <2> HIDE DEF d3
  <2>8. SameAddrs(d3, d4) /\ SameCounts(d3, d4)
    BY <2>7 DEF Databases, SameAddrs, SameCounts
  <2> HIDE DEF d4, e
  <2>9. SameAddrs(d3, e) /\ SameCounts(d3, e)
    BY <2>1, <2>8, SameTwice DEF SameView
  <2>10. SameAddrs(d, d3) /\ SameCounts(d, d3)
    BY <2>2, <2>6, <2>7, SameTwice
  <2>11. SameAddrs(d, e) /\ SameCounts(d, e)
    BY <2>9, <2>10, SameTwice
  <2> QED
    BY <2>11 DEF e
<1> QED
  BY <1>1, <1>2

(* The dualstack information changes partners only. *)
LEMMA HandleDualstackView ==
    ASSUME NEW d, d \in Databases, NEW c, NEW l2,
           HandleDualstack(d, c, l2) \in Databases
    PROVE  SameView(d, HandleDualstack(d, c, l2))
<1> DEFINE n2 == NeighborByOriginator(d, msg.v4)
           d1 == IF n2 = NoNeigh THEN d
                 ELSE nhdp_db_neighbor_connect_dualstack(d, c.neigh, n2)
           d2 == IF l2 = NoLink THEN d1 ELSE nhdp_db_link_connect_dualstack(d1, c.link, l2)
           d3 == nhdp_db_neigbor_disconnect_dualstack(d, c.neigh)
           d4 == nhdp_db_link_disconnect_dualstack(d3, c.link)
<1>1. HandleDualstack(d, c, l2) \in {d, d2, d4}
  BY DEF HandleDualstack
<1>2. SameView(d, d1)
  BY DEF nhdp_db_neighbor_connect_dualstack, Databases, SameView, SameAddrs, SameCounts
<1>3. SameView(d1, d2)
  BY DEF nhdp_db_neighbor_connect_dualstack, nhdp_db_link_connect_dualstack, Databases,
         SameView, SameAddrs, SameCounts
<1>4. SameView(d, d4)
  BY DEF nhdp_db_neigbor_disconnect_dualstack, nhdp_db_link_disconnect_dualstack, Databases,
         SameView, SameAddrs, SameCounts
<1> HIDE DEF d1, d2, d4
<1> QED
  BY <1>1, <1>2, <1>3, <1>4, SameTwice

(* Database e is d without the links of S. *)
WithoutLinks(d, S, e) ==
    /\ e.links = d.links \ S /\ e.localif = d.localif
    /\ e.neigh = [l \in Links |-> IF l \in S THEN NoNeigh ELSE d.neigh[l]]
    /\ e.status = [l \in Links |-> IF l \in S THEN "LOST" ELSE d.status[l]]
    /\ Keeps(d, e)

(* What the removal of links leaves of a database. *)
LEMMA LinkRemoveView ==
    ASSUME NEW d, Good(d), NEW S, S \subseteq d.links
    PROVE  LET e == nhdp_db_link_remove(d, S)
           IN  /\ WithoutLinks(d, S, e) /\ e.neighs = d.neighs /\ e.naddr = d.naddr
               /\ e.orig = d.orig /\ e.symmetric = d.symmetric
<1> DEFINE e == nhdp_db_link_remove(d, S)
<1>1. /\ e.neighs = d.neighs /\ e.links = d.links \ S
      /\ e.neigh = [l \in Links |-> IF l \in S THEN NoNeigh ELSE d.neigh[l]]
      /\ e.localif = d.localif /\ e.naddr = d.naddr /\ e.orig = d.orig
      /\ e.laddr = [i \in Ifs |-> [a \in Addrs |->
            IF d.laddr[i][a] \in S THEN NoLink ELSE d.laddr[i][a]]]
      /\ e.status = [l \in Links |-> IF l \in S THEN "LOST" ELSE d.status[l]]
      /\ e.symmetric = d.symmetric
  BY DEF Good, Databases, nhdp_db_link_remove
<1>2. NoLink \notin e.links
  BY <1>1, NhdpDbAssumption DEF Good, Databases
<1> HIDE DEF e
<1>3. Keeps(d, e)
  BY <1>1, <1>2 DEF Keeps
<1> QED
  BY <1>1, <1>3 DEF WithoutLinks, e

(* Links that are removed leave the others alone. *)
LEMMA LinkRemoveKeeps ==
    ASSUME NEW d, Good(d), NEW S, S \subseteq d.links
    PROVE  LET e == nhdp_db_link_remove(d, S)
           IN  Keeps(d, e) /\ e.neighs = d.neighs /\ e.links = d.links \ S
<1> DEFINE e == nhdp_db_link_remove(d, S)
<1>1. e.neighs = d.neighs /\ e.links = d.links \ S
  BY LinkRemoveGood
<1>2. Keeps(d, e)
  BY LinkRemoveView DEF WithoutLinks
<1> QED
  BY <1>1, <1>2

(* Database e is d without neighbor n, but for its links. *)
WithoutNeighbor(d, n, e) ==
    /\ e.neighs = d.neighs \ {n}
    /\ e.naddr = [a \in Addrs |-> IF d.naddr[a] = n THEN NoNeigh ELSE d.naddr[a]]
    /\ e.orig = [d.orig EXCEPT ![n] = NoAddr] /\ e.symmetric = [d.symmetric EXCEPT ![n] = 0]

(* What the removal of a neighbor leaves of a database. *)
LEMMA NeighborRemoveView ==
    ASSUME NEW d, Good(d), NEW n \in d.neighs
    PROVE  LET e == nhdp_db_neighbor_remove(d, n)
           IN  WithoutNeighbor(d, n, e) /\ WithoutLinks(d, LinksOf(d, n), e)
<1> DEFINE d1 == nhdp_db_neigbor_disconnect_dualstack(d, n)
           S  == LinksOf(d1, n)
           d2 == nhdp_db_link_remove(d1, S)
           e  == nhdp_db_neighbor_remove(d, n)
<1>1. e = [d2 EXCEPT
            !.naddr = [a \in Addrs |-> IF @[a] = n THEN NoNeigh ELSE @[a]],
            !.lost = @ \ NaddrsOf(d, n),
            !.mayGo = @ \ NaddrsOf(d, n),
            !.origTree = IF d.orig[n] # NoAddr THEN @ \ {n} ELSE @,
            !.orig[n] = NoAddr,
            !.symmetric[n] = 0,
            !.neighs = @ \ {n}]
  BY DEF nhdp_db_neighbor_remove
<1>2. Good(d1) /\ SameView(d, d1)
  BY NeighborDisconnectGood, DataView DEF Good, nhdp_db_neigbor_disconnect_dualstack
<1> HIDE DEF d1
<1>3. S \subseteq d1.links /\ S = LinksOf(d, n)
  BY <1>2 DEF LinksOf, SameView, SameAddrs
<1> HIDE DEF S
<1>4. /\ WithoutLinks(d1, S, d2) /\ d2.neighs = d1.neighs /\ d2.naddr = d1.naddr
      /\ d2.orig = d1.orig /\ d2.symmetric = d1.symmetric
  BY <1>2, <1>3, LinkRemoveView
<1>5. d2 \in Databases
  BY <1>2, <1>3, LinkRemoveGood DEF Good
<1> HIDE DEF d2, e
<1>6. /\ e.neighs = d2.neighs \ {n} /\ e.links = d2.links /\ e.neigh = d2.neigh
      /\ e.localif = d2.localif /\ e.laddr = d2.laddr /\ e.status = d2.status
      /\ e.naddr = [a \in Addrs |-> IF d2.naddr[a] = n THEN NoNeigh ELSE d2.naddr[a]]
      /\ e.orig = [d2.orig EXCEPT ![n] = NoAddr]
      /\ e.symmetric = [d2.symmetric EXCEPT ![n] = 0]
  BY <1>1, <1>5 DEF Databases
<1>7. Keeps(d, e)
  BY <1>2, <1>4, <1>6 DEF WithoutLinks, Keeps, SameView, SameAddrs
<1>8. WithoutNeighbor(d, n, e)
  BY <1>2, <1>4, <1>6 DEF WithoutNeighbor, SameView, SameAddrs, SameCounts
<1>9. WithoutLinks(d, LinksOf(d, n), e)
  BY <1>2, <1>3, <1>4, <1>6, <1>7 DEF WithoutLinks, SameView, SameAddrs, SameCounts
<1> QED
  BY <1>8, <1>9 DEF e

(* An address of the sender of a HELLO may remove another neighbor.        *)
LEMMA ProcessNeighborAddrKeeps ==
    ASSUME NEW d, Good(d), NEW c \in Sessions, c.neigh \in d.neighs, NEW a \in Addrs
    PROVE  LET r == ProcessNeighborAddr(d, c, a)
           IN  Keeps(d, r[1]) /\ r[2].countL = c.countL /\ r[2].mayGo = c.mayGo
<1> DEFINE n == d.naddr[a]
           c1 == [c EXCEPT !.countN[n] = @ - 1]
           d1 == SetNeighborAddr(d, a, c.neigh)
           d2 == IF n # c.neigh /\ c1.countN[n] = 0
                 THEN nhdp_db_neighbor_remove(d1, n) ELSE d1
           d3 == [d2 EXCEPT !.mayGo = @ \ {a}, !.lost = @ \ {a}]
           r == ProcessNeighborAddr(d, c, a)
<1>1. n \in d.neighs \cup {NoNeigh}
  BY DEF Good, Databases, ReferencesAlive
<1>2. Good(d1) /\ d1.neighs = d.neighs
  BY NeighborAddrGood
<1>3. Keeps(d, d1)
  BY DEF Good, Databases, SetNeighborAddr, Keeps
<1>4. c1.countL = c.countL /\ c1.mayGo = c.mayGo
  BY DEF Sessions
<1>5. r = IF n = NoNeigh THEN <<d1, c>> ELSE <<d3, c1>>
  BY DEF ProcessNeighborAddr
<1> HIDE DEF n, c1, d1
<1>6. n # NoNeigh => Keeps(d1, d2) /\ Good(d2)
  <2> SUFFICES ASSUME n # NoNeigh PROVE Keeps(d1, d2) /\ Good(d2)
    OBVIOUS
  <2>1. n \in d1.neighs
    BY <1>1, <1>2
  <2>2. Keeps(d1, nhdp_db_neighbor_remove(d1, n)) /\ Good(nhdp_db_neighbor_remove(d1, n))
    BY <1>2, <2>1, NeighborRemoveView, NeighborRemoveGood DEF WithoutLinks
  <2>3. Keeps(d1, d1)
    BY DEF Keeps
  <2> QED
    BY <1>2, <2>2, <2>3
<1> HIDE DEF d2
<1>7. n # NoNeigh => Keeps(d2, d3)
  BY <1>6 DEF Keeps, Good, Databases
<1> HIDE DEF d3
<1>8. n # NoNeigh => Keeps(d, d3)
  BY <1>3, <1>6, <1>7, KeepsTwice
<1> HIDE DEF r
<1>9. CASE n = NoNeigh
  <2>1. r = <<d1, c>>
    BY <1>5, <1>9
  <2> QED
    BY <1>3, <2>1 DEF r
<1>10. CASE n # NoNeigh
  <2>1. r = <<d3, c1>>
    BY <1>5, <1>10
  <2> QED
    BY <1>4, <1>8, <1>10, <2>1 DEF r
<1> QED
  BY <1>9, <1>10

(* A dropped HELLO takes the link of its session along. *)
LEMMA CleanupKeeps ==
    ASSUME NEW d, Good(d), NEW c, CleanupDefined(d, c)
    PROVE  Keeps(d, _cleanup_error(d, c)) /\ c.link \notin _cleanup_error(d, c).links
<1> DEFINE S == {c.link}
           q == nhdp_db_link_remove(d, S)
           d1 == IF c.link = NoLink THEN d ELSE q
           e == _cleanup_error(d, c)
<1>1. Good(d1) /\ d1.neighs = d.neighs /\ Keeps(d, d1) /\ c.link \notin d1.links
  <2>1. CASE c.link = NoLink
    BY <2>1, NhdpDbAssumption DEF Keeps, Good, Databases
  <2>2. CASE c.link # NoLink
    <3>1. S \subseteq d.links
      BY <2>2 DEF CleanupDefined
    <3> HIDE DEF S
    <3>2. Good(q)
      BY <3>1, LinkRemoveGood
    <3>3. Keeps(d, q) /\ q.neighs = d.neighs /\ q.links = d.links \ S
      BY <3>1, LinkRemoveKeeps
    <3> HIDE DEF q
    <3> QED BY <2>2, <3>2, <3>3 DEF S
  <2> QED BY <2>1, <2>2
<1>2. e = IF c.neigh = NoNeigh THEN d1 ELSE nhdp_db_neighbor_remove(d1, c.neigh)
  BY DEF _cleanup_error
<1> HIDE DEF d1
<1>3. c.neigh # NoNeigh => Keeps(d1, nhdp_db_neighbor_remove(d1, c.neigh))
  BY <1>1, NeighborRemoveView DEF CleanupDefined, WithoutLinks
<1>4. Keeps(d1, e)
  BY <1>2, <1>3 DEF Keeps
<1> HIDE DEF e
<1> QED
  BY <1>1, <1>4, KeepsTwice DEF Keeps, e

(***************************************************************************)
(* What the counters of a session mean.  In the first pass countL[l] is    *)
(* the number of addresses of the HELLO read so far that belong to link l, *)
(* in the second pass the number of those still to come.  A link from      *)
(* which the HELLO takes an address is removed when this reaches zero, and *)
(* has another address before.                                             *)
(***************************************************************************)
ThisAt(m, j) == m.addrs[j].lif = "this"

AtLink(m, d, l, J) ==
    {j \in J : ThisAt(m, j) /\ d.laddr[m.localif][m.addrs[j].addr] = l}

Counting(m, k, d, c) ==
    /\ k \in 1 .. Len(m.addrs) + 1
    /\ \A l \in Links : c.countL[l] = Cardinality(AtLink(m, d, l, 1 .. k - 1))
    /\ \A j \in 1 .. k - 1 : ThisAt(m, j) => c.has_thisif

Moving(m, k, d, c) ==
    /\ k \in 1 .. Len(m.addrs) + 1
    /\ \A l \in d.links : c.countL[l] = Cardinality(AtLink(m, d, l, k .. Len(m.addrs)))
    /\ \A j \in 1 .. k - 1 : ThisAt(m, j) =>
         d.laddr[m.localif][m.addrs[j].addr] = c.link /\ m.addrs[j].addr \notin c.mayGo
    /\ \A a \in c.mayGo : d.laddr[m.localif][a] = c.link

Addressed ==
    \/ undef
    \/ /\ \A l \in db.links \ Rest : HasAddr(db, l)
       /\ pc # "idle" => msg.bad = "no"
       /\ pc = "pass1" => Counting(msg, idx, db, cur)
       /\ pc = "pass2" => Moving(msg, idx, db, cur)

(* The addresses of a HELLO. *)
LEMMA AddressParts ==
    ASSUME NEW m \in Messages
    PROVE  /\ m.localif \in Ifs /\ Len(m.addrs) \in Nat
           /\ DOMAIN m.addrs = 1 .. Len(m.addrs)
           /\ \A j \in 1 .. Len(m.addrs) : m.addrs[j].addr \in Addrs
<1>1. m.localif \in Ifs /\ m.addrs \in Seq(AddressEntries)
  BY DEF Messages
<1>2. Len(m.addrs) \in Nat /\ \A j \in 1 .. Len(m.addrs) : m.addrs[j] \in AddressEntries
  BY <1>1
<1>3. \A j \in 1 .. Len(m.addrs) : m.addrs[j].addr \in Addrs
  BY <1>2 DEF AddressEntries
<1>4. DOMAIN m.addrs = 1 .. Len(m.addrs)
  BY <1>1
<1> QED
  BY <1>1, <1>2, <1>3, <1>4

(* A HELLO that names its interface has a position for it. *)
LEMMA NamedPosition ==
    ASSUME NEW m \in Messages, NamesInterface(m)
    PROVE  /\ \E j \in 1 .. Len(m.addrs) : ThisAt(m, j)
           /\ \A j, k \in 1 .. Len(m.addrs) : ThisAt(m, j) /\ ThisAt(m, k) /\ j # k
                => m.addrs[j].addr # m.addrs[k].addr
<1>1. DOMAIN m.addrs = 1 .. Len(m.addrs)
  BY AddressParts
<1>2. PICK x \in Entries(m) : x.lif = "this"
  BY DEF NamesInterface, ThisAddrs
<1>3. \E j \in 1 .. Len(m.addrs) : ThisAt(m, j)
  BY <1>1, <1>2 DEF Entries, ThisAt
<1>4. \A j, k \in 1 .. Len(m.addrs) : ThisAt(m, j) /\ ThisAt(m, k) /\ j # k
        => m.addrs[j].addr # m.addrs[k].addr
  BY <1>1 DEF NamesInterface, ThisAt
<1> QED
  BY <1>3, <1>4

(* Sets of positions are finite. *)
LEMMA PositionsFinite ==
    ASSUME NEW m, NEW d, NEW l, NEW j \in Int, NEW k \in Int
    PROVE  /\ IsFiniteSet(AtLink(m, d, l, j .. k))
           /\ Cardinality(AtLink(m, d, l, j .. k)) \in Nat
<1>1. IsFiniteSet(j .. k)
  BY FS_Interval
<1>2. AtLink(m, d, l, j .. k) \subseteq j .. k
  BY DEF AtLink
<1> HIDE DEF AtLink
<1>3. IsFiniteSet(AtLink(m, d, l, j .. k))
  BY <1>1, <1>2, FS_Subset
<1> QED
  BY <1>3, FS_CardinalityType

(* The first address of the rest is counted or not. *)
LEMMA RestCount ==
    ASSUME NEW m, NEW d, NEW l, NEW k \in Int, NEW n \in Int, k <= n
    PROVE  Cardinality(AtLink(m, d, l, k .. n)) =
             Cardinality(AtLink(m, d, l, k + 1 .. n)) +
             (IF ThisAt(m, k) /\ d.laddr[m.localif][m.addrs[k].addr] = l THEN 1 ELSE 0)
<1> DEFINE S == AtLink(m, d, l, k + 1 .. n)
           T == AtLink(m, d, l, k .. n)
           here == ThisAt(m, k) /\ d.laddr[m.localif][m.addrs[k].addr] = l
<1>1. IsFiniteSet(S) /\ Cardinality(S) \in Nat
  BY PositionsFinite
<1>2. k \notin S
  BY DEF AtLink
<1>3. here => T = S \cup {k}
  BY DEF AtLink
<1>4. ~here => T = S
  BY DEF AtLink
<1>5. Cardinality(S \cup {k}) = Cardinality(S) + 1
  <2> HIDE DEF S
  <2> QED BY <1>1, <1>2, FS_AddElement
<1> HIDE DEF S, T, here
<1>6. CASE here
  BY <1>1, <1>3, <1>5, <1>6 DEF here, S, T
<1>7. CASE ~here
  BY <1>1, <1>4, <1>7 DEF here, S, T
<1> QED
  BY <1>6, <1>7

(* The last address read is counted or not. *)
LEMMA ReadCount ==
    ASSUME NEW m, NEW d, NEW l, NEW k \in Nat, k # 0
    PROVE  Cardinality(AtLink(m, d, l, 1 .. (k + 1) - 1)) =
             Cardinality(AtLink(m, d, l, 1 .. k - 1)) +
             (IF ThisAt(m, k) /\ d.laddr[m.localif][m.addrs[k].addr] = l THEN 1 ELSE 0)
<1> DEFINE S == AtLink(m, d, l, 1 .. k - 1)
           T == AtLink(m, d, l, 1 .. (k + 1) - 1)
           here == ThisAt(m, k) /\ d.laddr[m.localif][m.addrs[k].addr] = l
<1>1. IsFiniteSet(S) /\ Cardinality(S) \in Nat
  BY PositionsFinite
<1>2. k \notin S
  BY DEF AtLink
<1>3. here => T = S \cup {k}
  BY DEF AtLink
<1>4. ~here => T = S
  BY DEF AtLink
<1>5. Cardinality(S \cup {k}) = Cardinality(S) + 1
  <2> HIDE DEF S
  <2> QED BY <1>1, <1>2, FS_AddElement
<1> HIDE DEF S, T, here
<1>6. CASE here
  BY <1>1, <1>3, <1>5, <1>6 DEF here, S, T
<1>7. CASE ~here
  BY <1>1, <1>4, <1>7 DEF here, S, T
<1> QED
  BY <1>6, <1>7

(* Removals of other links do not change what the counters mean. *)
LEMMA MovingKeeps ==
    ASSUME NEW m \in Messages, NEW k, NEW d, NEW c \in Sessions, Moving(m, k, d, c),
           NEW e, Keeps(d, e), c.link \in e.links,
           NEW f, f.countL = c.countL, f.mayGo = c.mayGo, f.link = c.link
    PROVE  Moving(m, k, e, f)
<1> DEFINE n == Len(m.addrs)
<1>1. /\ m.localif \in Ifs /\ n \in Nat /\ k \in 1 .. n + 1
      /\ \A j \in 1 .. n : m.addrs[j].addr \in Addrs
  BY AddressParts DEF Moving
<1>2. ASSUME NEW l \in e.links
      PROVE  AtLink(m, e, l, k .. n) = AtLink(m, d, l, k .. n)
  BY <1>1 DEF AtLink, Keeps
<1>3. \A l \in e.links : f.countL[l] = Cardinality(AtLink(m, e, l, k .. n))
  BY <1>2 DEF Moving, Keeps
<1>4. \A j \in 1 .. k - 1 : ThisAt(m, j) =>
         e.laddr[m.localif][m.addrs[j].addr] = f.link /\ m.addrs[j].addr \notin f.mayGo
  BY <1>1 DEF Moving, Keeps
<1>5. \A a \in f.mayGo : e.laddr[m.localif][a] = f.link
  BY <1>1 DEF Moving, Keeps, Sessions
<1> QED
  BY <1>1, <1>3, <1>4, <1>5 DEF Moving

OthersHaveAddr(d, l0) == \A l \in d.links \ {l0} : HasAddr(d, l)

(***************************************************************************)
(* An address of the interface the HELLO came from moves to the link of    *)
(* the session.  The link that had it still has one that the HELLO will    *)
(* name, or is removed.                                                    *)
(***************************************************************************)
LEMMA ProcessLinkAddrMoving ==
    ASSUME NEW d, Good(d), NEW c, msg \in Messages, NamesInterface(msg),
           LinkSession(d, c, msg.localif), NEW k, k <= Len(msg.addrs), ThisAt(msg, k),
           Moving(msg, k, d, c), OthersHaveAddr(d, c.link)
    PROVE  LET r == ProcessLinkAddr(d, c, msg.addrs[k].addr)
           IN  Moving(msg, k + 1, r[1], r[2]) /\ OthersHaveAddr(r[1], c.link)
<1> DEFINE i == msg.localif
           a == msg.addrs[k].addr
           n == Len(msg.addrs)
           l == d.laddr[i][a]
           c1 == [c EXCEPT !.countL[l] = @ - 1, !.mayGo = @ \ {a}]
           d1 == SetLinkAddr(d, i, a, c.link)
           d2 == nhdp_db_link_remove(d1, {l})
           r == ProcessLinkAddr(d, c, a)
<1>1. /\ i \in Ifs /\ n \in Nat /\ k \in 1 .. n /\ a \in Addrs
      /\ \A j \in 1 .. n : msg.addrs[j].addr \in Addrs
  BY AddressParts DEF Moving
<1>2. \A j \in 1 .. n : ThisAt(msg, j) /\ j # k => msg.addrs[j].addr # a
  BY <1>1, NamedPosition
<1>3. r = IF l = NoLink THEN <<d1, c>>
          ELSE IF l = c.link THEN <<d, c1>>
          ELSE IF c1.countL[l] = 0 THEN <<d2, c1>> ELSE <<d1, c1>>
  BY DEF ProcessLinkAddr
<1>4. l # NoLink => l \in d.links /\ l \in Links /\ d.localif[l] = i
  BY <1>1 DEF Good, Databases, ReferencesAlive
<1>5. c \in Sessions /\ c.link \in d.links /\ c.link # NoLink /\ d.localif[c.link] = i
      /\ d.links \subseteq Links
  BY NhdpDbAssumption DEF LinkSession, Good, Databases
<1>6. /\ Good(d1) /\ d1.links = d.links /\ d1.localif = d.localif
      /\ \A j \in Ifs, b \in Addrs :
           d1.laddr[j][b] = IF j = i /\ b = a THEN c.link ELSE d.laddr[j][b]
  <2>1. Good(d1) /\ d1.links = d.links /\ d1.localif = d.localif
    BY <1>1, <1>5, SetLinkAddrGood
  <2>2. d1.laddr = [d.laddr EXCEPT ![i] = [@ EXCEPT ![a] = c.link]]
    BY DEF SetLinkAddr, Good, Databases
  <2> HIDE DEF d1
  <2> QED BY <1>1, <2>1, <2>2 DEF Good, Databases
<1>7. ASSUME l # NoLink
      PROVE  /\ c1 \in Sessions /\ c1.link = c.link /\ c1.mayGo = c.mayGo \ {a}
             /\ \A x \in Links : c1.countL[x] = IF x = l THEN c.countL[x] - 1 ELSE c.countL[x]
  <2> HIDE DEF l
  <2> DEFINE cl == [c.countL EXCEPT ![l] = @ - 1]
  <2>1. /\ cl \in [Links -> Int]
        /\ \A x \in Links : cl[x] = IF x = l THEN c.countL[x] - 1 ELSE c.countL[x]
    BY <1>4, <1>5, <1>7 DEF Sessions
  <2>2. c1 = [c EXCEPT !.countL = cl, !.mayGo = @ \ {a}]
    OBVIOUS
  <2> HIDE DEF cl, c1
  <2> QED BY <1>5, <2>1, <2>2 DEF Sessions
<1> HIDE DEF c1, d1, r
<1>8. ASSUME NEW x
      PROVE  /\ Cardinality(AtLink(msg, d, x, k + 1 .. n)) \in Nat
             /\ AtLink(msg, d1, x, k + 1 .. n) = AtLink(msg, d, x, k + 1 .. n)
             /\ Cardinality(AtLink(msg, d, x, k .. n)) =
                  Cardinality(AtLink(msg, d, x, k + 1 .. n)) + (IF x = l THEN 1 ELSE 0)
  <2>1. AtLink(msg, d1, x, k + 1 .. n) = AtLink(msg, d, x, k + 1 .. n)
    <3>1. \A j \in k + 1 .. n : ThisAt(msg, j) =>
            d1.laddr[i][msg.addrs[j].addr] = d.laddr[i][msg.addrs[j].addr]
      BY <1>1, <1>2, <1>6
    <3> QED BY <3>1 DEF AtLink
  <2>2. Cardinality(AtLink(msg, d, x, k .. n)) =
          Cardinality(AtLink(msg, d, x, k + 1 .. n)) + (IF x = l THEN 1 ELSE 0)
    BY <1>1, RestCount
  <2> QED BY <1>1, <2>1, <2>2, PositionsFinite
<1> HIDE DEF l
<1>9. /\ \A x \in d.links : c.countL[x] =
             Cardinality(AtLink(msg, d, x, k + 1 .. n)) + (IF x = l THEN 1 ELSE 0)
      /\ \A j \in 1 .. k - 1 : ThisAt(msg, j) =>
           d.laddr[i][msg.addrs[j].addr] = c.link /\ msg.addrs[j].addr \notin c.mayGo
      /\ \A b \in c.mayGo : d.laddr[i][b] = c.link
      /\ c.mayGo \subseteq Addrs
  BY <1>5, <1>8 DEF Moving, Sessions
<1>10. CASE l = NoLink
  <2>1. r = <<d1, c>>
    BY <1>3, <1>10
  <2>2. a \notin c.mayGo
    BY <1>5, <1>9, <1>10 DEF l
  <2>3. \A x \in d1.links : c.countL[x] = Cardinality(AtLink(msg, d1, x, k + 1 .. n))
    BY <1>5, <1>6, <1>8, <1>9, <1>10, NhdpDbAssumption
  <2>4. Moving(msg, k + 1, d1, c)
    BY <1>1, <1>6, <1>9, <2>2, <2>3 DEF Moving
  <2>5. OthersHaveAddr(d1, c.link)
    <3> SUFFICES ASSUME NEW x \in d.links, x # c.link, x # l PROVE HasAddr(d1, x)
      BY <1>5, <1>6, <1>10, NhdpDbAssumption DEF OthersHaveAddr
    <3>1. d.localif[x] \in Ifs
      BY <1>5 DEF Good, Databases
    <3>2. PICK b \in Addrs : d.laddr[d.localif[x]][b] = x
      BY DEF OthersHaveAddr, HasAddr
    <3>3. d1.laddr[d.localif[x]][b] = x
      BY <1>6, <3>1, <3>2 DEF l
    <3> QED BY <1>6, <3>3 DEF HasAddr
  <2> QED BY <2>1, <2>4, <2>5 DEF r
<1>11. CASE l # NoLink /\ l = c.link
  <2>1. r = <<d, c1>>
    BY <1>3, <1>11
  <2>2. \A x \in d.links : c1.countL[x] = Cardinality(AtLink(msg, d, x, k + 1 .. n))
    BY <1>5, <1>7, <1>8, <1>9, <1>11
  <2>3. Moving(msg, k + 1, d, c1)
    BY <1>1, <1>7, <1>9, <1>11, <2>2 DEF Moving, l
  <2> QED BY <2>1, <2>3 DEF r
<1>12. CASE l # NoLink /\ l # c.link
  <2>1. r = <<d2, c1>> \/ (r = <<d1, c1>> /\ c1.countL[l] # 0)
    BY <1>3, <1>12
  <2>2. \A x \in d1.links : c1.countL[x] = Cardinality(AtLink(msg, d1, x, k + 1 .. n))
    BY <1>4, <1>5, <1>6, <1>7, <1>8, <1>9, <1>12
  <2>3. Moving(msg, k + 1, d1, c1)
    BY <1>1, <1>2, <1>6, <1>7, <1>9, <1>12, <2>2 DEF Moving
  <2>4. \A x \in d1.links \ {c.link, l} : HasAddr(d1, x)
    <3> SUFFICES ASSUME NEW x \in d.links, x # c.link, x # l PROVE HasAddr(d1, x)
      BY <1>6 DEF OthersHaveAddr
    <3>1. d.localif[x] \in Ifs
      BY <1>5 DEF Good, Databases
    <3>2. PICK b \in Addrs : d.laddr[d.localif[x]][b] = x
      BY DEF OthersHaveAddr, HasAddr
    <3>3. d1.laddr[d.localif[x]][b] = x
      BY <1>6, <3>1, <3>2 DEF l
    <3> QED BY <1>6, <3>3 DEF HasAddr
  <2>5. CASE r = <<d1, c1>> /\ c1.countL[l] # 0
    <3>1. AtLink(msg, d1, l, k + 1 .. n) # {}
      BY <1>4, <1>6, <1>12, <2>2, <2>5, FS_EmptySet
    <3>2. PICK j \in k + 1 .. n : d1.laddr[i][msg.addrs[j].addr] = l
      BY <3>1 DEF AtLink
    <3>3. HasAddr(d1, l)
      BY <1>1, <1>4, <1>6, <1>12, <3>2 DEF HasAddr
    <3>4. OthersHaveAddr(d1, c.link)
      BY <2>4, <3>3 DEF OthersHaveAddr
    <3> QED BY <2>3, <2>5, <3>4 DEF r
  <2>6. CASE r = <<d2, c1>>
    <3> DEFINE S == {l}
    <3>1. S \subseteq d1.links
      BY <1>4, <1>6, <1>12
    <3>2. d2 = nhdp_db_link_remove(d1, S)
      OBVIOUS
    <3> HIDE DEF S, d2
    <3>3. Keeps(d1, d2) /\ d2.links = d1.links \ S
      BY <1>6, <3>1, <3>2, LinkRemoveKeeps
    <3>4. c.link \in d2.links
      BY <1>5, <1>6, <1>12, <3>3 DEF S
    <3>5. Moving(msg, k + 1, d2, c1)
      BY <1>7, <1>12, <2>3, <3>3, <3>4, MovingKeeps
    <3>6. OthersHaveAddr(d2, c.link)
      BY <1>6, <2>4, <3>3, KeepsAddr DEF OthersHaveAddr, S
    <3> QED BY <2>6, <3>5, <3>6 DEF r
  <2> QED BY <2>1, <2>5, <2>6
<1> QED
  BY <1>10, <1>11, <1>12 DEF r

(* What keeps the addresses keeps those of the other links. *)
LEMMA KeepsOthers ==
    ASSUME NEW d, Good(d), NEW e, Keeps(d, e), NEW l0, OthersHaveAddr(d, l0)
    PROVE  OthersHaveAddr(e, l0)
BY KeepsAddr DEF OthersHaveAddr, Keeps

(* One address of the sender, of this or another interface of it. *)
LEMMA ProcessLocalifMoving ==
    ASSUME NEW d, Good(d), NEW c, msg \in Messages, NamesInterface(msg),
           LinkSession(d, c, msg.localif), c.neigh \in d.neighs,
           NEW k, k <= Len(msg.addrs), Moving(msg, k, d, c), OthersHaveAddr(d, c.link),
           NEW f, NEW g, <<f, g>> = _pass2_process_localif(d, c, msg.addrs[k].addr, msg.addrs[k].lif),
           SessionAlive(f, g)
    PROVE  Moving(msg, k + 1, f, g) /\ OthersHaveAddr(f, c.link)
<1> DEFINE x == msg.addrs[k]
           q == IF x.lif = "this" THEN ProcessLinkAddr(d, c, x.addr) ELSE <<d, c>>
<1>1. /\ msg.localif \in Ifs /\ Len(msg.addrs) \in Nat /\ k \in 1 .. Len(msg.addrs)
      /\ x.addr \in Addrs
  BY AddressParts DEF Moving
<1>2. /\ Good(q[1]) /\ q[1].neighs = d.neighs /\ q[2].neigh = c.neigh /\ q[2].link = c.link
      /\ q[2] \in Sessions /\ Moving(msg, k + 1, q[1], q[2]) /\ OthersHaveAddr(q[1], c.link)
  <2>1. CASE x.lif = "this"
    <3>1. q = ProcessLinkAddr(d, c, x.addr)
      BY <2>1
    <3> HIDE DEF q
    <3>2. Moving(msg, k + 1, q[1], q[2]) /\ OthersHaveAddr(q[1], c.link)
      BY <1>1, <2>1, <3>1, ProcessLinkAddrMoving DEF ThisAt
    <3> QED BY <1>1, <3>1, <3>2, ProcessLinkAddrGood DEF LinkSession
  <2>2. CASE x.lif # "this"
    <3>1. q = <<d, c>>
      BY <2>2
    <3> HIDE DEF q
    <3>2. \A l : Cardinality(AtLink(msg, d, l, k + 1 .. Len(msg.addrs))) \in Nat
      BY <1>1, PositionsFinite
    <3>3. \A l : Cardinality(AtLink(msg, d, l, k .. Len(msg.addrs))) =
                   Cardinality(AtLink(msg, d, l, k + 1 .. Len(msg.addrs)))
      BY <1>1, <2>2, <3>2, RestCount DEF ThisAt
    <3>4. Moving(msg, k + 1, d, c)
      BY <1>1, <2>2, <3>3 DEF Moving, ThisAt
    <3> QED BY <3>1, <3>4 DEF LinkSession
  <2> QED BY <2>1, <2>2
<1>3. <<f, g>> = ProcessNeighborAddr(q[1], q[2], x.addr)
  BY DEF _pass2_process_localif
<1> DEFINE d1 == q[1]
           c1 == q[2]
           r == ProcessNeighborAddr(d1, c1, x.addr)
<1> HIDE DEF q, d1, c1
<1>4. r = <<f, g>>
  BY <1>3 DEF d1, c1
<1>5. Keeps(d1, r[1]) /\ r[2].countL = c1.countL /\ r[2].mayGo = c1.mayGo /\ r[2].link = c1.link
  BY <1>1, <1>2, ProcessNeighborAddrKeeps, ProcessNeighborAddrGood DEF d1, c1
<1> HIDE DEF r, x
<1>6. Keeps(d1, f) /\ g.countL = c1.countL /\ g.mayGo = c1.mayGo /\ g.link = c1.link
  BY <1>4, <1>5
<1>7. c1.link \in f.links
  BY <1>6 DEF SessionAlive
<1>8. Moving(msg, k + 1, f, g)
  BY <1>2, <1>6, <1>7, MovingKeeps DEF d1, c1
<1>9. OthersHaveAddr(f, c.link)
  BY <1>2, <1>6, KeepsOthers DEF d1, c1
<1> QED
  BY <1>8, <1>9

(* _handle_originator changes originators only. *)
LEMMA HandleOriginatorAddrs ==
    ASSUME NEW d, Good(d), NEW c
    PROVE  LET e == _handle_originator(d, c) IN SameAddrs(d, e) /\ SameCounts(d, e)
<1> DEFINE n == OriginatorNeighbor(d, c)
           e1 == nhdp_db_neighbor_set_originator(d, n, NoAddr)
           e == _handle_originator(d, c)
<1>1. n \in d.neighs \cup {NoNeigh} /\ d.neighs \subseteq Neighs
  BY LookupsAlive DEF OriginatorNeighbor, Good, Databases
<1>2. e = d \/ (n # NoNeigh /\ e = e1)
  BY DEF _handle_originator
<1> HIDE DEF n, e
<1>3. n # NoNeigh => SameAddrs(d, e1) /\ SameCounts(d, e1)
  BY <1>1, SetOriginatorAddrs DEF Good
<1> HIDE DEF e1
<1>4. SameAddrs(d, e) /\ SameCounts(d, e)
  BY <1>2, <1>3 DEF SameAddrs, SameCounts
<1> QED
  BY <1>4 DEF e

(* Database e is d with neighbor n and a link l to it on interface i, each *)
(* new or not. *)
Extended(d, n, l, i, e) ==
    /\ e.neighs = d.neighs \cup {n} /\ e.links = d.links \cup {l}
    /\ e.naddr = d.naddr /\ e.laddr = d.laddr /\ SameCounts(d, e)
    /\ e.neigh = IF l \in d.links THEN d.neigh ELSE [d.neigh EXCEPT ![l] = n]
    /\ e.localif = IF l \in d.links THEN d.localif ELSE [d.localif EXCEPT ![l] = i]

(* The allocations *)
LEMMA WithNeighborView ==
    ASSUME NEW d, d \in Databases, NEW n \in Neighs
    PROVE  LET e == WithNeighbor(d, n)
           IN  /\ e.neighs = d.neighs \cup {n} /\ e.naddr = d.naddr /\ e.links = d.links
               /\ e.neigh = d.neigh /\ e.localif = d.localif /\ e.laddr = d.laddr
               /\ SameCounts(d, e) /\ e.orig = d.orig
<1>1. CASE n \in d.neighs
  <2>1. WithNeighbor(d, n) = MarkNeighborAddrs(d, n)
    BY <1>1 DEF WithNeighbor
  <2>2. SameView(d, MarkNeighborAddrs(d, n))
    BY DataView
  <2> QED
    BY <1>1, <2>1, <2>2 DEF SameView, SameAddrs
<1>2. CASE n \notin d.neighs
  BY <1>2 DEF WithNeighbor, nhdp_db_neighbor_add, SameCounts, Databases
<1> QED
  BY <1>1, <1>2

(* A new link gets its neighbor and interface. *)
LEMMA WithLinkView ==
    ASSUME NEW d, d \in Databases, NEW n \in d.neighs, NEW l \in Links, msg.localif \in Ifs
    PROVE  LET e == WithLink(d, n, l)
           IN  Extended(d, n, l, msg.localif, e) /\ e.orig = d.orig
<1>1. CASE l \in d.links
  BY <1>1 DEF WithLink, Extended, SameCounts
<1>2. CASE l \notin d.links
  <2> DEFINE lo == IF d.orig[n] # NoAddr THEN d.linkOrigs \cup {l} ELSE d.linkOrigs
             e == [d EXCEPT !.links = @ \cup {l}, !.neigh[l] = n, !.localif[l] = msg.localif,
                            !.linkOrigs = lo]
  <2>1. WithLink(d, n, l) = e
    BY <1>2 DEF WithLink, nhdp_db_link_add
  <2> HIDE DEF lo
  <2>2. /\ e.links = d.links \cup {l} /\ e.neigh = [d.neigh EXCEPT ![l] = n]
        /\ e.localif = [d.localif EXCEPT ![l] = msg.localif] /\ e.neighs = d.neighs
        /\ e.naddr = d.naddr /\ e.laddr = d.laddr /\ e.status = d.status
        /\ e.symmetric = d.symmetric /\ e.orig = d.orig
    BY DEF Databases
  <2> HIDE DEF e
  <2>3. Extended(d, n, l, msg.localif, e) /\ e.orig = d.orig
    BY <1>2, <2>2 DEF Extended, SameCounts
  <2> QED
    BY <2>1, <2>3
<1> QED
  BY <1>1, <1>2

(***************************************************************************)
(* The end of the first pass of a HELLO that names its interface: without  *)
(* memory nothing but originators and a new neighbor; else the second pass *)
(* starts on a database with the neighbor and the link of the session.     *)
(***************************************************************************)
LEMMA Pass1EndView ==
    ASSUME IInv, _cb_addresstlvs_pass1_end, cur.has_thisif
    PROVE  \E n \in Pass1Neighbors(db, cur), l \in Pass1Links(db, cur) :
             \/ undef'
             \/ /\ n = NoNeigh /\ pc' = "idle" /\ SameAddrs(db, db')
                /\ db' = _handle_originator(db, cur)
                /\ cur'.neigh = NoNeigh /\ cur'.link = cur.link
             \/ /\ n # NoNeigh /\ l = NoLink /\ pc' = "idle" /\ db'.links = db.links
                /\ db'.localif = db.localif /\ db'.laddr = db.laddr
             \/ /\ n \in Neighs /\ l \in Links /\ pc' = "pass2" /\ idx' = 1 /\ msg' = msg
                /\ Extended(db, n, l, msg.localif, db')
                /\ db'.orig = _handle_originator(db, cur).orig
                /\ cur' = [cur EXCEPT !.neigh = n, !.link = l, !.mayGo = LinkAddrsOf(db, l)]
<1> DEFINE d1 == _handle_originator(db, cur)
           O == d1.orig
<1>0. /\ pc = "pass1" /\ SessionFits(db, cur, msg.localif) /\ Good(db) /\ TypeOK
      /\ msg.localif \in Ifs /\ cur \in Sessions
  BY MessageFacts DEF _cb_addresstlvs_pass1_end, IInv, SessionFits
<1>1. Good(d1) /\ SameAddrs(db, d1) /\ SameCounts(db, d1)
  BY <1>0, HandleOriginatorGood, HandleOriginatorAddrs
<1>2. PICK n \in Pass1Neighbors(db, cur), l \in Pass1Links(db, cur) :
             IF n = NoNeigh THEN OutOfMemory(d1, n)
             ELSE IF l = NoLink THEN OutOfMemory(WithNeighbor(d1, n), n)
             ELSE FinishPass1(WithLink(WithNeighbor(d1, n), n, l),
                    [cur EXCEPT !.neigh = n, !.link = l, !.mayGo = LinkAddrsOf(db, l)])
  BY DEF _cb_addresstlvs_pass1_end
<1>3. db.neighs \subseteq Neighs /\ db.links \subseteq Links
  BY <1>0 DEF Good, Databases
<1>4. n \in Neighs \cup {NoNeigh}
  BY <1>0, <1>3, LookupsAlive
     DEF Pass1Neighbors, SessionFits, OriginatorNeighbor, TakesOriginatorNeighbor, FreeOr
<1>5. l \in Links \cup {NoLink}
  BY <1>0, <1>3, NhdpDbAssumption DEF Pass1Links, SessionFits, FreeOr
<1> HIDE DEF d1, O
<1> SUFFICES
             \/ undef'
             \/ /\ n = NoNeigh /\ pc' = "idle" /\ SameAddrs(db, db')
                /\ db' = d1
                /\ cur'.neigh = NoNeigh /\ cur'.link = cur.link
             \/ /\ n # NoNeigh /\ l = NoLink /\ pc' = "idle" /\ db'.links = db.links
                /\ db'.localif = db.localif /\ db'.laddr = db.laddr
             \/ /\ n \in Neighs /\ l \in Links /\ pc' = "pass2" /\ idx' = 1 /\ msg' = msg
                /\ Extended(db, n, l, msg.localif, db')
                /\ db'.orig = O
                /\ cur' = [cur EXCEPT !.neigh = n, !.link = l, !.mayGo = LinkAddrsOf(db, l)]
  BY <1>2 DEF O, d1
<1>7. CASE n = NoNeigh
  <2>1. db' = d1 /\ pc' = "idle"
    BY <1>2, <1>7 DEF OutOfMemory, EndMessage
  <2>2. cur' = [EmptySession EXCEPT !.neigh = [cur EXCEPT !.neigh = n, !.link = @].neigh,
                                   !.link = [cur EXCEPT !.neigh = n, !.link = @].link]
    BY <1>2, <1>7 DEF OutOfMemory, EndMessage
  <2>3. cur'.neigh = NoNeigh /\ cur'.link = cur.link
    BY <1>0, <1>7, <2>2 DEF EmptySession, Sessions
  <2> QED
    BY <1>1, <1>7, <2>1, <2>3
<1> DEFINE d2 == WithNeighbor(d1, n)
           d3 == WithLink(d2, n, l)
           c3 == [cur EXCEPT !.neigh = n, !.link = l, !.mayGo = LinkAddrsOf(db, l)]
<1>8. ASSUME n # NoNeigh
      PROVE  /\ Good(d2) /\ d2.neighs = db.neighs \cup {n} /\ d2.naddr = db.naddr
             /\ d2.links = db.links /\ d2.neigh = db.neigh /\ d2.localif = db.localif
             /\ d2.laddr = db.laddr /\ SameCounts(db, d2) /\ d2.orig = O
  <2>1. Good(d2)
    BY <1>1, <1>4, <1>8, WithNeighborGood
  <2>2. /\ d2.neighs = d1.neighs \cup {n} /\ d2.naddr = d1.naddr /\ d2.links = d1.links
        /\ d2.neigh = d1.neigh /\ d2.localif = d1.localif /\ d2.laddr = d1.laddr
        /\ SameCounts(d1, d2) /\ d2.orig = d1.orig
    BY <1>1, <1>4, <1>8, WithNeighborView DEF Good
  <2> HIDE DEF d2
  <2> QED
    BY <1>1, <2>1, <2>2 DEF SameAddrs, SameCounts, O
<1>9. CASE n # NoNeigh /\ l = NoLink
  BY <1>2, <1>8, <1>9 DEF OutOfMemory, EndMessage
<1>10. CASE n # NoNeigh /\ l # NoLink
  <2> HIDE DEF d2
  <2>1. Good(d2) /\ n \in d2.neighs /\ d2.links = db.links /\ d2.localif = db.localif
    BY <1>8, <1>10
  <2>2. n \in Neighs /\ l \in Links /\ (l \in db.links => db.localif[l] = msg.localif)
    BY <1>0, <1>3, <1>4, <1>5, <1>10, NhdpDbAssumption DEF Pass1Links, SessionFits, FreeOr
  <2>3. Good(d3) /\ n \in d3.neighs /\ l \in d3.links
    BY <1>0, <2>1, <2>2, WithLinkGood
  <2>4. Extended(d2, n, l, msg.localif, d3) /\ d3.orig = d2.orig
    BY <1>0, <2>1, <2>2, WithLinkView DEF Good
  <2> HIDE DEF d3
  <2>5. Extended(db, n, l, msg.localif, d3) /\ d3.orig = O
    BY <1>8, <1>10, <2>4 DEF Extended, SameCounts
  <2>6. c3.neigh = n /\ c3.link = l /\ c3.has_thisif
    <3> DEFINE mg == LinkAddrsOf(db, l)
    <3>1. c3 = [cur EXCEPT !.neigh = n, !.link = l, !.mayGo = mg]
      OBVIOUS
    <3> HIDE DEF mg, c3
    <3> QED
      BY <1>0, <3>1 DEF Sessions
  <2>7. FinishPass1(d3, c3)
    BY <1>2, <1>10 DEF d2, d3
  <2> HIDE DEF c3
  <2>8. SessionAlive(d3, c3)
    BY <2>3, <2>6 DEF SessionAlive
  <2>9. PICK h \in HystValues, l2 \in DualstackLinks(d3) :
             /\ db' = HandleDualstack([d3 EXCEPT !.hyst[c3.link] = h], c3, l2)
             /\ cur' = c3
             /\ pc' = "pass2" /\ idx' = 1
             /\ UNCHANGED <<msg, undef>>
    <3> DEFINE r == IF c3.has_thisif THEN <<d3, c3>>
                    ELSE _pass2_process_localif(d3, c3, msg.src, "this")
    <3>1. r = <<d3, c3>>
      BY <2>6
    <3>2. IF ~SessionAlive(r[1], c3) THEN UseOfFreedObject
          ELSE \E h \in HystValues, l2 \in DualstackLinks(r[1]) :
             /\ db' = HandleDualstack([r[1] EXCEPT !.hyst[c3.link] = h], c3, l2)
             /\ cur' = r[2]
             /\ pc' = "pass2" /\ idx' = 1
             /\ UNCHANGED <<msg, undef>>
      BY <2>7 DEF FinishPass1
    <3> HIDE DEF r
    <3> QED
      BY <2>8, <3>1, <3>2
  <2> DEFINE f1 == [d3 EXCEPT !.hyst[c3.link] = h]
  <2>10. Good(f1) /\ SameStructure(d3, f1)
    BY <2>3, <2>6, NhdpAssumption, HystGood
  <2>11. SameView(d3, f1)
    <3> DEFINE hy == [d3.hyst EXCEPT ![c3.link] = h]
    <3>1. f1 = [d3 EXCEPT !.hyst = hy]
      OBVIOUS
    <3> HIDE DEF hy
    <3> QED
      BY <2>3, <3>1, DataView DEF Good
  <2>12. l2 \in f1.links \cup {NoLink}
    BY <2>3, <2>10, LookupsAlive DEF SameStructure
  <2>13. db' = HandleDualstack(f1, c3, l2)
    BY <2>9
  <2> HIDE DEF f1
  <2>14. c3.neigh \in f1.neighs /\ c3.link \in f1.links
    BY <2>3, <2>6, <2>10 DEF SameStructure
  <2>15. Good(db')
    BY <2>10, <2>12, <2>13, <2>14, HandleDualstackGood
  <2>16. SameView(f1, db')
    BY <2>10, <2>13, <2>15, HandleDualstackView DEF Good
  <2>17. SameView(d3, db')
    BY <2>11, <2>16, SameTwice
  <2>18. Extended(db, n, l, msg.localif, db') /\ db'.orig = O
    BY <2>5, <2>17 DEF Extended, SameView, SameAddrs, SameCounts
  <2> QED
    BY <2>2, <2>9, <2>18 DEF c3
<1> QED
  BY <1>7, <1>9, <1>10

-----------------------------------------------------------------------------
(* The counters of symmetric links *)
SymLinks(d, n) == {l \in LinksOf(d, n) : d.status[l] = "SYMMETRIC"}

(* Memory that is not allocated counts nothing. *)
Blank(d) ==
    /\ \A n \in Neighs \ d.neighs : d.symmetric[n] = 0
    /\ \A l \in Links \ d.links : d.status[l] = "LOST"

Counted(d) == SymmetricCountExact(d) /\ Blank(d)

(* There are finitely many symmetric links. *)
LEMMA SymFinite ==
    ASSUME NEW d, d \in Databases, NEW n
    PROVE  IsFiniteSet(SymLinks(d, n)) /\ Cardinality(SymLinks(d, n)) \in Nat
<1>1. SymLinks(d, n) \subseteq Links
  BY DEF SymLinks, LinksOf, Databases
<1>2. IsFiniteSet(SymLinks(d, n))
  BY <1>1, NhdpDbAssumption, FS_Subset
<1> QED
  BY <1>2, FS_CardinalityType

(* The counters of all neighbors, written with SymLinks *)
LEMMA CountedSym ==
    ASSUME NEW d
    PROVE  SymmetricCountExact(d) <=>
             \A n \in d.neighs : d.symmetric[n] = Cardinality(SymLinks(d, n))
BY DEF SymmetricCountExact, SymLinks

(* Equal parts, equal counters *)
LEMMA CountedSame ==
    ASSUME NEW d, NEW e, SameCounts(d, e), e.neighs = d.neighs, e.links = d.links,
           e.neigh = d.neigh, Counted(d)
    PROVE  Counted(e)
<1>1. \A n : SymLinks(e, n) = SymLinks(d, n)
  BY DEF SymLinks, LinksOf, SameCounts
<1>2. SymmetricCountExact(e)
  BY <1>1, CountedSym DEF Counted, SameCounts
<1> QED
  BY <1>2 DEF Counted, Blank, SameCounts

(***************************************************************************)
(* A change of the status of link l with the change of the counter that    *)
(* belongs to it keeps the counters right.                                 *)
(***************************************************************************)
LEMMA CountedChange ==
    ASSUME NEW d, Good(d), NEW l \in d.links, NEW s, NEW k, NEW e,
           e.neighs = d.neighs, e.links = d.links, e.neigh = d.neigh,
           e.status = [d.status EXCEPT ![l] = s],
           e.symmetric = [d.symmetric EXCEPT ![d.neigh[l]] = k],
           s = "SYMMETRIC" /\ d.status[l] # "SYMMETRIC" => k = d.symmetric[d.neigh[l]] + 1,
           s # "SYMMETRIC" /\ d.status[l] = "SYMMETRIC" => k = d.symmetric[d.neigh[l]] - 1,
           (s = "SYMMETRIC" <=> d.status[l] = "SYMMETRIC") => k = d.symmetric[d.neigh[l]],
           Counted(d)
    PROVE  Counted(e)
<1> DEFINE n == d.neigh[l]
           S == SymLinks(d, n) \ {l}
<1>1. /\ l \in Links /\ d.links \subseteq Links /\ n \in d.neighs /\ d.neighs \subseteq Neighs
      /\ d.status \in [Links -> LinkStatus] /\ d.symmetric \in [Neighs -> Int]
  BY DEF Good, Databases, ReferencesAlive
<1>2. \A m : m # n => SymLinks(e, m) = SymLinks(d, m)
  BY <1>1 DEF SymLinks, LinksOf
<1>3. /\ d.status[l] = "SYMMETRIC" => SymLinks(d, n) = S \cup {l}
      /\ d.status[l] # "SYMMETRIC" => SymLinks(d, n) = S
      /\ s = "SYMMETRIC" => SymLinks(e, n) = S \cup {l}
      /\ s # "SYMMETRIC" => SymLinks(e, n) = S
  BY <1>1 DEF SymLinks, LinksOf
<1>4. IsFiniteSet(S) /\ Cardinality(S) \in Nat /\ Cardinality(S \cup {l}) = Cardinality(S) + 1
  <2>1. IsFiniteSet(SymLinks(d, n))
    BY SymFinite DEF Good
  <2>2. IsFiniteSet(S)
    BY <2>1, FS_Subset
  <2>3. l \notin S
    OBVIOUS
  <2> HIDE DEF S
  <2> QED
    BY <2>2, <2>3, FS_CardinalityType, FS_AddElement
<1>5. d.symmetric[n] = Cardinality(SymLinks(d, n))
  BY <1>1, CountedSym DEF Counted
<1> HIDE DEF S, n
<1>6. e.symmetric[n] = Cardinality(SymLinks(e, n))
  <2>1. e.symmetric[n] = k
    BY <1>1 DEF n
  <2>2. CASE s = "SYMMETRIC" /\ d.status[l] # "SYMMETRIC"
    BY <1>3, <1>4, <1>5, <2>1, <2>2 DEF n
  <2>3. CASE s # "SYMMETRIC" /\ d.status[l] = "SYMMETRIC"
    <3>1. d.symmetric[n] = Cardinality(S) + 1 /\ SymLinks(e, n) = S
      BY <1>3, <1>4, <1>5, <2>3
    <3>2. k = d.symmetric[n] - 1
      BY <2>3 DEF n
    <3> QED
      BY <1>4, <2>1, <3>1, <3>2
  <2>4. CASE s = "SYMMETRIC" <=> d.status[l] = "SYMMETRIC"
    BY <1>3, <1>4, <1>5, <2>1, <2>4 DEF n
  <2> QED
    BY <2>2, <2>3, <2>4
<1>7. \A m \in d.neighs : m # n => e.symmetric[m] = Cardinality(SymLinks(e, m))
  BY <1>1, <1>2, CountedSym DEF Counted, n
<1>8. SymmetricCountExact(e)
  BY <1>6, <1>7, CountedSym
<1>9. Blank(e)
  BY <1>1 DEF Counted, Blank, n
<1> QED
  BY <1>8, <1>9 DEF Counted

(* nhdp_db_link_update_status counts. *)
LEMMA UpdateStatusCounted ==
    ASSUME NEW d, Good(d), NEW l \in d.links, Counted(d)
    PROVE  Counted(nhdp_db_link_update_status(d, l))
<1> DEFINE now == CalculateStatus(d, l)
           n == d.neigh[l]
           st == [d.status EXCEPT ![l] = now]
           d1 == [d EXCEPT !.status = st]
           e == nhdp_db_link_update_status(d, l)
<1>1. e = IF d.status[l] = "SYMMETRIC" /\ now # "SYMMETRIC"
          THEN _link_status_not_symmetric_anymore(d1, l)
          ELSE IF ~(d.status[l] = "SYMMETRIC") /\ now = "SYMMETRIC"
          THEN _link_status_now_symmetric(d1, l)
          ELSE d1
  BY DEF nhdp_db_link_update_status
<1>2. e.neighs = d.neighs /\ e.links = d.links /\ e.neigh = d.neigh
  BY UpdateStatusGood DEF SameStructure
<1>3. n \in Neighs /\ d.symmetric \in [Neighs -> Int]
  BY DEF Good, Databases, ReferencesAlive
<1>4. d1.symmetric = d.symmetric /\ d1.status = st /\ d1.neigh = d.neigh
  BY DEF Good, Databases
<1>5. /\ DOMAIN d1 = DOMAIN d
      /\ "twohop" \in DOMAIN d /\ "lost" \in DOMAIN d /\ "symmetric" \in DOMAIN d /\ "status" \in DOMAIN d
  BY DEF Good, Databases
<1> HIDE DEF d1, now
<1>6. CASE d.status[l] = "SYMMETRIC" /\ now # "SYMMETRIC"
  <2>1. e = _link_status_not_symmetric_anymore(d1, l)
    BY <1>1, <1>6
  <2>2. e.status = st /\ e.symmetric = [d.symmetric EXCEPT ![n] = @ - 1]
    BY <1>4, <1>5, <2>1 DEF _link_status_not_symmetric_anymore
  <2> HIDE DEF e
  <2>3. Counted(e)
    BY <1>2, <1>6, <2>2, CountedChange
  <2> QED
    BY <2>3 DEF e
<1>7. CASE d.status[l] # "SYMMETRIC" /\ now = "SYMMETRIC"
  <2>1. e = _link_status_now_symmetric(d1, l)
    BY <1>1, <1>7
  <2>2. e.status = st /\ e.symmetric = [d.symmetric EXCEPT ![n] = @ + 1]
    BY <1>4, <1>5, <2>1 DEF _link_status_now_symmetric
  <2> HIDE DEF e
  <2>3. Counted(e)
    BY <1>2, <1>7, <2>2, CountedChange
  <2> QED
    BY <2>3 DEF e
<1>8. CASE d.status[l] = "SYMMETRIC" <=> now = "SYMMETRIC"
  <2>1. e = d1
    BY <1>1, <1>8
  <2>2. e.status = st /\ e.symmetric = [d.symmetric EXCEPT ![n] = @]
    BY <1>3, <1>4, <2>1
  <2> HIDE DEF e
  <2>3. Counted(e)
    BY <1>2, <1>8, <2>2, CountedChange
  <2> QED
    BY <2>3 DEF e
<1> QED
  BY <1>6, <1>7, <1>8

(* A link that stops being symmetric is counted no more. *)
LEMMA NotSymmetricView ==
    ASSUME NEW d, Good(d), NEW l
    PROVE  LET e == _link_status_not_symmetric_anymore(d, l)
           IN  e.status = d.status /\ e.symmetric = [d.symmetric EXCEPT ![d.neigh[l]] = @ - 1]
BY DEF _link_status_not_symmetric_anymore, Good, Databases

(* The leftovers that are removed *)
LEMMA RemoveLeftoversView ==
    ASSUME NEW d, d \in Databases, NEW c, msg.localif \in Ifs
    PROVE  LET e == RemoveLeftovers(d, c)
           IN  /\ e.neighs = d.neighs /\ e.naddr = d.naddr /\ e.links = d.links
               /\ e.neigh = d.neigh /\ e.localif = d.localif /\ e.orig = d.orig
               /\ SameCounts(d, e)
               /\ \A i \in Ifs, a \in Addrs : e.laddr[i][a] =
                    IF i = msg.localif /\ a \in c.mayGo /\ d.laddr[i][a] = c.link
                    THEN NoLink ELSE d.laddr[i][a]
<1> DEFINE goneL == {a \in LinkAddrsOf(d, c.link) : a \in c.mayGo}
           goneN == NaddrsOf(d, c.neigh) \cap d.mayGo
           la == [d.laddr EXCEPT ![msg.localif] =
                    [a \in Addrs |-> IF a \in goneL THEN NoLink ELSE @[a]]]
           lo == d.lost \cup goneN
           th == {h \in d.twohop : ~(h[1] = c.link /\ h[2] \in goneN)}
           e == RemoveLeftovers(d, c)
<1>1. e = [d EXCEPT !.laddr = la, !.lost = lo, !.twohop = th]
  BY DEF RemoveLeftovers
<1>2. \A i \in Ifs, a \in Addrs : la[i][a] =
         IF i = msg.localif /\ a \in c.mayGo /\ d.laddr[i][a] = c.link
         THEN NoLink ELSE d.laddr[i][a]
  BY DEF Databases, LinkAddrsOf
<1> HIDE DEF la, lo, th, e
<1>3. /\ e.neighs = d.neighs /\ e.naddr = d.naddr /\ e.links = d.links
      /\ e.neigh = d.neigh /\ e.localif = d.localif /\ e.orig = d.orig
      /\ SameCounts(d, e) /\ e.laddr = la
  BY <1>1 DEF Databases, SameCounts
<1> QED
  BY <1>2, <1>3 DEF e

(* Symmetric time and counters at the end of a HELLO *)
LEMMA UpdateSymTimeCounted ==
    ASSUME NEW d, Good(d), NEW c, c.link \in d.links, Counted(d)
    PROVE  Counted(UpdateSymTime(d, c))
<1> DEFINE d1 == [d EXCEPT !.symTime = @ \cup {c.link}]
           d2 == [d EXCEPT !.symTime = @ \ {c.link}]
           d3 == nhdp_db_link_update_status(d1, c.link)
<1>1. Good(d1) /\ SameView(d, d1) /\ SameView(d, d2)
  BY TimerGood, DataView DEF Good
<1>2. UpdateSymTime(d, c) \in {d3, d2, d}
  BY DEF UpdateSymTime
<1> HIDE DEF d1, d2
<1>3. Counted(d1) /\ Counted(d2)
  BY <1>1, CountedSame DEF SameView, SameAddrs
<1>4. c.link \in d1.links
  BY <1>1 DEF SameView, SameAddrs
<1>5. Counted(d3)
  BY <1>1, <1>3, <1>4, UpdateStatusCounted
<1> HIDE DEF d3
<1> QED
  BY <1>2, <1>3, <1>5

(* Setting an originator that no other neighbor has *)
LEMMA SetOriginatorFresh ==
    ASSUME NEW d, Good(d), NEW n \in d.neighs, NEW o \in Addrs,
           d.orig[n] \in {NoAddr, o}, \A x \in d.neighs \ {n} : d.orig[x] # o
    PROVE  nhdp_db_neighbor_set_originator(d, n, o).orig = [d.orig EXCEPT ![n] = o]
<1> DEFINE e == nhdp_db_neighbor_set_originator(d, n, o)
<1>1. n \in Neighs /\ d.orig \in [Neighs -> Addrs \cup {NoAddr}] /\ o # NoAddr
  BY NhdpDbAssumption DEF Good, Databases
<1>2. CASE d.orig[n] = o
  BY <1>1, <1>2 DEF nhdp_db_neighbor_set_originator
<1>3. CASE d.orig[n] # o
  <2> DEFINE d3 == [d EXCEPT !.orig[n] = o]
             d4 == [d3 EXCEPT !.origTree = @ \cup {n}, !.linkOrigs = @ \cup LinksOf(d3, n)]
  <2>1. d.orig[n] = NoAddr
    BY <1>3
  <2>2. NeighborByOriginator(d, o) = NoNeigh
    <3>1. {x \in d.origTree : d.orig[x] = o} = {}
      BY <1>3 DEF Good, ReferencesAlive
    <3> QED
      BY <3>1 DEF NeighborByOriginator
  <2>3. e = d4
    BY <1>1, <1>3, <2>1, <2>2 DEF nhdp_db_neighbor_set_originator
  <2>4. d4.orig = d3.orig
    <3>1. d3 \in Databases
      BY <1>1 DEF Good, Databases
    <3> HIDE DEF d3
    <3> QED
      BY <3>1 DEF Databases
  <2>5. d3.orig = [d.orig EXCEPT ![n] = o]
    BY DEF Good, Databases
  <2> QED
    BY <2>3, <2>4, <2>5
<1> QED
  BY <1>2, <1>3

(* Database e is d after the end of a HELLO with session c on interface i: *)
(* the addresses that may go are gone. *)
Trimmed(d, c, i, e) ==
    /\ e.neighs = d.neighs /\ e.naddr = d.naddr /\ e.links = d.links
    /\ e.neigh = d.neigh /\ e.localif = d.localif
    /\ \A j \in Ifs, a \in Addrs : e.laddr[j][a] =
         IF j = i /\ a \in c.mayGo /\ d.laddr[j][a] = c.link THEN NoLink ELSE d.laddr[j][a]

(* The end of a HELLO *)
LEMMA FinishLinkView ==
    ASSUME NEW d, Good(d), NEW c, c.link \in d.links, c.neigh \in d.neighs,
           msg.localif \in Ifs, msg.orig \in Addrs \cup {NoAddr}
    PROVE  LET e == FinishLink(d, c)
           IN  /\ Trimmed(d, c, msg.localif, e)
               /\ Counted(d) => Counted(e)
               /\ msg.orig \in Addrs /\ d.orig[c.neigh] \in {NoAddr, msg.orig}
                    /\ (\A x \in d.neighs \ {c.neigh} : d.orig[x] # msg.orig)
                  => e.orig = [d.orig EXCEPT ![c.neigh] = msg.orig]
<1> DEFINE d1 == RemoveLeftovers(d, c)
           d2 == UpdateSymTime(d1, c)
           d3 == [d2 EXCEPT !.heardTime = @ \cup {c.link}, !.vtime = @ \cup {c.link}]
           d4 == nhdp_db_neighbor_set_originator(d3, c.neigh, msg.orig)
           d5 == nhdp_db_link_update_status(d4, c.link)
<1>1. Good(d1) /\ Trimmed(d, c, msg.localif, d1) /\ d1.orig = d.orig /\ SameCounts(d, d1)
  BY RemoveLeftoversGood, RemoveLeftoversView DEF Good, Trimmed
<1> HIDE DEF d1
<1>2. Counted(d) => Counted(d1)
  BY <1>1, CountedSame DEF Trimmed
<1>3. Good(d2) /\ SameStructure(d1, d2)
  BY <1>1, UpdateSymTimeGood DEF Trimmed
<1>4. Counted(d) => Counted(d2)
  BY <1>1, <1>2, UpdateSymTimeCounted DEF Trimmed
<1> HIDE DEF d2
<1>5. Trimmed(d, c, msg.localif, d2) /\ d2.orig = d.orig
  BY <1>1, <1>3 DEF SameStructure, Trimmed
<1>6. Good(d3) /\ SameStructure(d2, d3)
  BY <1>3, <1>5, TimerGood DEF Trimmed
<1>7. SameView(d2, d3)
  BY <1>3, DataView DEF Good
<1> HIDE DEF d3
<1>8. Trimmed(d, c, msg.localif, d3) /\ d3.orig = d.orig /\ (Counted(d) => Counted(d3))
  BY <1>4, <1>5, <1>7, CountedSame DEF SameView, SameAddrs, Trimmed
<1>9. c.neigh \in Neighs
  BY DEF Good, Databases
<1>10. Good(d4)
  BY <1>6, <1>8, SetOriginatorGood DEF Trimmed
<1>11. SameAddrs(d3, d4) /\ SameCounts(d3, d4)
  BY <1>6, <1>9, SetOriginatorAddrs DEF Good
<1>12. msg.orig \in Addrs /\ d.orig[c.neigh] \in {NoAddr, msg.orig}
         /\ (\A x \in d.neighs \ {c.neigh} : d.orig[x] # msg.orig)
         => d4.orig = [d.orig EXCEPT ![c.neigh] = msg.orig]
  BY <1>6, <1>8, SetOriginatorFresh DEF Trimmed
<1> HIDE DEF d4
<1>13. Trimmed(d, c, msg.localif, d4) /\ (Counted(d) => Counted(d4))
  BY <1>8, <1>11, CountedSame DEF SameAddrs, Trimmed
<1>14. Good(d5) /\ SameStructure(d4, d5)
  BY <1>10, <1>13, UpdateStatusGood DEF Trimmed
<1>15. Counted(d) => Counted(d5)
  BY <1>10, <1>13, UpdateStatusCounted DEF Trimmed
<1>16. FinishLink(d, c) = d5
  BY DEF FinishLink, d1, d2, d3, d4
<1> HIDE DEF d5
<1>17. Trimmed(d, c, msg.localif, d5) /\ d5.orig = d4.orig
  BY <1>13, <1>14 DEF SameStructure, Trimmed
<1> QED
  BY <1>12, <1>15, <1>16, <1>17

(* HELLOs that name their interface *)
AllNamed == \A m \in Readable(Hellos) : NamesInterface(m)

(* The HELLO that is read *)
LEMMA NamedMessage ==
    ASSUME AllNamed, TypeOK, pc # "idle", msg.bad = "no"
    PROVE  msg \in Messages /\ NamesInterface(msg)
BY NhdpAssumption DEF AllNamed, Readable, TypeOK

(* Between HELLOs, links that go leave the others with their addresses. *)
LEMMA KeepsAddressed ==
    ASSUME IInv, Addressed, ~undef, pc' = "idle", Keeps(db, db'), \A l \in Rest : l \notin db'.links
    PROVE  Addressed'
<1>1. \A l \in db'.links : HasAddr(db, l)
  BY DEF Addressed, Keeps
<1>2. \A l \in db'.links : HasAddr(db', l)
  BY <1>1, KeepsAddr DEF IInv
<1> QED
  BY <1>2 DEF Addressed, Rest, HasAddr

(* A dropped HELLO *)
LEMMA DropAddressed ==
    ASSUME IInv, Addressed, ~undef, DropMessage PROVE Addressed'
<1>1. CASE CleanupDefined(db, cur)
  <2>1. db' = _cleanup_error(db, cur) /\ pc' = "idle"
    BY <1>1 DEF DropMessage, EndMessage
  <2>2. Keeps(db, db') /\ cur.link \notin db'.links
    BY <1>1, <2>1, CleanupKeeps DEF IInv
  <2> QED
    BY <2>1, <2>2, KeepsAddressed DEF Rest
<1>2. CASE ~CleanupDefined(db, cur)
  BY <1>2 DEF DropMessage, UseOfFreedObject, Addressed
<1> QED
  BY <1>1, <1>2

(* Counting one address of the first pass *)
LEMMA Pass1Counting ==
    ASSUME NEW d, Good(d), NEW c \in Sessions, msg \in Messages, NEW k, k <= Len(msg.addrs),
           Counting(msg, k, d, c)
    PROVE  Counting(msg, k + 1, d, Pass1Session(d, c, msg.addrs[k]))
<1> DEFINE x == msg.addrs[k]
           i == msg.localif
           l == d.laddr[i][x.addr]
           hitL == x.lif = "this" /\ l # NoLink
           cl == IF hitL THEN [c.countL EXCEPT ![l] = @ + 1] ELSE c.countL
           e == Pass1Session(d, c, x)
<1>1. k \in 1 .. Len(msg.addrs) /\ Len(msg.addrs) \in Nat /\ x.addr \in Addrs /\ i \in Ifs
  BY AddressParts DEF Counting
<1>2. e.countL = cl /\ e.has_thisif = (c.has_thisif \/ x.lif = "this")
  BY DEF Pass1Session
<1>3. l \in Links \cup {NoLink} /\ c.countL \in [Links -> Int]
  BY <1>1 DEF Good, Databases, Sessions
<1> HIDE DEF e
<1>4. ASSUME NEW y \in Links
      PROVE  e.countL[y] = Cardinality(AtLink(msg, d, y, 1 .. (k + 1) - 1))
  <2>1. cl[y] = c.countL[y] + (IF x.lif = "this" /\ l = y THEN 1 ELSE 0)
    BY <1>3, NhdpDbAssumption
  <2>2. Cardinality(AtLink(msg, d, y, 1 .. (k + 1) - 1)) =
          Cardinality(AtLink(msg, d, y, 1 .. k - 1)) + (IF x.lif = "this" /\ l = y THEN 1 ELSE 0)
    BY <1>1, ReadCount DEF ThisAt
  <2> QED
    BY <1>2, <2>1, <2>2 DEF Counting
<1>5. \A j \in 1 .. (k + 1) - 1 : ThisAt(msg, j) => e.has_thisif
  <2> SUFFICES ASSUME NEW j \in 1 .. (k + 1) - 1, ThisAt(msg, j) PROVE e.has_thisif
    OBVIOUS
  <2>1. CASE j = k
    <3>1. x.lif = "this"
      BY <2>1 DEF ThisAt
    <3> QED
      BY <1>2, <3>1
  <2>2. CASE j # k
    <3>1. j \in 1 .. k - 1
      BY <1>1, <2>2
    <3>2. c.has_thisif
      BY <3>1 DEF Counting
    <3> QED
      BY <1>2, <3>2
  <2> QED
    BY <2>1, <2>2
<1> QED
  BY <1>1, <1>4, <1>5 DEF Counting, e

(* All addresses are read: one of them was of this interface. *)
LEMMA CountingEnds ==
    ASSUME NEW m \in Messages, NamesInterface(m), NEW k, NEW d, NEW c, Counting(m, k, d, c),
           k > Len(m.addrs)
    PROVE  c.has_thisif /\ k = Len(m.addrs) + 1
<1>1. Len(m.addrs) \in Nat
  BY AddressParts
<1>2. k = Len(m.addrs) + 1
  BY <1>1 DEF Counting
<1> QED
  BY <1>1, <1>2, NamedPosition DEF Counting

(* The end of the first pass *)
LEMMA Pass1EndAddressed ==
    ASSUME AllNamed, IInv, IInv', Addressed, ~undef, _cb_addresstlvs_pass1_end
    PROVE  Addressed'
<1>1. /\ pc = "pass1" /\ idx > Len(msg.addrs) /\ msg.bad = "no" /\ Counting(msg, idx, db, cur)
      /\ \A l \in db.links : HasAddr(db, l)
  BY DEF _cb_addresstlvs_pass1_end, Addressed, Rest
<1>2. msg \in Messages /\ NamesInterface(msg)
  BY <1>1, NamedMessage DEF IInv
<1>3. cur.has_thisif /\ idx = Len(msg.addrs) + 1
  BY <1>1, <1>2, CountingEnds
<1>4. /\ msg.localif \in Ifs /\ Len(msg.addrs) \in Nat /\ cur \in Sessions /\ Good(db) /\ Good(db')
      /\ SessionFits(db, cur, msg.localif)
      /\ \A j \in 1 .. Len(msg.addrs) : msg.addrs[j].addr \in Addrs
  BY <1>1, <1>2, AddressParts DEF IInv, TypeOK
<1>5. PICK n \in Pass1Neighbors(db, cur), l \in Pass1Links(db, cur) :
             \/ undef'
             \/ /\ n = NoNeigh /\ pc' = "idle" /\ SameAddrs(db, db')
                /\ db' = _handle_originator(db, cur)
                /\ cur'.neigh = NoNeigh /\ cur'.link = cur.link
             \/ /\ n # NoNeigh /\ l = NoLink /\ pc' = "idle" /\ db'.links = db.links
                /\ db'.localif = db.localif /\ db'.laddr = db.laddr
             \/ /\ n \in Neighs /\ l \in Links /\ pc' = "pass2" /\ idx' = 1 /\ msg' = msg
                /\ Extended(db, n, l, msg.localif, db')
                /\ db'.orig = _handle_originator(db, cur).orig
                /\ cur' = [cur EXCEPT !.neigh = n, !.link = l, !.mayGo = LinkAddrsOf(db, l)]
  BY <1>3, Pass1EndView
<1>6. CASE undef'
  BY <1>6 DEF Addressed
<1>7. CASE pc' = "idle" /\ db'.links = db.links /\ db'.localif = db.localif /\ db'.laddr = db.laddr
  BY <1>1, <1>7 DEF Addressed, Rest, HasAddr
<1>8. CASE /\ l \in Links /\ pc' = "pass2" /\ idx' = 1 /\ msg' = msg
           /\ Extended(db, n, l, msg.localif, db')
           /\ cur' = [cur EXCEPT !.neigh = n, !.link = l, !.mayGo = LinkAddrsOf(db, l)]
  <2>1. cur'.link = l /\ cur'.countL = cur.countL /\ cur'.mayGo = LinkAddrsOf(db, l)
    BY <1>4, <1>8 DEF Sessions
  <2>2. ASSUME NEW x \in db'.links \ {l} PROVE HasAddr(db', x)
    <3>1. x \in db.links /\ x \in Links /\ db'.localif[x] = db.localif[x] /\ db'.laddr = db.laddr
      BY <1>4, <1>8, <2>2 DEF Extended, Good, Databases
    <3> QED
      BY <1>1, <3>1 DEF HasAddr
  <2>3. Moving(msg, 1, db', cur')
    <3>1. db'.laddr = db.laddr /\ db'.links \subseteq Links
      BY <1>4, <1>8 DEF Extended, Good, Databases
    <3>2. \A y \in db'.links : cur'.countL[y] = Cardinality(AtLink(msg, db', y, 1 .. Len(msg.addrs)))
      <4>1. ASSUME NEW y \in db'.links
            PROVE  AtLink(msg, db', y, 1 .. Len(msg.addrs)) = AtLink(msg, db, y, 1 .. idx - 1)
        BY <1>3, <1>4, <3>1 DEF AtLink
      <4> QED
        BY <1>1, <2>1, <3>1, <4>1 DEF Counting
    <3>3. \A a \in cur'.mayGo : db'.laddr[msg.localif][a] = cur'.link
      BY <2>1, <3>1 DEF LinkAddrsOf
    <3> QED
      BY <1>4, <3>2, <3>3 DEF Moving
  <2> QED
    BY <1>1, <1>8, <2>1, <2>2, <2>3 DEF Addressed, Rest
<1> QED
  BY <1>5, <1>6, <1>7, <1>8 DEF SameAddrs

(* One address of the second pass *)
LEMMA Pass2BlockAddressed ==
    ASSUME AllNamed, IInv, IInv', Addressed, ~undef, _cb_addr_pass2_block
    PROVE  Addressed'
<1> DEFINE x == msg.addrs[idx]
           r == IF x.lif = "none" THEN <<db, cur>>
                ELSE _pass2_process_localif(db, cur, x.addr, x.lif)
           f == r[1]
           g == r[2]
<1>1. /\ pc = "pass2" /\ idx <= Len(msg.addrs) /\ msg.bad = "no" /\ Moving(msg, idx, db, cur)
      /\ OthersHaveAddr(db, cur.link) /\ Good(db) /\ TypeOK /\ SessionFits(db, cur, msg.localif)
      /\ SessionAlive(db, cur) /\ cur \in Sessions
  BY DEF _cb_addr_pass2_block, Addressed, Rest, OthersHaveAddr, IInv, SessionFits
<1>2. msg \in Messages /\ NamesInterface(msg)
  BY <1>1, NamedMessage
<1>3. msg.localif \in Ifs /\ Len(msg.addrs) \in Nat /\ idx \in 1 .. Len(msg.addrs) /\ x.addr \in Addrs
  BY <1>1, <1>2, AddressParts DEF Moving
<1>4. IF ~SessionAlive(db, cur) \/ ~SessionAlive(f, g)
      THEN UseOfFreedObject
      ELSE /\ db' = ProcessTwohop(f, g, x)
           /\ cur' = g
           /\ idx' = idx + 1
           /\ UNCHANGED <<pc, msg, undef>>
  BY DEF _cb_addr_pass2_block
<1>5. db.localif[cur.link] = msg.localif
  BY <1>1, NhdpDbAssumption DEF SessionFits, SessionAlive, Good, Databases
<1>6. LinkSession(db, cur, msg.localif) /\ cur.neigh \in db.neighs
  BY <1>1, <1>5 DEF LinkSession, SessionAlive
<1>7. Good(f) /\ g.link = cur.link
  <2>1. CASE x.lif = "none"
    BY <1>1, <2>1
  <2>2. CASE x.lif # "none"
    <3>1. r = _pass2_process_localif(db, cur, x.addr, x.lif)
      BY <2>2
    <3> HIDE DEF r, x
    <3> QED
      BY <1>1, <1>3, <1>6, <3>1, ProcessLocalifGood
  <2> QED
    BY <2>1, <2>2
<1>8. SessionAlive(f, g) => Moving(msg, idx + 1, f, g) /\ OthersHaveAddr(f, cur.link)
  <2>1. CASE x.lif = "none"
    <3>1. f = db /\ g = cur
      BY <2>1
    <3>2. ~ThisAt(msg, idx)
      BY <2>1 DEF ThisAt
    <3> HIDE DEF f, g, r, x
    <3>3. \A l : Cardinality(AtLink(msg, db, l, idx + 1 .. Len(msg.addrs))) \in Nat
      BY <1>3, PositionsFinite
    <3>4. \A l : Cardinality(AtLink(msg, db, l, idx .. Len(msg.addrs))) =
                   Cardinality(AtLink(msg, db, l, idx + 1 .. Len(msg.addrs)))
      BY <1>3, <3>2, <3>3, RestCount
    <3>5. Moving(msg, idx + 1, db, cur)
      BY <1>1, <1>3, <3>2, <3>4 DEF Moving
    <3> QED
      BY <1>1, <3>1, <3>5
  <2>2. CASE x.lif # "none"
    <3>1. r = _pass2_process_localif(db, cur, x.addr, x.lif)
      BY <2>2
    <3>2. r = <<f, g>>
      BY <3>1 DEF _pass2_process_localif, ProcessNeighborAddr
    <3> HIDE DEF f, g, r
    <3>3. <<f, g>> = _pass2_process_localif(db, cur, x.addr, x.lif)
      BY <3>1, <3>2
    <3> HIDE DEF x
    <3> QED
      BY <1>1, <1>2, <1>3, <1>6, <3>3, ProcessLocalifMoving DEF x
  <2> QED
    BY <2>1, <2>2
<1> HIDE DEF f, g, r, x
<1>9. CASE ~SessionAlive(f, g)
  BY <1>4, <1>9 DEF UseOfFreedObject, Addressed
<1>10. CASE SessionAlive(f, g)
  <2>1. db' = ProcessTwohop(f, g, x) /\ cur' = g /\ idx' = idx + 1 /\ UNCHANGED <<pc, msg, undef>>
    BY <1>1, <1>4, <1>10
  <2>2. SameStructure(f, db')
    BY <1>3, <1>7, <1>10, <2>1, ProcessTwohopGood DEF SessionAlive
  <2>3. OthersHaveAddr(db', cur.link)
    BY <1>8, <1>10, <2>2 DEF OthersHaveAddr, HasAddr, SameStructure
  <2>4. Moving(msg, idx + 1, db', g)
    <3>1. \A y, J : AtLink(msg, db', y, J) = AtLink(msg, f, y, J)
      BY <2>2 DEF AtLink, SameStructure
    <3> QED
      BY <1>8, <1>10, <2>2, <3>1 DEF Moving, SameStructure
  <2> QED
    BY <1>1, <1>7, <2>1, <2>3, <2>4 DEF Addressed, Rest, OthersHaveAddr
<1> QED
  BY <1>9, <1>10

(* The end of a HELLO: the link of the session keeps the addresses that    *)
(* the HELLO named. *)
LEMMA Pass2EndAddressed ==
    ASSUME AllNamed, IInv, Addressed, ~undef, _cb_msg_pass2_end
    PROVE  Addressed'
<1>1. /\ pc = "pass2" /\ idx > Len(msg.addrs) /\ msg.bad = "no" /\ Moving(msg, idx, db, cur)
      /\ OthersHaveAddr(db, cur.link) /\ Good(db) /\ TypeOK /\ SessionAlive(db, cur)
      /\ SessionFits(db, cur, msg.localif)
  BY DEF _cb_msg_pass2_end, Addressed, Rest, OthersHaveAddr, IInv
<1>2. msg \in Messages /\ NamesInterface(msg)
  BY <1>1, NamedMessage
<1>3. /\ msg.localif \in Ifs /\ Len(msg.addrs) \in Nat /\ idx = Len(msg.addrs) + 1
      /\ \A j \in 1 .. Len(msg.addrs) : msg.addrs[j].addr \in Addrs
      /\ msg.orig \in Addrs \cup {NoAddr}
  BY <1>1, <1>2, AddressParts DEF Moving, Messages
<1>4. db' = FinishLink(db, cur) /\ pc' = "idle"
  BY <1>1 DEF _cb_msg_pass2_end, EndMessage
<1>5. /\ db'.links = db.links /\ db'.localif = db.localif
      /\ \A i \in Ifs, a \in Addrs : db'.laddr[i][a] =
           IF i = msg.localif /\ a \in cur.mayGo /\ db.laddr[i][a] = cur.link
           THEN NoLink ELSE db.laddr[i][a]
  <2> DEFINE e == FinishLink(db, cur)
  <2>1. Trimmed(db, cur, msg.localif, e)
    <3>1. Good(db) /\ cur.link \in db.links /\ cur.neigh \in db.neighs
      BY <1>1 DEF SessionAlive
    <3> QED
      BY <1>3, <3>1, FinishLinkView
  <2>2. db' = e
    BY <1>4
  <2> HIDE DEF e
  <2> QED
    BY <2>1, <2>2 DEF Trimmed
<1>6. ASSUME NEW l \in db.links, l # cur.link PROVE HasAddr(db', l)
  <2>1. PICK a \in Addrs : db.laddr[db.localif[l]][a] = l
    BY <1>1, <1>6 DEF OthersHaveAddr, HasAddr
  <2>2. db.localif[l] \in Ifs
    BY <1>1 DEF Good, Databases
  <2> QED
    BY <1>5, <1>6, <2>1, <2>2 DEF HasAddr
<1>7. HasAddr(db', cur.link)
  <2>1. PICK j \in 1 .. Len(msg.addrs) : ThisAt(msg, j)
    BY <1>2, NamedPosition
  <2>2. db.laddr[msg.localif][msg.addrs[j].addr] = cur.link /\ msg.addrs[j].addr \notin cur.mayGo
    BY <1>1, <1>3, <2>1 DEF Moving
  <2>3. db.localif[cur.link] = msg.localif
    BY <1>1, NhdpDbAssumption DEF SessionFits, SessionAlive, Good, Databases
  <2> QED
    BY <1>3, <1>5, <2>1, <2>2, <2>3 DEF HasAddr
<1> QED
  BY <1>4, <1>5, <1>6, <1>7 DEF Addressed, Rest

(* The callbacks that read a HELLO *)
LEMMA ReceiveAddressed ==
    ASSUME AllNamed, IInv, IInv', Addressed, ~undef, Receive PROVE Addressed'
<1>1. ASSUME NEW m \in Hellos, HelloFailsConstraints(m) PROVE Addressed'
  BY <1>1, DropAddressed DEF HelloFailsConstraints
<1>2. ASSUME NEW m \in Hellos, HelloIgnored(m) PROVE Addressed'
  <2>1. db' = db /\ pc' = "idle" /\ Rest = {}
    BY <1>2 DEF HelloIgnored, EndMessage, Rest, Idle
  <2>2. Keeps(db, db')
    BY <2>1 DEF Keeps
  <2> QED
    BY <2>1, <2>2, KeepsAddressed
<1>3. ASSUME NEW m \in Hellos, _cb_messagetlvs(m) PROVE Addressed'
  <2>1. /\ db' = db /\ pc' = "pass1" /\ pc = "idle" /\ msg' = m /\ m.bad = "no" /\ idx' = 1
        /\ cur' = EmptySession /\ m \in Messages
    BY <1>3, NhdpAssumption DEF _cb_messagetlvs, Idle
  <2>2. \A l \in Links : cur'.countL[l] = 0
    BY <2>1 DEF EmptySession
  <2>3. \A l : Cardinality(AtLink(m, db, l, 1 .. 1 - 1)) = 0
    <3>1. 1 .. 1 - 1 = {}
      OBVIOUS
    <3>2. \A l : AtLink(m, db, l, 1 .. 1 - 1) = {}
      BY <3>1 DEF AtLink
    <3> QED
      BY <3>2, FS_EmptySet
  <2>4. Counting(m, 1, db, cur')
    <3>1. Len(m.addrs) \in Nat
      BY <2>1, AddressParts
    <3> QED
      BY <2>2, <2>3, <3>1 DEF Counting
  <2> QED
    BY <2>1, <2>4 DEF Addressed, Rest
<1>4. CASE _cb_addresstlvs_pass1
  <2>1. /\ db' = db /\ pc' = "pass1" /\ pc = "pass1" /\ msg' = msg /\ idx' = idx + 1
        /\ cur' = Pass1Session(db, cur, msg.addrs[idx]) /\ idx <= Len(msg.addrs)
    BY <1>4 DEF _cb_addresstlvs_pass1
  <2>2. msg.bad = "no" /\ Counting(msg, idx, db, cur) /\ Good(db) /\ cur \in Sessions /\ TypeOK
    BY <2>1 DEF Addressed, IInv, TypeOK
  <2>3. msg \in Messages
    BY <2>1, <2>2, NamedMessage
  <2>4. Counting(msg, idx + 1, db, cur')
    BY <2>1, <2>2, <2>3, Pass1Counting
  <2> QED
    BY <2>1, <2>2, <2>4 DEF Addressed, Rest
<1>5. CASE AddressFailsConstraintsPass1
  BY <1>5, DropAddressed DEF AddressFailsConstraintsPass1
<1>6. CASE AddressFailsConstraintsPass2
  BY <1>6, DropAddressed DEF AddressFailsConstraintsPass2
<1> QED
  BY <1>1, <1>2, <1>3, <1>4, <1>5, <1>6, Pass1EndAddressed, Pass2BlockAddressed,
     Pass2EndAddressed DEF Receive, Reading

(* A timer, a verdict of the hysteresis or the loss of the addresses of an *)
(* interface takes no address from a link that stays. *)
LEMMA TimeoutKeeps ==
    ASSUME IInv, Timeout \/ HysteresisEvent \/ \E i \in Ifs : InterfaceLosesAddresses(i)
    PROVE  pc = "idle" /\ pc' = "idle" /\ Keeps(db, db')
<1>0. Good(db) /\ db.symTime \cup db.heardTime \cup db.vtime \subseteq db.links
  BY DEF IInv, Good, ReferencesAlive
<1>1. ASSUME NEW l \in db.links, NEW d, Good(d), SameStructure(db, d),
             DbStep(nhdp_db_link_update_status(d, l))
      PROVE  pc' = pc /\ Keeps(db, db')
  <2>1. SameStructure(d, nhdp_db_link_update_status(d, l))
    BY <1>1, UpdateStatusGood DEF SameStructure
  <2> QED
    BY <1>1, <2>1 DEF DbStep, Keeps, SameStructure
<1>2. ASSUME NEW l \in Links, _cb_link_symtime(l) PROVE pc = "idle" /\ pc' = pc /\ Keeps(db, db')
  <2> DEFINE d1 == [db EXCEPT !.symTime = @ \ {l}]
  <2>1. l \in db.links /\ Idle /\ DbStep(nhdp_db_link_update_status(d1, l))
    BY <1>0, <1>2 DEF _cb_link_symtime
  <2>2. Good(d1) /\ SameStructure(db, d1)
    BY <1>0, <2>1, TimerGood
  <2> HIDE DEF d1
  <2> QED
    BY <1>1, <2>1, <2>2 DEF Idle
<1>3. ASSUME NEW l \in Links, _cb_link_heard(l) PROVE pc = "idle" /\ pc' = pc /\ Keeps(db, db')
  <2> DEFINE d1 == [db EXCEPT !.heardTime = @ \ {l}]
  <2>1. l \in db.links /\ Idle /\ DbStep(nhdp_db_link_update_status(d1, l))
    BY <1>0, <1>3 DEF _cb_link_heard
  <2>2. Good(d1) /\ SameStructure(db, d1)
    BY <1>0, <2>1, TimerGood
  <2> HIDE DEF d1
  <2> QED
    BY <1>1, <2>1, <2>2 DEF Idle
<1>4. ASSUME NEW l \in Links, _cb_link_vtime(l) PROVE pc = "idle" /\ pc' = pc /\ Keeps(db, db')
  <2> DEFINE n  == db.neigh[l]
             d1 == IF db.status[l] = "SYMMETRIC"
                   THEN _link_status_not_symmetric_anymore(db, l) ELSE db
             S  == {l}
             d2 == nhdp_db_link_remove(d1, S)
             d3 == IF LinksOf(d2, n) = {} THEN nhdp_db_neighbor_remove(d2, n) ELSE d2
  <2>1. l \in db.links /\ Idle /\ DbStep(d3)
    BY <1>0, <1>4 DEF _cb_link_vtime
  <2>2. n \in db.neighs
    BY <1>0, <2>1, DataTypes
  <2>3. Good(d1) /\ SameStructure(db, d1)
    BY <1>0, <2>1, NotSymmetricGood DEF SameStructure
  <2> HIDE DEF n, d1
  <2>4. S \subseteq d1.links
    BY <2>1, <2>3 DEF SameStructure
  <2> HIDE DEF S
  <2>5. Good(d2) /\ d2.neighs = d1.neighs /\ Keeps(d1, d2)
    BY <2>3, <2>4, LinkRemoveGood, LinkRemoveKeeps
  <2> HIDE DEF d2
  <2>6. n \in d2.neighs
    BY <2>2, <2>3, <2>5 DEF SameStructure
  <2>7. Keeps(d2, nhdp_db_neighbor_remove(d2, n)) /\ Keeps(d2, d2)
    <3>1. Keeps(d2, nhdp_db_neighbor_remove(d2, n))
      BY <2>5, <2>6, NeighborRemoveView DEF WithoutLinks
    <3> QED
      BY <3>1 DEF Keeps
  <2>8. Keeps(d2, d3)
    BY <2>7
  <2> HIDE DEF d3
  <2>9. Keeps(db, d3)
    BY <2>3, <2>5, <2>8, StructureKeeps, KeepsTwice
  <2> QED
    BY <2>1, <2>9 DEF DbStep, Idle
<1>5. ASSUME NEW a \in Addrs, _cb_naddr_vtime(a) PROVE pc = "idle" /\ pc' = pc /\ Keeps(db, db')
  <2>1. Idle /\ DbStep(nhdp_db_neighbor_addr_remove(db, a))
    BY <1>5 DEF _cb_naddr_vtime
  <2>2. Keeps(db, nhdp_db_neighbor_addr_remove(db, a))
    BY <1>0 DEF nhdp_db_neighbor_addr_remove, Keeps, Good, Databases
  <2> QED
    BY <2>1, <2>2 DEF DbStep, Idle
<1>6. ASSUME NEW h \in Links \X Addrs, _cb_l2hop_vtime(h)
      PROVE  pc = "idle" /\ pc' = pc /\ Keeps(db, db')
  <2> DEFINE t == db.twohop \ {h}
  <2>1. Idle /\ DbStep([db EXCEPT !.twohop = t])
    BY <1>6 DEF _cb_l2hop_vtime
  <2> HIDE DEF t
  <2>2. Keeps(db, [db EXCEPT !.twohop = t])
    BY <1>0, DataView, SameTwice DEF Good, SameView
  <2> QED
    BY <2>1, <2>2 DEF DbStep, Idle
<1>7. ASSUME NEW l \in Links, NEW h \in HystValues, HysteresisChange(l, h)
      PROVE  pc = "idle" /\ pc' = pc /\ Keeps(db, db')
  <2> DEFINE d1 == [db EXCEPT !.hyst[l] = h]
  <2>1. l \in db.links /\ Idle /\ DbStep(nhdp_db_link_update_status(d1, l)) /\ h \in Hysteresis
    BY <1>7, NhdpAssumption DEF HysteresisChange
  <2>2. Good(d1) /\ SameStructure(db, d1)
    BY <1>0, <2>1, HystGood
  <2> HIDE DEF d1
  <2> QED
    BY <1>1, <2>1, <2>2 DEF Idle
<1>8. ASSUME NEW i \in Ifs, InterfaceLosesAddresses(i)
      PROVE  pc = "idle" /\ pc' = pc /\ Keeps(db, db')
  <2> DEFINE S == {l \in db.links : db.localif[l] = i}
             e == nhdp_db_link_set_unsymmetric(db, S)
  <2>1. Idle /\ db' = e /\ pc' = pc
    BY <1>8 DEF InterfaceLosesAddresses, DbStep
  <2>2. e.links = db.links /\ e.localif = db.localif /\ e.laddr = db.laddr
    BY <1>0 DEF nhdp_db_link_set_unsymmetric, Good, Databases
  <2> HIDE DEF e
  <2> QED
    BY <2>1, <2>2 DEF Idle, Keeps
<1> QED
  BY <1>2, <1>3, <1>4, <1>5, <1>6, <1>7, <1>8 DEF Timeout, HysteresisEvent

(***************************************************************************)
(* Between HELLOs every link has an address by which the next HELLO finds  *)
(* it and a validity timer, provided that HELLOs name the interface they   *)
(* come from and no address of it twice.  A neighbor may change its        *)
(* addresses, take those of another or fake them: the link that loses an   *)
(* address to the link of the session keeps one, gets it from this HELLO   *)
(* or is removed (_pass2_process_localif).                                 *)
(***************************************************************************)
THEOREM LinksStayBounded ==
    ASSUME \A m \in Readable(Hellos) : NamesInterface(m)
    PROVE  Spec => []LinksBounded
<1>0. AllNamed
  BY DEF AllNamed
<1>1. Init => Addressed
  BY DEF Init, Addressed, Rest, EmptyDb
<1>2. IInv /\ IInv' /\ Addressed /\ [Next]_vars => Addressed'
  <2> SUFFICES ASSUME IInv, IInv', Addressed, [Next]_vars PROVE Addressed'
    OBVIOUS
  <2>1. CASE UNCHANGED vars
    BY <2>1 DEF vars, Addressed, Rest, HasAddr, Counting, Moving, AtLink
  <2>2. CASE undef
    <3>1. UNCHANGED vars
      BY <2>2 DEF Next, Receive, Reading, Timeout, HysteresisEvent, Halted, HelloFailsConstraints,
            HelloIgnored, _cb_messagetlvs, _cb_addresstlvs_pass1, AddressFailsConstraintsPass1,
            _cb_addresstlvs_pass1_end, _cb_addr_pass2_block, AddressFailsConstraintsPass2,
            _cb_msg_pass2_end, _cb_link_symtime, _cb_link_heard, _cb_link_vtime,
            _cb_naddr_vtime, _cb_l2hop_vtime, HysteresisChange, InterfaceLosesAddresses,
            Idle, Running
    <3> QED
      BY <2>2, <3>1 DEF vars, Addressed
  <2>3. CASE ~undef /\ Receive
    BY <1>0, <2>3, ReceiveAddressed
  <2>4. ASSUME ~undef, Timeout \/ HysteresisEvent \/ \E i \in Ifs : InterfaceLosesAddresses(i)
        PROVE  Addressed'
    <3>1. pc = "idle" /\ pc' = "idle" /\ Keeps(db, db')
      BY <2>4, TimeoutKeeps
    <3> QED
      BY <2>4, <3>1, KeepsAddressed DEF Rest
  <2>5. CASE Halted
    BY <2>1, <2>5 DEF Halted
  <2> QED
    BY <2>1, <2>2, <2>3, <2>4, <2>5 DEF Next
<1>3. Addressed => LinkHasAddress
  BY DEF Addressed, LinkHasAddress, Rest, HasAddr, Idle, Running
<1>4. Spec => []LinkHasAddress
  BY <1>1, <1>2, <1>3, Invariance, PTL DEF Spec
<1>5. LinkHasAddress /\ LinkExpires => LinksBounded
  BY DEF LinksBounded
<1> QED
  BY <1>4, <1>5, LinksExpire, PTL

-----------------------------------------------------------------------------
(***************************************************************************)
(* Orderly HELLOs.  O gives every neighbor the originator its HELLOs       *)
(* carry: the stored one, and for the neighbor of the session the one of   *)
(* the HELLO that is being read.  Every neighbor has one of its own, and   *)
(* the addresses of the neighbor are in the HELLOs of that originator.     *)
(***************************************************************************)
Owners(d, O) ==
    /\ \A n \in d.neighs : O[n] # NoAddr
    /\ \A n1, n2 \in d.neighs : O[n1] = O[n2] => n1 = n2
    /\ \A a \in Addrs : d.naddr[a] # NoNeigh =>
         \E m \in Readable(Hellos) : a \in NeighborAddrs(m) /\ m.orig = O[d.naddr[a]]

LaddrsOf(d, i, l) == {a \in Addrs : d.laddr[i][a] = l}

(* Link l has the addresses of an interface in the HELLOs of originator x. *)
Whole(d, l, x) ==
    \E m \in Readable(Hellos) :
        m.localif = d.localif[l] /\ m.orig = x /\ LaddrsOf(d, m.localif, l) = ThisAddrs(m)

(* The link of the session l0 is whole at the end of the HELLO.            *)
Ordered(d, O, l0) ==
    /\ Owners(d, O)
    /\ \A l \in d.links \ {l0} : Whole(d, l, O[d.neigh[l]])
    /\ \A n \in d.neighs : LinksOf(d, n) # {}
    /\ Counted(d)

(* The first pass has found what belongs to the sender. *)
Session1(m, k, d, c) ==
    /\ k \in 1 .. Len(m.addrs) + 1
    /\ Ordered(d, d.orig, NoLink)
    /\ ~c.naddr_conflict /\ ~c.laddr_conflict /\ ~c.originator_in_addrblk
    /\ c.neigh # NoNeigh =>
         d.orig[c.neigh] = m.orig /\ \E j \in 1 .. k - 1 : m.addrs[j].lif # "none"
    /\ c.link # NoLink => \E j \in 1 .. k - 1 : ThisAt(m, j)
    /\ \A j \in 1 .. k - 1 : ThisAt(m, j) =>
         c.has_thisif /\ d.laddr[m.localif][m.addrs[j].addr] = c.link

(* In the second pass the link of the session gets the addresses of the    *)
(* interface, which no other link has. *)
Session2(m, k, d, c) ==
    /\ k \in 1 .. Len(m.addrs) + 1
    /\ Ordered(d, [d.orig EXCEPT ![c.neigh] = m.orig], c.link)
    /\ d.orig[c.neigh] \in {NoAddr, m.orig} /\ d.neigh[c.link] = c.neigh
    /\ LaddrsOf(d, m.localif, c.link) \subseteq ThisAddrs(m)
    /\ \A a \in ThisAddrs(m) : d.laddr[m.localif][a] \in {NoLink, c.link}
    /\ \A j \in 1 .. k - 1 : ThisAt(m, j) =>
         d.laddr[m.localif][m.addrs[j].addr] = c.link /\ m.addrs[j].addr \notin c.mayGo
    /\ \A a \in c.mayGo : d.laddr[m.localif][a] = c.link

(* What is left of a session between HELLOs still belongs together. *)
Session0(d, c) ==
    /\ Ordered(d, d.orig, NoLink)
    /\ c.link # NoLink =>
         c.neigh # NoNeigh /\ (c.link \in d.links => d.neigh[c.link] = c.neigh)

OInv ==
    \/ undef
    \/ /\ pc # "idle" => msg.bad = "no"
       /\ pc = "idle" => Session0(db, cur)
       /\ pc = "pass1" => Session1(msg, idx, db, cur)
       /\ pc = "pass2" => Session2(msg, idx, db, cur)

(* The addresses of a HELLO by position *)
LEMMA Positions ==
    ASSUME NEW m \in Messages
    PROVE  /\ \A j \in 1 .. Len(m.addrs) : ThisAt(m, j) => m.addrs[j].addr \in ThisAddrs(m)
           /\ \A j \in 1 .. Len(m.addrs) : m.addrs[j].lif # "none" =>
                m.addrs[j].addr \in NeighborAddrs(m)
           /\ \A a \in ThisAddrs(m) : \E j \in 1 .. Len(m.addrs) :
                ThisAt(m, j) /\ m.addrs[j].addr = a
           /\ ThisAddrs(m) \subseteq NeighborAddrs(m)
           /\ ThisAddrs(m) \subseteq Addrs /\ NeighborAddrs(m) \subseteq Addrs
           /\ Entries(m) = {m.addrs[j] : j \in 1 .. Len(m.addrs)}
<1>1. /\ DOMAIN m.addrs = 1 .. Len(m.addrs)
      /\ \A j \in 1 .. Len(m.addrs) : m.addrs[j].addr \in Addrs
  BY AddressParts
<1>2. Entries(m) = {m.addrs[j] : j \in 1 .. Len(m.addrs)}
  BY <1>1 DEF Entries
<1> QED
  BY <1>1, <1>2 DEF ThisAddrs, NeighborAddrs, ThisAt

(* What orderly HELLOs have in common *)
LEMMA OrderlyFacts ==
    ASSUME Orderly(Hellos), NEW m \in Readable(Hellos)
    PROVE  /\ m \in Messages /\ NamesInterface(m) /\ m.orig \in Addrs
           /\ \A j \in 1 .. Len(m.addrs) : m.addrs[j].addr # m.orig
           /\ \A j, k \in 1 .. Len(m.addrs) :
                m.addrs[k].bad = "pass1" /\ j < k => m.addrs[j].lif = "none"
           /\ \A m2 \in Readable(Hellos) :
                /\ NeighborAddrs(m) \cap NeighborAddrs(m2) # {} => m.orig = m2.orig
                /\ m.localif = m2.localif /\ ThisAddrs(m) \cap ThisAddrs(m2) # {}
                     => ThisAddrs(m) = ThisAddrs(m2) /\ m.orig = m2.orig
<1>1. m \in Messages /\ m \in Hellos
  BY NhdpAssumption DEF Readable
<1>2. m.orig \in Addrs \cup {NoAddr} /\ DOMAIN m.addrs = 1 .. Len(m.addrs)
  BY <1>1, AddressParts DEF Messages
<1>3. NamesInterface(m) /\ m.orig # NoAddr
  BY DEF Orderly
<1>4. \A j \in 1 .. Len(m.addrs) : m.addrs[j].addr # m.orig
  BY <1>1, <1>2 DEF Orderly, Entries
<1>5. \A j, k \in 1 .. Len(m.addrs) :
        m.addrs[k].bad = "pass1" /\ j < k => m.addrs[j].lif = "none"
  BY <1>2 DEF Orderly
<1>6. ASSUME NEW m2 \in Readable(Hellos)
      PROVE  /\ NeighborAddrs(m) \cap NeighborAddrs(m2) # {} => m.orig = m2.orig
             /\ m.localif = m2.localif /\ ThisAddrs(m) \cap ThisAddrs(m2) # {}
                  => ThisAddrs(m) = ThisAddrs(m2) /\ m.orig = m2.orig
  <2>1. m2 \in Messages
    BY NhdpAssumption DEF Readable
  <2>2. ThisAddrs(m) \subseteq NeighborAddrs(m) /\ ThisAddrs(m2) \subseteq NeighborAddrs(m2)
    BY <1>1, <2>1, Positions
  <2>3. NeighborAddrs(m) \cap NeighborAddrs(m2) # {} => m.orig = m2.orig
    BY DEF Orderly
  <2>4. m.localif = m2.localif /\ ThisAddrs(m) \cap ThisAddrs(m2) # {}
          => ThisAddrs(m) = ThisAddrs(m2)
    BY DEF Orderly
  <2> QED
    BY <2>2, <2>3, <2>4
<1> QED
  BY <1>1, <1>2, <1>3, <1>4, <1>5, <1>6

(* A neighbor that has an address of a HELLO is its sender. *)
LEMMA SenderFound ==
    ASSUME Orderly(Hellos), NEW m \in Readable(Hellos), NEW d, NEW O, Owners(d, O),
           NEW a \in NeighborAddrs(m), d.naddr[a] # NoNeigh
    PROVE  O[d.naddr[a]] = m.orig
<1>1. m \in Messages
  BY OrderlyFacts
<1>2. a \in Addrs
  BY <1>1, Positions
<1>3. PICK m1 \in Readable(Hellos) : a \in NeighborAddrs(m1) /\ m1.orig = O[d.naddr[a]]
  BY <1>2 DEF Owners
<1>4. NeighborAddrs(m) \cap NeighborAddrs(m1) # {}
  BY <1>3
<1> QED
  BY <1>3, <1>4, OrderlyFacts

(* A link that has an address of the interface has all of them, and its    *)
(* neighbor is the sender. *)
LEMMA SideFound ==
    ASSUME Orderly(Hellos), NEW m \in Readable(Hellos), NEW d, Good(d), NEW O,
           NEW l \in d.links, Whole(d, l, O[d.neigh[l]]),
           LaddrsOf(d, m.localif, l) \cap ThisAddrs(m) # {}
    PROVE  LaddrsOf(d, m.localif, l) = ThisAddrs(m) /\ O[d.neigh[l]] = m.orig
<1>1. m \in Messages
  BY OrderlyFacts
<1>2. PICK a \in Addrs : a \in ThisAddrs(m) /\ d.laddr[m.localif][a] = l
  BY DEF LaddrsOf
<1>3. d.localif[l] = m.localif
  <2>1. m.localif \in Ifs /\ l # NoLink
    BY <1>1, AddressParts, NhdpDbAssumption DEF Good, Databases
  <2> QED
    BY <1>2, <2>1 DEF Good, ReferencesAlive
<1>4. PICK m1 \in Readable(Hellos) :
         /\ m1.localif = d.localif[l] /\ m1.orig = O[d.neigh[l]]
         /\ LaddrsOf(d, m1.localif, l) = ThisAddrs(m1)
  BY DEF Whole
<1>5. a \in ThisAddrs(m1)
  BY <1>2, <1>3, <1>4 DEF LaddrsOf
<1>6. ThisAddrs(m) = ThisAddrs(m1) /\ m.orig = m1.orig
  BY <1>3, <1>4, <1>5, OrderlyFacts
<1> QED
  BY <1>3, <1>4, <1>6

(* All addresses of the interface have the same link, or all have none. *)
LEMMA SideShared ==
    ASSUME Orderly(Hellos), NEW m \in Readable(Hellos), NEW d, Good(d), NEW O,
           Ordered(d, O, NoLink), NEW a \in ThisAddrs(m), NEW b \in ThisAddrs(m)
    PROVE  d.laddr[m.localif][a] = d.laddr[m.localif][b]
<1>1. m \in Messages
  BY OrderlyFacts
<1>2. ThisAddrs(m) \subseteq Addrs /\ m.localif \in Ifs
  BY <1>1, Positions, AddressParts
<1>3. ASSUME NEW x \in ThisAddrs(m), NEW y \in ThisAddrs(m), d.laddr[m.localif][x] # NoLink
      PROVE  d.laddr[m.localif][y] = d.laddr[m.localif][x]
  <2> DEFINE l == d.laddr[m.localif][x]
  <2>1. l \in d.links
    BY <1>2, <1>3 DEF Good, ReferencesAlive
  <2>2. Whole(d, l, O[d.neigh[l]])
    BY <1>3, <2>1 DEF Ordered
  <2>3. x \in LaddrsOf(d, m.localif, l) \cap ThisAddrs(m)
    BY <1>2 DEF LaddrsOf
  <2> HIDE DEF l
  <2>4. LaddrsOf(d, m.localif, l) = ThisAddrs(m)
    BY <2>1, <2>2, <2>3, SideFound
  <2> QED
    BY <2>4 DEF LaddrsOf, l
<1> QED
  BY <1>3

(* Objects, addresses and counters decide what is ordered. *)
LEMMA OrderedSame ==
    ASSUME NEW d, NEW e, NEW O, NEW l0, Ordered(d, O, l0), SameAddrs(d, e), Counted(e)
    PROVE  Ordered(e, O, l0)
<1>1. Owners(e, O)
  BY DEF Ordered, Owners, SameAddrs
<1>2. \A l \in e.links \ {l0} : Whole(e, l, O[e.neigh[l]])
  BY DEF Ordered, Whole, LaddrsOf, SameAddrs
<1>3. \A n \in e.neighs : LinksOf(e, n) # {}
  BY DEF Ordered, LinksOf, SameAddrs
<1> QED
  BY <1>1, <1>2, <1>3 DEF Ordered

(***************************************************************************)
(* What is removed.  Database e is d without some neighbors and links;     *)
(* what stays keeps its pointers, addresses and originators.               *)
(***************************************************************************)
Shrinks(d, O, e, P) ==
    /\ e.neighs \subseteq d.neighs /\ Keeps(d, e)
    /\ \A l \in e.links : e.neigh[l] = d.neigh[l]
    /\ \A n \in e.neighs : P[n] = O[n]
    /\ \A a \in Addrs : e.naddr[a] # NoNeigh => e.naddr[a] = d.naddr[a]

(* Owners and whole links stay that. *)
LEMMA ShrinksOrdered ==
    ASSUME NEW d, Good(d), NEW O, NEW l0, Ordered(d, O, l0), NEW e, Good(e), NEW P,
           Shrinks(d, O, e, P), l0 \notin e.links,
           \A n \in e.neighs : LinksOf(e, n) # {}, Counted(e)
    PROVE  Ordered(e, P, NoLink)
<1>1. Owners(e, P)
  <2>1. \A a \in Addrs : e.naddr[a] # NoNeigh => e.naddr[a] \in e.neighs
    BY DEF Good, ReferencesAlive
  <2>2. \A n \in e.neighs : n \in d.neighs /\ P[n] = O[n]
    BY DEF Shrinks
  <2>3. ASSUME NEW a \in Addrs, e.naddr[a] # NoNeigh
        PROVE  \E m \in Readable(Hellos) : a \in NeighborAddrs(m) /\ m.orig = P[e.naddr[a]]
    BY <2>1, <2>2, <2>3 DEF Ordered, Owners, Shrinks
  <2> QED
    BY <2>2, <2>3 DEF Ordered, Owners
<1>2. ASSUME NEW l \in e.links PROVE Whole(e, l, P[e.neigh[l]])
  <2>1. l \in d.links /\ l # l0 /\ e.neigh[l] = d.neigh[l] /\ e.localif[l] = d.localif[l]
    BY DEF Shrinks, Keeps
  <2>2. e.neigh[l] \in e.neighs /\ d.localif[l] \in Ifs
    BY DEF Good, ReferencesAlive, Databases, Shrinks, Keeps
  <2>3. LaddrsOf(e, d.localif[l], l) = LaddrsOf(d, d.localif[l], l)
    BY <2>1, <2>2 DEF LaddrsOf, Shrinks, Keeps
  <2>4. P[e.neigh[l]] = O[d.neigh[l]]
    BY <2>1, <2>2 DEF Shrinks
  <2>5. Whole(d, l, O[d.neigh[l]])
    BY <2>1 DEF Ordered
  <2> QED
    BY <2>1, <2>3, <2>4, <2>5 DEF Whole
<1> QED
  BY <1>1, <1>2 DEF Ordered

(* Removals compose. *)
LEMMA ShrinksTwice ==
    ASSUME NEW d, NEW O, NEW e, NEW P, NEW f, NEW Q, Shrinks(d, O, e, P), Shrinks(e, P, f, Q)
    PROVE  Shrinks(d, O, f, Q)
<1>1. Keeps(d, f)
  BY KeepsTwice DEF Shrinks
<1>2. f.links \subseteq e.links
  BY DEF Shrinks, Keeps
<1> QED
  BY <1>1, <1>2 DEF Shrinks

(* Database e is d without neighbor n; the others keep their links. *)
WithoutOne(d, n, e) ==
    /\ Shrinks(d, d.orig, e, e.orig) /\ e.neighs = d.neighs \ {n}
    /\ \A x \in e.neighs : LinksOf(e, x) = LinksOf(d, x)
    /\ \A l \in e.links : d.neigh[l] # n

(* A removed neighbor takes its links out of the count. *)
LEMMA NeighborRemoveRest ==
    ASSUME NEW d, Good(d), NEW n \in d.neighs, Counted(d)
    PROVE  LET e == nhdp_db_neighbor_remove(d, n)
           IN  Counted(e) /\ WithoutOne(d, n, e)
<1> DEFINE e == nhdp_db_neighbor_remove(d, n)
           S == LinksOf(d, n)
<1>2. WithoutNeighbor(d, n, e) /\ WithoutLinks(d, S, e)
  BY NeighborRemoveView
<1>3. /\ d.links \subseteq Links /\ d.neighs \subseteq Neighs
      /\ d.symmetric \in [Neighs -> Int] /\ d.orig \in [Neighs -> Addrs \cup {NoAddr}]
  BY DEF Good, Databases
<1>4. \A l : l \in S <=> l \in d.links /\ d.neigh[l] = n
  BY DEF LinksOf
<1> HIDE DEF e, S
<1>5. Shrinks(d, d.orig, e, e.orig) /\ \A l \in e.links : d.neigh[l] # n
  BY <1>2, <1>3, <1>4 DEF Shrinks, Keeps, WithoutNeighbor, WithoutLinks
<1>6. ASSUME NEW x \in e.neighs
      PROVE  LinksOf(e, x) = LinksOf(d, x) /\ SymLinks(e, x) = SymLinks(d, x)
  <2>1. x # n
    BY <1>2 DEF WithoutNeighbor
  <2>2. \A l \in d.links : d.neigh[l] = x => l \in e.links /\ e.neigh[l] = x /\ e.status[l] = d.status[l]
    BY <1>2, <1>3, <1>4, <2>1 DEF WithoutLinks
  <2>3. \A l \in e.links : l \in d.links /\ e.neigh[l] = d.neigh[l] /\ e.status[l] = d.status[l]
    BY <1>2, <1>3 DEF WithoutLinks
  <2> QED
    BY <2>2, <2>3 DEF LinksOf, SymLinks
<1>8. Counted(e)
  <2>1. \A x \in e.neighs : e.symmetric[x] = Cardinality(SymLinks(e, x))
    BY <1>2, <1>3, <1>6, CountedSym DEF Counted, WithoutNeighbor
  <2>2. Blank(e)
    BY <1>2, <1>3 DEF Counted, Blank, WithoutNeighbor, WithoutLinks
  <2> QED
    BY <2>1, <2>2, CountedSym DEF Counted
<1>9. e.neighs = d.neighs \ {n}
  BY <1>2 DEF WithoutNeighbor
<1> QED
  BY <1>5, <1>6, <1>8, <1>9 DEF e, WithoutOne

(* Without a neighbor the rest is ordered. *)
LEMMA NeighborRemoveOrdered ==
    ASSUME NEW d, Good(d), NEW n \in d.neighs, NEW O, NEW l0, Ordered(d, O, l0),
           l0 \in d.links => d.neigh[l0] = n,
           \A x \in d.neighs \ {n} : O[x] = d.orig[x]
    PROVE  LET e == nhdp_db_neighbor_remove(d, n) IN Ordered(e, e.orig, NoLink)
<1> DEFINE e == nhdp_db_neighbor_remove(d, n)
<1>1. Good(e)
  BY NeighborRemoveGood
<1>a. Counted(e) /\ WithoutOne(d, n, e)
  BY NeighborRemoveRest DEF Ordered
<1> HIDE DEF e
<1>2. /\ Counted(e) /\ Shrinks(d, d.orig, e, e.orig) /\ e.neighs = d.neighs \ {n}
      /\ \A x \in e.neighs : LinksOf(e, x) = LinksOf(d, x)
      /\ \A l \in e.links : d.neigh[l] # n
  BY <1>a DEF WithoutOne
<1>3. Shrinks(d, O, e, e.orig) /\ l0 \notin e.links
  BY <1>2 DEF Shrinks, Keeps
<1>4. \A x \in e.neighs : LinksOf(e, x) # {}
  BY <1>2 DEF Ordered
<1>5. Ordered(e, e.orig, NoLink)
  BY <1>1, <1>2, <1>3, <1>4, ShrinksOrdered
<1> QED
  BY <1>5 DEF e

(* Link and neighbor of a session are removed. *)
LEMMA CleanupOrdered ==
    ASSUME NEW d, Good(d), NEW c, CleanupDefined(d, c), NEW O, NEW l0, Ordered(d, O, l0),
           c.link # NoLink => c.neigh # NoNeigh /\ d.neigh[c.link] = c.neigh,
           l0 \in {NoLink, c.link}, \A x \in d.neighs \ {c.neigh} : O[x] = d.orig[x]
    PROVE  LET e == _cleanup_error(d, c) IN Ordered(e, e.orig, NoLink)
<1> DEFINE S == {c.link}
           d1 == nhdp_db_link_remove(d, S)
           q == IF c.link = NoLink THEN d ELSE d1
           e == _cleanup_error(d, c)
<1>0. NoLink \notin d.links /\ d.neighs \subseteq Neighs /\ NoNeigh \notin d.neighs
  BY NhdpDbAssumption DEF Good, Databases
<1>1. CASE c.neigh = NoNeigh
  <2>1. c.link = NoLink /\ e = d /\ l0 = NoLink
    BY <1>1 DEF _cleanup_error
  <2>2. \A n \in d.neighs : d.orig[n] = O[n]
    BY <1>0, <1>1
  <2>3. Shrinks(d, O, d, d.orig)
    BY <2>2 DEF Shrinks, Keeps
  <2>4. Ordered(d, d.orig, NoLink)
    BY <1>0, <2>1, <2>3, ShrinksOrdered DEF Ordered
  <2> QED
    BY <2>1, <2>4
<1>2. CASE c.neigh # NoNeigh
  <2> DEFINE n == c.neigh
  <2>1. n \in d.neighs
    BY <1>2 DEF CleanupDefined
  <2>2. e = nhdp_db_neighbor_remove(q, n)
    BY <1>2 DEF _cleanup_error
  <2>3. CASE c.link = NoLink
    <3>1. q = d /\ l0 \notin d.links
      BY <1>0, <2>3
    <3> HIDE DEF q, n, e
    <3>2. \A x \in d.neighs \ {n} : O[x] = d.orig[x]
      BY DEF n
    <3> DEFINE f == nhdp_db_neighbor_remove(d, n)
    <3>3. Ordered(f, f.orig, NoLink)
      BY <2>1, <3>1, <3>2, NeighborRemoveOrdered
    <3> HIDE DEF f
    <3>4. e = f
      BY <2>2, <3>1 DEF f
    <3> QED
      BY <3>3, <3>4 DEF e
  <2>4. CASE c.link # NoLink
    <3>1. q = d1 /\ S \subseteq d.links /\ d.neigh[c.link] = n
      BY <2>4 DEF CleanupDefined
    <3> HIDE DEF S, n
    <3>2. Good(d1)
      BY <3>1, LinkRemoveGood
    <3>3. /\ WithoutLinks(d, S, d1) /\ d1.neighs = d.neighs /\ d1.naddr = d.naddr
          /\ d1.orig = d.orig /\ d1.symmetric = d.symmetric
      BY <3>1, LinkRemoveView
    <3> HIDE DEF d1, q, e
    <3> DEFINE f == nhdp_db_neighbor_remove(d1, n)
               T == LinksOf(d1, n)
    <3>4. Good(f) /\ e = f
      BY <2>1, <2>2, <3>1, <3>2, <3>3, NeighborRemoveGood
    <3>5. WithoutNeighbor(d1, n, f) /\ WithoutLinks(d1, T, f)
      BY <2>1, <3>2, <3>3, NeighborRemoveView
    <3>6. /\ d.links \subseteq Links /\ d.symmetric \in [Neighs -> Int]
          /\ d.orig \in [Neighs -> Addrs \cup {NoAddr}]
      BY DEF Good, Databases
    <3>7. /\ \A l : l \in T <=> l \in d1.links /\ d1.neigh[l] = n
          /\ \A l : l \in S <=> l = c.link
      BY DEF LinksOf, S
    <3> HIDE DEF f, T
    <3>8. Keeps(d, f)
      BY <3>3, <3>5, KeepsTwice DEF WithoutLinks
    <3>9. \A l \in f.links : l \in d.links /\ f.neigh[l] = d.neigh[l] /\ f.status[l] = d.status[l]
      BY <3>3, <3>5, <3>6 DEF WithoutLinks
    <3>10. Shrinks(d, O, f, f.orig) /\ l0 \notin f.links
      <4>1. \A a \in Addrs : f.naddr[a] # NoNeigh => f.naddr[a] = d.naddr[a]
        BY <3>3, <3>5 DEF WithoutNeighbor
      <4>2. \A x \in f.neighs : f.orig[x] = O[x]
        BY <1>0, <3>3, <3>5, <3>6 DEF n, WithoutNeighbor
      <4>3. l0 \notin f.links
        BY <1>0, <3>3, <3>5, <3>7 DEF WithoutLinks
      <4> QED
        BY <3>3, <3>5, <3>8, <3>9, <4>1, <4>2, <4>3 DEF Shrinks, WithoutNeighbor
    <3>11. ASSUME NEW x \in f.neighs
           PROVE  LinksOf(f, x) = LinksOf(d, x) /\ SymLinks(f, x) = SymLinks(d, x)
      <4>1. x # n
        BY <3>5 DEF WithoutNeighbor
      <4>2. \A l \in d.links : d.neigh[l] = x => l \in f.links
        <5> SUFFICES ASSUME NEW l \in d.links, d.neigh[l] = x PROVE l \in f.links
          OBVIOUS
        <5>1. l \notin S
          BY <3>1, <3>7, <4>1
        <5>2. l \in d1.links /\ d1.neigh[l] = x
          BY <3>3, <3>6, <5>1 DEF WithoutLinks
        <5>3. l \notin T
          BY <3>7, <4>1, <5>2
        <5> QED
          BY <3>5, <5>2, <5>3 DEF WithoutLinks
      <4> QED
        BY <3>9, <4>2 DEF LinksOf, SymLinks
    <3>12. \A x \in f.neighs : LinksOf(f, x) # {}
      BY <3>3, <3>5, <3>11 DEF Ordered, WithoutNeighbor
    <3>13. Counted(f)
      <4>1. \A x \in f.neighs : f.symmetric[x] = Cardinality(SymLinks(f, x))
        BY <1>0, <3>3, <3>5, <3>6, <3>11, CountedSym DEF Ordered, Counted, WithoutNeighbor
      <4>2. Blank(f)
        BY <1>0, <3>3, <3>5, <3>6 DEF Ordered, Counted, Blank, WithoutNeighbor, WithoutLinks
      <4> QED
        BY <4>1, <4>2, CountedSym DEF Counted
    <3>14. Ordered(f, f.orig, NoLink)
      BY <3>4, <3>10, <3>12, <3>13, ShrinksOrdered
    <3> QED
      BY <3>4, <3>14 DEF e
  <2> QED
    BY <2>3, <2>4
<1> QED
  BY <1>1, <1>2

(***************************************************************************)
(* The validity time of a link: the counter of its neighbor goes down when *)
(* it was symmetric, and a neighbor without links goes too.                *)
(***************************************************************************)
WithoutLink(d, l) ==
    LET d1 == IF d.status[l] = "SYMMETRIC"
              THEN _link_status_not_symmetric_anymore(d, l) ELSE d
        d2 == nhdp_db_link_remove(d1, {l})
    IN  IF LinksOf(d2, d.neigh[l]) = {} THEN nhdp_db_neighbor_remove(d2, d.neigh[l]) ELSE d2

(* The rest is ordered. *)
LEMMA VtimeOrdered ==
    ASSUME NEW d, Good(d), NEW l \in d.links, Ordered(d, d.orig, NoLink)
    PROVE  LET e == WithoutLink(d, l)
           IN  Ordered(e, e.orig, NoLink) /\ \A x \in e.links : e.neigh[x] = d.neigh[x]
<1> DEFINE n == d.neigh[l]
           S == {l}
           d1 == IF d.status[l] = "SYMMETRIC"
                 THEN _link_status_not_symmetric_anymore(d, l) ELSE d
           d2 == nhdp_db_link_remove(d1, S)
           d3 == WithoutLink(d, l)
<1>0. d3 = IF LinksOf(d2, n) = {} THEN nhdp_db_neighbor_remove(d2, n) ELSE d2
  BY DEF WithoutLink
<1>1. /\ n \in d.neighs /\ n \in Neighs /\ l \in Links /\ d.links \subseteq Links
      /\ d.neighs \subseteq Neighs /\ d.symmetric \in [Neighs -> Int]
  BY DEF Good, Databases, ReferencesAlive
<1>2. /\ Good(d1) /\ SameStructure(d, d1) /\ d1.status = d.status
      /\ d.status[l] = "SYMMETRIC" => d1.symmetric = [d.symmetric EXCEPT ![n] = @ - 1]
      /\ d.status[l] # "SYMMETRIC" => d1.symmetric = d.symmetric
  <2>1. CASE d.status[l] = "SYMMETRIC"
    <3>1. d1 = _link_status_not_symmetric_anymore(d, l)
      BY <2>1
    <3> QED
      BY <2>1, <3>1, NotSymmetricGood, NotSymmetricView
  <2>2. CASE d.status[l] # "SYMMETRIC"
    BY <2>2 DEF SameStructure
  <2> QED
    BY <2>1, <2>2
<1>3. S \subseteq d1.links /\ \A x : x \in S <=> x = l
  BY <1>2 DEF SameStructure
<1> HIDE DEF S, n, d1, d3
<1> SUFFICES Ordered(d3, d3.orig, NoLink) /\ \A x \in d3.links : d3.neigh[x] = d.neigh[x]
  BY DEF d3
<1>4. /\ WithoutLinks(d1, S, d2) /\ d2.neighs = d1.neighs /\ d2.naddr = d1.naddr
      /\ d2.orig = d1.orig /\ d2.symmetric = d1.symmetric
  BY <1>2, <1>3, LinkRemoveView
<1>5. Good(d2)
  BY <1>2, <1>3, LinkRemoveGood
<1> HIDE DEF d2
<1>6. /\ d2.links = d.links \ S /\ Keeps(d, d2) /\ d2.neighs = d.neighs /\ d2.orig = d.orig
      /\ d2.naddr = d.naddr
      /\ \A x \in d2.links : d2.neigh[x] = d.neigh[x] /\ d2.status[x] = d.status[x]
  <2>1. Keeps(d1, d2) /\ Keeps(d, d1)
    BY <1>2, <1>4, StructureKeeps DEF WithoutLinks
  <2>2. Keeps(d, d2)
    BY <2>1, KeepsTwice
  <2>3. /\ d1.links = d.links /\ d1.neighs = d.neighs /\ d1.orig = d.orig
        /\ d1.naddr = d.naddr /\ d1.neigh = d.neigh
    BY <1>2 DEF SameStructure
  <2>4. d2.links = d.links \ S
    BY <1>4, <2>3 DEF WithoutLinks
  <2>5. ASSUME NEW x \in d2.links PROVE d2.neigh[x] = d.neigh[x] /\ d2.status[x] = d.status[x]
    <3>1. x \in Links /\ x \in d1.links /\ x \notin S
      BY <1>1, <2>3, <2>4
    <3> QED
      BY <1>2, <1>4, <2>3, <3>1 DEF WithoutLinks
  <2> QED
    BY <1>4, <2>2, <2>3, <2>4, <2>5
<1>7. Shrinks(d, d.orig, d2, d2.orig)
  BY <1>6 DEF Shrinks
<1>8. ASSUME NEW x \in d.neighs, x # n
      PROVE  LinksOf(d2, x) = LinksOf(d, x) /\ SymLinks(d2, x) = SymLinks(d, x)
  <2>1. d.neigh[l] # x
    BY <1>8 DEF n
  <2>2. \A y \in d.links : d.neigh[y] = x => y \in d2.links
    BY <1>3, <1>6, <2>1
  <2>3. \A y \in d2.links : y \in d.links /\ d2.neigh[y] = d.neigh[y] /\ d2.status[y] = d.status[y]
    BY <1>6
  <2> QED
    BY <2>2, <2>3 DEF LinksOf, SymLinks
<1>9. SymLinks(d2, n) = SymLinks(d, n) \ {l}
  BY <1>3, <1>6 DEF LinksOf, SymLinks
<1>10. l \in SymLinks(d, n) <=> d.status[l] = "SYMMETRIC"
  BY DEF SymLinks, LinksOf, n
<1>11. Counted(d2)
  <2>1. d.symmetric[n] = Cardinality(SymLinks(d, n)) /\ IsFiniteSet(SymLinks(d, n))
    BY <1>1, CountedSym, SymFinite DEF Ordered, Counted, Good
  <2>2. Cardinality(SymLinks(d, n) \ {l}) =
          IF l \in SymLinks(d, n) THEN Cardinality(SymLinks(d, n)) - 1 ELSE Cardinality(SymLinks(d, n))
    BY <2>1, FS_RemoveElement
  <2>3. d2.symmetric[n] = Cardinality(SymLinks(d2, n))
    <3>1. CASE d.status[l] = "SYMMETRIC"
      <4>1. d2.symmetric[n] = d.symmetric[n] - 1
        BY <1>1, <1>2, <1>4, <3>1
      <4> QED
        BY <1>9, <1>10, <2>1, <2>2, <3>1, <4>1
    <3>2. CASE d.status[l] # "SYMMETRIC"
      <4>1. d2.symmetric[n] = d.symmetric[n]
        BY <1>2, <1>4, <3>2
      <4> QED
        BY <1>9, <1>10, <2>1, <2>2, <3>2, <4>1
    <3> QED
      BY <3>1, <3>2
  <2>4. \A x \in Neighs : x # n => d2.symmetric[x] = d.symmetric[x]
    BY <1>1, <1>2, <1>4
  <2>5. \A x \in d2.neighs : d2.symmetric[x] = Cardinality(SymLinks(d2, x))
    BY <1>1, <1>6, <1>8, <2>3, <2>4, CountedSym DEF Ordered, Counted
  <2>6. Blank(d2)
    <3>1. \A x \in Neighs \ d2.neighs : d2.symmetric[x] = 0
      BY <1>1, <1>6, <2>4 DEF Ordered, Counted, Blank
    <3>2. \A x \in Links \ d2.links : d2.status[x] = "LOST"
      <4> SUFFICES ASSUME NEW x \in Links \ d2.links PROVE d2.status[x] = "LOST"
        OBVIOUS
      <4>1. x \notin d.links => d.status[x] = "LOST"
        BY DEF Ordered, Counted, Blank
      <4>2. x \in S \/ x \notin d.links
        BY <1>6
      <4> QED
        BY <1>2, <1>4, <4>1, <4>2 DEF WithoutLinks
    <3> QED
      BY <3>1, <3>2 DEF Blank
  <2> QED
    BY <2>5, <2>6, CountedSym DEF Counted
<1>12. NoLink \notin d.links
  BY NhdpDbAssumption DEF Good, Databases
<1>13. CASE LinksOf(d2, n) # {}
  <2>1. d3 = d2
    BY <1>0, <1>13
  <2>2. \A x \in d2.neighs : LinksOf(d2, x) # {}
    BY <1>6, <1>8, <1>13 DEF Ordered
  <2>3. Ordered(d2, d2.orig, NoLink)
    BY <1>5, <1>6, <1>7, <1>11, <1>12, <2>2, ShrinksOrdered
  <2> QED
    BY <1>6, <2>1, <2>3
<1>14. CASE LinksOf(d2, n) = {}
  <2>1. d3 = nhdp_db_neighbor_remove(d2, n) /\ n \in d2.neighs
    BY <1>0, <1>1, <1>6, <1>14
  <2> DEFINE f == nhdp_db_neighbor_remove(d2, n)
  <2>a. Counted(f) /\ WithoutOne(d2, n, f)
    BY <1>5, <1>11, <2>1, NeighborRemoveRest
  <2>b. d3 = f
    BY <2>1
  <2> HIDE DEF f
  <2>2. /\ Counted(d3) /\ Shrinks(d2, d2.orig, d3, d3.orig) /\ d3.neighs = d2.neighs \ {n}
        /\ \A x \in d3.neighs : LinksOf(d3, x) = LinksOf(d2, x)
    BY <2>a, <2>b DEF WithoutOne
  <2>3. Good(d3)
    BY <1>5, <2>1, NeighborRemoveGood
  <2>4. Shrinks(d, d.orig, d3, d3.orig)
    BY <1>7, <2>2, ShrinksTwice
  <2>5. \A x \in d3.neighs : LinksOf(d3, x) # {}
    <3> SUFFICES ASSUME NEW x \in d3.neighs PROVE LinksOf(d3, x) # {}
      OBVIOUS
    <3>1. x # n /\ x \in d.neighs
      BY <1>6, <2>2
    <3> QED
      BY <1>8, <2>2, <3>1 DEF Ordered
  <2>6. NoLink \notin d3.links
    BY <2>3, NhdpDbAssumption DEF Good, Databases
  <2>7. Ordered(d3, d3.orig, NoLink)
    BY <2>2, <2>3, <2>4, <2>5, <2>6, ShrinksOrdered
  <2> QED
    BY <2>4, <2>7 DEF Shrinks
<1> QED
  BY <1>13, <1>14

(* Between HELLOs, nothing a timer or the hysteresis does upsets the order. *)
LEMMA TimeoutOrdered ==
    ASSUME IInv, IInv', OInv, ~undef, Timeout \/ HysteresisEvent
    PROVE  OInv'
<1>0. Good(db) /\ Good(db') /\ db.symTime \cup db.heardTime \cup db.vtime \subseteq db.links
  BY DEF IInv, Good, ReferencesAlive
<1>1. ASSUME Idle, NEW d, DbStep(d), Session0(d, cur) PROVE OInv'
  <2>1. db' = d /\ cur' = cur /\ pc' = "idle"
    BY <1>1 DEF DbStep, Idle
  <2> QED
    BY <1>1, <2>1 DEF OInv
<1>2. ASSUME Idle, NEW d, SameAddrs(db, d), d.orig = db.orig, Counted(d) PROVE Session0(d, cur)
  <2>1. Session0(db, cur)
    BY <1>2 DEF OInv, Idle
  <2>2. Ordered(d, d.orig, NoLink)
    BY <1>2, <2>1, OrderedSame DEF Session0
  <2> QED
    BY <1>2, <2>1, <2>2 DEF Session0, SameAddrs
<1>3. ASSUME Idle, NEW l \in db.links, NEW d, Good(d), SameView(db, d),
             DbStep(nhdp_db_link_update_status(d, l))
      PROVE  OInv'
  <2> DEFINE e == nhdp_db_link_update_status(d, l)
  <2>1. Counted(d)
    BY <1>3, CountedSame DEF OInv, Idle, Session0, Ordered, SameView, SameAddrs
  <2>2. l \in d.links
    BY <1>3 DEF SameView, SameAddrs
  <2>3. SameStructure(d, e) /\ Counted(e)
    BY <1>3, <2>1, <2>2, UpdateStatusGood, UpdateStatusCounted
  <2> HIDE DEF e
  <2>4. SameAddrs(db, e) /\ e.orig = db.orig
    BY <1>3, <2>3 DEF SameView, SameAddrs, SameStructure
  <2>5. Session0(e, cur)
    BY <1>2, <1>3, <2>3, <2>4
  <2> QED
    BY <1>1, <1>3, <2>5 DEF e
<1>4. ASSUME NEW l \in Links, _cb_link_symtime(l) PROVE OInv'
  <2> DEFINE d1 == [db EXCEPT !.symTime = @ \ {l}]
  <2>1. l \in db.links /\ Idle /\ DbStep(nhdp_db_link_update_status(d1, l))
    BY <1>0, <1>4 DEF _cb_link_symtime
  <2>2. Good(d1) /\ SameView(db, d1)
    BY <1>0, <2>1, TimerGood, DataView DEF Good
  <2> HIDE DEF d1
  <2> QED
    BY <1>3, <2>1, <2>2
<1>5. ASSUME NEW l \in Links, _cb_link_heard(l) PROVE OInv'
  <2> DEFINE d1 == [db EXCEPT !.heardTime = @ \ {l}]
  <2>1. l \in db.links /\ Idle /\ DbStep(nhdp_db_link_update_status(d1, l))
    BY <1>0, <1>5 DEF _cb_link_heard
  <2>2. Good(d1) /\ SameView(db, d1)
    BY <1>0, <2>1, TimerGood, DataView DEF Good
  <2> HIDE DEF d1
  <2> QED
    BY <1>3, <2>1, <2>2
<1>6. ASSUME NEW l \in Links, _cb_link_vtime(l) PROVE OInv'
  <2> DEFINE d3 == WithoutLink(db, l)
  <2>1. l \in db.links /\ Idle /\ DbStep(d3)
    BY <1>0, <1>6 DEF _cb_link_vtime, WithoutLink
  <2>2. Session0(db, cur)
    BY <2>1 DEF OInv, Idle
  <2>3. Ordered(d3, d3.orig, NoLink) /\ \A x \in d3.links : d3.neigh[x] = db.neigh[x]
    <3>1. Ordered(db, db.orig, NoLink)
      BY <2>2 DEF Session0
    <3> QED
      BY <1>0, <2>1, <3>1, VtimeOrdered
  <2>4. Keeps(db, db') /\ db' = d3
    BY <1>6, <2>1, TimeoutKeeps DEF DbStep, Timeout
  <2> HIDE DEF d3
  <2>5. Session0(d3, cur)
    BY <2>2, <2>3, <2>4 DEF Session0, Keeps
  <2> QED
    BY <1>1, <2>1, <2>5
<1>7. ASSUME NEW a \in Addrs, _cb_naddr_vtime(a) PROVE OInv'
  <2> DEFINE e == nhdp_db_neighbor_addr_remove(db, a)
  <2>1. Idle /\ DbStep(e)
    BY <1>7 DEF _cb_naddr_vtime
  <2>2. /\ e.neighs = db.neighs /\ e.links = db.links /\ e.neigh = db.neigh
        /\ e.localif = db.localif /\ e.laddr = db.laddr /\ SameCounts(db, e)
        /\ e.orig = db.orig /\ e.naddr = [db.naddr EXCEPT ![a] = NoNeigh]
    BY <1>0 DEF nhdp_db_neighbor_addr_remove, Good, Databases, SameCounts
  <2>3. Session0(db, cur) /\ Good(e)
    BY <1>0, <2>1, NeighborAddrRemoveGood DEF OInv, Idle
  <2> HIDE DEF e
  <2>4. Shrinks(db, db.orig, e, e.orig)
    BY <1>0, <2>2 DEF Shrinks, Keeps, Good, Databases
  <2>5. Counted(e)
    BY <2>2, <2>3, CountedSame DEF Session0, Ordered
  <2>6. \A x \in e.neighs : LinksOf(e, x) # {}
    BY <2>2, <2>3 DEF Session0, Ordered, LinksOf
  <2>7. NoLink \notin e.links
    BY <2>3, NhdpDbAssumption DEF Good, Databases
  <2>8. Ordered(e, e.orig, NoLink)
    BY <1>0, <2>3, <2>4, <2>5, <2>6, <2>7, ShrinksOrdered DEF Session0
  <2>9. Session0(e, cur)
    BY <2>2, <2>3, <2>8 DEF Session0
  <2> QED
    BY <1>1, <2>1, <2>9
<1>8. ASSUME NEW h \in Links \X Addrs, _cb_l2hop_vtime(h) PROVE OInv'
  <2> DEFINE t == db.twohop \ {h}
             e == [db EXCEPT !.twohop = t]
  <2>1. Idle /\ DbStep(e)
    BY <1>8 DEF _cb_l2hop_vtime
  <2> HIDE DEF t
  <2>2. SameView(db, e)
    BY <1>0, DataView DEF Good
  <2> HIDE DEF e
  <2>3. Counted(e)
    BY <2>1, <2>2, CountedSame DEF OInv, Idle, Session0, Ordered, SameView, SameAddrs
  <2>4. Session0(e, cur)
    BY <1>2, <2>1, <2>2, <2>3 DEF SameView
  <2> QED
    BY <1>1, <2>1, <2>4
<1>9. ASSUME NEW l \in Links, NEW h \in HystValues, HysteresisChange(l, h) PROVE OInv'
  <2> DEFINE hy == [db.hyst EXCEPT ![l] = h]
             d1 == [db EXCEPT !.hyst = hy]
  <2>1. l \in db.links /\ Idle /\ DbStep(nhdp_db_link_update_status(d1, l)) /\ h \in Hysteresis
    BY <1>9, NhdpAssumption DEF HysteresisChange
  <2>2. Good(d1)
    BY <1>0, <2>1, HystGood
  <2> HIDE DEF hy
  <2>3. SameView(db, d1)
    BY <1>0, DataView DEF Good
  <2> HIDE DEF d1
  <2> QED
    BY <1>3, <2>1, <2>2, <2>3
<1> QED
  BY <1>4, <1>5, <1>6, <1>7, <1>8, <1>9 DEF Timeout, HysteresisEvent

(* The HELLO that is read *)
LEMMA OrderlyMessage ==
    ASSUME Orderly(Hellos), TypeOK, pc # "idle", msg.bad = "no"
    PROVE  /\ msg \in Readable(Hellos) /\ msg \in Messages /\ msg.localif \in Ifs
           /\ msg.orig \in Addrs /\ Len(msg.addrs) \in Nat
           /\ \A j \in 1 .. Len(msg.addrs) : msg.addrs[j].addr \in Addrs
<1>1. msg \in Readable(Hellos)
  BY DEF Readable, TypeOK
<1>2. msg \in Messages /\ msg.orig \in Addrs
  BY <1>1, OrderlyFacts
<1> QED
  BY <1>1, <1>2, AddressParts

(* An address of the first pass belongs to what was found before. *)
LEMMA Pass1Ordered ==
    ASSUME Orderly(Hellos), NEW d, Good(d), NEW c, SessionFits(d, c, msg.localif),
           msg \in Readable(Hellos), NEW k, k <= Len(msg.addrs), Session1(msg, k, d, c)
    PROVE  Session1(msg, k + 1, d, Pass1Session(d, c, msg.addrs[k]))
<1> DEFINE x == msg.addrs[k]
           i == msg.localif
           n == d.naddr[x.addr]
           l == d.laddr[i][x.addr]
           hitN == x.lif # "none" /\ n # NoNeigh
           hitL == x.lif = "this" /\ l # NoLink
           clashN == hitN /\ ~c.naddr_conflict /\ c.neigh \notin {NoNeigh, n}
           clashL == hitL /\ ~c.laddr_conflict /\ c.link \notin {NoLink, l}
           e == Pass1Session(d, c, x)
<1>1. msg \in Messages
  BY OrderlyFacts
<1>2. /\ k \in 1 .. Len(msg.addrs) /\ Len(msg.addrs) \in Nat /\ x.addr \in Addrs /\ i \in Ifs
      /\ k + 1 \in 1 .. Len(msg.addrs) + 1 /\ (k + 1) - 1 = k /\ 1 .. k - 1 \subseteq 1 .. Len(msg.addrs)
  BY <1>1, AddressParts DEF Session1
<1>3. x.addr # msg.orig
  BY <1>2, OrderlyFacts
<1>4. Ordered(d, d.orig, NoLink) /\ Owners(d, d.orig)
  BY DEF Session1, Ordered
<1>5. hitN => d.orig[n] = msg.orig /\ n \in d.neighs
  <2> SUFFICES ASSUME hitN PROVE d.orig[n] = msg.orig /\ n \in d.neighs
    OBVIOUS
  <2>1. x.addr \in NeighborAddrs(msg)
    BY <1>1, <1>2, Positions
  <2>2. n \in d.neighs
    BY <1>2 DEF Good, ReferencesAlive
  <2> QED
    BY <1>4, <2>1, <2>2, SenderFound
<1>6. ~clashN
  BY <1>4, <1>5 DEF Session1, SessionFits, Owners
<1>7. ASSUME NEW j \in 1 .. k - 1, ThisAt(msg, j), x.lif = "this"
      PROVE  l = c.link
  <2>1. msg.addrs[j].addr \in ThisAddrs(msg) /\ x.addr \in ThisAddrs(msg)
    BY <1>1, <1>2, <1>7, Positions DEF ThisAt
  <2>2. d.laddr[i][msg.addrs[j].addr] = l
    BY <1>4, <2>1, SideShared
  <2> QED
    BY <1>7, <2>2 DEF Session1
<1>8. c.link # NoLink /\ x.lif = "this" => l = c.link
  BY <1>7 DEF Session1
<1>9. ~clashL
  BY <1>8
<1>10. /\ e.neigh = IF clashN THEN NoNeigh ELSE IF hitN /\ ~c.naddr_conflict THEN n ELSE c.neigh
       /\ e.link = IF clashL THEN NoLink ELSE IF hitL /\ ~c.laddr_conflict THEN l ELSE c.link
       /\ e.naddr_conflict = (c.naddr_conflict \/ clashN)
       /\ e.laddr_conflict = (c.laddr_conflict \/ clashL)
       /\ e.has_thisif = (c.has_thisif \/ x.lif = "this")
       /\ e.originator_in_addrblk = (c.originator_in_addrblk \/ x.addr = msg.orig)
  BY DEF Pass1Session
<1>11. ~c.naddr_conflict /\ ~c.laddr_conflict /\ ~c.originator_in_addrblk
  BY DEF Session1
<1> HIDE DEF clashN, clashL, e
<1>12. /\ e.neigh = IF hitN THEN n ELSE c.neigh
       /\ e.link = IF hitL THEN l ELSE c.link
       /\ ~e.naddr_conflict /\ ~e.laddr_conflict /\ ~e.originator_in_addrblk
  BY <1>3, <1>6, <1>9, <1>10, <1>11
<1>13. e.neigh # NoNeigh => d.orig[e.neigh] = msg.orig /\ \E j \in 1 .. k : msg.addrs[j].lif # "none"
  <2>1. CASE hitN
    BY <1>2, <1>5, <1>12, <2>1
  <2>2. CASE ~hitN
    <3>1. e.neigh = c.neigh /\ 1 .. k - 1 \subseteq 1 .. k
      BY <1>2, <1>12, <2>2
    <3> HIDE DEF hitN, n, x
    <3> QED
      BY <3>1 DEF Session1
  <2> QED
    BY <2>1, <2>2
<1>14. e.link # NoLink => \E j \in 1 .. k : ThisAt(msg, j)
  <2>1. CASE hitL
    BY <1>2, <2>1 DEF ThisAt
  <2>2. CASE ~hitL
    <3>1. e.link = c.link /\ 1 .. k - 1 \subseteq 1 .. k
      BY <1>2, <1>12, <2>2
    <3> HIDE DEF hitL, l, x
    <3> QED
      BY <3>1 DEF Session1
  <2> QED
    BY <2>1, <2>2
<1>15. ASSUME NEW j \in 1 .. k, ThisAt(msg, j)
       PROVE  e.has_thisif /\ d.laddr[i][msg.addrs[j].addr] = e.link
  <2>1. CASE j = k
    <3>1. x.lif = "this" /\ d.laddr[i][msg.addrs[j].addr] = l
      BY <1>15, <2>1 DEF ThisAt
    <3>2. l = e.link
      BY <1>8, <1>12, <3>1
    <3> QED
      BY <1>10, <3>1, <3>2
  <2>2. CASE j # k
    <3>1. j \in 1 .. k - 1
      BY <1>2, <2>2
    <3>2. c.has_thisif /\ d.laddr[i][msg.addrs[j].addr] = c.link
      BY <1>15, <3>1 DEF Session1
    <3>3. hitL => l = c.link
      BY <1>7, <1>15, <3>1
    <3> QED
      BY <1>10, <1>12, <3>2, <3>3
  <2> QED
    BY <2>1, <2>2
<1> HIDE DEF x, i, n, l, hitN, hitL
<1>16. Session1(msg, k + 1, d, e)
  BY <1>2, <1>4, <1>12, <1>13, <1>14, <1>15 DEF Session1, i
<1> QED
  BY <1>16 DEF e, x

(* A dropped HELLO: what the session names is removed and the rest is      *)
(* ordered. *)
LEMMA DropOrdered ==
    ASSUME IInv, OInv, ~undef, DropMessage, NEW O, NEW l0, Ordered(db, O, l0),
           CleanupDefined(db, cur) =>
             /\ cur.link # NoLink => cur.neigh # NoNeigh /\ db.neigh[cur.link] = cur.neigh
             /\ l0 \in {NoLink, cur.link} /\ \A x \in db.neighs \ {cur.neigh} : O[x] = db.orig[x]
    PROVE  OInv'
<1>1. CASE CleanupDefined(db, cur)
  <2> DEFINE e == _cleanup_error(db, cur)
  <2>1. db' = e /\ pc' = "idle" /\ cur' = [EmptySession EXCEPT !.neigh = NoNeigh, !.link = NoLink]
    BY <1>1 DEF DropMessage, EndMessage, EmptySession
  <2>2. Ordered(e, e.orig, NoLink)
    BY <1>1, CleanupOrdered DEF IInv
  <2> HIDE DEF e
  <2>3. cur'.link = NoLink
    BY <2>1 DEF EmptySession
  <2>4. Session0(db', cur')
    BY <2>1, <2>2, <2>3 DEF Session0
  <2> QED
    BY <2>1, <2>4 DEF OInv
<1>2. CASE ~CleanupDefined(db, cur)
  BY <1>2 DEF DropMessage, UseOfFreedObject, OInv
<1> QED
  BY <1>1, <1>2

(* Database e is d after address a got the neighbor of session c and, when *)
(* it is of this interface i, the link; g is the session then. *)
Assigned(d, c, i, a, lif, e, g) ==
    /\ e.neighs = d.neighs /\ e.links = d.links /\ e.neigh = d.neigh
    /\ e.localif = d.localif /\ e.orig = d.orig /\ SameCounts(d, e)
    /\ e.naddr = [d.naddr EXCEPT ![a] = c.neigh]
    /\ \A j \in Ifs, b \in Addrs : e.laddr[j][b] =
         IF j = i /\ b = a /\ lif = "this" THEN c.link ELSE d.laddr[j][b]
    /\ g.neigh = c.neigh /\ g.link = c.link
    /\ g.mayGo = IF lif = "this" THEN c.mayGo \ {a} ELSE c.mayGo

(* The address that is of this interface *)
LEMMA LinkAddrAssigned ==
    ASSUME NEW d, Good(d), NEW c \in Sessions, msg.localif \in Ifs, NEW a \in Addrs,
           d.laddr[msg.localif][a] \in {NoLink, c.link}, c.link \in Links,
           \A b \in c.mayGo : d.laddr[msg.localif][b] = c.link
    PROVE  LET r == ProcessLinkAddr(d, c, a)
               e == r[1]
               g == r[2]
           IN  /\ e.neighs = d.neighs /\ e.links = d.links /\ e.neigh = d.neigh
               /\ e.localif = d.localif /\ e.orig = d.orig /\ SameCounts(d, e)
               /\ e.naddr = d.naddr
               /\ \A j \in Ifs, b \in Addrs : e.laddr[j][b] =
                    IF j = msg.localif /\ b = a THEN c.link ELSE d.laddr[j][b]
               /\ g.neigh = c.neigh /\ g.link = c.link /\ g.mayGo = c.mayGo \ {a}
               /\ e \in Databases /\ g \in Sessions
<1> DEFINE i == msg.localif
           l == d.laddr[i][a]
           cl == [c.countL EXCEPT ![l] = @ - 1]
           mg == c.mayGo \ {a}
           c1 == [c EXCEPT !.countL = cl, !.mayGo = mg]
           d1 == SetLinkAddr(d, i, a, c.link)
           r == ProcessLinkAddr(d, c, a)
<1>0. d \in Databases /\ c.link # NoLink
  BY NhdpDbAssumption DEF Good
<1>1. CASE l = NoLink
  <2>1. r = <<d1, c>>
    BY <1>1 DEF ProcessLinkAddr
  <2>2. a \notin c.mayGo
    BY <1>0, <1>1
  <2>3. c.mayGo = c.mayGo \ {a}
    BY <2>2
  <2>4. /\ d1.neighs = d.neighs /\ d1.links = d.links /\ d1.neigh = d.neigh
        /\ d1.localif = d.localif /\ d1.orig = d.orig /\ SameCounts(d, d1)
        /\ d1.naddr = d.naddr /\ d1 \in Databases
    BY <1>0 DEF SetLinkAddr, Databases, SameCounts
  <2>5. \A j \in Ifs, b \in Addrs : d1.laddr[j][b] =
          IF j = i /\ b = a THEN c.link ELSE d.laddr[j][b]
    BY <1>0 DEF SetLinkAddr, Databases
  <2> HIDE DEF d1, r
  <2> QED
    BY <2>1, <2>3, <2>4, <2>5 DEF r
<1>2. CASE l = c.link
  <2>1. r = <<d, c1>>
    BY <1>0, <1>2 DEF ProcessLinkAddr
  <2>2. cl \in [Links -> Int] /\ mg \in SUBSET Addrs
    BY <1>2 DEF Sessions
  <2> HIDE DEF cl
  <2>3. c1.neigh = c.neigh /\ c1.link = c.link /\ c1.mayGo = mg /\ c1 \in Sessions
    BY <2>2 DEF Sessions
  <2>4. \A j \in Ifs, b \in Addrs : d.laddr[j][b] =
          IF j = i /\ b = a THEN c.link ELSE d.laddr[j][b]
    BY <1>2
  <2> HIDE DEF c1, r
  <2> QED
    BY <1>0, <2>1, <2>3, <2>4 DEF r, SameCounts
<1> QED
  BY <1>1, <1>2

(* The address of the neighbor *)
LEMMA NeighborAddrAssigned ==
    ASSUME NEW d, d \in Databases, NEW c, c \in Sessions, c.neigh \in Neighs, NEW a \in Addrs,
           d.naddr[a] \in {NoNeigh, c.neigh}
    PROVE  LET r == ProcessNeighborAddr(d, c, a)
               e == r[1]
               g == r[2]
           IN  /\ e.neighs = d.neighs /\ e.links = d.links /\ e.neigh = d.neigh
               /\ e.localif = d.localif /\ e.orig = d.orig /\ SameCounts(d, e)
               /\ e.laddr = d.laddr /\ e.naddr = [d.naddr EXCEPT ![a] = c.neigh]
               /\ g.neigh = c.neigh /\ g.link = c.link /\ g.mayGo = c.mayGo
<1> DEFINE n == d.naddr[a]
           cn == [c.countN EXCEPT ![n] = @ - 1]
           c1 == [c EXCEPT !.countN = cn]
           d1 == SetNeighborAddr(d, a, c.neigh)
           mg == d1.mayGo \ {a}
           lo == d1.lost \ {a}
           d2 == [d1 EXCEPT !.mayGo = mg, !.lost = lo]
           r == ProcessNeighborAddr(d, c, a)
<1>1. /\ d1.neighs = d.neighs /\ d1.links = d.links /\ d1.neigh = d.neigh
      /\ d1.localif = d.localif /\ d1.orig = d.orig /\ SameCounts(d, d1)
      /\ d1.laddr = d.laddr /\ d1.naddr = [d.naddr EXCEPT ![a] = c.neigh] /\ d1 \in Databases
  BY DEF SetNeighborAddr, Databases, SameCounts
<1>2. CASE n = NoNeigh
  <2>1. r = <<d1, c>>
    BY <1>2 DEF ProcessNeighborAddr
  <2> HIDE DEF d1, r
  <2> QED
    BY <1>1, <2>1 DEF r
<1>3. CASE n # NoNeigh
  <2>1. r = <<d2, c1>>
    BY <1>3 DEF ProcessNeighborAddr
  <2> HIDE DEF d1, cn, mg, lo
  <2>2. SameView(d1, d2)
    BY <1>1, DataView
  <2>3. c1.neigh = c.neigh /\ c1.link = c.link /\ c1.mayGo = c.mayGo
    BY DEF Sessions
  <2> HIDE DEF d2, c1, r
  <2> QED
    BY <1>1, <2>1, <2>2, <2>3 DEF r, SameView, SameAddrs, SameCounts
<1> QED
  BY <1>2, <1>3

(* Both together *)
LEMMA LocalifAssigned ==
    ASSUME NEW d, Good(d), NEW c \in Sessions, msg.localif \in Ifs, NEW a \in Addrs, NEW lif,
           c.link \in Links, c.neigh \in Neighs,
           lif = "this" => d.laddr[msg.localif][a] \in {NoLink, c.link},
           d.naddr[a] \in {NoNeigh, c.neigh},
           \A b \in c.mayGo : d.laddr[msg.localif][b] = c.link
    PROVE  LET r == _pass2_process_localif(d, c, a, lif)
           IN  Assigned(d, c, msg.localif, a, lif, r[1], r[2])
<1> DEFINE p == IF lif = "this" THEN ProcessLinkAddr(d, c, a) ELSE <<d, c>>
           d1 == p[1]
           c1 == p[2]
           q == ProcessNeighborAddr(d1, c1, a)
           e == q[1]
           g == q[2]
<1>1. _pass2_process_localif(d, c, a, lif) = q
  BY DEF _pass2_process_localif
<1>2. /\ d1.neighs = d.neighs /\ d1.links = d.links /\ d1.neigh = d.neigh
      /\ d1.localif = d.localif /\ d1.orig = d.orig /\ SameCounts(d, d1)
      /\ d1.naddr = d.naddr
      /\ \A j \in Ifs, b \in Addrs : d1.laddr[j][b] =
           IF j = msg.localif /\ b = a /\ lif = "this" THEN c.link ELSE d.laddr[j][b]
      /\ c1.neigh = c.neigh /\ c1.link = c.link
      /\ c1.mayGo = IF lif = "this" THEN c.mayGo \ {a} ELSE c.mayGo
      /\ d1 \in Databases /\ c1 \in Sessions
  <2>1. CASE lif = "this"
    <3> DEFINE r == ProcessLinkAddr(d, c, a)
               f == r[1]
               h == r[2]
    <3>1. /\ f.neighs = d.neighs /\ f.links = d.links /\ f.neigh = d.neigh
          /\ f.localif = d.localif /\ f.orig = d.orig /\ SameCounts(d, f)
          /\ f.naddr = d.naddr
          /\ \A j \in Ifs, b \in Addrs : f.laddr[j][b] =
               IF j = msg.localif /\ b = a THEN c.link ELSE d.laddr[j][b]
          /\ h.neigh = c.neigh /\ h.link = c.link /\ h.mayGo = c.mayGo \ {a}
          /\ f \in Databases /\ h \in Sessions
      BY <2>1, LinkAddrAssigned
    <3>2. d1 = f /\ c1 = h
      BY <2>1
    <3> HIDE DEF d1, c1, f, h
    <3> QED
      BY <2>1, <3>1, <3>2
  <2>2. CASE lif # "this"
    <3>1. d1 = d /\ c1 = c
      BY <2>2
    <3> HIDE DEF d1, c1
    <3> QED
      BY <2>2, <3>1 DEF SameCounts, Good
  <2> QED
    BY <2>1, <2>2
<1> HIDE DEF d1, c1
<1>3. /\ e.neighs = d1.neighs /\ e.links = d1.links /\ e.neigh = d1.neigh
      /\ e.localif = d1.localif /\ e.orig = d1.orig /\ SameCounts(d1, e)
      /\ e.laddr = d1.laddr /\ e.naddr = [d1.naddr EXCEPT ![a] = c1.neigh]
      /\ g.neigh = c1.neigh /\ g.link = c1.link /\ g.mayGo = c1.mayGo
  BY <1>2, NeighborAddrAssigned
<1> HIDE DEF e, g
<1>4. Assigned(d, c, msg.localif, a, lif, e, g)
  BY <1>2, <1>3 DEF Assigned, SameCounts
<1> QED
  BY <1>1, <1>4 DEF e, g

(* An address of the second pass *)
LEMMA AssignedOrdered ==
    ASSUME Orderly(Hellos), NEW m \in Readable(Hellos), NEW d, Good(d), NEW c \in Sessions,
           SessionAlive(d, c), NEW k, k <= Len(m.addrs), Session2(m, k, d, c), m.addrs[k].lif # "none",
           NEW e, Good(e), NEW g, Assigned(d, c, m.localif, m.addrs[k].addr, m.addrs[k].lif, e, g)
    PROVE  Session2(m, k + 1, e, g)
<1> DEFINE x == m.addrs[k]
           a == x.addr
           i == m.localif
           O == [d.orig EXCEPT ![c.neigh] = m.orig]
<1>1. m \in Messages /\ m.orig \in Addrs
  BY OrderlyFacts
<1>2. /\ k \in 1 .. Len(m.addrs) /\ Len(m.addrs) \in Nat /\ a \in Addrs /\ i \in Ifs
      /\ k + 1 \in 1 .. Len(m.addrs) + 1 /\ (k + 1) - 1 = k
  BY <1>1, AddressParts DEF Session2
<1>3. /\ c.neigh \in d.neighs /\ c.neigh \in Neighs /\ c.link \in d.links /\ c.link # NoLink
      /\ d.orig \in [Neighs -> Addrs \cup {NoAddr}] /\ d.naddr \in [Addrs -> Neighs \cup {NoNeigh}]
      /\ d.links \subseteq Links /\ d.neighs \subseteq Neighs /\ NoLink \notin d.links
  BY NhdpDbAssumption DEF SessionAlive, Good, Databases
<1>4. O[c.neigh] = m.orig
  BY <1>3
<1>5. a \in NeighborAddrs(m) /\ (x.lif = "this" => a \in ThisAddrs(m))
  BY <1>1, <1>2, Positions DEF ThisAt
<1>6. ThisAddrs(m) \subseteq Addrs
  BY <1>1, Positions
<1>7. /\ e.neighs = d.neighs /\ e.links = d.links /\ e.neigh = d.neigh
      /\ e.localif = d.localif /\ e.orig = d.orig /\ SameCounts(d, e)
      /\ e.naddr = [d.naddr EXCEPT ![a] = c.neigh]
      /\ \A j \in Ifs, b \in Addrs : e.laddr[j][b] =
           IF j = i /\ b = a /\ x.lif = "this" THEN c.link ELSE d.laddr[j][b]
      /\ g.neigh = c.neigh /\ g.link = c.link
      /\ g.mayGo = IF x.lif = "this" THEN c.mayGo \ {a} ELSE c.mayGo
  BY DEF Assigned
<1>8. /\ Ordered(d, O, c.link) /\ d.orig[c.neigh] \in {NoAddr, m.orig} /\ d.neigh[c.link] = c.neigh
      /\ LaddrsOf(d, i, c.link) \subseteq ThisAddrs(m)
      /\ \A b \in ThisAddrs(m) : d.laddr[i][b] \in {NoLink, c.link}
      /\ \A j \in 1 .. k - 1 : ThisAt(m, j) =>
           d.laddr[i][m.addrs[j].addr] = c.link /\ m.addrs[j].addr \notin c.mayGo
      /\ \A b \in c.mayGo : d.laddr[i][b] = c.link
  BY DEF Session2
<1>9. x.lif = "this" <=> ThisAt(m, k)
  BY DEF ThisAt
<1> HIDE DEF x, a, i, O
<1>10. Owners(e, O)
  <2>1. ASSUME NEW b \in Addrs, e.naddr[b] # NoNeigh
        PROVE  \E m1 \in Readable(Hellos) : b \in NeighborAddrs(m1) /\ m1.orig = O[e.naddr[b]]
    <3>1. CASE b = a
      BY <1>2, <1>3, <1>4, <1>5, <1>7, <3>1
    <3>2. CASE b # a
      <4>1. e.naddr[b] = d.naddr[b]
        BY <1>3, <1>7, <2>1, <3>2
      <4> QED
        BY <1>8, <2>1, <4>1 DEF Ordered, Owners
    <3> QED
      BY <3>1, <3>2
  <2> QED
    BY <1>7, <1>8, <2>1 DEF Ordered, Owners
<1>11. ASSUME NEW l \in e.links \ {c.link} PROVE Whole(e, l, O[e.neigh[l]])
  <2>1. l \in d.links /\ l # NoLink /\ l # c.link
    BY <1>3, <1>7
  <2>2. \A j \in Ifs, b \in Addrs : e.laddr[j][b] = l <=> d.laddr[j][b] = l
    BY <1>5, <1>7, <1>8, <2>1
  <2>3. \A j \in Ifs : LaddrsOf(e, j, l) = LaddrsOf(d, j, l)
    BY <2>2 DEF LaddrsOf
  <2>4. PICK m1 \in Readable(Hellos) : /\ m1.localif = d.localif[l] /\ m1.orig = O[d.neigh[l]]
                                       /\ LaddrsOf(d, m1.localif, l) = ThisAddrs(m1)
    BY <1>8, <2>1 DEF Ordered, Whole
  <2>5. m1.localif \in Ifs
    BY OrderlyFacts, AddressParts
  <2> QED
    BY <1>7, <2>3, <2>4, <2>5 DEF Whole
<1>12. \A n \in e.neighs : LinksOf(e, n) # {}
  BY <1>7, <1>8 DEF Ordered, LinksOf
<1>13. Counted(e)
  BY <1>7, <1>8, CountedSame DEF Ordered
<1>14. Ordered(e, O, c.link)
  BY <1>10, <1>11, <1>12, <1>13 DEF Ordered
<1>15. LaddrsOf(e, i, c.link) \subseteq ThisAddrs(m)
  BY <1>2, <1>5, <1>7, <1>8 DEF LaddrsOf
<1>16. \A b \in ThisAddrs(m) : e.laddr[i][b] \in {NoLink, c.link}
  BY <1>2, <1>6, <1>7, <1>8
<1>17. ASSUME NEW j \in 1 .. k, ThisAt(m, j)
       PROVE  e.laddr[i][m.addrs[j].addr] = c.link /\ m.addrs[j].addr \notin g.mayGo
  <2>1. m.addrs[j].addr \in Addrs
    BY <1>1, <1>2, AddressParts
  <2>2. CASE j = k
    BY <1>2, <1>7, <1>9, <1>17, <2>2 DEF a, x
  <2>3. CASE j # k
    <3>1. j \in 1 .. k - 1
      BY <1>2, <2>3
    <3> QED
      BY <1>2, <1>7, <1>8, <1>17, <2>1, <3>1
  <2> QED
    BY <2>2, <2>3
<1>18. \A b \in g.mayGo : e.laddr[i][b] = g.link
  <2>1. \A b \in g.mayGo : b \in c.mayGo /\ ~(b = a /\ x.lif = "this")
    BY <1>7
  <2>2. \A b \in Addrs : b \in g.mayGo => e.laddr[i][b] = g.link
    BY <1>2, <1>7, <1>8, <2>1
  <2>3. g.mayGo \subseteq Addrs
    BY <1>7 DEF Sessions
  <2> QED
    BY <2>2, <2>3
<1> QED
  BY <1>2, <1>7, <1>8, <1>14, <1>15, <1>16, <1>17, <1>18 DEF Session2, O, i

(* The second pass keeps the order. *)
LEMMA Pass2BlockOrdered ==
    ASSUME Orderly(Hellos), IInv, IInv', OInv, ~undef, _cb_addr_pass2_block
    PROVE  OInv'
<1> DEFINE x == msg.addrs[idx]
           r == IF x.lif = "none" THEN <<db, cur>>
                ELSE _pass2_process_localif(db, cur, x.addr, x.lif)
           f == r[1]
           g == r[2]
           O == [db.orig EXCEPT ![cur.neigh] = msg.orig]
<1>1. /\ pc = "pass2" /\ idx <= Len(msg.addrs) /\ msg.bad = "no" /\ Session2(msg, idx, db, cur)
      /\ Good(db) /\ Good(db') /\ TypeOK /\ SessionFits(db, cur, msg.localif)
      /\ SessionAlive(db, cur) /\ cur \in Sessions
  BY DEF _cb_addr_pass2_block, OInv, IInv, SessionFits
<1>2. /\ msg \in Readable(Hellos) /\ msg \in Messages /\ msg.localif \in Ifs
      /\ msg.orig \in Addrs /\ Len(msg.addrs) \in Nat
      /\ idx \in 1 .. Len(msg.addrs) /\ x.addr \in Addrs
  BY <1>1, OrderlyMessage DEF Session2
<1>3. /\ cur.neigh \in db.neighs /\ cur.neigh \in Neighs /\ cur.link \in db.links /\ cur.link \in Links
      /\ cur.link # NoLink /\ db.orig \in [Neighs -> Addrs \cup {NoAddr}]
  BY <1>1, NhdpDbAssumption DEF SessionAlive, Good, Databases
<1>4. IF ~SessionAlive(db, cur) \/ ~SessionAlive(f, g)
      THEN UseOfFreedObject
      ELSE /\ db' = ProcessTwohop(f, g, x)
           /\ cur' = g
           /\ idx' = idx + 1
           /\ UNCHANGED <<pc, msg, undef>>
  BY DEF _cb_addr_pass2_block
<1>5. LinkSession(db, cur, msg.localif)
  BY <1>1, <1>3 DEF LinkSession, SessionFits
<1>6. Good(f) /\ Session2(msg, idx + 1, f, g)
  <2>1. CASE x.lif = "none"
    <3>1. f = db /\ g = cur /\ ~ThisAt(msg, idx)
      BY <2>1 DEF ThisAt
    <3> HIDE DEF f, g, r, x
    <3>2. idx + 1 \in 1 .. Len(msg.addrs) + 1
      BY <1>2
    <3>3. \A j \in 1 .. (idx + 1) - 1 : ThisAt(msg, j) => j \in 1 .. idx - 1
      BY <1>2, <3>1
    <3>4. Session2(msg, idx + 1, db, cur)
      BY <1>1, <3>2, <3>3 DEF Session2
    <3> QED
      BY <1>1, <3>1, <3>4
  <2>2. CASE x.lif # "none"
    <3> DEFINE q == _pass2_process_localif(db, cur, x.addr, x.lif)
    <3>1. r = q
      BY <2>2
    <3>2. x.addr \in NeighborAddrs(msg) /\ (x.lif = "this" => x.addr \in ThisAddrs(msg))
      BY <1>2, <2>2, Positions DEF ThisAt
    <3>3. Owners(db, O) /\ O[cur.neigh] = msg.orig
      BY <1>1, <1>3 DEF Session2, Ordered
    <3> HIDE DEF O
    <3>4. db.naddr[x.addr] \in {NoNeigh, cur.neigh}
      <4>1. CASE db.naddr[x.addr] # NoNeigh
        <5>1. db.naddr[x.addr] \in db.neighs
          BY <1>1, <1>2, <4>1 DEF Good, ReferencesAlive
        <5>2. O[db.naddr[x.addr]] = msg.orig
          BY <1>2, <3>2, <3>3, <4>1, SenderFound
        <5> QED
          BY <1>3, <3>3, <5>1, <5>2 DEF Owners
      <4> QED
        BY <4>1
    <3>5. /\ x.lif = "this" => db.laddr[msg.localif][x.addr] \in {NoLink, cur.link}
          /\ \A b \in cur.mayGo : db.laddr[msg.localif][b] = cur.link
      BY <1>1, <3>2 DEF Session2
    <3>6. Good(q[1])
      <4> HIDE DEF r, x
      <4> QED
        BY <1>1, <1>2, <1>3, <1>5, ProcessLocalifGood
    <3>7. Assigned(db, cur, msg.localif, x.addr, x.lif, q[1], q[2])
      <4> HIDE DEF r, x
      <4> QED
        BY <1>1, <1>2, <1>3, <3>4, <3>5, LocalifAssigned
    <3>8. f = q[1] /\ g = q[2]
      BY <3>1
    <3> HIDE DEF q, r, f, g
    <3>9. Assigned(db, cur, msg.localif, x.addr, x.lif, f, g) /\ Good(f)
      BY <3>6, <3>7, <3>8
    <3> QED
      BY <1>1, <1>2, <2>2, <3>9, AssignedOrdered
  <2> QED
    BY <2>1, <2>2
<1> HIDE DEF f, g, r, x
<1>7. CASE ~SessionAlive(f, g)
  BY <1>4, <1>7 DEF UseOfFreedObject, OInv
<1>8. CASE SessionAlive(f, g)
  <2>1. db' = ProcessTwohop(f, g, x) /\ cur' = g /\ idx' = idx + 1 /\ UNCHANGED <<pc, msg, undef>>
    BY <1>1, <1>4, <1>8
  <2>2. SameView(f, db')
    <3> DEFINE t == f.twohop \cup {<<g.link, x.addr>>}
               u == f.twohop \ {<<g.link, x.addr>>}
    <3>1. ProcessTwohop(f, g, x) \in {f, [f EXCEPT !.twohop = t], [f EXCEPT !.twohop = u]}
      BY DEF ProcessTwohop
    <3> HIDE DEF t, u
    <3>2. SameView(f, f)
      BY DEF SameView, SameAddrs, SameCounts
    <3>3. SameView(f, [f EXCEPT !.twohop = t]) /\ SameView(f, [f EXCEPT !.twohop = u])
      BY <1>6, DataView DEF Good
    <3> QED
      BY <2>1, <3>1, <3>2, <3>3
  <2>3. Session2(msg, idx + 1, db', g)
    <3> DEFINE P == [f.orig EXCEPT ![g.neigh] = msg.orig]
    <3>1. Ordered(f, P, g.link)
      BY <1>6 DEF Session2
    <3>2. Counted(db')
      BY <2>2, <3>1, CountedSame DEF Ordered, SameView, SameAddrs
    <3>3. Ordered(db', P, g.link)
      BY <2>2, <3>1, <3>2, OrderedSame DEF SameView
    <3>4. /\ db'.orig = f.orig /\ db'.neigh = f.neigh /\ db'.laddr = f.laddr
      BY <2>2 DEF SameView, SameAddrs
    <3>5. \A i, l : LaddrsOf(db', i, l) = LaddrsOf(f, i, l)
      BY <3>4 DEF LaddrsOf
    <3> QED
      BY <1>6, <3>3, <3>4, <3>5 DEF Session2
  <2> QED
    BY <1>1, <2>1, <2>3 DEF OInv
<1> QED
  BY <1>7, <1>8

(* At the end of the HELLO the link of the session is whole, and its       *)
(* neighbor has the originator of the HELLO. *)
LEMMA Pass2EndOrdered ==
    ASSUME Orderly(Hellos), IInv, IInv', OInv, ~undef, _cb_msg_pass2_end
    PROVE  OInv'
<1> DEFINE O == [db.orig EXCEPT ![cur.neigh] = msg.orig]
           e == FinishLink(db, cur)
           n == cur.neigh
           l == cur.link
           i == msg.localif
<1>1. /\ pc = "pass2" /\ idx > Len(msg.addrs) /\ msg.bad = "no" /\ Session2(msg, idx, db, cur)
      /\ Good(db) /\ TypeOK /\ SessionFits(db, cur, msg.localif)
      /\ SessionAlive(db, cur) /\ cur \in Sessions
  BY DEF _cb_msg_pass2_end, OInv, IInv, SessionFits
<1>2. /\ msg \in Readable(Hellos) /\ msg \in Messages /\ i \in Ifs
      /\ msg.orig \in Addrs /\ Len(msg.addrs) \in Nat /\ idx = Len(msg.addrs) + 1
  BY <1>1, OrderlyMessage DEF Session2
<1>3. /\ n \in db.neighs /\ n \in Neighs /\ l \in db.links /\ l \in Links
      /\ l # NoLink /\ n # NoNeigh /\ db.orig \in [Neighs -> Addrs \cup {NoAddr}]
      /\ db.neighs \subseteq Neighs /\ NoLink \notin db.links
  BY <1>1, NhdpDbAssumption DEF SessionAlive, Good, Databases
<1>4. db' = e /\ pc' = "idle" /\ cur' = [EmptySession EXCEPT !.neigh = n, !.link = l]
  BY <1>1 DEF _cb_msg_pass2_end, EndMessage
<1>5. /\ Ordered(db, O, l) /\ db.orig[n] \in {NoAddr, msg.orig} /\ db.neigh[l] = n
      /\ LaddrsOf(db, i, l) \subseteq ThisAddrs(msg)
      /\ \A j \in 1 .. Len(msg.addrs) : ThisAt(msg, j) =>
           db.laddr[i][msg.addrs[j].addr] = l /\ msg.addrs[j].addr \notin cur.mayGo
      /\ \A b \in cur.mayGo : db.laddr[i][b] = l
  BY <1>1, <1>2 DEF Session2
<1>6. \A x \in db.neighs \ {n} : db.orig[x] # msg.orig
  <2>1. \A x \in db.neighs \ {n} : O[x] = db.orig[x]
    BY <1>3
  <2>2. O[n] = msg.orig
    BY <1>3
  <2> HIDE DEF O, n
  <2> QED
    BY <1>3, <1>5, <2>1, <2>2 DEF Ordered, Owners
<1>7. /\ Trimmed(db, cur, msg.localif, e)
      /\ Counted(db) => Counted(e)
      /\ msg.orig \in Addrs /\ db.orig[cur.neigh] \in {NoAddr, msg.orig}
           /\ (\A x \in db.neighs \ {cur.neigh} : db.orig[x] # msg.orig)
         => e.orig = [db.orig EXCEPT ![cur.neigh] = msg.orig]
  BY <1>1, <1>2, <1>3, FinishLinkView
<1> HIDE DEF e
<1>8. /\ e.neighs = db.neighs /\ e.naddr = db.naddr /\ e.links = db.links
      /\ e.neigh = db.neigh /\ e.localif = db.localif /\ e.orig = O
      /\ \A j \in Ifs, a \in Addrs : e.laddr[j][a] =
           IF j = i /\ a \in cur.mayGo /\ db.laddr[j][a] = l THEN NoLink ELSE db.laddr[j][a]
  BY <1>2, <1>5, <1>6, <1>7 DEF Trimmed
<1>9. Counted(e)
  BY <1>5, <1>7 DEF Ordered
<1>10. O[n] = msg.orig /\ db.localif[l] = i
  BY <1>1, <1>3 DEF SessionFits
<1> HIDE DEF O, n, l, i
<1>11. ASSUME NEW x \in db.links, x # l PROVE Whole(e, x, O[e.neigh[x]])
  <2>1. \A j \in Ifs : LaddrsOf(e, j, x) = LaddrsOf(db, j, x)
    BY <1>3, <1>8, <1>11 DEF LaddrsOf
  <2>2. PICK m1 \in Readable(Hellos) : /\ m1.localif = db.localif[x] /\ m1.orig = O[db.neigh[x]]
                                       /\ LaddrsOf(db, m1.localif, x) = ThisAddrs(m1)
    BY <1>5, <1>11 DEF Ordered, Whole
  <2>3. m1.localif \in Ifs
    BY OrderlyFacts, AddressParts
  <2> QED
    BY <1>8, <2>1, <2>2, <2>3 DEF Whole
<1>12. Whole(e, l, O[e.neigh[l]])
  <2>1. LaddrsOf(e, i, l) \subseteq ThisAddrs(msg)
    BY <1>2, <1>3, <1>5, <1>8 DEF LaddrsOf
  <2>2. ASSUME NEW a \in ThisAddrs(msg) PROVE a \in LaddrsOf(e, i, l)
    <3>1. a \in Addrs
      BY <1>2, Positions
    <3>2. PICK j \in 1 .. Len(msg.addrs) : ThisAt(msg, j) /\ msg.addrs[j].addr = a
      BY <1>2, Positions
    <3> QED
      BY <1>2, <1>5, <1>8, <3>1, <3>2 DEF LaddrsOf
  <2>3. LaddrsOf(e, i, l) = ThisAddrs(msg)
    BY <2>1, <2>2
  <2>4. O[e.neigh[l]] = msg.orig /\ e.localif[l] = i
    BY <1>5, <1>8, <1>10
  <2> QED
    BY <1>2, <2>3, <2>4 DEF Whole, i
<1>13. Owners(e, O)
  BY <1>5, <1>8 DEF Ordered, Owners
<1>14. \A x \in e.neighs : LinksOf(e, x) # {}
  BY <1>5, <1>8 DEF Ordered, LinksOf
<1>15. Ordered(e, e.orig, NoLink)
  BY <1>8, <1>9, <1>11, <1>12, <1>13, <1>14 DEF Ordered
<1>16. cur'.link = l /\ cur'.neigh = n
  BY <1>4 DEF EmptySession
<1>17. Session0(db', cur')
  BY <1>3, <1>4, <1>5, <1>8, <1>15, <1>16 DEF Session0
<1> QED
  BY <1>4, <1>17 DEF OInv

(* There is memory for a link to every interface of a neighbor. *)
LEMMA LinkFree ==
    ASSUME Orderly(Hellos), NEW m \in Readable(Hellos), NEW d, Good(d), NEW O,
           Ordered(d, O, NoLink), \A a \in ThisAddrs(m) : d.laddr[m.localif][a] = NoLink
    PROVE  Links \ d.links # {}
<1> SUFFICES ASSUME Links \subseteq d.links PROVE FALSE
  OBVIOUS
<1> DEFINE side == <<m.localif, ThisAddrs(m)>>
           T == Sides(Hellos) \ {side}
           F == [l \in Links |-> <<d.localif[l], LaddrsOf(d, d.localif[l], l)>>]
<1>1. /\ IsFiniteSet(Sides(Hellos)) /\ Cardinality(Sides(Hellos)) <= Cardinality(Links)
      /\ IsFiniteSet(Links)
  BY NhdpDbAssumption DEF Orderly
<1>2. side \in Sides(Hellos)
  BY DEF Sides
<1>3. IsFiniteSet(T) /\ Cardinality(T) = Cardinality(Sides(Hellos)) - 1
  <2> HIDE DEF side
  <2> QED
    BY <1>1, <1>2, FS_RemoveElement
<1>4. Cardinality(T) < Cardinality(Links)
  <2> HIDE DEF T
  <2>1. Cardinality(Sides(Hellos)) \in Nat /\ Cardinality(Links) \in Nat
    BY <1>1, FS_CardinalityType
  <2> QED
    BY <1>1, <1>3, <2>1
<1>5. ThisAddrs(m) # {} /\ ThisAddrs(m) \subseteq Addrs
  BY OrderlyFacts, Positions DEF NamesInterface
<1>6. ASSUME NEW l \in Links
      PROVE  F[l] \in T /\ \E a \in Addrs : d.laddr[d.localif[l]][a] = l
  <2>1. l \in d.links /\ l # NoLink
    BY NhdpDbAssumption
  <2>2. PICK m1 \in Readable(Hellos) : /\ m1.localif = d.localif[l] /\ m1.orig = O[d.neigh[l]]
                                       /\ LaddrsOf(d, m1.localif, l) = ThisAddrs(m1)
    BY <2>1 DEF Ordered, Whole
  <2>3. F[l] = <<m1.localif, ThisAddrs(m1)>>
    BY <2>2
  <2>4. F[l] \in Sides(Hellos)
    BY <2>3 DEF Sides
  <2>5. ThisAddrs(m1) # {}
    BY OrderlyFacts DEF NamesInterface
  <2>6. PICK a \in ThisAddrs(m1) : a \in Addrs /\ d.laddr[d.localif[l]][a] = l
    BY <2>2, <2>5 DEF LaddrsOf
  <2>7. F[l] # side
    <3> SUFFICES ASSUME F[l] = side PROVE FALSE
      OBVIOUS
    <3>1. m1.localif = m.localif /\ ThisAddrs(m1) = ThisAddrs(m)
      BY <2>3
    <3> QED
      BY <2>1, <2>2, <2>6, <3>1
  <2> QED
    BY <2>4, <2>6, <2>7
<1>7. F \in [Links -> T]
  <2> HIDE DEF T
  <2> QED
    BY <1>6
<1> HIDE DEF T
<1>8. PICK x \in Links, y \in Links : x # y /\ F[x] = F[y]
  <2> HIDE DEF F
  <2> QED
    BY <1>1, <1>3, <1>4, <1>7, FS_PigeonHole
<1>9. PICK a \in Addrs : d.laddr[d.localif[x]][a] = x
  BY <1>6
<1>10. d.localif[x] = d.localif[y] /\ LaddrsOf(d, d.localif[x], x) = LaddrsOf(d, d.localif[y], y)
  BY <1>8
<1> QED
  BY <1>8, <1>9, <1>10 DEF LaddrsOf

(* The neighbor that the end of the first pass takes has the originator of *)
(* the HELLO or is new, and then no other has it. *)
LEMMA NeighborTaken ==
    ASSUME NEW d, Good(d), NEW c, SessionFits(d, c, msg.localif), msg.orig \in Addrs,
           Owners(d, d.orig), ~c.naddr_conflict, ~c.originator_in_addrblk,
           c.neigh # NoNeigh => d.orig[c.neigh] = msg.orig
    PROVE  /\ _handle_originator(d, c) = d
           /\ \A n \in Pass1Neighbors(d, c) :
                /\ n \in d.neighs => d.orig[n] = msg.orig
                /\ n \notin d.neighs => n \in (Neighs \ d.neighs) \cup {NoNeigh} /\
                     \A x \in d.neighs : d.orig[x] # msg.orig
<1> DEFINE q == OriginatorNeighbor(d, c)
           S == {x \in d.origTree : d.orig[x] = msg.orig}
<1>1. /\ d.origTree = d.neighs /\ msg.orig # NoAddr /\ d.neighs \subseteq Neighs
      /\ NoNeigh \notin d.neighs /\ c.neigh \in d.neighs \cup {NoNeigh}
  <2>1. d.origTree \subseteq d.neighs /\ \A x \in d.neighs : x \in d.origTree
    BY DEF Owners, Good, ReferencesAlive, IndexExact
  <2>2. d.neighs \subseteq Neighs
    BY DEF Good, Databases
  <2> QED
    BY <2>1, <2>2, NhdpDbAssumption DEF SessionFits
<1>2. q = IF S = {} THEN NoNeigh ELSE CHOOSE x \in S : TRUE
  BY <1>1 DEF OriginatorNeighbor, NeighborByOriginator
<1>3. CASE S = {}
  <2>1. q = NoNeigh /\ \A x \in d.neighs : d.orig[x] # msg.orig
    BY <1>1, <1>2, <1>3
  <2>2. c.neigh = NoNeigh
    BY <1>1, <2>1
  <2>3. _handle_originator(d, c) = d
    BY <2>1 DEF _handle_originator
  <2>4. Pass1Neighbors(d, c) = FreeOr(Neighs \ d.neighs, NoNeigh)
    BY <2>1, <2>2 DEF Pass1Neighbors, TakesOriginatorNeighbor
  <2> QED
    BY <1>1, <2>1, <2>3, <2>4 DEF FreeOr
<1>4. CASE S # {}
  <2>1. q \in d.neighs /\ d.orig[q] = msg.orig /\ q # NoNeigh
    BY <1>1, <1>2, <1>4
  <2> HIDE DEF q
  <2>2. c.neigh # NoNeigh => c.neigh = q
    BY <1>1, <2>1 DEF Owners
  <2>3. TakesOriginatorNeighbor(d, c) <=> c.neigh = NoNeigh
    BY <2>1 DEF TakesOriginatorNeighbor, q
  <2>4. _handle_originator(d, c) = d
    BY <2>2, <2>3 DEF _handle_originator, q
  <2>5. Pass1Neighbors(d, c) = {q}
    BY <2>2, <2>3 DEF Pass1Neighbors, q
  <2> QED
    BY <2>1, <2>4, <2>5
<1> QED
  BY <1>3, <1>4

(* A link and a neighbor that are new count nothing. *)
LEMMA ExtendedCounted ==
    ASSUME NEW d, Good(d), NEW n \in Neighs, NEW l \in Links, NEW i, NEW e, Extended(d, n, l, i, e),
           Counted(d)
    PROVE  Counted(e)
<1>1. /\ d.links \subseteq Links /\ d.neigh \in [Links -> Neighs \cup {NoNeigh}]
      /\ \A x \in d.links : d.neigh[x] \in d.neighs
  BY DEF Good, Databases, ReferencesAlive
<1>2. /\ e.neighs = d.neighs \cup {n} /\ e.links = d.links \cup {l} /\ e.status = d.status
      /\ e.symmetric = d.symmetric /\ \A x \in d.links : e.neigh[x] = d.neigh[x]
  BY <1>1 DEF Extended, SameCounts
<1>3. l \notin d.links => d.status[l] = "LOST"
  BY DEF Counted, Blank
<1>4. \A x : SymLinks(e, x) = SymLinks(d, x)
  BY <1>2, <1>3 DEF SymLinks, LinksOf
<1>5. \A x \in e.neighs : e.symmetric[x] = Cardinality(SymLinks(e, x))
  <2> SUFFICES ASSUME NEW x \in e.neighs PROVE e.symmetric[x] = Cardinality(SymLinks(e, x))
    OBVIOUS
  <2>1. CASE x \in d.neighs
    BY <1>2, <1>4, <2>1, CountedSym DEF Counted
  <2>2. CASE x \notin d.neighs
    <3>1. SymLinks(d, x) = {}
      BY <1>1, <2>2 DEF SymLinks, LinksOf
    <3>2. d.symmetric[x] = 0
      BY <1>2, <2>2 DEF Counted, Blank
    <3> QED
      BY <1>2, <1>4, <3>1, <3>2, FS_EmptySet
  <2> QED
    BY <2>1, <2>2
<1>6. Blank(e)
  BY <1>2 DEF Counted, Blank
<1> QED
  BY <1>5, <1>6, CountedSym DEF Counted

(* The second pass starts ordered. *)
LEMMA ExtendedOrdered ==
    ASSUME Orderly(Hellos), NEW m \in Readable(Hellos), NEW d, Good(d), Ordered(d, d.orig, NoLink),
           NEW n \in Neighs, NEW l \in Links, NEW e, Good(e), Extended(d, n, l, m.localif, e),
           e.orig = d.orig, n \in d.neighs => d.orig[n] = m.orig,
           n \notin d.neighs => \A x \in d.neighs : d.orig[x] # m.orig,
           l \in d.links => d.neigh[l] = n /\ LaddrsOf(d, m.localif, l) = ThisAddrs(m),
           l \notin d.links => \A a \in ThisAddrs(m) : d.laddr[m.localif][a] = NoLink,
           NEW c, c.neigh = n, c.link = l, \A a \in c.mayGo : d.laddr[m.localif][a] = l
    PROVE  Session2(m, 1, e, c)
<1> DEFINE O == [e.orig EXCEPT ![n] = m.orig]
           i == m.localif
<1>1. m \in Messages /\ m.orig \in Addrs /\ i \in Ifs /\ Len(m.addrs) \in Nat /\ ThisAddrs(m) \subseteq Addrs
  BY OrderlyFacts, AddressParts, Positions
<1>2. /\ d.neighs \subseteq Neighs /\ d.links \subseteq Links /\ NoLink \notin Links
      /\ d.orig \in [Neighs -> Addrs \cup {NoAddr}] /\ d.neigh \in [Links -> Neighs \cup {NoNeigh}]
      /\ d.localif \in [Links -> Ifs] /\ m.orig # NoAddr
  BY <1>1, NhdpDbAssumption DEF Good, Databases
<1>3. /\ e.neighs = d.neighs \cup {n} /\ e.links = d.links \cup {l} /\ e.naddr = d.naddr
      /\ e.laddr = d.laddr
      /\ \A x \in d.links : e.neigh[x] = d.neigh[x] /\ e.localif[x] = d.localif[x]
      /\ e.neigh[l] = n
  BY <1>2 DEF Extended
<1>4. /\ \A x \in d.neighs : O[x] = d.orig[x]
      /\ O[n] = m.orig
  BY <1>2
<1> HIDE DEF O
<1>5. Owners(e, O)
  <2>1. \A x \in e.neighs : O[x] # NoAddr
    BY <1>2, <1>3, <1>4 DEF Ordered, Owners
  <2>2. ASSUME NEW x \in e.neighs, NEW y \in e.neighs, O[x] = O[y] PROVE x = y
    <3>1. CASE x \in d.neighs /\ y \in d.neighs
      BY <1>4, <2>2, <3>1 DEF Ordered, Owners
    <3>2. CASE x \notin d.neighs \/ y \notin d.neighs
      BY <1>3, <1>4, <2>2, <3>2
    <3> QED
      BY <3>1, <3>2
  <2>3. ASSUME NEW a \in Addrs, e.naddr[a] # NoNeigh
        PROVE  \E m1 \in Readable(Hellos) : a \in NeighborAddrs(m1) /\ m1.orig = O[e.naddr[a]]
    <3>1. d.naddr[a] \in d.neighs /\ e.naddr[a] = d.naddr[a]
      BY <1>3, <2>3 DEF Good, ReferencesAlive
    <3> QED
      BY <1>4, <2>3, <3>1 DEF Ordered, Owners
  <2> QED
    BY <2>1, <2>2, <2>3 DEF Owners
<1>6. ASSUME NEW x \in e.links \ {l} PROVE Whole(e, x, O[e.neigh[x]])
  <2>1. x \in d.links /\ x # NoLink /\ d.neigh[x] \in d.neighs
    BY <1>2, <1>3 DEF Good, ReferencesAlive
  <2>2. Whole(d, x, d.orig[d.neigh[x]])
    BY <2>1 DEF Ordered
  <2>3. O[e.neigh[x]] = d.orig[d.neigh[x]] /\ e.localif[x] = d.localif[x]
    BY <1>3, <1>4, <2>1
  <2>4. \A j : LaddrsOf(e, j, x) = LaddrsOf(d, j, x)
    BY <1>3 DEF LaddrsOf
  <2> QED
    BY <2>2, <2>3, <2>4 DEF Whole
<1>7. ASSUME NEW x \in e.neighs PROVE LinksOf(e, x) # {}
  <2>1. CASE x = n
    BY <1>3, <2>1 DEF LinksOf
  <2>2. CASE x # n
    <3>1. PICK y \in d.links : d.neigh[y] = x
      BY <1>3, <1>7, <2>2 DEF Ordered, LinksOf
    <3> QED
      BY <1>3, <3>1 DEF LinksOf
  <2> QED
    BY <2>1, <2>2
<1>8. Counted(e)
  BY ExtendedCounted DEF Ordered
<1>9. Ordered(e, O, l)
  BY <1>5, <1>6, <1>7, <1>8 DEF Ordered
<1>10. e.orig[n] \in {NoAddr, m.orig}
  BY DEF Good, FreshObjects
<1>11. LaddrsOf(e, i, l) \subseteq ThisAddrs(m) /\ \A a \in ThisAddrs(m) : e.laddr[i][a] \in {NoLink, l}
  <2>1. CASE l \in d.links
    BY <1>1, <1>3, <2>1 DEF LaddrsOf
  <2>2. CASE l \notin d.links
    <3>1. LaddrsOf(e, i, l) = {}
      BY <1>1, <1>2, <1>3, <2>2 DEF LaddrsOf, Good, ReferencesAlive
    <3> QED
      BY <1>3, <2>2, <3>1
  <2> QED
    BY <2>1, <2>2
<1>12. 1 \in 1 .. Len(m.addrs) + 1 /\ 1 .. 1 - 1 = {}
  BY <1>1
<1> QED
  BY <1>3, <1>9, <1>10, <1>11, <1>12 DEF Session2, O, i

(* The end of the first pass *)
LEMMA Pass1EndOrdered ==
    ASSUME Orderly(Hellos), IInv, IInv', OInv, ~undef, _cb_addresstlvs_pass1_end
    PROVE  OInv'
<1> DEFINE i == msg.localif
<1>1. /\ pc = "pass1" /\ idx > Len(msg.addrs) /\ msg.bad = "no" /\ Session1(msg, idx, db, cur)
      /\ Good(db) /\ Good(db') /\ TypeOK /\ SessionFits(db, cur, i) /\ cur \in Sessions
  BY DEF _cb_addresstlvs_pass1_end, OInv, IInv, SessionFits
<1>2. /\ msg \in Readable(Hellos) /\ msg \in Messages /\ i \in Ifs /\ msg.orig \in Addrs
      /\ Len(msg.addrs) \in Nat /\ idx = Len(msg.addrs) + 1
  BY <1>1, OrderlyMessage DEF Session1
<1>3. /\ Ordered(db, db.orig, NoLink) /\ Owners(db, db.orig)
      /\ ~cur.naddr_conflict /\ ~cur.laddr_conflict /\ ~cur.originator_in_addrblk
      /\ cur.neigh # NoNeigh => db.orig[cur.neigh] = msg.orig
      /\ \A j \in 1 .. Len(msg.addrs) : ThisAt(msg, j) =>
           cur.has_thisif /\ db.laddr[i][msg.addrs[j].addr] = cur.link
  BY <1>1, <1>2 DEF Session1, Ordered
<1>4. \A a \in ThisAddrs(msg) : db.laddr[i][a] = cur.link
  BY <1>2, <1>3, Positions
<1>5. cur.has_thisif /\ ThisAddrs(msg) # {} /\ ThisAddrs(msg) \subseteq Addrs
  <2>1. NamesInterface(msg)
    BY <1>2, OrderlyFacts
  <2>2. \E j \in 1 .. Len(msg.addrs) : ThisAt(msg, j)
    BY <1>2, <2>1, NamedPosition
  <2> QED
    BY <1>2, <1>3, <2>1, <2>2, Positions DEF NamesInterface
<1>6. cur.link # NoLink => /\ cur.link \in db.links /\ LaddrsOf(db, i, cur.link) = ThisAddrs(msg)
                           /\ db.orig[db.neigh[cur.link]] = msg.orig
                           /\ db.neigh[cur.link] \in db.neighs
  <2> SUFFICES ASSUME cur.link # NoLink
               PROVE  /\ cur.link \in db.links /\ LaddrsOf(db, i, cur.link) = ThisAddrs(msg)
                      /\ db.orig[db.neigh[cur.link]] = msg.orig /\ db.neigh[cur.link] \in db.neighs
    OBVIOUS
  <2>1. cur.link \in db.links /\ db.neigh[cur.link] \in db.neighs
    BY <1>1 DEF SessionFits, Good, ReferencesAlive
  <2>2. Whole(db, cur.link, db.orig[db.neigh[cur.link]])
    BY <1>3, <2>1 DEF Ordered
  <2>3. LaddrsOf(db, i, cur.link) \cap ThisAddrs(msg) # {}
    BY <1>4, <1>5 DEF LaddrsOf
  <2> QED
    BY <1>1, <1>2, <2>1, <2>2, <2>3, SideFound
<1>7. /\ _handle_originator(db, cur) = db
      /\ \A n \in Pass1Neighbors(db, cur) :
                /\ n \in db.neighs => db.orig[n] = msg.orig
                /\ n \notin db.neighs => n \in (Neighs \ db.neighs) \cup {NoNeigh} /\
                     \A x \in db.neighs : db.orig[x] # msg.orig
  BY <1>1, <1>2, <1>3, NeighborTaken
<1>8. PICK n \in Pass1Neighbors(db, cur), l \in Pass1Links(db, cur) :
             \/ undef'
             \/ /\ n = NoNeigh /\ pc' = "idle" /\ SameAddrs(db, db')
                /\ db' = _handle_originator(db, cur)
                /\ cur'.neigh = NoNeigh /\ cur'.link = cur.link
             \/ /\ n # NoNeigh /\ l = NoLink /\ pc' = "idle" /\ db'.links = db.links
                /\ db'.localif = db.localif /\ db'.laddr = db.laddr
             \/ /\ n \in Neighs /\ l \in Links /\ pc' = "pass2" /\ idx' = 1 /\ msg' = msg
                /\ Extended(db, n, l, msg.localif, db')
                /\ db'.orig = _handle_originator(db, cur).orig
                /\ cur' = [cur EXCEPT !.neigh = n, !.link = l, !.mayGo = LinkAddrsOf(db, l)]
  BY <1>5, Pass1EndView
<1>9. n \notin db.neighs => cur.link = NoLink
  BY <1>6, <1>7
<1>10. cur.link = NoLink => l \in Links \ db.links
  <2> SUFFICES ASSUME cur.link = NoLink PROVE l \in Links \ db.links
    OBVIOUS
  <2>1. \A a \in ThisAddrs(msg) : db.laddr[msg.localif][a] = NoLink
    BY <1>4
  <2>2. Links \ db.links # {}
    BY <1>1, <1>2, <1>3, <2>1, LinkFree
  <2> QED
    BY <2>2 DEF Pass1Links, FreeOr
<1>11. cur.link # NoLink => l = cur.link
  BY DEF Pass1Links
<1>12. l # NoLink
  BY <1>10, <1>11, NhdpDbAssumption
<1>13. CASE undef'
  BY <1>13 DEF OInv
<1>14. CASE /\ n = NoNeigh /\ pc' = "idle" /\ SameAddrs(db, db')
            /\ db' = _handle_originator(db, cur)
            /\ cur'.neigh = NoNeigh /\ cur'.link = cur.link
  <2>1. NoNeigh \notin db.neighs
    BY <1>1, NhdpDbAssumption DEF Good, Databases
  <2>2. db' = db /\ cur'.link = NoLink
    BY <1>7, <1>9, <1>14, <2>1
  <2>3. Session0(db', cur')
    BY <1>3, <2>2 DEF Session0
  <2> QED
    BY <1>14, <2>3 DEF OInv
<1>15. CASE /\ n \in Neighs /\ l \in Links /\ pc' = "pass2" /\ idx' = 1 /\ msg' = msg
            /\ Extended(db, n, l, msg.localif, db')
            /\ db'.orig = _handle_originator(db, cur).orig
            /\ cur' = [cur EXCEPT !.neigh = n, !.link = l, !.mayGo = LinkAddrsOf(db, l)]
  <2>1. cur'.neigh = n /\ cur'.link = l /\ cur'.mayGo = LinkAddrsOf(db, l)
    BY <1>1, <1>15 DEF Sessions
  <2>2. \A a \in cur'.mayGo : db.laddr[i][a] = l
    BY <2>1 DEF LinkAddrsOf
  <2>3. l \in db.links => db.neigh[l] = n /\ LaddrsOf(db, i, l) = ThisAddrs(msg)
    BY <1>3, <1>6, <1>7, <1>9, <1>10, <1>11 DEF Owners
  <2>4. l \notin db.links => \A a \in ThisAddrs(msg) : db.laddr[i][a] = NoLink
    BY <1>4, <1>6, <1>11
  <2>5. db'.orig = db.orig
    BY <1>7, <1>15
  <2>6. /\ n \in db.neighs => db.orig[n] = msg.orig
        /\ n \notin db.neighs => \A x \in db.neighs : db.orig[x] # msg.orig
    BY <1>7
  <2>7. Session2(msg, 1, db', cur')
    <3> DEFINE e == db'
               c == cur'
    <3>1. /\ Good(e) /\ Extended(db, n, l, msg.localif, e) /\ e.orig = db.orig
          /\ c.neigh = n /\ c.link = l /\ \A a \in c.mayGo : db.laddr[msg.localif][a] = l
      BY <1>1, <1>15, <2>1, <2>2, <2>5
    <3>2. n \in Neighs /\ l \in Links
      BY <1>15
    <3> HIDE DEF e, c
    <3>3. Session2(msg, 1, e, c)
      BY <1>1, <1>2, <1>3, <2>3, <2>4, <2>6, <3>1, <3>2, ExtendedOrdered
    <3> QED
      BY <3>3 DEF e, c
  <2> QED
    BY <1>1, <1>15, <2>7 DEF OInv
<1> QED
  BY <1>8, <1>12, <1>13, <1>14, <1>15

(* The callbacks that read a HELLO keep the order. *)
LEMMA ReceiveOrdered ==
    ASSUME Orderly(Hellos), IInv, IInv', OInv, ~undef, Receive PROVE OInv'
<1>1. ASSUME NEW m \in Hellos, HelloFailsConstraints(m) PROVE OInv'
  <2>1. pc = "idle" /\ DropMessage
    BY <1>1 DEF HelloFailsConstraints, Idle
  <2>2. Session0(db, cur)
    BY <2>1 DEF OInv
  <2>3. Ordered(db, db.orig, NoLink) /\ NoLink \in {NoLink, cur.link}
    BY <2>2 DEF Session0
  <2>4. CleanupDefined(db, cur) /\ cur.link # NoLink =>
          cur.neigh # NoNeigh /\ db.neigh[cur.link] = cur.neigh
    BY <2>2 DEF Session0, CleanupDefined
  <2> QED
    BY <2>1, <2>3, <2>4, DropOrdered
<1>2. ASSUME NEW m \in Hellos, HelloIgnored(m) PROVE OInv'
  <2>1. /\ db' = db /\ pc' = "idle" /\ pc = "idle"
        /\ cur' = [EmptySession EXCEPT !.neigh = NoNeigh, !.link = NoLink]
    BY <1>2 DEF HelloIgnored, EndMessage, EmptySession, Idle
  <2>2. cur'.link = NoLink
    BY <2>1 DEF EmptySession
  <2>3. Session0(db', cur')
    BY <2>1, <2>2 DEF OInv, Session0
  <2> QED
    BY <2>1, <2>3 DEF OInv
<1>3. ASSUME NEW m \in Hellos, _cb_messagetlvs(m) PROVE OInv'
  <2>1. /\ db' = db /\ pc' = "pass1" /\ pc = "idle" /\ msg' = m /\ m.bad = "no" /\ idx' = 1
        /\ cur' = EmptySession /\ m \in Messages
    BY <1>3, NhdpAssumption DEF _cb_messagetlvs, Idle
  <2>2. Ordered(db, db.orig, NoLink)
    BY <2>1 DEF OInv, Session0
  <2>3. 1 \in 1 .. Len(m.addrs) + 1 /\ 1 .. 1 - 1 = {}
    BY <2>1, AddressParts
  <2>4. Session1(m, 1, db, EmptySession)
    BY <2>2, <2>3 DEF Session1, EmptySession
  <2> QED
    BY <2>1, <2>4 DEF OInv
<1>4. CASE _cb_addresstlvs_pass1
  <2>1. /\ db' = db /\ pc' = "pass1" /\ pc = "pass1" /\ msg' = msg /\ idx' = idx + 1
        /\ cur' = Pass1Session(db, cur, msg.addrs[idx]) /\ idx <= Len(msg.addrs)
    BY <1>4 DEF _cb_addresstlvs_pass1
  <2>2. msg.bad = "no" /\ Session1(msg, idx, db, cur) /\ Good(db) /\ TypeOK
        /\ SessionFits(db, cur, msg.localif)
    BY <2>1 DEF OInv, IInv
  <2>3. msg \in Readable(Hellos)
    BY <2>1, <2>2, OrderlyMessage
  <2>4. Session1(msg, idx + 1, db, cur')
    BY <2>1, <2>2, <2>3, Pass1Ordered
  <2> QED
    BY <2>1, <2>2, <2>4 DEF OInv
<1>5. CASE AddressFailsConstraintsPass1
  <2>1. /\ pc = "pass1" /\ idx <= Len(msg.addrs) /\ msg.addrs[idx].bad = "pass1" /\ DropMessage
    BY <1>5 DEF AddressFailsConstraintsPass1
  <2>2. msg.bad = "no" /\ Session1(msg, idx, db, cur) /\ TypeOK
    BY <2>1 DEF OInv, IInv
  <2>3. msg \in Readable(Hellos) /\ Len(msg.addrs) \in Nat
    BY <2>1, <2>2, OrderlyMessage
  <2>4. \A j \in 1 .. idx - 1 : msg.addrs[j].lif = "none"
    <3>1. idx \in 1 .. Len(msg.addrs)
      BY <2>1, <2>2, <2>3 DEF Session1
    <3>2. \A j \in 1 .. idx - 1 : j \in 1 .. Len(msg.addrs) /\ j < idx
      BY <2>3, <3>1
    <3> QED
      BY <2>1, <2>3, <3>1, <3>2, OrderlyFacts
  <2>5. cur.neigh = NoNeigh /\ cur.link = NoLink /\ Ordered(db, db.orig, NoLink)
    BY <2>2, <2>4 DEF Session1, ThisAt
  <2> QED
    BY <2>1, <2>5, DropOrdered
<1>6. CASE AddressFailsConstraintsPass2
  <2> DEFINE O == [db.orig EXCEPT ![cur.neigh] = msg.orig]
  <2>1. pc = "pass2" /\ DropMessage
    BY <1>6 DEF AddressFailsConstraintsPass2
  <2>2. Session2(msg, idx, db, cur) /\ SessionAlive(db, cur) /\ Good(db)
    BY <2>1 DEF OInv, IInv
  <2>3. /\ cur.neigh # NoNeigh /\ db.orig \in [Neighs -> Addrs \cup {NoAddr}]
        /\ db.neighs \subseteq Neighs
    BY <2>2, NhdpDbAssumption DEF SessionAlive, Good, Databases
  <2>4. \A x \in db.neighs \ {cur.neigh} : O[x] = db.orig[x]
    BY <2>3
  <2>5. Ordered(db, O, cur.link) /\ db.neigh[cur.link] = cur.neigh
    BY <2>2 DEF Session2
  <2> HIDE DEF O
  <2> QED
    BY <2>1, <2>3, <2>4, <2>5, DropOrdered
<1> QED
  BY <1>1, <1>2, <1>3, <1>4, <1>5, <1>6, Pass1EndOrdered, Pass2BlockOrdered,
     Pass2EndOrdered DEF Receive, Reading

(***************************************************************************)
(* OInv is an invariant when HELLOs are orderly and our interfaces keep    *)
(* their addresses.                                                        *)
(***************************************************************************)
THEOREM OrderStays ==
    ASSUME Orderly(Hellos)
    PROVE  StableSpec => [](IInv /\ OInv)
<1>1. Init => OInv
  <2> SUFFICES ASSUME Init PROVE OInv
    OBVIOUS
  <2>1. /\ db.neighs = {} /\ db.links = {} /\ cur.link = NoLink /\ pc = "idle"
        /\ \A a \in Addrs : db.naddr[a] = NoNeigh
    BY DEF Init, EmptyDb, EmptySession
  <2>2. Counted(db)
    BY DEF Init, EmptyDb, Counted, SymmetricCountExact, Blank
  <2>3. Ordered(db, db.orig, NoLink)
    BY <2>1, <2>2 DEF Ordered, Owners
  <2> QED
    BY <2>1, <2>3 DEF OInv, Session0
<1>2. IInv /\ IInv' /\ OInv /\ [StableNext]_vars => OInv'
  <2> SUFFICES ASSUME IInv, IInv', OInv, [StableNext]_vars PROVE OInv'
    OBVIOUS
  <2>1. CASE UNCHANGED vars
    BY <2>1 DEF vars, OInv
  <2>2. CASE undef
    <3>1. UNCHANGED vars
      BY <2>2 DEF StableNext, Receive, Reading, Timeout, HysteresisEvent, Halted,
            HelloFailsConstraints, HelloIgnored, _cb_messagetlvs, _cb_addresstlvs_pass1,
            AddressFailsConstraintsPass1, _cb_addresstlvs_pass1_end, _cb_addr_pass2_block,
            AddressFailsConstraintsPass2, _cb_msg_pass2_end, _cb_link_symtime, _cb_link_heard,
            _cb_link_vtime, _cb_naddr_vtime, _cb_l2hop_vtime, HysteresisChange, Idle, Running
    <3> QED
      BY <2>2, <3>1 DEF vars, OInv
  <2>3. CASE ~undef /\ Receive
    BY <2>3, ReceiveOrdered
  <2>4. CASE ~undef /\ (Timeout \/ HysteresisEvent)
    BY <2>4, TimeoutOrdered
  <2>5. CASE Halted
    BY <2>1, <2>5 DEF Halted
  <2> QED
    BY <2>1, <2>2, <2>3, <2>4, <2>5 DEF StableNext
<1>3. [StableNext]_vars => [Next]_vars
  BY DEF StableNext, Next
<1>4. StableSpec => Spec
  BY <1>3, PTL DEF StableSpec, Spec
<1> QED
  BY <1>1, <1>2, <1>4, Invariance, PTL DEF StableSpec

(***************************************************************************)
(* Between HELLOs an address that is a link address and a neighbor address *)
(* belongs to a link of that neighbor, whatever HELLOs, damaged ones       *)
(* included, come in which order and however timers fire in between,       *)
(* provided that the nodes around us keep their addresses.                 *)
(***************************************************************************)
THEOREM OwnersAgree ==
    ASSUME Orderly(Hellos)
    PROVE  StableSpec => []AddressOwnersAgree
<1>1. IInv /\ OInv => AddressOwnersAgree
  <2> SUFFICES ASSUME IInv, OInv, Idle, NEW i \in Ifs, NEW a \in Addrs,
                      db.laddr[i][a] # NoLink, db.naddr[a] # NoNeigh
               PROVE  db.neigh[db.laddr[i][a]] = db.naddr[a]
    BY DEF AddressOwnersAgree
  <2> DEFINE l == db.laddr[i][a]
             n == db.naddr[a]
  <2>1. Ordered(db, db.orig, NoLink) /\ Owners(db, db.orig)
    BY DEF OInv, Idle, Running, Session0, Ordered
  <2>2. l \in db.links /\ db.localif[l] = i /\ n \in db.neighs /\ db.neigh[l] \in db.neighs
    BY DEF IInv, Good, ReferencesAlive
  <2>3. PICK m \in Readable(Hellos) :
          /\ m.localif = db.localif[l] /\ m.orig = db.orig[db.neigh[l]]
          /\ LaddrsOf(db, m.localif, l) = ThisAddrs(m)
    BY <2>1, <2>2 DEF Ordered, Whole
  <2>4. a \in ThisAddrs(m)
    BY <2>2, <2>3 DEF LaddrsOf
  <2>5. a \in NeighborAddrs(m)
    BY <2>4, OrderlyFacts, Positions
  <2>6. db.orig[n] = m.orig
    BY <2>1, <2>5, SenderFound
  <2> HIDE DEF l, n
  <2>7. db.neigh[l] = n
    BY <2>1, <2>2, <2>3, <2>6 DEF Owners
  <2> QED
    BY <2>7 DEF l, n
<1> QED
  BY <1>1, OrderStays, PTL

(***************************************************************************)
(* Between HELLOs every neighbor has a link, so that it goes with the      *)
(* validity time of its last one, under the same conditions.               *)
(***************************************************************************)
THEOREM NeighborsLinked ==
    ASSUME Orderly(Hellos)
    PROVE  StableSpec => []NeighborHasLink
<1>1. OInv => NeighborHasLink
  BY DEF OInv, NeighborHasLink, Session0, Ordered, Idle, Running
<1> QED
  BY <1>1, OrderStays, PTL

(***************************************************************************)
(* Between HELLOs the cached status of every link and the counter of       *)
(* symmetric links made from it are right together, when moreover no HELLO *)
(* carries our own originator.                                             *)
(***************************************************************************)
THEOREM StatusesExact ==
    ASSUME Orderly(Hellos),
           LocalOriginator = NoAddr \/ \A m \in Hellos : m.orig # LocalOriginator
    PROVE  StableSpec => []StatusExact
<1>1. OInv => SymmetricCount
  BY DEF OInv, SymmetricCount, Session0, Ordered, Counted, Idle, Running
<1>2. StatusFresh /\ SymmetricCount => StatusExact
  BY DEF StatusExact
<1>3. StableSpec => []StatusFresh
  BY StatusesFresh
<1> QED
  BY <1>1, <1>2, <1>3, OrderStays, PTL
=============================================================================
