------------------------------- MODULE NhdpDb -------------------------------
(***************************************************************************)
(* The NHDP database (src/src/nhdp/nhdp/nhdp_db.c): neighbors, the links   *)
(* to them, the addresses of both and the two-hop addresses behind a link. *)
(*                                                                         *)
(* A database is a record d; every function of nhdp_db.c that changes it   *)
(* is an operator that returns the database it leaves behind, so that the  *)
(* callbacks of the reader and of the timers (module Nhdp) are compositions *)
(* of these operators in the order of the code's calls.                    *)
(*                                                                         *)
(* C objects are drawn from the finite pools Neighs and Links: a pool that *)
(* is empty is a failed allocation.  Trees that are pure indexes           *)
(* (_neigh_originator_tree, _link_originators) are kept as state of their  *)
(* own, because the code maintains them by hand.                           *)
(***************************************************************************)
EXTENDS Integers, FiniteSets

CONSTANTS
    Neighs,           \* struct nhdp_neighbor objects
    Links,            \* struct nhdp_link objects
    Ifs,              \* local NHDP interfaces
    Addrs,            \* network addresses, own and foreign
    NoNeigh, NoLink,  \* NULL pointers
    NoAddr,           \* AF_UNSPEC
    OwnAddrs,         \* [Ifs -> SUBSET Addrs], addresses of our interfaces
    LocalOriginator   \* our own originator address

ASSUME NhdpDbAssumption ==
    /\ NoNeigh \notin Neighs /\ NoLink \notin Links /\ NoAddr \notin Addrs
    /\ IsFiniteSet(Links) /\ Ifs # {}
    /\ OwnAddrs \in [Ifs -> SUBSET Addrs]
    /\ LocalOriginator \in Addrs \cup {NoAddr}

LinkStatus == {"PENDING", "LOST", "HEARD", "SYMMETRIC"}

(* What the hysteresis handler, the collision checks on interface and MAC  *)
(* address included, says about a link.                                    *)
Hysteresis == {"ok", "pending", "lost"}

Databases ==
    [ neighs    : SUBSET Neighs,
      orig      : [Neighs -> Addrs \cup {NoAddr}],
      origTree  : SUBSET Neighs,
      symmetric : [Neighs -> Int],
      npartner  : [Neighs -> Neighs \cup {NoNeigh}],
      naddr     : [Addrs -> Neighs \cup {NoNeigh}],
      lost      : SUBSET Addrs,
      mayGo     : SUBSET Addrs,
      links     : SUBSET Links,
      neigh     : [Links -> Neighs \cup {NoNeigh}],
      localif   : [Links -> Ifs],
      linkOrigs : SUBSET Links,
      lpartner  : [Links -> Links \cup {NoLink}],
      status    : [Links -> LinkStatus],
      hyst      : [Links -> Hysteresis],
      symTime   : SUBSET Links,
      heardTime : SUBSET Links,
      vtime     : SUBSET Links,
      laddr     : [Ifs -> [Addrs -> Links \cup {NoLink}]],
      twohop    : SUBSET (Links \X Addrs) ]

EmptyDb ==
    [ neighs    |-> {},
      orig      |-> [n \in Neighs |-> NoAddr],
      origTree  |-> {},
      symmetric |-> [n \in Neighs |-> 0],
      npartner  |-> [n \in Neighs |-> NoNeigh],
      naddr     |-> [a \in Addrs |-> NoNeigh],
      lost      |-> {},
      mayGo     |-> {},
      links     |-> {},
      neigh     |-> [l \in Links |-> NoNeigh],
      localif   |-> [l \in Links |-> CHOOSE i \in Ifs : TRUE],
      linkOrigs |-> {},
      lpartner  |-> [l \in Links |-> NoLink],
      status    |-> [l \in Links |-> "LOST"],
      hyst      |-> [l \in Links |-> "ok"],
      symTime   |-> {},
      heardTime |-> {},
      vtime     |-> {},
      laddr     |-> [i \in Ifs |-> [a \in Addrs |-> NoLink]],
      twohop    |-> {} ]

LinksOf(d, n) == {l \in d.links : d.neigh[l] = n}

NaddrsOf(d, n) == {a \in Addrs : d.naddr[a] = n}

-----------------------------------------------------------------------------
(* Dualstack partners, the same code for links and for neighbors: p maps   *)
(* objects to partners.                                                    *)

(* Mutant: the partner keeps its pointer.                                  *)
DisconnectOneSide(p, k, null) == [p EXCEPT ![k] = null]

Disconnect(p, k, null) ==
    IF p[k] = null THEN p ELSE [p EXCEPT ![p[k]] = null, ![k] = null]

Connect(p, k1, k2, null) ==
    LET q == IF p[k1] = k2 THEN p ELSE [Disconnect(p, k1, null) EXCEPT ![k1] = k2]
    IN  IF q[k2] = k1 THEN q ELSE [Disconnect(q, k2, null) EXCEPT ![k2] = k1]

(* The partner of a live object is alive and points back.                  *)
Mutual(p, K, live, null) ==
    \A k \in K : p[k] # null => k \in live /\ p[k] \in live /\ p[p[k]] = k

-----------------------------------------------------------------------------
(* Links *)

(* nhdp_db_link_add: the link object l is the one malloc returned. *)
nhdp_db_link_add(d, l, n, i) ==
    [d EXCEPT
        !.links = @ \cup {l},
        !.neigh[l] = n,
        !.localif[l] = i,
        !.linkOrigs = IF d.orig[n] # NoAddr THEN @ \cup {l} ELSE @]

(* nhdp_db_link_remove, for a set S of links: partners are disconnected,    *)
(* addresses and two-hop addresses go with the link, the timers stop.       *)
nhdp_db_link_remove(d, S) ==
    [d EXCEPT
        !.links = @ \ S,
        !.neigh = [l \in Links |-> IF l \in S THEN NoNeigh ELSE @[l]],
        !.linkOrigs = @ \ {l \in S : d.orig[d.neigh[l]] # NoAddr},
        !.lpartner = [l \in Links |->
            IF l \in S \/ \E p \in S : d.lpartner[p] = l THEN NoLink ELSE @[l]],
        !.status = [l \in Links |-> IF l \in S THEN "LOST" ELSE @[l]],
        !.hyst = [l \in Links |-> IF l \in S THEN "ok" ELSE @[l]],
        !.symTime = @ \ S,
        !.heardTime = @ \ S,
        !.vtime = @ \ S,
        !.laddr = [i \in Ifs |-> [a \in Addrs |->
            IF @[i][a] \in S THEN NoLink ELSE @[i][a]]],
        !.twohop = {h \in @ : h[1] \notin S}]

(* nhdp_db_link_addr_add and nhdp_db_link_addr_move *)
SetLinkAddr(d, i, a, l) == [d EXCEPT !.laddr[i][a] = l]

nhdp_db_link_disconnect_dualstack(d, l) ==
    [d EXCEPT !.lpartner = Disconnect(@, l, NoLink)]

nhdp_db_link_connect_dualstack(d, l1, l2) ==
    [d EXCEPT !.lpartner = Connect(@, l1, l2, NoLink)]

(* _nhdp_db_link_calculate_status *)
CalculateStatus(d, l) ==
    IF \/ LocalOriginator # NoAddr /\ d.orig[d.neigh[l]] = LocalOriginator
       \/ d.hyst[l] = "pending"
    THEN "PENDING"
    ELSE IF d.hyst[l] = "lost" THEN "LOST"
    ELSE IF l \in d.symTime THEN "SYMMETRIC"
    ELSE IF l \in d.heardTime THEN "HEARD"
    ELSE "LOST"

_link_status_now_symmetric(d, l) ==
    LET n == d.neigh[l]
    IN  [d EXCEPT
            !.symmetric[n] = @ + 1,
            !.lost = IF d.symmetric[n] + 1 = 1 THEN @ \ NaddrsOf(d, n) ELSE @]

_link_status_not_symmetric_anymore(d, l) ==
    LET n == d.neigh[l]
    IN  [d EXCEPT
            !.twohop = {h \in @ : h[1] # l},
            !.symmetric[n] = @ - 1,
            !.lost = IF d.symmetric[n] - 1 = 0 THEN @ \cup NaddrsOf(d, n) ELSE @]

(* Mutant: a link that stays symmetric is counted again.                   *)
UpdateCountsAgain(d, l) ==
    LET now == CalculateStatus(d, l)
        d1  == [d EXCEPT !.status[l] = now]
    IN  IF now = "SYMMETRIC" THEN _link_status_now_symmetric(d1, l)
        ELSE IF d.status[l] = "SYMMETRIC" THEN _link_status_not_symmetric_anymore(d1, l)
        ELSE d1

nhdp_db_link_update_status(d, l) ==
    LET was == d.status[l] = "SYMMETRIC"
        now == CalculateStatus(d, l)
        d1  == [d EXCEPT !.status[l] = now]
    IN  IF was /\ now # "SYMMETRIC" THEN _link_status_not_symmetric_anymore(d1, l)
        ELSE IF ~was /\ now = "SYMMETRIC" THEN _link_status_now_symmetric(d1, l)
        ELSE d1

(* nhdp_db_link_set_unsymmetric, for a set S of links one after the other: *)
(* the cached status of the links is left alone.                           *)
nhdp_db_link_set_unsymmetric(d, S) ==
    LET fallen(n) == Cardinality({l \in S : d.neigh[l] = n /\ d.status[l] = "SYMMETRIC"})
    IN  [d EXCEPT
            !.symTime = @ \ S,
            !.twohop = {h \in @ : h[1] \notin S},
            !.symmetric = [n \in Neighs |-> @[n] - fallen(n)],
            !.lost = @ \cup {a \in Addrs : d.naddr[a] \in d.neighs /\
                d.symmetric[d.naddr[a]] \in 1..fallen(d.naddr[a])}]

-----------------------------------------------------------------------------
(* Neighbors *)

nhdp_db_neighbor_add(d, n) == [d EXCEPT !.neighs = @ \cup {n}]

nhdp_db_neigbor_disconnect_dualstack(d, n) ==
    [d EXCEPT !.npartner = Disconnect(@, n, NoNeigh)]

nhdp_db_neighbor_connect_dualstack(d, n1, n2) ==
    [d EXCEPT !.npartner = Connect(@, n1, n2, NoNeigh)]

(* Mutant: the addresses of the neighbor stay in the global address tree.  *)
RemoveKeepsAddresses(d, n) ==
    LET d1 == nhdp_db_link_remove(nhdp_db_neigbor_disconnect_dualstack(d, n), LinksOf(d, n))
    IN  [d1 EXCEPT
            !.origTree = @ \ {n}, !.orig[n] = NoAddr, !.symmetric[n] = 0, !.neighs = @ \ {n}]

(* nhdp_db_neighbor_remove: partner, links, addresses and originator entry *)
(* go with the neighbor.                                                   *)
nhdp_db_neighbor_remove(d, n) ==
    LET d1 == nhdp_db_neigbor_disconnect_dualstack(d, n)
        d2 == nhdp_db_link_remove(d1, LinksOf(d1, n))
    IN  [d2 EXCEPT
            !.naddr = [a \in Addrs |-> IF @[a] = n THEN NoNeigh ELSE @[a]],
            !.lost = @ \ NaddrsOf(d, n),
            !.mayGo = @ \ NaddrsOf(d, n),
            !.origTree = IF d.orig[n] # NoAddr THEN @ \ {n} ELSE @,
            !.orig[n] = NoAddr,
            !.symmetric[n] = 0,
            !.neighs = @ \ {n}]

(* nhdp_db_neighbor_addr_remove *)
nhdp_db_neighbor_addr_remove(d, a) ==
    [d EXCEPT !.naddr[a] = NoNeigh, !.lost = @ \ {a}, !.mayGo = @ \ {a}]

(* nhdp_db_neighbor_addr_add and nhdp_db_neighbor_addr_move *)
SetNeighborAddr(d, a, n) == [d EXCEPT !.naddr[a] = n]

(* nhdp_db_neighbor_get_by_originator: at most one, or NoNeigh *)
NeighborByOriginator(d, o) ==
    LET S == {n \in d.origTree : d.orig[n] = o}
    IN  IF o = NoAddr \/ S = {} THEN NoNeigh ELSE CHOOSE n \in S : TRUE

(* nhdp_interface_link_get_by_originator: any link with this originator *)
LinksByOriginator(d, i, o) ==
    {l \in d.linkOrigs : d.localif[l] = i /\ d.orig[d.neigh[l]] = o}

(* Take neighbor n and its links out of both originator indexes. *)
Unindex(d, n) ==
    [d EXCEPT !.origTree = @ \ {n}, !.linkOrigs = @ \ LinksOf(d, n)]

(* Mutant: the neighbor that had the originator before keeps it.           *)
OriginatorNotInvalidated(d, n, o) ==
    IF d.orig[n] = o THEN d
    ELSE LET d1 == [Unindex(d, n) EXCEPT !.orig[n] = o]
         IN  IF o = NoAddr THEN d1
             ELSE [d1 EXCEPT !.origTree = @ \cup {n},
                             !.linkOrigs = @ \cup LinksOf(d1, n)]

nhdp_db_neighbor_set_originator(d, n, o) ==
    IF d.orig[n] = o THEN d
    ELSE LET d1 == IF d.orig[n] # NoAddr THEN Unindex(d, n) ELSE d
             n2 == NeighborByOriginator(d1, o)
             d2 == IF n2 # NoNeigh
                   THEN [Unindex(d1, n2) EXCEPT !.orig[n2] = NoAddr] ELSE d1
             d3 == [d2 EXCEPT !.orig[n] = o]
         IN  IF o = NoAddr THEN d3
             ELSE [d3 EXCEPT !.origTree = @ \cup {n},
                             !.linkOrigs = @ \cup LinksOf(d3, n)]

-----------------------------------------------------------------------------
(* What is true of every database the code builds. *)

(***************************************************************************)
(* No object points to freed memory: links point to live neighbors,        *)
(* addresses and two-hop addresses to live links and neighbors, the        *)
(* originator indexes and running timers only hold live objects.           *)
(***************************************************************************)
ReferencesAlive(d) ==
    /\ \A l \in d.links : d.neigh[l] \in d.neighs
    /\ \A a \in Addrs : d.naddr[a] \in d.neighs \cup {NoNeigh}
    /\ \A i \in Ifs, a \in Addrs :
         LET l == d.laddr[i][a] IN l # NoLink => l \in d.links /\ d.localif[l] = i
    /\ \A h \in d.twohop : h[1] \in d.links
    /\ d.origTree \subseteq d.neighs
    /\ d.linkOrigs \cup d.symTime \cup d.heardTime \cup d.vtime \subseteq d.links

(***************************************************************************)
(* The originator indexes are exact: a neighbor is in the originator tree  *)
(* iff it has an originator, a link is in its interface's tree iff its     *)
(* neighbor has one, and no two neighbors share an originator.             *)
(***************************************************************************)
IndexExact(d) ==
    /\ \A n \in d.neighs : n \in d.origTree <=> d.orig[n] # NoAddr
    /\ \A l \in d.links : l \in d.linkOrigs <=> d.orig[d.neigh[l]] # NoAddr
    /\ \A n1, n2 \in d.neighs :
         d.orig[n1] # NoAddr /\ d.orig[n1] = d.orig[n2] => n1 = n2

(***************************************************************************)
(* Dualstack partners are live and point back at each other, for neighbors *)
(* and for links.                                                          *)
(***************************************************************************)
PartnersMutual(d) ==
    /\ Mutual(d.npartner, Neighs, d.neighs, NoNeigh)
    /\ Mutual(d.lpartner, Links, d.links, NoLink)

(* Memory that is not allocated carries no data. *)
FreshObjects(d) ==
    /\ \A n \in Neighs \ d.neighs : d.orig[n] = NoAddr
    /\ \A l \in Links \ d.links : d.neigh[l] = NoNeigh

(***************************************************************************)
(* "number of links to this neighbor which are symmetric"                  *)
(* (nhdp_db.h:304)                                                         *)
(***************************************************************************)
SymmetricCountExact(d) ==
    \A n \in d.neighs :
        d.symmetric[n] = Cardinality({l \in LinksOf(d, n) : d.status[l] = "SYMMETRIC"})
=============================================================================
