------------------------------ MODULE Olsrv2Tc ------------------------------
(***************************************************************************)
(* The topology database of OLSRv2 (src/src/olsrv2/olsrv2/olsrv2_tc.c) and *)
(* its two users: the reader of TC messages (olsrv2_reader.c) and the      *)
(* tracking of the NHDP neighbors' originators.                            *)
(*                                                                         *)
(* An edge and its inverse are allocated together; the one that was not    *)
(* announced is virtual.  A node whose validity timer does not run is      *)
(* virtual too: it is there because an edge ends at it or because HELLOs   *)
(* name it as a neighbor's originator.  The database is a record t; every  *)
(* function of olsrv2_tc.c that changes it is an operator that returns the *)
(* database it leaves behind.                                              *)
(*                                                                         *)
(* Around the router, Advert says what a router announces under which      *)
(* version; a TC carries the version modulo AnsnMod.  TCs may be lost,     *)
(* repeated, delayed and overtake each other: any version may arrive at    *)
(* any time.                                                               *)
(***************************************************************************)
EXTENDS Integers, FiniteSets

CONSTANTS
    Nodes,      \* originator addresses
    Senders,    \* the routers whose TCs arrive, our own addresses excluded
    Prefixes,   \* attached networks and routable addresses (os_route_key)
    Neighbors,  \* struct nhdp_neighbor objects
    NoNode,     \* NULL and AF_UNSPEC
    Freed,      \* a pointer to memory that was given back
    AnsnMod,    \* 2^16
    Versions,   \* absolute answer set numbers (bound for TLC)
    Advert      \* [Senders -> [Versions -> Adverts]], what is announced

Adverts == [edges : SUBSET Nodes, nets : SUBSET Prefixes]

(* The half of the number space: 1 << 15. *)
Half == AnsnMod \div 2

ASSUME TcAssumption ==
    /\ Senders \subseteq Nodes
    /\ NoNode \notin Nodes /\ Freed \notin Nodes /\ Freed # NoNode
    /\ AnsnMod \in Nat \ {0} /\ AnsnMod % 2 = 0
    /\ Versions \subseteq Nat
    /\ \A v, w \in Versions : v - w < Half
    /\ Advert \in [Senders -> [Versions -> Adverts]]
    /\ \A o \in Senders, v \in Versions : o \notin Advert[o][v].edges

VARIABLES
    t,      \* the topology database, and the reader's pointer into it
    cur,    \* _current, with what is left to read of the message
    pc,     \* where the reader is
    norig,  \* originator of every NHDP neighbor
    nold,   \* its _old_originator
    ver,    \* history variable: the absolute number behind node->ansn
    whole   \* history variable: routers whose last TC was complete and fully stored

vars == <<t, cur, pc, norig, nold, ver, whole>>

Pairs == Nodes \X Nodes
Attachments == Nodes \X Prefixes
Ansns == 0 .. AnsnMod - 1

Databases ==
    [ nodes     : SUBSET Nodes,           \* _tc_tree
      timer     : SUBSET Nodes,           \* _validity_time is active
      direct    : SUBSET Nodes,           \* direct_neighbor
      ansn      : [Nodes -> Ansns],
      edges     : SUBSET Pairs,           \* hooked into the tree of their source
      real      : SUBSET Pairs,           \* ... and not virtual
      eansn     : [Pairs -> Ansns],
      nets      : SUBSET Attachments,
      nansn     : [Attachments -> Ansns],
      endpoints : SUBSET Prefixes,        \* _tc_endpoint_tree
      ref       : Nodes \cup {NoNode, Freed} ]  \* _current.node

Sessions ==
    [complete : BOOLEAN, failed : BOOLEAN, edges : SUBSET Nodes, nets : SUBSET Prefixes]

EmptyDb ==
    [ nodes |-> {}, timer |-> {}, direct |-> {},
      ansn |-> [n \in Nodes |-> 0],
      edges |-> {}, real |-> {}, eansn |-> [e \in Pairs |-> 0],
      nets |-> {}, nansn |-> [x \in Attachments |-> 0],
      endpoints |-> {}, ref |-> NoNode ]

EmptySession == [complete |-> FALSE, failed |-> FALSE, edges |-> {}, nets |-> {}]

Init ==
    /\ t = EmptyDb
    /\ cur = EmptySession
    /\ pc = "idle"
    /\ norig = [n \in Neighbors |-> NoNode]
    /\ nold = [n \in Neighbors |-> NoNode]
    /\ ver = [n \in Nodes |-> 0]
    /\ whole = {}

-----------------------------------------------------------------------------
(* Sequence numbers of RFC 5444.                                           *)

(* Error: the comparison forgets that numbers roll over. *)
LargerWithoutRollover(s1, s2) == s1 > s2

rfc5444_seqno_is_larger(s1, s2) ==
    \/ s1 > s2 /\ s1 - s2 < Half
    \/ s2 > s1 /\ s2 - s1 > Half

rfc5444_seqno_is_smaller(s1, s2) == s1 # s2 /\ ~rfc5444_seqno_is_larger(s1, s2)

Ansn(v) == v % AnsnMod

(* The validity time of a TC; OONF announces at least 100 ms.  How long it *)
(* is does not matter, the timer may run out at any moment.                *)
ValidityTime == 1

-----------------------------------------------------------------------------
(* The functions of olsrv2_tc.c.                                           *)

Touches(edges, n) == \E e \in edges : e[1] = n

(* Error: the validity timer is never started. *)
NodeAddWithoutTimer(d, o, vtime, ansn) ==
    [d EXCEPT !.nodes = @ \cup {o}, !.ansn = [@ EXCEPT ![o] = ansn]]

(* The timer of a node is set with its validity time; 0 stops it. *)
olsrv2_tc_node_add(d, o, vtime, ansn) ==
    [d EXCEPT
        !.nodes = @ \cup {o},
        !.ansn  = IF o \in d.nodes /\ o \in d.timer THEN @ ELSE [@ EXCEPT ![o] = ansn],
        !.timer = IF vtime > 0 THEN @ \cup {o} ELSE @ \ {o}]

(* The edges of n that _remove_edge unhooks together with their inverse,   *)
(* for the destinations D: announced by n and not from the other side.     *)
Unhooked(d, n, D) == {m \in D : <<n, m>> \in d.real /\ <<m, n>> \notin d.real}

EdgesWithout(d, n, D) ==
    d.edges \ {e \in d.edges : \/ e[1] = n /\ e[2] \in Unhooked(d, n, D)
                               \/ e[2] = n /\ e[1] \in Unhooked(d, n, D)}

(* The destinations that no edge needs any more and that are virtual.      *)
Orphans(d, n, D) ==
    {m \in Unhooked(d, n, D) : ~Touches(EdgesWithout(d, n, D), m) /\ m \notin d.timer}

(* Endpoints that lose their last attachment are freed. *)
EndpointsWithout(d, gone) ==
    d.endpoints \ {p \in Prefixes : /\ \E x \in gone : x[2] = p
                                    /\ ~\E x \in d.nets \ gone : x[2] = p}

PointerAfterFree(d, freed) == IF d.ref \in freed THEN Freed ELSE d.ref

(* oonf_class_free for a set of nodes *)
Free(d, freed) ==
    [d EXCEPT !.nodes = @ \ freed,
              !.ansn  = [n \in Nodes |-> IF n \in freed THEN 0 ELSE @[n]],
              !.ref   = PointerAfterFree(d, freed)]

(* olsrv2_tc_endpoint_remove for a set of attachments *)
olsrv2_tc_endpoint_remove(d, gone) ==
    [d EXCEPT !.nets      = @ \ gone,
              !.nansn     = [x \in Attachments |-> IF x \in gone THEN 0 ELSE @[x]],
              !.endpoints = EndpointsWithout(d, gone)]

(* The edges from n to D are no longer announced; their numbers are not    *)
(* read again.                                                             *)
Unannounced(d, n, D) ==
    [d EXCEPT !.edges = EdgesWithout(d, n, D),
              !.real  = @ \ {e \in @ : e[1] = n /\ e[2] \in D},
              !.eansn = [e \in Pairs |-> IF e[1] = n /\ e[2] \in D THEN 0 ELSE @[e]]]

(* Error: the destination of an unhooked edge is never cleaned up. *)
EdgeRemoveKeepsOrphans(d, n, D) == Unannounced(d, n, D)

(* olsrv2_tc_edge_remove for the edges from n to the nodes of D: virtual   *)
(* edges stay, an edge whose inverse is real becomes virtual, the others   *)
(* go with their inverse, and so does a virtual destination without edges. *)
olsrv2_tc_edge_remove(d, n, D) ==
    LET d1 == Unannounced(d, n, D)
        d2 == olsrv2_tc_endpoint_remove(d1, {x \in d.nets : x[1] \in Orphans(d, n, D)})
    IN  Free(d2, Orphans(d, n, D) \ d.direct)

(* Stop the timer; the node goes if no edge and no HELLO needs it. *)
FreeNode(d, n) ==
    Free([d EXCEPT !.timer = @ \ {n}],
         IF Touches(d.edges, n) \/ n \in d.direct THEN {} ELSE {n})

(* Error: the attached networks of the node stay. *)
NodeRemoveKeepsNetworks(d, n) == FreeNode(olsrv2_tc_edge_remove(d, n, Nodes), n)

olsrv2_tc_node_remove(d, n) ==
    LET d1 == olsrv2_tc_edge_remove(d, n, Nodes)
        d2 == olsrv2_tc_endpoint_remove(d1, {x \in d1.nets : x[1] = n})
    IN  FreeNode(d2, n)

(* Error: the inverse edge is not hooked into the destination. *)
EdgeAddOneSided(d, n, m) ==
    [(IF m \in d.nodes THEN d ELSE olsrv2_tc_node_add(d, m, 0, 0))
        EXCEPT !.edges = @ \cup {<<n, m>>},
               !.real  = @ \cup {<<n, m>>},
               !.eansn = [@ EXCEPT ![<<n, m>>] = d.ansn[n]]]

(* olsrv2_tc_edge_add, and the reader's stamp on the new edge.  An edge    *)
(* that is already there, virtual or not, becomes real; a new one comes    *)
(* with a virtual inverse and, if need be, a virtual destination. *)
olsrv2_tc_edge_add(d, n, m) ==
    LET d1 == IF m \in d.nodes THEN d ELSE olsrv2_tc_node_add(d, m, 0, 0)
    IN  [d1 EXCEPT
            !.edges = @ \cup {<<n, m>>, <<m, n>>},
            !.real  = @ \cup {<<n, m>>},
            !.eansn = [@ EXCEPT ![<<n, m>>] = d.ansn[n]]]

(* olsrv2_tc_endpoint_add, and the reader's stamp on the attachment *)
olsrv2_tc_endpoint_add(d, n, p) ==
    [d EXCEPT !.nets      = @ \cup {<<n, p>>},
              !.endpoints = @ \cup {p},
              !.nansn     = [@ EXCEPT ![<<n, p>>] = d.ansn[n]]]

-----------------------------------------------------------------------------
(* The reader of TC messages (olsrv2_reader.c).                            *)

Idle == pc = "idle"

RealOf(d, n) == {m \in Nodes : <<n, m>> \in d.real}
NetsOf(d, n) == {p \in Prefixes : <<n, p>> \in d.nets}

(* The message is dropped before it reaches the database: a header field   *)
(* is missing, we hear ourselves, the interface is not active, the kind of *)
(* TC is unknown, the duplicate set knows the message, or there is no      *)
(* memory for the node.  The session was cleared first.                    *)
TcIgnored ==
    /\ Idle
    /\ t.ref # NoNode
    /\ t' = [t EXCEPT !.ref = NoNode]
    /\ cur' = EmptySession
    /\ UNCHANGED <<pc, norig, nold, ver, whole>>

(* Is the TC recent enough?  Asked after olsrv2_tc_node_add. *)
RecentEnough(complete, ansn, stored) ==
    IF complete THEN ~rfc5444_seqno_is_smaller(ansn, stored)
                ELSE rfc5444_seqno_is_larger(ansn, stored)

(* TC of router o with version v; an incomplete one is a fragment. *)
_cb_messagetlvs(o, v, complete, part) ==
    LET d == olsrv2_tc_node_add(t, o, ValidityTime, Ansn(v))
    IN  /\ Idle
        /\ complete => part = Advert[o][v]
        /\ part.edges \subseteq Advert[o][v].edges
        /\ part.nets \subseteq Advert[o][v].nets
        /\ ver' = IF o \notin t.timer \/ RecentEnough(complete, Ansn(v), d.ansn[o])
                  THEN [ver EXCEPT ![o] = v] ELSE ver
        /\ \/ /\ ~RecentEnough(complete, Ansn(v), d.ansn[o])
              /\ t' = [d EXCEPT !.ref = o]
              /\ cur' = [EmptySession EXCEPT !.complete = complete]
              /\ whole' = IF o \in t.timer THEN whole ELSE whole \ {o}
              /\ UNCHANGED pc
           \/ /\ RecentEnough(complete, Ansn(v), d.ansn[o])
              /\ t' = [d EXCEPT !.ansn = [@ EXCEPT ![o] = Ansn(v)], !.ref = o]
              /\ cur' = [complete |-> complete, failed |-> FALSE,
                         edges |-> part.edges, nets |-> part.nets]
              /\ pc' = "addr"
              /\ UNCHANGED whole
        /\ UNCHANGED <<norig, nold>>

(* A TC that lacks a mandatory message TLV: _cb_messagetlvs is not called, *)
(* the session of the previous TC is still there, and the addresses and    *)
(* the end of the message are read into it.                                *)
TcFailsConstraints(o, v) ==
    /\ Idle
    /\ t.ref # NoNode
    /\ IF t.ref = Freed \/ t.ref \in Advert[o][v].edges
       THEN pc' = "undef" /\ UNCHANGED cur
       ELSE /\ pc' = "addr"
            /\ cur' = [cur EXCEPT !.failed = FALSE, !.edges = Advert[o][v].edges,
                                  !.nets = Advert[o][v].nets]
    /\ UNCHANGED <<t, norig, nold, ver, whole>>

(* An originator in the address block of the TC; without memory for a new  *)
(* edge, its inverse or its destination the address is skipped.            *)
_cb_addresstlvs(m) ==
    /\ pc = "addr" /\ m \in cur.edges
    /\ \/ /\ t' = olsrv2_tc_edge_add(t, t.ref, m)
          /\ cur' = [cur EXCEPT !.edges = @ \ {m}]
       \/ /\ <<t.ref, m>> \notin t.edges
          /\ cur' = [cur EXCEPT !.edges = @ \ {m}, !.failed = TRUE]
          /\ UNCHANGED t
    /\ UNCHANGED <<pc, norig, nold, ver, whole>>

(* A routable address or an attached network. *)
_handle_gateways(p) ==
    /\ pc = "addr" /\ p \in cur.nets
    /\ \/ /\ t' = olsrv2_tc_endpoint_add(t, t.ref, p)
          /\ cur' = [cur EXCEPT !.nets = @ \ {p}]
       \/ /\ <<t.ref, p>> \notin t.nets
          /\ cur' = [cur EXCEPT !.nets = @ \ {p}, !.failed = TRUE]
          /\ UNCHANGED t
    /\ UNCHANGED <<pc, norig, nold, ver, whole>>

(* Error: edges of an older announcement stay. *)
CleanupForgetsEdges(d, n) ==
    olsrv2_tc_endpoint_remove(d, {x \in d.nets : x[1] = n /\ d.nansn[x] # d.ansn[n]})

(* Everything that does not carry the current ANSN is removed. *)
CleanupOldAnsn(d, n) ==
    LET d1 == olsrv2_tc_edge_remove(d, n,
                  {m \in Nodes : <<n, m>> \in d.edges /\ d.eansn[<<n, m>>] # d.ansn[n]})
    IN  olsrv2_tc_endpoint_remove(d1,
            {x \in d1.nets : x[1] = n /\ d1.nansn[x] # d1.ansn[n]})

_cb_messagetlvs_end ==
    /\ pc = "addr" /\ cur.edges = {} /\ cur.nets = {}
    /\ t' = [CleanupOldAnsn(t, t.ref) EXCEPT !.ref = NoNode]
    /\ pc' = "idle"
    /\ cur' = EmptySession
    /\ whole' = IF cur.complete /\ ~cur.failed THEN whole \cup {t.ref} ELSE whole \ {t.ref}
    /\ UNCHANGED <<norig, nold, ver>>

(* The validity time of a node is over. *)
_cb_tc_node_timeout(n) ==
    /\ Idle /\ n \in t.timer
    /\ t' = olsrv2_tc_node_remove(t, n)
    /\ whole' = whole \ {n}
    /\ ver' = [ver EXCEPT ![n] = 0]
    /\ UNCHANGED <<cur, pc, norig, nold>>

-----------------------------------------------------------------------------
(* The originators of the NHDP neighbors.                                  *)

(* Error: the node is looked at, the flag is not cleared. *)
NeighborRemoveKeepsFlag(d, orig) ==
    IF orig \notin d.nodes \/ orig \in d.timer THEN d ELSE olsrv2_tc_node_remove(d, orig)

_cb_neighbor_remove(d, orig) ==
    IF orig \notin d.nodes THEN d
    ELSE LET d1 == [d EXCEPT !.direct = @ \ {orig}]
         IN  IF orig \in d.timer THEN d1 ELSE olsrv2_tc_node_remove(d1, orig)

(* The change event is fired after the neighbor got its new originator:    *)
(* both lookups are for the new one.                                       *)
_cb_neighbor_change(d, orig, old) ==
    LET d1 == _cb_neighbor_remove(d, orig)
        d2 == IF orig \in d1.nodes THEN d1 ELSE olsrv2_tc_node_add(d1, orig, 0, 0)
    IN  IF orig = old \/ orig = NoNode THEN d ELSE [d2 EXCEPT !.direct = @ \cup {orig}]

(* nhdp_db_neighbor_set_originator: another neighbor with this originator  *)
(* loses it without an event, its _old_originator stays.                   *)
nhdp_db_neighbor_set_originator(n, o) ==
    /\ Idle /\ norig[n] # o
    /\ norig' = [x \in Neighbors |->
                    IF x = n THEN o ELSE IF norig[x] = o THEN NoNode ELSE norig[x]]
    /\ nold' = [nold EXCEPT ![n] = o]
    /\ t' = _cb_neighbor_change(t, o, nold[n])
    /\ UNCHANGED <<cur, pc, ver, whole>>

(* There is no memory for the node of the new originator. *)
SetOriginatorNoMemory(n, o) ==
    /\ Idle /\ norig[n] # o
    /\ o \in Nodes \ t.nodes
    /\ norig' = [x \in Neighbors |->
                    IF x = n THEN o ELSE IF norig[x] = o THEN NoNode ELSE norig[x]]
    /\ nold' = [nold EXCEPT ![n] = o]
    /\ UNCHANGED <<t, cur, pc, ver, whole>>

nhdp_db_neighbor_remove(n) ==
    /\ Idle /\ norig[n] # NoNode
    /\ norig' = [norig EXCEPT ![n] = NoNode]
    /\ nold' = [nold EXCEPT ![n] = NoNode]
    /\ t' = _cb_neighbor_remove(t, norig[n])
    /\ UNCHANGED <<cur, pc, ver, whole>>

(* Shutdown: edges and attachments go without regard to the nodes at their *)
(* ends, then every node is removed; direct neighbors are left behind.     *)
olsrv2_tc_cleanup ==
    /\ Idle
    /\ t' = Free([t EXCEPT !.edges = {}, !.real = {}, !.nets = {}, !.endpoints = {},
                           !.timer = {}], t.nodes \ t.direct)
    /\ pc' = "stopped"
    /\ UNCHANGED <<cur, norig, nold, ver, whole>>

Halted == pc \in {"undef", "stopped"} /\ UNCHANGED vars

-----------------------------------------------------------------------------
Fragments(o, v) ==
    [edges : SUBSET Advert[o][v].edges, nets : SUBSET Advert[o][v].nets]

ReceiveTc(o) ==
    \E v \in Versions :
        \/ _cb_messagetlvs(o, v, TRUE, Advert[o][v])
        \/ \E part \in Fragments(o, v) : _cb_messagetlvs(o, v, FALSE, part)

Reading ==
    \/ \E m \in Nodes : _cb_addresstlvs(m)
    \/ \E p \in Prefixes : _handle_gateways(p)
    \/ _cb_messagetlvs_end

(* Every neighbor keeps the originator it got first, and no other neighbor *)
(* claims it.                                                              *)
FirstOriginator(n, o) ==
    /\ norig[n] = NoNode /\ \A x \in Neighbors : norig[x] # o
    /\ nhdp_db_neighbor_set_originator(n, o)

NeighborRemoved == \E n \in Neighbors : nhdp_db_neighbor_remove(n)

OrderlyNext ==
    \/ \E o \in Senders : ReceiveTc(o)
    \/ TcIgnored
    \/ Reading
    \/ \E n \in Nodes : _cb_tc_node_timeout(n)
    \/ \E n \in Neighbors, o \in Nodes : FirstOriginator(n, o)
    \/ NeighborRemoved

OriginatorMoves ==
    \E n \in Neighbors, o \in Nodes \cup {NoNode} : nhdp_db_neighbor_set_originator(n, o)

Next ==
    \/ OrderlyNext
    \/ OriginatorMoves
    \/ \E n \in Neighbors, o \in Nodes : SetOriginatorNoMemory(n, o)
    \/ \E o \in Senders, v \in Versions : TcFailsConstraints(o, v)
    \/ olsrv2_tc_cleanup
    \/ Halted

Spec == Init /\ [][Next]_vars

(* Neighbors keep their originator, TCs are well formed, the router runs. *)
OrderlySpec ==
    /\ Init /\ [][OrderlyNext]_vars
    /\ WF_vars(Reading)
    /\ \A n \in Nodes : SF_vars(_cb_tc_node_timeout(n))

-----------------------------------------------------------------------------
(***************************************************************************)
(* Types.                                                                  *)
(***************************************************************************)
TypeOK ==
    /\ t \in Databases
    /\ cur \in Sessions
    /\ pc \in {"idle", "addr", "undef", "stopped"}
    /\ norig \in [Neighbors -> Nodes \cup {NoNode}]
    /\ nold \in [Neighbors -> Nodes \cup {NoNode}]
    /\ ver \in [Nodes -> Nat]
    /\ whole \in SUBSET Nodes

(* A database whose trees and pointers fit together. *)
Graph(d) ==
    /\ \A e \in d.edges : /\ <<e[2], e[1]>> \in d.edges
                          /\ e[1] \in d.nodes /\ e[1] # e[2]
                          /\ e \in d.real \/ <<e[2], e[1]>> \in d.real
    /\ d.real \subseteq d.edges
    /\ \A x \in d.nets : x[1] \in d.nodes
    /\ d.endpoints = {x[2] : x \in d.nets}

(***************************************************************************)
(* The graph stays well formed through every order of TCs, timeouts, NHDP  *)
(* events and failed allocations: an edge and its inverse are hooked       *)
(* together (edge->inverse), at least one of the two was announced, both   *)
(* ends and both ends of an attachment are in their trees, and an endpoint *)
(* is there exactly as long as something is attached to it.                *)
(***************************************************************************)
GraphSound == Graph(t)

(* The nodes that something needs. *)
Needed(d) == d.timer \cup d.direct \cup {e[1] : e \in d.edges}

(***************************************************************************)
(* No node is left behind and none is missing: a node is in the tree       *)
(* exactly when its validity time runs, an edge ends at it or HELLOs keep  *)
(* it (olsrv2_tc_node_remove frees a node only if nothing needs it, and    *)
(* _remove_edge frees the last virtual destination).                       *)
(***************************************************************************)
NodesNeeded == t.nodes = Needed(t)

(***************************************************************************)
(* A virtual node announces nothing: when the validity time of a router is *)
(* over, none of its edges or networks can still be used by the routing    *)
(* (the Dijkstra run looks at edges that are not virtual).                 *)
(***************************************************************************)
VirtualAnnouncesNothing ==
    Idle => \A n \in Nodes \ t.timer : RealOf(t, n) = {} /\ NetsOf(t, n) = {}

(***************************************************************************)
(* What is stored of a router comes from one announcement, the one its     *)
(* ANSN stands for: nothing older survives in it, whatever the order in    *)
(* which TCs arrive and in which other routers time out; and a complete TC *)
(* that was stored without loss stays complete until it is replaced.       *)
(***************************************************************************)
TopologyExact ==
    Idle => \A o \in Senders \cap t.timer :
        LET advert == Advert[o][ver[o]]
        IN  /\ RealOf(t, o) \subseteq advert.edges /\ NetsOf(t, o) \subseteq advert.nets
            /\ o \in whole => RealOf(t, o) = advert.edges /\ NetsOf(t, o) = advert.nets

(***************************************************************************)
(* While its validity time runs, what is stored of a router is never       *)
(* replaced by an older announcement, also when the ANSN rolls over.       *)
(***************************************************************************)
NeverOlder ==
    [][\A o \in t.timer \cap t'.timer : ver'[o] >= ver[o]]_vars

(***************************************************************************)
(* "true if node has to be kept alive because of HELLOs" (olsrv2_tc.h):    *)
(* direct_neighbor is set for the originators of the NHDP neighbors and    *)
(* for nobody else.                                                        *)
(***************************************************************************)
DirectExact == t.direct = {norig[n] : n \in Neighbors} \ {NoNode}

(***************************************************************************)
(* Every NHDP neighbor with an originator has its TC node: the Dijkstra    *)
(* run starts from these nodes and skips a neighbor without one.           *)
(***************************************************************************)
NeighborHasNode == \A n \in Neighbors : norig[n] # NoNode => norig[n] \in t.nodes

(***************************************************************************)
(* The topology agrees with the neighborhood, whatever TCs and timeouts    *)
(* come between the changes of the neighbors (_cb_neighbor_change,         *)
(* _cb_neighbor_remove, olsrv2_tc_node_remove).                            *)
(***************************************************************************)
NeighborsDirect == DirectExact /\ NeighborHasNode

(***************************************************************************)
(* When the TCs of a router stop arriving, all it announced is forgotten,  *)
(* whatever the other routers say.                                         *)
(***************************************************************************)
AnnouncedIsForgotten ==
    \A o \in Senders :
        <>[][~ReceiveTc(o)]_vars => <>[](RealOf(t, o) = {} /\ NetsOf(t, o) = {})
=============================================================================
