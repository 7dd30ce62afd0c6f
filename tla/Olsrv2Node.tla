----------------------------- MODULE Olsrv2Node -----------------------------
(***************************************************************************)
(* What an OLSRv2 router says of itself: its originator address (olsrv2.c, *)
(* olsrv2_originator.c), the TC messages it writes (olsrv2_writer.c) with  *)
(* the number of their content (olsrv2_routing.c), and what another router *)
(* makes of them (olsrv2_reader.c, in one step; Olsrv2Tc has the details). *)
(*                                                                         *)
(* Between the two routers TCs may be lost, repeated and overtake each     *)
(* other.  Messages live shorter than the times the protocol holds things: *)
(* nothing expires while an older message is on its way.                   *)
(***************************************************************************)
EXTENDS Olsrv2Lan

CONSTANTS
  Addrs,        \* addresses of our interfaces, of one family
  LinkLocal,    \* those among them that are link-local
  Homes,        \* addresses the router may start with: sets of [addr, lo]
  Acls,         \* values of originator_acl: sets of addresses
  Peers,        \* neighbors: [addrs, orig], with the addresses and the originator of each
  Routable,     \* addresses that routable_acl accepts
  NhdpRoutable, \* the option nhdp_routable
  Hellos,       \* what HELLOs may make of a neighbor
  HoldFactor,   \* a_hold_time_factor
  NumberMod,    \* 2^16, the space of ANSN and message numbers
  MaxFlight,    \* bound for TLC: TCs on their way
  NoAddr        \* AF_UNSPEC

(* Of struct nhdp_neighbor and its domain data: symmetric > 0, the metrics *)
(* of every domain, and the domains in which it chose us as an MPR *)
PeerStates ==
  [sym : BOOLEAN, in : [LanDomains -> 1 .. Infinite], out : [LanDomains -> 1 .. Infinite],
   selects : SUBSET LanDomains]

ASSUME NodeAssumption ==
  /\ LinkLocal \subseteq Addrs /\ NoAddr \notin Addrs
  /\ NumberMod % 2 = 0 /\ NumberMod > 2 * MaxFlight
  /\ Hellos \subseteq PeerStates
  /\ \A h \in Homes, a \in Acls : Cardinality(h) <= 1 /\ \A x \in h : x.addr \in a

VARIABLES
  local,      \* addresses of the interfaces NHDP uses: [addr, lo]
  acl,        \* originator_acl
  informed,   \* no interface event is due
  originator, \* _originator_v4 or _v6
  oldorig,    \* _originator_set_tree
  peers,      \* state of every neighbor
  best,       \* its best_out_link_metric
  selected,   \* _node_is_selected_as_mpr
  ansn,       \* _ansn
  quiet,      \* _unadvertised_tc_count
  seqno,      \* number of the last message
  net,        \* TCs on their way
  there,      \* what the other router stored of each originator
  seen,       \* its processed set
  silent      \* history variable: what changed with no new ANSN being due

origVars == <<local, acl, informed, originator, oldorig>>
peerVars == <<peers, best, selected>>
nodeVars == <<origVars, peerVars, ansn, quiet, seqno, net, there, seen, silent>>

NoNode == [ansn |-> 0, valid |-> FALSE, current |-> FALSE, entries |-> [k \in {} |-> 0]]

NodeInit ==
  /\ local \in Homes /\ acl \in Acls /\ informed = TRUE
  /\ oldorig = {} /\ originator = IF local = {} THEN NoAddr ELSE (CHOOSE x \in local : TRUE).addr
  /\ peers = [p \in Peers |-> [sym |-> FALSE, in |-> [d \in LanDomains |-> Infinite],
                               out |-> [d \in LanDomains |-> Infinite], selects |-> {}]]
  /\ best = [p \in Peers |-> [d \in LanDomains |-> Infinite]] /\ selected = FALSE
  /\ ansn = NumberMod - 1 /\ quiet = 0 /\ seqno = 0
  /\ net = {} /\ there = [a \in Addrs |-> NoNode] /\ seen = {} /\ silent = {}

-----------------------------------------------------------------------------
(* The originator.                                                         *)

_get_addr_priority(a, accepted) ==
  IF a \notin accepted THEN 0 ELSE IF a \in LinkLocal THEN 1 ELSE 2

(* Addresses of the loopback interface are better. *)
Priority(x, accepted) == 4 * _get_addr_priority(x.addr, accepted) + (IF x.lo THEN 2 ELSE 0)

Candidates(accepted) == {x \in local : _get_addr_priority(x.addr, accepted) > 0}

(* What a new originator has to exceed: it is not changed for an equal     *)
(* one.  If the address is on several interfaces the last one counts,      *)
(* whichever that is. *)
OldPriorities(accepted) ==
  LET mine == {x \in Candidates(accepted) : x.addr = originator}
  IN  IF mine = {} THEN {0} ELSE {Priority(x, accepted) + 1 : x \in mine}

(* Error: the old address is forgotten at once. *)
ForgetOriginator(a) == originator' = a /\ oldorig' = oldorig \ {a}

(* The old originator is remembered for a while. *)
_set_originator(a) ==
  /\ originator' = a
  /\ oldorig' = (oldorig \cup ({originator} \ {NoAddr})) \ {a}

_update_originator(accepted) ==
  \E old \in OldPriorities(accepted) :
    \E better \in {{x \in Candidates(accepted) : Priority(x, accepted) > old}} :
      \/ better = {} /\ UNCHANGED <<originator, oldorig>>
      \/ \E x \in better :
           /\ \A y \in better : Priority(y, accepted) <= Priority(x, accepted)
           /\ _set_originator(x.addr)

olsrv2_originator_is_local(a) == a = originator \/ a \in oldorig

(* An interface gets or loses an address; its listeners are told later. *)
AddressChanges(x) ==
  /\ local' = IF x \in local THEN local \ {x} ELSE local \cup {x}
  /\ informed' = FALSE
  /\ UNCHANGED <<acl, originator, oldorig, peerVars, ansn, quiet, seqno, net, there, seen, silent, lanVars>>

_cb_if_event ==
  /\ ~informed
  /\ informed' = TRUE
  /\ _update_originator(acl)
  /\ UNCHANGED <<local, acl, peerVars, ansn, quiet, seqno, net, there, seen, silent, lanVars>>

(* The configuration changes: the option originator. *)
_cb_cfg_olsrv2_changed(accepted) ==
  /\ accepted # acl
  /\ acl' = accepted
  /\ _update_originator(accepted)
  /\ UNCHANGED <<local, informed, peerVars, ansn, quiet, seqno, net, there, seen, silent, lanVars>>

(* Long after: no message of the old originator is on its way. *)
_cb_originator_entry_vtime(a) ==
  /\ a \in oldorig
  /\ \A m \in net : m.orig # a
  /\ oldorig' = oldorig \ {a}
  /\ UNCHANGED <<local, acl, informed, originator, peerVars, ansn, quiet, seqno, net, there, seen, silent, lanVars>>

-----------------------------------------------------------------------------
(* What a TC says (olsrv2_writer.c).  A metric TLV has a value and says    *)
(* whether it is the incoming or the outgoing metric, or both.             *)

(* Without a usable incoming metric nothing is said.  Equal metrics do not *)
(* share a TLV: one of them has its flag when they are compared. *)
NeighborMetricTlvs(in, out) ==
  IF in > MetricMax THEN {}
  ELSE {[value |-> in, incoming |-> TRUE, outgoing |-> FALSE]}
       \cup (IF out > MetricMax THEN {} ELSE {[value |-> out, incoming |-> FALSE, outgoing |-> TRUE]})

_generate_neighbor_metric_tlvs(n) ==
  [d \in LanDomains |-> IF d \in n.selects THEN NeighborMetricTlvs(n.in[d], n.out[d]) ELSE {}]

(* RFC7181_NBR_ADDR_TYPE_ORIGINATOR and _ROUTABLE *)
NbrAddrType(p, a) ==
  (IF a = p.orig THEN {"originator"} ELSE {}) \cup (IF a \in Routable THEN {"routable"} ELSE {})

Advertised == {p \in Peers : peers[p].sym /\ peers[p].selects # {}}

(* An address of a neighbor that chose us. *)
AddressEntries(p) ==
  {[id |-> a, type |-> NbrAddrType(p, a), tlvs |-> _generate_neighbor_metric_tlvs(peers[p]), distances |-> <<>>] :
     a \in {x \in p.addrs : x = p.orig \/ (NhdpRoutable /\ x \in Routable)}}

LanTlvs(data) ==
  [d \in LanDomains |-> IF data[d].metric > MetricMax THEN {}
                        ELSE {[value |-> data[d].metric, incoming |-> FALSE, outgoing |-> TRUE]}]

(* One byte if every domain has the same distance, else one per domain; a  *)
(* domain without a metric has 0. *)
DistanceVector(entry) ==
  LET vector == [d \in LanDomains |-> IF entry.data[d].metric > MetricMax THEN 0 ELSE entry.data[d].distance]
  IN  IF entry.same THEN <<vector[1]>> ELSE vector

LanAnnounced(k) ==
  [id |-> k, type |-> {"gateway"}, tlvs |-> LanTlvs(lans[k].data), distances |-> DistanceVector(lans[k])]

(* The addresses of the message, in any order.  An address is written only *)
(* once: a prefix is no address of a neighbor here. *)
_cb_addAddresses == UNION {AddressEntries(p) : p \in Advertised} \cup {LanAnnounced(k) : k \in DOMAIN lans}

(* After a change of what is announced: TCs on their way are outdated, and *)
(* so is what the other router knows. *)
Outdates ==
  IF _cb_addAddresses' = _cb_addAddresses THEN UNCHANGED <<net, there, silent>>
  ELSE /\ net' = {[m EXCEPT !.current = FALSE] : m \in net}
       /\ there' = [a \in Addrs |-> [there[a] EXCEPT !.current = FALSE]]
       /\ silent' = IF due' THEN silent
                    ELSE silent \cup {e.id : e \in (_cb_addAddresses \ _cb_addAddresses')
                                               \cup (_cb_addAddresses' \ _cb_addAddresses)}

-----------------------------------------------------------------------------
(* The neighbors, as far as TCs depend on them.                            *)

(* _recalculate_neighbor_metric reports a new outgoing metric of a         *)
(* neighbor that has a symmetric link, and nothing else *)
MetricReported(p, n) ==
  \E d \in LanDomains : n.sym /\ n.out[d] < Infinite /\ n.out[d] # best[p][d]

(* A HELLO is read; without an MPR TLV selected stays as it is. *)
HelloRead(p, n, tlv) ==
  /\ n # peers[p] /\ (~tlv => n.selects = {})
  /\ peers' = [peers EXCEPT ![p] = n]
  /\ best' = [best EXCEPT ![p] = [d \in LanDomains |->
                IF n.sym /\ n.out[d] < Infinite THEN n.out[d] ELSE @[d]]]
  /\ selected' = IF tlv THEN \E q \in Peers : peers'[q].selects # {} ELSE selected
  /\ due' = (due \/ MetricReported(p, n))
  /\ UNCHANGED <<origVars, ansn, quiet, seqno, seen>>
  /\ UNCHANGED <<lans, lanConf, lanSection, import, imported, aging, kernel, events, dump, l2conf, l2ips, blurred>>
  /\ Outdates

(* Our own MPRs or the topology change. *)
_cb_mpr_update ==
  /\ ~due
  /\ due' = TRUE
  /\ UNCHANGED <<lans, lanConf, lanSection, import, imported, aging, kernel, events, dump, l2conf, l2ips, blurred>>
  /\ UNCHANGED nodeVars

NextAnsn == (ansn + 1) % NumberMod

(* olsrv2_routing_force_update, when the rate limit allows it *)
AnsnIncremented ==
  /\ due
  /\ due' = FALSE
  /\ ansn' = NextAnsn
  /\ silent' = {}
  /\ net' = {[m EXCEPT !.current = FALSE] : m \in net}
  /\ there' = [a \in Addrs |-> [there[a] EXCEPT !.current = FALSE]]
  /\ UNCHANGED <<origVars, peerVars, quiet, seqno, seen>>
  /\ UNCHANGED <<lans, lanConf, lanSection, import, imported, aging, kernel, events, dump, l2conf, l2ips, blurred>>

-----------------------------------------------------------------------------
(* TCs on their way.                                                       *)

NextSeqno == (seqno + 1) % NumberMod

(* _unadvertised_tc_count, capped above the factor *)
NextQuiet ==
  IF selected \/ DOMAIN lans # {} THEN 0 ELSE Min({quiet + 1, HoldFactor + 1})

olsrv2_writer_send_tc ==
  IF originator = NoAddr THEN UNCHANGED <<net, seqno>>
  ELSE /\ seqno' = NextSeqno
       /\ net' = net \cup {[orig |-> originator, seqno |-> NextSeqno, ansn |-> ansn,
                            content |-> _cb_addAddresses, current |-> TRUE]}

(* The TC timer; a router that has nothing to say falls silent. *)
_cb_generate_tc ==
  /\ Cardinality(net) < MaxFlight
  /\ quiet' = NextQuiet
  /\ IF NextQuiet <= HoldFactor THEN olsrv2_writer_send_tc ELSE UNCHANGED <<net, seqno>>
  /\ UNCHANGED <<origVars, peerVars, ansn, there, seen, silent, lanVars>>

Lose(m) ==
  /\ m \in net
  /\ net' = net \ {m}
  /\ UNCHANGED <<origVars, peerVars, ansn, quiet, seqno, there, seen, silent, lanVars>>

-----------------------------------------------------------------------------
(* The other router (olsrv2_reader.c).                                     *)

Half == NumberMod \div 2
LargerSeqno(a, b) == (a > b /\ a - b < Half) \/ (b > a /\ b - a > Half)
SmallerSeqno(a, b) == a # b /\ ~LargerSeqno(a, b)

(* cost_out of a domain *)
OutgoingCost(tlvs) ==
  IF \E t \in tlvs : t.outgoing THEN (CHOOSE t \in tlvs : t.outgoing).value ELSE Infinite

StoredDistance(e, d) ==
  CASE e.distances = <<>> -> 0
    [] Len(e.distances) = 1 -> e.distances[1]
    [] OTHER -> e.distances[d]

(* An edge, a routable address or an attached network. *)
StoredEntry(e, number) ==
  [kind |-> CASE "originator" \in e.type -> "edge" [] "gateway" \in e.type -> "network" [] OTHER -> "address",
   cost |-> [d \in LanDomains |-> OutgoingCost(e.tlvs[d])],
   distance |-> [d \in LanDomains |-> StoredDistance(e, d)],
   ansn |-> number]

Ids(content) == {e.id : e \in content}

(* What the TC names is stored with its number, what has another number    *)
(* goes. *)
Merge(node, m) ==
  [i \in Ids(m.content) \cup {x \in DOMAIN node.entries : node.entries[x].ansn = m.ansn} |->
     IF i \in Ids(m.content) THEN StoredEntry(CHOOSE e \in m.content : e.id = i, m.ansn) ELSE node.entries[i]]

RecentTc(node, m) == ~node.valid \/ ~SmallerSeqno(m.ansn, node.ansn)

(* The TC arrives, and may come again; the validity time starts anew even  *)
(* if the content is older than what is stored. *)
TcArrives(m, again) ==
  /\ m \in net
  /\ net' = IF again THEN net ELSE net \ {m}
  /\ seen' = {x \in seen \cup {<<m.orig, m.seqno>>} : \E o \in net' : x = <<o.orig, o.seqno>>}
  /\ there' = IF <<m.orig, m.seqno>> \in seen \/ ~RecentTc(there[m.orig], m) THEN there
              ELSE [there EXCEPT ![m.orig] =
                     [ansn |-> m.ansn, valid |-> TRUE, current |-> m.current \/ @.current, entries |-> Merge(@, m)]]
  /\ UNCHANGED <<origVars, peerVars, ansn, quiet, seqno, silent, lanVars>>

(* The validity time of the node is over: we stopped sending, or have      *)
(* another originator. *)
TcExpires(a) ==
  /\ there[a].valid
  /\ \A m \in net : m.orig # a
  /\ a # originator \/ quiet > HoldFactor
  /\ there' = [there EXCEPT ![a] = NoNode]
  /\ UNCHANGED <<origVars, peerVars, ansn, quiet, seqno, net, seen, silent, lanVars>>

-----------------------------------------------------------------------------
(* Once the interface events are handled, the originator is an address we  *)
(* have and accept, and no other one is better (_update_originator), if    *)
(* there is any. *)
OriginatorBest ==
  informed /\ Candidates(acl) # {} =>
    \E x \in Candidates(acl) :
      x.addr = originator /\ \A y \in Candidates(acl) : Priority(y, acl) <= Priority(x, acl)

(* Whatever TC of ours may still reach us through others, we know that it  *)
(* is ours (olsrv2_originator_is_local). *)
OwnRecognised == \A m \in net : olsrv2_originator_is_local(m.orig)

(* The writer cannot express every distance: a domain without the network  *)
(* has 0, and 0 is no distance. *)
DistanceTold(k) == \A d \in LanDomains : lans[k].data[d].metric <= MetricMax /\ lans[k].data[d].distance # 0

(* As soon as the other router has read a TC with the current content and  *)
(* number, it knows of every neighbor and network of ours the kind, the    *)
(* outgoing metric in each domain and the distance, and of nothing else,   *)
(* whatever was lost, repeated, overtaken or changed in between; except    *)
(* for what changed without the ANSN being increased (_update_ansn). *)
RemoteExact ==
  originator # NoAddr /\ there[originator].valid /\ there[originator].current /\ ~due =>
    LET entries == there[originator].entries
        addrs == UNION {{a \in p.addrs : a = p.orig \/ (NhdpRoutable /\ a \in Routable)} : p \in Advertised}
    IN  /\ DOMAIN entries \ silent = (addrs \cup DOMAIN lans) \ silent
        /\ \A p \in Advertised, a \in addrs \ silent : a \in p.addrs =>
             /\ entries[a].kind = IF a = p.orig THEN "edge" ELSE "address"
             /\ \A d \in LanDomains : entries[a].cost[d] =
                  IF d \in peers[p].selects /\ peers[p].in[d] <= MetricMax THEN peers[p].out[d] ELSE Infinite
        /\ \A k \in DOMAIN lans \ silent :
             /\ entries[k].kind = "network"
             /\ \A d \in LanDomains :
                  /\ entries[k].cost[d] = lans[k].data[d].metric
                  /\ DistanceTold(k) => entries[k].distance[d] = lans[k].data[d].distance
=============================================================================
