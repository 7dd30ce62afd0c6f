------------------------------ MODULE MCOlsrv2 ------------------------------
(***************************************************************************)
(* What an OLSRv2 router says of itself, part by part: its originator, its *)
(* attached networks, its TCs, their way through the network, and the      *)
(* HELLOs below.  A part spends a budget, so that each mixture of changes, *)
(* messages and timers is explored completely.                             *)
(***************************************************************************)
EXTENDS Olsrv2Node, Olsrv2Flooding, NhdpWriter

CONSTANT Budgets
VARIABLES
  part,    \* "node", "flood" or "hello"
  budget   \* how often each kind of step may still happen

mcVars == <<part, budget, lanVars, nodeVars, floodVars, helloVars>>

U(S) == {{e[1], e[2]} : e \in S}
MCNetworks == {
  U({<<1,2>>,<<2,3>>,<<3,4>>,<<4,5>>}),
  U({<<1,2>>,<<2,3>>,<<3,4>>,<<4,5>>,<<5,1>>}),
  U({<<1,2>>,<<2,3>>,<<3,4>>,<<4,5>>,<<5,1>>,<<2,5>>}),
  U({<<1,3>>,<<1,4>>,<<1,5>>,<<2,3>>,<<2,4>>,<<2,5>>}),
  U({<<1,2>>,<<1,3>>,<<2,4>>,<<3,4>>,<<2,3>>,<<4,5>>})}

(* The networks k1 and k2 are routes of the kernel, k3 is a route of ours. *)
MCRoutes == [k \in LanKeys |->
  [metric |-> IF k = "k1" THEN 0 ELSE 300, unicast |-> TRUE, ours |-> k = "k3"]]
MCFilters == {[matches |-> {"k1", "k2", "k3"}, ext |-> 1, metric |-> 1, aging |-> TRUE],
              [matches |-> {"k2"}, ext |-> 0, metric |-> 2, aging |-> FALSE]}
MCLanConfigs == {{},
  {[key |-> "k1", ext |-> 1, metric |-> 1, distance |-> 2]},
  {[key |-> "k1", ext |-> 2, metric |-> 2, distance |-> 1], [key |-> "k1", ext |-> 1, metric |-> 1, distance |-> 3],
   [key |-> "k2", ext |-> 1, metric |-> 1, distance |-> 0]},
  {[key |-> "k1", ext |-> 0, metric |-> 3, distance |-> 1], [key |-> "k2", ext |-> 2, metric |-> 1, distance |-> 3]}}
MCLanSections == {[key |-> "k1", ext |-> 2, metric |-> 2, distance |-> 3], [key |-> "k3", ext |-> 0, metric |-> 1, distance |-> 1]}
MCL2Configs == {[ext |-> 1, metric |-> 1, distance |-> 2], [ext |-> 0, metric |-> 2, distance |-> 1]}

MCPeers == {[addrs |-> {"p1", "p2"}, orig |-> "p1"], [addrs |-> {"q1"}, orig |-> "q1"]}
H(s, i, o, m) == [sym |-> s, in |-> i, out |-> o, selects |-> m]
MCHellos == {H(FALSE, <<5, 5>>, <<5, 5>>, {}), H(TRUE, <<1, 2>>, <<1, 3>>, {1}), H(TRUE, <<1, 2>>, <<2, 3>>, {1, 2}),
             H(TRUE, <<5, 1>>, <<1, 5>>, {1, 2}), H(TRUE, <<1, 1>>, <<1, 1>>, {})}
MCHomes == {{}, {[addr |-> "a2", lo |-> FALSE]}}
MCAcls == {{"a1", "a2", "a3"}, {"a2", "a3"}}

Cheap == <<1, 1, 1, 1>>
HelloDb(l, s, y, m, r) == [lost |-> l, status |-> s, sym |-> y, metrics |-> m, mpr |-> r]
Statuses == {HelloDb(l, s, y, Cheap, {0, 2}) : l \in BOOLEAN, s \in {"none", "pending", "lost", "heard"}, y \in BOOLEAN}
  \cup {HelloDb(TRUE, "symmetric", TRUE, Cheap, {1})}
MCHelloEntries ==
  [interface |-> Statuses \cup {HelloDb(FALSE, "symmetric", TRUE, Cheap, r) : r \in SUBSET (0 .. 3)}
                  \cup {HelloDb(FALSE, "symmetric", TRUE, m, {0}) : m \in [1 .. 4 -> {1, 300}]},
   foreign |-> Statuses \cup {HelloDb(FALSE, "symmetric", TRUE, m, {}) : m \in [1 .. 4 -> {1, 258, 16777215}]}
                \cup {HelloDb(FALSE, s, TRUE, m, {}) : s \in {"heard", "lost"}, m \in [1 .. 4 -> {1, 300}]},
   elsewhere |-> {HelloDb(FALSE, "heard", FALSE, Cheap, {})}]
MCHelloWills ==
  [interface |-> {}, foreign |-> {}, elsewhere |-> [flooding : Wills, routing : [1 .. 3 -> Wills]]]

Spend(kind) == budget[kind] > 0 /\ budget' = [budget EXCEPT ![kind] = @ - 1]

Start == [home |-> 1, addr |-> 0, acl |-> 0, conf |-> 0, section |-> 0, import |-> 0, route |-> 0, aging |-> 0,
          l2 |-> 0, l2conf |-> 0, hello |-> 0, mpr |-> 0, ansn |-> 0, tc |-> 0, lose |-> 0, again |-> 0]
Scenarios == {
  \* originators change while their TCs are on their way
  [Start EXCEPT !.home = 0, !.addr = 5, !.acl = 1],
  [Start EXCEPT !.addr = 2, !.section = 1, !.tc = 2],
  \* neighbors change; TCs are lost, repeated and overtake each other
  [Start EXCEPT !.hello = 3, !.tc = 2, !.ansn = 2],
  [Start EXCEPT !.hello = 2, !.tc = 3, !.ansn = 3, !.lose = 1, !.again = 1],
  \* attached networks
  [Start EXCEPT !.conf = 2, !.tc = 2, !.ansn = 2, !.mpr = 1],
  [Start EXCEPT !.conf = 1, !.section = 2, !.l2 = 3, !.l2conf = 2],
  [Start EXCEPT !.conf = 1, !.import = 2, !.route = 3, !.aging = 1],
  [Start EXCEPT !.import = 1, !.route = 2, !.aging = 2, !.tc = 2, !.ansn = 1]}

LanRest == UNCHANGED <<origVars, peerVars, ansn, quiet, seqno, seen>> /\ Outdates
NodeNext ==
  \/ \E a \in Addrs, lo \in BOOLEAN : Spend("addr") /\ AddressChanges([addr |-> a, lo |-> lo])
  \/ _cb_if_event /\ UNCHANGED budget
  \/ \E a \in Acls : Spend("acl") /\ _cb_cfg_olsrv2_changed(a)
  \/ \E a \in Addrs : _cb_originator_entry_vtime(a) /\ UNCHANGED budget
  \/ \E c \in LanConfigs, errno \in BOOLEAN : Spend("conf") /\ _cb_cfg_lan_changed(c, errno) /\ LanRest
  \/ \E c \in LanSections \cup {NoConfig} : Spend("section") /\ _cb_cfg_olsrv2_lan_changed(c) /\ LanRest
  \/ \E f \in Filters \cup {NoConfig} : Spend("import") /\ _cb_cfg_import_changed(f) /\ LanRest
  \/ \E k \in LanKeys : Spend("route") /\ KernelChangesRoute(k) /\ LanRest
  \/ ReadEvent /\ LanRest /\ UNCHANGED budget
  \/ \E k \in LanKeys : _cb_query(k) /\ LanRest /\ UNCHANGED budget
  \/ \E k \in LanKeys : Spend("aging") /\ _cb_metric_aging(k) /\ LanRest
  \/ \E k \in LanKeys : Spend("l2") /\ _cb_l2neigh_ip_added(k) /\ LanRest
  \/ \E k \in LanKeys : Spend("l2") /\ _cb_l2neigh_ip_removed(k) /\ LanRest
  \/ \E c \in L2Configs \cup {NoConfig} : Spend("l2conf") /\ _cb_cfg_l2import_changed(c) /\ LanRest
  \/ \E p \in Peers, n \in Hellos, tlv \in BOOLEAN : Spend("hello") /\ HelloRead(p, n, tlv)
  \/ Spend("mpr") /\ _cb_mpr_update
  \/ Spend("ansn") /\ AnsnIncremented
  \/ Spend("tc") /\ _cb_generate_tc
  \/ \E m \in net : Spend("lose") /\ Lose(m)
  \/ \E m \in net : TcArrives(m, FALSE) /\ UNCHANGED budget
  \/ \E m \in net : Spend("again") /\ TcArrives(m, TRUE)
  \/ \E a \in Addrs : TcExpires(a) /\ UNCHANGED budget

\* What the router says of itself is true, whatever changes while messages are on
\* their way, are lost or repeated: attached networks have a source, the
\* originator is the best address, own messages are recognised under old
\* originators, and a router that has read the newest TC knows exactly what was
\* announced (olsrv2_lan.c, olsrv2_originator.c, olsrv2_writer.c).
AnnouncementsExact == LansHaveSource /\ OriginatorBest /\ OwnRecognised /\ RemoteExact

First(S) == CHOOSE x \in S : TRUE
Idle == Start
Olsrv2Init ==
  /\ LanInit /\ NodeInit /\ HelloInit /\ part \in {"node", "flood", "hello"}
  /\ source = 1
  /\ IF part = "flood" THEN FloodInit
     ELSE /\ links = {} /\ mprs = <<>> /\ pending = {} /\ air = [r \in Routers |-> <<>>]
          /\ processed = Routers /\ forwarded = {} /\ sent = <<0, 0, 0, 0, 0>> /\ lossy = TRUE
  /\ budget \in IF part = "node" THEN Budgets ELSE {Idle}
  /\ Cardinality(local) = budget.home /\ (budget.acl = 0 => acl = First(Acls))
  /\ part # "hello" \/ owner = "foreign" => domains = [sender |-> 1, reader |-> 1]
  /\ part # "hello" => owner = "foreign"
Olsrv2Next ==
  /\ UNCHANGED part
  /\ \/ part = "node" /\ NodeNext /\ UNCHANGED <<floodVars, helloVars>>
     \/ part = "flood" /\ FloodNext /\ UNCHANGED <<lanVars, nodeVars, helloVars, budget>>
     \/ part = "hello" /\ HelloNext /\ UNCHANGED <<lanVars, nodeVars, floodVars, budget>>
Olsrv2Spec == Olsrv2Init /\ [][Olsrv2Next]_mcVars
=============================================================================
