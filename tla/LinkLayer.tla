----------------------------- MODULE LinkLayer -----------------------------
(***************************************************************************)
(* The plugins that fill the layer-2 database of one interface: layer2     *)
(* configuration, link configuration, the ethernet and the nl80211 listener *)
(* and the import of kernel routes.  They run in one thread, but share the *)
(* slots of the database and react to the events of its commits with       *)
(* timers.                                                                 *)
(***************************************************************************)
EXTENDS Integers, FiniteSets, FiniteSetsExt, Functions, Sequences

\* The layer-2 database (src/src/base/oonf_layer2.c) of one interface, as
\* operators on the record of that interface.  Every value of the database
\* lives in a slot with the origin that wrote it; a slot changes hands by
\* priority, and plugins replace what they wrote by relabelling it, writing it
\* again and removing what still has the old label.

CONSTANTS NetIdx,    \* indices of interface data
          NeighIdx,  \* indices of neighbor data
          Priority   \* priority of every origin
NOTHING == "none"
Origins == DOMAIN Priority
ASSUME PriorityAssumption == Priority \in [Origins -> Nat] /\ NOTHING \notin Origins

\* A slot of a new object has its metadata; resetting a slot takes it away.
Fresh == [meta |-> TRUE, origin |-> NOTHING, value |-> 0]
oonf_layer2_data_reset == [meta |-> FALSE, origin |-> NOTHING, value |-> 0]
oonf_layer2_data_has_value(s) == s.origin # NOTHING /\ s.meta

WritesAlways(s, o) == TRUE
MayWrite(s, o) == ~s.meta \/ s.origin \in {NOTHING, o} \/ Priority[s.origin] < Priority[o]
oonf_layer2_data_set(s, o, v) == IF MayWrite(s, o) THEN [meta |-> TRUE, origin |-> o, value |-> v] ELSE s
Changed(s, o, v) == MayWrite(s, o) /\ (~s.meta \/ s.value # v)

NoEntries == [a \in {} |-> NOTHING]
Add(f, a, v) == [x \in DOMAIN f \cup {a} |-> IF x = a THEN v ELSE f[x]]
Renamed(f, new, old) == [x \in DOMAIN f |-> IF f[x] = old THEN new ELSE f[x]]
Without(f, o) == Restrict(f, {x \in DOMAIN f : f[x] # o})

FreshNeigh == [data |-> [i \in NeighIdx |-> Fresh], dst |-> NoEntries, ip |-> NoEntries, nexthop |-> NOTHING]
FreshNet == [alive |-> TRUE, type |-> "undefined", data |-> [i \in NetIdx |-> Fresh],
             def |-> [i \in NeighIdx |-> Fresh], ip |-> NoEntries, neigh |-> [k \in {} |-> FreshNeigh], event |-> FALSE]
NoNet == [FreshNet EXCEPT !.alive = FALSE]

oonf_layer2_net_add(db) == IF db.alive THEN db ELSE FreshNet
oonf_layer2_neigh_add_lid(db, k) == IF k \in DOMAIN db.neigh THEN db ELSE [db EXCEPT !.neigh = Add(@, k, FreshNeigh)]
SetNeigh(db, k, n) == [db EXCEPT !.neigh = Add(@, k, n)]

\* A commit drops an object nobody has something to say about and tells the
\* listeners of the class; local addresses do not keep an interface.
Empty(n) == DOMAIN n.dst = {} /\ DOMAIN n.ip = {} /\ \A i \in NeighIdx : ~oonf_layer2_data_has_value(n.data[i])
oonf_layer2_neigh_commit(db, k) ==
  [db EXCEPT !.neigh = IF Empty(@[k]) THEN Restrict(@, DOMAIN @ \ {k}) ELSE @, !.event = TRUE]
NetEmpty(db) == /\ DOMAIN db.neigh = {}
                /\ \A i \in NetIdx : ~oonf_layer2_data_has_value(db.data[i])
                /\ \A i \in NeighIdx : ~oonf_layer2_data_has_value(db.def[i])
oonf_layer2_net_commit(db) == [IF NetEmpty(db) THEN NoNet ELSE db EXCEPT !.event = TRUE]

\* Cleaning up resets what an origin wrote, without a commit.
SlotsCleaned(slots, o) == [i \in DOMAIN slots |-> IF slots[i].origin = o THEN oonf_layer2_data_reset ELSE slots[i]]
Wrote(slots, o) == \E i \in DOMAIN slots : slots[i].origin = o
oonf_layer2_neigh_cleanup(n, o) == [n EXCEPT !.data = SlotsCleaned(@, o)]
oonf_layer2_net_cleanup(db, o, neighs) ==
  [db EXCEPT !.data = SlotsCleaned(@, o), !.def = SlotsCleaned(@, o),
             !.neigh = IF neighs THEN [k \in DOMAIN @ |-> oonf_layer2_neigh_cleanup(@[k], o)] ELSE @]

\* Removing also takes the destinations and the remote addresses of the
\* origin, but not the local addresses of the interface.
InNeigh(n, o) == o \in Range(n.dst) \cup Range(n.ip) \/ Wrote(n.data, o)

oonf_layer2_neigh_remove(db, k, o) ==
  LET n == db.neigh[k]
  IN IF ~InNeigh(n, o) THEN db
     ELSE oonf_layer2_neigh_commit(SetNeigh(db, k,
            [oonf_layer2_neigh_cleanup(n, o) EXCEPT !.dst = Without(@, o), !.ip = Without(@, o)]), k)
oonf_layer2_net_remove(db, o) ==
  LET changed == Wrote(db.data, o) \/ Wrote(db.def, o) \/ \E k \in DOMAIN db.neigh : InNeigh(db.neigh[k], o)
      rest == oonf_layer2_net_cleanup(
                FoldSet(LAMBDA k, d : oonf_layer2_neigh_remove(d, k, o), db, DOMAIN db.neigh), o, FALSE)
  IN IF ~db.alive \/ ~changed THEN db ELSE oonf_layer2_net_commit(rest)

Relabelled(slots, new, old) == [i \in DOMAIN slots |-> [slots[i] EXCEPT !.origin = IF @ = old THEN new ELSE @]]
oonf_layer2_neigh_relabel(n, new, old) ==
  [n EXCEPT !.data = Relabelled(@, new, old), !.ip = Renamed(@, new, old), !.dst = Renamed(@, new, old)]
oonf_layer2_net_relabel(db, new, old) ==
  [db EXCEPT !.data = Relabelled(@, new, old), !.def = Relabelled(@, new, old), !.ip = Renamed(@, new, old),
             !.neigh = [k \in DOMAIN @ |-> oonf_layer2_neigh_relabel(@[k], new, old)]]

\* Addresses follow the last writer, a destination stays with the first one.
oonf_layer2_net_add_ip(db, o, a) == [db EXCEPT !.ip = Add(@, a, o)]
oonf_layer2_net_remove_ip(db, o, a) ==
  IF a \in DOMAIN db.ip /\ db.ip[a] = o THEN [db EXCEPT !.ip = Restrict(@, DOMAIN @ \ {a})] ELSE db
oonf_layer2_neigh_add_ip(n, o, a) == [n EXCEPT !.ip = Add(@, a, o)]
oonf_layer2_neigh_remove_ip(n, o, a) ==
  IF a \in DOMAIN n.ip /\ n.ip[a] = o THEN [n EXCEPT !.ip = Restrict(@, DOMAIN @ \ {a})] ELSE n
oonf_layer2_neigh_set_nexthop(n, gw) == [n EXCEPT !.nexthop = gw]
oonf_layer2_destination_add(n, o, a) == IF a \in DOMAIN n.dst THEN n ELSE [n EXCEPT !.dst = Add(@, a, o)]
oonf_layer2_destination_remove(n, a) == [n EXCEPT !.dst = Restrict(@, DOMAIN @ \ {a})]

Slot == [meta : BOOLEAN, origin : Origins \cup {NOTHING}, value : Nat]

-----------------------------------------------------------------------------
CONSTANTS L2Values,      \* values the plugins write, all above 0
          Macs,        \* hardware addresses of neighbors, numbers
          Gateways,    \* next hops of imported routes
          Destinations,\* destinations of kernel routes
          L2Configs,   \* sections of the layer2 configuration
          LinkConfigs, \* sections of the link configuration
          TelnetEntries, \* what an operator adds or removes by telnet
          L2Budgets      \* how often each actor may act
ASSUME ValuesAssumption == L2Values \subseteq Nat \ {0} /\ Macs \subseteq Nat

VARIABLES db,     \* the interface in the layer-2 database
          l2c,    \* layer2 configuration: section, reconfiguration timer, slots touched by telnet
          lc,     \* link configuration: section and lazy update timer
          nl,     \* nl80211 listener
          im,     \* import of routes: configured, hardware address known, reload timer, query, next link id
          l2Kernel, \* routes of the kernel and the messages about them under way
          up,     \* the interface is up
          l2Fault,  \* what stopped the program
          l2Budget
l2Vars == <<db, l2c, lc, nl, im, l2Kernel, up, l2Fault, l2Budget>>

\* Link ids of imported neighbors sort behind the hardware addresses.
LidBase == 10

L2Spend(kind) == l2Budget[kind] > 0 /\ l2Budget' = [l2Budget EXCEPT ![kind] = @ - 1]
L2Running == l2Fault = NOTHING

L2Init ==
  /\ db = NoNet
  /\ l2c = [on |-> FALSE, data |-> {}, timer |-> FALSE, touched |-> {}]
  /\ lc = [on |-> FALSE, post |-> {}, timer |-> FALSE]
  /\ nl = [listed |-> {}, l2net |-> NOTHING, changed |-> FALSE, max |-> 0, cur |-> NOTHING, number |-> 0,
           progress |-> FALSE, family |-> FALSE, ask |-> NOTHING, late |-> FALSE]
  /\ im = [on |-> FALSE, mac |-> FALSE, reload |-> FALSE, query |-> FALSE, lid |-> 1, skipped |-> FALSE]
  /\ l2Kernel = [routes |-> [d \in Destinations |-> NOTHING], queue |-> <<>>]
  /\ up = TRUE
  /\ l2Fault = NOTHING
  /\ l2Budget \in L2Budgets

\* Changed and removed objects start the timers of both configurations; the
\* nl80211 listener keeps its pointer to an interface that is gone.
NlAfter(d, n) == IF db.alive /\ ~d.alive /\ n.l2net = "valid" THEN [n EXCEPT !.l2net = "freed"] ELSE n
_cb_update_l2net(d, c) == [c EXCEPT !.timer = @ \/ (d.event /\ c.on)]
_cb_update_link_config(d, l) == [l EXCEPT !.timer = @ \/ d.event]
Store(d, n, l) ==
  /\ db' = [d EXCEPT !.event = FALSE]
  /\ nl' = NlAfter(d, n)
  /\ lc' = _cb_update_link_config(d, l)
  /\ UNCHANGED l2Fault
Update(d, n, c, l) == Store(d, n, l) /\ l2c' = _cb_update_l2net(d, c)

-----------------------------------------------------------------------------
(* layer2 configuration *)

\* An entry is [type, idx, key, addr, value, overwrite]; types use what they need.
OriginOf(e) == IF e.overwrite THEN "overwrite" ELSE "configured"
_set_if_data(d, e) ==
  LET o == OriginOf(e)
      n == oonf_layer2_neigh_add_lid(d, e.key)
  IN CASE e.type = "l2net" -> [d EXCEPT !.data[e.idx] = oonf_layer2_data_set(@, o, e.value)]
       [] e.type = "l2net_ip" -> oonf_layer2_net_add_ip(d, o, e.addr)
       [] e.type = "l2default" -> [d EXCEPT !.def[e.idx] = oonf_layer2_data_set(@, o, e.value)]
       [] e.type = "l2neighbor" -> [n EXCEPT !.neigh[e.key].data[e.idx] = oonf_layer2_data_set(@, o, e.value)]
       [] e.type = "l2neighbor_ip" -> SetNeigh(n, e.key, oonf_layer2_neigh_add_ip(n.neigh[e.key], o, e.addr))
       [] e.type = "l2destination" -> SetNeigh(n, e.key, oonf_layer2_destination_add(n.neigh[e.key], o, e.addr))

\* Resetting ignores who wrote a slot.
_reset_if_data(d, e) ==
  LET o == OriginOf(e)
      known == e.key \in DOMAIN d.neigh
  IN CASE e.type = "l2net" -> [d EXCEPT !.data[e.idx] = oonf_layer2_data_reset]
       [] e.type = "l2net_ip" -> oonf_layer2_net_remove_ip(d, o, e.addr)
       [] e.type = "l2default" -> [d EXCEPT !.def[e.idx] = oonf_layer2_data_reset]
       [] e.type = "l2neighbor" /\ known -> [d EXCEPT !.neigh[e.key].data[e.idx] = oonf_layer2_data_reset]
       [] e.type = "l2neighbor_ip" /\ known ->
            SetNeigh(d, e.key, oonf_layer2_neigh_remove_ip(d.neigh[e.key], o, e.addr))
       [] e.type = "l2destination" /\ known ->
            SetNeigh(d, e.key, oonf_layer2_destination_remove(d.neigh[e.key], e.addr))
       [] OTHER -> d

_configure_if_data(d, data) ==
  LET net == IF data # {} THEN oonf_layer2_net_add(d) ELSE d
      old == oonf_layer2_net_relabel(oonf_layer2_net_relabel(net, "l2old", "configured"), "l2old", "overwrite")
  IN IF ~net.alive THEN d
     ELSE oonf_layer2_net_remove(FoldSet(LAMBDA e, x : _set_if_data(x, e), old, data), "l2old")

\* A changed section is applied and the timer its own events started is
\* stopped; a removed section leaves its data in the database.
_cb_config_changed(data) ==
  /\ L2Running /\ L2Spend("l2config")
  /\ Store(_configure_if_data(db, data), nl, lc)
  /\ l2c' = [on |-> TRUE, data |-> data, timer |-> FALSE, touched |-> {}]
  /\ UNCHANGED <<im, l2Kernel, up>>
ConfigRemoved ==
  /\ L2Running /\ l2c.on /\ L2Spend("l2config")
  /\ l2c' = [on |-> FALSE, data |-> {}, timer |-> FALSE, touched |-> {}]
  /\ UNCHANGED <<db, lc, nl, im, l2Kernel, up, l2Fault>>

_cb_reconfigure ==
  /\ L2Running /\ l2c.timer
  /\ Update(_configure_if_data(db, l2c.data), nl, [l2c EXCEPT !.timer = FALSE, !.touched = {}], lc)
  /\ UNCHANGED <<im, l2Kernel, up, l2Budget>>

\* Telnet writes into the database without a commit.
_cb_telnet_cmd(e, add) ==
  /\ L2Running /\ L2Spend("telnet")
  /\ Update(IF add THEN _set_if_data(oonf_layer2_net_add(db), e) ELSE IF db.alive THEN _reset_if_data(db, e) ELSE db,
            nl, [l2c EXCEPT !.touched = @ \cup {<<e.type, e.idx, e.key, e.addr>>}], lc)
  /\ UNCHANGED <<im, l2Kernel, up>>

-----------------------------------------------------------------------------
(* link configuration: an entry is [idx, value, macs], no macs for the default *)

_parse_strarray(d, e) ==
  LET net == oonf_layer2_net_add(d)
      write(m, x) == LET n == oonf_layer2_neigh_add_lid(x, m)
                     IN [n EXCEPT !.neigh[m].data[e.idx] = oonf_layer2_data_set(@, "link_current", e.value)]
  IN IF e.macs = {} THEN [net EXCEPT !.def[e.idx] = oonf_layer2_data_set(@, "link_current", e.value)]
     ELSE FoldSet(write, net, e.macs)

\* The commit of the first neighbor with new data is followed by one of every
\* later neighbor.
LinkCommits(d) ==
  LET new == {k \in DOMAIN d.neigh : Wrote(d.neigh[k].data, "link_current")}
      first == {k \in DOMAIN d.neigh : \E j \in new : j <= k}
      old == [d EXCEPT !.neigh = [k \in DOMAIN @ |-> [@[k] EXCEPT !.data = Relabelled(@, "link_old", "link_current")]]]
  IN FoldSet(LAMBDA k, x : oonf_layer2_neigh_commit(x, k), old, first)
link_config_changed(d, data) ==
  LET clean == oonf_layer2_net_cleanup(FoldSet(LAMBDA e, x : _parse_strarray(x, e), d, data), "link_old", TRUE)
      neighs == LinkCommits(clean)
      net == [neighs EXCEPT !.def = Relabelled(@, "link_old", "link_current")]
  IN IF data = {} /\ ~d.alive THEN d
     ELSE IF Wrote(neighs.def, "link_current") THEN oonf_layer2_net_commit(net) ELSE neighs

LinkConfigChanged(data, on) ==
  /\ L2Running /\ L2Spend("link")
  /\ Update(link_config_changed(db, data), nl, l2c, [lc EXCEPT !.on = on, !.post = data])
  /\ UNCHANGED <<im, l2Kernel, up>>
_cb_delayed_config ==
  /\ L2Running /\ lc.timer
  /\ Update(link_config_changed(db, lc.post), nl, l2c, [lc EXCEPT !.timer = FALSE])
  /\ UNCHANGED <<im, l2Kernel, up, l2Budget>>

-----------------------------------------------------------------------------
(* ethernet listener: writes with the metadata the slot has *)

L2Fails(f) == l2Fault' = f /\ UNCHANGED <<db, l2c, lc, nl>>
_cb_transmission_event_eth(v) ==
  LET net == oonf_layer2_net_add(db)
      typed == [net EXCEPT !.type = IF @ = "undefined" THEN "ethernet" ELSE @]
  IN /\ L2Running /\ L2Spend("eth")
     /\ IF ~net.def["bitrate"].meta THEN L2Fails("assert")
        ELSE Update([typed EXCEPT !.def["bitrate"] = oonf_layer2_data_set(@, "ethernet", v)], nl, l2c, lc)
     /\ UNCHANGED <<im, l2Kernel, up>>

-----------------------------------------------------------------------------
(* nl80211 listener *)

\* The interface is listed by its own section and by the one of the plugin.
NlAdd(where) ==
  LET net == oonf_layer2_net_add(db)
      new == nl.listed = {}
  IN /\ L2Running /\ where \notin nl.listed /\ L2Spend("nlconfig")
     /\ Update(IF new THEN [net EXCEPT !.type = IF @ = "undefined" THEN "wireless" ELSE @] ELSE db,
               [nl EXCEPT !.listed = @ \cup {where}, !.l2net = IF new THEN "valid" ELSE @,
                          !.changed = ~new /\ @, !.max = IF new THEN 0 ELSE @], l2c, lc)
     /\ UNCHANGED <<im, l2Kernel, up>>
_nl80211_if_remove(where) ==
  /\ L2Running /\ where \in nl.listed /\ L2Spend("nlconfig")
  /\ nl' = [nl EXCEPT !.listed = @ \ {where}, !.l2net = IF nl.listed = {where} THEN NOTHING ELSE @,
                      !.cur = IF nl.listed = {where} /\ @ = "if" THEN "freed" ELSE @]
  /\ UNCHANGED <<db, l2c, lc, im, l2Kernel, up, l2Fault>>

\* The end of a round publishes what it changed: values of older rounds go,
\* the ones of this round take their label.
QueryEnd(d, n) ==
  IF ~n.changed THEN d
  ELSE oonf_layer2_net_commit(oonf_layer2_net_relabel(oonf_layer2_net_cleanup(
         [d EXCEPT !.data["mcs"] = oonf_layer2_data_set(@, "nl_updated", 1)], "nl_data", TRUE), "nl_data", "nl_updated"))

\* A round of an interface that is down ends at once.
Ends(n) == ~up \/ (n.cur = "if" /\ n.number = 4)
_get_next_query(d, n) ==
  CASE n.listed = {} -> Update(d, [n EXCEPT !.cur = NOTHING, !.progress = FALSE, !.ask = NOTHING], l2c, lc)
    [] n.listed # {} /\ n.cur = "freed" -> L2Fails("freed interface")
    [] n.listed # {} /\ n.cur # "freed" /\ Ends(n) ->
         IF n.changed /\ n.l2net = "freed" THEN L2Fails("freed net")
         ELSE IF n.changed /\ ~d.data["mcs"].meta THEN L2Fails("assert")
         ELSE Update(QueryEnd(d, n), [n EXCEPT !.changed = FALSE, !.cur = NOTHING, !.number = 0,
                                               !.progress = FALSE, !.ask = NOTHING], l2c, lc)
    [] OTHER -> LET number == IF n.cur = NOTHING THEN 0 ELSE n.number + 1
                IN Update(d, [n EXCEPT !.cur = "if", !.number = number, !.progress = TRUE, !.ask = "query",
                                       !.max = IF number = 1 THEN 0 ELSE @], l2c, lc)
_trigger_next_netlink_query(d, n) ==
  IF n.family THEN _get_next_query(d, n)
  ELSE Update(d, IF n.progress THEN [n EXCEPT !.progress = FALSE]
                 ELSE [n EXCEPT !.progress = TRUE, !.ask = "family"], l2c, lc)

_cb_transmission_event ==
  /\ L2Running /\ ~nl.progress /\ L2Spend("nltimer")
  /\ _trigger_next_netlink_query(db, nl)
  /\ UNCHANGED <<im, l2Kernel, up>>

\* Messages of the query in progress write with the origin "updated".
Write(slot, v) == oonf_layer2_data_set(slot, "nl_updated", v)
nl80211_process_get_interface_result(v) ==
  /\ nl.number = 0
  /\ Update([db EXCEPT !.data["frequency"] = Write(@, v)],
            [nl EXCEPT !.changed = @ \/ Changed(db.data["frequency"], "nl_updated", v)], l2c, lc)
MaxRate(n, v) == [n EXCEPT !.max = IF @ < v THEN v ELSE @]
nl80211_process_get_wiphy_result(v) == nl.number = 1 /\ Update(db, MaxRate(nl, v), l2c, lc)
nl80211_process_get_survey_result(v) ==
  /\ nl.number = 2
  /\ Update([db EXCEPT !.data["noise"] = Write(@, v)],
            [nl EXCEPT !.changed = @ \/ Changed(db.data["noise"], "nl_updated", v)], l2c, lc)
nl80211_process_get_mpp_result(m) ==
  /\ nl.number = 3
  /\ Update(IF m \notin DOMAIN db.neigh THEN db
            ELSE LET n == oonf_layer2_destination_add(db.neigh[m], "nl_updated", "mpp")
                 IN SetNeigh(db, m, [n EXCEPT !.dst["mpp"] = IF @ = "nl_data" THEN "nl_updated" ELSE @]), nl, l2c, lc)
nl80211_process_get_station_dump_result(m, v) ==
  /\ nl.number = 4
  /\ LET d == oonf_layer2_neigh_add_lid(db, m)
         n == [d.neigh[m] EXCEPT !.data["bitrate"] = Write(@, v)]
     IN Update(oonf_layer2_neigh_commit(SetNeigh(d, m, oonf_layer2_neigh_cleanup(n, "nl_data")), m), nl, l2c, lc)

\* Every message uses the interface of the query and its layer-2 interface.
_cb_nl_message ==
  /\ L2Running /\ nl.ask = "query" /\ L2Spend("nlmessage")
  /\ \/ nl.cur = "freed" /\ L2Fails("freed interface")
     \/ nl.cur = "if" /\ nl.l2net = "freed" /\ L2Fails("freed net")
     \/ /\ nl.cur = "if" /\ nl.l2net = "valid"
        /\ \E m \in Macs, v \in L2Values :
             \/ nl80211_process_get_interface_result(v) \/ nl80211_process_get_wiphy_result(v)
             \/ nl80211_process_get_survey_result(v) \/ nl80211_process_get_mpp_result(m)
             \/ nl80211_process_get_station_dump_result(m, v)
  /\ UNCHANGED <<im, l2Kernel, up>>
genl_process_get_family_result ==
  /\ L2Running /\ nl.ask = "family" /\ ~nl.family
  /\ nl' = [nl EXCEPT !.family = TRUE]
  /\ UNCHANGED <<db, l2c, lc, im, l2Kernel, up, l2Fault, l2Budget>>

\* The end of the wiphy query writes the largest rate it saw, and uses the
\* interface even if there is none.  Done and timeout finalize and go on, an
\* error only goes on; before the family is known none of them does anything.
nl80211_finalize_get_wiphy(n) == [db EXCEPT !.def["max_bitrate"] = Write(@, n.max)]
Over(n) ==
  IF n.number = 1 /\ n.cur = "freed" THEN L2Fails("freed interface")
  ELSE IF n.number = 1 /\ n.max > 0 /\ n.l2net = "freed" THEN L2Fails("freed net")
  ELSE IF n.number = 1 /\ n.max > 0
  THEN _trigger_next_netlink_query(nl80211_finalize_get_wiphy(n),
         [n EXCEPT !.changed = @ \/ Changed(db.def["max_bitrate"], "nl_updated", n.max)])
  ELSE _trigger_next_netlink_query(db, n)
_cb_nl_done ==
  /\ L2Running /\ nl.ask # NOTHING
  /\ IF nl.family THEN Over(nl) ELSE Update(db, [nl EXCEPT !.ask = NOTHING], l2c, lc)
  /\ UNCHANGED <<im, l2Kernel, up, l2Budget>>
_cb_nl_timeout ==
  /\ L2Running /\ nl.ask # NOTHING /\ L2Spend("nltimeout")
  /\ IF nl.family THEN Over([nl EXCEPT !.late = TRUE]) ELSE Update(db, [nl EXCEPT !.ask = NOTHING], l2c, lc)
  /\ UNCHANGED <<im, l2Kernel, up>>
_cb_nl_error ==
  /\ L2Running /\ nl.ask # NOTHING /\ L2Spend("nltimeout")
  /\ IF nl.family THEN _trigger_next_netlink_query(db, nl) ELSE Update(db, [nl EXCEPT !.ask = NOTHING], l2c, lc)
  /\ UNCHANGED <<im, l2Kernel, up>>

\* The end of a query that timed out counts as the end of the current one.
LateDone ==
  /\ L2Running /\ nl.late /\ nl.family
  /\ Over([nl EXCEPT !.late = FALSE])
  /\ UNCHANGED <<im, l2Kernel, up, l2Budget>>

NlInterfaceChanges ==
  /\ L2Running /\ L2Spend("up") /\ up' = ~up
  /\ UNCHANGED <<db, l2c, lc, nl, im, l2Kernel, l2Fault>>

-----------------------------------------------------------------------------
(* import of kernel routes, one route for a destination *)

ImportConfigured ==
  /\ L2Running /\ L2Spend("import")
  /\ im' = [im EXCEPT !.on = TRUE, !.reload = TRUE]
  /\ UNCHANGED <<db, l2c, lc, nl, l2Kernel, up, l2Fault>>
_remove_import ==
  /\ L2Running /\ im.on /\ L2Spend("import")
  /\ im' = [im EXCEPT !.on = FALSE]
  /\ Update(oonf_layer2_net_remove(db, "import"), nl, l2c, lc)
  /\ UNCHANGED <<l2Kernel, up>>
MacKnown ==
  /\ L2Running /\ im.on /\ ~im.mac /\ im' = [im EXCEPT !.mac = TRUE]
  /\ UNCHANGED <<db, l2c, lc, nl, l2Kernel, up, l2Fault, l2Budget>>

KernelRoute(d, gw) ==
  /\ L2Running /\ l2Kernel.routes[d] # gw /\ L2Spend("route")
  /\ l2Kernel' = [routes |-> [l2Kernel.routes EXCEPT ![d] = gw],
                queue |-> Append(l2Kernel.queue, [dst |-> d, gw |-> IF gw = NOTHING THEN l2Kernel.routes[d] ELSE gw, set |-> gw # NOTHING])]
  /\ UNCHANGED <<db, l2c, lc, nl, im, up, l2Fault>>

\* The dump of the routing table arrives behind the changes before it and ends
\* with a message of its own.
EndOfDump == [dst |-> NOTHING, gw |-> NOTHING, set |-> FALSE]
Dump == {[dst |-> d, gw |-> l2Kernel.routes[d], set |-> TRUE] : d \in {d \in Destinations : l2Kernel.routes[d] # NOTHING}}
Listed(S) == CHOOSE s \in [1..Cardinality(S) -> S] : Range(s) = S
_cb_reload_routes ==
  /\ L2Running /\ im.reload
  /\ IF im.query THEN im' = [im EXCEPT !.reload = FALSE, !.skipped = TRUE] /\ UNCHANGED l2Kernel
     ELSE /\ im' = [im EXCEPT !.reload = FALSE, !.query = TRUE]
          /\ l2Kernel' = [l2Kernel EXCEPT !.queue = @ \o Append(Listed(Dump), EndOfDump)]
  /\ UNCHANGED <<db, l2c, lc, nl, up, l2Fault, l2Budget>>

\* Addresses of the import with another gateway go, the one with this gateway
\* is the match; the neighbor that is left behind is not committed.
Imported(d, a) == {k \in DOMAIN d.neigh : a \in DOMAIN d.neigh[k].ip /\ d.neigh[k].ip[a] = "import"}

_remove_old_entries(d, r) ==
  [d EXCEPT !.neigh = [k \in DOMAIN @ |-> IF k \in Imported(d, r.dst) /\ @[k].nexthop # r.gw
                                          THEN oonf_layer2_neigh_remove_ip(@[k], "import", r.dst) ELSE @[k]]]
Matches(d, r) == {k \in Imported(d, r.dst) : d.neigh[k].nexthop = r.gw}

oonf_layer2_neigh_generate_lid(n) == LidBase + n
RouteEvent(d, r) ==
  LET rest == _remove_old_entries(d, r)
      key == oonf_layer2_neigh_generate_lid(im.lid)
      match == Matches(d, r)
      added == oonf_layer2_neigh_add_lid(rest, key)
      gone == CHOOSE k \in match : \A j \in match : j <= k
  IN IF r.set /\ match = {}
     THEN oonf_layer2_neigh_commit(SetNeigh(added, key,
            oonf_layer2_neigh_add_ip(oonf_layer2_neigh_set_nexthop(added.neigh[key], r.gw), "import", r.dst)), key)
     ELSE IF ~r.set /\ match # {}
     THEN oonf_layer2_neigh_commit(SetNeigh(rest, gone, oonf_layer2_neigh_remove_ip(rest.neigh[gone], "import", r.dst)), gone)
     ELSE rest
_cb_rt_event ==
  LET r == Head(l2Kernel.queue)
      net == IF r.set THEN oonf_layer2_net_add(db) ELSE db
      left == [im EXCEPT !.query = @ /\ r # EndOfDump]
  IN /\ L2Running /\ l2Kernel.queue # <<>>
     /\ l2Kernel' = [l2Kernel EXCEPT !.queue = Tail(@)]
     /\ \/ /\ r = EndOfDump \/ ~im.on \/ ~net.alive
           /\ im' = left /\ UNCHANGED <<db, l2c, lc, nl, l2Fault>>
        \/ /\ r # EndOfDump /\ im.on /\ net.alive /\ ~im.mac
           /\ im' = [left EXCEPT !.reload = TRUE]
           /\ Update(net, nl, l2c, lc)
        \/ /\ r # EndOfDump /\ im.on /\ net.alive /\ im.mac
           /\ im' = [left EXCEPT !.lid = IF r.set /\ Matches(net, r) = {} THEN @ + 1 ELSE @]
           /\ Update(RouteEvent(net, r), nl, l2c, lc)
     /\ UNCHANGED <<up, l2Budget>>

-----------------------------------------------------------------------------
L2Next ==
  \/ \E c \in L2Configs : _cb_config_changed(c)
  \/ ConfigRemoved \/ _cb_reconfigure
  \/ \E e \in TelnetEntries, add \in BOOLEAN : _cb_telnet_cmd(e, add)
  \/ \E c \in LinkConfigs : LinkConfigChanged(c, TRUE)
  \/ lc.on /\ LinkConfigChanged({}, FALSE)
  \/ _cb_delayed_config
  \/ \E v \in L2Values : _cb_transmission_event_eth(v)
  \/ \E where \in {"section", "plugin"} : NlAdd(where) \/ _nl80211_if_remove(where)
  \/ _cb_transmission_event \/ _cb_nl_message \/ genl_process_get_family_result
  \/ _cb_nl_done \/ _cb_nl_timeout \/ _cb_nl_error \/ LateDone \/ NlInterfaceChanges
  \/ ImportConfigured \/ _remove_import \/ MacKnown
  \/ \E d \in Destinations, gw \in Gateways \cup {NOTHING} : KernelRoute(d, gw)
  \/ _cb_reload_routes \/ _cb_rt_event

-----------------------------------------------------------------------------
Shared(e) == \E c \in LinkConfigs : \E l \in c :
  l.idx = e.idx /\ ((e.type = "l2default" /\ l.macs = {}) \/ (e.type = "l2neighbor" /\ e.key \in l.macs))
Holds(slot, e) == /\ oonf_layer2_data_has_value(slot) /\ Priority[slot.origin] >= Priority[OriginOf(e)]
                  /\ slot.origin = OriginOf(e) => slot.value = e.value
EntryPresent(e) ==
  CASE e.type = "l2net" -> Holds(db.data[e.idx], e)
    [] e.type = "l2default" -> Shared(e) \/ Holds(db.def[e.idx], e)
    [] e.type = "l2neighbor" -> Shared(e) \/ (e.key \in DOMAIN db.neigh /\ Holds(db.neigh[e.key].data[e.idx], e))
    [] e.type = "l2neighbor_ip" -> e.key \in DOMAIN db.neigh /\ e.addr \in DOMAIN db.neigh[e.key].ip
    [] OTHER -> TRUE

\* Whatever the other plugins write, clean up and commit, and although a whole
\* interface may be dropped with everything in it: once no reconfiguration is
\* due, every configured value that telnet has not touched is in the database
\* or held by an origin of at least its priority (layer2_config.c, the
\* listeners and _cb_reconfigure).  Local addresses and destinations are
\* lost by the code and values shared with link_config are not kept.
ConfigRestored ==
  L2Running /\ l2c.on /\ ~l2c.timer =>
    \A e \in l2c.data : <<e.type, e.idx, e.key, e.addr>> \in l2c.touched \/ EntryPresent(e)

\* When no message and no reload is under way, the imported addresses are the
\* routes of the kernel, each with its gateway, whatever changed before the
\* hardware address was known or while the table was dumped
\* (layer2_import.c, _cb_rt_event and _cb_reload_routes); a reload that the
\* timer asks for during a dump is lost.
ImportMirrors ==
  L2Running /\ im.on /\ im.mac /\ ~im.reload /\ ~im.skipped /\ l2Kernel.queue = <<>> =>
    \A d \in Destinations : {db.neigh[k].nexthop : k \in Imported(db, d)} = {l2Kernel.routes[d]} \ {NOTHING}

\* The origin of a removed import, which is freed, is named nowhere in the
\* database (oonf_layer2_origin_remove).
OriginGone ==
  L2Running /\ ~im.on =>
    /\ ~Wrote(db.data, "import") /\ ~Wrote(db.def, "import") /\ "import" \notin Range(db.ip)
    /\ \A k \in DOMAIN db.neigh : ~InNeigh(db.neigh[k], "import")
=============================================================================
