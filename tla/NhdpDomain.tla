------------------------------ MODULE NhdpDomain ------------------------------
(***************************************************************************)
(* The routing domain of NHDP: link and neighbor metrics, the relays this  *)
(* router selects for routing and for flooding, whether others selected    *)
(* it, and the metric plugins that feed it.  Links and neighbors exist     *)
(* here for the whole run (Nhdp models how they come and go); what a HELLO *)
(* changes is the domain data attached to them.  One domain is configured: *)
(* the flooding domain shares its data, both have index 0.                 *)
(***************************************************************************)
EXTENDS Integers, Sequences, FiniteSets, SequencesExt, FfDat

(* The selection of multipoint relays (nhdp/mpr): a function of a neighbor *)
(* graph.  A graph g has the neighbors that may be relays in the order of  *)
(* their addresses (n1), the two-hop addresses (n2), the costs d1[x] to a  *)
(* neighbor and d2[x][y] from a neighbor to a two-hop address, the cost    *)
(* direct[y] of a two-hop address that is a neighbor as well, and the      *)
(* willingness will[x].                                                    *)

CONSTANTS
    LinkMetricMax,     \* RFC7181_METRIC_MAX
    InfiniteMetric,      \* RFC7181_METRIC_INFINITE
    InfinitePath   \* RFC7181_METRIC_INFINITE_PATH

ASSUME MprAssumption ==
    /\ LinkMetricMax \in Nat \ {0} /\ InfiniteMetric \in Nat /\ InfinitePath \in Nat
    /\ InfiniteMetric > LinkMetricMax /\ InfinitePath > 2 * InfiniteMetric

NEVER == 0
ALWAYS == 15

N1(g) == ToSet(g.n1)

_calculate_d_x_y(g, x, y) ==
    IF g.d1[x] > LinkMetricMax \/ g.d2[x][y] > LinkMetricMax
    THEN InfinitePath ELSE g.d1[x] + g.d2[x][y]

mpr_calculate_minimal_d_z_y(g, y) ==
    Min({InfinitePath} \cup {_calculate_d_x_y(g, z, y) : z \in N1(g)})

mpr_calculate_d_of_y_s(g, y, s) ==
    Min({IF g.direct[y] > LinkMetricMax THEN InfinitePath ELSE g.direct[y]}
        \cup {_calculate_d_x_y(g, x, y) : x \in s})

(* The two-hop addresses that need a relay. *)
_calculate_n(g) ==
    {y \in g.n2 : \/ g.direct[y] = InfiniteMetric
                  \/ \E x \in N1(g) : _calculate_d_x_y(g, x, y) < g.direct[y]}

_process_will_always(g) == {x \in N1(g) : g.will[x] = ALWAYS}

PossibleMprs(g, y) == {x \in N1(g) : g.d2[x][y] <= LinkMetricMax}

_process_unique_mprs(g) ==
    UNION {PossibleMprs(g, y) : y \in {z \in _calculate_n(g) : Cardinality(PossibleMprs(g, z)) = 1}}

(* How many addresses x covers best that no relay covers so far.  Only     *)
(* relays in sel count: those with WILL_ALWAYS are not marked as selected. *)
_calculate_r(g, sel, x) ==
    IF x \in sel THEN 0
    ELSE Cardinality({y \in _calculate_n(g) :
            LET least == mpr_calculate_minimal_d_z_y(g, y)
            IN  /\ _calculate_d_x_y(g, x, y) <= least
                /\ ~\E z \in sel : _calculate_d_x_y(g, z, y) = least})

_select_greatest_by_property(g, sel) ==
    LET greatest == Max({0} \cup {_calculate_r(g, sel, x) : x \in N1(g)})
    IN  IF greatest = 0 THEN <<>>
        ELSE SelectSeq(g.n1, LAMBDA x : _calculate_r(g, sel, x) = greatest)

(* Error: one round only. *)
OneRound(g) ==
    [ sel \in SUBSET N1(g) |->
        LET candidates == _select_greatest_by_property(g, sel)
        IN  IF candidates = <<>> THEN sel ELSE sel \cup {Head(candidates)} ]

_process_remaining(g) ==
    LET Select[sel \in SUBSET N1(g)] ==
            LET candidates == _select_greatest_by_property(g, sel)
            IN  IF candidates = <<>> THEN sel ELSE Select[sel \cup {Head(candidates)}]
    IN  Select

mpr_calculate_mpr_rfc7181(g) ==
    _process_will_always(g) \cup _process_remaining(g)[_process_unique_mprs(g)]

(* OONF_ASSERT of _process_unique_mprs: every address that needs a relay   *)
(* has a candidate.                                                        *)
HasCandidates(g) == \A y \in _calculate_n(g) : PossibleMprs(g, y) # {}

(* _validate_mpr_set *)
ValidMprSet(g, mprs) ==
    /\ \A x \in N1(g) : g.will[x] = ALWAYS => x \in mprs
    /\ \A y \in g.n2 :
          /\ mpr_calculate_d_of_y_s(g, y, mprs) < InfinitePath
          /\ mpr_calculate_d_of_y_s(g, y, mprs) = mpr_calculate_d_of_y_s(g, y, N1(g))

-----------------------------------------------------------------------------
CONSTANTS
    LinkList,    \* the links in the order of the database's list
    LinkNeigh,   \* the neighbor of each link
    LinkIf,      \* the local interface of each link
    NeighOrder,  \* the neighbors in the order of their originators
    TwohopAddrs,     \* the two-hop addresses the neighbors may tell about
    Owner,       \* the neighbor that owns a target address, or none
    Hellos,      \* what a HELLO may say
    Lost,        \* numbers of packets lost in a row
    Layer2,      \* layer-2 data of the links of an interface
    DatConfigs,  \* options of the DAT plugin
    CostTables,  \* entries of a section of the constant metric
    Handlers,    \* handlers a configuration may name
    Budgets      \* how many events of each kind a behavior may have

Links == ToSet(LinkList)
Neighs == ToSet(NeighOrder)
Ifs == {LinkIf[l] : l \in Links}
NONE == "none"
ANY == "any"
NoTlv == {"absent"}

ASSUME DomainAssumption ==
    /\ LinkMetricMax = RFC7181_METRIC_MAX /\ InfiniteMetric = RFC7181_METRIC_INFINITE
    /\ LinkNeigh \in [Links -> Neighs] /\ DOMAIN LinkIf = Links
    /\ Owner \in [TwohopAddrs -> Neighs \cup {NONE}]
    /\ LinkList \in Seq(Links) /\ NONE \notin Links
    /\ \A h \in Hellos :
         /\ h.us \in {"heard", "lost", "silent"}
         /\ h.mpr = NoTlv \/ h.mpr \subseteq {"routing", "flooding"}
         /\ h.metric \in Nat
    /\ \A l2 \in Layer2 : l2.speed \in Int
    /\ Lost \subseteq 0 .. SeqnoModulus - 2  \* the distance of two sequence numbers tells how many

VARIABLES
    link,      \* domain data of each link and of its two-hop addresses
    neigh,     \* domain data of each neighbor
    domain,    \* handlers of the domain and of flooding
    outdated,  \* _mpr_outdated
    selected,  \* _node_is_selected_as_mpr
    costs,     \* _linkcost_tree of the constant metric
    pending,   \* _setup_timer of the constant metric runs
    dat,       \* DAT data of each link
    halted,    \* the program ended with an invalid access
    told,      \* history: best metric of each neighbor when the listeners were called
    knew,      \* history: last metric of each neighbor they were called with while it had one
    expired,   \* history: a two-hop address expired since the relays were calculated
    wire,      \* history: packets the neighbor of a link sent, in total and up to this bucket
    budget

domainVars == <<link, neigh, domain, outdated, selected, costs, pending, dat, halted,
          told, knew, expired, wire, budget>>
plugins == <<costs, pending, dat, wire>>

NoTwohop == [in |-> 0, out |-> 0, used |-> 0]

(* Handlers with no_default_handling leave the metrics of HELLOs alone. *)
no_default_handling == domain.metric = "hopcount"

MetricStart == IF no_default_handling THEN LinkMetricMax ELSE InfiniteMetric

nhdp_domain_init_link ==
    [ sym |-> FALSE, in |-> MetricStart, out |-> MetricStart, will |-> NEVER,
      mpr |-> FALSE, selector |-> FALSE, hop |-> [ t \in TwohopAddrs |-> NoTwohop ] ]

nhdp_domain_init_neighbor ==
    [ in |-> MetricStart, out |-> MetricStart, best |-> NONE, bestMetric |-> InfiniteMetric,
      will |-> NEVER, mpr |-> FALSE, selector |-> FALSE ]

nhdp_domain_init_l2hop ==
    [in |-> MetricStart, out |-> MetricStart, used |-> 0]

Spend(kind) ==
    /\ ~halted
    /\ budget[kind] > 0
    /\ budget' = [budget EXCEPT ![kind] = @ - 1]

-----------------------------------------------------------------------------
(* Metrics *)

Symmetric(lk, n) == {l \in Links : LinkNeigh[l] = n /\ lk[l].sym}
LinksOf(n) == SelectSeq(LinkList, LAMBDA l : LinkNeigh[l] = n)

(* _recalculate_neighbor_metric: the first of the best links wins. *)
FirstOf(ls) == LinkList[CHOOSE i \in DOMAIN LinkList : LinkList[i] \in ls /\ \A j \in 1 .. i - 1 : LinkList[j] \notin ls]
BestOut(lk, n) ==
    LET usable == {l \in Symmetric(lk, n) : lk[l].out < InfiniteMetric}
        best == {l \in usable : \A k \in usable : lk[l].out <= lk[k].out}
    IN  IF best = {} THEN NONE ELSE FirstOf(best)

_recalculate_neighbor_metric(lk, nd, n) ==
    LET best == BestOut(lk, n)
        in == Min({InfiniteMetric} \cup {lk[l].in : l \in Symmetric(lk, n)})
    IN  [nd EXCEPT !.in = in, !.best = best,
                   !.out = IF best = NONE THEN InfiniteMetric ELSE lk[best].out,
                   !.bestMetric = IF best = NONE THEN @ ELSE lk[best].out]

(* Error: a change of a two-hop metric is the only change. *)
MetricChangedIn2hop(lk, nd, n) ==
    \E l \in Symmetric(lk, n), t \in TwohopAddrs :
       lk[l].hop[t].in # 0 /\ lk[l].hop[t].out # lk[l].hop[t].used

MetricChanged(lk, nd, n) ==
    \/ LET best == BestOut(lk, n) IN best # NONE /\ nd.bestMetric # lk[best].out
    \/ \E l \in Symmetric(lk, n), t \in TwohopAddrs :
          lk[l].hop[t].in # 0 /\ lk[l].hop[t].out # lk[l].hop[t].used

Used(lk, n) ==
    [ l \in Links |->
        IF lk[l].sym /\ LinkNeigh[l] = n
        THEN [lk[l] EXCEPT !.hop = [ t \in TwohopAddrs |-> [lk[l].hop[t] EXCEPT !.used = lk[l].hop[t].out] ]]
        ELSE lk[l] ]

(* _recalculate_metrics with trigger: listeners hear of changes. *)
nhdp_domain_recalculate_metrics(lk, nd, n) ==
    /\ link' = Used(lk, n)
    /\ neigh' = [nd EXCEPT ![n] = _recalculate_neighbor_metric(lk, @, n)]
    /\ told' = IF MetricChanged(lk, nd[n], n)
               THEN [ m \in Neighs |-> neigh'[m].out ] ELSE told
    /\ knew' = [ m \in Neighs |-> IF MetricChanged(lk, nd[n], n) /\ neigh'[m].out # InfiniteMetric
                                  THEN neigh'[m].out ELSE knew[m] ]

-----------------------------------------------------------------------------
(* HELLOs.  h.us is what the HELLO says about the link to this router      *)
(* ("heard", "lost" or "silent" when it does not list our address), h.mpr  *)
(* the relay bits for us (NoTlv without them), h.metric the metric of    *)
(* the link (0 without), h.will the willingness, and h.hop[t] what it says *)
(* about another neighbor: "silent", "lost" or metrics (0 without).        *)

(* nhdp_domain_process_mpr_tlv: the flag of the node is only recalculated  *)
(* when there is a TLV.                                                    *)
nhdp_domain_process_mpr_tlv(h, lk, nd, l) ==
    LET n == LinkNeigh[l]
        bits == IF h.mpr = NoTlv THEN {} ELSE h.mpr
        nd1 == [nd EXCEPT ![n].selector = "routing" \in bits]
    IN  [ lk |-> [lk EXCEPT ![l].selector = "flooding" \in bits],
          nd |-> nd1,
          selected |-> IF h.mpr = NoTlv THEN selected
                       ELSE \E m \in Neighs : nd1[m].selector ]

(* _process_domainspecific_linkdata: the metric of the link is cleared for *)
(* every handler and set again only for those with default handling.       *)
_process_domainspecific_linkdata(h, lk, nd, l) ==
    LET n == LinkNeigh[l]
        out == IF no_default_handling \/ h.metric = 0 THEN InfiniteMetric ELSE h.metric
    IN  nhdp_domain_process_mpr_tlv(h,
            [lk EXCEPT ![l].out = out],
            [nd EXCEPT ![n].selector = FALSE, ![n].will = NEVER, ![n].out = InfiniteMetric], l)

(* _process_domainspecific_2hopdata *)
_process_domainspecific_2hopdata(hop, said) ==
    LET base == IF hop.in = 0 THEN nhdp_domain_init_l2hop ELSE hop
    IN  IF no_default_handling THEN base
        ELSE [base EXCEPT !.in = IF said.in = 0 THEN InfiniteMetric ELSE said.in,
                          !.out = IF said.out = 0 THEN InfiniteMetric ELSE said.out]

(* _cb_addr_pass2_block for the other neighbors of the sender *)
_cb_addr_pass2_block(h, hops) ==
    [ t \in TwohopAddrs |->
        CASE h.hop[t].is = "silent" -> hops[t]
          [] h.hop[t].is = "lost" -> NoTwohop
          [] h.hop[t].is = "sym" -> _process_domainspecific_2hopdata(hops[t], h.hop[t]) ]

(* nhdp_domain_delayed_mpr_recalculation for all domains *)
Outdated == [routing |-> TRUE, flooding |-> TRUE]

nhdp_domain_store_willingness(h, lk, l) == [lk EXCEPT ![l].will = h.will]

NoHops == [ t \in TwohopAddrs |-> NoTwohop ]

(* nhdp_db_link_update_status: a link that loses its symmetry loses its    *)
(* two-hop addresses.                                                      *)
nhdp_db_link_update_status(ld, sym) ==
    [ld EXCEPT !.sym = sym, !.hop = IF ld.sym /\ ~sym THEN NoHops ELSE @]

(* A HELLO on link l, from the first address to _cb_msg_pass2_end. *)
_cb_msg_pass2_end(l, h) ==
    LET n == LinkNeigh[l]
        listed == IF h.us = "silent" THEN [lk |-> link, nd |-> neigh, selected |-> selected]
                  ELSE _process_domainspecific_linkdata(h, link, neigh, l)
        hops == [listed.lk EXCEPT ![l].hop = _cb_addr_pass2_block(h, @)]
        willing == nhdp_domain_store_willingness(h, hops, l)
        sym == CASE h.us = "heard" -> TRUE [] h.us = "lost" -> FALSE
                 [] h.us = "silent" -> link[l].sym
    IN  /\ Spend("hellos")
        /\ nhdp_domain_recalculate_metrics(
               [willing EXCEPT ![l] = nhdp_db_link_update_status(@, sym)],
               [listed.nd EXCEPT ![n].will = h.will], n)
        /\ selected' = listed.selected
        /\ outdated' = Outdated
        /\ dat' = [dat EXCEPT ![l] = DatLinkChanged(@, @.interval)]
        /\ UNCHANGED <<domain, costs, pending, wire, halted, expired>>

(* _cb_link_symtime: no HELLO confirmed the link in time. *)
_cb_link_symtime(l) ==
    /\ Spend("timeouts")
    /\ link[l].sym
    /\ nhdp_domain_recalculate_metrics(
           [link EXCEPT ![l] = nhdp_db_link_update_status(@, FALSE)], neigh, LinkNeigh[l])
    /\ outdated' = Outdated
    /\ dat' = [dat EXCEPT ![l] = DatLinkChanged(@, @.interval)]
    /\ UNCHANGED <<domain, selected, costs, pending, wire, halted, expired>>

(* _cb_l2hop_vtime: the relays are not calculated again. *)
_cb_l2hop_vtime(l, t) ==
    /\ Spend("timeouts")
    /\ link[l].hop[t].in # 0
    /\ link' = [link EXCEPT ![l].hop[t] = NoTwohop]
    /\ expired' = TRUE
    /\ UNCHANGED <<neigh, domain, outdated, selected, plugins, halted, told, knew>>

-----------------------------------------------------------------------------
(* Relays *)

(* neighbor-graph-routing.c *)
_is_allowed_neighbor_tuple(n) ==
    neigh[n].in <= LinkMetricMax /\ Symmetric(link, n) # {} /\ neigh[n].will > NEVER

_calculate_d2_x_y(n, t) ==
    LET having == SelectSeq(LinksOf(n), LAMBDA l : link[l].hop[t].in # 0)
    IN  IF having = <<>> THEN InfiniteMetric ELSE link[Head(having)].hop[t].in

mpr_calculate_neighbor_graph_routing ==
    LET n1 == SelectSeq(NeighOrder, LAMBDA n : _is_allowed_neighbor_tuple(n))
        Told(t) == \E l \in Links : /\ LinkNeigh[l] \in ToSet(n1)
                                    /\ link[l].hop[t].in # 0 /\ link[l].hop[t].in <= LinkMetricMax
    IN  [ n1 |-> n1, n2 |-> {t \in TwohopAddrs : Told(t)},
          d1 |-> [ n \in Neighs |-> neigh[n].in ],
          d2 |-> [ n \in Neighs |-> [ t \in TwohopAddrs |-> _calculate_d2_x_y(n, t) ] ],
          direct |-> [ t \in TwohopAddrs |->
                        IF Owner[t] \in ToSet(n1) THEN neigh[Owner[t]].in ELSE InfiniteMetric ],
          will |-> [ n \in Neighs |-> neigh[n].will ] ]

(* neighbor-graph-flooding.c: the first allowed link to a neighbor stands  *)
(* for it.                                                                 *)
_is_allowed_link_tuple(i, l) ==
    /\ LinkIf[l] = i /\ link[l].out <= LinkMetricMax /\ link[l].sym /\ link[l].will > NEVER

mpr_calculate_neighbor_graph_flooding(i) ==
    LET Allowed(n) == SelectSeq(LinksOf(n), LAMBDA l : _is_allowed_link_tuple(i, l))
        n1 == SelectSeq(NeighOrder, LAMBDA n : Allowed(n) # <<>>)
        lnk == [ n \in ToSet(n1) |-> Head(Allowed(n)) ]
        Hop(n, t) == link[lnk[n]].hop[t]
    IN  [ n1 |-> n1,
          n2 |-> {t \in TwohopAddrs : \E n \in ToSet(n1) : Hop(n, t).in # 0 /\ Hop(n, t).out <= LinkMetricMax},
          d1 |-> [ n \in ToSet(n1) |-> link[lnk[n]].out ],
          d2 |-> [ n \in ToSet(n1) |-> [ t \in TwohopAddrs |->
                    IF Hop(n, t).in = 0 THEN InfiniteMetric ELSE Hop(n, t).out ] ],
          direct |-> [ t \in TwohopAddrs |->
                        IF Owner[t] \in ToSet(n1) THEN link[lnk[Owner[t]]].out ELSE InfiniteMetric ],
          will |-> [ n \in ToSet(n1) |-> link[lnk[n]].will ] ]

EveryoneRouting == {n \in Neighs : neigh[n].will > NEVER}
EveryoneFlooding == {l \in Links : link[l].will > NEVER}

_cb_update_routing_mpr ==
    IF domain.mpr = "everyone" THEN EveryoneRouting
    ELSE mpr_calculate_mpr_rfc7181(mpr_calculate_neighbor_graph_routing)

_cb_update_flooding_mpr ==
    IF domain.flooding = "everyone" THEN EveryoneFlooding
    ELSE LET mprs == [ i \in Ifs |->
                         mpr_calculate_mpr_rfc7181(mpr_calculate_neighbor_graph_flooding(i)) ]
         IN  {l \in Links : LinkNeigh[l] \in mprs[LinkIf[l]]}

(* _process_will_always follows the link of the node, which nodes of the   *)
(* routing graph do not have.                                              *)
NullDereference ==
    /\ outdated.routing /\ domain.mpr = "mpr"
    /\ _process_will_always(mpr_calculate_neighbor_graph_routing) # {}

_recalculate_routing_mpr_set ==
    [ n \in Neighs |-> [neigh[n] EXCEPT !.mpr = n \in _cb_update_routing_mpr] ]
_recalculate_flooding_mpr_set ==
    [ l \in Links |-> [link[l] EXCEPT !.mpr = l \in _cb_update_flooding_mpr] ]

(* nhdp_writer_send_hello: nhdp_domain_recalculate_mpr, then the HELLO. *)
nhdp_writer_send_hello ==
    /\ ~halted
    /\ outdated.routing \/ outdated.flooding
    /\ halted' = NullDereference
    /\ IF halted' THEN UNCHANGED <<link, neigh, outdated, expired>>
       ELSE /\ neigh' = IF outdated.routing THEN _recalculate_routing_mpr_set ELSE neigh
            /\ link' = IF outdated.flooding THEN _recalculate_flooding_mpr_set ELSE link
            /\ outdated' = [routing |-> FALSE, flooding |-> FALSE]
            /\ expired' = FALSE
    /\ UNCHANGED <<domain, selected, plugins, told, knew, budget>>

-----------------------------------------------------------------------------
(* Configuration and metric plugins *)

(* ff_dat_metric: the data of all links starts again. *)
_cb_enable_metric == [ l \in Links |-> DatLink(dat[l].interval) ]

(* nhdp_domain_configure, nhdp_domain_set_flooding_mpr: _apply_metric and  *)
(* _apply_mpr change the handlers and nothing else, except that a metric   *)
(* is enabled.                                                             *)
nhdp_domain_configure(metric, mpr, flooding) ==
    /\ Spend("configs")
    /\ domain' = [metric |-> metric, mpr |-> mpr, flooding |-> flooding]
    /\ domain' # domain
    /\ dat' = IF metric = "ff_dat_metric" /\ domain.metric # metric
              THEN _cb_enable_metric ELSE dat
    /\ UNCHANGED <<link, neigh, outdated, selected, costs, pending, wire, halted, told, knew, expired>>

(* nhdp_domain_set_incoming_metric: neighbor metrics wait for the next HELLO. *)
nhdp_domain_set_incoming_metric(metric, in) ==
    link' = IF domain.metric = metric
            THEN [ l \in Links |-> [link[l] EXCEPT !.in = in[l]] ] ELSE link

(* constant_metric: _cb_cfg_changed replaces the costs of a section (an    *)
(* interface or any) and starts the timer.                                 *)
_cb_cfg_changed(section, entries) ==
    /\ Spend("configs")
    /\ costs' = [costs EXCEPT ![section] = entries]
    /\ pending' = TRUE
    /\ UNCHANGED <<link, neigh, domain, outdated, selected, dat, wire, halted, told, knew, expired>>

(* _get_linkcost, most specific entry first *)
LinkCost(l) ==
    LET found == SelectSeq(<< costs[LinkIf[l]][LinkNeigh[l]], costs[ANY][LinkNeigh[l]],
                              costs[LinkIf[l]][ANY], costs[ANY][ANY] >>, LAMBDA c : c # 0)
    IN  IF found = <<>> THEN InfiniteMetric ELSE Head(found)

_cb_set_linkcost ==
    /\ ~halted /\ pending
    /\ pending' = FALSE
    /\ nhdp_domain_set_incoming_metric("constant_metric", [l \in Links |-> LinkCost(l)])
    /\ UNCHANGED <<neigh, domain, outdated, selected, costs, dat, wire, halted, told, knew, expired, budget>>

(* The neighbor sent its next packet and lost of those before it did not   *)
(* arrive.                                                                 *)
ReceivePacket(l, lost) ==
    LET sent == wire[l].sent + lost + 1
    IN  /\ Spend("packets")
        /\ domain.metric = "ff_dat_metric"
        /\ dat' = [dat EXCEPT ![l] = _cb_process_packet(@, sent % SeqnoModulus)]
        /\ wire' = [wire EXCEPT ![l] = [sent |-> sent,
                                        mark |-> IF dat[l].contains THEN @.mark ELSE sent - 1]]
        /\ UNCHANGED <<link, neigh, domain, outdated, selected, costs, pending, halted, told, knew, expired>>

HelloLost(l) ==
    /\ Spend("timeouts")
    /\ domain.metric = "ff_dat_metric" /\ dat[l].contains
    /\ dat' = [dat EXCEPT ![l] = _cb_hello_lost(@)]
    /\ UNCHANGED <<link, neigh, domain, outdated, selected, costs, pending, wire, halted, told, knew, expired>>

(* The sampling timer of an interface. *)
DatSampling(i, l2, cfg) ==
    LET on == {l \in Links : LinkIf[l] = i /\ dat[l].contains}
        sample == [ l \in on |-> _cb_dat_sampling(dat[l], l2, cfg) ]
    IN  /\ Spend("samples")
        /\ domain.metric = "ff_dat_metric"
        /\ dat' = [ l \in Links |-> IF l \in on THEN sample[l].link ELSE dat[l] ]
        /\ nhdp_domain_set_incoming_metric("ff_dat_metric",
               [ l \in Links |-> IF l \in on THEN sample[l].metric ELSE link[l].in ])
        /\ wire' = [ l \in Links |-> IF l \in on THEN [wire[l] EXCEPT !.mark = wire[l].sent] ELSE wire[l] ]
        /\ UNCHANGED <<neigh, domain, outdated, selected, costs, pending, halted, told, knew, expired>>

DomainInit ==
    /\ domain \in Handlers
    /\ link = [ l \in Links |-> nhdp_domain_init_link ]
    /\ neigh = [ n \in Neighs |-> nhdp_domain_init_neighbor ]
    /\ outdated = [routing |-> FALSE, flooding |-> FALSE]
    /\ selected = FALSE
    /\ costs = [ i \in Ifs \cup {ANY} |-> [ n \in Neighs \cup {ANY} |-> 0 ] ]
    /\ pending = TRUE
    /\ dat = [ l \in Links |-> DatLink(Refresh) ]
    /\ halted = FALSE
    /\ told = [ n \in Neighs |-> MetricStart ] /\ knew = told
    /\ expired = FALSE
    /\ wire = [ l \in Links |-> [sent |-> 0, mark |-> 0] ]
    /\ budget \in Budgets

DomainNext ==
    \/ \E l \in Links, h \in Hellos : _cb_msg_pass2_end(l, h)
    \/ \E l \in Links : _cb_link_symtime(l)
    \/ \E l \in Links, t \in TwohopAddrs : _cb_l2hop_vtime(l, t)
    \/ nhdp_writer_send_hello
    \/ \E d \in Handlers : nhdp_domain_configure(d.metric, d.mpr, d.flooding)
    \/ \E s \in Ifs \cup {ANY}, e \in CostTables : _cb_cfg_changed(s, e)
    \/ _cb_set_linkcost
    \/ \E l \in Links, k \in Lost : ReceivePacket(l, k)
    \/ \E l \in Links : HelloLost(l)
    \/ \E i \in Ifs, l2 \in Layer2, c \in DatConfigs : DatSampling(i, l2, c)

DomainSpec == DomainInit /\ [][DomainNext]_domainVars

-----------------------------------------------------------------------------
(* The relays cover the two-hop neighborhood (the assertions of            *)
(* _validate_mpr_set): unless a HELLO or a lost link asks for a new        *)
(* calculation, every two-hop address has a path through a relay, as good  *)
(* as through any neighbor, whatever HELLOs, timeouts and configurations   *)
(* came in between.  Excepted are addresses without a candidate, and the   *)
(* time after a two-hop address expired.                                   *)
RelaysCover ==
    ~halted /\ ~expired =>
      /\ ~outdated.routing /\ domain.mpr = "mpr" =>
            LET g == mpr_calculate_neighbor_graph_routing
            IN  HasCandidates(g) => ValidMprSet(g, {n \in N1(g) : neigh[n].mpr})
      /\ ~outdated.flooding /\ domain.flooding = "mpr" =>
            \A i \in Ifs :
              LET g == mpr_calculate_neighbor_graph_flooding(i)
              IN  ValidMprSet(g, {n \in N1(g) : \E l \in Links :
                                    LinkIf[l] = i /\ LinkNeigh[l] = n /\ link[l].mpr})

(* nhdp_domain_node_is_mpr decides whether TCs are sent: it is true while  *)
(* any neighbor has this router as its relay.                              *)
SelectedIsKnown == (\E n \in Neighs : neigh[n].selector) => selected

(* A neighbor's best link is its best symmetric link as the links are now, *)
(* whatever came since, and its metric is the metric of that link          *)
(* (_recalculate_neighbor_metric runs after everything it depends on).     *)
BestIsFresh(lk, nd, n) ==
    /\ nd[n].best = BestOut(lk, n)
    /\ nd[n].best # NONE => nd[n].out = lk[nd[n].best].out
BestLinkFresh == \A n \in Neighs : BestIsFresh(link, neigh, n)

(* Listeners (the routing calculation) have no outdated metric: the last   *)
(* one they were called with is the one the neighbor has as long as it has *)
(* a link, also after it was lost and returned.  Whether it was lost since *)
(* they do not always hear, see MetricsAnnounced.                          *)
NoOldMetric == \A n \in Neighs : neigh[n].best # NONE => knew[n] = neigh[n].out

(* Those who decide with the data of a domain know it: routing has no      *)
(* outdated best link and no outdated metric of a neighbor, and the TC     *)
(* writer knows whether somebody selected this router                      *)
(* (nhdp_domain.c:1015, :486, :643).                                       *)
DomainTold == BestLinkFresh /\ NoOldMetric /\ SelectedIsKnown

(* Listeners are called when the metric of a neighbor changed, which is    *)
(* what _recalculate_neighbor_metric is said to return: of a neighbor that *)
(* ever had a best link they know the metric it has now, infinite when it  *)
(* lost its last link (nhdp_domain.c:1077).                                *)
MetricsAnnounced ==
    \A n \in Neighs : neigh[n].bestMetric # InfiniteMetric => told[n] = neigh[n].out

(* _cb_process_packet counts the packets of a neighbor exactly, over lost  *)
(* packets and the wrap of the sequence number: the active bucket holds as *)
(* many as were sent since it became active.                               *)
DatCounts ==
    \A l \in Links : dat[l].contains =>
        LET b == dat[l].bucket[dat[l].ptr]
        IN  b.total = wire[l].sent - wire[l].mark /\ b.received <= b.total
=============================================================================
