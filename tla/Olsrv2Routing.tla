---------------------------- MODULE Olsrv2Routing ----------------------------
(***************************************************************************)
(* The routing set of OLSRv2 (olsrv2_routing.c), the asynchronous route    *)
(* changes of os_routing_linux.c, the netlink socket of os_system_linux.c  *)
(* and the kernel behind it.                                               *)
(*                                                                         *)
(* A change of the topology starts the rate limit timer; when it fires the *)
(* routes are calculated and the differences are sent to the kernel, which *)
(* answers later.  An entry waits for its answer (in_processing) under the *)
(* sequence number of its request.  Requests are collected in pages and a  *)
(* page is sent when all requests of the one before are answered or the    *)
(* netlink timeout fired.                                                  *)
(*                                                                         *)
(* Sequence numbers are compared for equality only and roll over after     *)
(* 2^31 requests, so any number that is not in use stands for the next.    *)
(***************************************************************************)
EXTENDS Integers, FiniteSets, SequencesExt, Functions

(* The calculation of routes (_run_dijkstra and its helpers), for one      *)
(* domain and one address family and without source-specific routes.       *)
(* Costs of the loops over neighbors, edges and attached networks fall on  *)
(* different targets, so each loop is one function.                        *)

CONSTANTS
    Nodes,      \* originators in the TC tree
    Endpoints,  \* attached networks (olsrv2_tc_endpoint)
    Self,       \* our own originator, also a node of the tree
    Routable,   \* the targets the routable_acl accepts
    NhdpRoutable, \* the setting nhdp_routable
    MetricMax,  \* RFC7181_METRIC_MAX
    NoHop       \* no first hop, no gateway

Targets == Nodes \cup Endpoints

(* RFC7181_METRIC_INFINITE and every other value above RFC7181_METRIC_MAX. *)
Infinite == MetricMax + 1

Metrics == 1 .. Infinite

ASSUME DijkstraAssumption ==
    /\ Self \in Nodes /\ Nodes \cap Endpoints = {}
    /\ IsFiniteSet(Targets)
    /\ Routable \subseteq Targets
    /\ NhdpRoutable \in BOOLEAN
    /\ NoHop \notin Targets
    /\ MetricMax \in Nat \ {0}

(* What the calculation reads: the metrics of our symmetric neighbors, the *)
(* edges and attachments of the TC tree and our own attached networks;     *)
(* Infinite where there is none.                                           *)
Topologies ==
    [ in   : [Nodes -> Metrics],
      out  : [Nodes -> Metrics],
      edge : [Nodes -> [Nodes -> Metrics]],
      net  : [Nodes -> [Endpoints -> Metrics]],
      lan  : [Endpoints -> Metrics] ]

Nowhere ==
    [ in |-> [n \in Nodes |-> Infinite], out |-> [n \in Nodes |-> Infinite],
      edge |-> [n \in Nodes |-> [m \in Nodes |-> Infinite]],
      net |-> [n \in Nodes |-> [e \in Endpoints |-> Infinite]],
      lan |-> [e \in Endpoints |-> Infinite] ]

Attachers(top, e) == {n \in Nodes : top.net[n][e] <= MetricMax}

-----------------------------------------------------------------------------
(* The fields of olsrv2_dijkstra_node, the working tree, and the routing   *)
(* entries the calculation fills: unset ones have the hop NoHop.           *)

NoRoute == [hop |-> NoHop, direct |-> FALSE, cost |-> 0]

_prepare_nodes ==
    [ cost   |-> [x \in Targets |-> 0],
      hop    |-> [x \in Targets |-> NoHop],
      single |-> {}, done |-> {}, work |-> {},
      route  |-> [x \in Targets |-> NoRoute] ]

(* offer[x] is the cost of the last hop to x, hop[x] the first hop.        *)
_insert_into_working_tree(d, offer, path, hop, single) ==
    LET new == {x \in Targets \ (d.done \cup {Self}) :
                    /\ offer[x] <= MetricMax
                    /\ x \in d.work => path + offer[x] < d.cost[x]}
    IN  [d EXCEPT !.cost = [x \in Targets |-> IF x \in new THEN path + offer[x] ELSE @[x]],
                  !.hop = [x \in Targets |-> IF x \in new THEN hop[x] ELSE @[x]],
                  !.single = IF single THEN @ \cup new ELSE @ \ new,
                  !.work = @ \cup new]

(* No route to ourselves, to a network that is closer to us than to the    *)
(* path, to what is not routable; a cheaper entry stays.  A route is       *)
(* direct, without gateway, if the destination is the neighbor itself.     *)
_update_routing_entry(top, r, x, hop, cost, single) ==
    IF \/ x \notin Routable \/ x = Self
       \/ x \in Endpoints /\ top.lan[x] <= MetricMax /\ top.lan[x] < cost
       \/ r.hop # NoHop /\ r.cost < cost
    THEN r
    ELSE [hop |-> hop, direct |-> single /\ hop = x, cost |-> cost]

_add_one_hop_nodes(top) ==
    _insert_into_working_tree(_prepare_nodes,
        [x \in Targets |-> IF x \in Nodes /\ top.in[x] <= MetricMax THEN top.out[x] ELSE Infinite],
        0, [x \in Targets |-> x], TRUE)

(* The first element of the working tree; elements with equal cost are in  *)
(* the order of their insertion, of which the costs do not depend.         *)
First(d) == CHOOSE x \in d.work : \A y \in d.work : d.cost[x] <= d.cost[y]

(* An endpoint with a single announcer is finished at once.                *)
_handle_working_queue(top, d) ==
    LET x == First(d)
        Only(e) == Cardinality(Attachers(top, e)) = 1
        direct == IF x \in Nodes THEN {e \in Endpoints : top.net[x][e] <= MetricMax /\ Only(e)} ELSE {}
        offer == [y \in Targets |->
                    IF x \in Endpoints THEN Infinite
                    ELSE IF y \in Nodes THEN top.edge[x][y]
                    ELSE IF Only(y) THEN Infinite ELSE top.net[x][y]]
        route == [y \in Targets |->
                    IF y = x
                    THEN _update_routing_entry(top, d.route[x], x, d.hop[x], d.cost[x], x \in d.single)
                    ELSE IF y \in direct
                    THEN _update_routing_entry(top, d.route[y], y, d.hop[x], d.cost[x] + top.net[x][y], FALSE)
                    ELSE d.route[y]]
        e == [d EXCEPT !.work = @ \ {x}, !.done = @ \cup {x} \cup direct, !.route = route]
    IN  _insert_into_working_tree(e, offer, d.cost[x], [y \in Targets |-> d.hop[x]], FALSE)

(* Every pass finishes one target. *)
_run_dijkstra(top) ==
    LET d[n \in 0 .. Cardinality(Targets)] ==
            IF n = 0 THEN _add_one_hop_nodes(top)
            ELSE IF d[n - 1].work = {} THEN d[n - 1]
            ELSE _handle_working_queue(top, d[n - 1])
    IN  d[Cardinality(Targets)]

(* With nhdp_routable, addresses of neighbors are routed whatever their    *)
(* incoming metric is; the two-hop addresses are not: nhdp_db_2hop_is_lost is true for every address whose validity  *)
(* runs, and the others are not in the database.                           *)
_handle_nhdp_routes(top, route) ==
    [x \in Targets |->
        IF NhdpRoutable /\ x \in Nodes /\ top.out[x] <= MetricMax
        THEN _update_routing_entry(top, route[x], x, x, top.out[x], TRUE)
        ELSE route[x]]

Calculated(top) == _handle_nhdp_routes(top, _run_dijkstra(top).route)

-----------------------------------------------------------------------------
(* The reference: the cost of the cheapest path of at most n hops, by      *)
(* dynamic programming over n, with the neighbors S as first hops.         *)

Cheapest(S) == CHOOSE c \in S : \A b \in S : c <= b

Far == Infinite * (Cardinality(Targets) + 1)

Distance(top, S) ==
    LET Cost(m) == IF m <= MetricMax THEN m ELSE Far
        start == [x \in Nodes |-> IF x \in S \ {Self} /\ top.in[x] <= MetricMax
                                  THEN Cost(top.out[x]) ELSE Far]
        dist[n \in 1 .. Cardinality(Nodes)] ==
            IF n = 1 THEN start
            ELSE [x \in Nodes |->
                    Cheapest({dist[n - 1][x]} \cup
                        {dist[n - 1][y] + Cost(top.edge[y][x]) : y \in Nodes \ {Self, x}})]
        node == dist[Cardinality(Nodes)]
        path == [x \in Targets |->
            IF x \in Nodes THEN node[x]
            ELSE Cheapest({Far} \cup {node[y] + top.net[y][x] : y \in Attachers(top, x) \ {Self}})]
    IN  [x \in Targets |->
            IF NhdpRoutable /\ x \in S \ {Self} THEN Cheapest({path[x], Cost(top.out[x])})
            ELSE path[x]]

(* A target has a route exactly if it can be reached for less than over    *)
(* our own network; the route has the cost of the cheapest path, and there *)
(* is such a path through its first hop.                                   *)
ShortestRoutes(top, route) ==
    LET dist == Distance(top, Nodes) IN
    \A x \in Targets :
        LET r == route[x]
            reached == /\ x \in Routable \ {Self}
                       /\ dist[x] < Far
                       /\ x \in Endpoints /\ top.lan[x] <= MetricMax => dist[x] <= top.lan[x]
        IN  /\ (r.hop # NoHop) = reached
            /\ r.hop # NoHop => /\ r.cost = dist[x]
                                /\ Distance(top, {r.hop})[x] = r.cost
            /\ r.direct => r.hop = x

-----------------------------------------------------------------------------
CONSTANTS
    KeyRank,     \* the place of a key in the order of the routing tree
    DefaultTable, \* the parameters at the start
    Tables,      \* values of the domain parameters (table, protocol, distance)
    Situations,  \* topologies that may come up (bound for TLC)
    PageSize,    \* requests that fit into one netlink buffer
    SeqNumbers,  \* numbers for the requests that are on their way (bound)
    MaxMishaps   \* bound for timeouts, refusals, losses and new parameters

Keys == Routable \ {Self}

VARIABLES
    topo,       \* what the next calculation reads
    changed,    \* _domain_changed
    update,     \* _update_ansn: the next calculation increments _ansn
    trigger,    \* _trigger_dijkstra
    limiter,    \* _rate_limit_timer runs
    frozen,     \* _freeze_routes
    phase,      \* "up", "shutdown" (_initiate_shutdown) or "down" (cleaned up)
    param,      \* _domain_parameter
    rt,         \* _routing_tree
    nl,         \* the netlink socket
    sent,       \* external: requests the kernel has not seen yet
    answers,    \* external: answers in the socket's receive buffer
    kernel,     \* external: the kernel's routing tables
    mishaps,    \* how many faults happened
    astray      \* history variable: keys for which a change got lost

daemon == <<topo, changed, update, trigger, limiter, frozen, phase, param>>
vars == <<topo, changed, update, trigger, limiter, frozen, phase, param,
          rt, nl, sent, answers, kernel, mishaps, astray>>

Routes ==
    [key : Keys, table : Tables, hop : Nodes, direct : BOOLEAN]
Requests == [seq : SeqNumbers, op : {"set", "del"}, route : Routes]
Results == {"ok", "ESRCH", "EEXIST", "error"}

(* struct olsrv2_routing_entry.  seq is 0 while the route is not in the    *)
(* tree _rtnetlink_feedback.                                               *)
Entries ==
    [ used : BOOLEAN, set : BOOLEAN, in_processing : BOOLEAN,
      seq : SeqNumbers \cup {0},
      hop : Nodes \cup {NoHop}, direct : BOOLEAN, table : Tables \cup {0} ]

(* struct os_system_netlink.  queue holds the list of full pages (buffered) *)
(* followed by the one that is being filled (out); all but the last have   *)
(* PageSize requests, so the length says where a page ends.                *)
Sockets ==
    [queue : Seq(Requests), msg_in_transit : Nat, write : BOOLEAN, timeout : BOOLEAN]

ASSUME RoutingAssumption ==
    /\ KeyRank \in Injection(Keys, Nat)
    /\ Situations \subseteq Topologies
    /\ 0 \notin Tables /\ DefaultTable \in Tables
    /\ PageSize \in Nat \ {0} /\ MaxMishaps \in Nat
    /\ SeqNumbers \subseteq Nat \ {0}

NoEntry ==
    [ used |-> FALSE, set |-> FALSE, in_processing |-> FALSE, seq |-> 0,
      hop |-> NoHop, direct |-> FALSE, table |-> 0 ]

NoSocket ==
    [queue |-> <<>>, msg_in_transit |-> 0, write |-> FALSE, timeout |-> FALSE]

RouteOf(r, k) == [key |-> k, table |-> r.table, hop |-> r.hop, direct |-> r.direct]

(* All requests that the kernel did not work through yet. *)
Waiting == sent \o nl.queue

Init ==
    /\ topo = Nowhere
    /\ param = DefaultTable
    /\ changed = FALSE /\ update = FALSE
    /\ trigger = FALSE /\ limiter = FALSE /\ frozen = FALSE /\ phase = "up"
    /\ rt = [k \in Keys |-> NoEntry]
    /\ nl = NoSocket
    /\ sent = <<>> /\ answers = <<>> /\ kernel = {}
    /\ mishaps = 0 /\ astray = {}

Mishap == mishaps < MaxMishaps /\ mishaps' = mishaps + 1

-----------------------------------------------------------------------------
(* The netlink socket (os_system_linux.c).                                 *)

(* The socket asks the event loop to be written to unless answers are      *)
(* outstanding.                                                            *)
os_system_linux_netlink_send(s, reqs) ==
    [s EXCEPT !.queue = @ \o reqs,
              !.write = @ \/ (reqs # <<>> /\ s.msg_in_transit = 0)]

(* The first page: a full one or, if there is none, what was collected     *)
(* until now.                                                              *)
_enqueue_netlink_buffer(s) ==
    SubSeq(s.queue, 1, IF Len(s.queue) > PageSize THEN PageSize ELSE Len(s.queue))

_netlink_job_finished(s) ==
    LET left == IF s.msg_in_transit > 0 THEN s.msg_in_transit - 1 ELSE 0
    IN  [s EXCEPT !.msg_in_transit = left,
                  !.timeout = @ /\ left > 0,
                  !.write = @ \/ (left = 0 /\ s.queue # <<>>)]

(* The socket is writable: the next page goes to the kernel if nothing is  *)
(* in transit.                                                             *)
FlushNothing ==
    /\ nl.write
    /\ nl.msg_in_transit > 0 \/ nl.queue = <<>>
    /\ nl' = [nl EXCEPT !.write = FALSE]
    /\ UNCHANGED <<daemon, rt, sent, answers, kernel, mishaps, astray>>

(* Error: the last request of the page stays in the queue. *)
AfterShortPage(s) ==
    LET rest == SubSeq(s.queue, Len(_enqueue_netlink_buffer(s)), Len(s.queue))
    IN  [s EXCEPT !.queue = rest, !.write = Len(rest) > PageSize]

(* The socket stays writable only while full pages are left. *)
AfterPage(s) ==
    LET rest == SubSeq(s.queue, Len(_enqueue_netlink_buffer(s)) + 1, Len(s.queue))
    IN  [s EXCEPT !.queue = rest, !.write = Len(rest) > PageSize]

_flush_netlink_buffer ==
    /\ nl.write /\ nl.msg_in_transit = 0 /\ nl.queue # <<>>
    /\ sent' = sent \o _enqueue_netlink_buffer(nl)
    /\ nl' = [AfterPage(nl) EXCEPT !.msg_in_transit = Len(_enqueue_netlink_buffer(nl)),
                                   !.timeout = TRUE]
    /\ UNCHANGED <<daemon, rt, answers, kernel, mishaps, astray>>

(* sendmsg fails: the page is freed all the same.  EAGAIN is not reported; *)
(* any other error is reported for the number of the last message that was *)
(* received, whose request is no longer in the feedback tree.              *)
FlushFails ==
    /\ nl.write /\ nl.msg_in_transit = 0 /\ nl.queue # <<>>
    /\ Mishap
    /\ nl' = AfterPage(nl)
    /\ astray' = astray \cup {r.route.key : r \in ToSet(_enqueue_netlink_buffer(nl))}
    /\ UNCHANGED <<daemon, rt, sent, answers, kernel>>

-----------------------------------------------------------------------------
(* The routing table and its feedback (os_routing_linux.c and the          *)
(* callback _cb_route_finished).                                           *)

(* _remove_entry frees the entry. *)
_remove_entry == NoEntry

(* result "interrupt" is the error -1. *)
_cb_route_finished(r, result) ==
    CASE result = "interrupt" -> [r EXCEPT !.in_processing = FALSE]
      [] result \in {"ok", "EEXIST"} /\ r.set -> [r EXCEPT !.in_processing = FALSE]
      [] result = "ok" /\ ~r.set -> _remove_entry
      [] result = "ESRCH" /\ ~r.set -> _remove_entry
      [] result \in {"error", "ESRCH"} /\ r.set -> _remove_entry
      [] OTHER -> [r EXCEPT !.in_processing = FALSE, !.set = TRUE]

(* The route leaves the feedback tree before its callback runs. *)
_routing_finished(r, result) == _cb_route_finished([r EXCEPT !.seq = 0], result)

(* Error: the request stays in the feedback tree. *)
InterruptKeepsRequest(r) == [r EXCEPT !.in_processing = FALSE]

os_routing_linux_interrupt(r) ==
    IF r.seq # 0 THEN _routing_finished(r, "interrupt") ELSE r

(* The answer to a request, or its error. *)
_cb_rtnetlink_done(a) ==
    [k \in Keys |-> IF rt[k].seq = a.seq THEN _routing_finished(rt[k], a.result) ELSE rt[k]]

_cb_rtnetlink_timeout == [k \in Keys |-> os_routing_linux_interrupt(rt[k])]

(* Numbers for the new requests of the given keys: none that is in use.    *)
_seq_used(keys) ==
    Injection(keys, SeqNumbers \ ({rt[k].seq : k \in Keys}
                                  \cup {r.seq : r \in ToSet(Waiting)} \cup {a.seq : a \in ToSet(answers)}))

(* _kernel_queue with the given keys: direct routes are set first and      *)
(* removed last.  The keys come in the order of the tree and go to the     *)
(* head or to the tail of the list.                                        *)
_add_route_to_kernel_queue(entries, keys) ==
    LET head(k) == entries[k].set = entries[k].direct
        Before(j, k) == IF head(j) THEN head(k) => KeyRank[k] < KeyRank[j]
                        ELSE ~head(k) /\ KeyRank[j] < KeyRank[k]
    IN  {q \in Bijection(1 .. Cardinality(keys), keys) :
            \A i, j \in 1 .. Cardinality(keys) : i < j => Before(q[i], q[j])}

(* An entry that is in processing is taken out of the queue and skipped.   *)
(* os_routing_linux_set refuses routes of mixed address families (a network *)
(* of one family announced by a router of the other), after the entry was  *)
(* marked as being processed.  queued are the keys in the queue.           *)
_process_kernel_queue(entries, queued, mixed, overtaken) ==
    LET start == {k \in queued : ~entries[k].in_processing}
        todo == start \ mixed
        number == CHOOSE f \in _seq_used(todo) : TRUE
    IN  /\ _seq_used(todo) # {}
        /\ rt' = [k \in Keys |->
                    IF k \in todo
                    THEN [entries[k] EXCEPT !.in_processing = TRUE, !.seq = number[k]]
                    ELSE IF k \in start THEN [entries[k] EXCEPT !.in_processing = TRUE]
                    ELSE entries[k]]
        /\ \E q \in _add_route_to_kernel_queue(entries, todo) :
            nl' = os_system_linux_netlink_send(nl,
                    [i \in DOMAIN q |->
                        [seq |-> number[q[i]], op |-> IF entries[q[i]].set THEN "set" ELSE "del",
                         route |-> RouteOf(entries[q[i]], q[i])]])
        /\ astray' = astray \cup (queued \ todo) \cup overtaken

-----------------------------------------------------------------------------
(* The rate limit timer and the calculation (olsrv2_routing.c).            *)

(* Error: the timer is not started. *)
TriggerWithoutTimer == trigger' = TRUE /\ UNCHANGED limiter

olsrv2_routing_trigger_update == trigger' = TRUE /\ limiter' = TRUE

(* Neighbors, metrics, MPRs, the TC tree or our networks changed; not      *)
(* every change is advertised by us.                                       *)
olsrv2_routing_domain_changed(top, advertised) ==
    /\ phase # "down"
    /\ topo # top
    /\ topo' = top /\ changed' = TRUE
    /\ update' = (update \/ advertised)
    /\ olsrv2_routing_trigger_update
    /\ UNCHANGED <<frozen, phase, param, rt, nl, sent, answers, kernel, mishaps, astray>>

(* The entries after _prepare_routes, the calculation and the loop of      *)
(* _process_dijkstra_result; nomem are keys without memory for an entry.   *)
Recalculated(route, nomem) ==
    [k \in Keys |->
        IF route[k].hop # NoHop /\ (rt[k].used \/ k \notin nomem)
        THEN [rt[k] EXCEPT !.used = TRUE, !.set = TRUE, !.hop = route[k].hop,
                           !.direct = route[k].direct, !.table = param]
        ELSE IF rt[k].used THEN [rt[k] EXCEPT !.set = FALSE, !.table = param]
        ELSE rt[k]]

(* Error: removed routes are not looked at. *)
ResultWithoutRemovals(new) ==
    {k \in Keys : new[k].set /\ (~rt[k].used \/ RouteOf(new[k], k) # RouteOf(rt[k], k))}

(* What goes to the kernel: all routes but those that are set and equal to *)
(* the route before.  (The answer of a routing filter only ends the loop   *)
(* over the filters.)                                                      *)
_process_dijkstra_result(new) ==
    {k \in Keys : /\ new[k].used
                  /\ ~(new[k].set /\ rt[k].used /\ RouteOf(new[k], k) = RouteOf(rt[k], k))}

(* Changes that get lost: the last request is not answered, so the change  *)
(* is skipped; or the route is back, after it was to be removed, and       *)
(* equals the one before, so it is taken for no change.                    *)
Overtaken(new) ==
    {k \in Keys :
        \/ /\ rt[k].in_processing
           /\ new[k].set # rt[k].set \/ RouteOf(new[k], k) # RouteOf(rt[k], k)
        \/ /\ rt[k].used /\ ~rt[k].set
           /\ new[k].set /\ RouteOf(new[k], k) = RouteOf(rt[k], k)}

(* The results for the topologies that may come up. *)
RoutesOf == [top \in Situations \cup {Nowhere} |-> Calculated(top)]

olsrv2_routing_force_update(nomem, mixed) ==
    /\ limiter' = TRUE
    /\ update' = FALSE
    /\ changed' = FALSE
    /\ IF changed
       THEN LET new == Recalculated(RoutesOf[topo], nomem)
            IN  _process_kernel_queue(new, _process_dijkstra_result(new), mixed, Overtaken(new))
       ELSE UNCHANGED <<rt, nl, astray>>

(* The timer fires: nothing was triggered; or no calculation is allowed;   *)
(* or the routes are calculated.                                           *)
TimerFiresIdle ==
    /\ limiter /\ phase # "down"
    /\ ~trigger \/ frozen \/ phase = "shutdown"
    /\ limiter' = FALSE /\ trigger' = FALSE
    /\ UNCHANGED <<topo, changed, update, frozen, phase, param,
                   rt, nl, sent, answers, kernel, mishaps, astray>>

_cb_trigger_dijkstra ==
    /\ limiter /\ trigger /\ ~frozen /\ phase = "up"
    /\ trigger' = FALSE
    /\ \/ olsrv2_routing_force_update({}, {}) /\ UNCHANGED mishaps
       \/ olsrv2_routing_force_update(Keys, {}) /\ Mishap
       \/ \E k \in Keys : olsrv2_routing_force_update({}, {k}) /\ Mishap
    /\ UNCHANGED <<topo, frozen, phase, param, sent, answers, kernel>>

olsrv2_routing_freeze_routes(freeze) ==
    /\ phase = "up" /\ frozen # freeze
    /\ frozen' = freeze
    /\ IF freeze THEN UNCHANGED <<trigger, limiter>> ELSE olsrv2_routing_trigger_update
    /\ UNCHANGED <<topo, changed, update, phase, param,
                   rt, nl, sent, answers, kernel, mishaps, astray>>

(* One entry of the loop that takes back all routes. *)
TakeBack(r) == os_routing_linux_interrupt([r EXCEPT !.set = FALSE])

(* All routes leave the kernel's table.  The timer is set for the          *)
(* calculation that is to write the new ones.                              *)
olsrv2_routing_set_domain_parameter(t) ==
    /\ phase = "up" /\ param # t
    /\ Mishap
    /\ param' = t
    /\ LET mine == {k \in Keys : rt[k].set}
           new == [k \in Keys |-> IF k \in mine THEN TakeBack(rt[k]) ELSE rt[k]]
       IN  IF \A k \in Keys : ~rt[k].used
           THEN UNCHANGED <<trigger, limiter, rt, nl, astray>>
           ELSE /\ trigger' = TRUE /\ limiter' = TRUE
                /\ _process_kernel_queue(new, mine, {}, {})
    /\ UNCHANGED <<topo, changed, update, frozen, phase, sent, answers, kernel>>

(* Shutdown takes the routes out of the feedback tree without a callback,  *)
(* so they stay in processing.                                             *)
olsrv2_routing_initiate_shutdown ==
    /\ phase = "up"
    /\ phase' = "shutdown" /\ frozen' = FALSE
    /\ LET mine == {k \in Keys : rt[k].set}
           new == [k \in Keys |-> [rt[k] EXCEPT !.seq = 0, !.set = FALSE]]
       IN  _process_kernel_queue(new, mine, {}, {})
    /\ UNCHANGED <<topo, changed, update, trigger, limiter, param,
                   sent, answers, kernel, mishaps>>

(* The routing set is freed and the netlink socket is closed with all that *)
(* waits in it.                                                            *)
olsrv2_routing_cleanup ==
    /\ phase = "shutdown"
    /\ phase' = "down" /\ limiter' = FALSE
    /\ rt' = [k \in Keys |-> _remove_entry]
    /\ nl' = NoSocket /\ answers' = <<>>
    /\ astray' = astray \cup {r.route.key : r \in ToSet(nl.queue)}
    /\ UNCHANGED <<topo, changed, update, trigger, frozen, param, sent, kernel, mishaps>>

-----------------------------------------------------------------------------
(* The kernel and its answers.                                             *)

(* NLM_F_REPLACE: one route per destination and table. *)
KernelSet(route) ==
    {r \in kernel : r.key # route.key \/ r.table # route.table} \cup {route}

(* A route is deleted if gateway and interface match, too. *)
KernelAnswers(result) ==
    /\ sent # <<>>
    /\ sent' = Tail(sent)
    /\ LET r == Head(sent)
       IN  /\ CASE result = "ok" /\ r.op = "set" ->
                       kernel' = KernelSet(r.route) /\ UNCHANGED <<mishaps, astray>>
                [] result = "ok" /\ r.op = "del" /\ r.route \in kernel ->
                       kernel' = kernel \ {r.route} /\ UNCHANGED <<mishaps, astray>>
                [] result = "ESRCH" /\ r.op = "del" /\ r.route \notin kernel ->
                       UNCHANGED <<kernel, mishaps, astray>>
                [] result = "EEXIST" /\ r.op = "set" /\ r.route \in kernel ->
                       UNCHANGED <<kernel, mishaps, astray>>
                [] result = "error" ->
                       /\ Mishap
                       /\ astray' = astray \cup {r.route.key}
                       /\ UNCHANGED kernel
                [] OTHER -> FALSE
           /\ answers' = Append(answers, [seq |-> r.seq, result |-> result])
    /\ UNCHANGED <<daemon, rt, nl>>

_handle_nl_err(a) ==
    /\ rt' = _cb_rtnetlink_done(a)
    /\ nl' = _netlink_job_finished(nl)

_netlink_handler ==
    /\ answers # <<>> /\ phase # "down"
    /\ answers' = Tail(answers)
    /\ _handle_nl_err(Head(answers))
    /\ UNCHANGED <<daemon, sent, kernel, mishaps, astray>>

(* The timeout finishes all requests of the feedback tree, also those that *)
(* still wait for a page.                                                  *)
_cb_handle_netlink_timeout ==
    /\ nl.timeout
    /\ Mishap
    /\ rt' = _cb_rtnetlink_timeout
    /\ nl' = [nl EXCEPT !.msg_in_transit = 0, !.timeout = FALSE]
    /\ UNCHANGED <<daemon, sent, answers, kernel, astray>>

-----------------------------------------------------------------------------
Routing ==
    \/ \E top \in Situations, advertised \in BOOLEAN : olsrv2_routing_domain_changed(top, advertised)
    \/ TimerFiresIdle
    \/ _cb_trigger_dijkstra
    \/ \E freeze \in BOOLEAN : olsrv2_routing_freeze_routes(freeze)
    \/ \E t \in Tables : olsrv2_routing_set_domain_parameter(t)
    \/ olsrv2_routing_initiate_shutdown
    \/ olsrv2_routing_cleanup

Netlink ==
    \/ FlushNothing
    \/ _flush_netlink_buffer
    \/ FlushFails
    \/ _netlink_handler
    \/ _cb_handle_netlink_timeout

Kernel == \E result \in Results : KernelAnswers(result)

Halted == phase = "down" /\ sent = <<>> /\ UNCHANGED vars

Next == Routing \/ Netlink \/ Kernel \/ Halted

Spec == Init /\ [][Next]_vars

-----------------------------------------------------------------------------
(* Types of all variables. *)
TypeOK ==
    /\ topo \in Situations \cup {Nowhere}
    /\ {changed, update, trigger, limiter, frozen} \subseteq BOOLEAN
    /\ phase \in {"up", "shutdown", "down"}
    /\ param \in Tables
    /\ rt \in [Keys -> Entries]
    /\ nl \in Sockets
    /\ sent \in Seq(Requests)
    /\ answers \in Seq([seq : SeqNumbers, result : Results])
    /\ kernel \subseteq Routes
    /\ mishaps \in 0 .. MaxMishaps
    /\ astray \subseteq Keys

(* Outside of the changes that the code is known to lose (skipped in       *)
(* _process_kernel_queue, refused, in a page that could not be sent), the  *)
(* kernel has exactly the routes of the routing set once all requests for  *)
(* a destination are worked through: through timeouts and their late       *)
(* answers, new domain parameters and the shutdown.                        *)
KernelMatches ==
    \A k \in Keys \ astray :
        (\A r \in ToSet(Waiting) : r.route.key # k)
            => {r \in kernel : r.key = k}
                 = IF rt[k].set THEN {RouteOf(rt[k], k)} ELSE {}

(* The feedback tree has one entry per request under way: an answer finds  *)
(* the route that asked and no other, a route is never inserted twice (the *)
(* assertion in os_routing_linux_set), and it is in processing.            *)
AnswerFindsItsRoute ==
    \A k \in Keys :
        rt[k].seq # 0 =>
            /\ rt[k].used /\ rt[k].in_processing
            /\ \A j \in Keys \ {k} : rt[j].seq # rt[k].seq
            /\ \A r \in ToSet(Waiting) : r.seq = rt[k].seq => r.route.key = k
            /\ Cardinality({i \in DOMAIN Waiting : Waiting[i].seq = rt[k].seq})
               + Cardinality({i \in DOMAIN answers : answers[i].seq = rt[k].seq})
               <= 1

(* A change of the topology, or of what we advertise, that no calculation   *)
(* has seen is never forgotten: unless the routes are frozen or the daemon *)
(* ends, the timer runs and will start a calculation, whatever rate limit, *)
(* new parameters and thawing did in between.                              *)
ChangeRemembered ==
    (changed \/ update) /\ ~frozen /\ phase = "up" => trigger /\ limiter

(* The pages of the netlink socket implement a queue to the kernel.        *)
Fifo == INSTANCE NetlinkFifo WITH queue <- Waiting

NetlinkIsFifo == Fifo!Spec
=============================================================================
