------------------------- MODULE Olsrv2RoutingProofs -------------------------
(***************************************************************************)
(* Proofs about Olsrv2Routing, for all routers, networks, topologies,      *)
(* tables and page sizes: changes are remembered, the netlink socket is a  *)
(* queue, answers find the route that asked, and the kernel ends with the  *)
(* routes of the routing set.                                              *)
(***************************************************************************)
EXTENDS Olsrv2Routing, SequenceTheorems, FiniteSetTheorems, TLAPS

-----------------------------------------------------------------------------
(* Changes.                                                                *)

(* No step forgets a change: the timer of olsrv2_routing_trigger_update    *)
(* only fires without a calculation when nothing was triggered, the routes *)
(* are frozen or the daemon ends, and thawing triggers anew.               *)
THEOREM ChangesRemembered == Spec => []ChangeRemembered
<1>1. Init => ChangeRemembered
  BY DEF Init, ChangeRemembered
<1>2. ChangeRemembered /\ [Next]_vars => ChangeRemembered'
  <2> SUFFICES ASSUME ChangeRemembered, [Next]_vars PROVE ChangeRemembered'
    OBVIOUS
  <2> USE DEF ChangeRemembered, olsrv2_routing_trigger_update
  <2>1. ASSUME NEW top \in Situations, NEW advertised \in BOOLEAN,
               olsrv2_routing_domain_changed(top, advertised)
        PROVE  ChangeRemembered'
    BY <2>1 DEF olsrv2_routing_domain_changed
  <2>2. CASE TimerFiresIdle
    BY <2>2 DEF TimerFiresIdle
  <2>3. CASE _cb_trigger_dijkstra
    BY <2>3 DEF _cb_trigger_dijkstra, olsrv2_routing_force_update
  <2>4. ASSUME NEW freeze \in BOOLEAN, olsrv2_routing_freeze_routes(freeze)
        PROVE  ChangeRemembered'
    BY <2>4 DEF olsrv2_routing_freeze_routes
  <2>5. ASSUME NEW t \in Tables, olsrv2_routing_set_domain_parameter(t)
        PROVE  ChangeRemembered'
    BY <2>5 DEF olsrv2_routing_set_domain_parameter
  <2>6. CASE olsrv2_routing_initiate_shutdown
    BY <2>6, Zenon DEF olsrv2_routing_initiate_shutdown
  <2>7. CASE olsrv2_routing_cleanup
    BY <2>7 DEF olsrv2_routing_cleanup
  <2>8. CASE Netlink
    BY <2>8 DEF Netlink, FlushNothing, _flush_netlink_buffer, FlushFails, _netlink_handler,
                _cb_handle_netlink_timeout, daemon
  <2>9. CASE Kernel
    BY <2>9 DEF Kernel, KernelAnswers, daemon
  <2>10. CASE Halted \/ UNCHANGED vars
    BY <2>10 DEF Halted, vars
  <2> QED
    BY <2>1, <2>2, <2>3, <2>4, <2>5, <2>6, <2>7, <2>8, <2>9, <2>10 DEF Next, Routing
<1> QED BY <1>1, <1>2, PTL DEF Spec

-----------------------------------------------------------------------------
(* Types.  Where a calculation may put a hop is left open: Hops are all    *)
(* hops of all results, for what follows it only matters that entries and  *)
(* requests are records.                                                   *)

Hops == {NoHop} \cup UNION {{RoutesOf[top][k].hop : k \in Keys} : top \in Situations \cup {Nowhere}}
Directs == {FALSE} \cup UNION {{RoutesOf[top][k].direct : k \in Keys} : top \in Situations \cup {Nowhere}}

RouteRecords == [key : Keys, table : Tables \cup {0}, hop : Hops, direct : Directs]
RequestRecords == [seq : SeqNumbers, op : {"set", "del"}, route : RouteRecords]
EntryRecords ==
    [ used : BOOLEAN, set : BOOLEAN, in_processing : BOOLEAN,
      seq : SeqNumbers \cup {0},
      hop : Hops, direct : Directs, table : Tables \cup {0} ]
AnswerRecords == [seq : SeqNumbers, result : Results]
SocketRecords ==
    [queue : Seq(RequestRecords), msg_in_transit : Nat, write : BOOLEAN, timeout : BOOLEAN]

Typed ==
    /\ topo \in Situations \cup {Nowhere} /\ param \in Tables
    /\ rt \in [Keys -> EntryRecords]
    /\ nl \in SocketRecords
    /\ sent \in Seq(RequestRecords)
    /\ answers \in Seq(AnswerRecords)

(* What _process_kernel_queue makes of the entries it is given: the        *)
(* requests reqs for exactly the keys todo, one for each, with numbers     *)
(* that are not in use.                                                    *)
Queued(entries, todo, reqs) ==
    /\ nl'.queue = nl.queue \o reqs
    /\ \A i \in DOMAIN reqs :
          /\ reqs[i].route.key \in todo
          /\ rt'[reqs[i].route.key].seq = reqs[i].seq
          /\ reqs[i].op = IF entries[reqs[i].route.key].set THEN "set" ELSE "del"
          /\ reqs[i].route = RouteOf(entries[reqs[i].route.key], reqs[i].route.key)
          /\ \A k \in Keys : rt[k].seq # reqs[i].seq
          /\ \A j \in DOMAIN Waiting : Waiting[j].seq # reqs[i].seq
          /\ \A j \in DOMAIN answers : answers[j].seq # reqs[i].seq
    /\ \A i, j \in DOMAIN reqs : (reqs[i].route.key = reqs[j].route.key \/ reqs[i].seq = reqs[j].seq) => i = j
    /\ \A k \in todo : \E i \in DOMAIN reqs : reqs[i].route.key = k

Todo(entries, queued, mixed) == {k \in queued : ~entries[k].in_processing} \ mixed

(* There are finitely many destinations.                                   *)
LEMMA KeysAreFinite == ASSUME NEW S \in SUBSET Keys PROVE IsFiniteSet(S) /\ Cardinality(S) \in Nat
  BY DijkstraAssumption, FS_Subset, FS_CardinalityType DEF Keys

(* The entries afterwards: those of todo have new numbers, all that were   *)
(* queued are in processing, and what was queued in vain is remembered.    *)
Processed(entries, queued, mixed, overtaken) ==
    /\ \E reqs \in Seq(RequestRecords) : Queued(entries, Todo(entries, queued, mixed), reqs)
    /\ rt' \in [Keys -> EntryRecords] /\ nl' \in SocketRecords
    /\ \A k \in Keys :
          /\ rt'[k].used = entries[k].used /\ rt'[k].set = entries[k].set
          /\ RouteOf(rt'[k], k) = RouteOf(entries[k], k)
          /\ rt'[k].in_processing = (entries[k].in_processing \/ k \in queued)
          /\ k \notin Todo(entries, queued, mixed) => rt'[k].seq = entries[k].seq
    /\ astray' = astray \cup (queued \ Todo(entries, queued, mixed)) \cup overtaken

(* That is what _process_kernel_queue does.                                *)
LEMMA QueueStep ==
    ASSUME Typed, NEW entries \in [Keys -> EntryRecords], NEW queued \in SUBSET Keys,
           NEW mixed, NEW overtaken,
           _process_kernel_queue(entries, queued, mixed, overtaken)
    PROVE  Processed(entries, queued, mixed, overtaken)
<1> DEFINE todo == Todo(entries, queued, mixed)
           number == CHOOSE f \in _seq_used(todo) : TRUE
<1>1. number \in _seq_used(todo)
  BY Zenon DEF _process_kernel_queue, Todo
<1> PICK q \in _add_route_to_kernel_queue(entries, todo) :
        nl' = os_system_linux_netlink_send(nl,
                [i \in DOMAIN q |->
                    [seq |-> number[q[i]], op |-> IF entries[q[i]].set THEN "set" ELSE "del",
                     route |-> RouteOf(entries[q[i]], q[i])]])
  BY Zenon DEF _process_kernel_queue, Todo
<1>2. /\ todo \in SUBSET Keys
      /\ number \in [todo -> SeqNumbers]
      /\ \A j, k \in todo : number[j] = number[k] => j = k
      /\ \A k \in todo : /\ \A j \in Keys : rt[j].seq # number[k]
                         /\ \A i \in DOMAIN Waiting : Waiting[i].seq # number[k]
                         /\ \A i \in DOMAIN answers : answers[i].seq # number[k]
  <2>1. todo \in SUBSET Keys
    BY DEF Todo
  <2>2. /\ number \in [todo -> SeqNumbers \ ({rt[k].seq : k \in Keys}
                     \cup {r.seq : r \in ToSet(Waiting)} \cup {a.seq : a \in ToSet(answers)})]
        /\ IsInjective(number)
    <3> HIDE DEF number, todo
    <3> QED BY <1>1 DEF _seq_used, Injection
  <2>3. \A j, k \in todo : number[j] = number[k] => j = k
    BY <2>2 DEF IsInjective
  <2>4. \A k \in todo : \A j \in Keys : rt[j].seq # number[k]
    BY <2>2
  <2>5. \A k \in todo : \A i \in DOMAIN Waiting : Waiting[i].seq # number[k]
    <3>1. \A i \in DOMAIN Waiting : Waiting[i] \in ToSet(Waiting)
      BY DEF ToSet
    <3> QED BY <2>2, <3>1
  <2>6. \A k \in todo : \A i \in DOMAIN answers : answers[i].seq # number[k]
    <3>1. \A i \in DOMAIN answers : answers[i] \in ToSet(answers)
      BY DEF ToSet
    <3> QED BY <2>2, <3>1
  <2>7. number \in [todo -> SeqNumbers]
    BY <2>2
  <2> HIDE DEF number, todo
  <2> QED
    BY <2>1, <2>3, <2>4, <2>5, <2>6, <2>7
<1>3. /\ Cardinality(todo) \in Nat
      /\ q \in [1 .. Cardinality(todo) -> todo]
      /\ \A i, j \in 1 .. Cardinality(todo) : q[i] = q[j] => i = j
      /\ \A k \in todo : \E i \in 1 .. Cardinality(todo) : q[i] = k
  BY <1>2, KeysAreFinite DEF _add_route_to_kernel_queue, Bijection, Injection, Surjection, IsInjective
<1> DEFINE n == Cardinality(todo)
           reqs == [i \in 1 .. n |->
                      [seq |-> number[q[i]], op |-> IF entries[q[i]].set THEN "set" ELSE "del",
                       route |-> RouteOf(entries[q[i]], q[i])]]
<1>4. nl' = os_system_linux_netlink_send(nl, reqs)
  BY <1>3
<1>5. \A k \in Keys : RouteOf(entries[k], k) \in RouteRecords
  <2> TAKE k \in Keys
  <2>1. entries[k] \in EntryRecords
    OBVIOUS
  <2> QED BY <2>1 DEF RouteOf, RouteRecords, EntryRecords
<1>6. reqs \in Seq(RequestRecords)
  <2>1. \A i \in 1 .. n : reqs[i] \in RequestRecords
    BY <1>2, <1>3, <1>5 DEF RequestRecords
  <2>2. n \in Nat /\ reqs \in [1 .. n -> RequestRecords]
    BY <1>3, <2>1
  <2> HIDE DEF reqs, n
  <2> QED
    BY <2>2
<1>7. /\ nl'.queue = nl.queue \o reqs
      /\ nl' \in SocketRecords
  <2>1. nl.queue \o reqs \in Seq(RequestRecords)
    BY <1>6 DEF Typed, SocketRecords
  <2> HIDE DEF reqs
  <2> QED
    BY <1>4, <2>1 DEF os_system_linux_netlink_send, Typed, SocketRecords
<1>8. rt' = [k \in Keys |->
                IF k \in todo
                THEN [entries[k] EXCEPT !.in_processing = TRUE, !.seq = number[k]]
                ELSE IF k \in {j \in queued : ~entries[j].in_processing}
                     THEN [entries[k] EXCEPT !.in_processing = TRUE]
                     ELSE entries[k]]
  BY Zenon DEF _process_kernel_queue, Todo
<1>9. \A k \in Keys : /\ rt'[k] \in EntryRecords
                      /\ rt'[k].used = entries[k].used /\ rt'[k].set = entries[k].set
                      /\ RouteOf(rt'[k], k) = RouteOf(entries[k], k)
                      /\ rt'[k].in_processing = (entries[k].in_processing \/ k \in queued)
                      /\ rt'[k].seq = IF k \in todo THEN number[k] ELSE entries[k].seq
  <2> TAKE k \in Keys
  <2>1. entries[k] \in EntryRecords
    OBVIOUS
  <2>2. CASE k \in todo
    <3>1. k \in queued /\ ~entries[k].in_processing
      BY <2>2 DEF Todo
    <3> HIDE DEF todo, number
    <3> QED
      BY <1>2, <1>8, <2>1, <2>2, <3>1, Zenon DEF EntryRecords, RouteOf
  <2>3. CASE k \notin todo
    <3> HIDE DEF todo, number
    <3> QED
      BY <1>8, <2>1, <2>3, Zenon DEF EntryRecords, RouteOf
  <2> QED BY <2>2, <2>3
<1>10. Queued(entries, todo, reqs)
  <2>1. /\ DOMAIN reqs = 1 .. n
        /\ \A i \in 1 .. n : /\ reqs[i].seq = number[q[i]]
                             /\ reqs[i].op = IF entries[q[i]].set THEN "set" ELSE "del"
                             /\ reqs[i].route = RouteOf(entries[q[i]], q[i])
                             /\ reqs[i].route.key = q[i]
    BY DEF RouteOf
  <2> HIDE DEF reqs, todo, number, n
  <2>2. \A i \in 1 .. n : q[i] \in todo /\ q[i] \in Keys
    BY <1>2, <1>3 DEF n
  <2>3. \A i \in 1 .. n : rt'[q[i]].seq = number[q[i]]
    BY <1>9, <2>2
  <2>4. \A i, j \in 1 .. n : (q[i] = q[j] \/ number[q[i]] = number[q[j]]) => i = j
    BY <1>2, <1>3, <2>2 DEF n
  <2>5. \A k \in todo : \E i \in 1 .. n : q[i] = k
    BY <1>3 DEF n
  <2>7. \A i \in DOMAIN reqs :
          /\ reqs[i].route.key \in todo
          /\ rt'[reqs[i].route.key].seq = reqs[i].seq
          /\ reqs[i].op = IF entries[reqs[i].route.key].set THEN "set" ELSE "del"
          /\ reqs[i].route = RouteOf(entries[reqs[i].route.key], reqs[i].route.key)
    BY <2>1, <2>2, <2>3
  <2>8. \A i \in DOMAIN reqs :
          /\ \A k \in Keys : rt[k].seq # reqs[i].seq
          /\ \A j \in DOMAIN Waiting : Waiting[j].seq # reqs[i].seq
          /\ \A j \in DOMAIN answers : answers[j].seq # reqs[i].seq
    <3> TAKE i \in DOMAIN reqs
    <3>1. i \in 1 .. n
      BY <2>1
    <3>2. reqs[i].seq = number[q[i]]
      BY <2>1, <3>1
    <3>3. q[i] \in todo
      BY <2>2, <3>1
    <3> QED BY <1>2, <3>2, <3>3
  <2>9. \A i, j \in DOMAIN reqs : (reqs[i].route.key = reqs[j].route.key \/ reqs[i].seq = reqs[j].seq) => i = j
    BY <2>1, <2>4
  <2>10. \A k \in todo : \E i \in DOMAIN reqs : reqs[i].route.key = k
    BY <2>1, <2>5
  <2> QED
    BY <1>7, <2>7, <2>8, <2>9, <2>10 DEF Queued
<1>11. astray' = astray \cup (queued \ todo) \cup overtaken
  BY Zenon DEF _process_kernel_queue, Todo
<1>12. rt' \in [Keys -> EntryRecords]
  BY <1>8, <1>9, Zenon
<1> HIDE DEF reqs, number
<1> QED
  BY <1>6, <1>7, <1>9, <1>10, <1>11, <1>12 DEF Processed

-----------------------------------------------------------------------------
(* The entries that the three callers of _process_kernel_queue hand over.  *)

(* An entry with a request under way is in processing, one that is used in *)
(* any way is in the tree.                                                 *)
Consistent(entries) ==
    \A k \in Keys : /\ entries[k].seq # 0 => entries[k].in_processing
                    /\ entries[k].in_processing \/ entries[k].set => entries[k].used

(* What the three have in common: requests under way keep their numbers or *)
(* are given up, and only entries that are in the tree are queued.         *)
Prepared(entries, queued) ==
    /\ entries \in [Keys -> EntryRecords] /\ queued \in SUBSET Keys
    /\ Consistent(entries)
    /\ \A k \in Keys : entries[k].seq \in {0, rt[k].seq}
    /\ \A k \in queued : entries[k].used

(* A calculation: what happens to one entry.                               *)
LEMMA Calculation ==
    ASSUME Typed, Consistent(rt), NEW nomem, NEW new, new = Recalculated(RoutesOf[topo], nomem)
    PROVE  /\ Prepared(new, _process_dijkstra_result(new))
           /\ \A k \in Keys :
                /\ new[k].seq = rt[k].seq /\ new[k].in_processing = rt[k].in_processing
                /\ new[k].set => new[k].table = param
                /\ ~new[k].set /\ new[k].used =>
                      /\ new[k].table = param
                      /\ new[k].hop = rt[k].hop /\ new[k].direct = rt[k].direct
                /\ ~new[k].used => new[k] = rt[k]
<1> DEFINE route == RoutesOf[topo]
<1>1. \A k \in Keys : route[k].hop \in Hops /\ route[k].direct \in Directs
  <2>1. topo \in Situations \cup {Nowhere}
    BY DEF Typed
  <2>2. ASSUME NEW k \in Keys PROVE RoutesOf[topo][k].hop \in Hops
    BY <2>1 DEF Hops
  <2>3. ASSUME NEW k \in Keys PROVE RoutesOf[topo][k].direct \in Directs
    <3>1. RoutesOf[topo][k].direct \in {RoutesOf[topo][j].direct : j \in Keys}
      OBVIOUS
    <3> QED BY <2>1, <3>1 DEF Directs
  <2> QED BY <2>2, <2>3
<1> HIDE DEF route
<1>2. new = Recalculated(route, nomem)
  BY DEF route
<1>3. ASSUME NEW k \in Keys
      PROVE  /\ new[k] \in EntryRecords
             /\ new[k].seq = rt[k].seq /\ new[k].in_processing = rt[k].in_processing
             /\ new[k].seq # 0 => new[k].in_processing
             /\ new[k].in_processing \/ new[k].set => new[k].used
             /\ new[k].set => new[k].table = param
             /\ ~new[k].set /\ new[k].used =>
                      /\ new[k].table = param
                      /\ new[k].hop = rt[k].hop /\ new[k].direct = rt[k].direct
             /\ ~new[k].used => new[k] = rt[k]
  <2>1. rt[k] \in EntryRecords /\ param \in Tables
    BY DEF Typed
  <2>2. /\ rt[k].seq # 0 => rt[k].in_processing
        /\ rt[k].in_processing \/ rt[k].set => rt[k].used
    BY DEF Consistent
  <2>3. route[k].hop \in Hops /\ route[k].direct \in Directs
    BY <1>1
  <2>4. CASE route[k].hop # NoHop /\ (rt[k].used \/ k \notin nomem)
    <3>1. new[k] = [rt[k] EXCEPT !.used = TRUE, !.set = TRUE, !.hop = route[k].hop,
                                 !.direct = route[k].direct, !.table = param]
      BY <1>2, <2>4, Zenon DEF Recalculated
    <3>2. new[k] \in EntryRecords
      BY <2>1, <2>3, <3>1, Zenon DEF EntryRecords
    <3>3. new[k].seq = rt[k].seq /\ new[k].in_processing = rt[k].in_processing
      BY <2>1, <3>1, Zenon DEF EntryRecords
    <3>4. new[k].used = TRUE /\ new[k].set = TRUE /\ new[k].table = param
      BY <2>1, <3>1, Zenon DEF EntryRecords
    <3> QED BY <2>2, <3>2, <3>3, <3>4, Zenon
  <2>5. CASE ~(route[k].hop # NoHop /\ (rt[k].used \/ k \notin nomem)) /\ rt[k].used
    <3>1. new[k] = [rt[k] EXCEPT !.set = FALSE, !.table = param]
      BY <1>2, <2>5, Zenon DEF Recalculated
    <3> QED BY <2>1, <2>2, <2>5, <3>1 DEF EntryRecords
  <2>6. CASE ~(route[k].hop # NoHop /\ (rt[k].used \/ k \notin nomem)) /\ ~rt[k].used
    <3>1. new[k] = rt[k]
      BY <1>2, <2>6, Zenon DEF Recalculated
    <3> QED BY <2>1, <2>2, <2>6, <3>1, Zenon
  <2> QED BY <2>4, <2>5, <2>6
<1>4. new \in [Keys -> EntryRecords]
  BY <1>2, <1>3, Zenon DEF Recalculated
<1>5. Consistent(new)
  BY <1>3 DEF Consistent
<1>6. /\ _process_dijkstra_result(new) \in SUBSET Keys
      /\ \A k \in _process_dijkstra_result(new) : new[k].used
  BY DEF _process_dijkstra_result
<1> QED BY <1>3, <1>4, <1>5, <1>6 DEF Prepared

(* Giving up the request of an entry leaves its route alone.               *)
LEMMA Interrupted ==
    ASSUME NEW r \in EntryRecords, r.seq # 0 => r.in_processing, NEW k
    PROVE  LET t == os_routing_linux_interrupt(r)
           IN  /\ t \in EntryRecords
               /\ t.seq = 0 /\ (t.in_processing => r.in_processing)
               /\ t.used = r.used /\ t.set = r.set /\ RouteOf(t, k) = RouteOf(r, k)
<1>1. CASE r.seq # 0
  <2>1. os_routing_linux_interrupt(r) = [[r EXCEPT !.seq = 0] EXCEPT !.in_processing = FALSE]
    BY <1>1 DEF os_routing_linux_interrupt, _routing_finished, _cb_route_finished
  <2> QED BY <2>1 DEF EntryRecords, RouteOf
<1>2. CASE r.seq = 0
  BY <1>2 DEF os_routing_linux_interrupt
<1> QED BY <1>1, <1>2

(* New parameters: the routes that are set are taken back.                 *)
LEMMA NewParameters ==
    ASSUME Typed, Consistent(rt), NEW new,
           new = [k \in Keys |-> IF k \in {j \in Keys : rt[j].set} THEN TakeBack(rt[k]) ELSE rt[k]]
    PROVE  /\ Prepared(new, {j \in Keys : rt[j].set})
           /\ \A k \in Keys : ~new[k].set /\ RouteOf(new[k], k) = RouteOf(rt[k], k)
<1>1. ASSUME NEW k \in Keys
      PROVE  /\ new[k] \in EntryRecords /\ new[k].seq \in {0, rt[k].seq}
             /\ new[k].seq # 0 => new[k].in_processing
             /\ new[k].in_processing \/ new[k].set \/ rt[k].set => new[k].used
             /\ ~new[k].set /\ RouteOf(new[k], k) = RouteOf(rt[k], k)
  <2>1. /\ rt[k] \in EntryRecords
        /\ rt[k].seq # 0 => rt[k].in_processing
        /\ rt[k].in_processing \/ rt[k].set => rt[k].used
    BY DEF Typed, Consistent
  <2>2. CASE rt[k].set
    <3> DEFINE r == [rt[k] EXCEPT !.set = FALSE]
    <3>1. /\ r \in EntryRecords /\ r.seq = rt[k].seq /\ r.in_processing = rt[k].in_processing
          /\ r.used = rt[k].used /\ r.set = FALSE /\ RouteOf(r, k) = RouteOf(rt[k], k)
      BY <2>1 DEF EntryRecords, RouteOf
    <3>2. new[k] = os_routing_linux_interrupt(r)
      BY <2>2 DEF TakeBack
    <3> HIDE DEF r
    <3> QED BY <2>1, <2>2, <3>1, <3>2, Interrupted
  <2>3. CASE ~rt[k].set
    BY <2>1, <2>3
  <2> QED BY <2>2, <2>3
<1> QED BY <1>1 DEF Prepared, Consistent

(* Shutdown: all requests are given up, but their entries stay in          *)
(* processing.                                                             *)
LEMMA Shutdown ==
    ASSUME Typed, Consistent(rt), NEW new,
           new = [k \in Keys |-> [rt[k] EXCEPT !.seq = 0, !.set = FALSE]]
    PROVE  /\ Prepared(new, {j \in Keys : rt[j].set})
           /\ \A k \in Keys : ~new[k].set /\ RouteOf(new[k], k) = RouteOf(rt[k], k)
<1>1. ASSUME NEW k \in Keys
      PROVE  /\ new[k] \in EntryRecords /\ new[k].seq = 0
             /\ new[k].in_processing \/ new[k].set \/ rt[k].set => new[k].used
             /\ ~new[k].set /\ RouteOf(new[k], k) = RouteOf(rt[k], k)
  <2>1. /\ rt[k] \in EntryRecords
        /\ rt[k].in_processing \/ rt[k].set => rt[k].used
    BY DEF Typed, Consistent
  <2> QED BY <2>1 DEF EntryRecords, RouteOf
<1> QED BY <1>1 DEF Prepared, Consistent
-----------------------------------------------------------------------------
(* What the other steps do to the requests under way.                      *)

(* The page that is sent next is not empty.                                *)
LEMMA Page ==
    ASSUME Typed, nl.queue # <<>>, NEW page, page = _enqueue_netlink_buffer(nl)
    PROVE  /\ nl.queue \in Seq(RequestRecords) /\ Len(page) \in 1 .. Len(nl.queue)
           /\ page = SubSeq(nl.queue, 1, Len(page)) /\ page \in Seq(RequestRecords)
           /\ SubSeq(nl.queue, Len(page) + 1, Len(nl.queue)) \in Seq(RequestRecords)
           /\ AfterPage(nl) \in SocketRecords
           /\ AfterPage(nl).queue = SubSeq(nl.queue, Len(page) + 1, Len(nl.queue))
<1> DEFINE n == IF Len(nl.queue) > PageSize THEN PageSize ELSE Len(nl.queue)
<1>1. /\ nl \in SocketRecords /\ nl.queue \in Seq(RequestRecords)
      /\ Len(nl.queue) \in Nat \ {0} /\ PageSize \in Nat \ {0}
  BY RoutingAssumption, EmptySeq DEF Typed, SocketRecords
<1>2. n \in 1 .. Len(nl.queue)
  BY <1>1
<1>3. page = SubSeq(nl.queue, 1, n)
  BY DEF _enqueue_netlink_buffer
<1> HIDE DEF n
<1>4. \A i \in 1 .. Len(nl.queue) : nl.queue[i] \in RequestRecords
  BY <1>1
<1>5. page \in Seq(RequestRecords) /\ Len(page) = n
  BY <1>2, <1>3, <1>4, SubSeqProperties
<1>6. SubSeq(nl.queue, n + 1, Len(nl.queue)) \in Seq(RequestRecords)
  BY <1>1, <1>2, <1>4, SubSeqProperties
<1>7. AfterPage(nl) = [nl EXCEPT !.queue = SubSeq(nl.queue, n + 1, Len(nl.queue)),
                                 !.write = Len(SubSeq(nl.queue, n + 1, Len(nl.queue))) > PageSize]
  BY <1>5 DEF AfterPage
<1> DEFINE rest == SubSeq(nl.queue, n + 1, Len(nl.queue))
           w == Len(rest) > PageSize
<1>8. rest \in Seq(RequestRecords) /\ w \in BOOLEAN /\ AfterPage(nl) = [nl EXCEPT !.queue = rest, !.write = w]
  BY <1>6, <1>7
<1> HIDE DEF rest, w
<1>9. AfterPage(nl) \in SocketRecords /\ AfterPage(nl).queue = rest
  <2> DEFINE Q == Seq(RequestRecords)
  <2>1. nl \in [queue : Q, msg_in_transit : Nat, write : BOOLEAN, timeout : BOOLEAN] /\ rest \in Q
    BY <1>1, <1>8 DEF SocketRecords
  <2> HIDE DEF Q
  <2> QED BY <1>8, <2>1 DEF SocketRecords, Q
<1> QED BY <1>1, <1>2, <1>3, <1>5, <1>6, <1>9 DEF rest

(* Appending requests is associative.                                      *)
LEMMA Associated ==
    \A s, q, r \in Seq(RequestRecords) : (s \o q) \o r = s \o (q \o r)
  BY ConcatAssociative

(* A page that is sent moves from one list to the other.                   *)
LEMMA Flushed ==
    ASSUME Typed, _flush_netlink_buffer
    PROVE  Waiting' = Waiting /\ sent' \in Seq(RequestRecords) /\ nl' \in SocketRecords
<1> DEFINE page == _enqueue_netlink_buffer(nl)
           rest == SubSeq(nl.queue, Len(page) + 1, Len(nl.queue))
<1>1. /\ nl.queue \in Seq(RequestRecords) /\ Len(page) \in 1 .. Len(nl.queue)
      /\ page = SubSeq(nl.queue, 1, Len(page)) /\ page \in Seq(RequestRecords)
      /\ rest \in Seq(RequestRecords) /\ AfterPage(nl) \in SocketRecords
      /\ AfterPage(nl).queue = rest
  BY Page DEF _flush_netlink_buffer
<1>2. /\ sent' = sent \o page
      /\ nl' = [AfterPage(nl) EXCEPT !.msg_in_transit = Len(page), !.timeout = TRUE]
  BY DEF _flush_netlink_buffer
<1>3. nl.queue = page \o rest
  BY <1>1, ConcatAdjacentSubSeq, SubSeqFull
<1> HIDE DEF page, rest
<1>4. nl' \in SocketRecords /\ nl'.queue = rest
  <2> DEFINE t == AfterPage(nl)
             Q == Seq(RequestRecords)
  <2>1. /\ t \in [queue : Q, msg_in_transit : Nat, write : BOOLEAN, timeout : BOOLEAN]
        /\ t.queue = rest /\ Len(page) \in Nat
        /\ nl' = [t EXCEPT !.msg_in_transit = Len(page), !.timeout = TRUE]
    BY <1>1, <1>2 DEF SocketRecords
  <2> HIDE DEF t, Q
  <2> QED BY <2>1 DEF SocketRecords, Q
<1>5. sent \in Seq(RequestRecords)
  BY DEF Typed
<1>6. (sent \o page) \o rest = sent \o (page \o rest)
  BY <1>1, <1>5, Associated, Zenon
<1>7. Waiting' = (sent \o page) \o rest
  BY <1>2, <1>4 DEF Waiting
<1>8. sent \o page \in Seq(RequestRecords)
  BY <1>1, <1>5
<1> QED BY <1>2, <1>3, <1>4, <1>6, <1>7, <1>8 DEF Waiting
(* t is w without the n elements behind the first a; Place says where an   *)
(* element of t was in w.                                                  *)
Place(i, a, n) == IF i <= a THEN i ELSE i + n
Without(w, t, a, n) ==
    /\ a \in Nat /\ n \in Nat /\ a + n <= Len(w) /\ Len(t) = Len(w) - n
    /\ \A i \in 1 .. Len(t) : t[i] = w[Place(i, a, n)]

(* What is left behind a dropped page follows what was sent before.        *)
LEMMA PageDropped ==
    ASSUME NEW S, NEW s \in Seq(S), NEW q \in Seq(S), NEW n \in 0 .. Len(q), NEW rest,
           rest = SubSeq(q, n + 1, Len(q))
    PROVE  /\ rest \in Seq(S) /\ s \o rest \in Seq(S)
           /\ Without(s \o q, s \o rest, Len(s), n)
           /\ \A i \in Len(s) + 1 .. Len(s) + n : (s \o q)[i] = q[i - Len(s)]
<1>1. \A i \in n + 1 .. Len(q) : q[i] \in S
  OBVIOUS
<1>2. /\ rest \in Seq(S) /\ Len(rest) = Len(q) - n
      /\ \A i \in 1 .. Len(rest) : rest[i] = q[n + i]
  BY <1>1, SubSeqProperties
<1>3. /\ s \o rest \in Seq(S) /\ Len(s \o rest) = Len(s) + Len(rest)
      /\ \A i \in 1 .. Len(s \o rest) : (s \o rest)[i] = IF i <= Len(s) THEN s[i] ELSE rest[i - Len(s)]
  BY <1>2, ConcatProperties
<1>4. /\ Len(s \o q) = Len(s) + Len(q)
      /\ \A i \in 1 .. Len(s) + Len(q) : (s \o q)[i] = IF i <= Len(s) THEN s[i] ELSE q[i - Len(s)]
  BY ConcatProperties
<1>5. \A i \in 1 .. Len(s \o rest) : (s \o rest)[i] = (s \o q)[IF i <= Len(s) THEN i ELSE i + n]
  <2> TAKE i \in 1 .. Len(s \o rest)
  <2>1. CASE i <= Len(s)
    BY <1>2, <1>3, <1>4, <2>1
  <2>2. CASE i > Len(s)
    <3>1. i - Len(s) \in 1 .. Len(rest) /\ i + n \in 1 .. Len(s) + Len(q) /\ i + n > Len(s)
      BY <1>2, <1>3, <2>2
    <3>2. (s \o rest)[i] = q[n + (i - Len(s))]
      BY <1>2, <1>3, <2>2, <3>1
    <3>3. (s \o q)[i + n] = q[(i + n) - Len(s)]
      BY <1>4, <3>1
    <3> QED BY <2>2, <3>2, <3>3
  <2> QED BY <2>1, <2>2
<1>6. Len(s) \in Nat /\ Len(q) \in Nat
  OBVIOUS
<1>7. \A i \in Len(s) + 1 .. Len(s) + n : (s \o q)[i] = q[i - Len(s)]
  BY <1>4, <1>6
<1>8. Without(s \o q, s \o rest, Len(s), n)
  <2> DEFINE w == s \o q  t == s \o rest
  <2>1. /\ Len(w) = Len(s) + Len(q) /\ Len(t) = Len(s) + (Len(q) - n)
        /\ \A i \in 1 .. Len(t) : t[i] = w[IF i <= Len(s) THEN i ELSE i + n]
    BY <1>2, <1>3, <1>4, <1>5
  <2> HIDE DEF w, t
  <2>2. Without(w, t, Len(s), n)
    BY <1>6, <2>1 DEF Without, Place
  <2> QED BY <2>2 DEF w, t
<1> QED BY <1>2, <1>3, <1>7, <1>8

(* Reading the head of a sequence.                                         *)
LEMMA HeadTaken ==
    ASSUME NEW S, NEW s \in Seq(S), NEW q \in Seq(S), s # <<>>
    PROVE  /\ Tail(s) \in Seq(S) /\ s \o q \in Seq(S) /\ Head(s) \in S
           /\ Tail(s) \o q = Tail(s \o q)
           /\ Without(s \o q, Tail(s) \o q, 0, 1)
<1>1. Len(s) \in Nat \ {0} /\ Len(q) \in Nat
  BY EmptySeq
<1>2. /\ Tail(s) \in Seq(S) /\ Len(Tail(s)) = Len(s) - 1 /\ Head(s) \in S /\ Head(s) = s[1]
      /\ \A i \in 1 .. Len(s) - 1 : Tail(s)[i] = s[i + 1]
  BY HeadTailProperties
<1> DEFINE w == s \o q  t == Tail(s) \o q
<1>3. /\ w \in Seq(S) /\ Len(w) = Len(s) + Len(q)
      /\ \A i \in 1 .. Len(s) + Len(q) : w[i] = IF i <= Len(s) THEN s[i] ELSE q[i - Len(s)]
  BY ConcatProperties
<1>4. /\ t \in Seq(S) /\ Len(t) = Len(s) - 1 + Len(q)
      /\ \A i \in 1 .. Len(s) - 1 + Len(q) : t[i] = IF i <= Len(s) - 1 THEN Tail(s)[i] ELSE q[i - (Len(s) - 1)]
  BY <1>2, ConcatProperties
<1> HIDE DEF w, t
<1>5. \A i \in 1 .. Len(t) : t[i] = w[i + 1]
  <2> TAKE i \in 1 .. Len(t)
  <2>1. i + 1 \in 1 .. Len(s) + Len(q)
    BY <1>1, <1>4
  <2>2. CASE i <= Len(s) - 1
    BY <1>1, <1>2, <1>3, <1>4, <2>1, <2>2
  <2>3. CASE i > Len(s) - 1
    <3>1. t[i] = q[i - (Len(s) - 1)]
      BY <1>1, <1>4, <2>3
    <3>2. w[i + 1] = q[(i + 1) - Len(s)]
      BY <1>1, <1>3, <2>1, <2>3
    <3> QED BY <1>1, <3>1, <3>2
  <2> QED BY <1>1, <2>2, <2>3
<1>6. w # <<>> /\ 1 \in DOMAIN w /\ Head(s) = w[1]
  BY <1>1, <1>2, <1>3
<1>7. /\ Tail(w) \in Seq(S) /\ Len(Tail(w)) = Len(w) - 1
      /\ \A i \in 1 .. Len(Tail(w)) : Tail(w)[i] = w[i + 1]
  BY <1>3, <1>6, HeadTailProperties
<1>8. t = Tail(w)
  BY <1>1, <1>3, <1>4, <1>5, <1>7, SeqEqual
<1>9. Without(w, t, 0, 1)
  BY <1>1, <1>3, <1>4, <1>5 DEF Without, Place
<1> QED BY <1>2, <1>3, <1>6, <1>8, <1>9 DEF w, t
(* A page that could not be sent is lost, and its keys are known.          *)
LEMMA PageLost ==
    ASSUME Typed, FlushFails
    PROVE  /\ nl' \in SocketRecords
           /\ \E n \in 1 .. Len(Waiting) :
                 /\ Without(Waiting, Waiting', Len(sent), n)
                 /\ \A i \in Len(sent) + 1 .. Len(sent) + n : Waiting[i].route.key \in astray'
<1> DEFINE page == _enqueue_netlink_buffer(nl)
           n == Len(page)
           rest == SubSeq(nl.queue, n + 1, Len(nl.queue))
<1>1. /\ nl.queue \in Seq(RequestRecords) /\ n \in 1 .. Len(nl.queue)
      /\ page = SubSeq(nl.queue, 1, n) /\ page \in Seq(RequestRecords)
      /\ AfterPage(nl) \in SocketRecords /\ AfterPage(nl).queue = rest
  BY Page DEF FlushFails
<1>2. nl' = AfterPage(nl) /\ sent' = sent /\ astray' = astray \cup {r.route.key : r \in ToSet(page)}
  BY DEF FlushFails
<1>3. sent \in Seq(RequestRecords) /\ Len(nl.queue) \in Nat
  BY <1>1 DEF Typed
<1>4. \A i \in 1 .. n : page[i] = nl.queue[i] /\ page[i] \in ToSet(page)
  <2>1. \A i \in 1 .. Len(nl.queue) : nl.queue[i] \in RequestRecords
    BY <1>1
  <2>2. \A i \in 1 .. n : SubSeq(nl.queue, 1, n)[i] = nl.queue[i]
    BY <1>1, <1>3, <2>1, SubSeqProperties
  <2>3. \A i \in 1 .. n : page[i] = nl.queue[i]
    BY <1>1, <2>2
  <2>4. DOMAIN page = 1 .. n
    BY <1>1
  <2> QED BY <2>3, <2>4 DEF ToSet
<1> HIDE DEF page, n
<1>5. Waiting' = sent \o rest /\ Waiting = sent \o nl.queue
  BY <1>1, <1>2 DEF Waiting
<1>6. /\ Without(Waiting, Waiting', Len(sent), n)
      /\ \A i \in Len(sent) + 1 .. Len(sent) + n : Waiting[i] = nl.queue[i - Len(sent)]
  <2> DEFINE q == nl.queue
  <2>1. q \in Seq(RequestRecords) /\ n \in 0 .. Len(q) /\ rest = SubSeq(q, n + 1, Len(q))
    BY <1>1, <1>3
  <2> HIDE DEF q, rest
  <2>2. /\ Without(sent \o q, sent \o rest, Len(sent), n)
        /\ \A i \in Len(sent) + 1 .. Len(sent) + n : (sent \o q)[i] = q[i - Len(sent)]
    BY <1>3, <2>1, PageDropped, Zenon
  <2> QED BY <1>5, <2>2 DEF q
<1>7. ASSUME NEW i \in Len(sent) + 1 .. Len(sent) + n PROVE Waiting[i].route.key \in astray'
  <2>1. i - Len(sent) \in 1 .. n
    BY <1>1, <1>3
  <2>2. Waiting[i] \in ToSet(page)
    BY <1>4, <1>6, <2>1
  <2> QED BY <1>2, <2>2
<1>8. n \in 1 .. Len(Waiting)
  BY <1>1, <1>3, <1>6 DEF Without, Place
<1> QED BY <1>1, <1>2, <1>6, <1>7, <1>8

(* Closing the socket loses what was not sent.                             *)
LEMMA SocketClosed ==
    ASSUME Typed, olsrv2_routing_cleanup
    PROVE  /\ nl' \in SocketRecords /\ Waiting' = sent
           /\ \E n \in 0 .. Len(Waiting) :
                 /\ Without(Waiting, Waiting', Len(sent), n)
                 /\ \A i \in Len(sent) + 1 .. Len(sent) + n : Waiting[i].route.key \in astray'
<1> DEFINE n == Len(nl.queue)
           rest == SubSeq(nl.queue, n + 1, n)
<1>1. nl.queue \in Seq(RequestRecords) /\ n \in Nat /\ sent \in Seq(RequestRecords)
  BY DEF Typed, SocketRecords
<1>2. rest = <<>>
  BY <1>1
<1>3. /\ nl' = NoSocket /\ sent' = sent
      /\ astray' = astray \cup {r.route.key : r \in ToSet(nl.queue)}
  BY DEF olsrv2_routing_cleanup
<1>4. nl' \in SocketRecords /\ nl'.queue = <<>>
  BY <1>3 DEF NoSocket, SocketRecords
<1>5. Waiting' = sent \o rest /\ Waiting = sent \o nl.queue /\ sent \o rest = sent
  BY <1>1, <1>2, <1>3, <1>4 DEF Waiting
<1>6. /\ Without(Waiting, Waiting', Len(sent), n)
      /\ \A i \in Len(sent) + 1 .. Len(sent) + n : Waiting[i] = nl.queue[i - Len(sent)]
  <2> DEFINE q == nl.queue
  <2>1. q \in Seq(RequestRecords) /\ n \in 0 .. Len(q) /\ rest = SubSeq(q, n + 1, Len(q))
    BY <1>1
  <2> HIDE DEF q, rest, n
  <2>2. /\ Without(sent \o q, sent \o rest, Len(sent), n)
        /\ \A i \in Len(sent) + 1 .. Len(sent) + n : (sent \o q)[i] = q[i - Len(sent)]
    BY <1>1, <2>1, PageDropped, Zenon
  <2> QED BY <1>5, <2>2 DEF q
<1>7. ASSUME NEW i \in Len(sent) + 1 .. Len(sent) + n PROVE Waiting[i].route.key \in astray'
  <2>1. i - Len(sent) \in 1 .. n
    BY <1>1
  <2>2. Waiting[i] \in ToSet(nl.queue)
    BY <1>1, <1>6, <2>1 DEF ToSet
  <2> QED BY <1>3, <2>2
<1>8. n \in 0 .. Len(Waiting)
  BY <1>1, <1>6 DEF Without, Place
<1> QED BY <1>4, <1>5, <1>6, <1>7, <1>8

(* The kernel reads the first request.                                     *)
LEMMA RequestTaken ==
    ASSUME Typed, NEW result, KernelAnswers(result)
    PROVE  /\ Waiting \in Seq(RequestRecords) /\ Waiting # <<>> /\ sent' \in Seq(RequestRecords)
           /\ Waiting' = Tail(Waiting) /\ Head(sent) = Waiting[1] /\ 1 \in DOMAIN Waiting
           /\ Without(Waiting, Waiting', 0, 1)
<1>1. nl.queue \in Seq(RequestRecords) /\ sent \in Seq(RequestRecords)
  BY DEF Typed, SocketRecords
<1>2. sent # <<>> /\ sent' = Tail(sent) /\ nl' = nl
  BY DEF KernelAnswers
<1> DEFINE q == nl.queue
<1>3. q \in Seq(RequestRecords) /\ Waiting = sent \o q /\ Waiting' = Tail(sent) \o q
  BY <1>1, <1>2 DEF Waiting
<1> HIDE DEF q
<1>4. q \in Seq(RequestRecords) /\ sent \in Seq(RequestRecords) /\ sent # <<>>
  BY <1>1, <1>2, <1>3
<1>5. Without(sent \o q, Tail(sent) \o q, 0, 1)
  BY <1>4, HeadTaken, Zenon
<1>6. Tail(sent) \o q = Tail(sent \o q)
  BY <1>4, HeadTaken, Zenon
<1>7. Tail(sent) \in Seq(RequestRecords) /\ sent \o q \in Seq(RequestRecords)
  BY <1>4
<1>8. sent \o q # <<>> /\ Head(sent) = (sent \o q)[1] /\ 1 \in DOMAIN (sent \o q)
  <2>1. Len(sent) \in Nat \ {0} /\ Len(q) \in Nat
    BY <1>4, EmptySeq
  <2> QED BY <1>4, <2>1
<1> QED BY <1>2, <1>3, <1>5, <1>6, <1>7, <1>8

(* An answer, or the end of waiting for it, keeps an entry an entry; a     *)
(* request that is given up or answered has no number any more.            *)
LEMMA Finished ==
    ASSUME NEW r \in EntryRecords, NEW result \in Results
    PROVE  LET t == _routing_finished(r, result)
           IN  /\ t \in EntryRecords /\ t.seq = 0 /\ ~t.in_processing
               /\ t.used \/ ~t.set \/ ~r.used
<1>1. NoEntry \in EntryRecords
  BY DEF NoEntry, EntryRecords, Hops, Directs
<1> DEFINE q == [r EXCEPT !.seq = 0]
<1>2. q \in EntryRecords /\ q.seq = 0 /\ q.used = r.used
  BY DEF EntryRecords
<1> HIDE DEF q
<1>3. \/ _routing_finished(r, result) = [q EXCEPT !.in_processing = FALSE]
      \/ _routing_finished(r, result) = NoEntry
      \/ _routing_finished(r, result) = [q EXCEPT !.in_processing = FALSE, !.set = TRUE]
  BY DEF _routing_finished, _cb_route_finished, _remove_entry, q, Results
<1>4. CASE _routing_finished(r, result) = [q EXCEPT !.in_processing = FALSE]
  BY <1>2, <1>4 DEF EntryRecords
<1>5. CASE _routing_finished(r, result) = NoEntry
  BY <1>1, <1>5 DEF NoEntry
<1>6. CASE _routing_finished(r, result) = [q EXCEPT !.in_processing = FALSE, !.set = TRUE]
  BY <1>2, <1>6 DEF EntryRecords
<1> QED BY <1>3, <1>4, <1>5, <1>6
(* What is left when a piece of a sequence is taken away keeps its order.  *)
KeepsOrder(w, t, a, n) ==
    /\ \A i \in DOMAIN t : Place(i, a, n) \in DOMAIN w /\ t[i] = w[Place(i, a, n)]
    /\ \A i, j \in DOMAIN t : i < j <=> Place(i, a, n) < Place(j, a, n)
    /\ \A i, j \in DOMAIN t : Place(i, a, n) = Place(j, a, n) => i = j
    /\ \A m \in DOMAIN w : m \in a + 1 .. a + n \/ \E i \in DOMAIN t : m = Place(i, a, n)

(* Without says so.                                                        *)
LEMMA Kept ==
    ASSUME NEW S, NEW w \in Seq(S), NEW t, NEW a, NEW n, Without(w, t, a, n),
           DOMAIN t = 1 .. Len(t)
    PROVE  KeepsOrder(w, t, a, n)
<1>1. /\ Len(w) \in Nat /\ DOMAIN w = 1 .. Len(w)
      /\ a \in Nat /\ n \in Nat /\ a + n <= Len(w) /\ Len(t) = Len(w) - n
      /\ \A i \in 1 .. Len(t) : t[i] = w[Place(i, a, n)]
  BY DEF Without
<1>2. \A i \in DOMAIN t : Place(i, a, n) \in DOMAIN w /\ t[i] = w[Place(i, a, n)]
  BY <1>1 DEF Place
<1>3. \A i, j \in DOMAIN t : i < j <=> Place(i, a, n) < Place(j, a, n)
  BY <1>1 DEF Place
<1>4. \A i, j \in DOMAIN t : Place(i, a, n) = Place(j, a, n) => i = j
  BY <1>1 DEF Place
<1>5. ASSUME NEW m \in DOMAIN w, m \notin a + 1 .. a + n
      PROVE  \E i \in DOMAIN t : m = Place(i, a, n)
  <2>1. CASE m <= a
    BY <1>1, <2>1 DEF Place
  <2>2. CASE m > a + n
    <3>1. m - n \in DOMAIN t /\ m = Place(m - n, a, n)
      BY <1>1, <2>2 DEF Place
    <3> QED BY <3>1
  <2> QED BY <1>1, <1>5, <2>1, <2>2
<1> QED BY <1>2, <1>3, <1>4, <1>5 DEF KeepsOrder

(* Nothing, the first element or everything may be taken away.             *)
LEMMA TakenAway ==
    ASSUME NEW S, NEW w \in Seq(S)
    PROVE  /\ Without(w, w, 0, 0)
           /\ Without(w, <<>>, 0, Len(w))
           /\ w # <<>> => Without(w, Tail(w), 0, 1)
<1>1. Len(w) \in Nat /\ (w # <<>> => Len(w) # 0)
  BY EmptySeq
<1>2. Without(w, w, 0, 0) /\ Without(w, <<>>, 0, Len(w))
  BY <1>1 DEF Without, Place
<1>3. ASSUME w # <<>> PROVE Without(w, Tail(w), 0, 1)
  <2>1. /\ Len(Tail(w)) = Len(w) - 1
        /\ \A i \in 1 .. Len(Tail(w)) : Tail(w)[i] = w[i + 1]
    BY <1>3, HeadTailProperties
  <2> QED BY <1>1, <1>3, <2>1 DEF Without, Place
<1> QED BY <1>2, <1>3

-----------------------------------------------------------------------------
(* Numbers of requests.                                                    *)

(* Every number is used once among the requests and answers under way, a   *)
(* number in the feedback tree belongs to one entry that is in processing, *)
(* and a request with that number is for this entry.                       *)
Numbers ==
    /\ \A i, j \in DOMAIN Waiting : Waiting[i].seq = Waiting[j].seq => i = j
    /\ \A i, j \in DOMAIN answers : answers[i].seq = answers[j].seq => i = j
    /\ \A i \in DOMAIN Waiting, j \in DOMAIN answers : Waiting[i].seq # answers[j].seq
    /\ Consistent(rt)
    /\ \A j, k \in Keys : rt[k].seq # 0 /\ rt[j].seq = rt[k].seq => j = k
    /\ \A k \in Keys, i \in DOMAIN Waiting : Waiting[i].seq = rt[k].seq => Waiting[i].route.key = k

(* The requests under way are a sequence of requests.                      *)
LEMMA WaitingTyped ==
    Typed => Waiting \in Seq(RequestRecords) /\ DOMAIN Waiting = 1 .. Len(Waiting)
  BY DEF Typed, SocketRecords, Waiting

(* The same after a step.                                                  *)
LEMMA WaitingTypedNext ==
    Typed' => Waiting' \in Seq(RequestRecords) /\ DOMAIN Waiting' = 1 .. Len(Waiting')
  BY DEF Typed, SocketRecords, Waiting

(* Taking requests and answers away and giving up numbers keeps Numbers.   *)
LEMMA NumbersLess ==
    ASSUME Typed, Typed', Numbers, Consistent(rt'),
           NEW a, NEW n, Without(Waiting, Waiting', a, n),
           NEW b, NEW m, Without(answers, answers', b, m),
           \A k \in Keys : rt'[k].seq \in {0, rt[k].seq}
    PROVE  Numbers'
<1>1. KeepsOrder(Waiting, Waiting', a, n)
  BY WaitingTyped, WaitingTypedNext, Kept, Zenon
<1>2. KeepsOrder(answers, answers', b, m)
  <2>1. answers \in Seq(AnswerRecords) /\ DOMAIN answers' = 1 .. Len(answers')
    BY DEF Typed
  <2> QED BY <2>1, Kept, Zenon
<1>3. \A i \in DOMAIN Waiting' : Waiting'[i].seq # 0
  <2> TAKE i \in DOMAIN Waiting'
  <2>1. Waiting'[i] \in RequestRecords
    BY WaitingTypedNext
  <2> QED BY <2>1, RoutingAssumption DEF RequestRecords
<1>4. \A i, j \in DOMAIN Waiting' : Waiting'[i].seq = Waiting'[j].seq => i = j
  BY <1>1 DEF Numbers, KeepsOrder
<1>5. \A i, j \in DOMAIN answers' : answers'[i].seq = answers'[j].seq => i = j
  BY <1>2 DEF Numbers, KeepsOrder
<1>6. \A i \in DOMAIN Waiting', j \in DOMAIN answers' : Waiting'[i].seq # answers'[j].seq
  BY <1>1, <1>2 DEF Numbers, KeepsOrder
<1>7. \A j, k \in Keys : rt'[k].seq # 0 /\ rt'[j].seq = rt'[k].seq => j = k
  BY DEF Numbers
<1>8. \A k \in Keys, i \in DOMAIN Waiting' : Waiting'[i].seq = rt'[k].seq => Waiting'[i].route.key = k
  BY <1>1, <1>3 DEF Numbers, KeepsOrder
<1> QED BY <1>4, <1>5, <1>6, <1>7, <1>8 DEF Numbers
(* New requests follow all that are under way.                             *)
LEMMA Appended ==
    ASSUME Typed, NEW reqs \in Seq(RequestRecords), sent' = sent, nl'.queue = nl.queue \o reqs
    PROVE  /\ Waiting' = Waiting \o reqs
           /\ \A i \in DOMAIN Waiting' :
                 \/ i \in DOMAIN Waiting /\ Waiting'[i] = Waiting[i]
                 \/ i - Len(Waiting) \in DOMAIN reqs /\ Waiting'[i] = reqs[i - Len(Waiting)]
<1>1. Waiting \in Seq(RequestRecords) /\ sent \in Seq(RequestRecords) /\ nl.queue \in Seq(RequestRecords)
  BY DEF Typed, SocketRecords, Waiting
<1>2. Waiting' = sent \o (nl.queue \o reqs)
  BY DEF Waiting
<1> DEFINE q == nl.queue
<1> HIDE DEF q
<1>3. (sent \o q) \o reqs = sent \o (q \o reqs)
  <2>1. q \in Seq(RequestRecords)
    BY <1>1 DEF q
  <2>2. sent \in Seq(RequestRecords) /\ reqs \in Seq(RequestRecords)
    BY <1>1
  <2> QED BY <2>1, <2>2, Associated, Zenon
<1>4. Waiting' = Waiting \o reqs
  BY <1>2, <1>3 DEF q, Waiting
<1> DEFINE w == Waiting  t == Waiting \o reqs
<1> HIDE DEF w
<1>5. /\ w \in Seq(RequestRecords) /\ Len(w) \in Nat /\ Len(reqs) \in Nat
      /\ DOMAIN w = 1 .. Len(w) /\ DOMAIN reqs = 1 .. Len(reqs)
  BY <1>1 DEF w
<1>6. \A i \in DOMAIN (w \o reqs) :
                 \/ i \in DOMAIN w /\ (w \o reqs)[i] = w[i]
                 \/ i - Len(w) \in DOMAIN reqs /\ (w \o reqs)[i] = reqs[i - Len(w)]
  BY <1>5
<1> QED BY <1>4, <1>6 DEF w

(* New requests have new numbers.                                          *)
LEMMA NumbersMore ==
    ASSUME Typed, Typed', Numbers, sent' = sent, answers' = answers,
           NEW entries, NEW queued, NEW mixed, NEW overtaken,
           Prepared(entries, queued), Processed(entries, queued, mixed, overtaken)
    PROVE  Numbers'
<1> DEFINE todo == Todo(entries, queued, mixed)
<1>1. PICK reqs \in Seq(RequestRecords) : Queued(entries, todo, reqs)
  BY DEF Processed
<1> DEFINE W == Waiting  V == Waiting'
<1>2. \A i \in DOMAIN V : \/ i \in DOMAIN W /\ V[i] = W[i]
                          \/ i - Len(W) \in DOMAIN reqs /\ V[i] = reqs[i - Len(W)]
  BY <1>1, Appended DEF Queued
<1>3. /\ \A i \in DOMAIN reqs :
            /\ reqs[i].route.key \in todo
            /\ rt'[reqs[i].route.key].seq = reqs[i].seq
            /\ \A k \in Keys : rt[k].seq # reqs[i].seq
            /\ \A j \in DOMAIN W : W[j].seq # reqs[i].seq
            /\ \A j \in DOMAIN answers : answers[j].seq # reqs[i].seq
      /\ \A i, j \in DOMAIN reqs : (reqs[i].route.key = reqs[j].route.key \/ reqs[i].seq = reqs[j].seq) => i = j
      /\ \A k \in todo : \E i \in DOMAIN reqs : reqs[i].route.key = k
  BY <1>1 DEF Queued
<1>4. /\ todo \in SUBSET Keys
      /\ \A k \in Keys \ todo : rt'[k].seq \in {0, rt[k].seq}
      /\ \A k \in todo : k \in queued
  BY DEF Processed, Prepared, Todo
<1>5. Len(W) \in Nat /\ DOMAIN W = 1 .. Len(W) /\ DOMAIN V \subseteq Nat
      /\ \A i \in DOMAIN V : V[i].seq # 0
  <2>1. W \in Seq(RequestRecords) /\ V \in Seq(RequestRecords)
    BY WaitingTyped, WaitingTypedNext
  <2>2. \A i \in DOMAIN V : V[i] \in RequestRecords
    BY <2>1
  <2>3. \A r \in RequestRecords : r.seq # 0
    BY RoutingAssumption DEF RequestRecords
  <2> QED BY <2>1, <2>2, <2>3
<1>6. Consistent(rt')
  BY DEF Processed, Prepared, Consistent, Todo
<1> HIDE DEF W, V, todo
<1>7. \A i, j \in DOMAIN V : V[i].seq = V[j].seq => i = j
  <2> SUFFICES ASSUME NEW i \in DOMAIN V, NEW j \in DOMAIN V, V[i].seq = V[j].seq PROVE i = j
    OBVIOUS
  <2>1. \A x, y \in DOMAIN W : W[x].seq = W[y].seq => x = y
    BY DEF Numbers, W
  <2>2. CASE i \in DOMAIN W /\ V[i] = W[i]
    BY <1>2, <1>3, <2>1, <2>2
  <2>3. CASE i - Len(W) \in DOMAIN reqs /\ V[i] = reqs[i - Len(W)]
    <3>1. j - Len(W) \in DOMAIN reqs /\ V[j] = reqs[j - Len(W)]
      BY <1>2, <1>3, <2>3
    <3>2. i - Len(W) = j - Len(W)
      BY <1>3, <2>3, <3>1
    <3> QED BY <1>5, <3>2
  <2> QED BY <1>2, <2>2, <2>3
<1>8. \A i \in DOMAIN V, j \in DOMAIN answers : V[i].seq # answers[j].seq
  <2>1. \A i \in DOMAIN W, j \in DOMAIN answers : W[i].seq # answers[j].seq
    BY DEF Numbers, W
  <2> QED BY <1>2, <1>3, <2>1
<1>9. \A j, k \in Keys : rt'[k].seq # 0 /\ rt'[j].seq = rt'[k].seq => j = k
  <2> SUFFICES ASSUME NEW j \in Keys, NEW k \in Keys, rt'[k].seq # 0, rt'[j].seq = rt'[k].seq PROVE j = k
    OBVIOUS
  <2>1. rt[k].seq # 0 /\ rt[j].seq = rt[k].seq => j = k
    BY DEF Numbers
  <2>2. CASE k \in todo
    BY <1>3, <1>4, <2>2
  <2>3. CASE k \notin todo
    BY <1>3, <1>4, <2>1, <2>3
  <2> QED BY <2>2, <2>3
<1>10. \A k \in Keys, i \in DOMAIN V : V[i].seq = rt'[k].seq => V[i].route.key = k
  <2> SUFFICES ASSUME NEW k \in Keys, NEW i \in DOMAIN V, V[i].seq = rt'[k].seq PROVE V[i].route.key = k
    OBVIOUS
  <2>1. \A x \in DOMAIN W : W[x].seq = rt[k].seq => W[x].route.key = k
    BY DEF Numbers, W
  <2>2. CASE i \in DOMAIN W /\ V[i] = W[i]
    BY <1>3, <1>4, <1>5, <2>1, <2>2
  <2>3. CASE i - Len(W) \in DOMAIN reqs /\ V[i] = reqs[i - Len(W)]
    BY <1>3, <1>4, <1>5, <1>9, <2>3
  <2> QED BY <1>2, <2>2, <2>3
<1> QED BY <1>6, <1>7, <1>8, <1>9, <1>10 DEF Numbers, V
(* The kernel's answer takes over the number of its request.               *)
LEMMA NumbersAnswered ==
    ASSUME Typed, Typed', Numbers, NEW result, KernelAnswers(result)
    PROVE  Numbers'
<1> DEFINE W == Waiting  V == Waiting'  r == Head(sent)
<1>1. rt' = rt /\ answers' = Append(answers, [seq |-> r.seq, result |-> result])
  BY DEF KernelAnswers
<1>2. /\ W \in Seq(RequestRecords) /\ r = W[1] /\ 1 \in DOMAIN W /\ Without(W, V, 0, 1)
  BY RequestTaken
<1>3. KeepsOrder(W, V, 0, 1)
  BY <1>2, WaitingTyped, WaitingTypedNext, Kept, Zenon
<1> HIDE DEF V, r
<1>4. /\ \A i \in DOMAIN V : i + 1 \in DOMAIN W /\ V[i] = W[i + 1] /\ i \in Nat \ {0}
  <2>1. DOMAIN V = 1 .. Len(V)
    BY WaitingTypedNext DEF V
  <2>2. \A i \in DOMAIN V : i \in Nat \ {0}
    BY <2>1
  <2>3. \A i \in DOMAIN V : Place(i, 0, 1) = i + 1
    BY <2>2 DEF Place
  <2> QED BY <1>3, <2>2, <2>3 DEF KeepsOrder
<1>5. /\ \A i, j \in DOMAIN W : W[i].seq = W[j].seq => i = j
      /\ \A i, j \in DOMAIN answers : answers[i].seq = answers[j].seq => i = j
      /\ \A i \in DOMAIN W, j \in DOMAIN answers : W[i].seq # answers[j].seq
      /\ \A k \in Keys, i \in DOMAIN W : W[i].seq = rt[k].seq => W[i].route.key = k
  BY DEF Numbers
<1> HIDE DEF W
<1>6. \A j \in DOMAIN answers' : \/ j \in DOMAIN answers /\ answers'[j] = answers[j]
                                 \/ j \notin DOMAIN answers /\ j = Len(answers) + 1 /\ answers'[j].seq = r.seq
  <2> DEFINE e == [seq |-> r.seq, result |-> result]
  <2>1. e.seq = r.seq
    OBVIOUS
  <2> HIDE DEF e
  <2>2. answers \in Seq(AnswerRecords) /\ answers' = Append(answers, e)
    BY <1>1 DEF Typed, e
  <2> QED BY <2>1, <2>2
<1>7. \A i, j \in DOMAIN V : V[i].seq = V[j].seq => i = j
  BY <1>4, <1>5
<1>8. \A i, j \in DOMAIN answers' : answers'[i].seq = answers'[j].seq => i = j
  BY <1>2, <1>5, <1>6
<1>9. \A i \in DOMAIN V, j \in DOMAIN answers' : V[i].seq # answers'[j].seq
  BY <1>2, <1>4, <1>5, <1>6
<1>10. \A k \in Keys, i \in DOMAIN V : V[i].seq = rt'[k].seq => V[i].route.key = k
  BY <1>1, <1>4, <1>5
<1> QED BY <1>1, <1>7, <1>8, <1>9, <1>10 DEF Numbers, V, Consistent

(* An answer ends the request of one entry.                                *)
LEMMA Answered ==
    ASSUME Typed, Consistent(rt), NEW a \in AnswerRecords
    PROVE  LET t == _cb_rtnetlink_done(a)
           IN  /\ t \in [Keys -> EntryRecords] /\ Consistent(t)
               /\ \A k \in Keys : t[k].seq \in {0, rt[k].seq}
<1> DEFINE t == _cb_rtnetlink_done(a)
<1>1. ASSUME NEW k \in Keys
      PROVE  /\ t[k] \in EntryRecords /\ t[k].seq \in {0, rt[k].seq}
             /\ t[k].seq # 0 => t[k].in_processing
             /\ t[k].in_processing \/ t[k].set => t[k].used
  <2>1. rt[k] \in EntryRecords /\ a.result \in Results
    BY DEF Typed, AnswerRecords
  <2>2. /\ rt[k].seq # 0 => rt[k].in_processing
        /\ rt[k].in_processing \/ rt[k].set => rt[k].used
    BY DEF Consistent
  <2>3. CASE rt[k].seq = a.seq
    <3>1. t[k] = _routing_finished(rt[k], a.result)
      BY <2>3 DEF _cb_rtnetlink_done
    <3>2. a.seq # 0
      BY RoutingAssumption DEF AnswerRecords
    <3> HIDE DEF t
    <3> QED BY <2>1, <2>2, <2>3, <3>1, <3>2, Finished
  <2>4. CASE rt[k].seq # a.seq
    BY <2>1, <2>2, <2>4 DEF _cb_rtnetlink_done
  <2> QED BY <2>3, <2>4
<1>2. t \in [Keys -> EntryRecords]
  BY <1>1 DEF _cb_rtnetlink_done
<1> QED BY <1>1, <1>2 DEF Consistent

(* The timeout ends all requests.                                          *)
LEMMA TimedOut ==
    ASSUME Typed, Consistent(rt)
    PROVE  LET t == _cb_rtnetlink_timeout
           IN  /\ t \in [Keys -> EntryRecords] /\ Consistent(t)
               /\ \A k \in Keys : /\ t[k].seq = 0 /\ t[k].set = rt[k].set
                                  /\ RouteOf(t[k], k) = RouteOf(rt[k], k)
<1> DEFINE t == _cb_rtnetlink_timeout
<1>1. ASSUME NEW k \in Keys
      PROVE  /\ t[k] \in EntryRecords /\ t[k].seq = 0 /\ t[k].set = rt[k].set
             /\ RouteOf(t[k], k) = RouteOf(rt[k], k)
             /\ t[k].in_processing \/ t[k].set => t[k].used
  <2>1. /\ rt[k] \in EntryRecords
        /\ rt[k].seq # 0 => rt[k].in_processing
        /\ rt[k].in_processing \/ rt[k].set => rt[k].used
    BY DEF Typed, Consistent
  <2>2. t[k] = os_routing_linux_interrupt(rt[k])
    BY DEF _cb_rtnetlink_timeout
  <2> HIDE DEF t
  <2> QED BY <2>1, <2>2, Interrupted
<1>2. t \in [Keys -> EntryRecords]
  BY <1>1 DEF _cb_rtnetlink_timeout
<1> QED BY <1>1, <1>2 DEF Consistent
(* A calculation, new parameters and shutdown queue prepared entries.      *)
LEMMA CalculationQueues ==
    ASSUME Typed, Consistent(rt), NEW nomem, NEW mixed, changed, olsrv2_routing_force_update(nomem, mixed),
           NEW new, new = Recalculated(RoutesOf[topo], nomem)
    PROVE  /\ Prepared(new, _process_dijkstra_result(new))
           /\ Processed(new, _process_dijkstra_result(new), mixed, Overtaken(new))
<1>1. Prepared(new, _process_dijkstra_result(new))
  BY Calculation
<1>2. _process_kernel_queue(new, _process_dijkstra_result(new), mixed, Overtaken(new))
  BY DEF olsrv2_routing_force_update
<1>3. new \in [Keys -> EntryRecords] /\ _process_dijkstra_result(new) \in SUBSET Keys
  BY <1>1 DEF Prepared
<1> QED BY <1>1, <1>2, <1>3, QueueStep

(* The entries that new parameters take back.                              *)
TakenBack == [k \in Keys |-> IF k \in {j \in Keys : rt[j].set} THEN TakeBack(rt[k]) ELSE rt[k]]

(* The entries at shutdown.                                                *)
GivenUp == [k \in Keys |-> [rt[k] EXCEPT !.seq = 0, !.set = FALSE]]

(* New parameters queue the routes that are set, if there are entries.     *)
LEMMA ParametersQueue ==
    ASSUME Typed, Consistent(rt), NEW t, olsrv2_routing_set_domain_parameter(t)
    PROVE  \/ UNCHANGED <<rt, nl, astray>> /\ \A k \in Keys : ~rt[k].used
           \/ /\ Prepared(TakenBack, {j \in Keys : rt[j].set})
              /\ Processed(TakenBack, {j \in Keys : rt[j].set}, {}, {})
<1> DEFINE mine == {j \in Keys : rt[j].set}  new == TakenBack
<1>1. Prepared(new, mine)
  BY NewParameters DEF TakenBack
<1>2. \/ UNCHANGED <<rt, nl, astray>> /\ \A k \in Keys : ~rt[k].used
      \/ _process_kernel_queue(new, mine, {}, {})
  BY DEF olsrv2_routing_set_domain_parameter, TakenBack
<1>3. new \in [Keys -> EntryRecords] /\ mine \in SUBSET Keys
  BY <1>1 DEF Prepared
<1> HIDE DEF mine, new
<1>4. ASSUME _process_kernel_queue(new, mine, {}, {}) PROVE Processed(new, mine, {}, {})
  BY <1>3, <1>4, QueueStep
<1> QED BY <1>1, <1>2, <1>4 DEF mine, new

(* Shutdown queues the routes that are set.                                *)
LEMMA ShutdownQueues ==
    ASSUME Typed, Consistent(rt), olsrv2_routing_initiate_shutdown
    PROVE  /\ Prepared(GivenUp, {j \in Keys : rt[j].set})
           /\ Processed(GivenUp, {j \in Keys : rt[j].set}, {}, {})
<1> DEFINE mine == {j \in Keys : rt[j].set}  new == GivenUp
<1>1. Prepared(new, mine)
  BY Shutdown, Zenon DEF GivenUp
<1>2. _process_kernel_queue(new, mine, {}, {})
  BY Zenon DEF olsrv2_routing_initiate_shutdown, GivenUp
<1>3. new \in [Keys -> EntryRecords] /\ mine \in SUBSET Keys
  BY <1>1 DEF Prepared
<1> HIDE DEF mine, new
<1>4. Processed(new, mine, {}, {})
  BY <1>2, <1>3, QueueStep
<1> QED BY <1>1, <1>4 DEF mine, new

(* Every step keeps the types and the numbers.                             *)
LEMMA NumbersStep == Typed /\ Numbers /\ [Next]_vars => Typed' /\ Numbers'
<1> SUFFICES ASSUME Typed, Numbers, [Next]_vars PROVE Typed' /\ Numbers'
  OBVIOUS
<1>0. Consistent(rt)
  BY DEF Numbers
<1>1. ASSUME UNCHANGED <<rt, nl, sent, answers>>, topo' \in Situations \cup {Nowhere}, param' \in Tables
      PROVE  Typed' /\ Numbers'
  BY <1>1 DEF Typed, Numbers, Waiting, Consistent
<1>2. ASSUME NEW entries, NEW queued, NEW mixed, NEW overtaken, UNCHANGED <<sent, answers, topo>>,
             param' \in Tables, Prepared(entries, queued), Processed(entries, queued, mixed, overtaken)
      PROVE  Typed' /\ Numbers'
  <2>1. Typed'
    BY <1>2 DEF Typed, Processed
  <2> QED BY <1>2, <2>1, NumbersMore
<1>3. ASSUME NEW top \in Situations, NEW advertised \in BOOLEAN,
             olsrv2_routing_domain_changed(top, advertised)
      PROVE  Typed' /\ Numbers'
  BY <1>1, <1>3 DEF olsrv2_routing_domain_changed, Typed
<1>4. CASE TimerFiresIdle
  BY <1>1, <1>4 DEF TimerFiresIdle, Typed
<1>5. CASE _cb_trigger_dijkstra
  <2>1. /\ UNCHANGED <<topo, param, sent, answers>>
        /\ \E nomem, mixed : olsrv2_routing_force_update(nomem, mixed)
    BY <1>5 DEF _cb_trigger_dijkstra
  <2>2. PICK nomem, mixed : olsrv2_routing_force_update(nomem, mixed)
    BY <2>1
  <2>3. CASE changed
    <3> DEFINE new == Recalculated(RoutesOf[topo], nomem)
    <3>1. /\ Prepared(new, _process_dijkstra_result(new))
          /\ Processed(new, _process_dijkstra_result(new), mixed, Overtaken(new))
      BY <1>0, <2>2, <2>3, CalculationQueues
    <3> HIDE DEF new
    <3> QED BY <1>2, <2>1, <3>1 DEF Typed
  <2>4. CASE ~changed
    BY <1>1, <2>1, <2>2, <2>4 DEF olsrv2_routing_force_update, Typed
  <2> QED BY <2>3, <2>4
<1>6. ASSUME NEW freeze \in BOOLEAN, olsrv2_routing_freeze_routes(freeze)
      PROVE  Typed' /\ Numbers'
  BY <1>1, <1>6 DEF olsrv2_routing_freeze_routes, Typed
<1>7. ASSUME NEW t \in Tables, olsrv2_routing_set_domain_parameter(t)
      PROVE  Typed' /\ Numbers'
  <2>1. UNCHANGED <<topo, sent, answers>> /\ param' \in Tables /\ topo \in Situations \cup {Nowhere}
    BY <1>7 DEF olsrv2_routing_set_domain_parameter, Typed
  <2> QED BY <1>0, <1>1, <1>2, <1>7, <2>1, ParametersQueue
<1>8. CASE olsrv2_routing_initiate_shutdown
  <2>1. UNCHANGED <<topo, sent, answers>> /\ param' \in Tables
    BY <1>8, Zenon DEF olsrv2_routing_initiate_shutdown, Typed
  <2> QED BY <1>0, <1>2, <1>8, <2>1, ShutdownQueues
<1>9. CASE olsrv2_routing_cleanup
  <2>1. /\ rt' = [k \in Keys |-> NoEntry] /\ answers' = <<>>
        /\ UNCHANGED <<topo, param, sent>>
    BY <1>9 DEF olsrv2_routing_cleanup, _remove_entry
  <2>2. nl' \in SocketRecords
    BY <1>9, SocketClosed
  <2>3. NoEntry \in EntryRecords
    BY DEF NoEntry, EntryRecords, Hops, Directs
  <2>4. rt' \in [Keys -> EntryRecords] /\ Consistent(rt') /\ \A k \in Keys : rt'[k].seq = 0
    BY <2>1, <2>3 DEF Consistent, NoEntry
  <2>5. Typed'
    BY <2>1, <2>2, <2>4 DEF Typed
  <2>6. PICK n : Without(Waiting, Waiting', Len(sent), n)
    BY <1>9, SocketClosed
  <2>7. Without(answers, answers', 0, Len(answers))
    BY <2>1, TakenAway DEF Typed
  <2> QED BY <2>4, <2>5, <2>6, <2>7, NumbersLess
<1>10. CASE FlushNothing
  <2>1. UNCHANGED <<topo, param, rt, sent, answers>> /\ nl' = [nl EXCEPT !.write = FALSE]
    BY <1>10 DEF FlushNothing, daemon
  <2>2. nl' \in SocketRecords /\ nl'.queue = nl.queue
    <3> DEFINE Q == Seq(RequestRecords)
    <3>1. nl \in [queue : Q, msg_in_transit : Nat, write : BOOLEAN, timeout : BOOLEAN]
      BY DEF Typed, SocketRecords
    <3> HIDE DEF Q
    <3> QED BY <2>1, <3>1 DEF SocketRecords, Q
  <2> QED BY <2>1, <2>2 DEF Typed, Numbers, Waiting, Consistent
<1>11. CASE _flush_netlink_buffer
  <2>1. UNCHANGED <<topo, param, rt, answers>>
    BY <1>11 DEF _flush_netlink_buffer, daemon
  <2>2. Waiting' = Waiting /\ sent' \in Seq(RequestRecords) /\ nl' \in SocketRecords
    BY <1>11, Flushed
  <2> QED BY <2>1, <2>2 DEF Typed, Numbers, Consistent
<1>12. CASE FlushFails
  <2>1. UNCHANGED <<topo, param, rt, sent, answers>>
    BY <1>12 DEF FlushFails, daemon
  <2>2. nl' \in SocketRecords
    BY <1>12, PageLost
  <2>3. PICK n : Without(Waiting, Waiting', Len(sent), n)
    BY <1>12, PageLost
  <2>4. Typed'
    BY <2>1, <2>2 DEF Typed
  <2>5. Without(answers, answers', 0, 0)
    BY <2>1, TakenAway DEF Typed
  <2> QED BY <1>0, <2>1, <2>3, <2>4, <2>5, NumbersLess
<1>13. CASE _netlink_handler
  <2> DEFINE a == Head(answers)
  <2>1. /\ UNCHANGED <<topo, param, sent>> /\ answers # <<>> /\ answers' = Tail(answers)
        /\ rt' = _cb_rtnetlink_done(a) /\ nl' = _netlink_job_finished(nl)
    BY <1>13 DEF _netlink_handler, _handle_nl_err, daemon
  <2>2. /\ answers \in Seq(AnswerRecords) /\ a \in AnswerRecords /\ answers' \in Seq(AnswerRecords)
    BY <2>1, HeadTailProperties DEF Typed
  <2> HIDE DEF a
  <2>3. /\ rt' \in [Keys -> EntryRecords] /\ Consistent(rt')
        /\ \A k \in Keys : rt'[k].seq \in {0, rt[k].seq}
    BY <1>0, <2>1, <2>2, Answered
  <2>4. nl' \in SocketRecords /\ nl'.queue = nl.queue
    <3> DEFINE Q == Seq(RequestRecords)
    <3>1. nl \in [queue : Q, msg_in_transit : Nat, write : BOOLEAN, timeout : BOOLEAN]
      BY DEF Typed, SocketRecords
    <3> DEFINE left == IF nl.msg_in_transit > 0 THEN nl.msg_in_transit - 1 ELSE 0
               wait == nl.timeout /\ left > 0
               more == nl.write \/ (left = 0 /\ nl.queue # <<>>)
    <3>2. left \in Nat /\ wait \in BOOLEAN /\ more \in BOOLEAN
      BY <3>1
    <3>3. nl' = [nl EXCEPT !.msg_in_transit = left, !.timeout = wait, !.write = more]
      BY <2>1 DEF _netlink_job_finished
    <3> HIDE DEF Q, left, wait, more
    <3> QED BY <3>1, <3>2, <3>3 DEF SocketRecords, Q
  <2>5. Typed'
    BY <2>1, <2>2, <2>3, <2>4 DEF Typed
  <2>6. Without(Waiting, Waiting', 0, 0)
    BY <2>1, <2>4, WaitingTyped, TakenAway DEF Waiting
  <2>7. Without(answers, answers', 0, 1)
    BY <2>1, <2>2, TakenAway
  <2> QED BY <2>3, <2>5, <2>6, <2>7, NumbersLess
<1>14. CASE _cb_handle_netlink_timeout
  <2>1. /\ UNCHANGED <<topo, param, sent, answers>>
        /\ rt' = _cb_rtnetlink_timeout /\ nl' = [nl EXCEPT !.msg_in_transit = 0, !.timeout = FALSE]
    BY <1>14 DEF _cb_handle_netlink_timeout, daemon
  <2>2. /\ rt' \in [Keys -> EntryRecords] /\ Consistent(rt')
        /\ \A k \in Keys : rt'[k].seq \in {0, rt[k].seq}
    BY <1>0, <2>1, TimedOut
  <2>3. nl' \in SocketRecords /\ nl'.queue = nl.queue
    <3> DEFINE Q == Seq(RequestRecords)
    <3>1. nl \in [queue : Q, msg_in_transit : Nat, write : BOOLEAN, timeout : BOOLEAN]
      BY DEF Typed, SocketRecords
    <3> HIDE DEF Q
    <3> QED BY <2>1, <3>1 DEF SocketRecords, Q
  <2>4. Typed'
    BY <2>1, <2>2, <2>3 DEF Typed
  <2>5. Without(Waiting, Waiting', 0, 0)
    BY <2>1, <2>3, WaitingTyped, TakenAway DEF Waiting
  <2>6. Without(answers, answers', 0, 0)
    BY <2>1, TakenAway DEF Typed
  <2> QED BY <2>2, <2>4, <2>5, <2>6, NumbersLess
<1>15. ASSUME NEW result \in Results, KernelAnswers(result)
       PROVE  Typed' /\ Numbers'
  <2> DEFINE r == Head(sent)
  <2>1. /\ UNCHANGED <<topo, param, rt, nl>>
        /\ answers' = Append(answers, [seq |-> r.seq, result |-> result])
    BY <1>15 DEF KernelAnswers, daemon
  <2>2. sent' \in Seq(RequestRecords) /\ r \in RequestRecords
    BY <1>15, RequestTaken
  <2>3. [seq |-> r.seq, result |-> result] \in AnswerRecords
    BY <2>2 DEF AnswerRecords, RequestRecords
  <2>4. Typed'
    BY <2>1, <2>2, <2>3 DEF Typed
  <2> QED BY <1>15, <2>4, NumbersAnswered
<1>16. CASE Halted \/ UNCHANGED vars
  BY <1>1, <1>16 DEF Halted, vars, Typed
<1> QED
  BY <1>3, <1>4, <1>5, <1>6, <1>7, <1>8, <1>9, <1>10, <1>11, <1>12, <1>13, <1>14, <1>15, <1>16
     DEF Next, Routing, Netlink, Kernel
(* The daemon starts with nothing under way.                               *)
LEMMA NumbersInit == Init => Typed /\ Numbers
<1> SUFFICES ASSUME Init PROVE Typed /\ Numbers
  OBVIOUS
<1>1. NoEntry \in EntryRecords /\ NoEntry.seq = 0 /\ ~NoEntry.in_processing /\ ~NoEntry.set
  BY DEF NoEntry, EntryRecords, Hops, Directs
<1>2. NoSocket \in SocketRecords /\ NoSocket.queue = <<>>
  BY DEF NoSocket, SocketRecords
<1>3. Typed
  BY <1>1, <1>2, RoutingAssumption DEF Typed, Init
<1>4. Waiting = <<>> /\ answers = <<>> /\ DOMAIN <<>> = {}
  BY <1>2 DEF Init, Waiting
<1>5. \A k \in Keys : rt[k] = NoEntry
  BY DEF Init
<1>6. Consistent(rt)
  BY <1>1, <1>5 DEF Consistent
<1> QED BY <1>1, <1>3, <1>4, <1>5, <1>6 DEF Numbers

(* Types and numbers hold in all reachable states.                         *)
LEMMA NumbersInvariant == Spec => [](Typed /\ Numbers)
<1>1. Init => Typed /\ Numbers
  BY NumbersInit
<1>2. Typed /\ Numbers /\ [Next]_vars => (Typed /\ Numbers)'
  BY NumbersStep
<1> QED BY <1>1, <1>2, PTL DEF Spec

(* An answer of the kernel finds the route that asked for it and no other, *)
(* through timeouts, late answers, lost pages, new parameters and the      *)
(* shutdown: os_routing_linux_set never inserts a number twice, and a      *)
(* number is under way at most once, as a request or as an answer.         *)
THEOREM AnswersFindTheirRoute == Spec => []AnswerFindsItsRoute
<1>1. Typed /\ Numbers => AnswerFindsItsRoute
  <2> SUFFICES ASSUME Typed, Numbers, NEW k \in Keys, rt[k].seq # 0
               PROVE  /\ rt[k].used /\ rt[k].in_processing
                      /\ \A j \in Keys \ {k} : rt[j].seq # rt[k].seq
                      /\ \A r \in ToSet(Waiting) : r.seq = rt[k].seq => r.route.key = k
                      /\ Cardinality({i \in DOMAIN Waiting : Waiting[i].seq = rt[k].seq})
                         + Cardinality({i \in DOMAIN answers : answers[i].seq = rt[k].seq})
                         <= 1
    BY DEF AnswerFindsItsRoute
  <2> DEFINE A == {i \in DOMAIN Waiting : Waiting[i].seq = rt[k].seq}
             B == {i \in DOMAIN answers : answers[i].seq = rt[k].seq}
  <2>1. rt[k].used /\ rt[k].in_processing
    BY DEF Numbers, Consistent
  <2>2. \A j \in Keys \ {k} : rt[j].seq # rt[k].seq
    BY DEF Numbers
  <2>3. \A r \in ToSet(Waiting) : r.seq = rt[k].seq => r.route.key = k
    BY DEF Numbers, ToSet
  <2>4. (A = {} \/ \E i : A = {i}) /\ (B = {} \/ \E i : B = {i})
    BY DEF Numbers
  <2>5. A = {} \/ B = {}
    BY DEF Numbers
  <2> HIDE DEF A, B
  <2>6. Cardinality(A) \in {0, 1} /\ Cardinality(B) \in {0, 1}
    BY <2>4, FS_EmptySet, FS_Singleton
  <2>7. Cardinality(A) + Cardinality(B) <= 1
    BY <2>5, <2>6, FS_EmptySet
  <2> QED BY <2>1, <2>2, <2>3, <2>7 DEF A, B
<1> QED BY <1>1, NumbersInvariant, PTL
-----------------------------------------------------------------------------
(* The netlink socket is a queue.                                          *)

(* A sequence without a piece consists of what was before the piece and    *)
(* what was behind it.                                                     *)
LEMMA TwoPieces ==
    ASSUME NEW S, NEW w \in Seq(S), NEW t \in Seq(S), NEW a, NEW n, Without(w, t, a, n)
    PROVE  /\ a \in 0 .. Len(t)
           /\ t = SubSeq(w, 1, a) \o SubSeq(w, a + 1 + Len(w) - Len(t), Len(w))
<1>1. /\ Len(w) \in Nat /\ Len(t) \in Nat /\ a \in Nat /\ n \in Nat
      /\ a + n <= Len(w) /\ Len(t) = Len(w) - n
      /\ \A i \in 1 .. Len(t) : t[i] = w[IF i <= a THEN i ELSE i + n]
  BY DEF Without, Place
<1> DEFINE u == SubSeq(w, 1, a)
           v == SubSeq(w, a + 1 + n, Len(w))
<1>2. \A i \in 1 .. Len(w) : w[i] \in S
  OBVIOUS
<1>3. u \in Seq(S) /\ Len(u) = a /\ \A i \in 1 .. a : u[i] = w[i]
  BY <1>1, <1>2, SubSeqProperties
<1>4. /\ v \in Seq(S) /\ Len(v) = Len(w) - (a + n)
      /\ \A i \in 1 .. Len(w) - (a + n) : v[i] = w[i + (a + n)]
  BY <1>1, <1>2, SubSeqProperties
<1> HIDE DEF u, v
<1>5. /\ u \o v \in Seq(S) /\ Len(u \o v) = Len(t)
      /\ \A i \in 1 .. Len(t) : (u \o v)[i] = IF i <= a THEN u[i] ELSE v[i - a]
  BY <1>1, <1>3, <1>4, ConcatProperties
<1> DEFINE x == u \o v  m == Len(t)
<1>6. \A i \in 1 .. Len(t) : t[i] = x[i]
  <2>1. /\ m \in Nat /\ a \in Nat /\ n \in Nat /\ m = Len(w) - n /\ Len(w) \in Nat /\ a + n <= Len(w)
        /\ \A i \in 1 .. m : t[i] = w[IF i <= a THEN i ELSE i + n]
        /\ \A i \in 1 .. m : x[i] = IF i <= a THEN u[i] ELSE v[i - a]
    BY <1>1, <1>5
  <2> HIDE DEF x, m
  <2>2. ASSUME NEW i \in 1 .. m, i <= a PROVE t[i] = x[i]
    <3>1. i \in 1 .. a
      BY <2>1, <2>2
    <3>2. u[i] = w[i]
      BY <1>3, <3>1
    <3>3. t[i] = w[i] /\ x[i] = u[i]
      BY <2>1, <2>2
    <3> QED BY <3>2, <3>3
  <2>3. ASSUME NEW i \in 1 .. m, ~(i <= a) PROVE t[i] = x[i]
    <3>1. i - a \in 1 .. Len(w) - (a + n) /\ (i - a) + (a + n) = i + n
      BY <2>1, <2>3
    <3>2. v[i - a] = w[i + n]
      BY <1>4, <3>1
    <3>3. t[i] = w[i + n] /\ x[i] = v[i - a]
      BY <2>1, <2>3
    <3> QED BY <3>2, <3>3
  <2> QED BY <2>2, <2>3 DEF m
<1>7. t = u \o v
  BY <1>5, <1>6, SeqEqual
<1>8. a + 1 + Len(w) - Len(t) = a + 1 + n /\ a \in 0 .. Len(t)
  BY <1>1
<1> QED BY <1>7, <1>8 DEF u, v

(* A page that gets lost is a Lose step.                                   *)
LEMMA LostInARow ==
    ASSUME Typed, Typed', NEW a, NEW n, Without(Waiting, Waiting', a, n)
    PROVE  Fifo!Lose \/ Waiting' = Waiting
<1> DEFINE w == Waiting  t == Waiting'
<1>1. w \in Seq(RequestRecords) /\ t \in Seq(RequestRecords) /\ Without(w, t, a, n)
  BY WaitingTyped, WaitingTypedNext
<1> HIDE DEF w, t
<1>2. /\ a \in 0 .. Len(t)
      /\ t = SubSeq(w, 1, a) \o SubSeq(w, a + 1 + Len(w) - Len(t), Len(w))
  BY <1>1, TwoPieces, Zenon
<1>3. Len(t) <= Len(w) /\ (Len(t) = Len(w) => t = w)
  <2>1. Len(t) = Len(w) - n /\ n \in Nat /\ Len(w) \in Nat /\ a \in Nat /\ Len(t) \in Nat
    BY <1>1 DEF Without
  <2>2. ASSUME n = 0 PROVE t = w
    <3>1. \A i \in 1 .. Len(t) : t[i] = w[i]
      BY <1>1, <2>1, <2>2 DEF Without, Place
    <3> QED BY <1>1, <2>1, <2>2, <3>1, SeqEqual
  <2> QED BY <2>1, <2>2
<1>4. Len(t) < Len(w) \/ t = w
  BY <1>1, <1>3
<1> QED BY <1>2, <1>4 DEF Fifo!Lose, w, t

(* Every step of the daemon and the kernel is a step of the queue.         *)
LEMMA FifoStep ==
    Typed /\ Numbers /\ [Next]_vars => [Fifo!Send \/ Fifo!Take \/ Fifo!Lose]_Waiting
<1> SUFFICES ASSUME Typed, Numbers, [Next]_vars PROVE Fifo!Send \/ Fifo!Take \/ Fifo!Lose \/ Waiting' = Waiting
  OBVIOUS
<1>0. Consistent(rt) /\ Typed'
  BY NumbersStep DEF Numbers
<1>1. ASSUME UNCHANGED sent, nl'.queue = nl.queue PROVE Waiting' = Waiting
  BY <1>1 DEF Waiting
<1>2. ASSUME NEW entries, NEW queued, NEW mixed, NEW overtaken, UNCHANGED sent,
             Processed(entries, queued, mixed, overtaken)
      PROVE  Fifo!Send \/ Waiting' = Waiting
  <2>1. PICK reqs \in Seq(RequestRecords) : nl'.queue = nl.queue \o reqs
    BY <1>2 DEF Processed, Queued
  <2>2. Waiting' = Waiting \o reqs /\ Waiting \in Seq(RequestRecords)
    BY <1>2, <2>1, Appended, WaitingTyped
  <2> DEFINE w == Waiting
  <2> HIDE DEF w
  <2>3. /\ Len(w) <= Len(w \o reqs)
        /\ SubSeq(w, 1, Len(w)) = SubSeq(w \o reqs, 1, Len(w))
    <3>1. w \in Seq(RequestRecords) /\ Len(w) \in Nat /\ Len(reqs) \in Nat
      BY <2>2 DEF w
    <3>2. /\ Len(w \o reqs) = Len(w) + Len(reqs)
          /\ \A i \in 1 .. Len(w) : (w \o reqs)[i] = w[i] /\ w[i] \in RequestRecords
      BY <3>1
    <3>3. /\ SubSeq(w, 1, Len(w)) \in Seq(RequestRecords)
          /\ Len(SubSeq(w, 1, Len(w))) = Len(w)
          /\ \A i \in 1 .. Len(w) : SubSeq(w, 1, Len(w))[i] = w[i]
      BY <3>1, <3>2, SubSeqProperties
    <3>4. /\ SubSeq(w \o reqs, 1, Len(w)) \in Seq(RequestRecords)
          /\ Len(SubSeq(w \o reqs, 1, Len(w))) = Len(w)
          /\ \A i \in 1 .. Len(w) : SubSeq(w \o reqs, 1, Len(w))[i] = (w \o reqs)[i]
      BY <3>1, <3>2, SubSeqProperties
    <3>5. SubSeq(w, 1, Len(w)) = SubSeq(w \o reqs, 1, Len(w))
      BY <3>1, <3>2, <3>3, <3>4, SeqEqual
    <3> QED BY <3>1, <3>2, <3>5
  <2> QED BY <2>2, <2>3 DEF w, Fifo!Send, Fifo!IsStrictPrefix, Fifo!IsPrefix
<1>3. ASSUME NEW top \in Situations, NEW advertised \in BOOLEAN,
             olsrv2_routing_domain_changed(top, advertised)
      PROVE  Waiting' = Waiting
  BY <1>1, <1>3 DEF olsrv2_routing_domain_changed
<1>4. CASE TimerFiresIdle
  BY <1>1, <1>4 DEF TimerFiresIdle
<1>5. CASE _cb_trigger_dijkstra
  <2>1. PICK nomem, mixed : UNCHANGED sent /\ olsrv2_routing_force_update(nomem, mixed)
    BY <1>5 DEF _cb_trigger_dijkstra
  <2>2. CASE changed
    BY <1>0, <1>2, <2>1, <2>2, CalculationQueues
  <2>3. CASE ~changed
    BY <1>1, <2>1, <2>3 DEF olsrv2_routing_force_update
  <2> QED BY <2>2, <2>3
<1>6. ASSUME NEW freeze \in BOOLEAN, olsrv2_routing_freeze_routes(freeze)
      PROVE  Waiting' = Waiting
  BY <1>1, <1>6 DEF olsrv2_routing_freeze_routes
<1>7. ASSUME NEW t \in Tables, olsrv2_routing_set_domain_parameter(t)
      PROVE  Fifo!Send \/ Waiting' = Waiting
  <2>1. UNCHANGED sent
    BY <1>7 DEF olsrv2_routing_set_domain_parameter
  <2> QED BY <1>0, <1>1, <1>2, <1>7, <2>1, ParametersQueue
<1>8. CASE olsrv2_routing_initiate_shutdown
  <2>1. UNCHANGED sent
    BY <1>8, Zenon DEF olsrv2_routing_initiate_shutdown
  <2> QED BY <1>0, <1>2, <1>8, <2>1, ShutdownQueues
<1>9. CASE olsrv2_routing_cleanup
  <2>1. PICK n : Without(Waiting, Waiting', Len(sent), n)
    BY <1>9, SocketClosed
  <2> QED BY <1>0, <2>1, LostInARow
<1>10. CASE FlushNothing
  BY <1>1, <1>10 DEF FlushNothing, Typed, SocketRecords
<1>11. CASE _flush_netlink_buffer
  BY <1>11, Flushed
<1>12. CASE FlushFails
  <2>1. PICK n : Without(Waiting, Waiting', Len(sent), n)
    BY <1>12, PageLost
  <2> QED BY <1>0, <2>1, LostInARow
<1>13. CASE _netlink_handler
  <2>1. nl' = _netlink_job_finished(nl) /\ UNCHANGED sent
    BY <1>13 DEF _netlink_handler, _handle_nl_err
  <2>2. nl'.queue = nl.queue
    BY <2>1 DEF _netlink_job_finished, Typed, SocketRecords
  <2> QED BY <1>1, <2>1, <2>2
<1>14. CASE _cb_handle_netlink_timeout
  BY <1>1, <1>14 DEF _cb_handle_netlink_timeout, Typed, SocketRecords
<1>15. ASSUME NEW result \in Results, KernelAnswers(result) PROVE Fifo!Take
  BY <1>15, RequestTaken DEF Fifo!Take
<1>16. CASE Halted \/ UNCHANGED vars
  BY <1>1, <1>16 DEF Halted, vars
<1> QED
  BY <1>3, <1>4, <1>5, <1>6, <1>7, <1>8, <1>9, <1>10, <1>11, <1>12, <1>13, <1>14, <1>15, <1>16
     DEF Next, Routing, Netlink, Kernel

(* The pages, the write flag and the count of messages in transit of       *)
(* os_system_linux.c implement a queue that may lose requests in a row but *)
(* never repeats them or turns them around: the specification implements   *)
(* NetlinkFifo.                                                            *)
THEOREM SocketImplementsFifo == Spec => NetlinkIsFifo
<1>1. Init => Fifo!Init
  BY DEF Init, Fifo!Init, Waiting, NoSocket
<1>2. Typed /\ Numbers /\ [Next]_vars => [Fifo!Send \/ Fifo!Take \/ Fifo!Lose]_Waiting
  BY FifoStep
<1> QED BY <1>1, <1>2, NumbersInvariant, PTL DEF Spec, NetlinkIsFifo, Fifo!Spec
-----------------------------------------------------------------------------
(* The kernel's routes.                                                    *)

InKernel(k) == {r \in kernel : r.key = k}
Desired(k) == IF rt[k].set THEN {RouteOf(rt[k], k)} ELSE {}

(* What the kernel has for a destination after a request that it obeys,    *)
(* and what it may have before one: a route is replaced if the table is    *)
(* the same and removed if it is exactly the one that is named.            *)
Effect(r) == IF r.op = "set" THEN {r.route} ELSE {}
Follows(S, r) == \A q \in S : S = {q} /\ IF r.op = "set" THEN q.table = r.route.table ELSE q = r.route

(* The requests of s for k lead from one set of routes to another: the     *)
(* first fits what is there, each fits what the one before leaves, the     *)
(* last leaves what is wanted.                                             *)
Pending(s, k) == {i \in DOMAIN s : s[i].route.key = k}
Leads(s, k, from, to) ==
    /\ Pending(s, k) = {} => from = to
    /\ \A i \in Pending(s, k) : (\A j \in Pending(s, k) : j <= i) => Effect(s[i]) = to
    /\ \A i \in Pending(s, k) : (\A j \in Pending(s, k) : i <= j) => Follows(from, s[i])
    /\ \A i, j \in Pending(s, k) :
          i < j /\ (\A m \in Pending(s, k) : m <= i \/ j <= m) => Follows(Effect(s[i]), s[j])

(* Requests for other destinations do not matter.                          *)
LEMMA LeadsLess ==
    ASSUME NEW w, NEW t, NEW k, NEW from, NEW to, NEW a, NEW n, KeepsOrder(w, t, a, n),
           DOMAIN w \subseteq Nat, DOMAIN t \subseteq Nat,
           \A i \in DOMAIN w : i \in a + 1 .. a + n => w[i].route.key # k,
           Leads(w, k, from, to)
    PROVE  Leads(t, k, from, to)
<1> DEFINE P == Pending(t, k)  Q == Pending(w, k)
           f(i) == Place(i, a, n)
<1>1. /\ P \subseteq Nat /\ Q \subseteq Nat
      /\ \A i \in P : f(i) \in Q /\ t[i] = w[f(i)]
      /\ \A m \in Q : \E i \in P : m = f(i)
  BY DEF Pending, KeepsOrder
<1>2. \A i, j \in P : i < j <=> f(i) < f(j)
  BY DEF Pending, KeepsOrder
<1> HIDE DEF P, Q, f
<1>3. \A i, j \in P : i <= j <=> f(i) <= f(j)
  <2> TAKE i, j \in P
  <2>1. i \in Nat /\ j \in Nat /\ f(i) \in Nat /\ f(j) \in Nat
    BY <1>1
  <2>2. j < i <=> f(j) < f(i)
    BY <1>2
  <2> QED BY <2>1, <2>2
<1>4. /\ Q = {} => from = to
      /\ \A i \in Q : (\A j \in Q : j <= i) => Effect(w[i]) = to
      /\ \A i \in Q : (\A j \in Q : i <= j) => Follows(from, w[i])
      /\ \A i, j \in Q : i < j /\ (\A m \in Q : m <= i \/ j <= m) => Follows(Effect(w[i]), w[j])
  BY DEF Leads, Q
<1>5. P = {} => from = to
  BY <1>1, <1>4
<1>6. ASSUME NEW i \in P, \A j \in P : j <= i PROVE Effect(t[i]) = to
  <2>1. \A m \in Q : m <= f(i)
    BY <1>1, <1>3, <1>6
  <2> QED BY <1>1, <1>4, <2>1
<1>7. ASSUME NEW i \in P, \A j \in P : i <= j PROVE Follows(from, t[i])
  <2>1. \A m \in Q : f(i) <= m
    BY <1>1, <1>3, <1>7
  <2> QED BY <1>1, <1>4, <2>1
<1>8. ASSUME NEW i \in P, NEW j \in P, i < j, \A m \in P : m <= i \/ j <= m
      PROVE  Follows(Effect(t[i]), t[j])
  <2>1. \A m \in Q : m <= f(i) \/ f(j) <= m
    BY <1>1, <1>3, <1>8
  <2> QED BY <1>1, <1>2, <1>4, <1>8, <2>1
<1> QED BY <1>5, <1>6, <1>7, <1>8 DEF Leads, P

(* The first request has been obeyed.                                      *)
LEMMA LeadsHead ==
    ASSUME NEW w, NEW t, NEW k, NEW from, NEW to, KeepsOrder(w, t, 0, 1),
           DOMAIN w \subseteq Nat \ {0}, DOMAIN t \subseteq Nat \ {0}, 1 \in DOMAIN w,
           w[1].route.key = k, Leads(w, k, from, to)
    PROVE  Follows(from, w[1]) /\ Leads(t, k, Effect(w[1]), to)
<1> DEFINE P == Pending(t, k)  Q == Pending(w, k)
<1>1. /\ P \subseteq Nat \ {0} /\ Q \subseteq Nat \ {0} /\ 1 \in Q
      /\ \A i \in P : i + 1 \in Q /\ t[i] = w[i + 1]
      /\ \A m \in Q : m = 1 \/ \E i \in P : m = i + 1
  <2>1. P \subseteq Nat \ {0} /\ Q \subseteq Nat \ {0} /\ 1 \in Q
    BY DEF Pending
  <2>2. \A i \in DOMAIN t : Place(i, 0, 1) = i + 1
    BY DEF Place
  <2>3. \A i \in P : i + 1 \in Q /\ t[i] = w[i + 1]
    BY <2>2 DEF Pending, KeepsOrder
  <2>4. \A m \in Q : m = 1 \/ \E i \in P : m = i + 1
    BY <2>1, <2>2 DEF Pending, KeepsOrder
  <2> QED BY <2>1, <2>3, <2>4
<1> HIDE DEF P, Q
<1>4. /\ \A i \in Q : (\A j \in Q : j <= i) => Effect(w[i]) = to
      /\ \A i \in Q : (\A j \in Q : i <= j) => Follows(from, w[i])
      /\ \A i, j \in Q : i < j /\ (\A m \in Q : m <= i \/ j <= m) => Follows(Effect(w[i]), w[j])
  BY DEF Leads, Q
<1>5. Follows(from, w[1])
  BY <1>1, <1>4
<1>6. P = {} => Effect(w[1]) = to
  BY <1>1, <1>4
<1>7. ASSUME NEW i \in P, \A j \in P : j <= i PROVE Effect(t[i]) = to
  <2>1. \A m \in Q : m <= i + 1
    BY <1>1, <1>7
  <2> QED BY <1>1, <1>4, <2>1
<1>8. ASSUME NEW i \in P, \A j \in P : i <= j PROVE Follows(Effect(w[1]), t[i])
  <2>1. \A m \in Q : m <= 1 \/ i + 1 <= m
    BY <1>1, <1>8
  <2>2. 1 < i + 1 /\ i + 1 \in Q /\ t[i] = w[i + 1]
    BY <1>1
  <2> QED BY <1>1, <1>4, <2>1, <2>2
<1>9. ASSUME NEW i \in P, NEW j \in P, i < j, \A m \in P : m <= i \/ j <= m
      PROVE  Follows(Effect(t[i]), t[j])
  <2>1. \A m \in Q : m <= i + 1 \/ j + 1 <= m
    BY <1>1, <1>9
  <2> QED BY <1>1, <1>4, <1>9, <2>1
<1> QED BY <1>5, <1>6, <1>7, <1>8, <1>9 DEF Leads, P

(* A request that fits what the others lead to.                            *)
LEMMA LeadsMore ==
    ASSUME NEW S, NEW w \in Seq(S), NEW reqs \in Seq(S), NEW k, NEW from, NEW to, NEW x,
           Leads(w, k, from, to),
           \A i, j \in DOMAIN reqs : reqs[i].route.key = reqs[j].route.key => i = j,
           IF \E i \in DOMAIN reqs : reqs[i].route.key = k
           THEN \A i \in DOMAIN reqs : reqs[i].route.key = k => Follows(to, reqs[i]) /\ Effect(reqs[i]) = x
           ELSE x = to
    PROVE  Leads(w \o reqs, k, from, x)
<1> DEFINE v == w \o reqs  P == Pending(v, k)  Q == Pending(w, k)
<1>1. /\ Len(w) \in Nat /\ DOMAIN w = 1 .. Len(w) /\ Len(reqs) \in Nat
      /\ DOMAIN reqs = 1 .. Len(reqs) /\ DOMAIN v = 1 .. Len(w) + Len(reqs)
      /\ \A i \in 1 .. Len(w) : v[i] = w[i]
      /\ \A i \in 1 .. Len(reqs) : v[i + Len(w)] = reqs[i]
  BY ConcatProperties
<1> HIDE DEF v
<1>2. /\ Q \subseteq P /\ Q \subseteq 1 .. Len(w) /\ \A i \in Q : v[i] = w[i]
      /\ \A i \in P : i \in Q \/ (i - Len(w) \in DOMAIN reqs /\ v[i] = reqs[i - Len(w)]
                                  /\ reqs[i - Len(w)].route.key = k /\ i > Len(w) /\ i \in Nat)
  <2>1. \A i \in DOMAIN v :
            i \in DOMAIN w \/ (i - Len(w) \in DOMAIN reqs /\ i = (i - Len(w)) + Len(w) /\ i > Len(w) /\ i \in Nat)
    BY <1>1
  <2>2. \A i \in DOMAIN v : i \in DOMAIN w \/ v[i] = reqs[i - Len(w)]
    BY <1>1, <2>1
  <2> QED BY <1>1, <2>1, <2>2 DEF Pending
<1>3. /\ Q = {} => from = to
      /\ \A i \in Q : (\A j \in Q : j <= i) => Effect(w[i]) = to
      /\ \A i \in Q : (\A j \in Q : i <= j) => Follows(from, w[i])
      /\ \A i, j \in Q : i < j /\ (\A m \in Q : m <= i \/ j <= m) => Follows(Effect(w[i]), w[j])
  BY DEF Leads
<1>4. CASE ~\E i \in DOMAIN reqs : reqs[i].route.key = k
  <2>1. P = Q /\ x = to
    BY <1>2, <1>4
  <2> HIDE DEF P, Q
  <2>2. Q \subseteq 1 .. Len(w) /\ \A i \in Q : v[i] = w[i]
    BY <1>2
  <2>3. /\ P = {} => from = x
        /\ \A i \in P : (\A j \in P : j <= i) => Effect(v[i]) = x
        /\ \A i \in P : (\A j \in P : i <= j) => Follows(from, v[i])
        /\ \A i, j \in P : i < j /\ (\A m \in P : m <= i \/ j <= m) => Follows(Effect(v[i]), v[j])
    BY <1>3, <2>1, <2>2
  <2> QED BY <2>3 DEF Leads, P, v
<1>5. CASE \E i \in DOMAIN reqs : reqs[i].route.key = k
  <2>1. PICK m \in DOMAIN reqs : reqs[m].route.key = k
    BY <1>5
  <2> DEFINE e == m + Len(w)
  <2>2. Follows(to, reqs[m]) /\ Effect(reqs[m]) = x
    BY <1>5, <2>1
  <2>3. /\ e \in P /\ v[e] = reqs[m] /\ e \in Nat /\ e > Len(w)
        /\ \A i \in P : i \in Q \/ i = e
    <3>1. e \in DOMAIN v /\ v[e] = reqs[m] /\ e \in Nat /\ e > Len(w)
      BY <1>1
    <3>2. e \in P
      BY <2>1, <3>1 DEF Pending
    <3>3. ASSUME NEW i \in P, i \notin Q PROVE i = e
      <4>1. i - Len(w) \in DOMAIN reqs /\ reqs[i - Len(w)].route.key = k /\ i \in Nat
        BY <1>2, <3>3
      <4>2. i - Len(w) = m
        BY <2>1, <4>1
      <4> QED BY <1>1, <4>1, <4>2
    <3> QED BY <3>1, <3>2, <3>3
  <2> HIDE DEF P, Q, e
  <2>4. /\ Q \subseteq P /\ Q \subseteq 1 .. Len(w) /\ \A i \in Q : v[i] = w[i] /\ i < e /\ i \in Nat
    BY <1>1, <1>2, <2>3
  <2>5. \A i \in P : (\A j \in P : j <= i) => Effect(v[i]) = x
    BY <1>1, <2>2, <2>3, <2>4
  <2>6. ASSUME NEW i \in P, \A j \in P : i <= j PROVE Follows(from, v[i])
    <3>1. CASE i \in Q
      BY <1>3, <2>4, <2>6, <3>1
    <3>2. CASE i = e
      <4>1. Q = {}
        BY <2>3, <2>4, <2>6, <3>2
      <4> QED BY <1>3, <2>2, <2>3, <3>2, <4>1
    <3> QED BY <2>3, <3>1, <3>2
  <2>7. ASSUME NEW i \in P, NEW j \in P, i < j, \A l \in P : l <= i \/ j <= l
        PROVE  Follows(Effect(v[i]), v[j])
    <3>1. CASE j \in Q
      <4>1. i \in Q
        BY <2>3, <2>4, <2>7, <3>1
      <4> QED BY <1>3, <2>4, <2>7, <3>1, <4>1
    <3>2. CASE j = e
      <4>1. i \in Q
        BY <2>3, <2>7, <3>2
      <4>2. \A l \in Q : l <= i
        BY <2>3, <2>4, <2>7, <3>2, <4>1
      <4> QED BY <1>3, <2>2, <2>3, <2>4, <3>2, <4>1, <4>2
    <3> QED BY <2>3, <3>1, <3>2
  <2> QED BY <2>3, <2>5, <2>6, <2>7 DEF Leads, P, v
<1> QED BY <1>4, <1>5
(* The request and the answer under way for an entry say what the entry    *)
(* says, and a route that is set is in the table of the current            *)
(* parameters; after shutdown no route is set.                             *)
Agrees(k) ==
    /\ \A i \in DOMAIN Waiting :
          Waiting[i].seq = rt[k].seq => Waiting[i].op = IF rt[k].set THEN "set" ELSE "del"
    /\ \A i \in DOMAIN answers :
          answers[i].seq = rt[k].seq =>
              answers[i].result \in {"ok", IF rt[k].set THEN "EEXIST" ELSE "ESRCH"}
    /\ rt[k].set => rt[k].table = param
    /\ phase # "up" => ~rt[k].set

(* For all destinations whose changes did not get lost, the requests under *)
(* way lead from the routes of the kernel to the routing set.              *)
Sound ==
    \A k \in Keys \ astray : Leads(Waiting, k, InKernel(k), Desired(k)) /\ Agrees(k)

(* A step that leaves the kernel and the routes of k alone, and loses only *)
(* requests that are known to be lost.                                     *)
LEMMA SoundLess ==
    ASSUME Typed, Typed', Sound, kernel' = kernel, astray \subseteq astray',
           NEW a, NEW n, Without(Waiting, Waiting', a, n),
           \A i \in a + 1 .. a + n : Waiting[i].route.key \in astray',
           NEW b, NEW m, Without(answers, answers', b, m),
           \A k \in Keys \ astray' :
               /\ rt'[k].seq \in {0, rt[k].seq}
               /\ rt'[k].set = rt[k].set /\ (rt[k].set => RouteOf(rt'[k], k) = RouteOf(rt[k], k))
               /\ rt[k].set /\ rt[k].table = param => rt'[k].table = param'
               /\ phase' # "up" => ~rt'[k].set
    PROVE  Sound'
<1> SUFFICES ASSUME NEW k \in Keys, k \notin astray'
             PROVE  Leads(Waiting', k, InKernel(k)', Desired(k)') /\ Agrees(k)'
  BY DEF Sound
<1>1. Leads(Waiting, k, InKernel(k), Desired(k)) /\ Agrees(k)
  BY DEF Sound
<1>2. Waiting \in Seq(RequestRecords) /\ DOMAIN Waiting = 1 .. Len(Waiting)
      /\ Waiting' \in Seq(RequestRecords) /\ DOMAIN Waiting' = 1 .. Len(Waiting')
  BY WaitingTyped, WaitingTypedNext
<1>3. KeepsOrder(Waiting, Waiting', a, n)
  BY <1>2, Kept, Zenon
<1>4. DOMAIN Waiting \subseteq Nat /\ DOMAIN Waiting' \subseteq Nat
  BY <1>2
<1>5. \A i \in DOMAIN Waiting : i \in a + 1 .. a + n => Waiting[i].route.key # k
  OBVIOUS
<1>6. Leads(Waiting', k, InKernel(k), Desired(k))
  BY <1>1, <1>3, <1>4, <1>5, LeadsLess, Zenon
<1>7. InKernel(k)' = InKernel(k) /\ Desired(k)' = Desired(k)
  BY DEF InKernel, Desired
<1>8. KeepsOrder(answers, answers', b, m)
  <2>1. answers \in Seq(AnswerRecords) /\ DOMAIN answers' = 1 .. Len(answers')
    BY DEF Typed
  <2> QED BY <2>1, Kept, Zenon
<1>9. ASSUME NEW i \in DOMAIN Waiting', Waiting'[i].seq = rt'[k].seq
      PROVE  Waiting'[i].op = IF rt'[k].set THEN "set" ELSE "del"
  <2>1. Waiting'[i] \in RequestRecords
    BY <1>2
  <2>2. Waiting'[i].seq # 0
    BY <2>1, RoutingAssumption DEF RequestRecords
  <2>3. rt'[k].seq = rt[k].seq /\ rt'[k].set = rt[k].set
    BY <1>9, <2>2
  <2> QED BY <1>1, <1>3, <1>9, <2>3 DEF Agrees, KeepsOrder
<1>10. ASSUME NEW i \in DOMAIN answers', answers'[i].seq = rt'[k].seq
       PROVE  answers'[i].result \in {"ok", IF rt'[k].set THEN "EEXIST" ELSE "ESRCH"}
  <2>1. answers'[i] \in AnswerRecords
    BY DEF Typed
  <2>2. answers'[i].seq # 0
    BY <2>1, RoutingAssumption DEF AnswerRecords
  <2>3. rt'[k].seq = rt[k].seq /\ rt'[k].set = rt[k].set
    BY <1>10, <2>2
  <2> QED BY <1>1, <1>8, <1>10, <2>3 DEF Agrees, KeepsOrder
<1>11. (rt'[k].set => rt'[k].table = param') /\ (phase' # "up" => ~rt'[k].set)
  BY <1>1 DEF Agrees
<1> QED BY <1>6, <1>7, <1>9, <1>10, <1>11 DEF Agrees

(* New requests fit what the older ones lead to.                           *)
LEMMA SoundMore ==
    ASSUME Typed, Typed', Numbers', Sound, kernel' = kernel, sent' = sent, answers' = answers,
           NEW entries, NEW queued, NEW mixed, NEW overtaken,
           Prepared(entries, queued), Processed(entries, queued, mixed, overtaken),
           \A k \in Keys \ astray' :
               /\ rt[k].set /\ rt[k].table = param /\ k \in queued =>
                      IF entries[k].set THEN rt[k].table = entries[k].table
                                        ELSE RouteOf(rt[k], k) = RouteOf(entries[k], k)
               /\ k \notin queued =>
                      entries[k].set = rt[k].set /\ (rt[k].set => RouteOf(entries[k], k) = RouteOf(rt[k], k))
               /\ entries[k].set => entries[k].table = param'
               /\ phase' # "up" => ~entries[k].set
    PROVE  Sound'
<1> SUFFICES ASSUME NEW k \in Keys, k \notin astray'
             PROVE  Leads(Waiting', k, InKernel(k)', Desired(k)') /\ Agrees(k)'
  BY DEF Sound
<1> DEFINE todo == Todo(entries, queued, mixed)
<1>1. PICK reqs \in Seq(RequestRecords) : Queued(entries, todo, reqs)
  BY DEF Processed
<1>2. /\ todo \in SUBSET Keys /\ k \notin astray /\ (k \in queued <=> k \in todo)
      /\ rt'[k].set = entries[k].set /\ RouteOf(rt'[k], k) = RouteOf(entries[k], k)
      /\ k \notin todo => rt'[k].seq \in {0, rt[k].seq}
  BY DEF Processed, Prepared, Todo
<1>3. Leads(Waiting, k, InKernel(k), Desired(k)) /\ Agrees(k)
  BY <1>2 DEF Sound
<1>4. /\ Waiting \in Seq(RequestRecords) /\ Waiting' = Waiting \o reqs
      /\ \A i \in DOMAIN Waiting' :
                 \/ i \in DOMAIN Waiting /\ Waiting'[i] = Waiting[i]
                 \/ i - Len(Waiting) \in DOMAIN reqs /\ Waiting'[i] = reqs[i - Len(Waiting)]
  BY <1>1, WaitingTyped, Appended DEF Queued
<1>5. /\ \A i \in DOMAIN reqs :
            /\ reqs[i].route.key \in todo
            /\ rt'[reqs[i].route.key].seq = reqs[i].seq
            /\ reqs[i].op = IF entries[reqs[i].route.key].set THEN "set" ELSE "del"
            /\ reqs[i].route = RouteOf(entries[reqs[i].route.key], reqs[i].route.key)
            /\ \A j \in DOMAIN Waiting : Waiting[j].seq # reqs[i].seq
            /\ \A j \in DOMAIN answers : answers[j].seq # reqs[i].seq
      /\ \A i, j \in DOMAIN reqs : reqs[i].route.key = reqs[j].route.key => i = j
      /\ \A j \in todo : \E i \in DOMAIN reqs : reqs[i].route.key = j
  BY <1>1 DEF Queued
<1> HIDE DEF todo
<1>6. InKernel(k)' = InKernel(k)
  BY DEF InKernel
<1>7. rt'[k].table = entries[k].table
  BY <1>2 DEF RouteOf
<1>8. CASE k \in todo
  <2>1. ASSUME NEW i \in DOMAIN reqs, reqs[i].route.key = k
        PROVE  Follows(Desired(k), reqs[i]) /\ Effect(reqs[i]) = Desired(k)'
    <3>1. /\ reqs[i].op = IF entries[k].set THEN "set" ELSE "del"
          /\ reqs[i].route = RouteOf(entries[k], k)
      BY <1>5, <2>1
    <3>2. Effect(reqs[i]) = Desired(k)'
      BY <1>2, <3>1 DEF Effect, Desired
    <3>3. rt[k].set => rt[k].table = param
      BY <1>3 DEF Agrees
    <3>4. ASSUME rt[k].set
          PROVE  IF reqs[i].op = "set" THEN RouteOf(rt[k], k).table = reqs[i].route.table
                                       ELSE RouteOf(rt[k], k) = reqs[i].route
      BY <1>2, <1>8, <3>1, <3>3, <3>4 DEF RouteOf
    <3>5. Follows(Desired(k), reqs[i])
      BY <3>4 DEF Follows, Desired
    <3> QED BY <3>2, <3>5
  <2>2. \E i \in DOMAIN reqs : reqs[i].route.key = k
    BY <1>5, <1>8
  <2>3. Leads(Waiting \o reqs, k, InKernel(k), Desired(k)')
    <3> DEFINE from == InKernel(k)  to == Desired(k)  x == Desired(k)'
    <3>1. /\ Leads(Waiting, k, from, to)
          /\ \A i \in DOMAIN reqs : reqs[i].route.key = k => Follows(to, reqs[i]) /\ Effect(reqs[i]) = x
      BY <1>3, <2>1
    <3> HIDE DEF from, to, x
    <3>2. Leads(Waiting \o reqs, k, from, x)
      BY <1>4, <1>5, <2>2, <3>1, LeadsMore
    <3> QED BY <3>2 DEF from, x
  <2>4. \A i \in DOMAIN Waiting' : Waiting'[i].seq = rt'[k].seq =>
            Waiting'[i].op = IF rt'[k].set THEN "set" ELSE "del"
    <3> TAKE i \in DOMAIN Waiting'
    <3> HAVE Waiting'[i].seq = rt'[k].seq
    <3>1. Waiting'[i].route.key = k
      BY DEF Numbers
    <3>2. i \notin DOMAIN Waiting \/ Waiting'[i] # Waiting[i]
      BY <1>5, <2>2
    <3>3. i - Len(Waiting) \in DOMAIN reqs /\ Waiting'[i] = reqs[i - Len(Waiting)]
      BY <1>4, <3>2
    <3> QED BY <1>2, <1>5, <3>1, <3>3
  <2>5. \A i \in DOMAIN answers' : answers'[i].seq # rt'[k].seq
    BY <1>5, <2>2
  <2> QED BY <1>2, <1>4, <1>6, <1>7, <2>3, <2>4, <2>5 DEF Agrees
<1>9. CASE k \notin todo
  <2>1. Desired(k)' = Desired(k)
    BY <1>2, <1>9 DEF Desired
  <2>2. ~\E i \in DOMAIN reqs : reqs[i].route.key = k
    BY <1>5, <1>9
  <2>3. Leads(Waiting \o reqs, k, InKernel(k), Desired(k))
    <3> DEFINE from == InKernel(k)  to == Desired(k)
    <3>1. Leads(Waiting, k, from, to)
      BY <1>3
    <3> HIDE DEF from, to
    <3>2. Leads(Waiting \o reqs, k, from, to)
      BY <1>4, <1>5, <2>2, <3>1, LeadsMore
    <3> QED BY <3>2 DEF from, to
  <2>4. \A i \in DOMAIN Waiting' : Waiting'[i].seq = rt'[k].seq =>
            Waiting'[i].op = IF rt'[k].set THEN "set" ELSE "del"
    <3> TAKE i \in DOMAIN Waiting'
    <3> HAVE Waiting'[i].seq = rt'[k].seq
    <3>1. Waiting'[i].route.key = k
      BY DEF Numbers
    <3>2. i \in DOMAIN Waiting /\ Waiting'[i] = Waiting[i]
      BY <1>4, <2>2, <3>1
    <3>3. Waiting'[i] \in RequestRecords
      BY WaitingTypedNext
    <3>4. Waiting'[i].seq # 0
      BY <3>3, RoutingAssumption DEF RequestRecords
    <3> QED BY <1>2, <1>3, <1>9, <3>2, <3>4 DEF Agrees
  <2>5. \A i \in DOMAIN answers' : answers'[i].seq = rt'[k].seq =>
            answers'[i].result \in {"ok", IF rt'[k].set THEN "EEXIST" ELSE "ESRCH"}
    <3> TAKE i \in DOMAIN answers'
    <3> HAVE answers'[i].seq = rt'[k].seq
    <3>1. answers'[i] \in AnswerRecords
      BY DEF Typed
    <3>2. answers'[i].seq # 0
      BY <3>1, RoutingAssumption DEF AnswerRecords
    <3> QED BY <1>2, <1>3, <1>9, <3>2 DEF Agrees
  <2> QED BY <1>2, <1>4, <1>6, <1>7, <2>1, <2>3, <2>4, <2>5 DEF Agrees
<1> QED BY <1>8, <1>9
(* The kernel obeys the first request.                                     *)
LEMMA SoundAnswered ==
    ASSUME Typed, Typed', Numbers, Sound, NEW result \in Results, KernelAnswers(result)
    PROVE  Sound'
<1> SUFFICES ASSUME NEW k \in Keys, k \notin astray'
             PROVE  Leads(Waiting', k, InKernel(k)', Desired(k)') /\ Agrees(k)'
  BY DEF Sound
<1> DEFINE r == Head(sent)
<1>1. /\ UNCHANGED <<rt, nl, param, phase>>
      /\ answers' = Append(answers, [seq |-> r.seq, result |-> result])
  BY DEF KernelAnswers, daemon
<1>2. /\ Waiting \in Seq(RequestRecords) /\ r = Waiting[1] /\ 1 \in DOMAIN Waiting
      /\ Without(Waiting, Waiting', 0, 1)
  BY RequestTaken
<1>3. DOMAIN Waiting = 1 .. Len(Waiting) /\ DOMAIN Waiting' = 1 .. Len(Waiting')
  BY WaitingTyped, WaitingTypedNext
<1>4. KeepsOrder(Waiting, Waiting', 0, 1)
  BY <1>2, <1>3, Kept, Zenon
<1>5. \/ result = "ok" /\ r.op = "set" /\ kernel' = KernelSet(r.route) /\ astray' = astray
      \/ result = "ok" /\ r.op = "del" /\ r.route \in kernel /\ kernel' = kernel \ {r.route} /\ astray' = astray
      \/ result = "ESRCH" /\ r.op = "del" /\ r.route \notin kernel /\ kernel' = kernel /\ astray' = astray
      \/ result = "EEXIST" /\ r.op = "set" /\ r.route \in kernel /\ kernel' = kernel /\ astray' = astray
      \/ result = "error" /\ kernel' = kernel /\ astray' = astray \cup {r.route.key}
  BY DEF KernelAnswers
<1>6. r \in RequestRecords
  BY <1>2
<1> HIDE DEF r
<1>7. k \notin astray
  BY <1>5
<1>8. Leads(Waiting, k, InKernel(k), Desired(k)) /\ Agrees(k)
  BY <1>7 DEF Sound
<1>9. Desired(k)' = Desired(k)
  BY <1>1 DEF Desired
<1>10. DOMAIN Waiting \subseteq Nat \ {0} /\ DOMAIN Waiting' \subseteq Nat \ {0}
  BY <1>3
<1>11. ASSUME r.route.key # k PROVE Leads(Waiting', k, InKernel(k)', Desired(k)')
  <2>1. InKernel(k)' = InKernel(k)
    BY <1>5, <1>11 DEF InKernel, KernelSet
  <2>2. \A i \in DOMAIN Waiting : i \in 0 + 1 .. 0 + 1 => Waiting[i].route.key # k
    BY <1>2, <1>3, <1>11
  <2>3. DOMAIN Waiting \subseteq Nat /\ DOMAIN Waiting' \subseteq Nat
    BY <1>10
  <2>4. Leads(Waiting', k, InKernel(k), Desired(k))
    BY <1>4, <1>8, <2>2, <2>3, LeadsLess, Zenon
  <2> QED BY <2>1, <2>4, <1>9
<1>12. ASSUME r.route.key = k PROVE Leads(Waiting', k, InKernel(k)', Desired(k)')
  <2>1. Follows(InKernel(k), r) /\ Leads(Waiting', k, Effect(r), Desired(k))
    BY <1>2, <1>4, <1>8, <1>10, <1>12, LeadsHead
  <2>2. InKernel(k)' = Effect(r)
    <3>1. r.route.key = k /\ result # "error"
      BY <1>5, <1>12
    <3>2. \A q \in InKernel(k) : InKernel(k) = {q} /\ IF r.op = "set" THEN q.table = r.route.table ELSE q = r.route
      BY <2>1 DEF Follows
    <3>3. CASE result = "ok" /\ r.op = "set" /\ kernel' = KernelSet(r.route)
      BY <3>1, <3>2, <3>3 DEF InKernel, KernelSet, Effect
    <3>4. CASE result = "ok" /\ r.op = "del" /\ r.route \in kernel /\ kernel' = kernel \ {r.route}
      BY <3>1, <3>2, <3>4 DEF InKernel, Effect
    <3>5. CASE result = "ESRCH" /\ r.op = "del" /\ r.route \notin kernel /\ kernel' = kernel
      BY <3>1, <3>2, <3>5 DEF InKernel, Effect
    <3>6. CASE result = "EEXIST" /\ r.op = "set" /\ r.route \in kernel /\ kernel' = kernel
      BY <3>1, <3>2, <3>6 DEF InKernel, Effect
    <3> QED BY <1>5, <3>1, <3>3, <3>4, <3>5, <3>6
  <2> QED BY <1>9, <2>1, <2>2
<1>13. \A i \in DOMAIN Waiting' : Waiting'[i].seq = rt'[k].seq =>
          Waiting'[i].op = IF rt'[k].set THEN "set" ELSE "del"
  BY <1>1, <1>4, <1>8 DEF Agrees, KeepsOrder
<1>14. \A i \in DOMAIN answers' : answers'[i].seq = rt'[k].seq =>
          answers'[i].result \in {"ok", IF rt'[k].set THEN "EEXIST" ELSE "ESRCH"}
  <2> TAKE i \in DOMAIN answers'
  <2> HAVE answers'[i].seq = rt'[k].seq
  <2> DEFINE e == [seq |-> r.seq, result |-> result]
  <2>1. e.seq = r.seq /\ e.result = result
    OBVIOUS
  <2> HIDE DEF e
  <2>2. answers \in Seq(AnswerRecords) /\ answers' = Append(answers, e)
    BY <1>1 DEF Typed, e
  <2>3. (i \in DOMAIN answers /\ answers'[i] = answers[i]) \/ answers'[i] = e
    BY <2>2
  <2>4. CASE answers'[i] = e
    <3>1. Waiting[1].seq = rt[k].seq /\ r.seq = rt[k].seq
      BY <1>1, <1>2, <2>1, <2>4
    <3>2. r.route.key = k
      BY <1>2, <3>1 DEF Numbers
    <3>3. r.op = IF rt[k].set THEN "set" ELSE "del"
      BY <1>2, <1>8, <3>1 DEF Agrees
    <3>4. result # "error"
      BY <1>5, <3>2
    <3> QED BY <1>1, <1>5, <2>1, <2>4, <3>3, <3>4
  <2>5. CASE i \in DOMAIN answers /\ answers'[i] = answers[i]
    BY <1>1, <1>8, <2>5 DEF Agrees
  <2> QED BY <2>3, <2>4, <2>5
<1>15. (rt'[k].set => rt'[k].table = param') /\ (phase' # "up" => ~rt'[k].set)
  BY <1>1, <1>8 DEF Agrees
<1> QED BY <1>11, <1>12, <1>13, <1>14, <1>15 DEF Agrees
(* A calculation: what is queued fits the routes before, what is not       *)
(* queued did not change or is known to be overtaken.                      *)
LEMMA SoundCalculation ==
    ASSUME Typed, Typed', Numbers, Numbers', Sound, changed,
           UNCHANGED <<kernel, sent, answers, param, phase>>, phase = "up",
           NEW nomem, NEW mixed, olsrv2_routing_force_update(nomem, mixed)
    PROVE  Sound'
<1> DEFINE new == Recalculated(RoutesOf[topo], nomem)
           queued == _process_dijkstra_result(new)
           overtaken == Overtaken(new)
<1>1. Consistent(rt)
  BY DEF Numbers
<1>2. /\ Prepared(new, queued) /\ Processed(new, queued, mixed, overtaken)
  BY <1>1, CalculationQueues
<1>3. \A k \in Keys :
         /\ new[k].set => new[k].table = param
         /\ ~new[k].set /\ new[k].used =>
               /\ new[k].table = param
               /\ new[k].hop = rt[k].hop /\ new[k].direct = rt[k].direct
         /\ ~new[k].used => new[k] = rt[k]
  BY <1>1, Calculation
<1>4. /\ \A k \in Keys : k \notin queued =>
            ~new[k].used \/ (new[k].set /\ rt[k].used /\ RouteOf(new[k], k) = RouteOf(rt[k], k))
      /\ \A k \in queued : k \in Keys /\ new[k].used
      /\ \A k \in Keys : k \notin overtaken =>
            (rt[k].used /\ new[k].set /\ RouteOf(new[k], k) = RouteOf(rt[k], k) => rt[k].set)
  BY DEF _process_dijkstra_result, Overtaken
<1> HIDE DEF new, queued, overtaken
<1>5. \A k \in Keys : k \notin astray' => k \notin overtaken
  BY <1>2 DEF Processed
<1>6. ASSUME NEW k \in Keys \ astray'
      PROVE  /\ rt[k].set /\ rt[k].table = param /\ k \in queued =>
                    IF new[k].set THEN rt[k].table = new[k].table
                                  ELSE RouteOf(rt[k], k) = RouteOf(new[k], k)
             /\ k \notin queued =>
                    new[k].set = rt[k].set /\ (rt[k].set => RouteOf(new[k], k) = RouteOf(rt[k], k))
             /\ new[k].set => new[k].table = param'
             /\ phase' # "up" => ~new[k].set
  <2>1. ASSUME rt[k].set, rt[k].table = param, k \in queued
        PROVE  IF new[k].set THEN rt[k].table = new[k].table
                             ELSE RouteOf(rt[k], k) = RouteOf(new[k], k)
    BY <1>3, <1>4, <2>1 DEF RouteOf
  <2>2. ASSUME k \notin queued
        PROVE  new[k].set = rt[k].set /\ (rt[k].set => RouteOf(new[k], k) = RouteOf(rt[k], k))
    <3>1. CASE ~new[k].used
      BY <1>3, <3>1
    <3>2. CASE new[k].set /\ rt[k].used /\ RouteOf(new[k], k) = RouteOf(rt[k], k)
      <4>1. rt[k].set /\ new[k].set
        BY <1>4, <1>5, <3>2
      <4>2. rt[k].set \in BOOLEAN /\ new[k].set \in BOOLEAN
        <5>1. rt[k] \in EntryRecords /\ new[k] \in EntryRecords
          BY <1>2 DEF Typed, Prepared
        <5> QED BY <5>1 DEF EntryRecords
      <4> QED BY <3>2, <4>1, <4>2
    <3> QED BY <1>4, <2>2, <3>1, <3>2
  <2>3. new[k].set => new[k].table = param'
    BY <1>3
  <2> QED BY <2>1, <2>2, <2>3
<1> QED BY <1>2, <1>6, SoundMore

(* New parameters and shutdown: all routes are taken back.                 *)
LEMMA SoundTakenBack ==
    ASSUME Typed, Typed', Numbers', Sound, UNCHANGED <<kernel, sent, answers>>,
           NEW new, Prepared(new, {j \in Keys : rt[j].set}),
           Processed(new, {j \in Keys : rt[j].set}, {}, {}),
           \A k \in Keys : ~new[k].set /\ RouteOf(new[k], k) = RouteOf(rt[k], k)
    PROVE  Sound'
<1> DEFINE mine == {j \in Keys : rt[j].set}
<1>1. Prepared(new, mine) /\ Processed(new, mine, {}, {})
  OBVIOUS
<1>2. \A k \in Keys : k \in mine <=> rt[k].set
  OBVIOUS
<1>3. \A k \in Keys : rt[k].set \in BOOLEAN /\ new[k].set \in BOOLEAN
  <2> TAKE k \in Keys
  <2>1. rt[k] \in EntryRecords /\ new[k] \in EntryRecords
    BY DEF Typed, Prepared
  <2> QED BY <2>1 DEF EntryRecords
<1> HIDE DEF mine
<1>4. \A k \in Keys \ astray' :
         /\ rt[k].set /\ rt[k].table = param /\ k \in mine =>
                IF new[k].set THEN rt[k].table = new[k].table
                              ELSE RouteOf(rt[k], k) = RouteOf(new[k], k)
         /\ k \notin mine =>
                new[k].set = rt[k].set /\ (rt[k].set => RouteOf(new[k], k) = RouteOf(rt[k], k))
         /\ new[k].set => new[k].table = param'
         /\ phase' # "up" => ~new[k].set
  BY <1>2, <1>3
<1> QED BY <1>1, <1>4, SoundMore
(* An answer leaves the route of an entry alone if it is the one that the  *)
(* entry expects; an entry that was to be removed is freed.                *)
LEMMA ExpectedAnswer ==
    ASSUME NEW r \in EntryRecords, NEW result, NEW k,
           result \in {"ok", IF r.set THEN "EEXIST" ELSE "ESRCH"}
    PROVE  LET t == _routing_finished(r, result)
           IN  /\ t.seq = 0 /\ t.set = r.set
               /\ r.set => RouteOf(t, k) = RouteOf(r, k)
<1> DEFINE q == [r EXCEPT !.seq = 0]
<1>1. q \in EntryRecords /\ q.seq = 0 /\ q.set = r.set /\ RouteOf(q, k) = RouteOf(r, k)
  BY DEF EntryRecords, RouteOf
<1> HIDE DEF q
<1>2. CASE r.set
  <2>1. _routing_finished(r, result) = [q EXCEPT !.in_processing = FALSE]
    BY <1>1, <1>2 DEF _routing_finished, _cb_route_finished, q
  <2> QED BY <1>1, <1>2, <2>1 DEF EntryRecords, RouteOf
<1>3. CASE ~r.set
  <2>1. _routing_finished(r, result) = NoEntry
    BY <1>1, <1>3 DEF _routing_finished, _cb_route_finished, _remove_entry, q
  <2>2. r.set = FALSE
    BY <1>3 DEF EntryRecords
  <2>3. NoEntry.seq = 0 /\ NoEntry.set = FALSE
    BY DEF NoEntry
  <2> QED BY <1>3, <2>1, <2>2, <2>3
<1> QED BY <1>2, <1>3

(* Every step keeps the requests sound.                                    *)
LEMMA SoundStep == Typed /\ Numbers /\ Sound /\ [Next]_vars => Sound'
<1> SUFFICES ASSUME Typed, Numbers, Sound, [Next]_vars PROVE Sound'
  OBVIOUS
<1>0. Consistent(rt) /\ Typed' /\ Numbers'
  BY NumbersStep DEF Numbers
<1>1. ASSUME UNCHANGED <<rt, kernel, astray, param, phase>>, Without(Waiting, Waiting', 0, 0),
             Without(answers, answers', 0, 0)
      PROVE  Sound'
  <2>1. \A i \in 0 + 1 .. 0 + 0 : Waiting[i].route.key \in astray'
    OBVIOUS
  <2>2. ASSUME NEW k \in Keys \ astray'
        PROVE  /\ rt'[k].seq \in {0, rt[k].seq}
               /\ rt'[k].set = rt[k].set /\ (rt[k].set => RouteOf(rt'[k], k) = RouteOf(rt[k], k))
               /\ rt[k].set /\ rt[k].table = param => rt'[k].table = param'
               /\ phase' # "up" => ~rt'[k].set
    BY <1>1 DEF Sound, Agrees
  <2>3. kernel' = kernel /\ astray \subseteq astray'
    BY <1>1
  <2> QED BY <1>0, <1>1, <2>1, <2>2, <2>3, SoundLess
<1>2. ASSUME UNCHANGED <<sent, nl>> PROVE Without(Waiting, Waiting', 0, 0)
  BY <1>2, WaitingTyped, TakenAway DEF Waiting
<1>3. ASSUME UNCHANGED answers PROVE Without(answers, answers', 0, 0)
  BY <1>3, TakenAway DEF Typed
<1>4. ASSUME NEW top \in Situations, NEW advertised \in BOOLEAN,
             olsrv2_routing_domain_changed(top, advertised)
      PROVE  Sound'
  BY <1>1, <1>2, <1>3, <1>4 DEF olsrv2_routing_domain_changed
<1>5. CASE TimerFiresIdle
  BY <1>1, <1>2, <1>3, <1>5 DEF TimerFiresIdle
<1>6. CASE _cb_trigger_dijkstra
  <2>1. /\ UNCHANGED <<kernel, sent, answers, param, phase>> /\ phase = "up"
        /\ \E nomem, mixed : olsrv2_routing_force_update(nomem, mixed)
    BY <1>6 DEF _cb_trigger_dijkstra
  <2>2. PICK nomem, mixed : olsrv2_routing_force_update(nomem, mixed)
    BY <2>1
  <2>3. CASE changed
    BY <1>0, <2>1, <2>2, <2>3, SoundCalculation
  <2>4. CASE ~changed
    <3>1. UNCHANGED <<rt, nl, astray>>
      BY <2>2, <2>4 DEF olsrv2_routing_force_update
    <3> QED BY <1>1, <1>2, <1>3, <2>1, <3>1
  <2> QED BY <2>3, <2>4
<1>7. ASSUME NEW freeze \in BOOLEAN, olsrv2_routing_freeze_routes(freeze)
      PROVE  Sound'
  BY <1>1, <1>2, <1>3, <1>7 DEF olsrv2_routing_freeze_routes
<1>8. ASSUME NEW t \in Tables, olsrv2_routing_set_domain_parameter(t)
      PROVE  Sound'
  <2>1. UNCHANGED <<kernel, sent, answers, phase>>
    BY <1>8 DEF olsrv2_routing_set_domain_parameter
  <2>2. ASSUME UNCHANGED <<rt, nl, astray>>, \A k \in Keys : ~rt[k].used
        PROVE  Sound'
    <3>1. \A i \in 0 + 1 .. 0 + 0 : Waiting[i].route.key \in astray'
      OBVIOUS
    <3>2. \A k \in Keys : ~rt[k].set
      BY <1>0, <2>2 DEF Consistent
    <3>3. \A k \in Keys \ astray' :
            /\ rt'[k].seq \in {0, rt[k].seq}
            /\ rt'[k].set = rt[k].set /\ (rt[k].set => RouteOf(rt'[k], k) = RouteOf(rt[k], k))
            /\ rt[k].set /\ rt[k].table = param => rt'[k].table = param'
            /\ phase' # "up" => ~rt'[k].set
      BY <2>2, <3>2
    <3>4. /\ kernel' = kernel /\ astray \subseteq astray'
          /\ Without(Waiting, Waiting', 0, 0) /\ Without(answers, answers', 0, 0)
      BY <1>2, <1>3, <2>1, <2>2
    <3> QED BY <1>0, <3>1, <3>3, <3>4, SoundLess
  <2>3. ASSUME Prepared(TakenBack, {j \in Keys : rt[j].set}),
               Processed(TakenBack, {j \in Keys : rt[j].set}, {}, {})
        PROVE  Sound'
    <3>1. \A k \in Keys : ~TakenBack[k].set /\ RouteOf(TakenBack[k], k) = RouteOf(rt[k], k)
      BY <1>0, NewParameters DEF TakenBack
    <3> QED BY <1>0, <2>1, <2>3, <3>1, SoundTakenBack
  <2> QED BY <1>0, <1>8, <2>2, <2>3, ParametersQueue
<1>9. CASE olsrv2_routing_initiate_shutdown
  <2>1. UNCHANGED <<kernel, sent, answers>>
    BY <1>9, Zenon DEF olsrv2_routing_initiate_shutdown
  <2>2. \A k \in Keys : ~GivenUp[k].set /\ RouteOf(GivenUp[k], k) = RouteOf(rt[k], k)
    BY <1>0, Shutdown, Zenon DEF GivenUp
  <2> QED BY <1>0, <1>9, <2>1, <2>2, ShutdownQueues, SoundTakenBack
<1>10. CASE olsrv2_routing_cleanup
  <2>1. /\ rt' = [k \in Keys |-> NoEntry] /\ answers' = <<>> /\ kernel' = kernel
        /\ phase = "shutdown" /\ astray \subseteq astray'
    BY <1>10 DEF olsrv2_routing_cleanup, _remove_entry
  <2>2. PICK n : /\ Without(Waiting, Waiting', Len(sent), n)
                 /\ \A i \in Len(sent) + 1 .. Len(sent) + n : Waiting[i].route.key \in astray'
    BY <1>10, SocketClosed
  <2>3. Without(answers, answers', 0, Len(answers))
    BY <2>1, TakenAway DEF Typed
  <2>4. ASSUME NEW k \in Keys \ astray'
        PROVE  /\ rt'[k].seq \in {0, rt[k].seq}
               /\ rt'[k].set = rt[k].set /\ (rt[k].set => RouteOf(rt'[k], k) = RouteOf(rt[k], k))
               /\ rt[k].set /\ rt[k].table = param => rt'[k].table = param'
               /\ phase' # "up" => ~rt'[k].set
    <3>1. ~rt[k].set
      BY <2>1 DEF Sound, Agrees
    <3>2. rt[k] \in EntryRecords
      BY DEF Typed
    <3>3. rt[k].set = FALSE
      BY <3>1, <3>2 DEF EntryRecords
    <3>4. rt'[k].seq = 0 /\ rt'[k].set = FALSE
      BY <2>1 DEF NoEntry
    <3> QED BY <3>3, <3>4
  <2> QED BY <1>0, <2>1, <2>2, <2>3, <2>4, SoundLess
<1>11. CASE FlushNothing
  <2>1. UNCHANGED <<rt, kernel, astray, param, phase, sent, answers>> /\ nl' = [nl EXCEPT !.write = FALSE]
    BY <1>11 DEF FlushNothing, daemon
  <2>2. Waiting' = Waiting
    BY <2>1 DEF Waiting, Typed, SocketRecords
  <2>3. Without(Waiting, Waiting', 0, 0)
    BY <2>2, WaitingTyped, TakenAway
  <2> QED BY <1>1, <1>3, <2>1, <2>3
<1>12. CASE _flush_netlink_buffer
  <2>1. UNCHANGED <<rt, kernel, astray, param, phase, answers>>
    BY <1>12 DEF _flush_netlink_buffer, daemon
  <2>2. Without(Waiting, Waiting', 0, 0)
    BY <1>12, Flushed, WaitingTyped, TakenAway
  <2> QED BY <1>1, <1>3, <2>1, <2>2
<1>13. CASE FlushFails
  <2>1. UNCHANGED <<rt, kernel, param, phase, answers>> /\ astray \subseteq astray'
    BY <1>13 DEF FlushFails, daemon
  <2>2. PICK n : /\ Without(Waiting, Waiting', Len(sent), n)
                 /\ \A i \in Len(sent) + 1 .. Len(sent) + n : Waiting[i].route.key \in astray'
    BY <1>13, PageLost
  <2>3. Without(answers, answers', 0, 0)
    BY <1>3, <2>1
  <2>4. ASSUME NEW k \in Keys \ astray'
        PROVE  /\ rt'[k].seq \in {0, rt[k].seq}
               /\ rt'[k].set = rt[k].set /\ (rt[k].set => RouteOf(rt'[k], k) = RouteOf(rt[k], k))
               /\ rt[k].set /\ rt[k].table = param => rt'[k].table = param'
               /\ phase' # "up" => ~rt'[k].set
    BY <2>1 DEF Sound, Agrees
  <2> QED BY <1>0, <2>1, <2>2, <2>3, <2>4, SoundLess
<1>14. CASE _netlink_handler
  <2> DEFINE a == Head(answers)
  <2>1. /\ UNCHANGED <<kernel, param, phase, sent, astray>> /\ answers # <<>> /\ answers' = Tail(answers)
        /\ rt' = _cb_rtnetlink_done(a) /\ nl' = _netlink_job_finished(nl)
    BY <1>14 DEF _netlink_handler, _handle_nl_err, daemon
  <2>2. /\ answers \in Seq(AnswerRecords) /\ a = answers[1] /\ 1 \in DOMAIN answers
    BY <2>1, EmptySeq DEF Typed
  <2> HIDE DEF a
  <2>3. Waiting' = Waiting
    BY <2>1 DEF Waiting, _netlink_job_finished, Typed, SocketRecords
  <2>4. Without(Waiting, Waiting', 0, 0) /\ Without(answers, answers', 0, 1)
    BY <2>1, <2>2, <2>3, WaitingTyped, TakenAway
  <2>5. \A i \in 0 + 1 .. 0 + 0 : Waiting[i].route.key \in astray'
    OBVIOUS
  <2>6. ASSUME NEW k \in Keys \ astray'
        PROVE  /\ rt'[k].seq \in {0, rt[k].seq}
               /\ rt'[k].set = rt[k].set /\ (rt[k].set => RouteOf(rt'[k], k) = RouteOf(rt[k], k))
               /\ rt[k].set /\ rt[k].table = param => rt'[k].table = param'
               /\ phase' # "up" => ~rt'[k].set
    <3>1. k \in Keys \ astray /\ Agrees(k)
      BY <2>1 DEF Sound
    <3>2. rt[k] \in EntryRecords
      BY DEF Typed
    <3>3. CASE rt[k].seq # a.seq
      <4>1. rt'[k] = rt[k]
        BY <2>1, <3>3 DEF _cb_rtnetlink_done
      <4> QED BY <2>1, <3>1, <4>1 DEF Agrees
    <3>4. CASE rt[k].seq = a.seq
      <4>1. a.result \in {"ok", IF rt[k].set THEN "EEXIST" ELSE "ESRCH"}
        BY <2>2, <3>1, <3>4 DEF Agrees
      <4>2. rt'[k] = _routing_finished(rt[k], a.result)
        BY <2>1, <3>4 DEF _cb_rtnetlink_done
      <4>3. rt'[k].seq = 0 /\ rt'[k].set = rt[k].set /\ (rt[k].set => RouteOf(rt'[k], k) = RouteOf(rt[k], k))
        BY <3>2, <4>1, <4>2, ExpectedAnswer
      <4>4. rt[k].set => rt'[k].table = rt[k].table
        BY <4>3 DEF RouteOf
      <4> QED BY <2>1, <3>1, <4>3, <4>4 DEF Agrees
    <3> QED BY <3>3, <3>4
  <2>7. kernel' = kernel /\ astray \subseteq astray'
    BY <2>1
  <2> QED BY <1>0, <2>4, <2>5, <2>6, <2>7, SoundLess
<1>15. CASE _cb_handle_netlink_timeout
  <2>1. /\ UNCHANGED <<kernel, param, phase, sent, astray, answers>>
        /\ rt' = _cb_rtnetlink_timeout /\ nl' = [nl EXCEPT !.msg_in_transit = 0, !.timeout = FALSE]
    BY <1>15 DEF _cb_handle_netlink_timeout, daemon
  <2>2. Waiting' = Waiting
    BY <2>1 DEF Waiting, Typed, SocketRecords
  <2>3. Without(Waiting, Waiting', 0, 0) /\ Without(answers, answers', 0, 0)
    BY <1>3, <2>1, <2>2, WaitingTyped, TakenAway
  <2>4. \A i \in 0 + 1 .. 0 + 0 : Waiting[i].route.key \in astray'
    OBVIOUS
  <2>5. ASSUME NEW k \in Keys \ astray'
        PROVE  /\ rt'[k].seq \in {0, rt[k].seq}
               /\ rt'[k].set = rt[k].set /\ (rt[k].set => RouteOf(rt'[k], k) = RouteOf(rt[k], k))
               /\ rt[k].set /\ rt[k].table = param => rt'[k].table = param'
               /\ phase' # "up" => ~rt'[k].set
    <3>1. k \in Keys \ astray /\ Agrees(k)
      BY <2>1 DEF Sound
    <3>2. rt'[k].seq = 0 /\ rt'[k].set = rt[k].set /\ RouteOf(rt'[k], k) = RouteOf(rt[k], k)
      BY <1>0, <2>1, TimedOut
    <3>3. rt'[k].table = rt[k].table
      BY <3>2 DEF RouteOf
    <3> QED BY <2>1, <3>1, <3>2, <3>3 DEF Agrees
  <2>6. kernel' = kernel /\ astray \subseteq astray'
    BY <2>1
  <2> QED BY <1>0, <2>3, <2>4, <2>5, <2>6, SoundLess
<1>16. ASSUME NEW result \in Results, KernelAnswers(result) PROVE Sound'
  BY <1>0, <1>16, SoundAnswered
<1>17. CASE Halted \/ UNCHANGED vars
  BY <1>1, <1>2, <1>3, <1>17 DEF Halted, vars
<1> QED
  BY <1>4, <1>5, <1>6, <1>7, <1>8, <1>9, <1>10, <1>11, <1>12, <1>13, <1>14, <1>15, <1>16, <1>17
     DEF Next, Routing, Netlink, Kernel

(* Outside of the changes that the code is known to lose, the kernel has   *)
(* exactly the routes of the routing set once the requests for a           *)
(* destination are worked through, whatever order calculations, timeouts,  *)
(* late answers, new parameters and shutdown come in.                      *)
THEOREM KernelMatchesRoutes == Spec => []KernelMatches
<1>1. Init => Sound
  <2> SUFFICES ASSUME Init, NEW k \in Keys PROVE Leads(Waiting, k, InKernel(k), Desired(k)) /\ Agrees(k)
    BY DEF Sound
  <2>1. rt[k] = NoEntry /\ NoEntry.set = FALSE /\ NoEntry.seq = 0
    BY DEF Init, NoEntry
  <2>2. Waiting = <<>> /\ answers = <<>> /\ DOMAIN <<>> = {} /\ kernel = {} /\ phase = "up"
    BY DEF Init, Waiting, NoSocket
  <2>3. Pending(Waiting, k) = {} /\ InKernel(k) = Desired(k)
    BY <2>1, <2>2 DEF Pending, InKernel, Desired
  <2>4. Leads(Waiting, k, InKernel(k), Desired(k))
    BY <2>3 DEF Leads
  <2> QED BY <2>1, <2>2, <2>4 DEF Agrees
<1>2. Typed /\ Numbers /\ Sound /\ [Next]_vars => Sound'
  BY SoundStep
<1>3. Sound => KernelMatches
  <2> SUFFICES ASSUME Sound, NEW k \in Keys \ astray, \A r \in ToSet(Waiting) : r.route.key # k
               PROVE  {r \in kernel : r.key = k} = IF rt[k].set THEN {RouteOf(rt[k], k)} ELSE {}
    BY DEF KernelMatches
  <2>1. Pending(Waiting, k) = {}
    BY DEF Pending, ToSet
  <2>2. InKernel(k) = Desired(k)
    BY <2>1 DEF Sound, Leads
  <2> QED BY <2>2 DEF InKernel, Desired
<1> QED BY <1>1, <1>2, <1>3, NumbersInvariant, PTL DEF Spec
=============================================================================
