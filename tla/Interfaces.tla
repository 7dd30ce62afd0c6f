------------------------------ MODULE Interfaces ------------------------------
(***************************************************************************)
(* Interfaces of the operating system                                      *)
(* (src/src/base/os_linux/os_interface_linux.c) with the addresses NHDP    *)
(* keeps of its interface (src/src/nhdp/nhdp/nhdp_interfaces.c) and the    *)
(* plugin that gives this interface an IPv4 link-local address             *)
(* (src/src/nhdp/auto_ll4/auto_ll4.c).  Events of the kernel and answers to *)
(* address changes share one socket, dumps come over a second one.         *)
(***************************************************************************)
EXTENDS Integers, FiniteSets, FiniteSetsExt, Sequences

\* What the program knows and changes of the interfaces of the operating
\* system, as operators on one record: the interfaces with their listeners,
\* the two queries that fill them, the count of mesh interfaces and the
\* settings under /proc.

CONSTANTS Ifs,      \* names of interfaces, the wildcard included
          AnyIf,      \* the wildcard interface
          IfOf,     \* interface of every listener
          Mesh      \* listeners that need a mesh interface
Listeners == DOMAIN IfOf
NoFault == "none"
Unset == -1     \* a value that was never saved
ASSUME InterfaceAssumption == AnyIf \in Ifs /\ IfOf \in [Listeners -> Ifs] /\ Mesh \subseteq {l \in Listeners : IfOf[l] # AnyIf}

NoInterface == [alive |-> FALSE, up |-> FALSE, link |-> FALSE, addr |-> FALSE, addresses |-> {}, timer |-> FALSE,
                listeners |-> {}, dirty |-> {}, configured |-> FALSE, ignore_mesh |-> FALSE,
                mesh_counter |-> 0, mesh |-> FALSE, original |-> Unset]
NoQuery == [link |-> FALSE, address |-> FALSE, trigger_link |-> FALSE, trigger_address |-> FALSE]

-----------------------------------------------------------------------------
(* queries *)

QueriesDone(q) == ~q.link /\ ~q.address
_query_interface_links(q) == IF QueriesDone(q) THEN [q EXCEPT !.trigger_link = FALSE, !.link = TRUE] ELSE q
_query_interface_addresses(q) == IF QueriesDone(q) THEN [q EXCEPT !.trigger_address = FALSE, !.address = TRUE] ELSE q
_process_end_of_query(q) ==
  LET over == IF q.link THEN [q EXCEPT !.link = FALSE] ELSE [q EXCEPT !.address = FALSE]
  IN IF q.trigger_address /\ (q.link \/ ~q.trigger_link) THEN _query_interface_addresses(over)
     ELSE IF q.trigger_link THEN _query_interface_links(over) ELSE over
GivesUp(q) == _process_end_of_query(q)
_process_bad_end_of_query(q) ==
  _process_end_of_query([q EXCEPT !.trigger_link = @ \/ q.link, !.trigger_address = @ \/ q.address])

-----------------------------------------------------------------------------
(* mesh settings: the files of an interface and the global ones each as one *)

\* A value that was never saved is not written.
_os_linux_writeToFile(old, value) == IF value = Unset THEN old ELSE value
Saved(saved, old, value) == IF old # value THEN old ELSE saved

_activate_if_routing(s) ==
  [s EXCEPT !.original = Saved(@, s.proc.forward, 1), !.proc.forward = _os_linux_writeToFile(@, 1)]
_deactivate_if_routing(s) == [s EXCEPT !.proc.forward = _os_linux_writeToFile(@, s.original)]

_refresh_mesh(s, i) == [s EXCEPT !.proc.conf[i] = _os_linux_writeToFile(@, 0)]
_init_mesh(s, i) ==
  LET counted == [s EXCEPT !.os[i].mesh = TRUE, !._mesh_count = @ + 1]
      routing == IF counted._mesh_count = 1 THEN _activate_if_routing(counted) ELSE counted
  IN IF i = AnyIf \/ s.os[i].mesh THEN s
     ELSE _refresh_mesh([routing EXCEPT !.os[i].original = Saved(@, s.proc.conf[i], 0)], i)

\* The mesh flag of the interface stays set.
_cleanup_mesh(s, i) ==
  LET restored == [s EXCEPT !.proc.conf[i] = _os_linux_writeToFile(@, s.os[i].original), !._mesh_count = @ - 1]
  IN IF i = AnyIf \/ ~s.os[i].mesh THEN s
     ELSE IF restored._mesh_count = 0 THEN _deactivate_if_routing(restored) ELSE restored

-----------------------------------------------------------------------------
(* interfaces and listeners *)

_add_interface(s, i) ==
  IF s.os[i].alive THEN s
  ELSE [s EXCEPT !.os[i] = [NoInterface EXCEPT !.alive = TRUE, !.up = (i = AnyIf)],
                 !.q = _query_interface_links([@ EXCEPT !.trigger_link = TRUE, !.trigger_address = TRUE])]
_remove_interface(s, i) ==
  IF s.os[i].listeners # {} \/ s.os[i].configured THEN s
  ELSE [_cleanup_mesh(s, i) EXCEPT !.os[i] = NoInterface]

os_interface_linux_add(s, l) ==
  LET i == IfOf[l]
      added == [_add_interface(s, i) EXCEPT !.os[i].listeners = @ \cup {l}]
      first == added.os[i].mesh_counter = 0 /\ ~added.os[i].ignore_mesh
      mesh == IF first THEN _init_mesh(added, i) ELSE added
      counted == IF l \in Mesh THEN [mesh EXCEPT !.os[i].mesh_counter = @ + 1] ELSE added
  IN [counted EXCEPT !.os[i].dirty = @ \cup {l}, !.os[i].timer = TRUE]

os_interface_linux_remove(s, l) ==
  LET i == IfOf[l]
      counted == IF l \in Mesh THEN [s EXCEPT !.os[i].mesh_counter = @ - 1] ELSE s
      cleaned == IF l \in Mesh /\ counted.os[i].mesh_counter = 0 THEN _cleanup_mesh(counted, i) ELSE counted
  IN _remove_interface([cleaned EXCEPT !.os[i].listeners = @ \ {l}, !.os[i].dirty = @ \ {l}], i)
os_interface_linux_trigger_handler(s, l) ==
  [s EXCEPT !.os[IfOf[l]].dirty = @ \cup {l}, !.os[IfOf[l]].timer = TRUE]

_cb_cfg_changed(s, i, on, ignore) ==
  LET parsed == IF s.os[i].alive \/ on THEN [_add_interface(s, i) EXCEPT !.os[i].ignore_mesh = on /\ ignore] ELSE s
      off == [parsed EXCEPT !.os[i].configured = FALSE]
      set == [parsed EXCEPT !.os[i].configured = TRUE]
  IN IF ~on THEN IF ~parsed.os[i].alive THEN parsed
                 ELSE _remove_interface(IF off.os[i].mesh_counter > 0 THEN _cleanup_mesh(off, i) ELSE off, i)
     ELSE IF ignore \/ set.os[i].mesh_counter = 0 THEN _cleanup_mesh(set, i) ELSE _init_mesh(set, i)

\* Nobody becomes dirty while the timer runs.
_trigger_if_change(s, i) ==
  IF ~s.os[i].alive THEN s
  ELSE [s EXCEPT !.os[i].dirty = IF s.os[i].timer THEN @ ELSE s.os[i].listeners,
                 !.os[i].timer = TRUE]
_trigger_if_change_including_any(s, i) == _trigger_if_change(_trigger_if_change(s, i), AnyIf)

_link_parse_nlmsg(s, i, up) ==
  LET known == [s EXCEPT !.os[i].up = up, !.os[i].link = TRUE]
      refresh == ~s.os[i].up /\ up /\ s.os[i].mesh /\ ~s.os[i].ignore_mesh
  IN IF ~s.os[i].alive THEN s
     ELSE _trigger_if_change_including_any(IF refresh THEN _refresh_mesh(known, i) ELSE known, i)
_address_parse_nlmsg(s, i, a, new) ==
  IF ~s.os[i].alive THEN s
  ELSE _trigger_if_change_including_any(
         [s EXCEPT !.os[i].addresses = IF new THEN @ \cup {a} ELSE @ \ {a}, !.os[i].addr = TRUE], i)

Initialized(s, i) == i = AnyIf \/ (s.os[i].link /\ s.os[i].addr)

\* The timer calls the dirty listeners; it starts again if one of them failed.
_cb_delayed_interface_changed(s, i, failed) ==
  [s EXCEPT !.os[i].timer = Initialized(s, i) /\ s.os[i].dirty \cap failed # {},
            !.os[i].dirty = IF Initialized(s, i) THEN @ \cap failed ELSE @]

-----------------------------------------------------------------------------
CONSTANTS LinkLocal,  \* IPv4 link-local addresses, numbers
          Default,    \* the one calculated from the IPv6 link-local address
          Nhdp,       \* listener of the interface NHDP uses
          IfBudgets     \* how often each actor may act
Global == 0           \* an IPv4 address of the user
V6 == -1              \* the IPv6 link-local address
NoIp == -2
ASSUME LinkLocalAssumption == LinkLocal \subseteq Nat \ {0} /\ Default \in LinkLocal /\ Nhdp \in Mesh
If == IfOf[Nhdp]
Real == Ifs \ {AnyIf}

VARIABLES sys,       \* interfaces, queries, mesh count and settings
          kernel,    \* state of the interfaces, requests to it, events and the dump
          nhdp,      \* addresses NHDP knows and the ones that are gone but held, and a history
          ll4,       \* the plugin
          neighbors, \* link-local addresses of the neighborhood
          ifFault, ifBudget
ifVars == <<sys, kernel, nhdp, ll4, neighbors, ifFault, ifBudget>>

IfSpend(kind) == ifBudget[kind] > 0 /\ ifBudget' = [ifBudget EXCEPT ![kind] = @ - 1]
IfRunning == ifFault = NoFault

\* missed is a history: the timer found the interface down.
NoLl4 == [on |-> FALSE, active |-> FALSE, generated |-> FALSE, addr |-> NoIp, timer |-> FALSE,
          address |-> NoIp, set |-> FALSE, listed |-> FALSE, seq |-> 0, missed |-> FALSE]
\* alone is a history: no other listener has been on the interface beside NHDP.
NoNhdp == [held |-> {}, removed |-> {}, alone |-> FALSE]
IfInit ==
  /\ \E forward \in {0, 1} :
       sys = [os |-> [i \in Ifs |-> NoInterface], q |-> NoQuery, _mesh_count |-> 0, original |-> Unset,
              proc |-> [forward |-> forward, conf |-> [i \in Real |-> 1]]]
  /\ kernel = [up |-> [i \in Real |-> TRUE], addrs |-> [i \in Real |-> {V6}], requests |-> <<>>, events |-> <<>>,
               dump |-> <<>>, forward |-> sys.proc.forward]
  /\ nhdp = NoNhdp /\ ll4 = NoLl4 /\ neighbors = {} /\ ifFault = NoFault
  /\ ifBudget \in IfBudgets

-----------------------------------------------------------------------------
(* the kernel *)

Link(i, up) == [type |-> "link", if |-> i, up |-> up]
Address(i, a, new) == [type |-> "address", if |-> i, a |-> a, new |-> new]
Answer(seq, error) == [type |-> "answer", seq |-> seq, error |-> error]

KernelLink(i) ==
  /\ IfRunning /\ IfSpend("link")
  /\ kernel' = [kernel EXCEPT !.up[i] = ~@, !.events = Append(@, Link(i, ~kernel.up[i]))]
  /\ UNCHANGED <<sys, nhdp, ll4, neighbors, ifFault>>
UserAddress(i, a) ==
  /\ IfRunning /\ IfSpend("user")
  /\ LET new == a \notin kernel.addrs[i]
     IN kernel' = [kernel EXCEPT !.addrs[i] = IF new THEN @ \cup {a} ELSE @ \ {a}, !.events = Append(@, Address(i, a, new))]
  /\ UNCHANGED <<sys, nhdp, ll4, neighbors, ifFault>>
\* A change tells the listeners before it is answered; the kernel may refuse it.
KernelHandlesRequest(refused) ==
  LET r == Head(kernel.requests)
      useless == r.set = (r.address \in kernel.addrs[If])
      left == [kernel EXCEPT !.requests = Tail(@)]
  IN /\ IfRunning /\ kernel.requests # <<>>
     /\ refused => ~useless
     /\ IF refused THEN IfSpend("refuse") ELSE UNCHANGED ifBudget
     /\ kernel' = IF refused THEN [left EXCEPT !.events = Append(@, Answer(r.seq, "refused"))]
                  ELSE IF useless THEN [left EXCEPT !.events = Append(@, Answer(r.seq, "useless"))]
                  ELSE [left EXCEPT !.addrs[If] = IF r.set THEN @ \cup {r.address} ELSE @ \ {r.address},
                                    !.events = @ \o <<Address(If, r.address, r.set), Answer(r.seq, NoFault)>>]
     /\ UNCHANGED <<sys, nhdp, ll4, neighbors, ifFault>>
\* The dump is a picture of the time the kernel answers the query.
KernelDumps ==
  /\ IfRunning /\ ~QueriesDone(sys.q) /\ kernel.dump = <<>>
  /\ kernel' = [kernel EXCEPT !.dump =
       <<IF sys.q.link THEN {Link(i, kernel.up[i]) : i \in Real}
         ELSE UNION {{Address(i, a, TRUE) : a \in kernel.addrs[i]} : i \in Real}>>]
  /\ UNCHANGED <<sys, nhdp, ll4, neighbors, ifFault, ifBudget>>

-----------------------------------------------------------------------------
(* the plugin *)

os_interface_linux_address_set(address, set, p) ==
  /\ kernel' = [kernel EXCEPT !.requests = Append(@, [address |-> address, set |-> set, seq |-> p.seq + 1])]
  /\ IF p.listed THEN ifFault' = "list" /\ UNCHANGED ll4
     ELSE ll4' = [p EXCEPT !.listed = p.on, !.seq = @ + 1] /\ UNCHANGED ifFault
_commit_address(p, address, set) ==
  os_interface_linux_address_set(address, set, [p EXCEPT !.address = address, !.set = set, !.generated = set])

IPv4 == sys.os[If].addresses \ {V6}
\* The address in use if the interface has it, else the last link-local one.
_get_current_if_ipv4_addresscount(p) ==
  LET local == IPv4 \cap LinkLocal
  IN IF local = {} THEN NoIp ELSE IF p.addr \in local THEN p.addr ELSE Max(local)
_nhdp_if_has_collision(a) == a = NoIp \/ a \in neighbors
_generate_default_address == IF V6 \in sys.os[If].addresses THEN Default ELSE NoIp

Candidates(wanted) == IF _nhdp_if_has_collision(wanted) THEN {a \in LinkLocal : ~_nhdp_if_has_collision(a)} ELSE {wanted}
_cb_update_timer ==
  LET current == _get_current_if_ipv4_addresscount(ll4)
      count == Cardinality(IPv4)
      off == [ll4 EXCEPT !.timer = FALSE, !.missed = ~sys.os[If].up]
      ours == ll4.generated /\ current = ll4.addr
      known == IF count = 1 THEN current ELSE ll4.addr
      wanted == IF known = NoIp THEN _generate_default_address ELSE known
      same == UNCHANGED <<kernel, ifFault>>
  IN /\ IfRunning /\ ll4.timer
     /\ \/ ~sys.os[If].up /\ ll4' = off /\ same
        \/ /\ sys.os[If].up /\ (~ll4.active \/ count > 1)
           /\ IF ours /\ (ll4.active \/ count = 1) THEN _commit_address(off, current, FALSE) ELSE ll4' = off /\ same
        \/ /\ sys.os[If].up /\ ll4.active /\ count = 1 /\ current = NoIp
           /\ ll4' = off /\ same
        \/ /\ sys.os[If].up /\ ll4.active /\ (count = 0 \/ (count = 1 /\ current # NoIp))
           /\ \E a \in Candidates(wanted) :
                IF a = current THEN ll4' = [off EXCEPT !.addr = a] /\ same
                ELSE IF current # NoIp THEN _commit_address([off EXCEPT !.addr = a], current, FALSE)
                ELSE _commit_address([off EXCEPT !.addr = a], a, TRUE)
     /\ UNCHANGED <<sys, nhdp, neighbors, ifBudget>>

\* Changes of addresses of the interface and of the neighborhood.
_cb_ifaddr_change(p) == [p EXCEPT !.timer = @ \/ p.on]
_cb_laddr_change(a) ==
  /\ IfRunning /\ IfSpend("neighbor")
  /\ neighbors' = IF a \in neighbors THEN neighbors \ {a} ELSE neighbors \cup {a}
  /\ ll4' = _cb_ifaddr_change(ll4)
  /\ UNCHANGED <<sys, kernel, nhdp, ifFault>>
_cb_address_finished(p, error) == [p EXCEPT !.timer = @ \/ (p.on /\ error = "refused")]

\* NHDP's interface is a listener of the operating system's one.
nhdp_interface_add(s) == os_interface_linux_add(s, Nhdp)
nhdp_interface_remove(s) == os_interface_linux_remove(s, Nhdp)
\* The section of the interface comes, changes and goes, and with it NHDP's interface.
_cb_if_cfg_changed(active) ==
  /\ IfRunning /\ IfSpend("config")
  /\ sys' = IF ll4.on THEN sys ELSE nhdp_interface_add(sys)
  /\ ll4' = [ll4 EXCEPT !.on = TRUE, !.active = active, !.timer = @ \/ ~ll4.generated]
  /\ nhdp' = [nhdp EXCEPT !.alone = IF ll4.on THEN @ ELSE sys.os[If].listeners = {}]
  /\ UNCHANGED <<kernel, neighbors, ifFault>>
_cb_remove_nhdp_interface ==
  /\ IfRunning /\ ll4.on /\ IfSpend("config")
  /\ IF ll4.active /\ ll4.generated
     THEN kernel' = [kernel EXCEPT !.requests = Append(@, [address |-> ll4.address, set |-> FALSE, seq |-> 0])]
     ELSE UNCHANGED kernel
  /\ sys' = nhdp_interface_remove(sys)
  /\ ll4' = [NoLl4 EXCEPT !.seq = ll4.seq] /\ nhdp' = NoNhdp /\ neighbors' = {}
  /\ UNCHANGED ifFault

-----------------------------------------------------------------------------
(* NHDP *)

_addr_add(n, current) == [n EXCEPT !.held = @ \cup current, !.removed = @ \ current]
_addr_has_been_removed(n, current) == [n EXCEPT !.removed = @ \cup (n.held \ current)]
Current == IF sys.os[If].up THEN sys.os[If].addresses ELSE {}
_cb_interface_event ==
  /\ nhdp' = _addr_has_been_removed(_addr_add(nhdp, Current), Current)
  /\ ll4' = IF Current \subseteq nhdp.held THEN ll4 ELSE _cb_ifaddr_change(ll4)
_cb_addr_timeout(a) ==
  /\ IfRunning /\ a \in nhdp.removed
  /\ nhdp' = [nhdp EXCEPT !.held = @ \ {a}, !.removed = @ \ {a}]
  /\ ll4' = _cb_ifaddr_change(ll4)
  /\ UNCHANGED <<sys, kernel, neighbors, ifFault, ifBudget>>

-----------------------------------------------------------------------------
(* events of the interfaces *)

AddListener(l) ==
  /\ IfRunning /\ l # Nhdp /\ l \notin sys.os[IfOf[l]].listeners /\ IfSpend("listener")
  /\ sys' = os_interface_linux_add(sys, l)
  /\ nhdp' = [nhdp EXCEPT !.alone = @ /\ IfOf[l] # If]
  /\ UNCHANGED <<kernel, ll4, neighbors, ifFault>>
RemoveListener(l) ==
  /\ IfRunning /\ l # Nhdp /\ l \in sys.os[IfOf[l]].listeners /\ IfSpend("listener")
  /\ sys' = os_interface_linux_remove(sys, l)
  /\ UNCHANGED <<kernel, nhdp, ll4, neighbors, ifFault>>
TriggerHandler(l) ==
  /\ IfRunning /\ l \in sys.os[IfOf[l]].listeners /\ IfSpend("listener")
  /\ sys' = os_interface_linux_trigger_handler(sys, l)
  /\ UNCHANGED <<kernel, nhdp, ll4, neighbors, ifFault>>
InterfaceConfig(i, on, ignore) ==
  /\ IfRunning /\ IfSpend("ifconfig")
  /\ sys' = _cb_cfg_changed(sys, i, on, ignore)
  /\ UNCHANGED <<kernel, nhdp, ll4, neighbors, ifFault>>

Apply(s, m) == IF m.type = "link" THEN _link_parse_nlmsg(s, m.if, m.up) ELSE _address_parse_nlmsg(s, m.if, m.a, m.new)
_cb_rtnetlink_message ==
  LET m == Head(kernel.events)
      mine == ll4.listed /\ m.seq = ll4.seq
  IN /\ IfRunning /\ kernel.events # <<>>
     /\ kernel' = [kernel EXCEPT !.events = Tail(@)]
     /\ \/ m.type # "answer" /\ sys' = Apply(sys, m) /\ UNCHANGED ll4
        \/ /\ m.type = "answer" /\ UNCHANGED sys
           /\ ll4' = IF mine THEN _cb_address_finished([ll4 EXCEPT !.listed = FALSE], m.error) ELSE ll4
     /\ UNCHANGED <<nhdp, neighbors, ifFault, ifBudget>>
\* Without an answer the loop over the requests goes on behind the one it removed.
_cb_rtnetlink_timeout ==
  /\ IfRunning /\ (kernel.requests # <<>> \/ kernel.events # <<>>) /\ IfSpend("timeout")
  /\ ifFault' = IF ll4.listed THEN "removed node" ELSE ifFault
  /\ UNCHANGED <<sys, kernel, nhdp, ll4, neighbors>>
_cb_query_done ==
  /\ IfRunning /\ kernel.dump # <<>>
  /\ LET read == FoldSet(LAMBDA m, s : Apply(s, m), sys, Head(kernel.dump))
     IN sys' = [read EXCEPT !.q = _process_end_of_query(@)]
  /\ kernel' = [kernel EXCEPT !.dump = <<>>]
  /\ UNCHANGED <<nhdp, ll4, neighbors, ifFault, ifBudget>>
\* Error or timeout: the answer, if there is one, is lost.
_cb_query_error ==
  /\ IfRunning /\ ~QueriesDone(sys.q) /\ IfSpend("error")
  /\ sys' = [sys EXCEPT !.q = _process_bad_end_of_query(@)]
  /\ kernel' = [kernel EXCEPT !.dump = <<>>]
  /\ UNCHANGED <<nhdp, ll4, neighbors, ifFault>>
InterfaceTimer(i, failed) ==
  LET called == IF Initialized(sys, i) THEN sys.os[i].dirty \ failed ELSE {}
  IN /\ IfRunning /\ sys.os[i].timer
     /\ IF failed = {} THEN UNCHANGED ifBudget ELSE IfSpend("failure")
     /\ sys' = _cb_delayed_interface_changed(sys, i, failed)
     /\ IF Nhdp \in called THEN _cb_interface_event ELSE UNCHANGED <<nhdp, ll4>>
     /\ UNCHANGED <<kernel, neighbors, ifFault>>

-----------------------------------------------------------------------------
IfNext ==
  \/ \E i \in Real : KernelLink(i) \/ (\E a \in {Global, V6} : UserAddress(i, a))
  \/ \E refused \in BOOLEAN : KernelHandlesRequest(refused)
  \/ KernelDumps \/ _cb_query_done \/ _cb_query_error
  \/ _cb_rtnetlink_message \/ _cb_rtnetlink_timeout
  \/ _cb_update_timer \/ _cb_remove_nhdp_interface
  \/ \E a \in LinkLocal : _cb_laddr_change(a)
  \/ \E active \in BOOLEAN : _cb_if_cfg_changed(active)
  \/ \E a \in nhdp.removed : _cb_addr_timeout(a)
  \/ \E l \in Listeners : AddListener(l) \/ RemoveListener(l) \/ TriggerHandler(l)
  \/ \E i \in Real, on \in BOOLEAN, ignore \in BOOLEAN : InterfaceConfig(i, on, ignore)
  \/ \E i \in Ifs : \E failed \in SUBSET sys.os[i].dirty : InterfaceTimer(i, failed)

-----------------------------------------------------------------------------
\* Between two events the bookkeeping of the interfaces agrees: the mesh counter
\* with the listeners that asked for mesh settings, an interface with its users,
\* and at most one query is under way (os_interface_linux.c).
InterfaceCounts ==
  /\ \A i \in Ifs : /\ sys.os[i].dirty \subseteq sys.os[i].listeners
                    /\ sys.os[i].mesh_counter = Cardinality(sys.os[i].listeners \cap Mesh)
                    /\ (sys.os[i].alive <=> sys.os[i].listeners # {} \/ sys.os[i].configured)
  /\ ~(sys.q.link /\ sys.q.address)
  /\ nhdp.removed \subseteq nhdp.held
  /\ (ll4.on <=> Nhdp \in sys.os[If].listeners)

\* Whatever queries fail and whatever events arrive between them: once both
\* queries are done and no event is under way, every address the kernel has is
\* known for every interface in use (os_interface_linux.c, the trigger flags
\* and _process_bad_end_of_query).  The reverse does not hold: a dump may bring
\* back an address whose removal came first over the other socket.
AddressesKnown ==
  IfRunning /\ QueriesDone(sys.q) /\ kernel.events = <<>> =>
    \A i \in Real : sys.os[i].alive => kernel.addrs[i] \subseteq sys.os[i].addresses

\* A listener that is marked, by its own request, by a change that found the
\* timer stopped or by a failure, is called: the timer runs, or the interface
\* has not been read completely and reading it starts the timer
\* (_cb_delayed_interface_changed).  It says nothing of listeners a change did
\* not mark, see ListenerInformed.
DirtyIsPending ==
  IfRunning => \A i \in Ifs : sys.os[i].dirty # {} => sys.os[i].timer \/ ~Initialized(sys, i)

\* Every change of an interface informs a listener that has it for itself: when
\* the interface is read and its timer has called those who are marked, NHDP
\* holds exactly the addresses the interface has now, whatever failed, came and
\* went before.  Beside another listener this does not hold, although the
\* comments say that all listeners are informed: a change marks nobody while
\* the timer runs, which the other one may have started (_trigger_if_change).
ListenerInformed ==
  IfRunning /\ nhdp.alone /\ Initialized(sys, If) /\ ~sys.os[If].timer => nhdp.held \ nhdp.removed = Current

\* When the last user of the interfaces is gone, in whatever order they came
\* and went, the settings of the kernel are the ones before the first
\* (_cleanup_mesh, _deactivate_if_routing).
KernelRestored ==
  (\A i \in Ifs : ~sys.os[i].alive) => sys.proc.forward = kernel.forward /\ \A i \in Real : sys.proc.conf[i] = 1

\* When nothing is under way, an interface without an address of the user has no
\* link-local address that somebody in the neighborhood uses, the plugin's own
\* one if it thinks that it set one, and never two, after collisions, refused
\* changes and addresses the user added and took away (_cb_update_timer).  That
\* it has one at all does not hold: the plugin is not called when its address
\* comes and goes within the delay of the interface events, nor when a link that
\* was down comes up.  Beside an address of the user an own one may stay: a
\* refused removal is not repeated because plugin_generated is already false.
\* Neither does it hold while an address is only remembered that a dump brought back.
Quiet == /\ sys.os[If].addresses \subseteq kernel.addrs[If] /\ QueriesDone(sys.q) /\ kernel.events = <<>> /\ kernel.requests = <<>> /\ ~ll4.timer /\ nhdp.removed = {}
         /\ ~sys.os[If].timer
LinkLocalSettles ==
  IfRunning /\ Quiet /\ ll4.active /\ ~ll4.missed /\ Global \notin kernel.addrs[If] =>
    LET local == kernel.addrs[If] \cap LinkLocal
    IN /\ local \cap neighbors = {}
       /\ Cardinality(local) <= 1
       /\ ll4.generated => local = {ll4.addr}

=============================================================================
