# OONF: TLA+ models, checks and proofs

OONF is a routing daemon for mesh networks: NHDP (RFC 6130) finds the neighbors
of a router with HELLO messages, OLSRv2 (RFC 7181) floods TC messages, stores
the topology of the network, computes routes and writes them to the kernel; DLEP
(RFC 8175) tells a router what its radio knows. A framework of timers, object
classes, sockets, an RFC 5444 library, a layer 2 database and a configuration
carries them. The daemon has one thread and one event loop. What makes it hard
is not parallelism but order: messages that are lost, repeated, delayed and
damaged, timers that fire in any order, a kernel and peers that answer late,
memory that runs out in the middle of a message, and hand-maintained pointers,
indexes and counters between objects that come and go.

The models are written from the code, with the names of the code. `PROJECT.json`
maps the definitions to their lines (a helper inside the lines of a listed
definition is not listed again), lists every component and its state of
modelling, and every hazard with the line at which it bites.

1. Inventory  2. Modules  3. Runs  4. Findings and observations  5. Proofs
6. Plan  7. Not modelled

## 1. Inventory

Paths are relative to `src/src/`.

| part | state | operations | what must hold |
|---|---|---|---|
| duplicate set (`base/oonf_duplicate_set.c`) | per originator: newest number, bit window, count of too old numbers | add, validity timeout, remove | nothing is accepted twice, nothing is rejected wrongly, across rollover and restart of the originator |
| NHDP database (`nhdp/nhdp/nhdp_db.c`) | neighbors, links, addresses, two-hop addresses, two originator indexes, dualstack partners, five kinds of timers, counters | one function per change, timers | no dangling pointer, exact indexes and counters, everything is forgotten in the end |
| HELLO reader (`nhdp/nhdp/nhdp_reader.c`) | the static session `_current` | two passes over the addresses of a HELLO, error paths | the session names live objects; a dropped HELLO leaves a sound database |
| HELLO writer (`nhdp/nhdp/nhdp_writer.c`) | none | one HELLO per interface | the reader learns what the database of the sender says |
| NHDP domains, MPR, metrics (`nhdp/nhdp/nhdp_domain.c`, `nhdp/mpr`, `nhdp/ff_dat_metric`, `nhdp/constant_metric`) | metrics and MPR flags per link, neighbor and two-hop address; packet counts | recalculation on events, handlers of plugins | every two-hop neighbor is covered; those who use a metric were told it; counts are exact |
| topology database, TC reader (`olsrv2/olsrv2/olsrv2_tc.c`, `olsrv2_reader.c`) | nodes, real and virtual edges, attached networks, endpoints, validity timers; the static session | message TLVs, addresses, end of message, timeout, NHDP events, shutdown | paired edges, no node leaks or is freed early; what is stored of a router is one announcement, the newest |
| flooding (`olsrv2/olsrv2/olsrv2.c`) | processed and forwarded sets, aggregation timers | process, forward | a TC reaches every router, and each transmits it at most once |
| originators, attached networks, TC writer (`olsrv2/olsrv2/olsrv2_originator.c`, `olsrv2_lan.c`, `olsrv2_writer.c`, `old_lan`, `lan_import`, `l2import`) | own originators, LAN table, ANSN | configuration, interface, kernel route and layer 2 events, TC timer | what is announced is what is attached; other routers end up with it |
| routing (`olsrv2/olsrv2/olsrv2_routing.c`, `base/os_linux/os_routing_linux.c`, `os_system_linux.c`) | routing entries, Dijkstra tree, kernel queue, feedback tree, netlink pages | update, kernel answers, domain parameters, shutdown | shortest routes; the kernel ends up with them |
| RFC 5444 (`librfc5444`, `base/oonf_rfc5444.c`) | consumers, registered messages, aggregation buffers, targets, interface references | parse, dispatch, fragment, aggregate, forward, flush | callbacks in order; no address or message lost at a size limit |
| DLEP (`generic/dlep`) | sessions of radio and router, local neighbors, acks | discovery, heartbeat, destinations, termination, TLVs | the router mirrors the radio; both ends recover |
| layer 2 database and its plugins (`base/oonf_layer2.c`, `generic/layer2_config`, `link_config`, `eth_listener`, `nl80211_listener`, `layer2_import`) | values in slots with an origin | set, relabel, remove, commit, queries | priorities decide; data of a removed origin goes |
| interfaces (`base/os_linux/os_interface_linux.c`, `nhdp/auto_ll4`) | interfaces, listeners, queries under way, settings under /proc | netlink events, dumps, address changes | the addresses of the kernel become known |
| sessions (`base/oonf_stream_socket.c`, `oonf_telnet.c`, `oonf_http.c`, `oonf_packet_socket.c`, `oonf_socket.c`, `oonf_timer.c`, `generic/remotecontrol`) | sessions with buffers, timers, handlers; UDP queues | input, output, timeouts, commands that go on | nothing refers to a freed session |
| configuration and core (`libconfig`, `libcore`) | raw and work database, subsystems, signals | edit, load, commit, rollback, reload, shutdown | subscribers know what is configured |
| base library (`libcommon`, `base/oonf_class.c`) | trees, addresses, numbers, free lists | as named | answers of a reference definition |

Interaction: the RFC 5444 parser calls the readers; the HELLO reader changes the
NHDP database, whose class events (`oonf_class_event`) call the topology
database; the domains recompute metrics and MPRs and call their listeners; the
TC reader asks the duplicate sets before it touches the topology database; NHDP,
topology and domains tell the routing that something changed. All these calls
are synchronous, so between two events of the main loop (a packet, a timer, a
kernel answer) nothing else runs. Asynchronous are only the kernel (netlink
events, dumps and answers), signals, DLEP and console peers, and the other
routers.

## 2. Modules

| modules | model | checked by run |
|---|---|---|
| `DuplicateSet` | the duplicate set | libraries |
| `LibCommon` | trees, addresses, ISO numbers and object classes | libraries |
| `Rfc5444Blocks`, `Rfc5444Values`, `Rfc5444Reader`, `Rfc5444` | address blocks and fragments, TLV values, consumers and writer registry, multiplexer | libraries |
| `DlepData` | TLVs of DLEP and its extensions | libraries |
| `NhdpDb`, `Nhdp` | the functions of `nhdp_db.c`; HELLO reader, timers and interface events on that database | nhdp_* |
| `FfDat`, `NhdpDomain` | DAT metric; MPR selection and domains | routing, nhdp_domain_metric |
| `NhdpWriter` | content of a HELLO and what its reader takes from it | olsrv2 |
| `Olsrv2Tc` | topology database, TC reader, NHDP events | tc_* |
| `Olsrv2Lan`, `Olsrv2Node` | attached networks and their sources; originator, ANSN, TC writer and a receiver | olsrv2 |
| `Olsrv2Flooding` | processing and forwarding in a network of routers | olsrv2 |
| `Olsrv2Routing`, `NetlinkFifo` | route calculation, routing set, netlink socket, kernel; the abstract queue | routing |
| `Dlep` | radio and router with discovery, sessions and destinations | dlep |
| `Interfaces` | interfaces of the system, auto_ll4 and NHDP interface addresses on them | daemon |
| `LinkLayer` | slots and origins of layer 2 and the plugins that fill them | daemon |
| `Config` | subsystems, configuration, main loop | daemon |
| `Telnet`, `Sockets` | console commands and timers; scheduler, TCP sessions, web server, UDP sockets | daemon, daemon_sessions |
| `MC*` | instances for TLC: constants, budgets, and how independent parts share a run | |
| `*Proofs` | theorems, section 5 | |

Several components share a run: a variable `part` says which of them moves, the
others have a fixed value. A property of a part then says `part = ... =>` or talks
about the part's variables only.

Operators whose comment starts with "Error:" or "Mutant:" are not part of a
model: each is a faulty variant of the definition after it. Replacing that
definition by it makes a property fail, which shows that the property depends on
this code.

Many operators take and return a record (`d` for the NHDP database, `t` for the
topology, `c` for the console ...): one operator per C function, composed in the
order of the calls, and one action per callback that the main loop or a parser
makes.

### DuplicateSet

One entry per key (originator and message type): `current`, `history` as a set
of bit positions, `tooOld`, and the last answer. Messages carry absolute
numbers; the code sees them modulo `SeqSpace` (2^16). `base` and `got` are history
variables: which absolute number an entry stands for and which ones it accepted.
Actions: `oonf_duplicate_entry_add` (first number, known entry, no memory),
`Expire` (`_cb_vtime`), `oonf_duplicate_set_remove`. An entry sees numbers that
are less than half the number space from its newest one; farther ones are
ambiguous in 16 bits and the code cannot do better.

### Base library

`LibCommon` keeps parents, children, balances and the list of a tree and models
insertion, removal with both rotations, followers of equal keys, searches, and
the safe loops whose body changes the tree. It treats hosts of a prefix,
subnet tests and access lists with bytes of two bits, and numbers in ISO form as
digits with a prefix; its object classes see memory as numbered blocks with a
size, so that an extension on another one or a block that is too small shows.

### RFC 5444

`Rfc5444Blocks` cuts addresses into fragments and a fragment into blocks with
common heads, ranges of TLVs and single values, and reads them back.
`Rfc5444` has interfaces, shared multicast and unicast targets, aggregation
timers, message fragments, forwarding, and packets with the sequence numbers of
the interface. A unicast target may have two users: the code counts the second
one at the interface only, so the first removal destroys the target, and what the
second user does with it then is the error `freed`, where the model stops. A
header or message TLV is a number of bytes. `Rfc5444Reader`
logs every call to a consumer (`rdCalls`) and everything a consumer may return,
and counts who holds a message of the writer (`wrHeld`).

### NhdpDb and Nhdp

`db` is a record with one field per tree, list or pointer of the database.
`NhdpDb` has one operator per function that changes it; `Nhdp` has one action
per callback: `HelloFailsConstraints`, `HelloIgnored`, `_cb_messagetlvs`,
`_cb_addresstlvs_pass1`, `_cb_addresstlvs_pass1_end`, `_cb_addr_pass2_block`,
`_cb_msg_pass2_end`, damaged addresses in either pass, the five timer callbacks,
`HysteresisChange` and `InterfaceLosesAddresses`. A HELLO is a record of
interface, source, originator and a sequence of addresses with their TLVs. The
reader works through it one callback per step; `cur` is the static session,
which survives the message. A callback that would follow a pointer to a freed
object sets `undef` and the model stops there, since nothing is known about what
the program does next.

Left out: metric, MPR and willingness TLVs (they only reach the domains), own
addresses that change, removal of interfaces, IP flooding flags. Allocation of
neighbors and links can fail, allocation of addresses cannot. The address
collision checks are one hysteresis verdict ("pending").

### NhdpDomain, FfDat

Links and neighbors exist for the whole run; a HELLO changes the metrics, the
willingness, the relay flags and the two-hop addresses attached to them, in the
order of the reader's callbacks. The MPR selection is functions of a neighbor
graph, each loop of `mpr.c` one operator; `FfDat` the ring of buckets
and the cost with the width of its integers. Handlers of metric and MPR change
while links have data. One domain is configured, and flooding shares its data as
in the code (both have index 0). The routing calculation and the TC writer
appear as what they were last told (`told`, `selected`).

### Olsrv2Tc

`t` is a record with the fields of the node, edge, attachment and endpoint
trees. An edge and its inverse are allocated together; `real` holds the ones
that are not virtual. `timer` holds the nodes whose validity time runs. `ref` is
`_current.node`, which becomes `Freed` when the node it points to is freed.
Removal functions take sets of edges or attachments where the code loops over a
tree: the elements of one loop do not influence each other. The TC reader
has the actions `_cb_messagetlvs`, `_cb_addresstlvs`, `_handle_gateways`,
`_cb_messagetlvs_end`, `TcIgnored` (all early returns before the database is
touched) and `TcFailsConstraints` (a mandatory TLV is missing, so the parser
skips the first callback and calls the others). `_cb_neighbor_change` and
`_cb_neighbor_remove` are the class extension of NHDP neighbors; they are called
by `nhdp_db_neighbor_set_originator` and `nhdp_db_neighbor_remove`, with
`_old_originator` kept as the code keeps it.

The network around the router: `Advert[o][v]` is what router `o` announces as
version `v`; a TC carries `v % AnsnMod` and is complete or a fragment. Any
version may arrive at any time, which covers loss, duplication, delay and
reordering; the duplicate set may drop any of them (`TcIgnored`). `ver` and
`whole` are history variables used only by properties. Versions differ by less
than half the number space, as RFC 7181 requires. `Spec` lets everything happen;
`OrderlySpec` has TCs with all mandatory TLVs and neighbors that keep their
originator.

Left out: costs and hop distances, source-specific flags, validity time 0 (the
minimum OONF accepts is 100 ms, `olsrv2.c:180`), an announced edge from a router
to itself.

### Olsrv2Node, Olsrv2Lan

`Olsrv2Lan` is the table of attached networks with its four sources: lines of
the `lan` option, the sections of the plugin, kernel routes (events and dumps
over two sockets) and layer 2 neighbor addresses. The table does not know who
asked for an entry; the history variable `blurred` names the prefixes for which
that matters, because two sources asked for them or their source was configured
anew or answered late (section 4). `Olsrv2Node` adds the originator, the set
of old originators, the ANSN, the TC timer and a TC with all it contains, and one
receiver that reads TCs in one step. TCs may be lost, repeated and reordered.

### Olsrv2Flooding

A network is a set of links; every router has MPRs that cover its two-hop
neighbors, any of the covering sets. A transmission is heard by all neighbors at
once (`air[r]` is what `r` has not read yet); what is forwarded waits for the
aggregation timer (`pending`), which fires when it wants (`_cb_aggregation_event`). `TcReceived`
asks `olsrv2_mpr_shall_process` and `olsrv2_mpr_shall_forwarding` in the order
of the code: the copy is entered into the forwarded set before the router looks
whether its sender chose it as MPR.

### Olsrv2Routing, NetlinkFifo

The calculation is modelled whole for one domain and one address family. The
routing set is a record per destination; a calculation compares new and old
entries and queues the differences as the code does, `_process_kernel_queue`
hands them to `os_routing_set`, which appends a request to the pages of the
netlink socket. `sent` are the requests the kernel has not answered, `answers`
the ones the program has not read. A mishap is a refused request, a netlink
timeout, a page that cannot be sent or missing memory. `astray` remembers the
destinations whose change the code is known to lose (section 4), so that
`KernelMatches` can say what holds for all others. `NetlinkFifo` is the abstract
queue; `Waiting`, the pages in a row, is the refinement mapping.

### Dlep

A connection has a session at each end. Discovery, `connect_to`, heartbeats,
session and destination signals, acks with their timers, terminations of both
sides, refused destinations, broken links, reconfiguration and shutdown are
actions. The radio's view is `neigh`, `dests` and `net`; the router's copy is
`known`, `knownNet`. `astray` and `deafened` name what the code loses (section 4).
`DlepData` has the conversion: tables of seven extensions, writers, the parser
and its checks, and the negotiation of the extensions. `DlepForeign` gives the
router a signal of somebody else: any of four signals with any stream of TLVs,
whole or cut, through `_parse_tlvstream` and `_handle_extension` of all active
extensions with the effects thrown away.

### Interfaces and layer 2

`Interfaces` has the two queries with their retries, the listeners and the mesh
settings; the kernel behind it (events and answers on one socket, dumps on
another, so that a dump can be older than an event), the addresses NHDP keeps,
and the choice of the link-local address. `LinkLayer` has one interface with a
slot per value (who wrote it and what) and the plugins, each with the timers and
queries by which it reacts.

### Config, Sockets

`Config` models the sections of every mode, validation, the difference of two
databases, the handlers of subscribers and the loop of `oonf_main.c` with signals
between any two steps; `Telnet` and `Sockets` sessions as linked memory
(a freed session is a number nothing may refer to), batches of epoll events whose
callbacks free each other's sessions, continuous and repeated commands, and the
timers as a sorted tree of slices. UDP sockets are a managed pair of one address
family, IPv4 or IPv6: `netaddr_socket_init` puts the interface index into the
address of an IPv6 socket only, and only by this address does
`_apply_managed_socket` see that the interface was created anew.

## 3. Runs

| run | bounds | what it shows |
|---|---|---|
| libraries | number space 8, window 3, 10 numbers; trees of at most 12 nodes; bytes of 2 bits; DLEP streams of at most 3 TLVs; RFC 5444 addresses of 3 bytes, packets of 60 and messages of 40 bytes; budgets | `WindowExact`, `AnswersRight`: the window and every answer of the duplicate set are exact. `BaseExact`: trees, addresses, ISO numbers and classes answer a reference definition. `DlepExact`: what is read is what was written, and a signal of anybody is accepted only with whole TLVs of legal length and multiplicity and none missing. `CallsPaired`, `DropExact`: consumers are called in order and a drop ends what it should. `MessagesHeld`: registered messages live while used. `MessagesRead`: fragments carry each address once, and fit (with different prefix lengths, but for one byte per address). `MessagesSent`: every message leaves once, in order, with its number |
| nhdp_orderly | 2 neighbors, 3 links, 2 interfaces, 9 HELLOs; `StableSpec`: interfaces keep their addresses | `DualstackMutual`, `StatusExact` (cached status and symmetric counter), `AddressOwnersAgree`, `NeighborHasLink` |
| nhdp_conflict | 3 neighbors, 3 links, 1 interface, 4 HELLOs that claim each other's addresses and originator; `Spec` | `NoDanglingReference`, `OriginatorIndexExact`, `LinksBounded` (no link without address or validity time) |
| nhdp_symmetric_count | as nhdp_conflict | finding 1: `SymmetricCount` is violated |
| tc_any | 2 senders and the router itself, 1 prefix, 1 neighbor, versions 3 and 4 with ANSNs modulo 4; `Spec` | `GraphSound`, `NodesNeeded` |
| tc_orderly | as tc_any, versions 5 and 6 modulo 6 (a rollover); `OrderlySpec` | `VirtualAnnouncesNothing`, `TopologyExact`, `NeighborsDirect`, `NeverOlder`, `AnnouncedIsForgotten` (liveness) |
| routing | 3 nodes and an endpoint, 2 situations, 2 tables, pages of 1 request, 4 sequence numbers, 1 mishap; for the domains 3 links of 2 neighbors, 3 two-hop addresses, 7 HELLOs, four budgets | `KernelMatches`, `AnswerFindsItsRoute`, `ChangeRemembered`, and the refinement `NetlinkIsFifo`. An ASSUME of `MCOlsrv2Routing` compares the calculation with shortest paths over all small topologies. For the domains `MprCovers`, `DomainTold` (best links and selection are current, the last metric of a linked neighbor that listeners heard is the one it has), `DatCounts` |
| dlep | a neighbor and a destination behind it, 2 connections, 2 changes, 1 mishap | `RouterMirrorsRadio`, `SessionsRecover` (liveness) |
| daemon | 4 subsystems (one dynamic), a section type of every mode, 2 sessions, a pair of UDP sockets; 2 interfaces and "any", 3 listeners beside NHDP; 2 MACs, 2 values; 5 to 9 budgets for each part | `ConfigSound`; `SessionsSound`: nothing refers to a freed session, output goes out, every session is in the list of its server (until one outlives its server) and its timeout runs; `PacketsSound`: datagrams in order, sockets bound to what is configured; `InterfacesKnown`: addresses become known, a listener that is marked is called, one that has its interface for itself is told every change, settings come back, the link-local address settles; `Layer2Mirrored` |
| olsrv2 | budgets for the node; 5 networks of 5 routers with at most one loss; HELLOs with 3 domains | `AnnouncementsExact`, `FloodReachesAll`, `HelloExact` |
| nhdp_domain_metric | the domains as in routing | finding 2: `MetricsAnnounced` is violated |
| daemon_sessions | as daemon | finding 3: `SessionsCounted` is violated |

Why the bounds are enough. A rollover, a jump over the window and a restart of
the originator all fit in ten numbers. A conflict of addresses or originators
takes two neighbors that are known and a third that is allocated; a dualstack
pair takes two neighbors on two interfaces. Two routers that announce and
withdraw an edge, with this router as third node and a shared prefix, reach
every combination of real and virtual edges and attachments. `CountBound` bounds
the symmetric counter in the run that makes it drift. A page of one request and
two messages show every interleaving of sending, answering and losing. A budget
lists how many changes, faults and timer events of each kind a run may see: each
mixture is explored completely, and between them the budgets make each pair of
actors that share state meet. Where a theorem of section 5 exists, the bound does
not matter.

Symmetry is used for the objects of the NHDP database only (they are
interchangeable memory), and never with a liveness property. Deadlock is checked
except in the runs whose actions spend budgets and which therefore really stop
(libraries, dlep, daemon, olsrv2, nhdp_domain_metric; the domains of routing
may stop too and stutter at their end).

Fairness. In tc_orderly the reader goes on with a TC it began (weak fairness:
the parser is a loop without waiting), and a validity timer that is due again
and again fires (strong fairness: reading another TC disables the action for a
moment, but the main loop walks over the timers after every round of packets).
In dlep discovery and `connect_to` are tried again by their timers, an offer is
answered, and a connection is served: socket events and timers are what the main
loop waits for. No fairness is assumed for changes, mishaps or losses.
`NetlinkFifo` and all other modules are safety specifications.

Every property of a passing run has a mutant in `PROJECT.json`: a plausible
mistake in a definition of the model that makes this property fail.

## 4. Findings and observations

**Findings**: a comment of the code is contradicted by the code, and a run shows
how. The passing properties next to them say what holds all the same.

1. nhdp_symmetric_count. `nhdp_db_link_set_unsymmetric` (`nhdp_db.c:584`)
   decrements `neigh->symmetric` and stops the timer but leaves `lnk->status`;
   the next `nhdp_db_link_update_status` or the link's timeout decrements once
   more and the counter goes negative. `nhdp_db.h:304` calls it the "number of
   links to this neighbor which are symmetric".
2. nhdp_domain_metric. `_recalculate_neighbor_metric` compares metrics only when
   there is a best link (`nhdp_domain.c:1077`): the loss of the last link is not
   reported, and neither is a return with the metric of before to listeners that
   were called in between; the comment says "@return true neighbor metric or the
   two-hop link metrics changed" (`:1012`). `DomainTold` states what is true: the
   best link and the metric are those of the links as they are, infinite without
   one, and the last finite metric that listeners heard of a linked neighbor is
   the one it has.
3. daemon_sessions. A session that is turned away at the limit is not counted
   (`oonf_stream_socket.c:647`) but subtracted when it ends (`:463`), so the
   "number of currently active sessions" (`oonf_stream_socket.h:266`) is too
   small and more than the allowed ones are let in. No passing property speaks of
   this counter.

**Observations** made while modelling. They are what the models reproduce or
exclude by a named assumption, and they are listed for whoever changes this code.

NHDP reader and database
- A HELLO that lists addresses of two neighbors removes, in the second pass, the
  neighbor that owns the session's link; the session is used afterwards
  (`nhdp_reader.c:337`). Models stop there (`undef`).
- A neighbor address that expires before its link, and the next HELLO: the
  address goes to a new neighbor, the link stays with the old one (`:635`).
- A HELLO without an address of THIS_IF allocates a new link every time and can
  leave the old one without address (`:681`); so can one that lists an address
  twice. A failed allocation of a link leaves a neighbor without link (`:653`).
  The session of a refused HELLO is cleaned up late (`:263`).
- A HELLO whose damage the first pass detects after an address of THIS_IF it knows
  drops the link, and the neighbor only if it knows that address too: without it
  the neighbor stays without link, or with a counter that still counts the link
  (`_cleanup_error`, `:263`). `Orderly` excludes this.
- Dualstack flooding flags (`nhdp_interfaces.c:146`, `nhdp_db.c:845`) and the
  removal of an interface that has links (`nhdp_interfaces.c:311`: the links keep
  the pointer until their timeout) are not modelled.
- `nhdp_db_2hop_is_lost` is inverted (`nhdp_db.h:592`).

Topology
- "Remove old tc_node if necessary" (`olsrv2_tc.c:528`) looks up the new
  originator, so the old node stays a direct neighbor. `_old_originator` is not
  kept when the originator is taken away without event (`:523`): when it comes
  back no change is seen and the neighbor has no node. `NeighborsDirect` holds
  while neighbors keep their originator.
- A TC without validity time or ANSN is read into the session that an earlier
  refused TC left (`olsrv2_reader.c:227`).
- A TC whose ANSN is refused still refreshes the validity timer: a router that
  restarted with a smaller ANSN keeps its stale topology alive. Fragments with
  the stored ANSN are refused, and the first fragment of a new node always is.
- `olsrv2_tc_cleanup` leaves nodes of direct neighbors allocated.
- `oonf_duplicate_set_test` changes the entry in one case
  (`oonf_duplicate_set.c:312`).

OLSRv2 core
- `_generate_neighbor_metric_tlvs` compares the incoming metric with its flag
  already set, so equal metrics never share a TLV (`olsrv2_writer.c:325`).
- `olsrv2_lan_remove` leaves `outgoing_metric`, so a LAN is still announced in
  the domain it left while another domain keeps it (`olsrv2_lan.c:174`,
  `olsrv2_writer.c:483`). Distance 0 counts as unset (`olsrv2_lan.c:143`); a LAN
  that is only active in another domain than the first is sent with distance 0
  (`olsrv2_writer.c:510`); two LANs with equal destination and different source
  prefix collide.
- The forwarded set is written before the decision to forward (`olsrv2.c:465`).
  With one shared channel the flood still reaches everybody, which is proved.
  With several interfaces, or links of different delay, copies overtake each
  other and two routers may silence each other's MPRs: links 12, 13, 24, 25, 34,
  35, 46, 56, 27, 38, source 1, 2 chose 4 and 3 chose 5; when 5 hears 2 first and
  4 hears 3 first, 6 is never reached.
- No ANSN change follows from: our own MPR set listeners when `local_is_mpr`
  changes (`nhdp_domain.c:640`, `nhdp_reader.c:739`), the loss of the last
  symmetric link, a changed incoming metric, routable filters, aging metrics.
- The originator is kept when its address vanishes and no other candidate
  exists; a new NHDP interface without interface event does not update it.
- The processing set uses `f_hold_time` (`olsrv2.c:408`);
  `olsrv2_set_tc_interval` does not restart the timer.
- Of a fragmented TC only the first incomplete fragment of an ANSN is accepted.
- `_node_is_selected_as_mpr` stays TRUE when the TLV is absent or the selector
  goes (used by `olsrv2.c:566`); the content of the mprtypes TLV is ignored.
- lan_import: `_destroy_lan` does not stop the timer (`:517`), `_destroy_import`
  leaves its LANs, a changed domain setting removes with the new domain, removing
  a source removes LANs that other sources have, aging stops in all domains when
  the first reaches its maximum, a dump can bring back a removed route, a filter
  changed during a query is not asked for.
- l2import uses a NULL domain, does not import addresses that exist when its
  section is added, and keeps its LANs when removed (`:217`). layer2_export adds
  routes again in other states (`:440`) and its removal tree drops a second
  removal. old_lan validates with an uninitialised source and a stale errno
  (`:251`).

Routing
- `_process_kernel_queue` skips entries that are in processing for ever
  (`olsrv2_routing.c:1113`); a request that fails at once leaves `in_processing`
  set (`:1118`); a route that becomes equal to the old one while its removal is
  under way is "no change" and stays missing. These are the `astray`
  destinations of `KernelMatches`.
- A failed replace frees the entry while the old kernel route remains. The
  shutdown interrupts running requests without waiting for "remove all routes".
  `set_domain_parameter` does not set `_domain_changed` (`:428`). The filter's
  `continue` only leaves the inner loop. The ANSN changes at the next calculation
  only.
- A netlink timeout resets the messages in transit without asking for a write
  event; EAGAIN drops the page (`os_system_linux.c`).

DLEP
- The inverted test of `dlep_session.c:219` against the comment at `:212`; a late
  or overtaking ack reaches a NULL local neighbor (`proto_radio.c:380`, `:410`);
  the end of any session removes global listeners (`:222`); ack timers of a freed
  session still run (`dlep_session.c:182`).
- Prefixes told are kept when a destination returns before DOWN_ACK (`ip.c:317`);
  a neighbor dropped by the ack timeout forgets what it told; updates of proxied
  destinations are never made (`proto_radio.c:578`); destination callbacks test
  `send_neighbors` instead of `send_proxied` (`:717`, `:731`).
- DESTINATION_UP to a session that waits for INIT, and DOWN for a refused
  destination, end the session. An unusable UDP packet blocks discovery
  (`dlep_interface.c:228`, `:268`). The processing error -1 equals
  `DLEP_NEW_PARSER_TERMINDATED`. A session the peer lost leaves its stream in the
  list of the router (`dlep_router_session.c:223`).
- Data: a peer without the optional extensions leads to a NULL callback
  (`dlep_session.c:255`); radio values that are reset stay at the router; changed
  network defaults are not told for destinations filled from them; the second
  frequency and bandwidth are never sent; `dlep_writer_add_int64` uses htonl; MTU
  is not in the table; unsigned scaling of signed values (`oonf_layer2.h:864`);
  `port` of an offer without connection point is uninitialised
  (`proto_router.c:329`); TLVs of any active extension pass in any signal.
- `_check_duplicate` leaves `extsig` at the last signal of an extension that does
  not have the signal (`dlep_session.c:1022`), so a TLV that comes twice in a
  signal it does not belong to is refused or not by another signal's table.

NHDP domains and MPR
- `_process_will_always` follows `link`, which is NULL in the routing graph
  (`selection-rfc7181.c:208`); the assertion at `:245` can fail when the first
  link with a two-hop address has infinite metric; WILL_ALWAYS nodes are not
  marked as MPR; flooding uses the metrics of domain 0.
- Expiry of two-hop addresses does not outdate the MPRs; `metric.out` is reset even with `no_default_handling`;
  removing a handler stops at the first domain and leaves the flooding domain's
  pointer; a new incoming metric or a switch to constant_metric is not followed.
- DAT: duplicates make received exceed total, reordering adds about 65535 to
  total; `link_neigborhood` starts at 0 and the loss exponents that depend on it
  never apply (`ff_dat_metric.c:231`, `:868`); `raw_speed` is cut to an int
  (`:589`).

Layer 2 and interfaces
- A data_set without meta after a reset asserts (`oonf_layer2.c:347`); removal of
  a net leaves local peer addresses; commit drops a net that only has them and
  layer2_config then stops its timer (`layer2_config.c:850`); a removed section
  leaves its data; link_config has two origins of equal priority (`:128`) and
  loops neighbor data to the length of network data;
  `get_best_neighbor_match` takes the shortest prefix (`oonf_layer2.c:753`).
- nl80211: removal of an interface leaves `_current_query_if` and `interf->l2net`
  dangling; a failed family query leaves the query in progress for ever; a late
  "done" counts for the current query; the VHT tx rate is stored as rx
  (`nl80211_get_wiphy.c:488`).
- layer2_import returns instead of continuing (`:404`), leaves old neighbors,
  loses removals and reloads during a query, and keeps its interface listener.
- `_trigger_if_change` marks nobody while the change timer runs
  (`os_interface_linux.c:914`): a listener added to an interface that has others,
  while their timer runs, misses the next change, against "Trigger all change
  listeners of a network interface" (`:907`) and "each interface should be
  informed" (`:919`). `ListenerInformed` therefore speaks of a listener that has
  its interface for itself, `DirtyIsPending` of one that is marked.
- `_cleanup_mesh` twice (`os_interface_linux.c:682`); an address request while one is listed (`:482`); unsafe loop in
  `_cb_rtnetlink_timeout` (`:1277`); stale dumps bring back addresses.
- auto_ll4 misses an address that comes and goes within 200 ms, forgets a refused
  removal (`:635`) and keeps the address when turned off (`:798`).

RFC 5444
- When an address brings a second prefix length into a block, the estimate adds
  first index - current index + 1 bytes instead of the opposite
  (`rfc5444_msg_generator.c:961`), so a fragment may be larger than `msg_size`, the
  "Maximum message size for this RFC5444 multiplexer" (`rfc5444_writer.h:84`).
  `PacketsFit`, a part of `MessagesRead`, says by how much at most: a byte for each
  address of the fragment; with one prefix length a fragment always fits.
- The second `oonf_rfc5444_add_target` of an address counts at the interface and not
  at the target (`oonf_rfc5444.c:836`), whose `_refcount` is the "number of users of
  this target" (`oonf_rfc5444.h:251`); the first removal frees it (`freed` in
  `Rfc5444`).
- The size check before a fragment ignores processors
  (`rfc5444_msg_generator.c:1503`); an address that does not fit beside mandatory ones loops
  (`:340`); a head as long as the address reads past the addresses (`:811`).
- `remove_interface` with other users leaves the listener (`oonf_rfc5444.c:635`);
  `remove_target` drops the interface before using it (`:864`); changed ports and the aggregation interval of interfaces
  are not followed (`:712`, `:1209`); reconfiguration destroys targets with
  pending messages; neighbor_probing removes a reference it never took.
- `forward_msg` copies another buffer than its argument (`:525`) and returns after
  it flushed when the hop limit is used up.
- Reader: a mandatory address TLV counts as missing when another TLV of its type
  covers other addresses (`rfc5444_reader.c:698`); `_parse_tlv` is given the end
  of the message (`:582`); packet TLV keys are compared with the wrong width
  (`:185`); a drop by a start callback prevents forwarding.

Sessions, configuration, base library
- An interface that goes and comes back with the same IPv4 address has another
  index, which is not part of an IPv4 socket address (`netaddr.c:475`):
  `_apply_managed_socket` sees no change (`oonf_packet_socket.c:673`) and the socket
  stays on the device that is gone, against "interface data the socket is bound to"
  (`oonf_packet_socket.h:117`). `SocketsBound` claims the device for IPv6 only.
- `repeat <n> route` replaces the stop handler
  and its timer survives the session (`remotecontrol.c:674`); an end of stream
  with an unfinished line loops (`oonf_telnet.c:408`); an end of stream
  overwrites SEND_AND_QUIT (`stream_socket.c:783`); `close_all_sessions` skips
  sessions with output and `oonf_stream_add` then re-initialises the list
  (`:195`, `:247`); the `acl` option is not copied (`:588`); a failed multicast
  socket removes the unicast one (`packet_socket.c:637`); a callback that restarts
  its own periodic timer is overridden (`oonf_timer.c:291`); epoll events of an
  entry freed in the same batch (`oonf_socket.c:259`).
- `config rollback` does not link the schema (`oonf_cfg.c:441`); a failed apply
  ends the daemon with code 0 (`:419`); SIGHUP during apply is lost (`:411`); an
  unreadable file on reload makes a busy loop; edits after a checked commit or
  failfast end the daemon; values of the unnamed section are not told while a
  default named section stays; a default section that goes is told with neither
  pre nor post (`cfg_schema.c:962`); `remove type[name].` removes the whole type
  (`cfg_cmd.c:174`).
- `netaddr_create_prefix` counts a mask byte 255 twice (`netaddr.c:394`, unused);
  `cfg_validate_int` accepts what is too large (`cfg_validate.c:174`); small ISO
  prefixes cannot be read back; overflow in `isonumber_to_u64` is unchecked;
  `avl_remove_all_elements` leaves nodes that look added.

## 5. Proofs

All theorems hold for every value of the constants that satisfies the ASSUMEs of
the modules: NULL values are no objects, the number space is even or large
enough, announcements a router has in flight are closer than half of it, HELLOs
are well typed, networks are connected. TLC evaluates the assumptions of a module
in the runs that extend it.

| module | theorem | property of a run |
|---|---|---|
| `DuplicateSetProofs` | `WindowIsExact`, `AnswersAreRight`, `DifferenceCorrect` | `WindowExact`, `AnswersRight` |
| `NhdpProofs` | `TypeCorrect`, `DatabaseSafe`, `OriginatorsExact`, `PartnersCorrect`, `LinksExpire`, `StatusesFresh`, `LinksStayBounded`, `OwnersAgree`, `NeighborsLinked`, `StatusesExact` | `NoDanglingReference`, `OriginatorIndexExact`, `DualstackMutual`, `LinksBounded`, `AddressOwnersAgree`, `NeighborHasLink`, `StatusExact` |
| `Olsrv2TcProofs` | `TypeCorrect`, `GraphAlwaysSound`, `NodesAlwaysNeeded`, `TopologyAlwaysExact`, `NeverReplacedByOlder`, `NeighborsAlwaysDirect`, `VirtualNodesSilent` | `GraphSound`, `NodesNeeded`, `TopologyExact`, `NeverOlder` (action property), `NeighborsDirect`, `VirtualAnnouncesNothing` |
| `FloodingProofs` | `FloodAlwaysReachesAll` | `FloodReachesAll` |
| `Rfc5444ReaderProofs` | `MessagesAreHeld` | `MessagesHeld` |
| `NhdpDomainProofs` | `DomainIsTold`, `PacketsAreCounted` | `DomainTold`, `DatCounts` |
| `Olsrv2RoutingProofs` | `KernelMatchesRoutes`, `AnswersFindTheirRoute`, `ChangesRemembered`, `SocketImplementsFifo` | `KernelMatches`, `AnswerFindsItsRoute`, `ChangeRemembered`, `NetlinkIsFifo` (refinement) |

**Duplicate set.** `TypeOK` and `WindowExact` together are inductive. Distances
smaller than half the number space survive the modulus (`DifferenceCorrect`);
shifting the window by a distance shifts what its bits stand for. `AnswersRight`
compares the answer of a step with the window before it.

**NHDP database.** The invariant is `TypeOK`, `Good(db)` (references are alive,
both indexes exact, partners mutual, unused objects blank), and: the session
names live objects and a link of the interface it came from. `Good` alone is not
inductive, since the reader writes through the session. There is one lemma per
function of `nhdp_db.c`, one per callback, and the step of the specification
puts them together.

**NHDP timers.** `LinkExpires` and `StatusFresh` do not follow from `Good`: they
say that between HELLOs no link waits for something the reader forgot. `Quiet(d,
e, X)` states that a function leaves timers and status inputs of all links that
remain, outside X, as they are, and only takes originators away. Quiet steps
compose, so each callback needs one line; the link of the session is the only one
that waits (`Rest`), and `FinishLinkStep` shows that the end of a HELLO sets its
time and updates it. `StatusFresh` needs interfaces that keep their addresses
(finding 1 breaks it otherwise) and HELLOs that do not carry our own
originator: setting that at a neighbor updates one of its links only.

**NHDP addresses.** `LinksBounded` holds for HELLOs that name their interface,
each address once (`NamesInterface`), whatever else they say: nodes may move
addresses from one to the other. `Addressed` is the invariant. In the first pass
the counter of a link is the number of its addresses read so far (`Counting`); in
the second it is the number of them still to come (`Moving`), so a link whose
counter reaches zero with its last address gone is removed and every other keeps
one. The link of the session ends with the addresses of the HELLO.

**NHDP order.** `AddressOwnersAgree`, `NeighborHasLink` and `StatusExact` are false
for arbitrary HELLOs (section 4). `Orderly(Hellos)` says what it takes: a neighbor
has one originator, which is not one of its addresses, an interface has the same
addresses in all HELLOs, no address belongs to two neighbors, damage the first
pass detects comes before the neighbor's addresses, and there is memory for a link
to every interface. HELLOs may still be lost, damaged in the second pass, refused
or come in any order, and any timer may run out in between. The invariant
`OInv` gives every neighbor an originator of its own (`Owners`) and every link the
addresses of one interface in the HELLOs of that originator (`Whole`), all but the
link of the session, which becomes whole in the second pass (`Session2`). So what
the first pass finds by address and what it finds by originator is the same
neighbor, nothing is taken from another, and no link or neighbor is removed but by
a timer or a dropped HELLO, which takes link and neighbor together
(`CleanupOrdered`). A link is always free: links have different interfaces, and
there are no more of these than links (`LinkFree`, by the pigeonhole principle).
The counter of symmetric links is part of it (`Counted`), since a dropped HELLO
removes a symmetric link without counting it down, and only the removal of its
neighbor makes that right. TLC checked `Addressed` and `OInv` on the constants of
the runs nhdp_conflict and nhdp_orderly, and evaluates the two hypotheses there
(`NamesAssumption`, `OrderlyAssumption`).

**NHDP domains.** `DomainTold`: the best link and the metric of a neighbor follow
from its links as they are (`BestLinkFresh`), the last metric that listeners heard
of a neighbor with a link is the one it has, and the node knows that it was
selected. The best link depends on symmetry and outgoing metrics of the neighbor's
own links only (`SameBest`), so a step that changes other data leaves it fresh
(`StaysFresh`), and every other step ends with a recalculation for the neighbor
whose links it changed (`Recalculated`). For the listeners `MetricInv` adds that
what they heard last is the metric of the last best link (`Remembers`) and that a
neighbor has the metric of its best link (`BestHolds`): a best link that vanishes
leaves a metric behind, with which the next one is compared. That the loss itself
is announced is false (finding 2). `DatCounts` is carried by
`DatInv`: the last sequence number is the number of packets sent, modulo the
range of sequence numbers, so that a gap is the number of packets that were lost
(`DistanceExact`); it takes gaps shorter than that range, the assumption on
`Lost`.

**Writer registry.** A message of the RFC 5444 writer is shared by its owner, its
content providers and the TLV types. Flags and trees of the message and the
pointers of its holders are two sides of one relation; `WriterInv` states each
direction for every holder by itself (`Points`, `Kept`), that numbers name one
message (`Numbered`) and that the trees hold only what belongs to the message
(`Belongs`). A message nobody points to then has empty trees, which is when the
code frees it. The identifiers of providers and TLV types name one of them.

**Topology database.** `GraphSound` alone is not inductive: in the middle of a
function a node may have lost its last reason to exist. `WellBut(d, S)` allows
that for the nodes in S; every function ends by removing those that are not
needed. With `Stamped` (timers run for nodes of the tree only) and
`SessionSound` (the session's node is one of them or `Freed`) it is inductive.

**Topology content.** Under `OrderlySpec` the invariant adds: only nodes with a
running timer announce something (`Silent`), each of these has the number of a
version that `ver` names, and what carries this number was announced by it
(`Numbered`); outside of the TC being read nothing carries another number, and a
complete TC left everything it announced (`Stored`, `Kept`); inside of it, all but
the addresses still to come is stored, unless memory ran out (`Partial`). The
comparison of ANSNs is right for versions closer than half the number space; the
number lemmas carry this into `NeverOlder`.

**Flooding.** `Promised`: while no copy is lost, every router within two hops of
one that transmitted has received the TC, has a copy to read, or has a neighbor
that will transmit. The last means: it waits for its timer, or has not processed
the TC and the copy it reads first comes from a router that chose it as MPR. The
first router that transmits within two hops of z is either heard by z or chose an
MPR next to z, and this MPR had heard nothing before, so the early entry in its
forwarded set cannot have silenced it. In silence, all routers within two hops of
one that transmitted are reached, and since the network is connected all are. The
first version of the property, with copies that overtake each other, was false
(section 4); the proof needs that one transmission is heard by all neighbors at
once.

**Routing.** Four theorems. The invariant is `Typed`, `Numbers` (a feedback number
belongs to one entry in processing and is under way at most once) and `Sound`, for
every destination that is not astray: the requests under way lead from what the
kernel has to what the entry will have, each from the result of the one before
(`Leads`), and request, answer and entry agree about what is asked for
(`Agrees`). The refinement maps the pages in a row to the queue; a failing send
removes a segment. `ChangeRemembered` is inductive by itself.

**Only model-checked.** Liveness (`AnnouncedIsForgotten`, `SessionsRecover`).
Definitions that are recursive or need induction over data: trees, fragments,
shortest paths, TLV streams, MPR selection. The coverage of MPRs (`MprCovers`) is
what a greedy loop over sets computes (`RelaysCover`). DLEP, interfaces, layer 2, the daemon and a
router's own announcements have no theorem.

## 6. Plan

Done: the inventory, models of all components that decide something, the runs,
and the theorems of section 5.

Next proofs: the session of the RFC 5444 reader (`CallsPaired`), the DLEP sessions
(`RouterMirrorsRadio`), and a router's announcements (`AnnouncementsExact`).

Next models: layer2_export, the removal of an NHDP interface with its links, IP
flooding flags of a dualstack node, several routing domains at once, the
reconfiguration of a DLEP interface while sessions run.

## 7. Not modelled

| part | reason |
|---|---|
| route_modifier, olsrv2info | a filter whose answer the routing ignores; output |
| neighbor_probing, nhdpcheck, nhdpinfo | a timer that sends empty messages, checks of single messages, output |
| RFC 5444 printer and constants, viewer, templates, buffers, text | formatting |
| operating system helpers | single system calls |
| layer2_export, layer2_generator, layer2info | the first is planned; test data; output |
| configuration formats, plugin controller, sysinfo | parsing of files and output |
| security plugins | hashes and signatures are out of reach of a model checker; `simple_security` and `rfc5444_signature` use fields the RFC 5444 code no longer has |
| logging, command line, start of the program | output |
| vendored and generated code (headers of nl80211, linked libraries) | not part of this program |

Components marked "partly" in `PROJECT.json` name there what their model leaves
out.
