------------------------------ MODULE MCDaemon ------------------------------
(***************************************************************************)
(* The daemon around the protocols: its subsystems and configuration (part *)
(* "config"), its timers, sockets, console and web sessions (part          *)
(* "sockets"), the interfaces of the kernel with the addresses auto_ll4    *)
(* gives them (part "interfaces"), and the layer2 database with the        *)
(* plugins that write into it (part "layer2").  Each set of budgets lets   *)
(* some of the actors act a few times, so that each pair of actors that    *)
(* share state meets.                                                      *)
(*                                                                         *)
(* Four subsystems, one of them a plugin; a section type of every mode,    *)
(* one that belongs to the plugin and one nobody knows.  Two sessions and  *)
(* one pair of UDP sockets.                                                *)
(***************************************************************************)
EXTENDS Config, Sockets, Interfaces, LinkLayer

VARIABLE part   \* the part of the daemon that moves

MCDeps == 1 :> <<2, 3>> @@ 2 :> <<3>> @@ 3 :> <<>> @@ 4 :> <<1>>
Section(mode, list, def, owner) == [mode |-> mode, list |-> list, def |-> def, owner |-> owner]
MCSchema ==
  "u" :> Section("unnamed", FALSE, <<1>>, 3) @@ "n" :> Section("named", TRUE, <<>>, 1) @@
  "d" :> Section("default", FALSE, <<1>>, 2) @@ "p" :> Section("unnamed", FALSE, <<1>>, 4) @@
  "x" :> Section("named", FALSE, <<1>>, 9)
With(d, t, n, val) == [d EXCEPT !.sec[t][n] = [on |-> TRUE, val |-> val]]
MCFiles == {
  cfg_db_add,
  With(With(cfg_db_add, "n", 2, <<2, 1>>), "d", 2, <<2>>),
  With([cfg_db_add EXCEPT !.plugins = {4}], "p", 0, <<2>>)}
ConfigZero == [edit |-> 0, load |-> 0, rollback |-> 0, commit |-> 0, hup |-> 0, term |-> 0, nofile |-> 0]
MCBudgets == {
  [ConfigZero EXCEPT !.edit = 1, !.commit = 1, !.term = 1],
  [ConfigZero EXCEPT !.edit = 1, !.rollback = 1, !.commit = 2],
  [ConfigZero EXCEPT !.edit = 1, !.load = 1, !.commit = 1],
  [ConfigZero EXCEPT !.load = 1, !.commit = 1, !.hup = 1, !.nofile = 1, !.term = 1],
  [ConfigZero EXCEPT !.hup = 2, !.term = 1]}

-----------------------------------------------------------------------------
SockZero == [console |-> 0, web |-> 0, peer |-> 0, send |-> 0, close |-> 0, drop |-> 0,
           config |-> 0, remove |-> 0, fail |-> 0, interface |-> 0, packet |-> 0]
MCSockBudgets == {
  [SockZero EXCEPT !.console = 1, !.send = 2, !.close = 1, !.fail = 1],
  [SockZero EXCEPT !.console = 2, !.send = 1],
  [SockZero EXCEPT !.console = 1, !.web = 1, !.send = 1],
  [SockZero EXCEPT !.web = 2, !.send = 1],
  [SockZero EXCEPT !.peer = 2, !.send = 2, !.drop = 1, !.close = 1],
  [SockZero EXCEPT !.config = 1, !.remove = 1, !.interface = 1, !.fail = 1, !.packet = 2],
  [SockZero EXCEPT !.config = 2, !.interface = 1, !.fail = 1]}

-----------------------------------------------------------------------------
MCIfOf == [l \in {"nhdp", "dlep", "eth", "all"} |-> CASE l \in {"nhdp", "dlep"} -> "wlan0" [] l = "eth" -> "eth0" [] l = "all" -> "any"]
IfKinds == {"link", "user", "refuse", "neighbor", "config", "listener", "ifconfig", "timeout", "error", "failure"}
Only(f) == [k \in IfKinds |-> IF k \in DOMAIN f THEN f[k] ELSE 0]
MCIfBudgets == {Only([config |-> 1, neighbor |-> 1, user |-> 1, refuse |-> 1]), Only([listener |-> 3, ifconfig |-> 1, error |-> 1]),
  Only([config |-> 1, link |-> 2]), Only([config |-> 2, neighbor |-> 1, timeout |-> 1]), Only([config |-> 2, ifconfig |-> 1]),
  Only([config |-> 1, listener |-> 2, failure |-> 1]), Only([config |-> 1, neighbor |-> 2]), Only([config |-> 3, neighbor |-> 1]),
  Only([config |-> 1, listener |-> 1, user |-> 1])}

-----------------------------------------------------------------------------
MCPriority == [o \in {"l2old", "ethernet", "configured", "overwrite", "link_current", "link_old",
                      "nl_data", "nl_updated", "import"} |->
  CASE o = "l2old" -> 0 [] o = "ethernet" -> 20 [] o \in {"configured", "link_current", "link_old"} -> 30
    [] o \in {"nl_data", "import"} -> 40 [] o = "nl_updated" -> 41 [] o = "overwrite" -> 50]

Entry(type, idx, key, addr, value, overwrite) ==
  [type |-> type, idx |-> idx, key |-> key, addr |-> addr, value |-> value, overwrite |-> overwrite]
Frequency(o) == Entry("l2net", "frequency", 0, NOTHING, 1, o)
Noise == Entry("l2net", "noise", 0, NOTHING, 1, FALSE)
LocalIp == Entry("l2net_ip", NOTHING, 0, "local", 0, FALSE)
DefaultRate == Entry("l2default", "bitrate", 0, NOTHING, 1, FALSE)
Maximum == Entry("l2default", "max_bitrate", 0, NOTHING, 1, FALSE)
Neighbor == Entry("l2neighbor", "bitrate", 1, NOTHING, 1, FALSE)
NeighborIp == Entry("l2neighbor_ip", NOTHING, 1, "remote", 0, TRUE)
Bridged == Entry("l2destination", NOTHING, 1, "mpp", 0, FALSE)

MCL2Configs == {{}, {LocalIp, Frequency(TRUE)}, {Noise, Maximum, Neighbor}, {DefaultRate, NeighborIp, Bridged, Frequency(FALSE)}}
MCLinkConfigs == {{[idx |-> "bitrate", value |-> 2, macs |-> {}]},
                  {[idx |-> "bitrate", value |-> 1, macs |-> {2}], [idx |-> "max_bitrate", value |-> 1, macs |-> {2}]}}
MCTelnetEntries == {Frequency(TRUE), DefaultRate, NeighborIp, Bridged, LocalIp, Neighbor}

L2Kinds == {"l2config", "telnet", "link", "eth", "nlconfig", "nltimer", "nlmessage", "nltimeout", "up", "import", "route"}
L2Only(f) == [k \in L2Kinds |-> IF k \in DOMAIN f THEN f[k] ELSE 0]
MCL2Budgets == {
  L2Only([l2config |-> 3, telnet |-> 1, link |-> 1, eth |-> 1]),
  L2Only([l2config |-> 1, telnet |-> 1, link |-> 2, eth |-> 1]),
  L2Only([l2config |-> 1, nlconfig |-> 1, nltimer |-> 2, nlmessage |-> 3]),
  L2Only([telnet |-> 1, nlconfig |-> 1, nltimer |-> 2, nlmessage |-> 2]),
  L2Only([l2config |-> 1, nlconfig |-> 2, nltimer |-> 2, nlmessage |-> 1, nltimeout |-> 1]),
  L2Only([link |-> 1, nlconfig |-> 3, nltimer |-> 2, nlmessage |-> 1, up |-> 1]),
  L2Only([l2config |-> 1, import |-> 3, route |-> 2]),
  L2Only([import |-> 2, route |-> 3])}

-----------------------------------------------------------------------------
\* Whatever is edited, loaded, rolled back, committed and reloaded while plugins
\* fail and signals arrive: subscribers know what is configured and are only
\* told valid values (_handle_db_changes, cfg_schema_validate), and subsystems
\* start after and end before those they depend on (_init_plugin,
\* _cleanup_plugin).
ConfigSound == part = "config" => SubscribersKnow /\ ToldIsValid /\ DependenciesFirst

\* Whatever order sessions run commands, are turned away, time out, break and
\* lose their server in: nothing refers to a freed session, output is on its
\* way, closing a server finds all of its sessions and every session has its
\* timeout (oonf_stream_socket.c, oonf_telnet.c, remotecontrol.c).
SessionsSound == part = "sockets" => NothingDangling /\ OutputMoves /\ SessionsListed /\ TimeoutRuns

\* A server counts the sessions that are active (oonf_stream_socket.h:266,
\* _create_session, _stream_close).
SessionsCounted == part = "sockets" => CounterExact

\* Datagrams leave in their order, and the UDP sockets follow the configuration
\* and their interface (oonf_packet_socket.c).
PacketsSound == part = "sockets" => DatagramsInOrder /\ SocketsBound

\* Whatever queries fail, whatever events and dumps overtake each other, and
\* whoever comes and goes: the addresses of the kernel become known, a listener
\* that is marked is called, one that has its interface for itself is told every
\* change, the counters agree, the settings of the kernel come back and the
\* link-local address settles (os_interface_linux.c, auto_ll4.c).
InterfacesKnown == part = "interfaces" => InterfaceCounts /\ AddressesKnown /\ DirtyIsPending /\ ListenerInformed /\ KernelRestored /\ LinkLocalSettles

\* However the plugins overwrite, relabel, clean up and drop each other's data:
\* configured values come back, imported neighbors mirror the routes of the
\* kernel, and no data names a freed origin (oonf_layer2.c and its plugins).
Layer2Mirrored == part = "layer2" => ConfigRestored /\ ImportMirrors /\ OriginGone

-----------------------------------------------------------------------------
AllVars == <<part, vars, sockVars, ifVars, l2Vars>>
\* A run is about one part; the others are left out.
Unused == "unused"
AllInit ==
  /\ part \in {"config", "sockets", "interfaces", "layer2"}
  /\ IF part = "config" THEN Init
     ELSE /\ raw = Unused /\ linked = Unused /\ work = Unused /\ old = Unused /\ view = Unused
          /\ sub = Unused /\ main = Unused /\ budget = Unused
  /\ IF part = "sockets" THEN SockInit /\ (sockBudget.interface = 0 => pkt.af = "v6")
     ELSE /\ con = Unused /\ pkt = Unused /\ batch = Unused /\ backlog = Unused
          /\ survivors = Unused /\ fault = Unused /\ sockBudget = Unused
  /\ IF part = "interfaces" THEN IfInit
     ELSE /\ sys = Unused /\ kernel = Unused /\ nhdp = Unused /\ ll4 = Unused
          /\ neighbors = Unused /\ ifFault = Unused /\ ifBudget = Unused
  /\ IF part = "layer2" THEN L2Init
     ELSE /\ db = Unused /\ l2c = Unused /\ lc = Unused /\ nl = Unused /\ im = Unused
          /\ l2Kernel = Unused /\ up = Unused /\ l2Fault = Unused /\ l2Budget = Unused
AllNext ==
  /\ UNCHANGED part
  /\ \/ part = "config" /\ Next /\ UNCHANGED <<sockVars, ifVars, l2Vars>>
     \/ part = "sockets" /\ SockNext /\ UNCHANGED <<vars, ifVars, l2Vars>>
     \/ part = "interfaces" /\ IfNext /\ UNCHANGED <<vars, sockVars, l2Vars>>
     \/ part = "layer2" /\ L2Next /\ UNCHANGED <<vars, sockVars, ifVars>>
AllSpec == AllInit /\ [][AllNext]_AllVars
=============================================================================
