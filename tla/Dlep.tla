-------------------------------- MODULE Dlep --------------------------------
(***************************************************************************)
(* A DLEP radio and a DLEP router (generic/dlep): discovery over UDP, the   *)
(* session over TCP with its heartbeats and its termination, and the       *)
(* destinations: the neighbors and the proxied destinations of the radio's *)
(* layer2 database that the router mirrors into its own.                   *)
(*                                                                         *)
(* A connection has a session at each end.  The output buffer of a session *)
(* and the TCP stream behind it are one queue (out): what is written but   *)
(* not flushed goes out with the next heartbeat.  A heartbeat only         *)
(* restarts the timeout of an established session, and ends one that waits *)
(* for a termination ack; it is not put into the queue.                    *)
(***************************************************************************)
EXTENDS Integers, Sequences, FiniteSets, SequencesExt

CONSTANTS
    KeyOrder,      \* the keys of neighbors and destinations, in tree order
    Owner,         \* the neighbor a key belongs to; a neighbor owns itself
    Metrics,       \* values of the layer2 metrics
    NeighborMetrics, \* those that a neighbor may get (bound)
    IPs,           \* prefixes that a neighbor may have
    SendNeighbors, \* session.cfg.send_neighbors
    SendProxied,   \* session.cfg.send_proxied
    Connects,      \* whether the router may have a connect_to address
    UdpMode,       \* udp_mode: "none", "single_session" or "always"
    Conns,         \* connections at the same time (bound)
    MaxChanges,    \* bound for changes of the radio's layer2 database
    MaxMishaps     \* bound for failures, losses and reconfiguration

Keys == ToSet(KeyOrder)
Neighbors == {k \in Keys : Owner[k] = k}
Destinations == Keys \ Neighbors
NoKey == "none"

ASSUME DlepAssumption ==
    /\ Len(KeyOrder) = Cardinality(Keys) /\ NoKey \notin Keys
    /\ Owner \in [Keys -> Keys] /\ \A k \in Keys : Owner[k] \in Neighbors
    /\ Metrics \subseteq Nat \ {0} /\ Metrics # {}
    /\ NeighborMetrics \subseteq Metrics
    /\ {SendNeighbors, SendProxied} \subseteq BOOLEAN /\ Connects \subseteq BOOLEAN
    /\ UdpMode \in {"none", "single_session", "always"}
    /\ Conns # {} /\ Conns \subseteq Nat
    /\ MaxChanges \in Nat /\ MaxMishaps \in Nat

VARIABLES
    connectTo,  \* the router has a connect_to address
    conn,       \* the TCP connections with the sessions at both ends
    udp,        \* external: discoveries and offers under way
    deafened,   \* the layer2 listeners of the radio are removed
    blocked,    \* remote_socket of the router's UDP session is set
    neigh,      \* the radio's layer2 neighbors
    dests,      \* the radio's proxied destinations
    net,        \* the radio's layer2 network data
    known,      \* the router's layer2 neighbors of this origin
    knownNet,   \* the router's layer2 network data of this origin
    dangling,   \* ack timers of a freed radio session run
    phase,      \* of both daemons: "up", "stopping", "down", radio also "crashed"
    changes,    \* how many changes of the radio's database happened
    mishaps,    \* how many faults happened
    astray      \* history variable: what was lost on the way

l2 == <<neigh, dests, net>>
mirror == <<known, knownNet>>
vars == <<connectTo, conn, udp, deafened, blocked, neigh, dests, net, known, knownNet,
          dangling, phase, changes, mishaps, astray>>

(* A signal is its type, the destination it is about, the metrics it has   *)
(* (of the network, or of a destination) and the prefixes to add and to    *)
(* remove.                                                                 *)
SignalsOf(types, keys, metrics) ==
    [type : types, key : keys, metric : metrics, add : SUBSET IPs, del : SUBSET IPs]

RadioSignals ==
    SignalsOf({"INIT_ACK", "UPDATE"}, {NoKey}, Metrics)
    \cup SignalsOf({"UP", "DEST_UPDATE"}, Keys, Metrics)
    \cup SignalsOf({"DOWN"}, Keys, {0})
    \cup SignalsOf({"TERM", "TERM_ACK"}, {NoKey}, {0})

RouterSignals ==
    SignalsOf({"INIT", "UPDATE_ACK", "TERM", "TERM_ACK"}, {NoKey}, {0})
    \cup SignalsOf({"UP_ACK", "UP_DENIED", "DOWN_ACK"}, Keys, {0})

(* struct dlep_local_neighbor.  The ack timer runs in the states UP_SENT   *)
(* and DOWN_SENT.  own: neigh_key was overwritten with the key itself.     *)
(* told: _ip_prefix_modification, the prefixes that were announced.        *)
Locals ==
    [ state : {"none", "UP_SENT", "UP_ACKED", "DOWN_SENT"},
      changed : BOOLEAN, own : BOOLEAN, told : SUBSET IPs ]

NoLocal == [state |-> "none", changed |-> FALSE, own |-> FALSE, told |-> {}]

(* restrict: the signal the session waits for; "ALL" in an established     *)
(* session; "none" before and "gone" after the session.  beat: the local   *)
(* heartbeat timer runs.                                                   *)
RadioSessions ==
    [ restrict : {"none", "INIT", "ALL", "TERM_ACK", "gone"}, beat : BOOLEAN,
      local : [Keys -> Locals], out : Seq(RadioSignals) ]

RouterSessions ==
    [ restrict : {"none", "INIT_ACK", "ALL", "TERM_ACK", "gone"}, beat : BOOLEAN,
      terminated : BOOLEAN, out : Seq(RouterSignals) ]

Connections == [radio : RadioSessions, router : RouterSessions, cut : BOOLEAN]

NoRadio ==
    [ restrict |-> "none", beat |-> FALSE, local |-> [k \in Keys |-> NoLocal],
      out |-> <<>> ]

NoRouter == [restrict |-> "none", beat |-> FALSE, terminated |-> FALSE, out |-> <<>>]

NoConnection == [radio |-> NoRadio, router |-> NoRouter, cut |-> FALSE]

Ended == {"none", "gone"}
RadioLives(c) == conn[c].radio.restrict \notin Ended
RouterLives(c) == conn[c].router.restrict \notin Ended
Unused(c) == ~RadioLives(c) /\ ~RouterLives(c)

Unknown == [metric |-> 0, ips |-> {}]
Nothing == [k \in Keys |-> Unknown]

Init ==
    /\ connectTo \in Connects
    /\ conn = [c \in Conns |-> NoConnection]
    /\ udp = {} /\ deafened = FALSE /\ blocked = FALSE
    /\ neigh = [n \in Neighbors |-> Unknown] /\ dests = {} /\ net \in Metrics
    /\ known = Nothing /\ knownNet = 0
    /\ dangling = FALSE /\ phase = [radio |-> "up", router |-> "up"]
    /\ changes = 0 /\ mishaps = 0 /\ astray = {}

Mishap == mishaps < MaxMishaps /\ mishaps' = mishaps + 1

-----------------------------------------------------------------------------
(* Sessions (dlep_session.c, dlep_radio_session.c, dlep_router_session.c)  *)
(* as functions of one end s of a connection, or of a whole connection x.  *)

Plain(type) == [type |-> type, key |-> NoKey, metric |-> 0, add |-> {}, del |-> {}]
About(type, k) == [Plain(type) EXCEPT !.key = k]

dlep_session_generate_signal(s, signal) == [s EXCEPT !.out = Append(@, signal)]

(* The session is freed; nobody stops the ack timers of its destinations.  *)
(* What was sent before may still arrive.                                  *)
RadioEnds(x) ==
    IF x.router.restrict \in Ended THEN NoConnection
    ELSE [x EXCEPT !.radio = [NoRadio EXCEPT !.restrict = "gone", !.out = x.radio.out]]

RouterEnds(x) ==
    IF x.radio.restrict \in Ended THEN NoConnection
    ELSE [x EXCEPT !.router = [NoRouter EXCEPT !.restrict = "gone", !.out = x.router.out]]

TimersRun(x) == \E k \in Keys : x.radio.local[k].state \in {"UP_SENT", "DOWN_SENT"}

(* An established session only changes its state: the condition is the     *)
(* wrong way round.                                                        *)
dlep_session_terminate(s) ==
    [ (IF s.restrict # "ALL" THEN dlep_session_generate_signal(s, Plain("TERM")) ELSE s)
      EXCEPT !.restrict = "TERM_ACK" ]

(* A signal that the parser rejects. *)
_send_terminate(s) ==
    [dlep_session_generate_signal(s, Plain("TERM")) EXCEPT !.restrict = "TERM_ACK"]

(* The radio loses its session(s) in the set cs.  _cb_cleanup_radio takes  *)
(* the listeners of all sessions with it.                                  *)
_cb_tcp_lost_radio(cs) ==
    /\ conn' = [c \in Conns |-> IF c \in cs THEN RadioEnds(conn[c]) ELSE conn[c]]
    /\ deafened' = (deafened \/ cs # {})
    /\ dangling' = (dangling \/ \E c \in cs : TimersRun(conn[c]))

(* The router loses its session: it removes its layer2 data. *)
_cb_tcp_lost_router(c) ==
    /\ conn' = [conn EXCEPT ![c] = RouterEnds(@)]
    /\ known' = Nothing /\ knownNet' = 0

-----------------------------------------------------------------------------
(* Destinations at the radio (proto_radio.c, ip.c, metric.c).              *)

(* The metrics of a key are those of its neighbor; the prefixes are sent   *)
(* as differences to what was told before.  The metric extension fails and *)
(* the signal is dropped if the layer2 neighbor is not found under         *)
(* neigh_key, but what the ip extension stored stays.                      *)
DestinationSignal(s, type, k, db) ==
    LET found == Owner[k] = k \/ ~s.local[k].own
        ips == IF found THEN db[Owner[k]].ips ELSE {}
        told == s.local[k].told
        signal == [ type |-> type, key |-> k, metric |-> db[Owner[k]].metric,
                    add |-> ips \ told, del |-> told \ ips ]
        stored == [s EXCEPT !.local[k].told = ips]
    IN  IF found THEN dlep_session_generate_signal(stored, signal) ELSE stored

_l2_neigh_added_to_session(s, k, db) ==
    LET sent == DestinationSignal([s EXCEPT !.local[k].own = FALSE], "UP", k, db)
    IN  [sent EXCEPT !.local[k].state = "UP_SENT"]

(* Error: a change before the ack is forgotten. *)
ChangedForgetsPending(s, k, db) ==
    LET t == [s EXCEPT !.local[k].own = TRUE]
    IN  CASE s.local[k].state = "UP_SENT" -> t
          [] s.local[k].state = "UP_ACKED" ->
                 [DestinationSignal(t, "DEST_UPDATE", k, db) EXCEPT !.local[k].changed = FALSE]
          [] OTHER ->
                 [DestinationSignal(t, "UP", k, db)
                      EXCEPT !.local[k].changed = FALSE, !.local[k].state = "UP_SENT"]

_l2_neigh_changed(s, k, db) ==
    LET t == [s EXCEPT !.local[k].own = TRUE]
    IN  CASE s.local[k].state = "UP_SENT" -> [t EXCEPT !.local[k].changed = TRUE]
          [] s.local[k].state = "UP_ACKED" ->
                 [DestinationSignal(t, "DEST_UPDATE", k, db) EXCEPT !.local[k].changed = FALSE]
          [] OTHER ->
                 [DestinationSignal(t, "UP", k, db)
                      EXCEPT !.local[k].changed = FALSE, !.local[k].state = "UP_SENT"]

_l2_neigh_removed(s, k) ==
    IF s.local[k].state = "none" THEN s
    ELSE [dlep_session_generate_signal(s, About("DOWN", k))
              EXCEPT !.local[k].state = "DOWN_SENT"]

(* The keys that exist, neighbors before their destinations. *)
Present(db, ds) ==
    SelectSeq(KeyOrder, LAMBDA k : \/ k \in Neighbors /\ SendNeighbors /\ db[k].metric # 0
                                   \/ k \in ds /\ SendProxied)

_radio_process_session_init(s) ==
    LET acked == dlep_session_generate_signal(s, [Plain("INIT_ACK") EXCEPT !.metric = net])
        filled == FoldLeft(LAMBDA t, k : _l2_neigh_added_to_session(t, k, neigh),
                           acked, Present(neigh, dests))
    IN  [filled EXCEPT !.restrict = "ALL", !.beat = TRUE]

_radio_process_destination_up_ack(s, k) ==
    IF s.local[k].state # "UP_SENT" THEN s
    ELSE LET acked == [s EXCEPT !.local[k].state = "UP_ACKED"]
         IN  IF s.local[k].changed
             THEN [DestinationSignal(acked, "DEST_UPDATE", k, neigh)
                       EXCEPT !.local[k].changed = FALSE]
             ELSE acked

_radio_process_destination_down_ack(s, k) ==
    IF s.local[k].state # "DOWN_SENT" THEN s ELSE [s EXCEPT !.local[k] = NoLocal]

(* The ack of a destination without local neighbor is a null pointer. *)
AckWithoutNeighbor(s, signal) ==
    signal.type \in {"UP_ACK", "DOWN_ACK"} /\ s.local[signal.key].state = "none"

(* dlep_base_proto_process_session_termination (for both ends); the state  *)
(* "terminated" of the radio is never read.                                *)
dlep_base_proto_process_session_termination(s) ==
    dlep_session_generate_signal(s, Plain("TERM_ACK"))

RadioProcesses(s, signal) ==
    CASE signal.type = "INIT" ->
             IF s.restrict = "INIT" THEN _radio_process_session_init(s) ELSE s
      [] signal.type = "UP_ACK" -> _radio_process_destination_up_ack(s, signal.key)
      [] signal.type = "DOWN_ACK" -> _radio_process_destination_down_ack(s, signal.key)
      [] signal.type = "TERM" -> dlep_base_proto_process_session_termination(s)
      [] OTHER -> s

Awaited(s, signal) == s.restrict = "ALL" \/ s.restrict = signal.type

FromRouter(c) == Head(conn[c].router.out)
FromRadio(c) == Head(conn[c].radio.out)
ToRadio(c) == RadioLives(c) /\ ~conn[c].cut /\ conn[c].router.out # <<>>
ToRouter(c) == RouterLives(c) /\ ~conn[c].cut /\ conn[c].radio.out # <<>>
TakenByRadio(c) == [conn EXCEPT ![c].router.out = Tail(@)]
TakenByRouter(c) == [conn EXCEPT ![c].radio.out = Tail(@)]

(* dlep_session_process_tcp of the radio: the signal is processed; or it   *)
(* is not the one the session waits for, or the last, and the session      *)
(* ends; or the daemon stumbles over a destination it does not have; or    *)
(* the parser rejects the signal.                                          *)
RadioReceives(c) ==
    /\ ToRadio(c) /\ Awaited(conn[c].radio, FromRouter(c))
    /\ FromRouter(c).type # "TERM_ACK" /\ ~AckWithoutNeighbor(conn[c].radio, FromRouter(c))
    /\ conn' = [TakenByRadio(c) EXCEPT ![c].radio = RadioProcesses(@, FromRouter(c))]
    /\ UNCHANGED <<udp, deafened, blocked, l2, mirror, dangling, phase, changes, mishaps, astray>>

RadioDrops(c) ==
    /\ ToRadio(c)
    /\ ~Awaited(conn[c].radio, FromRouter(c)) \/ FromRouter(c).type = "TERM_ACK"
    /\ _cb_tcp_lost_radio({c})
    /\ UNCHANGED <<udp, blocked, l2, mirror, phase, changes, mishaps, astray>>

RadioStumbles(c) ==
    /\ ToRadio(c) /\ Awaited(conn[c].radio, FromRouter(c))
    /\ AckWithoutNeighbor(conn[c].radio, FromRouter(c))
    /\ _cb_tcp_lost_radio({d \in Conns : RadioLives(d)})
    /\ phase' = [phase EXCEPT !.radio = "crashed"]
    /\ UNCHANGED <<udp, blocked, l2, mirror, changes, mishaps, astray>>

RadioRejects(c) ==
    /\ ToRadio(c) /\ Awaited(conn[c].radio, FromRouter(c))
    /\ Mishap
    /\ conn' = [TakenByRadio(c) EXCEPT ![c].radio = _send_terminate(@)]
    /\ UNCHANGED <<udp, deafened, blocked, l2, mirror, dangling, phase, changes, astray>>

(* The ack of a destination is late: or it will never come, because the    *)
(* router refused the destination.                                         *)
AckUnderway(x, k) ==
    ~x.cut /\ ( \/ \E s \in ToSet(x.radio.out) : s.type \in {"UP", "DOWN"} /\ s.key = k
                \/ \E s \in ToSet(x.router.out) : s.type \in {"UP_ACK", "DOWN_ACK"} /\ s.key = k )

_cb_destination_timeout(c, k) ==
    /\ RadioLives(c) /\ conn[c].radio.local[k].state \in {"UP_SENT", "DOWN_SENT"}
    /\ IF AckUnderway(conn[c], k) THEN Mishap ELSE UNCHANGED mishaps
    /\ conn' = [conn EXCEPT ![c].radio.local[k] = NoLocal]
    /\ astray' = astray \cup {<<"lost", k>>}
    /\ UNCHANGED <<udp, deafened, blocked, l2, mirror, dangling, phase, changes>>

(* The timer of a freed session uses freed memory. *)
DanglingTimerFires ==
    /\ dangling /\ phase.radio \in {"up", "stopping"}
    /\ \/ dangling' = FALSE /\ UNCHANGED <<conn, deafened, phase>>
       \/ /\ _cb_tcp_lost_radio({d \in Conns : RadioLives(d)})
          /\ phase' = [phase EXCEPT !.radio = "crashed"]
    /\ UNCHANGED <<udp, blocked, l2, mirror, changes, mishaps, astray>>

-----------------------------------------------------------------------------
(* The radio's layer2 database and its listeners.  A change reaches every  *)
(* session, whatever signal it waits for.                                  *)

Change == changes < MaxChanges /\ changes' = changes + 1 /\ phase.radio \in {"up", "stopping"}

Told(Update(_)) ==
    conn' = [c \in Conns |->
                IF RadioLives(c) /\ ~deafened
                THEN [conn[c] EXCEPT !.radio = Update(@)] ELSE conn[c]]

(* _cb_l2_neigh_added *)
_cb_l2_neigh_added(n, m) ==
    /\ Change /\ neigh[n].metric = 0
    /\ neigh' = [neigh EXCEPT ![n] = [metric |-> m, ips |-> {}]]
    /\ Told(LAMBDA s : IF SendNeighbors THEN _l2_neigh_added_to_session(s, n, neigh') ELSE s)
    /\ UNCHANGED <<udp, deafened, blocked, dests, net, mirror, dangling, phase, mishaps>>
    /\ astray' = astray \cup {<<"reused", n>> : c \in {d \in Conns : conn[d].radio.local[n].told # {}}}

_cb_l2_neigh_changed(n, value) ==
    /\ Change /\ neigh[n].metric # 0 /\ value.metric # 0 /\ value # neigh[n]
    /\ neigh' = [neigh EXCEPT ![n] = value]
    /\ Told(LAMBDA s :
           LET first == IF SendNeighbors THEN _l2_neigh_changed(s, n, neigh') ELSE s
               its == SelectSeq(KeyOrder, LAMBDA k : k \in dests /\ Owner[k] = n)
           IN  IF SendProxied
               THEN FoldLeft(LAMBDA t, k : _l2_neigh_changed(t, k, neigh'), first, its)
               ELSE first)
    /\ astray' = astray \cup {<<"metrics", k>> : k \in {d \in dests : Owner[d] = n}}
    /\ UNCHANGED <<udp, deafened, blocked, dests, net, mirror, dangling, phase, mishaps>>

(* The destinations behind a neighbor leave before it. *)
_cb_l2_neigh_removed(n) ==
    /\ Change /\ neigh[n].metric # 0
    /\ neigh' = [neigh EXCEPT ![n] = Unknown]
    /\ dests' = {d \in dests : Owner[d] # n}
    /\ Told(LAMBDA s : FoldLeft(_l2_neigh_removed, s,
                                SelectSeq(KeyOrder, LAMBDA k : SendNeighbors /\ k \in dests \ dests')
                                \o (IF SendNeighbors THEN <<n>> ELSE <<>>)))
    /\ UNCHANGED <<udp, deafened, blocked, net, mirror, dangling, phase, mishaps, astray>>

(* The callbacks of proxied destinations ask for send_neighbors. *)
_cb_l2_dst_added(d) ==
    /\ Change /\ d \notin dests /\ neigh[Owner[d]].metric # 0
    /\ dests' = dests \cup {d}
    /\ Told(LAMBDA s : IF SendNeighbors THEN _l2_neigh_added_to_session(s, d, neigh) ELSE s)
    /\ UNCHANGED <<udp, deafened, blocked, neigh, net, mirror, dangling, phase, mishaps>>
    /\ astray' = astray \cup {<<"reused", d>> : c \in {e \in Conns : conn[e].radio.local[d].told # {}}}

_cb_l2_dst_removed(d) ==
    /\ Change /\ d \in dests
    /\ dests' = dests \ {d}
    /\ Told(LAMBDA s : IF SendNeighbors THEN _l2_neigh_removed(s, d) ELSE s)
    /\ UNCHANGED <<udp, deafened, blocked, neigh, net, mirror, dangling, phase, mishaps, astray>>

(* Only established sessions hear of a change of the network. *)
_cb_l2_net_changed(m) ==
    /\ Change /\ net # m
    /\ net' = m
    /\ Told(LAMBDA s : IF s.restrict = "ALL"
                       THEN dlep_session_generate_signal(s, [Plain("UPDATE") EXCEPT !.metric = m])
                       ELSE s)
    /\ UNCHANGED <<udp, deafened, blocked, neigh, dests, mirror, dangling, phase, mishaps, astray>>

-----------------------------------------------------------------------------
(* The router's side of a session (proto_router.c, ip.c).                  *)

RouterSends(c, signal) == [TakenByRouter(c) EXCEPT ![c].router.out = Append(@, signal)]

_router_process_session_init_ack(c) ==
    /\ FromRadio(c).type = "INIT_ACK"
    /\ conn' = IF conn[c].router.restrict = "INIT_ACK"
               THEN [TakenByRouter(c) EXCEPT ![c].router.restrict = "ALL", ![c].router.beat = TRUE]
               ELSE TakenByRouter(c)
    /\ knownNet' = IF conn[c].router.restrict = "INIT_ACK" THEN FromRadio(c).metric ELSE knownNet
    /\ UNCHANGED <<known, mishaps, astray>>

_router_process_session_update(c) ==
    /\ FromRadio(c).type = "UPDATE"
    /\ conn' = RouterSends(c, Plain("UPDATE_ACK"))
    /\ knownNet' = FromRadio(c).metric
    /\ UNCHANGED <<known, mishaps, astray>>

(* The prefixes of a signal are differences. *)
_process_destination_ip_tlv(signal) ==
    [metric |-> signal.metric, ips |-> (known[signal.key].ips \cup signal.add) \ signal.del]

(* Without memory the destination is refused. *)
_router_process_destination_up(c) ==
    /\ FromRadio(c).type = "UP"
    /\ LET up == FromRadio(c)
       IN  \/ /\ known' = [known EXCEPT ![up.key] = _process_destination_ip_tlv(up)]
              /\ conn' = RouterSends(c, About("UP_ACK", up.key))
              /\ UNCHANGED <<mishaps, astray>>
           \/ /\ known[up.key] = Unknown
              /\ Mishap
              /\ conn' = RouterSends(c, About("UP_DENIED", up.key))
              /\ astray' = astray \cup {<<"lost", up.key>>}
              /\ UNCHANGED known
    /\ UNCHANGED knownNet

_router_process_destination_down(c) ==
    /\ FromRadio(c).type = "DOWN" /\ known[FromRadio(c).key] # Unknown
    /\ known' = [known EXCEPT ![FromRadio(c).key] = Unknown]
    /\ conn' = RouterSends(c, About("DOWN_ACK", FromRadio(c).key))
    /\ UNCHANGED <<knownNet, mishaps, astray>>

_router_process_destination_update(c) ==
    /\ FromRadio(c).type = "DEST_UPDATE"
    /\ LET update == FromRadio(c)
       IN  known' = IF known[update.key] = Unknown THEN known
                    ELSE [known EXCEPT ![update.key] = _process_destination_ip_tlv(update)]
    /\ conn' = TakenByRouter(c)
    /\ UNCHANGED <<knownNet, mishaps, astray>>

RouterTerminated(c) ==
    /\ FromRadio(c).type = "TERM"
    /\ conn' = [TakenByRouter(c)
                  EXCEPT ![c].router = [dlep_base_proto_process_session_termination(@)
                                          EXCEPT !.terminated = TRUE]]
    /\ UNCHANGED <<mirror, mishaps, astray>>

RouterReceives(c) ==
    /\ ToRouter(c) /\ Awaited(conn[c].router, FromRadio(c))
    /\ \/ _router_process_session_init_ack(c)
       \/ _router_process_session_update(c)
       \/ _router_process_destination_up(c)
       \/ _router_process_destination_down(c)
       \/ _router_process_destination_update(c)
       \/ RouterTerminated(c)
    /\ UNCHANGED <<udp, deafened, blocked, l2, dangling, phase, changes>>

(* Not the signal the session waits for, the end of the session, or a      *)
(* destination to remove that the router does not have.                    *)
RouterDrops(c) ==
    /\ ToRouter(c)
    /\ \/ ~Awaited(conn[c].router, FromRadio(c))
       \/ FromRadio(c).type = "TERM_ACK"
       \/ FromRadio(c).type = "DOWN" /\ known[FromRadio(c).key] = Unknown
    /\ _cb_tcp_lost_router(c)
    /\ UNCHANGED <<udp, deafened, blocked, l2, dangling, phase, changes, mishaps, astray>>

RouterRejects(c) ==
    /\ ToRouter(c) /\ Awaited(conn[c].router, FromRadio(c))
    /\ Mishap
    /\ conn' = [TakenByRouter(c) EXCEPT ![c].router = _send_terminate(@)]
    /\ UNCHANGED <<udp, deafened, blocked, l2, mirror, dangling, phase, changes, astray>>

-----------------------------------------------------------------------------
(* Heartbeats and timeouts (proto.c).                                      *)

(* A heartbeat reaches a session that waits for a termination ack. *)
dlep_base_proto_process_heartbeat(c) ==
    /\ ~conn[c].cut
    /\ \/ /\ conn[c].radio.restrict = "TERM_ACK" /\ RouterLives(c)
          /\ conn[c].router.beat /\ conn[c].router.out = <<>>
          /\ _cb_tcp_lost_radio({c})
          /\ UNCHANGED mirror
       \/ /\ conn[c].router.restrict = "TERM_ACK" /\ RadioLives(c)
          /\ conn[c].radio.beat /\ conn[c].radio.out = <<>>
          /\ _cb_tcp_lost_router(c)
          /\ UNCHANGED <<deafened, dangling>>
    /\ UNCHANGED <<udp, blocked, l2, phase, changes, mishaps, astray>>

(* Error: a second timeout terminates again instead of ending the session. *)
RadioTimeoutRepeats(c) ==
    /\ RadioLives(c) /\ conn[c].radio.restrict # "TERM_ACK"
    /\ IF conn[c].cut THEN UNCHANGED mishaps ELSE Mishap
    /\ conn' = [conn EXCEPT ![c].radio = dlep_session_terminate(@)]
    /\ UNCHANGED <<udp, deafened, blocked, l2, mirror, dangling, phase, changes, astray>>

(* The first timeout starts the termination, the second ends the session.  *)
(* The first comes when the connection is cut, or by mishap when the       *)
(* other end is slow; the second may always come.                          *)
RadioTimeout(c) ==
    /\ RadioLives(c)
    /\ IF conn[c].radio.restrict = "TERM_ACK"
       THEN _cb_tcp_lost_radio({c}) /\ UNCHANGED mishaps
       ELSE /\ IF conn[c].cut THEN UNCHANGED mishaps ELSE Mishap
            /\ conn' = [conn EXCEPT ![c].radio = dlep_session_terminate(@)]
            /\ UNCHANGED <<deafened, dangling>>
    /\ UNCHANGED <<udp, blocked, l2, mirror, phase, changes, astray>>

RouterTimeout(c) ==
    /\ RouterLives(c)
    /\ IF conn[c].router.restrict = "TERM_ACK"
       THEN _cb_tcp_lost_router(c) /\ UNCHANGED mishaps
       ELSE /\ IF conn[c].cut THEN UNCHANGED mishaps ELSE Mishap
            /\ conn' = [conn EXCEPT ![c].router = dlep_session_terminate(@)]
            /\ UNCHANGED mirror
    /\ UNCHANGED <<udp, deafened, blocked, l2, dangling, phase, changes, astray>>

-----------------------------------------------------------------------------
(* Discovery and connections (dlep_interface.c, dlep_router_interface.c).  *)

Sessions == {c \in Conns : RouterLives(c)}

(* dlep_router_add_session: there is one session to a radio. *)
dlep_router_add_session(cs) ==
    IF Sessions # {} \/ {c \in Conns : Unused(c)} = {} THEN cs
    ELSE LET c == CHOOSE d \in Conns : Unused(d) /\ \A e \in Conns : Unused(e) => d <= e
         IN  [cs EXCEPT ![c].router =
                dlep_session_generate_signal([NoRouter EXCEPT !.restrict = "INIT_ACK"], Plain("INIT"))]

(* _cb_send_multicast and _cb_receive_udp look at the mode first. *)
UdpActive(alive) == UdpMode = "always" \/ (UdpMode = "single_session" /\ ~alive)
RadioListens == UdpActive(\E c \in Conns : RadioLives(c)) /\ phase.radio \in {"up", "stopping"}
RouterListens == UdpActive(Sessions # {}) /\ phase.router # "down"

_cb_create_peer_discovery ==
    /\ RouterListens /\ ~blocked /\ "discovery" \notin udp
    /\ udp' = udp \cup {"discovery"}
    /\ UNCHANGED <<conn, deafened, blocked, l2, mirror, dangling, phase, changes, mishaps, astray>>

_radio_process_peer_discovery ==
    /\ "discovery" \in udp /\ RadioListens
    /\ udp' = (udp \ {"discovery"}) \cup {"offer"}
    /\ UNCHANGED <<conn, deafened, blocked, l2, mirror, dangling, phase, changes, mishaps, astray>>

(* A datagram is lost, or its receiver ignores it. *)
LosesDatagram(d) ==
    /\ d \in udp
    /\ IF (d = "discovery" /\ RadioListens) \/ (d = "offer" /\ RouterListens)
       THEN Mishap ELSE UNCHANGED mishaps
    /\ udp' = udp \ {d}
    /\ UNCHANGED <<conn, deafened, blocked, l2, mirror, dangling, phase, changes, astray>>

_router_process_peer_offer ==
    /\ "offer" \in udp /\ RouterListens
    /\ udp' = udp \ {"offer"} /\ blocked' = FALSE
    /\ conn' = dlep_router_add_session(conn)
    /\ UNCHANGED <<deafened, l2, mirror, dangling, phase, changes, mishaps, astray>>

(* A packet that the router cannot use, such as the discovery of another   *)
(* router or an offer without a reachable address, leaves remote_socket    *)
(* set.                                                                    *)
UselessPacket ==
    /\ RouterListens /\ ~blocked
    /\ Mishap
    /\ blocked' = TRUE
    /\ UNCHANGED <<conn, udp, deafened, l2, mirror, dangling, phase, changes, astray>>

(* The watchdog of connect_to: no session, or one that was terminated. *)
_check_connect_to ==
    /\ connectTo /\ phase.router # "down"
    /\ \A c \in Sessions : conn[c].router.terminated
    /\ conn' = dlep_router_add_session([c \in Conns |->
                    IF c \in Sessions THEN RouterEnds(conn[c]) ELSE conn[c]])
    /\ known' = Nothing /\ knownNet' = 0
    /\ conn' # conn
    /\ UNCHANGED <<udp, deafened, blocked, l2, dangling, phase, changes, mishaps, astray>>

(* New settings end all sessions and, with connect_to, start a new one. *)
dlep_router_apply_interface_settings ==
    /\ phase.router # "down" /\ Sessions # {}
    /\ Mishap
    /\ LET ended == [c \in Conns |-> IF c \in Sessions THEN RouterEnds(conn[c]) ELSE conn[c]]
       IN  conn' = IF ~connectTo THEN ended
                   ELSE LET free == {c \in Conns : ended[c] = NoConnection}
                        IN  IF free = {} THEN ended
                            ELSE [ended EXCEPT ![CHOOSE c \in free : \A e \in free : c <= e].router =
                                    dlep_session_generate_signal(
                                        [NoRouter EXCEPT !.restrict = "INIT_ACK"], Plain("INIT"))]
    /\ known' = Nothing /\ knownNet' = 0
    /\ UNCHANGED <<udp, deafened, blocked, l2, dangling, phase, changes, astray>>

(* The radio accepts a connection, or it fails. *)
_cb_incoming_tcp(c) ==
    /\ RouterLives(c) /\ conn[c].radio.restrict = "none" /\ ~conn[c].cut
    /\ phase.radio \in {"up", "stopping"}
    /\ conn' = [conn EXCEPT ![c].radio.restrict = "INIT"]
    /\ UNCHANGED <<udp, deafened, blocked, l2, mirror, dangling, phase, changes, mishaps, astray>>

Refused(c) ==
    /\ RouterLives(c) /\ conn[c].radio.restrict = "none"
    /\ IF phase.radio \in {"up", "stopping"} /\ ~conn[c].cut THEN Mishap ELSE UNCHANGED mishaps
    /\ _cb_tcp_lost_router(c)
    /\ UNCHANGED <<udp, deafened, blocked, l2, dangling, phase, changes, astray>>

(* One end sees that the other closed the connection. *)
RadioSeesEnd(c) ==
    /\ RadioLives(c) /\ conn[c].router.restrict = "gone" /\ ~conn[c].cut
    /\ _cb_tcp_lost_radio({c})
    /\ UNCHANGED <<udp, blocked, l2, mirror, phase, changes, mishaps, astray>>

RouterSeesEnd(c) ==
    /\ RouterLives(c) /\ conn[c].radio.restrict = "gone" /\ ~conn[c].cut
    /\ _cb_tcp_lost_router(c)
    /\ UNCHANGED <<udp, deafened, blocked, l2, dangling, phase, changes, mishaps, astray>>

(* The link breaks: neither data nor the end of the connection arrive. *)
LinkBreaks(c) ==
    /\ RadioLives(c) \/ RouterLives(c)
    /\ ~conn[c].cut /\ Mishap
    /\ conn' = [conn EXCEPT ![c].cut = TRUE]
    /\ UNCHANGED <<udp, deafened, blocked, l2, mirror, dangling, phase, changes, astray>>

-----------------------------------------------------------------------------
(* Shutdown: all sessions are terminated; later the interfaces go.         *)

dlep_radio_terminate_all_sessions ==
    /\ phase.radio = "up" /\ Mishap
    /\ phase' = [phase EXCEPT !.radio = "stopping"]
    /\ conn' = [c \in Conns |-> IF RadioLives(c)
                                THEN [conn[c] EXCEPT !.radio = dlep_session_terminate(@)] ELSE conn[c]]
    /\ UNCHANGED <<udp, deafened, blocked, l2, mirror, dangling, changes, astray>>

dlep_router_terminate_all_sessions ==
    /\ phase.router = "up" /\ Mishap
    /\ phase' = [phase EXCEPT !.router = "stopping"]
    /\ conn' = [c \in Conns |-> IF RouterLives(c)
                                THEN [conn[c] EXCEPT !.router = dlep_session_terminate(@)] ELSE conn[c]]
    /\ UNCHANGED <<udp, deafened, blocked, l2, mirror, dangling, changes, astray>>

dlep_radio_interface_cleanup ==
    /\ phase.radio = "stopping"
    /\ phase' = [phase EXCEPT !.radio = "down"]
    /\ conn' = [c \in Conns |-> IF RadioLives(c) THEN RadioEnds(conn[c]) ELSE conn[c]]
    /\ deafened' = TRUE /\ dangling' = FALSE
    /\ UNCHANGED <<udp, blocked, l2, mirror, changes, mishaps, astray>>

dlep_router_interface_cleanup ==
    /\ phase.router = "stopping"
    /\ phase' = [phase EXCEPT !.router = "down"]
    /\ conn' = [c \in Conns |-> IF RouterLives(c) THEN RouterEnds(conn[c]) ELSE conn[c]]
    /\ known' = Nothing /\ knownNet' = 0
    /\ UNCHANGED <<udp, deafened, blocked, l2, dangling, changes, mishaps, astray>>

-----------------------------------------------------------------------------
Layer2 ==
    \/ \E n \in Neighbors, m \in NeighborMetrics : _cb_l2_neigh_added(n, m)
    \/ \E n \in Neighbors, m \in NeighborMetrics, ips \in SUBSET IPs :
           _cb_l2_neigh_changed(n, [metric |-> m, ips |-> ips])
    \/ \E n \in Neighbors : _cb_l2_neigh_removed(n)
    \/ \E d \in Destinations : _cb_l2_dst_added(d) \/ _cb_l2_dst_removed(d)
    \/ \E m \in Metrics : _cb_l2_net_changed(m)

(* What a daemon does as soon as it can. *)
Radio(c) ==
    \/ RadioReceives(c) \/ RadioDrops(c) \/ RadioStumbles(c) \/ RadioSeesEnd(c)
    \/ _cb_incoming_tcp(c)

Router(c) == RouterReceives(c) \/ RouterDrops(c) \/ RouterSeesEnd(c) \/ Refused(c)

Discovery ==
    \/ _cb_create_peer_discovery \/ _radio_process_peer_discovery \/ _router_process_peer_offer
    \/ _check_connect_to
    \/ \E d \in udp : LosesDatagram(d)

Faults ==
    \/ \E c \in Conns : RadioRejects(c) \/ RouterRejects(c) \/ LinkBreaks(c)
    \/ UselessPacket
    \/ dlep_router_apply_interface_settings
    \/ dlep_radio_terminate_all_sessions \/ dlep_router_terminate_all_sessions

Cleanup == dlep_radio_interface_cleanup \/ dlep_router_interface_cleanup

Timeouts(c) ==
    RadioTimeout(c) \/ RouterTimeout(c) \/ \E k \in Keys : _cb_destination_timeout(c, k)

Step ==
    \/ Layer2 \/ Faults \/ Cleanup \/ Discovery \/ DanglingTimerFires
    \/ \E c \in Conns :
           Radio(c) \/ Router(c) \/ Timeouts(c) \/ dlep_base_proto_process_heartbeat(c)

Next == Step /\ UNCHANGED connectTo

(* Sockets are served and heartbeat timers fire; TCP delivers unless the   *)
(* link breaks.                                                            *)
Served(c) == Radio(c) \/ Router(c) \/ RadioTimeout(c) \/ RouterTimeout(c)

Fairness ==
    /\ WF_vars((_cb_create_peer_discovery \/ _radio_process_peer_discovery \/ _check_connect_to)
               /\ UNCHANGED connectTo)
    /\ WF_vars(_router_process_peer_offer /\ UNCHANGED connectTo)
    /\ WF_vars((\E c \in Conns : Served(c)) /\ UNCHANGED connectTo)

Spec == Init /\ [][Next]_vars /\ Fairness

-----------------------------------------------------------------------------
Established(c) == conn[c].radio.restrict = "ALL" /\ conn[c].router.restrict = "ALL"

(* What the radio's database says of a key. *)
Wanted(k) ==
    IF k \in Neighbors THEN neigh[k]
    ELSE IF k \in dests THEN neigh[Owner[k]] ELSE Unknown

(* A session whose signals are all worked through, up to the last ack, has *)
(* given the router the radio's view: the network's data, and for every    *)
(* destination whether it is there, its metrics and its prefixes.  The     *)
(* exceptions are what the code loses: a session of a radio that lost      *)
(* another one before, destinations the router refused or that the radio   *)
(* gave up because the ack was late, metrics and prefixes of proxied       *)
(* destinations, and the prefixes of a destination that came back before   *)
(* its removal was acknowledged.                                           *)
RouterMirrorsRadio ==
    \A c \in Conns :
        (Established(c) /\ ~deafened /\ conn[c].radio.out = <<>> /\ conn[c].router.out = <<>>)
            => /\ knownNet = net
               /\ \A k \in Keys : <<"lost", k>> \notin astray =>
                    /\ (known[k].metric = 0) <=> (Wanted(k).metric = 0)
                    /\ <<"metrics", k>> \notin astray =>
                         /\ known[k].metric = Wanted(k).metric
                         /\ <<"reused", k>> \notin astray => known[k].ips = Wanted(k).ips

(* No session waits for its termination for ever, also when nobody sent a  *)
(* termination signal or the link is broken.                               *)
TerminationEnds ==
    []<>(\A c \in Conns : "TERM_ACK" \notin {conn[c].radio.restrict, conn[c].router.restrict})

(* Radio and router find each other again after whatever went wrong,       *)
(* unless one of them stopped or the router's discovery is blocked by a    *)
(* packet it could not use.                                                *)
Reconnects ==
    []<>( \/ \E c \in Conns : Established(c)
          \/ phase.radio # "up" \/ phase.router # "up" \/ blocked )

(* Sessions always get out of trouble: a termination ends and a peer that  *)
(* is lost is found again, with the timeouts of both sides                 *)
(* (dlep_session.c, dlep_radio_session.c, dlep_router_interface.c).        *)
SessionsRecover == TerminationEnds /\ Reconnects
=============================================================================
