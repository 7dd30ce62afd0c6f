------------------------------ MODULE DlepData ------------------------------
(***************************************************************************)
(* What a DLEP signal says (generic/dlep: dlep_writer.c, dlep_reader.c,    *)
(* dlep_extension.c, the parser of dlep_session.c and the tables of the    *)
(* extensions): the layer2 values, prefixes and link ids of a radio become *)
(* TLVs, the TLVs become layer2 values of the router.  Dlep models the     *)
(* session around it; here signals arrive in order and an ack arrives as   *)
(* soon as the router has processed the signal it is for.                  *)
(*                                                                         *)
(* A TLV has a type, a length in bytes and a value, a sequence of numbers; *)
(* a byte has WireBits bits.  The values of a layer2 object are a function *)
(* on the indices that have one.                                           *)
(***************************************************************************)
EXTENDS Integers, Sequences, FiniteSets, SequencesExt, TLC

CONSTANTS WireBits,      \* bits of a byte
          DlepBuilds,    \* the optional extensions of radio and router, and the link id length
          DlepKeys,      \* the neighbors, [mac, lid, len], in tree order
          DlepSettings,  \* values the radio's driver may set, [index, value]
          DlepIps,       \* [af, host, own]: the prefixes in tree order, numbered; own: of the radio's interface
          DlepStreams,   \* signals of an unknown sender
          DlepBudgets    \* how often each part may act

-----------------------------------------------------------------------------
(* layer2 values *)

_metadata_neigh ==
  [tx_signal |-> 1000, rx_signal |-> 1000, tx_bitrate |-> 1, rx_bitrate |-> 1,
   tx_max_bitrate |-> 1, rx_max_bitrate |-> 1, tx_bytes |-> 1, rx_bytes |-> 1,
   tx_frames |-> 1, rx_frames |-> 1, tx_throughput |-> 1, tx_retries |-> 1,
   tx_failed |-> 1, tx_rlq |-> 1, rx_rlq |-> 1, rx_bc_bitrate |-> 1,
   latency |-> 1000000, resources |-> 1]
\* The boolean values have no scaling.
_metadata_net ==
  [frequency1 |-> 1, frequency2 |-> 1, bandwidth1 |-> 1, bandwidth2 |-> 1, noise |-> 1000,
   ch_active |-> 1000000000, ch_busy |-> 1000000000, ch_rx |-> 1000000000, ch_tx |-> 1000000000,
   mcs_by_probing |-> 0, rx_only_unicast |-> 0, tx_only_unicast |-> 0]
oonf_layer2_neighbor_index == DOMAIN _metadata_neigh
oonf_layer2_network_index == DOMAIN _metadata_net

\* Integers of n bytes; a division is one of unsigned numbers.
Space(n) == 2 ^ (WireBits * n)
Unsigned(x, n) == x % Space(n)
Signed(x, n) == IF x >= Space(n) \div 2 THEN x - Space(n) ELSE x
Divide(x, d) == Signed(Unsigned(x, 8) \div d, 8)

oonf_layer2_data_read_int64(x, meta, scaling) ==
  LET scale == IF scaling = 0 THEN meta ELSE scaling
  IN IF scale > meta THEN x * (scale \div meta) ELSE Divide(x, meta \div scale)
oonf_layer2_data_set_int64(x, meta, scaling) ==
  IF scaling = 0 THEN x
  ELSE IF scaling > meta THEN Divide(x, scaling \div meta) ELSE x * (meta \div scaling)

-----------------------------------------------------------------------------
(* the tables of the extensions *)

Sig(id, supported, mandatory, duplicate) ==
  [id |-> id, supported |-> supported, mandatory |-> mandatory, duplicate |-> duplicate]
Tlvs(ids, min, max) == [i \in ids |-> [length_min |-> min, length_max |-> max]]
Mapping(tlv, layer2, length, scaling) ==
  [dlep |-> tlv, layer2 |-> layer2, length |-> length, scaling |-> scaling, mandatory |-> FALSE, default |-> 0, array |-> FALSE]
Mandatory(m, value) == [m EXCEPT !.mandatory = TRUE, !.default = value]

Addresses == {"IPV4_ADDRESS", "IPV6_ADDRESS"}
IpTlvs == Addresses \cup {"IPV4_SUBNET", "IPV6_SUBNET"}
Rates == {"MDRR", "MDRT", "CDRR", "CDRT", "LATENCY"}
Qualities == {"RESOURCES", "RLQR", "RLQT"}

proto_session_signals == <<
  Sig("PEER_DISCOVERY", {}, {}, {}),
  Sig("PEER_OFFER", {"PEER_TYPE", "IPV4_CONPOINT", "IPV6_CONPOINT"}, {}, {}),
  Sig("SESSION_INIT", {"HEARTBEAT", "PEER_TYPE", "EXTENSIONS"}, {"HEARTBEAT", "PEER_TYPE"}, {}),
  Sig("SESSION_INIT_ACK", {"HEARTBEAT", "STATUS", "PEER_TYPE", "EXTENSIONS"}, {"HEARTBEAT", "STATUS", "PEER_TYPE"}, {}),
  Sig("SESSION_UPDATE", Addresses, {}, Addresses),
  Sig("SESSION_UPDATE_ACK", {"STATUS"}, {"STATUS"}, {}),
  Sig("SESSION_TERMINATION", {"STATUS"}, {}, {}),
  Sig("SESSION_TERMINATION_ACK", {"STATUS"}, {}, {}) >>
proto_destination_signals == <<
  Sig("DESTINATION_UP", {"MAC"} \cup IpTlvs, {"MAC"}, IpTlvs),
  Sig("DESTINATION_UP_ACK", {"MAC", "STATUS"}, {"MAC", "STATUS"}, {}),
  Sig("DESTINATION_DOWN", {"MAC"}, {"MAC"}, {}),
  Sig("DESTINATION_DOWN_ACK", {"MAC", "STATUS"}, {"MAC", "STATUS"}, {}),
  Sig("DESTINATION_UPDATE", {"MAC"} \cup IpTlvs, {"MAC"}, IpTlvs),
  Sig("LINK_CHAR_REQUEST", {"MAC", "CDRR", "CDRT", "LATENCY"}, {"MAC"}, {}),
  Sig("LINK_CHAR_ACK", {"MAC", "STATUS"} \cup Rates \cup Qualities, {"MAC"}, {}) >>
proto_signals == Append(proto_session_signals, Sig("HEARTBEAT", {}, {}, {})) \o proto_destination_signals
metric_tlvs == Tlvs({"MAC"}, 6, 8) @@ Tlvs(Rates, 8, 8) @@ Tlvs(Qualities, 1, 1)
proto_tlvs ==
  metric_tlvs @@ Tlvs({"STATUS"}, 1, 65535) @@ Tlvs({"IPV4_CONPOINT"}, 5, 7) @@ Tlvs({"IPV6_CONPOINT"}, 17, 19)
    @@ Tlvs({"PEER_TYPE"}, 1, 255) @@ Tlvs({"HEARTBEAT"}, 4, 4) @@ Tlvs({"EXTENSIONS"}, 2, 65534)
proto_mappings == <<
  Mapping("MDRR", "rx_max_bitrate", 8, 1), Mapping("MDRT", "tx_max_bitrate", 8, 1),
  Mapping("CDRR", "rx_bitrate", 8, 0), Mapping("CDRT", "tx_bitrate", 8, 1), Mapping("LATENCY", "latency", 8, 1000000),
  Mapping("RESOURCES", "resources", 1, 1), Mapping("RLQR", "rx_rlq", 1, 1), Mapping("RLQT", "tx_rlq", 1, 0) >>

ip_signals == << Sig("SESSION_INIT_ACK", IpTlvs, {}, IpTlvs), Sig("SESSION_UPDATE", IpTlvs, {}, IpTlvs),
                 Sig("DESTINATION_UP", IpTlvs, {}, IpTlvs), Sig("DESTINATION_UPDATE", IpTlvs, {}, IpTlvs) >>
ip_tlvs ==
  Tlvs({"MAC"}, 6, 8) @@ Tlvs({"IPV4_ADDRESS"}, 5, 5) @@ Tlvs({"IPV4_SUBNET"}, 6, 6)
    @@ Tlvs({"IPV6_ADDRESS"}, 17, 17) @@ Tlvs({"IPV6_SUBNET"}, 18, 18)

\* Tables of statistics: what the session signals and the destinations may have.
Statistics(initack, mandatory, update, dst) ==
  << Sig("SESSION_INIT_ACK", initack, mandatory, {}), Sig("SESSION_UPDATE", update, {}, {}),
     Sig("DESTINATION_UP", dst, {"MAC"}, {}), Sig("DESTINATION_UPDATE", dst, {"MAC"}, {}) >>
metric_signals ==
  LET all == Rates \cup Qualities IN Statistics(all \cup {"MTU"}, Rates, all, all \cup {"MAC"})
metric_mappings == <<
  Mandatory(Mapping("MDRR", "rx_max_bitrate", 8, 1), 0), Mandatory(Mapping("MDRT", "tx_max_bitrate", 8, 1), 0),
  Mandatory(Mapping("CDRR", "rx_bitrate", 8, 1), 0), Mandatory(Mapping("CDRT", "tx_bitrate", 8, 1), 0),
  Mandatory(Mapping("LATENCY", "latency", 8, 1000000), 1000),
  Mapping("RESOURCES", "resources", 1, 0), Mapping("RLQR", "rx_rlq", 1, 1), Mapping("RLQT", "tx_rlq", 1, 1) >>

l1_signals ==
  LET all == {"FREQUENCY", "BANDWIDTH", "NOISE", "CH_ACTIVE", "CH_BUSY", "CH_RX", "CH_TX", "SIGNAL_RX", "SIGNAL_TX"}
  IN Statistics(all, {"FREQUENCY", "BANDWIDTH"}, all, {"MAC", "SIGNAL_RX", "SIGNAL_TX"})
l1_tlvs ==
  Tlvs({"FREQUENCY", "BANDWIDTH"}, 8, 16) @@ Tlvs({"CH_ACTIVE", "CH_BUSY", "CH_RX", "CH_TX"}, 8, 8)
    @@ Tlvs({"NOISE", "SIGNAL_RX", "SIGNAL_TX"}, 4, 4)
l1_neigh_mappings == << Mapping("SIGNAL_RX", "rx_signal", 4, 1000), Mapping("SIGNAL_TX", "tx_signal", 4, 1000) >>
l1_net_mappings == <<
  [Mandatory(Mapping("FREQUENCY", "frequency1", 8, 1), 0) EXCEPT !.array = TRUE],
  [Mandatory(Mapping("BANDWIDTH", "bandwidth1", 8, 1), 0) EXCEPT !.array = TRUE],
  Mapping("NOISE", "noise", 4, 1000),
  Mapping("CH_ACTIVE", "ch_active", 8, 1000000000), Mapping("CH_BUSY", "ch_busy", 8, 1000000000),
  Mapping("CH_RX", "ch_rx", 8, 1000000000), Mapping("CH_TX", "ch_tx", 8, 1000000000) >>

l2_ids == {"FRAMES_R", "FRAMES_T", "RETRIES", "FAILED", "BYTES_R", "BYTES_T", "THROUGHPUT", "CDRR_BC"}
l2_signals == Statistics(l2_ids, {}, l2_ids, l2_ids \cup {"MAC"})
l2_tlvs == Tlvs(l2_ids, 8, 8)
l2_mappings == <<
  Mapping("FRAMES_R", "rx_frames", 8, 1), Mapping("FRAMES_T", "tx_frames", 8, 1), Mapping("RETRIES", "tx_retries", 8, 1),
  Mapping("FAILED", "tx_failed", 8, 1), Mapping("BYTES_R", "rx_bytes", 8, 1), Mapping("BYTES_T", "tx_bytes", 8, 1),
  Mapping("THROUGHPUT", "tx_throughput", 8, 1), Mapping("CDRR_BC", "rx_bc_bitrate", 8, 1) >>

attribute_signals ==
  LET all == {"MCS", "RX_UNICAST", "TX_UNICAST"} IN SubSeq(Statistics(all, {}, all, {}), 1, 2)
attribute_tlvs == Tlvs({"MCS", "RX_UNICAST", "TX_UNICAST"}, 1, 1)
attribute_mappings == << Mapping("MCS", "mcs_by_probing", 1, 0), Mapping("RX_UNICAST", "rx_only_unicast", 1, 0),
                         Mapping("TX_UNICAST", "tx_only_unicast", 1, 0) >>

MaxLid == 16
lid_signals ==
  << Sig("SESSION_INIT_ACK", {"LID_LENGTH"}, {}, {}) >> \o
  [k \in 1 .. 7 |-> Sig(<<"DESTINATION_UP", "DESTINATION_UP_ACK", "DESTINATION_DOWN", "DESTINATION_DOWN_ACK",
                          "DESTINATION_UPDATE", "LINK_CHAR_REQUEST", "LINK_CHAR_ACK">>[k], {"LID"}, {}, {})]
lid_tlvs == Tlvs({"LID"}, 1, MaxLid) @@ Tlvs({"LID_LENGTH"}, 2, 2)

\* _extension_tree: the extensions in the order of their ids.
Ext(signals, tlvs, neigh, net) == [signals |-> signals, tlvs |-> tlvs, neigh_mapping |-> neigh, if_mapping |-> net]
Base == <<"proto", "ip", "metric">>
Optional == <<"l1", "l2", "attributes", "lid">>
_extension_tree ==
  [proto |-> Ext(proto_signals, proto_tlvs, proto_mappings, <<>>), ip |-> Ext(ip_signals, ip_tlvs, <<>>, <<>>),
   metric |-> Ext(metric_signals, metric_tlvs, metric_mappings, <<>>),
   l1 |-> Ext(l1_signals, l1_tlvs, l1_neigh_mappings, l1_net_mappings), l2 |-> Ext(l2_signals, l2_tlvs, l2_mappings, <<>>),
   attributes |-> Ext(attribute_signals, attribute_tlvs, <<>>, attribute_mappings), lid |-> Ext(lid_signals, lid_tlvs, <<>>, <<>>)]

\* The types of TLVs there are; one may come in a stream whether it is allowed or not.
dlep_tlvs == UNION {DOMAIN _extension_tree[e].tlvs : e \in DOMAIN _extension_tree} \cup {"MTU"}
ASSUME DlepStreamsAssumption == \A s \in DlepStreams : \A k \in DOMAIN s.tlvs : s.tlvs[k].type \in dlep_tlvs

-----------------------------------------------------------------------------
(* a session: its active extensions and the length of its link ids *)

DefaultLid == 4
Registered(optional) == Base \o SelectSeq(Optional, LAMBDA e : e \in optional)
dlep_session_add(optional, lid) == [extensions |-> Registered(optional), lid_length |-> lid]
_update_allowed_tlvs(extensions) == FoldLeft(LAMBDA t, e : t @@ _extension_tree[e].tlvs, <<>>, extensions)

\* Extensions the other side does not have are deactivated; only that of link
\* ids may be.
dlep_session_update_extensions(s, build, offered) ==
  LET gone == {e \in ToSet(s.extensions) \ ToSet(Base) : e \notin ToSet(offered)}
  IN [extensions |-> Base \o SelectSeq(offered, LAMBDA e : e \in build), lid_length |-> IF "lid" \in gone THEN 0 ELSE s.lid_length]

-----------------------------------------------------------------------------
(* parsing: values of one type are a chain from its first to its last *)

Tlv(type, length, value) == [type |-> type, length |-> length, value |-> value]
Stream(tlvs) == [tlvs |-> tlvs, length |-> FoldLeft(LAMBDA n, t : n + 4 + t.length, 0, tlvs)]

AddValue(p, tlv) ==
  LET n == Len(p.values) + 1
      last == p.last[tlv.type]
      chained == IF last = 0 THEN p.values ELSE [p.values EXCEPT ![last].next = n]
  IN [p EXCEPT !.idx = @ + 4 + tlv.length, !.values = Append(chained, [tlv |-> tlv, next |-> 0]),
               !.first[tlv.type] = IF last = 0 THEN n ELSE @, !.last[tlv.type] = n]
_parse_tlvstream(allowed, stream) ==
  LET Failed(p, error) == [p EXCEPT !.error = error]
      Step(p, tlv) ==
        CASE p.error # "okay" \/ p.idx >= stream.length -> p
          [] stream.length - p.idx < 4 -> Failed(p, "INCOMPLETE_TLV_HEADER")
          [] p.idx + 4 + tlv.length > stream.length -> Failed(p, "INCOMPLETE_TLV")
          [] tlv.type \notin DOMAIN allowed -> Failed(p, "UNSUPPORTED_TLV")
          [] tlv.length \notin allowed[tlv.type].length_min .. allowed[tlv.type].length_max -> Failed(p, "ILLEGAL_TLV_LENGTH")
          [] OTHER -> AddValue(p, tlv)
      none == [t \in DOMAIN allowed |-> 0]
      end == FoldLeft(Step, [idx |-> 0, error |-> "okay", values |-> <<>>, first |-> none, last |-> none], stream.tlvs)
  IN IF end.error = "okay" /\ end.idx < stream.length THEN Failed(end, "INCOMPLETE_TLV_HEADER") ELSE end

dlep_session_get_tlv_value(p, type) == IF type \in DOMAIN p.first THEN p.first[type] ELSE 0
dlep_session_get_next_tlv_value(p, v) == p.values[v].next
ValuesOf(p, type) ==
  LET Chain[v \in 0 .. Len(p.values)] ==
        IF v = 0 THEN <<>> ELSE <<p.values[v].tlv>> \o Chain[dlep_session_get_next_tlv_value(p, v)]
  IN Chain[dlep_session_get_tlv_value(p, type)]

_check_mandatory(p, ext, signal) ==
  LET s == SelectInSeq(ext.signals, LAMBDA x : x.id = signal)
  IN IF s # 0 /\ \E t \in ext.signals[s].mandatory : dlep_session_get_tlv_value(p, t) = 0 THEN "MISSING_MANDATORY_TLV" ELSE "okay"
\* A signal that the extension does not know is checked like its last one.
_check_duplicate(p, ext, signal) ==
  LET s == SelectInSeq(ext.signals, LAMBDA x : x.id = signal)
      sig == IF s = 0 THEN Last(ext.signals) ELSE ext.signals[s]
  IN IF \E t \in (sig.supported \cap DOMAIN p.first) \ sig.duplicate : p.first[t] # p.last[t] THEN "DUPLICATE_TLV" ELSE "okay"

-----------------------------------------------------------------------------
(* writing *)

IsBoolean(meta, m) == meta[m.layer2] = 0
dlep_writer_map_identity(data, meta, m) ==
  IF m.layer2 \notin DOMAIN data THEN <<>>
  ELSE LET x == IF IsBoolean(meta, m) THEN data[m.layer2]
                ELSE oonf_layer2_data_read_int64(data[m.layer2], meta[m.layer2], m.scaling)
       IN <<Tlv(m.dlep, m.length, <<Unsigned(x, m.length)>>)>>
\* A value that is not set is written as 0; the second one is only written for
\* a length of 16.
_writer_map_array(data, m) ==
  LET Value(i) == IF i \in DOMAIN data THEN Unsigned(data[i], 8) ELSE 0
      second == IF m.layer2 = "frequency1" THEN "frequency2" ELSE "bandwidth2"
  IN <<Tlv(m.dlep, m.length, IF m.length = 16 THEN <<Value(m.layer2), Value(second)>> ELSE <<Value(m.layer2)>>)>>
to_tlv(data, meta, m) == IF m.array THEN _writer_map_array(data, m) ELSE dlep_writer_map_identity(data, meta, m)

\* What a neighbor does not have comes from its network.
oonf_layer2_neigh_get_data(data, def) == data @@ def
dlep_writer_map_l2neigh_data(ext, data, def) ==
  FlattenSeq([i \in DOMAIN ext.neigh_mapping |-> to_tlv(oonf_layer2_neigh_get_data(data, def), _metadata_neigh, ext.neigh_mapping[i])])
dlep_writer_map_l2net_data(ext, data) ==
  FlattenSeq([i \in DOMAIN ext.if_mapping |-> to_tlv(data, _metadata_net, ext.if_mapping[i])])

dlep_writer_add_mac_tlv(key) == <<Tlv("MAC", 6, <<key.mac>>)>>
dlep_writer_add_lid_tlv(key) == IF key.len > 0 THEN <<Tlv("LID", key.len, <<key.lid>>)>> ELSE <<>>
dlep_writer_add_ip_tlv(ip, add) ==
  LET v4 == DlepIps[ip].af = 4
      host == DlepIps[ip].host
  IN Tlv(CASE v4 /\ host -> "IPV4_ADDRESS" [] v4 /\ ~host -> "IPV4_SUBNET" [] ~v4 /\ host -> "IPV6_ADDRESS" [] OTHER -> "IPV6_SUBNET",
         (IF v4 THEN 5 ELSE 17) + (IF host THEN 0 ELSE 1), <<IF add THEN 1 ELSE 0, ip>>)
dlep_writer_add_status == <<Tlv("STATUS", 1, <<0>>)>>
dlep_writer_add_heartbeat_tlv == <<Tlv("HEARTBEAT", 4, <<1>>)>>
dlep_writer_add_peer_type_tlv == <<Tlv("PEER_TYPE", 1, <<0>>)>>
dlep_writer_add_supported_extensions(build) ==
  LET ids == [k \in DOMAIN Optional |-> k]
      used == SelectSeq(ids, LAMBDA k : Optional[k] \in build)
  IN IF used = <<>> THEN <<>> ELSE <<Tlv("EXTENSIONS", 2 * Len(used), used)>>

Sorted(ips) == SetToSortSeq(ips, LAMBDA a, b : a < b)
Change(told, ips) ==
  LET new == Sorted(ips \ told) gone == Sorted(told \ ips)
  IN [k \in DOMAIN new |-> dlep_writer_add_ip_tlv(new[k], TRUE)] \o [k \in DOMAIN gone |-> dlep_writer_add_ip_tlv(gone[k], FALSE)]
_handle_if_ip(last, now) ==
  IF last = now THEN <<>>
  ELSE (IF last = 0 THEN <<>> ELSE <<dlep_writer_add_ip_tlv(last, FALSE)>>) \o (IF now = 0 THEN <<>> ELSE <<dlep_writer_add_ip_tlv(now, TRUE)>>)

-----------------------------------------------------------------------------
(* the radio: r is its layer2 network with the session to the router *)

VARIABLES dlepRadio,   \* the radio's layer2 network, its session and its local neighbors
          dlepRouter,  \* the router's layer2 network and its session
          dlepWire,    \* the signals under way to the router
          dlepError,   \* the first error of a parser
          dlepParsed,  \* a foreign stream and what the parser made of it
          dlepBudget
dlepVars == <<dlepRadio, dlepRouter, dlepWire, dlepError, dlepParsed, dlepBudget>>

NoData == <<>>
NoStream == [stream |-> Stream(<<>>), signal |-> "none", error |-> "none", result |-> _parse_tlvstream(<<>>, Stream(<<>>))]
DlepInit ==
  \E b \in DlepBuilds :
    /\ dlepRadio = [build |-> b.radio, session |-> dlep_session_add(b.radio, b.lid), restrict |-> "SESSION_INIT",
                    neighdata |-> NoData, data |-> NoData, ips |-> {}, if_ip |-> [v4 |-> 0, v6 |-> 0],
                    told |-> {}, told_if |-> [v4 |-> 0, v6 |-> 0], neighs |-> <<>>, local |-> <<>>]
    /\ dlepRouter = [build |-> b.router, session |-> dlep_session_add(b.router, 0), restrict |-> "SESSION_INIT_ACK",
                     neighdata |-> NoData, data |-> NoData, ips |-> {}, neighs |-> <<>>]
    /\ dlepWire = <<>> /\ dlepError = "okay" /\ dlepParsed = NoStream
    /\ dlepBudget \in DlepBudgets
DlepSpend(kind) == dlepError = "okay" /\ dlepBudget[kind] > 0 /\ dlepBudget' = [dlepBudget EXCEPT ![kind] = @ - 1]

\* Mandatory values nobody has set get a default before they are written.
Defaults(mappings, data) ==
  LET missing == SelectSeq(mappings, LAMBDA m : m.mandatory /\ m.layer2 \notin DOMAIN data)
  IN FoldLeft(LAMBDA d, m : d @@ (m.layer2 :> m.default), data, missing)

dlep_extension_radio_write_session_init_ack(r) ==
  FoldLeft(LAMBDA q, e : [q EXCEPT !.neighdata = Defaults(_extension_tree[e].neigh_mapping, @),
                                   !.data = Defaults(_extension_tree[e].if_mapping, @)],
           r, SelectSeq(r.session.extensions, LAMBDA e : e \in {"metric", "l1", "l2", "attributes"}))
dlep_extension_radio_write_session_update(r, ext) ==
  dlep_writer_map_l2neigh_data(ext, r.neighdata, NoData) \o dlep_writer_map_l2net_data(ext, r.data)
dlep_extension_radio_write_destination(r, ext, key) == dlep_writer_map_l2neigh_data(ext, r.neighs[key].data, r.neighdata)

ip_radio_write_session_update(r) ==
  Change(r.told, r.ips) \o _handle_if_ip(r.told_if.v4, r.if_ip.v4) \o _handle_if_ip(r.told_if.v6, r.if_ip.v6)
_radio_write_session_init_ack(r) ==
  dlep_writer_add_heartbeat_tlv \o dlep_writer_add_supported_extensions(r.build) \o dlep_writer_add_peer_type_tlv \o dlep_writer_add_status
lid_write_session_init_ack(s) ==
  IF s.lid_length \in {0, DefaultLid} THEN <<>> ELSE <<Tlv("LID_LENGTH", 2, <<s.lid_length>>)>>

\* add_radio_tlvs of every active extension, in their order.
SessionTlvs(r, e, signal) ==
  CASE e = "proto" -> IF signal = "SESSION_INIT_ACK" THEN _radio_write_session_init_ack(r) ELSE <<>>
    [] e = "ip" -> ip_radio_write_session_update(r)
    [] e = "lid" -> IF signal = "SESSION_INIT_ACK" THEN lid_write_session_init_ack(r.session) ELSE <<>>
    [] OTHER -> dlep_extension_radio_write_session_update(r, _extension_tree[e])
DestinationTlvs(r, e, signal, key) ==
  CASE e = "proto" -> dlep_writer_add_mac_tlv(key)
    [] e = "lid" -> dlep_writer_add_lid_tlv(key)
    [] signal = "DESTINATION_DOWN" -> <<>>
    [] e = "ip" -> Change(r.local[key].told, r.neighs[key].ips)
    [] OTHER -> dlep_extension_radio_write_destination(r, _extension_tree[e], key)
_generate_signal(s, signal, Add(_)) ==
  [signal |-> signal, stream |-> Stream(FlattenSeq([k \in DOMAIN s.extensions |-> Add(s.extensions[k])]))]

\* x is the radio with the signals it has written.
SessionSignal(x, signal) ==
  [r |-> [x.r EXCEPT !.told = x.r.ips, !.told_if = x.r.if_ip],
   out |-> Append(x.out, _generate_signal(x.r.session, signal, LAMBDA e : SessionTlvs(x.r, e, signal)))]
DestinationSignal(x, signal, key) ==
  [r |-> IF signal = "DESTINATION_DOWN" THEN x.r ELSE [x.r EXCEPT !.local[key].told = x.r.neighs[key].ips],
   out |-> Append(x.out, _generate_signal(x.r.session, signal, LAMBDA e : DestinationTlvs(x.r, e, signal, key)))]
WithState(x, key, state) == [x EXCEPT !.r.local[key].state = state, !.r.local[key].changed = FALSE]

\* Link ids of another length than that of the session are not allowed.
dlep_session_add_local_neighbor(r, key) ==
  IF key \in DOMAIN r.local \/ key.len \notin {0, r.session.lid_length} THEN r
  ELSE [r EXCEPT !.local = @ @@ (key :> [state |-> "IDLE", changed |-> FALSE, told |-> {}])]
_l2_neigh_added_to_session(x, key) ==
  LET y == [x EXCEPT !.r = dlep_session_add_local_neighbor(x.r, key)]
  IN IF key \in DOMAIN y.r.local THEN WithState(DestinationSignal(y, "DESTINATION_UP", key), key, "UP_SENT") ELSE x
_l2_neigh_changed(x, key) ==
  LET y == [x EXCEPT !.r = dlep_session_add_local_neighbor(x.r, key)]
  IN CASE key \notin DOMAIN y.r.local -> x
       [] y.r.local[key].state = "UP_SENT" -> [y EXCEPT !.r.local[key].changed = TRUE]
       [] y.r.local[key].state = "UP_ACKED" -> WithState(DestinationSignal(y, "DESTINATION_UPDATE", key), key, "UP_ACKED")
       [] OTHER -> WithState(DestinationSignal(y, "DESTINATION_UP", key), key, "UP_SENT")
_l2_neigh_removed(x, key) ==
  IF key \notin DOMAIN x.r.local THEN x ELSE WithState(DestinationSignal(x, "DESTINATION_DOWN", key), key, "DOWN_SENT")
_cb_l2_net_changed(x) == IF x.r.restrict = "ALL" THEN SessionSignal(x, "SESSION_UPDATE") ELSE x

\* The radio checks a signal with every active extension.
Problems(s, p, signal) ==
  {e \in ToSet(s.extensions) : _check_mandatory(p, _extension_tree[e], signal) # "okay" \/ _check_duplicate(p, _extension_tree[e], signal) # "okay"}
Accepted(s, p, signal) == p.error = "okay" /\ Problems(s, p, signal) = {}

_radio_process_session_init(r, p) ==
  LET ids == ValuesOf(p, "EXTENSIONS")
      offered == IF ids = <<>> THEN <<>> ELSE [k \in DOMAIN ids[1].value |-> Optional[ids[1].value[k]]]
      opened == dlep_extension_radio_write_session_init_ack([r EXCEPT !.session = dlep_session_update_extensions(@, r.build, offered)])
      acked == SessionSignal([r |-> opened, out |-> <<>>], "SESSION_INIT_ACK")
      present == SelectSeq(DlepKeys, LAMBDA k : k \in DOMAIN r.neighs)
      filled == FoldLeft(_l2_neigh_added_to_session, acked, present)
  IN [filled EXCEPT !.r.restrict = "ALL"]

-----------------------------------------------------------------------------
(* the router: t is its layer2 network with the session, p the parsed signal *)

\* mutant: a negative number of four bytes becomes a large one
NotExtended(x, n) == IF n = 4 THEN x ELSE Signed(x, n)
Extended(x, n) == Signed(x, n)
dlep_reader_map_identity(data, meta, p, m) ==
  LET v == dlep_session_get_tlv_value(p, m.dlep)
      tlv == p.values[v].tlv
      x == Extended(tlv.value[1], tlv.length)
  IN IF v = 0 THEN data
     ELSE (m.layer2 :> IF IsBoolean(meta, m) THEN (IF x # 0 THEN 1 ELSE 0)
                       ELSE oonf_layer2_data_set_int64(x, meta[m.layer2], m.scaling)) @@ data
_reader_map_array(data, p, m) ==
  LET v == dlep_session_get_tlv_value(p, m.dlep)
      tlv == p.values[v].tlv
      second == IF m.layer2 = "frequency1" THEN "frequency2" ELSE "bandwidth2"
      one == (m.layer2 :> Signed(tlv.value[1], 8)) @@ data
  IN IF v = 0 THEN data
     ELSE IF tlv.length = 16 THEN (second :> Signed(tlv.value[2], 8)) @@ one ELSE one
from_tlv(data, meta, p, m) == IF m.array THEN _reader_map_array(data, p, m) ELSE dlep_reader_map_identity(data, meta, p, m)
dlep_reader_map_l2neigh_data(data, p, e) ==
  FoldLeft(LAMBDA d, m : from_tlv(d, _metadata_neigh, p, m), data, _extension_tree[e].neigh_mapping)
dlep_reader_map_l2net_data(data, p, e) ==
  FoldLeft(LAMBDA d, m : from_tlv(d, _metadata_net, p, m), data, _extension_tree[e].if_mapping)

\* The key of a destination; a link id has to have the length of the session.
BadKey == [mac |-> 0, lid |-> 0, len |-> -1]
dlep_extension_get_l2_neighbor_key(s, p) ==
  LET mac == ValuesOf(p, "MAC") lid == ValuesOf(p, "LID")
  IN CASE mac = <<>> -> BadKey
       [] lid = <<>> -> [mac |-> mac[1].value[1], lid |-> 0, len |-> 0]
       [] lid[1].length # s.lid_length -> BadKey
       [] OTHER -> [mac |-> mac[1].value[1], lid |-> lid[1].value[1], len |-> lid[1].length]

_process_interface_specific_update(t, p, e) ==
  [t EXCEPT !.neighdata = dlep_reader_map_l2neigh_data(@, p, e), !.data = dlep_reader_map_l2net_data(@, p, e)]
dlep_extension_router_process_destination(t, p, e) ==
  LET key == dlep_extension_get_l2_neighbor_key(t.session, p)
  IN IF t.restrict # "ALL" \/ key \notin DOMAIN t.neighs THEN t
     ELSE [t EXCEPT !.neighs[key].data = dlep_reader_map_l2neigh_data(@, p, e)]

\* Addresses come before subnets, and IPv4 before IPv6.
IpValues(p) == FlattenSeq([k \in 1 .. 4 |-> ValuesOf(p, <<"IPV4_ADDRESS", "IPV6_ADDRESS", "IPV4_SUBNET", "IPV6_SUBNET">>[k])])
_process_session_ip_tlvs(ips, tlv) == IF tlv.value[1] = 1 THEN ips \cup {tlv.value[2]} ELSE ips \ {tlv.value[2]}
ip_router_process_session_update(t, p) == [t EXCEPT !.ips = FoldLeft(_process_session_ip_tlvs, @, IpValues(p))]
_process_destination_ip_tlv(n, tlv, peers) ==
  LET ip == tlv.value[2]
      af == DlepIps[ip].af
      hosts == {q \in peers : DlepIps[q].af = af /\ DlepIps[q].host}
      hop == IF n.nexthop[af] # 0 \/ hosts = {} THEN n.nexthop[af] ELSE CHOOSE q \in hosts : \A o \in hosts : q <= o
  IN IF tlv.value[1] = 1 THEN [n EXCEPT !.ips = @ \cup {ip}, !.nexthop[af] = hop] ELSE [n EXCEPT !.ips = @ \ {ip}]
ip_router_process_destination_update(t, p) ==
  LET key == dlep_extension_get_l2_neighbor_key(t.session, p)
  IN IF key \notin DOMAIN t.neighs THEN t
     ELSE [t EXCEPT !.neighs[key] = FoldLeft(LAMBDA n, tlv : _process_destination_ip_tlv(n, tlv, t.ips), @, IpValues(p))]
lid_process_session_init_ack(t, p) ==
  LET v == ValuesOf(p, "LID_LENGTH")
  IN [t EXCEPT !.session.lid_length = IF v = <<>> THEN DefaultLid ELSE v[1].value[1]]

\* What the base extension does with a signal; a destination is known by its key.
NewNeighbor == [data |-> NoData, ips |-> {}, nexthop |-> 4 :> 0 @@ 6 :> 0]
BaseProcess(t, p, signal) ==
  LET key == dlep_extension_get_l2_neighbor_key(t.session, p)
      ids == ValuesOf(p, "EXTENSIONS")
      offered == IF ids = <<>> THEN <<>> ELSE [k \in DOMAIN ids[1].value |-> Optional[ids[1].value[k]]]
      Mapped(u) == [u EXCEPT !.neighdata = dlep_reader_map_l2neigh_data(@, p, "proto")]
      Known(u) == [u EXCEPT !.neighs[key].data = dlep_reader_map_l2neigh_data(@, p, "proto")]
  IN CASE signal = "SESSION_INIT_ACK" -> Mapped([t EXCEPT !.session = dlep_session_update_extensions(@, t.build, offered)])
       [] signal = "SESSION_UPDATE" -> Mapped(t)
       [] signal = "DESTINATION_UP" -> Known([t EXCEPT !.neighs = @ @@ (key :> NewNeighbor)])
       [] signal = "DESTINATION_UPDATE" -> IF key \in DOMAIN t.neighs THEN Known(t) ELSE t
       [] signal = "DESTINATION_DOWN" -> [t EXCEPT !.neighs = [k \in DOMAIN @ \ {key} |-> @[k]]]
ExtensionProcess(t, p, e, signal) ==
  LET session == signal \in {"SESSION_INIT_ACK", "SESSION_UPDATE"}
  IN CASE e = "proto" -> BaseProcess(t, p, signal)
       [] signal = "DESTINATION_DOWN" -> t
       [] e = "ip" -> IF session THEN ip_router_process_session_update(t, p) ELSE ip_router_process_destination_update(t, p)
       [] e = "lid" -> IF signal = "SESSION_INIT_ACK" THEN lid_process_session_init_ack(t, p) ELSE t
       [] OTHER -> IF session THEN _process_interface_specific_update(t, p, e) ELSE dlep_extension_router_process_destination(t, p, e)

\* The extensions one after the other, each with the TLVs that are allowed by
\* then; the first error ends it.
Restricted(p, extensions) == [p EXCEPT !.first = [t \in DOMAIN _update_allowed_tlvs(extensions) |-> dlep_session_get_tlv_value(p, t)]]
_handle_extension(u, p, e, signal) ==
  LET ext == _extension_tree[e]
      key == dlep_extension_get_l2_neighbor_key(u.t.session, p)
      Failed(error) == [u EXCEPT !.error = error]
  IN CASE u.error # "okay" \/ e \notin ToSet(u.t.session.extensions) -> u
       [] _check_mandatory(p, ext, signal) # "okay" -> Failed(_check_mandatory(p, ext, signal))
       [] _check_duplicate(p, ext, signal) # "okay" -> Failed(_check_duplicate(p, ext, signal))
       [] e = "proto" /\ signal \notin {"SESSION_INIT_ACK", "SESSION_UPDATE"} /\ key = BadKey -> Failed("UNSUPPORTED_TLV")
       [] e = "proto" /\ signal = "DESTINATION_DOWN" /\ key \notin DOMAIN u.t.neighs -> Failed("INTERNAL_ERROR")
       [] OTHER -> [u EXCEPT !.t = ExtensionProcess(u.t, p, e, signal)]
_process_tlvs(t, p, signal) ==
  IF t.restrict \notin {"ALL", signal} THEN [t |-> t, error |-> "UNEXPECTED"]
  ELSE LET Handle(u, e) == _handle_extension(u, Restricted(p, u.t.session.extensions), e, signal)
           done == FoldLeft(Handle, [t |-> t, error |-> p.error], Registered(t.build))
       IN IF signal = "SESSION_INIT_ACK" THEN [done EXCEPT !.t.restrict = "ALL"] ELSE done

\* The ack of a destination, and what the radio does with it.
_router_write_ack(t, p, signal) ==
  LET key == dlep_extension_get_l2_neighbor_key(t.session, p)
      lid == IF "lid" \in ToSet(t.session.extensions) THEN dlep_writer_add_lid_tlv(key) ELSE <<>>
  IN CASE signal = "SESSION_UPDATE" -> <<[signal |-> "SESSION_UPDATE_ACK", stream |-> Stream(dlep_writer_add_status)]>>
       [] signal = "DESTINATION_UP" ->
            <<[signal |-> "DESTINATION_UP_ACK", stream |-> Stream(dlep_writer_add_mac_tlv(key) \o lid \o dlep_writer_add_status)]>>
       [] signal = "DESTINATION_DOWN" ->
            <<[signal |-> "DESTINATION_DOWN_ACK", stream |-> Stream(dlep_writer_add_mac_tlv(key) \o lid \o dlep_writer_add_status)]>>
       [] OTHER -> <<>>
RadioAck(x, p, signal) ==
  LET key == dlep_extension_get_l2_neighbor_key(x.r.session, p)
      Local == x.r.local[key]
  IN CASE signal = "DESTINATION_UP_ACK" /\ Local.state = "UP_SENT" ->
            IF Local.changed THEN WithState(DestinationSignal(x, "DESTINATION_UPDATE", key), key, "UP_ACKED") ELSE WithState(x, key, "UP_ACKED")
       [] signal = "DESTINATION_DOWN_ACK" /\ Local.state = "DOWN_SENT" -> [x EXCEPT !.r.local = [k \in DOMAIN @ \ {key} |-> @[k]]]
       [] OTHER -> x

-----------------------------------------------------------------------------
(* steps *)

Parsed(s, stream) == _parse_tlvstream(_update_allowed_tlvs(s.extensions), stream)
RadioWrites(x) == dlepRadio' = x.r /\ dlepWire' = dlepWire \o x.out
Radio == [r |-> dlepRadio, out |-> <<>>]

\* The session begins: the router's initialization reaches the radio.
_router_write_session_init ==
  Stream(dlep_writer_add_supported_extensions(dlepRouter.build) \o dlep_writer_add_heartbeat_tlv \o dlep_writer_add_peer_type_tlv)
DlepStart ==
  /\ DlepSpend("start") /\ dlepRadio.restrict = "SESSION_INIT"
  /\ \E p \in {Parsed(dlepRadio.session, _router_write_session_init)} :
       IF Accepted(dlepRadio.session, p, "SESSION_INIT")
       THEN RadioWrites(_radio_process_session_init(dlepRadio, p)) /\ UNCHANGED dlepError
       ELSE dlepError' = "SESSION_INIT" /\ UNCHANGED <<dlepRadio, dlepWire>>
  /\ UNCHANGED <<dlepRouter, dlepParsed>>

\* The driver of the radio sets or resets a value of the network, a default for
\* its neighbors, or an address.
Put(data, x) == IF x.value = <<>> THEN [i \in DOMAIN data \ {x.index} |-> data[i]] ELSE (x.index :> x.value[1]) @@ data
Peers == {ip \in DOMAIN DlepIps : ~DlepIps[ip].own}
Toggle(ips, ip) == IF ip \in ips THEN ips \ {ip} ELSE ips \cup {ip}
NetChanges(r) == RadioWrites(_cb_l2_net_changed([r |-> r, out |-> <<>>])) /\ UNCHANGED <<dlepRouter, dlepParsed, dlepError>>
DlepNet ==
  /\ DlepSpend("net")
  /\ \E x \in DlepSettings :
       \/ x.index \in oonf_layer2_network_index /\ NetChanges([dlepRadio EXCEPT !.data = Put(@, x)])
       \/ x.index \in oonf_layer2_neighbor_index /\ NetChanges([dlepRadio EXCEPT !.neighdata = Put(@, x)])
DlepNetIp ==
  /\ DlepSpend("ip")
  /\ \E ip \in Peers : NetChanges([dlepRadio EXCEPT !.ips = Toggle(@, ip)])
\* The address of the interface is told with the next update only.
DlepIfIp ==
  /\ DlepSpend("ifip")
  /\ \E ip \in DOMAIN DlepIps \ Peers :
       dlepRadio' = IF DlepIps[ip].af = 4 THEN [dlepRadio EXCEPT !.if_ip.v4 = ip] ELSE [dlepRadio EXCEPT !.if_ip.v6 = ip]
  /\ UNCHANGED <<dlepRouter, dlepWire, dlepParsed, dlepError>>

\* Neighbors come, change and go; one that went comes back after the ack.
Established(x, Op(_, _), key) == IF x.r.restrict = "ALL" THEN Op(x, key) ELSE x
Becomes(r, Op(_, _), key) == RadioWrites(Established([r |-> r, out |-> <<>>], Op, key)) /\ UNCHANGED <<dlepRouter, dlepParsed, dlepError>>
Without(f, key) == [k \in DOMAIN f \ {key} |-> f[k]]
DlepNeighbor ==
  /\ DlepSpend("neighbor")
  /\ \E key \in ToSet(DlepKeys) :
       \/ /\ key \notin DOMAIN dlepRadio.neighs
          /\ key \in DOMAIN dlepRadio.local => dlepRadio.local[key].state # "DOWN_SENT"
          /\ Becomes([dlepRadio EXCEPT !.neighs = @ @@ (key :> [data |-> NoData, ips |-> {}])], _l2_neigh_added_to_session, key)
       \/ /\ key \in DOMAIN dlepRadio.neighs
          /\ Becomes([dlepRadio EXCEPT !.neighs = Without(@, key)], _l2_neigh_removed, key)
DlepNeighborData ==
  /\ DlepSpend("value")
  /\ \E key \in DOMAIN dlepRadio.neighs :
       \/ \E x \in DlepSettings : /\ x.index \in oonf_layer2_neighbor_index
                                  /\ Becomes([dlepRadio EXCEPT !.neighs[key].data = Put(@, x)], _l2_neigh_changed, key)
       \/ \E ip \in Peers : Becomes([dlepRadio EXCEPT !.neighs[key].ips = Toggle(@, ip)], _l2_neigh_changed, key)

\* The router takes a signal; its ack reaches the radio at once.
DlepReceive ==
  /\ dlepError = "okay" /\ dlepWire # <<>>
  /\ \E p \in {Parsed(dlepRouter.session, Head(dlepWire).stream)} :
     \E u \in {_process_tlvs(dlepRouter, p, Head(dlepWire).signal)} :
     \E ack \in {IF u.error = "okay" THEN _router_write_ack(u.t, p, Head(dlepWire).signal) ELSE <<>>} :
       LET q == Parsed(dlepRadio.session, ack[1].stream)
           known == ack = <<>> \/ Accepted(dlepRadio.session, q, ack[1].signal)
           x == IF ack = <<>> \/ ~known THEN Radio ELSE RadioAck(Radio, q, ack[1].signal)
       IN /\ dlepError' = IF u.error # "okay" THEN u.error ELSE IF known THEN "okay" ELSE "ACK"
          /\ dlepRouter' = u.t
          /\ dlepRadio' = x.r /\ dlepWire' = Tail(dlepWire) \o x.out
  /\ UNCHANGED <<dlepParsed, dlepBudget>>

\* A signal of a sender that is not this program, to a router whose session with
\* it is established and knows one destination.
ForeignKey == [mac |-> 0, lid |-> 0, len |-> 0]
ForeignRouter == [dlepRouter EXCEPT !.restrict = "ALL", !.neighs = ForeignKey :> NewNeighbor]
ForeignSignals == {"SESSION_UPDATE", "DESTINATION_UP", "DESTINATION_UPDATE", "DESTINATION_DOWN"}
DlepForeign ==
  /\ DlepSpend("foreign")
  /\ \E stream \in DlepStreams, signal \in ForeignSignals :
     \E p \in {Parsed(ForeignRouter.session, stream)} :
       dlepParsed' = [stream |-> stream, signal |-> signal, result |-> p, error |-> _process_tlvs(ForeignRouter, p, signal).error]
  /\ UNCHANGED <<dlepRadio, dlepRouter, dlepWire, dlepError>>

DlepNext == DlepStart \/ DlepNet \/ DlepNetIp \/ DlepIfIp \/ DlepNeighbor \/ DlepNeighborData \/ DlepReceive \/ DlepForeign

-----------------------------------------------------------------------------
(* what is checked *)

\* Whatever values, prefixes and link ids a radio has: no signal and no ack is
\* rejected by the other side, mandatory values included, and once all are
\* processed the router has every value the radio has, with its sign, that fits
\* into its TLV, the prefixes of the network and of every neighbor, and exactly
\* the neighbors whose link ids the session allows (dlep_extension.c:174,
\* dlep_writer.c:387, dlep_reader.c:494, ip.c:226, lid.c:228).
FitsWire(x, m) == 2 * x < Space(m.length) /\ 2 * x >= -Space(m.length)
Same(mappings, mine, theirs) ==
  \A k \in DOMAIN mappings :
    LET m == mappings[k]
    IN m.layer2 \in DOMAIN mine /\ FitsWire(mine[m.layer2], m) => m.layer2 \in DOMAIN theirs /\ theirs[m.layer2] = mine[m.layer2]
DlepDataRead ==
  /\ dlepError = "okay"
  /\ (dlepWire = <<>> /\ dlepRadio.restrict = "ALL") =>
       /\ dlepRouter.restrict = "ALL" /\ dlepRouter.session = dlepRadio.session
       /\ \A k \in DOMAIN dlepRadio.session.extensions :
            LET ext == _extension_tree[dlepRadio.session.extensions[k]]
            IN ext # _extension_tree["proto"] =>
                 /\ Same(ext.neigh_mapping, dlepRadio.neighdata, dlepRouter.neighdata)
                 /\ Same(ext.if_mapping, dlepRadio.data, dlepRouter.data)
                 /\ \A key \in DOMAIN dlepRouter.neighs : Same(ext.neigh_mapping, dlepRadio.neighs[key].data, dlepRouter.neighs[key].data)
       /\ dlepRouter.ips = dlepRadio.ips \cup ({dlepRadio.told_if.v4, dlepRadio.told_if.v6} \ {0})
       /\ DOMAIN dlepRouter.neighs = {key \in DOMAIN dlepRadio.neighs : key.len \in {0, dlepRadio.session.lid_length}}
       /\ \A key \in DOMAIN dlepRouter.neighs : dlepRouter.neighs[key].ips = dlepRadio.neighs[key].ips

\* The parser takes a stream exactly if it consists of whole TLVs that a session
\* may have with lengths they may have, and then finds the values of every type,
\* each once and in the order of the stream (dlep_session.c:860).  A signal is
\* only accepted if it also has every TLV that an active extension demands of it,
\* and twice only those that every active extension listing them for the signal
\* allows twice; and it is accepted if, besides, the TLVs it has twice are listed
\* (dlep_session.c:965, :1011; one that is not listed may be refused, because
\* _check_duplicate takes the last table of an extension without the signal).
StreamExact ==
  LET stream == dlepParsed.stream
      result == dlepParsed.result
      active == ToSet(dlepRouter.session.extensions)
      tables == _update_allowed_tlvs(dlepRouter.session.extensions)
      entries == UNION {{sig \in ToSet(_extension_tree[e].signals) : sig.id = dlepParsed.signal} : e \in active}
      Copies(type) == SelectSeq(stream.tlvs, LAMBDA t : t.type = type)
      whole == stream.length = FoldLeft(LAMBDA n, t : n + 4 + t.length, 0, stream.tlvs)
      legal == \A k \in DOMAIN stream.tlvs :
                 LET t == stream.tlvs[k]
                 IN t.type \in DOMAIN tables /\ t.length \in tables[t.type].length_min .. tables[t.type].length_max
      complete == \A sig \in entries, type \in dlep_tlvs : type \in sig.mandatory => Copies(type) # <<>>
      twice == {type \in dlep_tlvs : Len(Copies(type)) > 1}
      allowed == \A sig \in entries : twice \cap sig.supported \subseteq sig.duplicate
      listed == \A type \in twice : \E sig \in entries : type \in sig.supported
  IN dlepParsed.error # "none" =>
       /\ (result.error = "okay") = (whole /\ legal)
       /\ result.error = "okay" => \A type \in DOMAIN result.first : ValuesOf(result, type) = Copies(type)
       /\ dlepParsed.error = "okay" => whole /\ legal /\ complete /\ allowed
       /\ whole /\ legal /\ complete /\ allowed /\ listed => dlepParsed.error = "okay"
=============================================================================
