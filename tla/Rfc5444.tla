------------------------------ MODULE Rfc5444 ------------------------------
(***************************************************************************)
(* The RFC5444 multiplexer (src/src/base/oonf_rfc5444.c) with the writer   *)
(* below it (src/src/librfc5444/rfc5444_writer.c, rfc5444_msg_generator.c, *)
(* rfc5444_pkt_generator.c): interfaces and their targets come, go and are *)
(* reconfigured, messages are cut into fragments, aggregated into packets  *)
(* per target, forwarded and flushed.                                      *)
(***************************************************************************)
EXTENDS Rfc5444Blocks, Rfc5444Values, SequencesExt

CONSTANTS Ifs, Uni,     \* interfaces and the unicast target a plugin uses on each
          PacketSize,   \* RFC5444_MAX_PACKET_SIZE
          MsgSize,      \* RFC5444_MAX_MESSAGE_SIZE
          Sizes,        \* sizes of messages to forward
          Contents,     \* by name, what HELLOs and TCs hold: bytes of header and message TLVs, addresses, metrics, times
          Budgets       \* how often each actor may act, and the name of the content
ASSUME SizeAssumption == PacketSize \in Nat /\ MsgSize \in Nat /\ Ifs \cap {Uni[i] : i \in Ifs} = {}
Targets == Ifs \cup {Uni[i] : i \in Ifs}
IfOf(t) == IF t \in Ifs THEN t ELSE CHOOSE i \in Ifs : Uni[i] = t

VARIABLES interfaces, \* the interfaces with their reference counts, sockets and plugins that hold the unicast target
          targets,    \* their targets: the multicast one, named like the interface, and the unicast one
          protocol,   \* port, users of packet numbers, blocked output, next message
          result,     \* a history: the message of the last step and what its receiver reads
          sent,       \* a history: packets of every target since it was created
          handed,     \* a history: messages every target took since then
          budget
muxVars == <<interfaces, targets, protocol, result, sent, handed, budget>>

\* A generator that is caught in its loop and the use of a target that is gone
\* end everything.
Running == result.error \notin {"loop", "freed"}
Spend(kind) == Running /\ budget[kind] > 0 /\ budget' = [budget EXCEPT ![kind] = @ - 1]
NoInterface == [refcount |-> 0, configured |-> FALSE, listener |-> FALSE, applied |-> FALSE, active |-> FALSE, up |-> TRUE, plugins |-> 0]
NoTarget == [alive |-> FALSE, flushed |-> TRUE, msgs |-> <<>>, header |-> 0, seqno |-> 0, numbered |-> FALSE, timer |-> FALSE]
NoResult == [msg |-> <<>>, max |-> 0, sizes |-> <<>>, read |-> <<>>, error |-> NONE, metrics |-> <<0, 0, 0, 0>>, tlvs |-> <<>>, time |-> 0]
MuxInit ==
  /\ interfaces = [i \in Ifs |-> NoInterface] /\ targets = [t \in Targets |-> NoTarget]
  /\ protocol = [port |-> 0, pktseqno |-> 0, block |-> FALSE, next |-> 1]
  /\ result = NoResult
  /\ sent = [t \in Targets |-> <<>>] /\ handed = [t \in Targets |-> <<>>]
  /\ budget \in Budgets

-----------------------------------------------------------------------------
(* packets; p is a record of the targets and of what they sent and took *)

_bin_msgs_size(target) == FoldLeft(LAMBDA n, m : n + m.size, 0, target.msgs)

\* The number of the packet is taken when it is begun.
_cb_add_seqno(target) ==
  LET seqno == protocol.pktseqno > 0
  IN [target EXCEPT !.header = IF seqno THEN 5 ELSE 3, !.numbered = seqno, !.seqno = IF seqno THEN @ + 1 ELSE @]
_rfc5444_writer_begin_packet(target) == [_cb_add_seqno(target) EXCEPT !.flushed = FALSE]
Begun(target) == IF target.flushed THEN _rfc5444_writer_begin_packet(target) ELSE target

\* A blocked output or a closed socket loses the packet.
Packet(t, target) ==
  [numbered |-> target.numbered, seqno |-> target.seqno, out |-> ~protocol.block /\ interfaces[IfOf(t)].active,
   size |-> (IF target.numbered THEN 3 ELSE 1) + _bin_msgs_size(target),
   msgs |-> [k \in DOMAIN target.msgs |-> target.msgs[k].id]]
\* mutant: the messages stay in the buffer of the target
KeepsMessages(p, t) ==
  IF p.targets[t].flushed THEN p
  ELSE [p EXCEPT !.sent[t] = Append(@, Packet(t, p.targets[t])), !.targets[t] = [p.targets[t] EXCEPT !.flushed = TRUE]]
rfc5444_writer_flush(p, t) ==
  IF p.targets[t].flushed THEN p
  ELSE [p EXCEPT !.sent[t] = Append(@, Packet(t, p.targets[t])),
                 !.targets[t] = [p.targets[t] EXCEPT !.msgs = <<>>, !.flushed = TRUE]]

\* A message that does not fit beside the others sends them first; the
\* aggregation timer runs from the first message on.
Full(target, size) == target.header + _bin_msgs_size(target) + size > PacketSize
MakeRoom(p, t, size) ==
  IF ~Full(p.targets[t], size) THEN p
  ELSE LET f == rfc5444_writer_flush(p, t) IN [f EXCEPT !.targets[t] = _rfc5444_writer_begin_packet(f.targets[t])]
_cb_msggen_notifier(target) == [target EXCEPT !.timer = TRUE]
AddMessage(p, t, id, size) ==
  [p EXCEPT !.targets[t] = _cb_msggen_notifier([p.targets[t] EXCEPT !.msgs = Append(@, [id |-> id, size |-> size])]),
            !.handed[t] = Append(@, id)]
ForAll(p, ts, Op(_, _)) == FoldLeft(Op, p, SetToSeq(ts))
Now == [targets |-> targets, sent |-> sent, handed |-> handed]
Set(p) == targets' = p.targets /\ sent' = p.sent /\ handed' = p.handed

-----------------------------------------------------------------------------
(* targets and interfaces *)

\* A target that is created anew forgets what it had not sent.
_create_target(p, t) ==
  [targets |-> [p.targets EXCEPT ![t] = [NoTarget EXCEPT !.alive = TRUE]],
   sent |-> [p.sent EXCEPT ![t] = <<>>], handed |-> [p.handed EXCEPT ![t] = <<>>]]
_destroy_target(p, t) ==
  [targets |-> [p.targets EXCEPT ![t] = NoTarget],
   sent |-> [p.sent EXCEPT ![t] = <<>>], handed |-> [p.handed EXCEPT ![t] = <<>>]]

oonf_rfc5444_add_interface(interf) == [interf EXCEPT !.refcount = @ + 1]

\* The last user takes the interface, its sockets and its targets away.
oonf_rfc5444_remove_interface(interf) ==
  IF interf.refcount > 1 THEN [interf EXCEPT !.refcount = @ - 1]
  ELSE [NoInterface EXCEPT !.up = interf.up, !.configured = interf.configured, !.listener = interf.listener]
Remaining(p, i, interf) == IF interf.refcount > 0 THEN p ELSE _destroy_target(_destroy_target(p, i), Uni[i])

\* A socket that is opened or bound anew makes a new multicast target, and so
\* does every new configuration.
oonf_packet_apply_managed(interf) == [interf EXCEPT !.applied = TRUE, !.active = interf.up]
oonf_rfc5444_reconfigure_interface(p, i) == IF protocol'.port = 0 THEN p ELSE _create_target(p, i)
Applied(interf) == IF protocol'.port = 0 THEN interf ELSE oonf_packet_apply_managed(interf)

_cb_cfg_interface_changed(i) ==
  LET interf == interfaces[i]
      added == IF interf.configured THEN interf ELSE [oonf_rfc5444_add_interface(interf) EXCEPT !.configured = TRUE]
      removed == oonf_rfc5444_remove_interface([interf EXCEPT !.configured = FALSE])
  IN /\ Spend("config") /\ UNCHANGED protocol /\ result' = NoResult
     /\ \/ /\ interfaces' = [interfaces EXCEPT ![i] = Applied(added)]
           /\ Set(oonf_rfc5444_reconfigure_interface(Now, i))
        \/ /\ interf.configured
           /\ interfaces' = [interfaces EXCEPT ![i] = removed]
           /\ Set(Remaining(Now, i, removed))

\* Sockets are closed, and opened again with the new port unless it is 0.
oonf_rfc5444_reconfigure_protocol(port) ==
  LET closed == [i \in Ifs |-> [interfaces[i] EXCEPT !.active = FALSE, !.applied = FALSE]]
      Again == {i \in Ifs : interfaces[i].configured \/ interfaces[i].applied}
  IN /\ Spend("config") /\ port # protocol.port
     /\ protocol' = [protocol EXCEPT !.port = port]
     /\ interfaces' = [i \in Ifs |-> IF i \in Again THEN Applied(closed[i]) ELSE closed[i]]
     /\ Set(ForAll(Now, Again, LAMBDA p, i : oonf_rfc5444_reconfigure_interface(p, i)))
     /\ result' = NoResult

\* The interface comes up, gets another address or goes down.
_cb_interface_changed(i, up) ==
  LET listens == interfaces[i].applied
  IN /\ Spend("link")
     /\ interfaces' = [interfaces EXCEPT ![i].up = up, ![i].active = listens /\ up]
     /\ UNCHANGED protocol /\ result' = NoResult
     /\ Set(IF listens /\ up THEN oonf_rfc5444_reconfigure_interface(Now, i) ELSE Now)

\* NHDP listens to its interfaces.
Listener(i) ==
  LET interf == interfaces[i]
      removed == oonf_rfc5444_remove_interface([interf EXCEPT !.listener = FALSE])
  IN /\ Spend("listener") /\ UNCHANGED protocol /\ result' = NoResult
     /\ \/ /\ ~interf.listener
           /\ interfaces' = [interfaces EXCEPT ![i] = [oonf_rfc5444_add_interface(interf) EXCEPT !.listener = TRUE]]
           /\ Set(Now)
        \/ /\ interf.listener
           /\ interfaces' = [interfaces EXCEPT ![i] = removed]
           /\ Set(Remaining(Now, i, removed))

\* The unicast target of plugins.  Every one is counted as a user of the
\* interface, but none but the first as a user of the target: the first that
\* leaves takes the target away, and the next one finds its memory freed.
oonf_rfc5444_add_target(i) ==
  /\ Spend("target") /\ interfaces[i].refcount > 0
  /\ interfaces' = [interfaces EXCEPT ![i] = [oonf_rfc5444_add_interface(@) EXCEPT !.plugins = @ + 1]]
  /\ Set(IF targets[Uni[i]].alive THEN Now ELSE _create_target(Now, Uni[i]))
  /\ UNCHANGED protocol /\ result' = NoResult
oonf_rfc5444_remove_target(i) ==
  LET interf == oonf_rfc5444_remove_interface([interfaces[i] EXCEPT !.plugins = @ - 1])
  IN /\ Spend("target") /\ interfaces[i].plugins > 0 /\ UNCHANGED protocol
     /\ \/ /\ targets[Uni[i]].alive
           /\ interfaces' = [interfaces EXCEPT ![i] = interf]
           /\ Set(_destroy_target(Remaining(Now, i, interf), Uni[i])) /\ result' = NoResult
        \/ /\ ~targets[Uni[i]].alive
           /\ UNCHANGED <<interfaces, targets, sent, handed>> /\ result' = [NoResult EXCEPT !.error = "freed"]

Pktseqno ==
  /\ Spend("seqno") /\ UNCHANGED <<interfaces, targets, sent, handed>> /\ result' = NoResult
  /\ \/ protocol' = [protocol EXCEPT !.pktseqno = @ + 1]
     \/ protocol.pktseqno > 0 /\ protocol' = [protocol EXCEPT !.pktseqno = @ - 1]
oonf_rfc5444_block_output ==
  /\ Spend("seqno") /\ protocol' = [protocol EXCEPT !.block = ~@]
  /\ UNCHANGED <<interfaces, targets, sent, handed>> /\ result' = NoResult

-----------------------------------------------------------------------------
(* messages *)

oonf_rfc5444_is_target_active(t) == targets[t].alive /\ interfaces[IfOf(t)].active

\* The addresses content providers add: an address is added once, mandatory
\* ones come first and a TLV is only added to an address that has none.
rfc5444_writer_add_address(msg, c) ==
  LET k == SelectInSeq(msg, LAMBDA a : a.bytes = c.bytes /\ a.plen = c.plen)
  IN IF k = 0 THEN Append(msg, c)
     ELSE [msg EXCEPT ![k] = [@ EXCEPT !.mandatory = @ \/ c.mandatory, !.tlvs = @ @@ c.tlvs]]
Collected(calls) ==
  LET msg == FoldLeft(rfc5444_writer_add_address, <<>>, calls)
      first == [k \in DOMAIN msg |-> SelectInSeq(calls, LAMBDA c : c.bytes = msg[k].bytes /\ c.plen = msg[k].plen)]
      Early(k) == calls[first[k]].mandatory
      order == SelectSeq([k \in DOMAIN msg |-> k], Early) \o SelectSeq([k \in DOMAIN msg |-> k], LAMBDA k : ~Early(k))
  IN [k \in DOMAIN order |-> msg[order[k]]]

\* Packets of the selected targets are begun, then the message is cut into
\* fragments that fit into each of them.
Selected(ts) == [Now EXCEPT !.targets = [t \in Targets |-> IF t \in ts THEN Begun(targets[t]) ELSE targets[t]]]
max_msg_size(p, ts) == Min({MsgSize} \cup {PacketSize - p.targets[t].header : t \in ts})
Message(p, ts, id, size) ==
  ForAll(ForAll(p, ts, LAMBDA q, t : MakeRoom(q, t, size)), ts, LAMBDA q, t : AddMessage(q, t, id, size))
CreateMessage(ts, head, calls, metrics, time) ==
  LET p == Selected(ts)
      max == max_msg_size(p, ts) - head
      msg == Collected(calls)
  IN \E out \in {rfc5444_writer_create_message(msg, max)} :
       LET size == [k \in DOMAIN out.fragments |-> head + _bin_addr_size(out.fragments[k])]
       IN /\ result' = [msg |-> msg, max |-> max + head, sizes |-> size, read |-> [k \in DOMAIN size |-> Read(out.fragments[k])], error |-> out.error,
                         metrics |-> metrics, tlvs |-> _write_metric_tlv(metrics), time |-> time]
          /\ Set(FoldLeft(LAMBDA q, k : Message(q, ts, protocol.next + k - 1, size[k]), p, [k \in DOMAIN size |-> k]))
          /\ protocol' = [protocol EXCEPT !.next = @ + Len(size)]
          /\ UNCHANGED interfaces
MessageDropped(ts) ==
  /\ Set(Selected(ts)) /\ UNCHANGED <<interfaces, protocol>> /\ result' = NoResult

\* A HELLO goes to one target; NHDP drops it unless it is a multicast one.
oonf_rfc5444_send_if(t) ==
  /\ Spend("create")
  /\ oonf_rfc5444_is_target_active(t)
  /\ \/ t \in Ifs /\ \E c \in Contents[budget.content].hello : CreateMessage({t}, c.head, c.calls, c.metrics, c.time)
     \/ t \notin Ifs /\ MessageDropped({t})
\* A TC goes to the active targets the flooding selector takes.
_cb_filtered_targets_selector(ts) == \A t \in ts : oonf_rfc5444_is_target_active(t)
oonf_rfc5444_send_all(ts) ==
  /\ Spend("create")
  /\ _cb_filtered_targets_selector(ts)
  /\ \E c \in Contents[budget.content].tc : CreateMessage(ts, c.head, c.calls, <<0, 0, 0, 0>>, 0)

\* Room is made on the targets one after the other; one that is too small ends
\* it for all, and so does the hop limit, but only afterwards.
rfc5444_writer_forward_msg(ts, size, hoplimit) ==
  LET Room(p, t) ==
        LET f == IF p.targets[t].flushed \/ ~Full(p.targets[t], size) THEN p ELSE rfc5444_writer_flush(p, t)
        IN [f EXCEPT !.targets[t] = Begun(f.targets[t])]
      order == SetToSeq(ts)
      long == SelectInSeq(order, LAMBDA t : Full(Room(Now, t).targets[t], size))
      p == FoldLeft(Room, Now, IF long = 0 THEN order ELSE SubSeq(order, 1, long))
  IN /\ Spend("forward") /\ ts # {} /\ \A t \in ts : targets[t].alive
     /\ UNCHANGED interfaces /\ result' = NoResult
     /\ IF long # 0 \/ hoplimit <= 1 THEN Set(p) /\ UNCHANGED protocol
        ELSE /\ Set(ForAll(p, ts, LAMBDA q, t : AddMessage(q, t, protocol.next, size)))
             /\ protocol' = [protocol EXCEPT !.next = @ + 1]

_cb_aggregation_event(t) ==
  /\ Running /\ targets[t].timer
  /\ Set(rfc5444_writer_flush([Now EXCEPT !.targets[t].timer = FALSE], t))
  /\ UNCHANGED <<interfaces, protocol, budget>> /\ result' = NoResult

-----------------------------------------------------------------------------
MuxNext ==
  \/ \E i \in Ifs : \/ _cb_cfg_interface_changed(i) \/ Listener(i)
                    \/ oonf_rfc5444_add_target(i) \/ oonf_rfc5444_remove_target(i)
                    \/ \E up \in BOOLEAN : _cb_interface_changed(i, up)
  \/ \E port \in {0, 1} : oonf_rfc5444_reconfigure_protocol(port)
  \/ Pktseqno \/ oonf_rfc5444_block_output
  \/ \E t \in Targets : oonf_rfc5444_send_if(t) \/ _cb_aggregation_event(t)
  \/ \E ts \in SUBSET Ifs : \/ oonf_rfc5444_send_all(ts)
                            \/ \E size \in Sizes, hoplimit \in {1, 2} : rfc5444_writer_forward_msg(ts, size, hoplimit)
-----------------------------------------------------------------------------
(* what is checked *)

\* Whatever addresses a message has and however they share heads, tails, prefix
\* lengths and TLVs: the receiver of all fragments reads every address once, with
\* its prefix length and exactly its TLVs, and the mandatory ones in every
\* fragment (rfc5444_msg_generator.c:_compress_address, _write_addresses,
\* rfc5444_reader.c:_parse_addrblock).
FragmentsRead ==
  LET Plain(a) == [bytes |-> a.bytes, plen |-> a.plen, tlvs |-> a.tlvs]
      Places(m) == {k \in DOMAIN result.read : \E p \in DOMAIN result.read[k] : result.read[k][p] = Plain(result.msg[m])}
      Count == FoldLeft(LAMBDA n, r : n + Len(r), 0, result.read)
  IN result.error = NONE =>
       /\ \A m \in DOMAIN result.msg :
            IF result.msg[m].mandatory THEN Places(m) = DOMAIN result.read ELSE Cardinality(Places(m)) = 1
       /\ Count = FoldLeft(LAMBDA n, a : n + (IF a.mandatory THEN Len(result.read) ELSE 1), 0, result.msg)

\* The size the generator estimates while it compresses addresses: no fragment
\* is larger than the space it was cut for, and so no packet is larger than its
\* buffer, as long as the addresses of a message have one prefix length.  When
\* they have several, the bytes of the prefix lengths are missing in the
\* estimate at times (_compress_address, rfc5444_msg_generator.c:961), but never
\* more than the one byte each address of the fragment has
\* (rfc5444_msg_generator.c:327, :1503).
PacketsFit ==
  /\ LET uniform == Cardinality({result.msg[m].plen : m \in DOMAIN result.msg}) <= 1
     IN \A k \in DOMAIN result.sizes :
          result.sizes[k] <= result.max + (IF uniform THEN 0 ELSE Len(result.read[k]))
  /\ \A t \in Targets : /\ targets[t].header + _bin_msgs_size(targets[t]) <= PacketSize
                         /\ \A k \in DOMAIN sent[t] : sent[t][k].size <= PacketSize

\* Every message a target took is in exactly one of its packets or waits for the
\* next one, in the order in which they came, and numbered packets have
\* consecutive numbers, whatever is aggregated, forwarded, dropped by the header
\* callback or numbered from now on (rfc5444_pkt_generator.c:112,
\* oonf_rfc5444.c:1341).
SentOnce ==
  \A t \in Targets :
    LET numbered == SelectSeq(sent[t], LAMBDA p : p.numbered)
    IN /\ handed[t] = FlattenSeq([k \in DOMAIN sent[t] |-> sent[t][k].msgs])
                         \o [k \in DOMAIN targets[t].msgs |-> targets[t].msgs[k].id]
       /\ \A k \in DOMAIN numbered : numbered[k].seqno = k

\* A message that waits has a running aggregation timer, its target is not
\* flushed and its interface exists, so it is going to be sent; the count of an
\* interface is that of its users, the plugins that share a target included
\* (oonf_rfc5444.c:1197, :1361, :629).
PendingFlushed ==
  /\ \A t \in Targets : targets[t].msgs # <<>> => targets[t].timer /\ ~targets[t].flushed /\ targets[t].alive
  /\ \A t \in Targets : targets[t].alive => interfaces[IfOf(t)].refcount > 0
  /\ \A i \in Ifs : interfaces[i].refcount = Cardinality({u \in {"configured", "listener"} : interfaces[i][u]}) + interfaces[i].plugins

\* The metrics of a HELLO arrive as what the sender encodes, for each kind its
\* own, encoding what was decoded changes nothing any more, a metric and a
\* validity time never get smaller on the way (nhdp_writer.c:423,
\* rfc5444.c:90, :185).
ValuesRead ==
  LET Sent(i) == IF result.metrics[i] = 0 \/ result.metrics[i] > METRIC_MAX THEN METRIC_INFINITE
                 ELSE rfc7181_metric_decode(rfc7181_metric_encode(result.metrics[i]))
      time == rfc5497_timetlv_decode(rfc5497_timetlv_encode(result.time))
  IN /\ nhdp_domain_process_metric_linktlv(result.tlvs) = [link_out |-> Sent(1), neigh_out |-> Sent(3)]
     /\ nhdp_domain_process_metric_2hoptlv(result.tlvs) = [in |-> Sent(3), out |-> Sent(4)]
     /\ \A i \in 1 .. 4 : Sent(i) # METRIC_INFINITE =>
          /\ Sent(i) >= result.metrics[i]
          /\ rfc7181_metric_decode(rfc7181_metric_encode(Sent(i))) = Sent(i)
     /\ time >= result.time /\ time <= result.time + result.time \div 8 + 1
=============================================================================
