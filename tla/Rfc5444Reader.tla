--------------------------- MODULE Rfc5444Reader ---------------------------
(***************************************************************************)
(* Who is told what of a received packet, and who holds what of a message  *)
(* that is written: the calls of rfc5444_reader.c to the consumers of      *)
(* packets, messages and addresses, with everything a consumer may drop,   *)
(* and the registry of rfc5444_writer.c, whose messages are shared by      *)
(* their owner, content providers and TLV types.                           *)
(*                                                                         *)
(* Parsing is in Rfc5444Blocks; here a message is parsed or an error.  A   *)
(* callback a consumer does not have is one that returns RFC5444_OKAY.     *)
(***************************************************************************)
EXTENDS Integers, FiniteSets, Sequences, SequencesExt

CONSTANTS ReaderConsumers,  \* the consumers that may be added, [id, ...]: see Consumers
          ReaderPackets,    \* packets, see Packets
          WriterProviders,  \* [id, type, own]: content providers of a message type; own: with a TLV type
          WriterTlvtypes,   \* [id, type]: types of address TLVs that belong to a message type
          ReaderBudgets     \* how often each operation happens

\* enum rfc5444_result: the higher the more is dropped; errors are negative.
Okay == 0
DropTlv == 1
DropAddress == 2
DropButForward == 3
DropMessage == 4
DropPacket == 5
BufferEnds == -2
BadVersion == -1
rfc5444_result == -20 .. DropPacket

\* A TLV covers the addresses i1 .. i2 of its block; an entry of a consumer has
\* a type, a type extension or all of them (-1), and the lengths it takes.
TlvEntries == [type : Nat, ext : Nat, i1 : Nat, i2 : Nat, length : Nat]
ConsumerEntries == [type : Nat, ext : Nat \cup {-1}, mandatory : BOOLEAN, lengths : SUBSET Nat]
\* kind "packet", "message" or "address"; msg_id 0 is a default_msg_consumer.  Its
\* callbacks return result at one point, for TLVs of type on or address on, and
\* RFC5444_OKAY otherwise; prevent: it sets _do_not_forward at its start.
ReturnPoints == [at : {"none", "start", "tlv", "block", "failed", "end"}, on : Nat, result : rfc5444_result, prevent : BOOLEAN]
Consumers ==
  [id : Nat, order : Int, kind : {"packet", "message", "address"}, msg_id : Nat, entries : Seq(ConsumerEntries), does : ReturnPoints]
\* hoplimit 0: none; the blocks of a message have num addresses and their TLVs.
AddressBlocks == [num : Nat, tlvs : Seq(TlvEntries)]
Messages == [type : Nat, hoplimit : Nat, error : {Okay, BufferEnds}, tlvs : Seq(TlvEntries), blocks : Seq(AddressBlocks)]
Packets == [error : {Okay, BadVersion}, tlvs : Seq(TlvEntries), messages : Seq(Messages)]
ASSUME ReaderAssumption == ReaderConsumers \subseteq Consumers /\ ReaderPackets \subseteq Packets
\* The ids stand for the addresses of the structs that are registered.
ASSUME IdsAssumption ==
  /\ \A p, q \in WriterProviders : p.id = q.id => p = q
  /\ \A y, z \in WriterTlvtypes : y.id = z.id => y = z

VARIABLES rdConsumers,  \* packet_consumer and message_consumer, in tree order: [packet, message]
          rdPacket,     \* the last packet
          rdCalls,      \* the callbacks it caused, in their order
          rdForwarded,  \* its messages that were given to forwarding
          wrMessages,   \* _msgcreators: the message of a type, [registered, providers, tlvtypes], with its number
          wrHeld,       \* the numbers of the messages the owner, the providers and the TLV types point to
          rdBudget
readerVars == <<rdConsumers, rdPacket, rdCalls, rdForwarded>>
writerVars == <<wrMessages, wrHeld>>
rfcVars == <<readerVars, writerVars, rdBudget>>

-----------------------------------------------------------------------------
(* consumers *)

\* mutant: addresses come before the messages of their order
AddressFirst(a, b) == a.order < b.order \/ (a.order = b.order /\ (a.kind # b.kind => a.kind = "address"))
_consumer_avl_comp(a, b) == a.order < b.order \/ (a.order = b.order /\ (a.kind # b.kind => b.kind = "address"))
\* A consumer is sorted behind the ones it is equal to.
_add_consumer(list, c) ==
  LET before == SelectSeq(list, LAMBDA x : _consumer_avl_comp(x, c)) IN before \o <<c>> \o SubSeq(list, Len(before) + 1, Len(list))

\* The entries in the order of their types, as _add_consumer lists them.
TypeOrder(x) == 256 * x.type + (IF x.ext = -1 THEN 0 ELSE x.ext)
EntriesOf(c) == SortSeq(c.entries, LAMBDA a, b : TypeOrder(a) < TypeOrder(b))
TlvsOf(tlvs) == SortSeq(tlvs, LAMBDA a, b : TypeOrder(a) < TypeOrder(b))
\* None (position 0) is behind everything.
_compare_tlvtypes(tlv, entry) ==
  CASE entry = <<>> -> IF tlv = <<>> THEN 0 ELSE -1
    [] tlv = <<>> -> 1
    [] entry[1].ext # -1 -> TypeOrder(tlv[1]) - TypeOrder(entry[1])
    [] OTHER -> tlv[1].type - entry[1].type

-----------------------------------------------------------------------------
(* one block of TLVs for one consumer *)

\* m is what happens with a message: [result, calls, tlvs, addrs, prevent, open,
\* number]; tlvs and addrs are the ones dropped for this and later consumers.
Call(m, what, c, block, idx, tlv, r) ==
  [m EXCEPT !.calls = Append(@, [message |-> m.number, what |-> what, by |-> c, block |-> block, idx |-> idx, tlv |-> tlv, returns |-> r])]
Returned(c, what, on) == IF c.does.at = what /\ c.does.on = on THEN c.does.result ELSE Okay
At(list, k) == IF k \in DOMAIN list THEN <<list[k]>> ELSE <<>>

\* mutant: a dropped TLV is only remembered for the consumer that dropped it
ForgetsDrop(m, block, tlv, idx) == m
DropsTlv(m, block, tlv, idx) == [m EXCEPT !.tlvs = @ \cup {<<block, tlv, idx>>}]

\* One round of the loop: s is [m, t, e, failed, found], t and e the next TLV and
\* entry, found the TLVs of each entry.
BlockStep(s, c, block, tlvs, entries, idx) ==
  LET tlv == At(tlvs, s.t)
      entry == At(entries, s.e)
      here == tlv # <<>> /\ <<block, s.t, idx>> \notin s.m.tlvs /\ idx \in tlv[1].i1 .. tlv[1].i2
      r == IF here THEN Returned(c, "tlv", tlv[1].type) ELSE Okay
      called == IF here THEN Call(s.m, "tlv", c, block, idx, s.t, r) ELSE s.m
      m == IF r = DropTlv THEN DropsTlv(called, block, s.t, idx) ELSE called
      match == here /\ r # DropTlv /\ entry # <<>> /\ _compare_tlvtypes(tlv, entry) = 0
      reached == _compare_tlvtypes(tlv, entry) >= 0
      next == IF tlv # <<>> /\ _compare_tlvtypes(tlv, entry) <= 0 THEN s.t + 1 ELSE s.t
      passed == _compare_tlvtypes(At(tlvs, next), entry) > 0
  IN IF r \notin {Okay, DropTlv} THEN [s EXCEPT !.m = [m EXCEPT !.result = r]]
     ELSE [m |-> m, t |-> next, e |-> IF passed THEN s.e + 1 ELSE s.e,
           failed |-> s.failed \/ ((reached \/ passed) /\ entry[1].mandatory /\ ~match)
                        \/ (reached /\ match /\ tlv[1].length \notin entry[1].lengths),
           found |-> IF reached /\ match THEN [s.found EXCEPT ![s.e] = Append(@, s.t)] ELSE s.found]
\* The callback at the end of a block; what it drops is the TLV its first entry found.
Dropped(s, done, block, idx, r) ==
  IF r # DropTlv THEN [done EXCEPT !.result = r]
  ELSE IF s.found # <<>> /\ s.found[1] # <<>> THEN DropsTlv(done, block, s.found[1][1], idx) ELSE done
BlockEnd(s, c, block, idx) ==
  LET what == IF s.failed THEN "failed" ELSE "block"
      r == Returned(c, what, idx)
  IN IF s.m.result # Okay THEN s.m ELSE Dropped(s, Call(s.m, what, c, block, idx, 0, r), block, idx, r)
\* s is [m, t, e, failed, found] before the loop over the TLVs and the entries.
BlockLoop(s, c, block, tlvs, entries, idx) ==
  LET Round(x, k) == IF x.m.result # Okay \/ (x.t > Len(tlvs) /\ x.e > Len(entries)) THEN x ELSE BlockStep(x, c, block, tlvs, entries, idx)
  IN FoldLeft(Round, s, [k \in 1 .. Len(tlvs) + Len(entries) |-> k])
_schedule_tlvblock(m, c, block, tlvs, idx) ==
  LET entries == EntriesOf(c)
      begin == [m |-> m, t |-> 1, e |-> 1, failed |-> FALSE, found |-> [e \in DOMAIN entries |-> <<>>]]
  IN IF m.result # Okay THEN m ELSE BlockEnd(BlockLoop(begin, c, block, tlvs, entries, idx), c, block, idx)

-----------------------------------------------------------------------------
(* a message *)

Larger(a, b) == IF b > a THEN b ELSE a
Started(m, c, block, idx) ==
  LET r == Returned(c, "start", idx) IN [Call(m, "start", c, block, idx, 0, r) EXCEPT !.result = r, !.prevent = @ \/ c.does.prevent]
Ended(m, c, block, idx) ==
  LET r == Returned(c, "end", idx) IN [Call(m, "end", c, block, idx, 0, r) EXCEPT !.result = Larger(@, r)]
\* A callback that does not return RFC5444_OKAY at the start skips the TLVs.
schedule_msgtlv_consumer(m, c, tlvs) == _schedule_tlvblock(Started(m, c, 0, 0), c, 0, tlvs, 0)
AddressEnds(e, block, idx) ==
  IF e.result = DropAddress THEN [e EXCEPT !.addrs = @ \cup {<<block, idx>>}, !.result = Okay] ELSE e
AddressTold(m, c, block, tlvs, idx) ==
  AddressEnds(Ended(_schedule_tlvblock(Started(m, c, block, idx), c, block, tlvs, idx), c, block, idx), block, idx)
schedule_msgaddr_consumer(m, c, blocks) ==
  LET all == FlattenSeq([b \in DOMAIN blocks |-> [i \in 1 .. blocks[b].num |-> <<b, i - 1>>]])
      Told(n, a) == IF n.result # Okay \/ a \in n.addrs THEN n ELSE AddressTold(n, c, a[1], TlvsOf(blocks[a[1]].tlvs), a[2])
  IN FoldLeft(Told, m, all)

\* The consumers of one order end together, the last one first.
schedule_end_message_cbs(m) == [FoldLeft(LAMBDA n, c : Ended(n, c, 0, 0), m, Reverse(m.open)) EXCEPT !.open = <<>>]

Forwards(m, msg) == m.result \in {Okay, DropButForward} /\ ~m.prevent /\ msg.hoplimit > 1
MessageStart(result, calls, number) ==
  [result |-> result, calls |-> calls, tlvs |-> {}, addrs |-> {}, prevent |-> FALSE, open |-> <<>>, number |-> number]
\* One consumer, after the ones of a lower order have ended.
ConsumerTold(m, c, msg, tlvs) ==
  CASE m.result # Okay -> m
    [] c.kind = "address" -> schedule_msgaddr_consumer(m, c, msg.blocks)
    [] OTHER -> schedule_msgtlv_consumer([m EXCEPT !.open = Append(@, c)], c, tlvs)
MessageEnds(m, msg) ==
  [result |-> IF m.result > Okay /\ m.result # DropPacket THEN Okay ELSE m.result, calls |-> m.calls, forward |-> Forwards(m, msg)]
_handle_message(calls, consumers, msg, number) ==
  LET Told(m, c) ==
        IF m.result # Okay \/ c.msg_id \notin {0, msg.type} THEN m
        ELSE ConsumerTold(IF m.open # <<>> /\ c.order > Last(m.open).order THEN schedule_end_message_cbs(m) ELSE m, c, msg, TlvsOf(msg.tlvs))
  IN MessageEnds(schedule_end_message_cbs(FoldLeft(Told, MessageStart(msg.error, calls, number), consumers)), msg)

\* A packet: its consumers start, its messages follow, the consumers that have
\* started end.
PacketStarts(m, c, tlvs) == IF tlvs = <<>> THEN m ELSE _schedule_tlvblock(m, c, 0, tlvs, 0)
MessageHandled(p, h, k) ==
  [result |-> h.result, calls |-> h.calls, forwarded |-> IF h.forward THEN p.forwarded \cup {k} ELSE p.forwarded]
PacketEnds(started, handled) ==
  [handled EXCEPT !.calls = schedule_end_message_cbs([started EXCEPT !.calls = handled.calls]).calls]
PacketMessages(started, reader, packet) ==
  LET Handle(p, k) ==
        IF p.result # Okay THEN p ELSE MessageHandled(p, _handle_message(p.calls, reader.message, packet.messages[k], k), k)
  IN PacketEnds(started, FoldLeft(Handle, [result |-> started.result, calls |-> started.calls, forwarded |-> {}], [k \in DOMAIN packet.messages |-> k]))
rfc5444_reader_handle_packet(reader, packet) ==
  LET Start(m, c) ==
        IF m.result # Okay THEN m ELSE PacketStarts(Started([m EXCEPT !.open = Append(@, c)], c, 0, 0), c, TlvsOf(packet.tlvs))
  IN PacketMessages(FoldLeft(Start, MessageStart(packet.error, <<>>, 0), reader.packet), reader, packet)

-----------------------------------------------------------------------------
(* the messages of the writer *)

NoMessage == [registered |-> FALSE, providers |-> {}, tlvtypes |-> {}, number |-> 0]
Number == 1 + Cardinality(wrHeld.used)
_get_message(type) ==
  IF type \in DOMAIN wrMessages THEN wrMessages[type] ELSE [NoMessage EXCEPT !.number = Number]
OwnTlvs(cpr) == IF cpr.own THEN {<<"own", cpr.id>>} ELSE {}
\* mutant: content providers do not keep a message
OwnerOnly(msg) == msg.registered \/ msg.tlvtypes # {}
IsUsed(msg) == msg.registered \/ msg.tlvtypes # {} \/ msg.providers # {}
_lazy_free_message(type, msg) ==
  [t \in (DOMAIN wrMessages \cup {type}) \ (IF IsUsed(msg) THEN {} ELSE {type}) |-> IF t = type THEN msg ELSE wrMessages[t]]
Holds(key, msg) == [wrHeld EXCEPT !.by = {h \in @ : h[1] # key} \cup {<<key, msg.number>>}, !.used = @ \cup {msg.number}]
LetsGo(key) == [wrHeld EXCEPT !.by = {h \in @ : h[1] # key}]
IsHeld(key) == \E h \in wrHeld.by : h[1] = key

ReaderSpend(kind) == rdBudget[kind] > 0 /\ rdBudget' = [rdBudget EXCEPT ![kind] = @ - 1]
rfc5444_writer_register_message(type) ==
  /\ ReaderSpend("register")
  /\ \E msg \in {_get_message(type)} :
       /\ ~msg.registered
       /\ wrMessages' = _lazy_free_message(type, [msg EXCEPT !.registered = TRUE])
       /\ wrHeld' = Holds(<<"owner", type>>, msg)
  /\ UNCHANGED readerVars
rfc5444_writer_unregister_message(type) ==
  /\ ReaderSpend("unregister") /\ IsHeld(<<"owner", type>>)
  /\ wrMessages' = _lazy_free_message(type, [wrMessages[type] EXCEPT !.registered = FALSE])
  /\ wrHeld' = LetsGo(<<"owner", type>>)
  /\ UNCHANGED readerVars
rfc5444_writer_register_msgcontentprovider(cpr) ==
  /\ ReaderSpend("register") /\ ~IsHeld(<<"provider", cpr.id>>)
  /\ \E msg \in {_get_message(cpr.type)} :
       /\ wrMessages' = _lazy_free_message(cpr.type, [msg EXCEPT !.providers = @ \cup {cpr.id}, !.tlvtypes = @ \cup OwnTlvs(cpr)])
       /\ wrHeld' = Holds(<<"provider", cpr.id>>, msg)
  /\ UNCHANGED readerVars
\* Its TLV types go first, while the provider still keeps the message.
rfc5444_writer_unregister_content_provider(cpr) ==
  /\ ReaderSpend("unregister") /\ IsHeld(<<"provider", cpr.id>>)
  /\ wrMessages' = _lazy_free_message(cpr.type, [wrMessages[cpr.type] EXCEPT !.providers = @ \ {cpr.id}, !.tlvtypes = @ \ OwnTlvs(cpr)])
  /\ wrHeld' = LetsGo(<<"provider", cpr.id>>)
  /\ UNCHANGED readerVars
rfc5444_writer_register_addrtlvtype(tlvtype) ==
  /\ ReaderSpend("register") /\ ~IsHeld(<<"tlvtype", tlvtype.id>>)
  /\ \E msg \in {_get_message(tlvtype.type)} :
       /\ wrMessages' = _lazy_free_message(tlvtype.type, [msg EXCEPT !.tlvtypes = @ \cup {<<"other", tlvtype.id>>}])
       /\ wrHeld' = Holds(<<"tlvtype", tlvtype.id>>, msg)
  /\ UNCHANGED readerVars
rfc5444_writer_unregister_addrtlvtype(tlvtype) ==
  /\ ReaderSpend("unregister") /\ IsHeld(<<"tlvtype", tlvtype.id>>)
  /\ wrMessages' = _lazy_free_message(tlvtype.type, [wrMessages[tlvtype.type] EXCEPT !.tlvtypes = @ \ {<<"other", tlvtype.id>>}])
  /\ wrHeld' = LetsGo(<<"tlvtype", tlvtype.id>>)
  /\ UNCHANGED readerVars
\* Everything goes; the owner of a message has to forget it.
rfc5444_writer_cleanup ==
  /\ ReaderSpend("cleanup")
  /\ wrMessages' = <<>> /\ wrHeld' = [wrHeld EXCEPT !.by = {}]
  /\ UNCHANGED readerVars

-----------------------------------------------------------------------------
(* steps *)

ReaderInit ==
  /\ rdConsumers = [packet |-> <<>>, message |-> <<>>] /\ rdPacket = [error |-> Okay, tlvs |-> <<>>, messages |-> <<>>] /\ rdCalls = <<>> /\ rdForwarded = {}
  /\ wrMessages = <<>> /\ wrHeld = [by |-> {}, used |-> {}] /\ rdBudget \in ReaderBudgets

TreeOf(c) == IF c.kind = "packet" THEN "packet" ELSE "message"
Added == ToSet(rdConsumers.packet) \cup ToSet(rdConsumers.message)
rfc5444_reader_add_consumer ==
  /\ ReaderSpend("add")
  /\ \E c \in ReaderConsumers \ Added : rdConsumers' = [rdConsumers EXCEPT ![TreeOf(c)] = _add_consumer(@, c)]
  /\ UNCHANGED <<rdPacket, rdCalls, rdForwarded, writerVars>>
rfc5444_reader_remove_consumer ==
  /\ ReaderSpend("remove")
  /\ \E c \in Added : rdConsumers' = [rdConsumers EXCEPT ![TreeOf(c)] = SelectSeq(@, LAMBDA x : x # c)]
  /\ UNCHANGED <<rdPacket, rdCalls, rdForwarded, writerVars>>
ReaderReceives ==
  /\ ReaderSpend("packet")
  /\ \E p \in ReaderPackets : \E h \in {rfc5444_reader_handle_packet(rdConsumers, p)} :
       rdPacket' = p /\ rdCalls' = h.calls /\ rdForwarded' = h.forwarded
  /\ UNCHANGED <<rdConsumers, writerVars>>

WriterRegisters ==
  \/ \E type \in {p.type : p \in WriterProviders} : rfc5444_writer_register_message(type)
  \/ \E cpr \in WriterProviders : rfc5444_writer_register_msgcontentprovider(cpr)
  \/ \E tlvtype \in WriterTlvtypes : rfc5444_writer_register_addrtlvtype(tlvtype)
WriterUnregisters ==
  \/ \E type \in {p.type : p \in WriterProviders} : rfc5444_writer_unregister_message(type)
  \/ \E cpr \in WriterProviders : rfc5444_writer_unregister_content_provider(cpr)
  \/ \E tlvtype \in WriterTlvtypes : rfc5444_writer_unregister_addrtlvtype(tlvtype)

ReaderNext == rfc5444_reader_add_consumer \/ rfc5444_reader_remove_consumer \/ ReaderReceives \/ WriterRegisters \/ WriterUnregisters
                \/ rfc5444_writer_cleanup

-----------------------------------------------------------------------------
(* what is checked *)

\* Starts, or ends, of the consumers of a message or (0) of the packet.
CallsOf(what, kind) == {k \in DOMAIN rdCalls : rdCalls[k].what = what /\ rdCalls[k].by.kind = kind}

\* Whoever was told that a message or packet starts is told once that it ends,
\* also when it or another consumer drops it, and nobody else is; the consumers
\* of one order end in the reverse order of their starts, and before a consumer
\* of a higher order starts; addresses are told between the start and the end of
\* the message consumers of their order, on which NHDP and OLSRv2 rely
\* (rfc5444_reader.c:319, 1042, 1187).
CallsPaired ==
  \A kind \in {"packet", "message"} :
    LET starts == CallsOf("start", kind)
        EndOf(k) == {e \in CallsOf("end", kind) : rdCalls[e].by = rdCalls[k].by /\ rdCalls[e].message = rdCalls[k].message}
        OrderOf(k) == rdCalls[k].by.order
    IN /\ \A k \in starts : Cardinality(EndOf(k)) = 1 /\ \A e \in EndOf(k) : e > k
       /\ CallsOf("end", kind) = UNION {EndOf(k) : k \in starts}
       /\ \A k \in starts, l \in starts : (k < l /\ rdCalls[k].message = rdCalls[l].message) =>
            \A e \in EndOf(k), f \in EndOf(l) : IF OrderOf(k) = OrderOf(l) \/ kind = "packet" THEN f < e ELSE e < l
       /\ \A k \in starts, a \in CallsOf("start", "address") :
            (kind = "message" /\ rdCalls[k].message = rdCalls[a].message /\ OrderOf(k) = OrderOf(a)) => \A e \in EndOf(k) : k < a /\ a < e

\* A TLV that one consumer drops for an address, and an address one drops, are
\* told to no later consumer of the message, and every other TLV and address is
\* told to each consumer that gets its whole block; a message is forwarded
\* exactly if its hop limit allows it, nobody forbids it and no callback that was
\* called for it asked to drop it, whatever the other ones returned
\* (rfc5444_reader.c:655, 969, 1251).
DropExact ==
  /\ \A j \in DOMAIN rdCalls, k \in DOMAIN rdCalls :
       LET a == rdCalls[j] b == rdCalls[k]
       IN (j < k /\ a.message = b.message /\ a.block = b.block /\ a.idx = b.idx /\ a.by.kind # "packet" /\ b.by.kind # "packet") =>
            /\ ~(a.what = "tlv" /\ a.returns = DropTlv /\ b.what = "tlv" /\ b.tlv = a.tlv)
            /\ ~(a.returns = DropAddress /\ b.by # a.by)
  /\ \A k \in DOMAIN rdCalls :
       LET b == rdCalls[k]
           msg == rdPacket.messages[b.message]
           tlvs == TlvsOf(IF b.block = 0 THEN msg.tlvs ELSE msg.blocks[b.block].tlvs)
           Same(j, t) == rdCalls[j].message = b.message /\ rdCalls[j].block = b.block /\ rdCalls[j].idx = b.idx /\ rdCalls[j].tlv = t
       IN (b.message > 0 /\ b.what \in {"block", "failed"}) =>
            \A t \in DOMAIN tlvs : b.idx \in tlvs[t].i1 .. tlvs[t].i2 =>
              \E j \in 1 .. k - 1 : \/ Same(j, t) /\ rdCalls[j].what = "tlv" /\ (rdCalls[j].by = b.by \/ rdCalls[j].returns = DropTlv)
                                    \/ Same(j, 0) /\ rdCalls[j].what = "block" /\ rdCalls[j].returns = DropTlv
  /\ \A k \in DOMAIN rdPacket.messages :
       LET told == {j \in DOMAIN rdCalls : rdCalls[j].message = k}
           msg == rdPacket.messages[k]
           handled == \A i \in 1 .. k - 1 : rdPacket.messages[i].error = Okay /\ \A j \in DOMAIN rdCalls : rdCalls[j].message = i => rdCalls[j].returns # DropPacket
           begun == rdPacket.error = Okay /\ \A j \in DOMAIN rdCalls : (rdCalls[j].message = 0 /\ rdCalls[j].what # "end") => rdCalls[j].returns \in {Okay, DropTlv}
       IN k \in rdForwarded <=>
            /\ begun /\ handled /\ msg.error = Okay /\ msg.hoplimit > 1
            /\ \A j \in told : rdCalls[j].returns \notin {DropMessage, DropPacket}
            /\ \A j \in told : rdCalls[j].what = "start" => ~rdCalls[j].by.does.prevent

\* A message of the writer lives exactly as long as its owner, a content provider
\* or a TLV type points to it, in whatever order they come and go: no pointer
\* outlives its message, and none is left behind (rfc5444_writer.c:689).
MessagesHeld ==
  /\ \A h \in wrHeld.by : \E t \in DOMAIN wrMessages : wrMessages[t].number = h[2]
  /\ \A t \in DOMAIN wrMessages : \E h \in wrHeld.by : wrMessages[t].number = h[2]
=============================================================================
