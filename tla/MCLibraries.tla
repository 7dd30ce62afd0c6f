---------------------------- MODULE MCLibraries ----------------------------
(***************************************************************************)
(* The libraries everything else is built on, each for itself: one part of *)
(* the variables moves, the others stay.                                   *)
(*                                                                         *)
(* The sequence numbers have 3 bits and a window of 3 numbers: the         *)
(* rollover, the jump over the whole window and the restart of an          *)
(* originator all happen.  Twelve nodes are the smallest tree in which a   *)
(* removal rotates on two levels.  The RFC5444 router has addresses of 3   *)
(* bytes and packets of 60 bytes.                                          *)
(***************************************************************************)
EXTENDS DuplicateSet, LibCommon, DlepData, Rfc5444Reader, Rfc5444

VARIABLE part   \* the library that is used

-----------------------------------------------------------------------------
(* base library *)

MCAbsNumbers == 0..9
MCAvlUses == {
  [keys |-> [n \in 1..12 |-> n], dups |-> FALSE, walks |-> FALSE],
  [keys |-> [n \in 1..8 |-> (n + 2) \div 3 + (IF n > 7 THEN 1 ELSE 0)], dups |-> TRUE, walks |-> FALSE],
  [keys |-> [n \in 1..4 |-> (n + 1) \div 2], dups |-> TRUE, walks |-> TRUE]}
MCAfBytes == "v4" :> 2 @@ "v6" :> 3
MCAclPrefixes == {
  [af |-> "v4", addr |-> <<0, 0>>, len |-> 0], [af |-> "v4", addr |-> <<1, 2>>, len |-> 3],
  [af |-> "v4", addr |-> <<1, 3>>, len |-> 4], [af |-> "v6", addr |-> <<2, 0, 0>>, len |-> 1]}
MCIsoNumbers == 0..1100 \cup 9990..10010 \cup 16700..16777
MCExtensions == "tlv" :> 3 @@ "metric" :> 5 @@ "listener" :> 0

-----------------------------------------------------------------------------
(* TLVs of DLEP: two peers with and without link ids, and TLV streams of   *)
(* up to three TLVs whose length may lie.                                  *)

MCDlepBuilds == {[radio |-> ToSet(Optional), router |-> ToSet(Optional), lid |-> 4],
                 [radio |-> ToSet(Optional), router |-> ToSet(Optional), lid |-> 2],
                 [radio |-> ToSet(Optional), router |-> ToSet(Optional) \ {"lid"}, lid |-> 4],
                 [radio |-> ToSet(Optional) \ {"lid"}, router |-> ToSet(Optional), lid |-> 0]}
MCDlepKeys == <<[mac |-> 1, lid |-> 0, len |-> 0], [mac |-> 1, lid |-> 7, len |-> 4], [mac |-> 2, lid |-> 5, len |-> 2]>>
Setting(i, vs) == {[index |-> i, value |-> <<v>>] : v \in vs} \cup {[index |-> i, value |-> <<>>]}
MCDlepSettings ==
  UNION {Setting("rx_signal", {-70, 5}), Setting("rx_rlq", {0, 3, 100}), Setting("latency", {2000}),
         Setting("noise", {-95}), Setting("frequency1", {2412}), Setting("ch_busy", {77}),
         Setting("rx_only_unicast", {0, 1}), Setting("tx_bytes", {123456})}
DlepIp(af, host, own) == [af |-> af, host |-> host, own |-> own]
MCDlepIps == <<DlepIp(4, TRUE, FALSE), DlepIp(4, TRUE, TRUE), DlepIp(4, FALSE, FALSE), DlepIp(6, TRUE, FALSE), DlepIp(6, TRUE, TRUE)>>
Piece(type, length) == Tlv(type, length, <<0, 1>>)
Pieces == {Piece("MAC", 6), Piece("MAC", 9), Piece("IPV4_ADDRESS", 5), Tlv("IPV4_ADDRESS", 5, <<1, 1>>), Piece("STATUS", 1),
           Piece("MTU", 2), Piece("FREQUENCY", 16), Piece("FREQUENCY", 7), Piece("MCS", 1)}
MCDlepStreams ==
  LET some == {Piece("MAC", 6), Piece("IPV4_ADDRESS", 5), Tlv("IPV4_ADDRESS", 5, <<1, 1>>), Piece("FREQUENCY", 16), Piece("MCS", 1)}
      whole == {Stream(q) : q \in UNION {[1 .. n -> Pieces] : n \in 0 .. 2} \cup [1 .. 3 -> some]}
      cut == {[s EXCEPT !.length = @ + d] : s \in {w \in whole : Len(w.tlvs) \in {1, 2}}, d \in {-7, -4, -1, 1, 3}}
  IN whole \cup {s \in cut : s.length > 0}
DlepZero == [start |-> 1, net |-> 0, ip |-> 0, ifip |-> 0, neighbor |-> 0, value |-> 0, foreign |-> 0]
MCDlepBudgets ==
  {[DlepZero EXCEPT !.net = 2], [DlepZero EXCEPT !.ip = 2, !.ifip = 1], [DlepZero EXCEPT !.neighbor = 3],
   [DlepZero EXCEPT !.neighbor = 1, !.value = 2], [DlepZero EXCEPT !.net = 1, !.neighbor = 1, !.value = 1],
   [DlepZero EXCEPT !.start = 0, !.foreign = 1]}

-----------------------------------------------------------------------------
(* consumers of the RFC5444 reader: each returns a drop at another place   *)

Does(at, on, return, prevent) == [at |-> at, on |-> on, result |-> return, prevent |-> prevent]
Nothing == Does("none", 0, Okay, FALSE)
Needs(type, mandatory) == [type |-> type, ext |-> -1, mandatory |-> mandatory, lengths |-> {0, 1}]
Consumer(id, order, kind, msg_id, entries, does) ==
  [id |-> id, order |-> order, kind |-> kind, msg_id |-> msg_id, entries |-> entries, does |-> does]
MCConsumers ==
  {Consumer(1, 1, "packet", 0, <<>>, Nothing), Consumer(2, 2, "packet", 0, <<Needs(1, FALSE)>>, Does("block", 0, DropPacket, FALSE)),
   Consumer(3, 1, "message", 1, <<Needs(2, TRUE), Needs(1, FALSE)>>, Does("failed", 0, DropMessage, FALSE)),
   Consumer(4, 1, "message", 0, <<Needs(1, FALSE)>>, Does("tlv", 1, DropTlv, FALSE)),
   Consumer(5, 2, "message", 1, <<[Needs(1, FALSE) EXCEPT !.ext = 1]>>, Does("end", 0, DropMessage, FALSE)),
   Consumer(6, 1, "message", 0, <<>>, Does("start", 0, DropButForward, FALSE)),
   Consumer(7, 2, "message", 0, <<Needs(1, FALSE)>>, Does("block", 0, DropTlv, TRUE)),
   Consumer(8, 1, "address", 1, <<Needs(1, FALSE), Needs(2, FALSE)>>, Does("tlv", 2, DropTlv, FALSE)),
   Consumer(9, 1, "address", 0, <<Needs(1, FALSE)>>, Does("start", 1, DropAddress, FALSE)),
   Consumer(10, 2, "address", 1, <<>>, Does("end", 0, DropAddress, FALSE)),
   Consumer(11, 2, "address", 1, <<Needs(2, FALSE)>>, Does("tlv", 2, DropPacket, FALSE)),
   Consumer(12, 0, "address", 2, <<>>, Does("block", 1, DropButForward, FALSE)),
   Consumer(13, 2, "address", 1, <<>>, Nothing)}
ReadTlv(type, ext, i1, i2) == [type |-> type, ext |-> ext, i1 |-> i1, i2 |-> i2, length |-> 1]
ReadMessage(type, hoplimit, error, tlvs, blocks) == [type |-> type, hoplimit |-> hoplimit, error |-> error, tlvs |-> tlvs, blocks |-> blocks]
FirstMessage == ReadMessage(1, 2, Okay, <<ReadTlv(2, 0, 0, 255), ReadTlv(1, 1, 0, 255)>>,
                            <<[num |-> 2, tlvs |-> <<ReadTlv(2, 0, 0, 1), ReadTlv(1, 0, 1, 1)>>], [num |-> 1, tlvs |-> <<>>]>>)
SecondMessage == ReadMessage(2, 255, Okay, <<ReadTlv(1, 0, 0, 255), ReadTlv(1, 1, 0, 255)>>, <<[num |-> 2, tlvs |-> <<>>]>>)
ShortMessage == ReadMessage(1, 1, Okay, <<>>, <<>>)
BrokenMessage == ReadMessage(1, 5, BufferEnds, <<>>, <<>>)
ReadPacket(tlvs, messages) == [error |-> Okay, tlvs |-> tlvs, messages |-> messages]
MCPackets == {ReadPacket(<<>>, <<FirstMessage, SecondMessage>>),
              ReadPacket(<<ReadTlv(1, 0, 0, 255)>>, <<SecondMessage, FirstMessage, ShortMessage>>),
              ReadPacket(<<>>, <<BrokenMessage, FirstMessage>>), [ReadPacket(<<>>, <<FirstMessage>>) EXCEPT !.error = BadVersion]}
MCProviders == {[id |-> 1, type |-> 1, own |-> TRUE], [id |-> 2, type |-> 1, own |-> FALSE], [id |-> 3, type |-> 2, own |-> TRUE]}
MCTlvtypes == {[id |-> 1, type |-> 1], [id |-> 2, type |-> 2]}
ReaderZero == [add |-> 0, remove |-> 0, packet |-> 0, register |-> 0, unregister |-> 0, cleanup |-> 0]
MCReaderBudgets == {[ReaderZero EXCEPT !.add = 3, !.remove = 1, !.packet = 1], [ReaderZero EXCEPT !.register = 4, !.unregister = 3, !.cleanup = 1]}

-----------------------------------------------------------------------------
(* the RFC5444 multiplexer and writer *)

MCIfs == {"lan", "wlan"}
MCUni == [i \in MCIfs |-> IF i = "lan" THEN "lan peer" ELSE "wlan peer"]
MCExt == {2}
Patterns == {<<1, 1, 1>>, <<1, 1, 0>>, <<1, 2, 0>>, <<2, 1, 1>>, <<1, 1, 2>>}
NoTlvs == <<>>
Announced(b, t, m) == [bytes |-> b, plen |-> 24, tlvs |-> t, mandatory |-> m]
TlvSets == {NoTlvs, 1 :> <<1>>, 1 :> <<2>>, (1 :> <<>>) @@ (2 :> <<7>>)}
\* messages with a mandatory address and three others
Orders == {q \in [1 .. 3 -> Patterns] : Cardinality({q[k] : k \in 1 .. 3}) = 3 /\ q[1] # <<2, 1, 1>>}
FourAddresses == {<<Announced(b, NoTlvs, TRUE), Announced(q[1], 1 :> <<1>>, FALSE), Announced(q[2], t2, FALSE), Announced(q[3], t3, FALSE)>>
                    : b \in {<<3, 1, 1>>, <<1, 1, 3>>}, q \in Orders, t2 \in TlvSets, t3 \in {NoTlvs, 1 :> <<2>>}}
\* addresses of several providers, with several prefix lengths
SeveralPlens ==
  {<<[Announced(<<1, 1, 0>>, 1 :> <<1>>, m) EXCEPT !.plen = p], [Announced(b, NoTlvs, FALSE) EXCEPT !.plen = q],
     [Announced(<<1, 1, 0>>, 2 :> <<2>>, FALSE) EXCEPT !.plen = r]>> : p \in {16, 24}, q \in {16, 24}, r \in {16, 24}, b \in Patterns, m \in BOOLEAN}
\* a block with a common head that gets a second prefix length at its end
Mixed == [k \in 1 .. 5 |-> [Announced(<<1, 1, IF k = 5 THEN 0 ELSE k>>, NoTlvs, FALSE) EXCEPT !.plen = IF k = 5 THEN 16 ELSE 24]]
\* mandatory addresses that leave no room for the others
LongTlv == 1 :> <<1, 1, 1, 1>>
Crowded == <<Announced(<<1, 1, 1>>, LongTlv, TRUE), Announced(<<2, 2, 2>>, LongTlv, FALSE), Announced(<<3, 3, 3>>, LongTlv, FALSE)>>
Large == <<Announced(<<1, 1, 1>>, NoTlvs, TRUE), Announced(<<1, 1, 2>>, 1 :> <<1, 1, 1>>, FALSE), Announced(<<1, 2, 2>>, 1 :> <<1, 2>>, FALSE)>>
MetricValues == {0, 1, 256, 300, 16776960, 16777215}
TimeValues == 0 .. 1000 \cup {2^k + d : k \in 12 .. 28, d \in {-1, 0, 1}}
HelloOf(Calls, Metrics, Times) == [head : {10}, calls : Calls, metrics : Metrics, time : Times]
Silent == {<<0, 0, 0, 0>>}
MCContents ==
  [empty |-> [hello |-> HelloOf({<<>>}, Silent, {0}), tc |-> {[head |-> 16, calls |-> <<>>]}],
   large |-> [hello |-> HelloOf({Large}, Silent, {0}), tc |-> {[head |-> 10, calls |-> Large]}],
   addresses |-> [hello |-> {[m EXCEPT !.head = h] : m \in HelloOf(FourAddresses \cup SeveralPlens \cup {Crowded}, Silent, {0}), h \in {10, 20}}, tc |-> {}],
   mixed |-> [hello |-> {[m EXCEPT !.head = 28] : m \in HelloOf({Mixed}, Silent, {0})}, tc |-> {}],
   values |-> [hello |-> HelloOf({<<>>}, [1 .. 4 -> MetricValues], {0}) \cup HelloOf({<<>>}, Silent, TimeValues), tc |-> {}]]
MuxStart == [config |-> 2, link |-> 0, listener |-> 0, target |-> 0, seqno |-> 0, create |-> 1, forward |-> 0, content |-> "empty"]
MCMuxBudgets == {
  \* messages of own and of others, with and without packet numbers
  [MuxStart EXCEPT !.seqno = 1, !.create = 2, !.forward = 2],
  [MuxStart EXCEPT !.seqno = 2, !.create = 2, !.content = "large"],
  \* interfaces change while messages wait
  [MuxStart EXCEPT !.config = 3, !.link = 1, !.listener = 1, !.create = 2],
  [MuxStart EXCEPT !.config = 4, !.listener = 1, !.target = 2, !.link = 1],
  [MuxStart EXCEPT !.config = 3, !.link = 1, !.forward = 1],
  \* plugins share a unicast target
  [MuxStart EXCEPT !.config = 3, !.target = 4],
  \* the content of messages
  [MuxStart EXCEPT !.content = "addresses"], [MuxStart EXCEPT !.content = "mixed"], [MuxStart EXCEPT !.content = "values"]}

-----------------------------------------------------------------------------
baseVars == <<vars, avlVars, netVars, isoVars, classVars>>
libraryVars == <<part, baseVars, dlepVars, rfcVars, muxVars>>

\* What a part does not use is fixed, so that it does not multiply the states.
LibraryInit ==
  /\ Init /\ AvlInit /\ NetInit /\ IsoInit /\ ClassInit /\ DlepInit /\ ReaderInit /\ MuxInit
  /\ part \in {"duplicates", "tree", "addresses", "numbers", "classes", "dlep", "reader", "multiplexer"}
  /\ part # "tree" => avlUse = CHOOSE u \in AvlUses : TRUE
  /\ part # "dlep" => /\ dlepBudget = CHOOSE b \in DlepBudgets : TRUE
                      /\ dlepRadio.session = dlep_session_add(ToSet(Optional), 4) /\ dlepRouter.build = ToSet(Optional)
  /\ part # "reader" => rdBudget = CHOOSE b \in ReaderBudgets : TRUE
  /\ part # "multiplexer" => budget = CHOOSE b \in Budgets : TRUE
BaseNext ==
  /\ UNCHANGED <<dlepVars, rfcVars, muxVars>>
  /\ \/ part = "duplicates" /\ Next /\ UNCHANGED <<avlVars, netVars, isoVars, classVars>>
     \/ part = "tree" /\ AvlNext /\ UNCHANGED <<vars, netVars, isoVars, classVars>>
     \/ part = "addresses" /\ NetNext /\ UNCHANGED <<vars, avlVars, isoVars, classVars>>
     \/ part = "numbers" /\ IsoNext /\ UNCHANGED <<vars, avlVars, netVars, classVars>>
     \/ part = "classes" /\ ClassNext /\ UNCHANGED <<vars, avlVars, netVars, isoVars>>
LibraryNext ==
  /\ UNCHANGED part
  /\ \/ BaseNext
     \/ part = "dlep" /\ DlepNext /\ UNCHANGED <<baseVars, rfcVars, muxVars>>
     \/ part = "reader" /\ ReaderNext /\ UNCHANGED <<baseVars, dlepVars, muxVars>>
     \/ part = "multiplexer" /\ MuxNext /\ UNCHANGED <<baseVars, dlepVars, rfcVars>>
LibrarySpec == LibraryInit /\ [][LibraryNext]_libraryVars

-----------------------------------------------------------------------------
(* what is checked of several libraries at once *)

\* The structures of the base library answer what their reference definitions
\* say: a tree is balanced and sorted and its searches and loops find the nodes a
\* sorted list would give, also when the body of a loop changes the tree; hosts
\* and access lists treat exactly the addresses of a prefix; a number written in
\* ISO form is read back as far as its digits go; no extension of a class lies
\* on another one (avl.c, netaddr.c, netaddr_acl.c, isonumber.c, oonf_class.c).
BaseExact ==
  /\ part = "tree" => AvlSound /\ FindExact /\ LoopVisitsAll
  /\ part = "addresses" => HostExact /\ AclExact
  /\ part = "numbers" => IsoRoundTrip
  /\ part = "classes" => ExtensionRoom

\* What a radio writes is what its router reads: every value, prefix and
\* neighbor its layer2 database has; and a signal of anybody is accepted only if
\* it ends with its last TLV, lacks none it must have, and every TLV has a length
\* and a multiplicity the extensions allow, and is accepted then if they know its
\* TLVs (dlep_writer.c, dlep_reader.c, dlep_session.c).
DlepExact == part = "dlep" => DlepDataRead /\ StreamExact

\* Messages arrive whole: the fragments hold every address and value once, and
\* one is not larger than the space for it, but for the prefix lengths of its
\* addresses when they differ (rfc5444_msg_generator.c, rfc5444_reader.c).
MessagesRead == part = "multiplexer" => FragmentsRead /\ PacketsFit /\ ValuesRead

\* Every message a target took is sent once and in order, and one that waits is
\* going to be sent (rfc5444_pkt_generator.c, oonf_rfc5444.c).
MessagesSent == part = "multiplexer" => SentOnce /\ PendingFlushed
=============================================================================
