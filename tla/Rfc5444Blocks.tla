--------------------------- MODULE Rfc5444Blocks ---------------------------
(***************************************************************************)
(* How the addresses of a message are cut into fragments and a fragment    *)
(* into address blocks with common heads and shared TLVs                   *)
(* (src/src/librfc5444/rfc5444_msg_generator.c), and how the receiver reads *)
(* such blocks (rfc5444_reader.c).  An address is a record of its bytes,   *)
(* its prefix length, its TLVs and whether every fragment needs it.        *)
(***************************************************************************)
EXTENDS Integers, FiniteSets, FiniteSetsExt, Sequences

CONSTANTS AddrLen,   \* bytes of an address
          TlvTypes,  \* types of address TLVs, numbers
          ExtTypes   \* the ones with a type extension
LOCAL INSTANCE SequencesExt
ASSUME BlockAssumption == AddrLen \in Nat \ {0} /\ TlvTypes \subseteq Nat /\ ExtTypes \subseteq TlvTypes
Heads == 0 .. AddrLen - 1
NONE == "none"

AddressesOf(Bytes, Plens, Values, Mandatory) ==
  [bytes : Bytes, plen : Plens, tlvs : UNION {[T -> Values] : T \in SUBSET TlvTypes}, mandatory : Mandatory]
FullPlen == AddrLen * 8

-----------------------------------------------------------------------------
(* the session that looks for the best head length *)

\* ptr and start are positions in the message, 0 is none.
NoAcs == [i \in Heads |-> [ptr |-> 0, total |-> 0, current |-> 0, multiplen |-> FALSE, closed |-> FALSE]]
NoCount == [t \in TlvTypes |-> [i \in Heads |-> [count |-> 0, multi |-> FALSE]]]
NoBlock == [start |-> 0, multiplen |-> FALSE, headlen |-> 0]
NewSession(msg) ==
  [acs |-> NoAcs, tlvblock |-> NoCount, same_prefixlen |-> 1, fragment |-> <<>>,
   block |-> [a \in DOMAIN msg |-> NoBlock], done |-> {}, fragments |-> <<>>, error |-> NONE, at |-> 1, over |-> FALSE]

common_head(a, b) == CHOOSE n \in 0 .. AddrLen : /\ \A i \in 1 .. n : a.bytes[i] = b.bytes[i]
                                                 /\ n < AddrLen => a.bytes[n + 1] # b.bytes[n + 1]
_same_length(a, b, t) == t \in DOMAIN b.tlvs /\ Len(a.tlvs[t]) = Len(b.tlvs[t])
_same_value(a, b, t) == t \in DOMAIN b.tlvs /\ a.tlvs[t] = b.tlvs[t]

\* The best head length from common on ends the block of the last address.
_close_addrblock(s, last, common) ==
  LET sizes == [i \in common .. AddrLen - 1 |-> s.acs[i].total]
      best == CHOOSE i \in DOMAIN sizes : \A j \in DOMAIN sizes : sizes[i] < sizes[j] \/ (sizes[i] = sizes[j] /\ i <= j)
      chosen == [start |-> s.acs[best].ptr, multiplen |-> s.acs[best].multiplen, headlen |-> best]
  IN IF common = AddrLen THEN [s EXCEPT !.block[last] = [NoBlock EXCEPT !.headlen = common]]
     ELSE [s EXCEPT !.block[last] = IF s.acs[best].closed /\ @.start # 0 THEN @ ELSE chosen,
                    !.acs = [i \in Heads |-> IF i > common THEN [s.acs[i] EXCEPT !.total = sizes[best]] ELSE s.acs[i]]]

TlvCost(a, t) == 4 + (IF t \in ExtTypes THEN 1 ELSE 0) + (IF a.tlvs[t] = <<>> THEN 0 ELSE 1 + Len(a.tlvs[t]))
TlvSum(a, cost(_)) == MapThenSumSet(cost, DOMAIN a.tlvs)
NewCost(a, i) ==
  4 + AddrLen + (IF i > 0 THEN 1 ELSE 0) + (IF a.plen # FullPlen THEN 1 ELSE 0) + TlvSum(a, LAMBDA t : TlvCost(a, t))

\* What address number at of the message costs for every head length: to go on
\* with the block of that head length or to start a new one.
_compress_address(s, msg, at) ==
  LET a == msg[at]
      first == s.fragment = <<>>
      last == IF first THEN a ELSE msg[Last(s.fragment)]
      common == IF first THEN 0 ELSE common_head(last, a)
      run == IF first \/ last.plen # a.plen THEN 1 ELSE s.same_prefixlen + 1
      s0 == IF first THEN s ELSE _close_addrblock(s, Last(s.fragment), common)
      Position(p) == IF p = at THEN Len(s.fragment) + 1 ELSE SelectInSeq(s.fragment, LAMBDA q : q = p)
      PlenCost(i) == IF s0.acs[i].multiplen THEN 1
                     ELSE IF run = 1 THEN Position(s0.acs[i].ptr) - Position(at) + 1 ELSE 0
      TlvContinues(i, t) == IF ~_same_length(a, last, t) THEN TlvCost(a, t)
                            ELSE IF s0.tlvblock[t][i].multi THEN Len(a.tlvs[t])
                            ELSE IF ~_same_value(a, last, t) THEN Len(a.tlvs[t]) * s0.tlvblock[t][i].count ELSE 0
      Continue(i) == AddrLen - i + PlenCost(i) + TlvSum(a, LAMBDA t : TlvContinues(i, t))
      Closed(i) == first \/ common < i \/ s0.acs[i].total + Continue(i) > s0.acs[AddrLen - 1].total + NewCost(a, i)
      Count(t, i) == IF t \notin DOMAIN a.tlvs THEN s0.tlvblock[t][i]
                     ELSE IF Closed(i) \/ ~_same_length(a, last, t) THEN [count |-> 1, multi |-> FALSE]
                     ELSE [count |-> s0.tlvblock[t][i].count + 1, multi |-> s0.tlvblock[t][i].multi \/ ~_same_value(a, last, t)]
  IN [s0 EXCEPT !.same_prefixlen = run,
                !.tlvblock = [t \in TlvTypes |-> [i \in Heads |-> Count(t, i)]],
                !.acs = [i \in Heads |->
                  IF Closed(i) THEN [ptr |-> at, total |-> s0.acs[AddrLen - 1].total, current |-> NewCost(a, i),
                                     multiplen |-> FALSE, closed |-> IF first THEN s0.acs[i].closed ELSE TRUE]
                  ELSE [s0.acs[i] EXCEPT !.current = Continue(i), !.multiplen = @ \/ run = 1, !.closed = FALSE]]]

-----------------------------------------------------------------------------
(* blocks of a fragment as they are written *)

\* Blocks are found from the last address back.
BlocksOf(s) ==
  LET n == Len(s.fragment)
      Start(p) == SelectInSeq(s.fragment, LAMBDA q : q = s.block[s.fragment[p]].start)
      IsEnd[p \in 1 .. n] == p = n \/ \E q \in p + 1 .. n : IsEnd[q] /\ Start(q) = p + 1
      ends == SelectSeq([p \in 1 .. n |-> p], LAMBDA p : IsEnd[p])
  IN [k \in DOMAIN ends |-> [from |-> Start(ends[k]), to |-> ends[k], block |-> s.block[s.fragment[ends[k]]]]]

\* Runs of neighboring addresses that share a TLV type with values of one length.
TlvRuns(addrs, t) ==
  LET With(x, y) == \A p \in x .. y : t \in DOMAIN addrs[p].tlvs /\ Len(addrs[p].tlvs[t]) = Len(addrs[x].tlvs[t])
  IN {r \in (DOMAIN addrs) \X (DOMAIN addrs) :
        /\ r[1] <= r[2] /\ With(r[1], r[2])
        /\ r[1] > 1 => ~With(r[1] - 1, r[2])
        /\ r[2] < Len(addrs) => ~With(r[1], r[2] + 1)}
\* mutant: one value for all addresses of a TLV
OneValue(addrs, t, r) ==
  [type |-> t, multivalue |-> FALSE, index |-> IF r = <<1, Len(addrs)>> THEN <<>> ELSE <<r[1] - 1, r[2] - 1>>,
   value |-> addrs[r[1]].tlvs[t]]
_write_addresstlv(addrs, t, r) ==
  LET values == [p \in r[1] .. r[2] |-> addrs[p].tlvs[t]]
      same == \A p \in r[1] .. r[2] : values[p] = values[r[1]]
      all == FlattenSeq([k \in 1 .. r[2] - r[1] + 1 |-> values[r[1] + k - 1]])
      indices == IF r = <<1, Len(addrs)>> THEN <<>> ELSE IF r[1] = r[2] THEN <<r[1] - 1>> ELSE <<r[1] - 1, r[2] - 1>>
  IN [type |-> t, multivalue |-> ~same, index |-> indices, value |-> IF same THEN values[r[1]] ELSE all]
_write_addresstlvs(addrs) ==
  UNION {{_write_addresstlv(addrs, t, r) : r \in TlvRuns(addrs, t)} : t \in TlvTypes}

_write_addresses(addrs, block) ==
  LET n == Len(addrs)
      head == IF n = 1 THEN 0 ELSE block.headlen
      Tail0 == IF n = 1 THEN 0 ELSE AddrLen - head - 1
      tail == Max({k \in 0 .. Tail0 : \A p \in 1 .. n, j \in 0 .. k - 1 : addrs[p].bytes[AddrLen - j] = addrs[1].bytes[AddrLen - j]})
      end == SubSeq(addrs[1].bytes, AddrLen - tail + 1, AddrLen)
  IN [num |-> n, head |-> SubSeq(addrs[1].bytes, 1, head),
      taillen |-> tail, tail |-> IF \A j \in DOMAIN end : end[j] = 0 THEN <<>> ELSE end,
      mid |-> FlattenSeq([p \in 1 .. n |-> SubSeq(addrs[p].bytes, head + 1, AddrLen - tail)]),
      multiplen |-> block.multiplen,
      plens |-> IF block.multiplen THEN [p \in 1 .. n |-> addrs[p].plen]
                ELSE IF addrs[1].plen # FullPlen THEN <<addrs[1].plen>> ELSE <<>>,
      tlvs |-> _write_addresstlvs(addrs)]
BlockSize(b) ==
  2 + (IF b.head = <<>> THEN 0 ELSE 1 + Len(b.head)) + (IF b.taillen = 0 THEN 0 ELSE 1 + Len(b.tail)) + Len(b.mid)
    + Len(b.plens) + 2
    + MapThenSumSet(LAMBDA v : 2 + (IF v.type \in ExtTypes THEN 1 ELSE 0) + Len(v.index)
                                 + (IF v.value = <<>> THEN 0 ELSE 1 + Len(v.value)), b.tlvs)
Written(s, msg) ==
  LET blocks == BlocksOf(s)
  IN [k \in DOMAIN blocks |->
        _write_addresses([p \in 1 .. blocks[k].to - blocks[k].from + 1 |-> msg[s.fragment[blocks[k].from + p - 1]]],
                         blocks[k].block)]
_bin_addr_size(blocks) == FoldLeft(LAMBDA n, b : n + BlockSize(b), 0, blocks)

-----------------------------------------------------------------------------
(* the loop over the addresses of a message *)

_finalize_message_fragment(s, msg) == [s EXCEPT !.fragments = Append(@, Written(s, msg))]
Fits(s, max) == \E i \in Heads : s.acs[i].total + s.acs[i].current <= max
NextAddress(s, msg, max) ==
  LET a == msg[s.at]
      clean == IF s.fragment = <<>> THEN [s EXCEPT !.acs = NoAcs, !.tlvblock = NoCount, !.same_prefixlen = 1] ELSE s
      c == _compress_address(clean, msg, s.at)
      full == _finalize_message_fragment(_close_addrblock(c, Last(s.fragment), 0), msg)
  IN CASE s.over -> s
       [] ~s.over /\ s.at > Len(msg) ->
            [_finalize_message_fragment(_close_addrblock(s, Last(s.fragment), 0), msg) EXCEPT !.over = TRUE]
       [] ~s.over /\ s.at \in s.done /\ ~a.mandatory -> [s EXCEPT !.at = @ + 1]
       [] ~s.over /\ (s.at \notin s.done \/ a.mandatory) ->
            IF Fits(c, max)
            THEN [c EXCEPT !.acs = [i \in Heads |-> [c.acs[i] EXCEPT !.total = @ + c.acs[i].current]],
                           !.fragment = Append(@, s.at), !.done = @ \cup {s.at}, !.at = @ + 1]
            ELSE IF \A p \in s.done : msg[p].mandatory THEN [s EXCEPT !.over = TRUE, !.error = "mtu"]
            ELSE IF \A k \in DOMAIN s.fragment : msg[s.fragment[k]].mandatory THEN [s EXCEPT !.over = TRUE, !.error = "loop"]
            ELSE [full EXCEPT !.fragment = <<>>, !.at = s.fragment[1]]

rfc5444_writer_create_message(msg, max) ==
  IF msg = <<>> THEN [NewSession(msg) EXCEPT !.fragments = <<<<>>>>, !.over = TRUE]
  ELSE FoldLeft(LAMBDA s, k : NextAddress(s, msg, max), NewSession(msg), [k \in 1 .. (Len(msg) + 1) * (Len(msg) + 1) |-> k])

-----------------------------------------------------------------------------
(* the receiver *)

_parse_addrblock(b) ==
  LET midlen == AddrLen - Len(b.head) - b.taillen
      tail == IF b.tail = <<>> THEN [j \in 1 .. b.taillen |-> 0] ELSE b.tail
  IN [p \in 1 .. b.num |->
        [bytes |-> b.head \o SubSeq(b.mid, midlen * (p - 1) + 1, midlen * p) \o tail,
         plen |-> IF b.multiplen THEN b.plens[p] ELSE IF b.plens = <<>> THEN FullPlen ELSE b.plens[1]]]
_parse_tlv(b, v) ==
  LET index1 == IF v.index = <<>> THEN 0 ELSE v.index[1]
      index2 == IF v.index = <<>> THEN b.num - 1 ELSE Last(v.index)
      count == index2 - index1 + 1
      length == IF v.multivalue /\ count > 1 THEN Len(v.value) \div count ELSE Len(v.value)
  IN [type |-> v.type, index1 |-> index1, index2 |-> index2,
      value |-> [p \in index1 .. index2 |-> IF v.multivalue /\ count > 1
                   THEN SubSeq(v.value, (p - index1) * length + 1, (p - index1 + 1) * length) ELSE v.value]]
ReadTlvs(b, p) ==
  LET tlvs == {_parse_tlv(b, v) : v \in b.tlvs}
      mine == {v \in tlvs : p - 1 \in v.index1 .. v.index2}
  IN [t \in {v.type : v \in mine} |-> (CHOOSE v \in mine : v.type = t).value[p - 1]]
ReadBlock(b) ==
  LET addrs == _parse_addrblock(b)
  IN [p \in 1 .. b.num |-> [bytes |-> addrs[p].bytes, plen |-> addrs[p].plen, tlvs |-> ReadTlvs(b, p)]]
Read(blocks) == FlattenSeq([k \in DOMAIN blocks |-> ReadBlock(blocks[k])])
=============================================================================
