--------------------------- MODULE Rfc5444Values ---------------------------
(***************************************************************************)
(* The values of TLVs (src/src/librfc5444/rfc5444.c): times of one byte,   *)
(* metrics of 12 bits, and how NHDP packs the four metrics of an address   *)
(* into TLVs with flags (nhdp_writer.c) and unpacks them (nhdp_domain.c).  *)
(***************************************************************************)
EXTENDS Integers, Sequences

METRIC_MAX == 16776960       \* RFC7181_METRIC_MAX
METRIC_INFINITE == 16777215  \* RFC7181_METRIC_INFINITE
KindOf == <<"incoming_link", "outgoing_link", "incoming_neigh", "outgoing_neigh">>
\* How often a value above limit is halved, rounding up.
Halvings(x, limit) ==
  LET Half[k \in 0 .. 31] == IF k = 0 THEN x ELSE (Half[k - 1] + 1) \div 2
      n == CHOOSE k \in 0 .. 31 : Half[k] <= limit /\ \A j \in 0 .. k - 1 : Half[j] > limit
  IN <<n, Half[n]>>

\* Milliseconds as (1000 + 125 * a) * 2^(b - 10), 0 and 255 are the ends.
rfc5497_timetlv_encode(decoded) ==
  LET down == Halvings(decoded, 1875)
      ups == CHOOSE k \in 0 .. 10 : decoded * 2^k >= 1000 /\ (k > 0 => decoded * 2^(k - 1) < 1000)
      b == IF decoded >= 1000 THEN 10 + down[1] ELSE 10 - ups
      value == IF decoded >= 1000 THEN down[2] ELSE decoded * 2^ups
  IN IF decoded < 1 THEN 0 ELSE (value - 1000 + 124) \div 125 + 8 * b
rfc5497_timetlv_decode(encoded) ==
  LET a == encoded % 8
      b == encoded \div 8
  IN IF encoded = 0 THEN 0 ELSE IF b <= 10 THEN (1000 + 125 * a) \div 2^(10 - b) ELSE (1000 + 125 * a) * 2^(b - 10)

\* A metric as (257 + b) * 2^a - 256.
rfc7181_metric_encode(decoded) ==
  LET h == Halvings(decoded + 256, 512) IN IF decoded > METRIC_MAX THEN [a |-> 15, b |-> 255] ELSE [a |-> h[1], b |-> h[2] - 257]
rfc7181_metric_decode(field) == (257 + field.b) * 2^field.a - 256

\* One TLV for all kinds that have the same encoded metric, in the order of the
\* kinds; 0 and infinite metrics are left out.
_write_metric_tlv(metrics) ==
  LET used == {i \in 1 .. 4 : metrics[i] > 0 /\ metrics[i] <= METRIC_MAX}
      Same(i) == {j \in used : rfc7181_metric_encode(metrics[j]) = rfc7181_metric_encode(metrics[i])}
      heads == SelectSeq(<<1, 2, 3, 4>>, LAMBDA i : i \in used /\ \A j \in Same(i) : i <= j)
  IN [k \in DOMAIN heads |-> [field |-> rfc7181_metric_encode(metrics[heads[k]]), flags |-> {KindOf[j] : j \in Same(heads[k])}]]

\* What the receiver makes of the metric TLVs of its own address and of the
\* address of a 2-hop neighbor, whose directions it does not swap.
Received(tlvs, kind) ==
  LET last == {k \in DOMAIN tlvs : kind \in tlvs[k].flags /\ \A j \in k + 1 .. Len(tlvs) : kind \notin tlvs[j].flags}
  IN IF last = {} THEN METRIC_INFINITE ELSE rfc7181_metric_decode(tlvs[CHOOSE k \in last : TRUE].field)
nhdp_domain_process_metric_linktlv(tlvs) ==
  [link_out |-> Received(tlvs, "incoming_link"), neigh_out |-> Received(tlvs, "incoming_neigh")]
nhdp_domain_process_metric_2hoptlv(tlvs) ==
  [in |-> Received(tlvs, "incoming_neigh"), out |-> Received(tlvs, "outgoing_neigh")]
=============================================================================
