-------------------------------- MODULE FfDat --------------------------------
(***************************************************************************)
(* The directional airtime metric (nhdp/ff_dat_metric): what one link      *)
(* counts of the packets of its neighbor, in a ring of buckets, and the    *)
(* cost calculated from the counts and from the layer-2 data of the link.  *)
(* Operators on the record of a link; NhdpDomain has the actions.          *)
(***************************************************************************)
EXTENDS Integers, Sequences, FiniteSets, SequencesExt

CONSTANTS
    SamplingCount,   \* DAT_SAMPLING_COUNT
    SeqnoModulus,    \* packet sequence numbers are 0 .. SeqnoModulus - 1
    SuccessRange,    \* DATFF_FRAME_SUCCESS_RANGE
    SpeedMinimum,    \* DATFF_LINKSPEED_MINIMUM
    SpeedRange,      \* DATFF_LINKSPEED_RANGE
    IntHalf,         \* an int is -IntHalf .. IntHalf - 1
    Refresh          \* refresh_interval of the interface

ASSUME DatAssumption ==
    /\ SamplingCount \in Nat \ {0} /\ SeqnoModulus \in Nat \ {0}
    /\ SuccessRange \in Nat \ {0} /\ SpeedMinimum \in Nat \ {0} /\ SpeedRange \in Nat \ {0}
    /\ IntHalf \in Nat \ {0} /\ Refresh \in Nat \ {0}

RFC7181_METRIC_MIN == 1
RFC7181_METRIC_MAX == 16776960
RFC7181_METRIC_INFINITE == 16777215

Slots == 0 .. SamplingCount - 1

Sum(f) == FoldFunction(+, 0, f)

(* _cb_link_added: every bucket starts with one packet, not received. *)
DatLink(interval) ==
    [ contains |-> FALSE, missed |-> 0, ptr |-> 0, last |-> 0, loss |-> 8000,
      interval |-> interval, neighbors |-> 0,
      bucket |-> [ i \in Slots |-> [received |-> 0, total |-> 1, speed |-> 0] ] ]

(* _cb_link_changed *)
DatLinkChanged(d, interval) == [d EXCEPT !.interval = interval, !.missed = 0]

(* Error: one too few when the sequence number wraps. *)
SeqnoDistanceShort(seqno, last) ==
    IF seqno >= last THEN seqno - last ELSE (seqno + SeqnoModulus - 1) - last

SeqnoDistance(seqno, last) ==
    IF seqno >= last THEN seqno - last ELSE (seqno + SeqnoModulus) - last

_cb_process_packet(d, seqno) ==
    IF ~d.contains
    THEN [d EXCEPT !.contains = TRUE, !.ptr = 0, !.last = seqno,
                   !.bucket[0] = [@ EXCEPT !.received = 1, !.total = 1]]
    ELSE LET b == d.bucket[d.ptr]
             counted == [b EXCEPT !.received = b.received + 1, !.total = b.total + SeqnoDistance(seqno, d.last)]
         IN  [d EXCEPT !.bucket[d.ptr] = counted, !.last = seqno, !.missed = 0]

_cb_hello_lost(d) == [d EXCEPT !.missed = @ + 1]

(* The speed of a bucket goes through an int. *)
AsInt(v) == ((v + IntHalf) % (2 * IntHalf)) - IntHalf

_get_median_rx_linkspeed(d) ==
    LET speeds == SelectSeq(SetToSortSeq({<<AsInt(d.bucket[i].speed), i>> : i \in Slots},
                                         LAMBDA a, b : a[1] < b[1] \/ (a[1] = b[1] /\ a[2] < b[2])),
                            LAMBDA e : e[1] > 0)
    IN  IF speeds = <<>> THEN -1 ELSE speeds[Len(speeds) \div 2 + 1][1]

Clamp(v, lo, hi) == IF v < lo THEN lo ELSE IF v > hi THEN hi ELSE v

_scale_linkspeed(rate) == Clamp((rate + SpeedMinimum - 1) \div SpeedMinimum, 1, SpeedRange)

_get_bitrate_cost_factor(d) ==
    LET median == _get_median_rx_linkspeed(d)
    IN  IF median = -1 THEN -1 ELSE (1000 * SpeedRange) \div _scale_linkspeed(median)

_calculate_dynamic_loss_exponent(n) ==
    CASE n < 4 -> 1 [] n >= 4 /\ n < 9 -> 2 [] n >= 9 /\ n < 15 -> 3 [] OTHER -> 4

(* Values of the layer-2 database, -1 when there is none of another origin *)
(* than this plugin: speed, broadcast loss, relative link quality and      *)
(* throughput.                                                             *)
_get_lossrate_cost_factor(d, l2, exponent, received, total) ==
    LET probed == IF total # 0 /\ received * SuccessRange > total
                  THEN {<<"probed", (1000 * received) \div total>>} ELSE {}
        loss == IF l2.loss >= 0 THEN {<<"loss", 1000 - l2.loss>>} ELSE {}
        rlq == IF l2.rlq >= 0 THEN {<<"rlq", l2.rlq>>} ELSE {}
        points == probed \cup loss \cup rlq
        mean == FoldSet(LAMBDA p, acc : p[2] + acc, 0, points) \div Cardinality(points)
        Powers[n \in 1 .. 4] == IF n = 1 THEN mean ELSE (Powers[n - 1] * Powers[n - 1]) \div 1000
        success == Powers[exponent]
        worst == 1000 * SuccessRange
    IN  IF points = {} \/ (points # {} /\ success = 0) THEN [cost |-> worst, loss |-> d.loss]
        ELSE LET cost == 1000000 \div success
             IN  IF /\ cost > 1000 /\ cost < worst
                    /\ cost >= d.loss - 100 /\ cost <= d.loss + 100
                 THEN [cost |-> d.loss, loss |-> d.loss]
                 ELSE [cost |-> cost, loss |-> cost]

_get_throughput_cost_factor(bitrateCost, lossCost, l2) ==
    LET measured == IF bitrateCost > 0 /\ lossCost > 0
                    THEN {<<"own", (bitrateCost * lossCost) \div 1000>>} ELSE {}
        told == IF l2.throughput >= 0
                THEN {<<"told", (1000 * SpeedRange) \div _scale_linkspeed(l2.throughput)>>} ELSE {}
        points == measured \cup told
    IN  CASE points # {} ->
               FoldSet(LAMBDA p, acc : p[2] + acc, 0, points) \div Cardinality(points)
          [] points = {} /\ lossCost > 0 -> SpeedRange * lossCost
          [] OTHER -> 1000 * SpeedRange * SuccessRange

(* rfc7181_metric_encode followed by rfc7181_metric_decode: a value is     *)
(* rounded up to the next one that nine bits and an exponent can hold.     *)
MetricCoded(v) ==
    LET Mantissa(a) == (v + 256 + 2^a - 1) \div 2^a
        a == CHOOSE e \in 0 .. 15 : Mantissa(e) <= 512 /\ \A f \in 0 .. e - 1 : Mantissa(f) > 512
    IN  Mantissa(a) * 2^a - 256

_shape_metric(v) ==
    IF v > RFC7181_METRIC_MAX THEN RFC7181_METRIC_MAX
    ELSE IF v < RFC7181_METRIC_MIN THEN RFC7181_METRIC_MIN ELSE MetricCoded(v)

(* The neighborhood is only recalculated once it is known to be crowded:   *)
(* it starts at zero and stays there.                                      *)
_get_mic_cost_factor(d, mic, crowd) ==
    IF mic /\ d.neighbors > 1 THEN [factor |-> crowd * 1000, neighbors |-> crowd]
    ELSE [factor |-> 1000, neighbors |-> d.neighbors]

(* What is left of the received packets after missed HELLOs. *)
Received(d) ==
    LET received == Sum([i \in Slots |-> d.bucket[i].received])
        missing == (d.missed * d.interval) \div Refresh
    IN  IF d.missed = 0 THEN received
        ELSE IF missing > SamplingCount THEN 0
        ELSE (received * (SamplingCount - missing)) \div SamplingCount

NextSlot(ptr) == (ptr + 1) % SamplingCount

(* _cb_dat_sampling for one link: the new metric and the new record. *)
_cb_dat_sampling(d, l2, cfg) ==
    LET measured == [d EXCEPT !.bucket[d.ptr].speed = l2.speed]
        lossrate == _get_lossrate_cost_factor(d, l2,
                        IF cfg.exponent = 0 THEN _calculate_dynamic_loss_exponent(d.neighbors)
                        ELSE cfg.exponent,
                        Received(d), Sum([i \in Slots |-> d.bucket[i].total]))
        throughput == _get_throughput_cost_factor(_get_bitrate_cost_factor(measured),
                                                  lossrate.cost, l2)
        mic == _get_mic_cost_factor(d, cfg.mic, l2.crowd)
        next == NextSlot(d.ptr)
    IN  [ metric |-> _shape_metric((throughput * mic.factor) \div 1000000),
          link |-> [measured EXCEPT !.loss = lossrate.loss, !.neighbors = mic.neighbors,
                                    !.ptr = next,
                                    !.bucket[next].received = 0, !.bucket[next].total = 0] ]
=============================================================================
