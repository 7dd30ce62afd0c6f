-------------------------- MODULE NhdpDomainProofs --------------------------
(***************************************************************************)
(* What the users of a routing domain know of it, for all links, neighbors,*)
(* HELLOs, handlers and any order of events: proofs for module NhdpDomain. *)
(*                                                                         *)
(* DomainTold: the best link of a neighbor is the best of its links as     *)
(* they are, and the listeners have no outdated metric of it.  A           *)
(* recalculation compares the metric of the new best link with that of     *)
(* the last one, so MetricInv follows what was best when they were called, *)
(* also while a neighbor has no best link at all.                          *)
(*                                                                         *)
(* DatCounts: the active bucket of a link counts the packets sent since it *)
(* became active.  DatInv adds that the last sequence number is the number *)
(* of packets sent, modulo the range of sequence numbers.                  *)
(***************************************************************************)
EXTENDS NhdpDomain, FiniteSetTheorems, WellFoundedInduction, TLAPS

IsLink(d) ==
  /\ d = [sym |-> d.sym, in |-> d.in, out |-> d.out, will |-> d.will, mpr |-> d.mpr, selector |-> d.selector, hop |-> d.hop]
  /\ d.out \in Nat
IsNeigh(d) ==
  d = [in |-> d.in, out |-> d.out, best |-> d.best, bestMetric |-> d.bestMetric, will |-> d.will, mpr |-> d.mpr,
       selector |-> d.selector]

IsLinks(lk) == lk = [l \in Links |-> lk[l]] /\ \A l \in Links : IsLink(lk[l])
IsNeighs(nd) == nd = [n \in Neighs |-> nd[n]] /\ \A n \in Neighs : IsNeigh(nd[n])

(* The listeners know the metric of the last best link. *)
Remembers(nd, kn, n) == nd[n].bestMetric = InfiniteMetric \/ kn[n] = nd[n].bestMetric

(* The metric of a neighbor is that of its best link. *)
BestHolds(nd, n) ==
  IF nd[n].best = NONE THEN nd[n].out = InfiniteMetric \/ nd[n].bestMetric = InfiniteMetric
  ELSE nd[n].out = nd[n].bestMetric /\ nd[n].bestMetric # InfiniteMetric

MetricInv ==
  /\ IsLinks(link) /\ IsNeighs(neigh)
  /\ knew = [n \in Neighs |-> knew[n]]
  /\ \A n \in Neighs : Remembers(neigh, knew, n) /\ BestHolds(neigh, n)
  /\ BestLinkFresh
  /\ SelectedIsKnown

(* Two states of the links of n that no best link can tell apart. *)
SameMetrics(lk1, lk2, n) ==
  \A l \in Links : LinkNeigh[l] = n => lk1[l].sym = lk2[l].sym /\ lk1[l].out = lk2[l].out

-----------------------------------------------------------------------------
(* least elements *)

(* A nonempty set of naturals has a least element. *)
LEMMA LeastNumber ==
  ASSUME NEW T \in SUBSET Nat, T # {}
  PROVE  \E n \in T : \A m \in T : n <= m
<1> DEFINE S == {1 .. n : n \in T}
<1>1. S \subseteq FiniteSubsetsOf(Nat)
  <2> SUFFICES ASSUME NEW n \in T
               PROVE  1 .. n \in SUBSET Nat /\ IsFiniteSet(1 .. n)
    BY DEF FiniteSubsetsOf
  <2>1. IsFiniteSet(1 .. n)
    BY FS_Interval
  <2> QED BY <2>1
<1>2. S # {}
  OBVIOUS
<1>3. IsWellFoundedOn(StrictSubsetOrdering(Nat), FiniteSubsetsOf(Nat))
  BY FS_StrictSubsetOrderingWellFounded
<1>4. PICK x \in S : \A y \in S : <<y, x>> \notin StrictSubsetOrdering(Nat)
  <2> HIDE DEF S
  <2> QED BY <1>1, <1>2, <1>3, WFMin
<1>5. PICK n \in T : x = 1 .. n
  BY <1>4
<1>6. \A m \in T : n <= m
  <2> SUFFICES ASSUME NEW m \in T, m < n
               PROVE  FALSE
    OBVIOUS
  <2>1. 1 .. m \subseteq x /\ n \in x /\ n \notin 1 .. m /\ x \subseteq Nat
    BY <1>5
  <2>2. <<1 .. m, x>> \in StrictSubsetOrdering(Nat)
    BY <2>1 DEF StrictSubsetOrdering
  <2> QED BY <1>4, <2>2
<1> QED BY <1>6

(* The first link of a list that is one of ls. *)
LEMMA FirstIsOne ==
  ASSUME NEW ls, ls \subseteq Links, ls # {}
  PROVE  FirstOf(ls) \in ls
<1> DEFINE T == {i \in DOMAIN LinkList : LinkList[i] \in ls}
<1>1. DOMAIN LinkList = 1 .. Len(LinkList) /\ Len(LinkList) \in Nat
  BY DomainAssumption
<1>2. T # {}
  BY DEF Links, ToSet
<1>3. PICK i \in T : \A j \in T : i <= j
  <2>1. T \subseteq Nat
    BY <1>1
  <2> HIDE DEF T
  <2> QED BY <1>2, <2>1, LeastNumber
<1>4. \A j \in 1 .. i - 1 : LinkList[j] \notin ls
  BY <1>1, <1>3
<1> QED BY <1>3, <1>4 DEF FirstOf

(* The best link is a link of the neighbor with a finite metric. *)
LEMMA BestIsUsable ==
  ASSUME NEW lk, IsLinks(lk), NEW n, BestOut(lk, n) # NONE
  PROVE  /\ lk[BestOut(lk, n)].out < InfiniteMetric /\ lk[BestOut(lk, n)].out \in Nat
         /\ BestOut(lk, n) \in Links /\ LinkNeigh[BestOut(lk, n)] = n
<1> DEFINE usable == {l \in Symmetric(lk, n) : lk[l].out < InfiniteMetric}
           best == {l \in usable : \A k \in usable : lk[l].out <= lk[k].out}
<1>1. best # {} /\ BestOut(lk, n) = FirstOf(best)
  BY DEF BestOut
<1>2. best \subseteq Links
  BY DEF Symmetric
<1>3. BestOut(lk, n) \in best
  <2> HIDE DEF best
  <2> QED BY <1>1, <1>2, FirstIsOne
<1>4. BestOut(lk, n) \in Links /\ LinkNeigh[BestOut(lk, n)] = n
  BY <1>3 DEF Symmetric
<1> QED BY <1>2, <1>3, <1>4 DEF IsLinks, IsLink

(* The best link depends on the symmetry and the metrics of n's links. *)
LEMMA SameBest ==
  ASSUME NEW lk1, NEW lk2, NEW n, SameMetrics(lk1, lk2, n)
  PROVE  BestOut(lk1, n) = BestOut(lk2, n)
<1> DEFINE usable1 == {l \in Symmetric(lk1, n) : lk1[l].out < InfiniteMetric}
           usable2 == {l \in Symmetric(lk2, n) : lk2[l].out < InfiniteMetric}
           best1 == {l \in usable1 : \A k \in usable1 : lk1[l].out <= lk1[k].out}
           best2 == {l \in usable2 : \A k \in usable2 : lk2[l].out <= lk2[k].out}
<1>1. Symmetric(lk1, n) = Symmetric(lk2, n)
  BY DEF Symmetric, SameMetrics
<1>2. \A l \in Symmetric(lk1, n) : lk1[l].out = lk2[l].out
  BY DEF Symmetric, SameMetrics
<1>3. usable1 = usable2
  BY <1>1, <1>2
<1>4. best1 = best2
  BY <1>2, <1>3
<1> HIDE DEF best1, best2
<1>5. BestOut(lk1, n) = IF best1 = {} THEN NONE ELSE FirstOf(best1)
  BY DEF BestOut, best1
<1>6. BestOut(lk2, n) = IF best2 = {} THEN NONE ELSE FirstOf(best2)
  BY DEF BestOut, best2
<1> QED BY <1>4, <1>5, <1>6

(* What leaves the metrics of n and of its links alone leaves it fresh. *)
LEMMA StaysFresh ==
  ASSUME NEW lk1, NEW lk2, IsLinks(lk1), NEW n, SameMetrics(lk1, lk2, n),
         NEW nd1, NEW nd2, nd1[n].best = nd2[n].best, nd1[n].out = nd2[n].out, BestIsFresh(lk1, nd1, n)
  PROVE  BestIsFresh(lk2, nd2, n)
<1>1. BestOut(lk1, n) = BestOut(lk2, n)
  BY SameBest
<1>2. BestOut(lk1, n) # NONE => lk1[BestOut(lk1, n)].out = lk2[BestOut(lk1, n)].out
  BY BestIsUsable DEF SameMetrics
<1> QED BY <1>1, <1>2 DEF BestIsFresh

-----------------------------------------------------------------------------
(* the metrics the listeners know *)

LEMMA LinkFields ==
  ASSUME NEW d, IsLink(d), NEW e
  PROVE  /\ IsLink([d EXCEPT !.hop = e]) /\ IsLink([d EXCEPT !.will = e]) /\ IsLink([d EXCEPT !.mpr = e])
         /\ IsLink([d EXCEPT !.selector = e]) /\ IsLink([d EXCEPT !.in = e]) /\ IsLink([d EXCEPT !.sym = e])
         /\ e \in Nat => IsLink([d EXCEPT !.out = e])
BY DEF IsLink

LEMMA StatusKeeps ==
  ASSUME NEW d, IsLink(d), NEW sym
  PROVE  IsLink(nhdp_db_link_update_status(d, sym))
<1> DEFINE hop == IF d.sym /\ ~sym THEN NoHops ELSE d.hop
           first == [d EXCEPT !.sym = sym]
<1>1. IsLink(first)
  BY LinkFields
<1>2. nhdp_db_link_update_status(d, sym) = [first EXCEPT !.hop = hop]
  BY DEF IsLink, nhdp_db_link_update_status
<1> HIDE DEF first, hop
<1>3. IsLink([first EXCEPT !.hop = hop])
  BY <1>1, LinkFields
<1> QED BY <1>2, <1>3

LEMMA NeighWill ==
  ASSUME NEW d, IsNeigh(d), NEW e, NEW new, new = [d EXCEPT !.will = e]
  PROVE  IsNeigh(new) /\ new.best = d.best /\ new.bestMetric = d.bestMetric /\ new.selector = d.selector
BY DEF IsNeigh

LEMMA NeighSelector ==
  ASSUME NEW d, IsNeigh(d), NEW e, NEW new, new = [d EXCEPT !.selector = e]
  PROVE  IsNeigh(new) /\ new.best = d.best /\ new.bestMetric = d.bestMetric /\ new.selector = e
BY DEF IsNeigh

LEMMA NeighOut ==
  ASSUME NEW d, IsNeigh(d), NEW e, NEW new, new = [d EXCEPT !.out = e]
  PROVE  IsNeigh(new) /\ new.best = d.best /\ new.bestMetric = d.bestMetric
BY DEF IsNeigh

LEMMA NeighMpr ==
  ASSUME NEW d, IsNeigh(d), NEW e, NEW new, new = [d EXCEPT !.mpr = e]
  PROVE  /\ IsNeigh(new) /\ new.best = d.best /\ new.bestMetric = d.bestMetric /\ new.selector = d.selector
         /\ new.out = d.out
BY DEF IsNeigh

LEMMA LinkUpdate ==
  ASSUME NEW lk, IsLinks(lk), NEW l \in Links, NEW new, IsLink(new)
  PROVE  IsLinks([lk EXCEPT ![l] = new])
BY DEF IsLinks

LEMMA NeighUpdate ==
  ASSUME NEW nd, IsNeighs(nd), NEW n \in Neighs, NEW new, IsNeigh(new)
  PROVE  /\ IsNeighs([nd EXCEPT ![n] = new]) /\ [nd EXCEPT ![n] = new][n] = new
         /\ \A m \in Neighs \ {n} : [nd EXCEPT ![n] = new][m] = nd[m]
BY DEF IsNeighs

LEMMA UsedKeeps ==
  ASSUME NEW lk, IsLinks(lk), NEW n
  PROVE  IsLinks(Used(lk, n)) /\ \A m : SameMetrics(lk, Used(lk, n), m)
<1>1. IsLinks(Used(lk, n))
  BY DEF IsLinks, IsLink, Used
<1>2. \A l \in Links : lk[l].sym = Used(lk, n)[l].sym /\ lk[l].out = Used(lk, n)[l].out
  BY DEF IsLinks, IsLink, Used
<1> QED BY <1>1, <1>2 DEF SameMetrics

(* After a recalculation for n every metric is the one of the best link,   *)
(* and the listeners were called if that changed.                          *)
LEMMA Recalculated ==
  ASSUME NEW lk, IsLinks(lk), NEW nd, IsNeighs(nd), NEW n \in Neighs,
         knew = [m \in Neighs |-> knew[m]],
         \A m \in Neighs : Remembers(nd, knew, m),
         \A m \in Neighs \ {n} : BestHolds(nd, m) /\ BestIsFresh(lk, nd, m),
         nhdp_domain_recalculate_metrics(lk, nd, n)
  PROVE  /\ IsLinks(link') /\ IsNeighs(neigh')
         /\ knew' = [m \in Neighs |-> knew'[m]]
         /\ \A m \in Neighs : Remembers(neigh', knew', m) /\ BestHolds(neigh', m)
         /\ BestLinkFresh'
         /\ \A m \in Neighs : neigh'[m].selector = nd[m].selector
<1> DEFINE best == BestOut(lk, n)
           new == _recalculate_neighbor_metric(lk, nd[n], n)
<1>1. /\ link' = Used(lk, n)
      /\ neigh' = [nd EXCEPT ![n] = new]
      /\ knew' = [m \in Neighs |-> IF MetricChanged(lk, nd[n], n) /\ neigh'[m].out # InfiniteMetric
                                   THEN neigh'[m].out ELSE knew[m]]
  BY DEF nhdp_domain_recalculate_metrics
<1>2. IsNeigh(nd[n])
  BY DEF IsNeighs
<1>3. /\ IsNeigh(new) /\ new.best = best /\ new.selector = nd[n].selector
      /\ new.out = IF best = NONE THEN InfiniteMetric ELSE lk[best].out
      /\ new.bestMetric = IF best = NONE THEN nd[n].bestMetric ELSE lk[best].out
  <2> DEFINE in == Min({InfiniteMetric} \cup {lk[l].in : l \in Symmetric(lk, n)})
             out == IF best = NONE THEN InfiniteMetric ELSE lk[best].out
             d == nd[n]
             metric == IF best = NONE THEN d.bestMetric ELSE lk[best].out
  <2>1. new = [d EXCEPT !.in = in, !.best = best, !.out = out, !.bestMetric = metric]
    BY DEF _recalculate_neighbor_metric
  <2> HIDE DEF in, best, out, metric, d, new
  <2>2. IsNeigh(d)
    BY <1>2 DEF d
  <2>3. new = [in |-> in, out |-> out, best |-> best, bestMetric |-> metric, will |-> d.will, mpr |-> d.mpr,
               selector |-> d.selector]
    BY <2>1, <2>2 DEF IsNeigh
  <2>4. IsNeigh(new) /\ new.best = best /\ new.selector = d.selector /\ new.out = out /\ new.bestMetric = metric
    BY <2>3 DEF IsNeigh
  <2> QED BY <2>4 DEF d, out, metric
<1>4. /\ neigh' = [m \in Neighs |-> neigh'[m]] /\ neigh'[n] = new
      /\ \A m \in Neighs \ {n} : neigh'[m] = nd[m]
  BY <1>1 DEF IsNeighs
<1>5. IsNeighs(neigh')
  BY <1>3, <1>4 DEF IsNeighs
<1>6. \A m \in Neighs : neigh'[m].selector = nd[m].selector
  BY <1>3, <1>4
<1>7. best # NONE => lk[best].out # InfiniteMetric
  BY BestIsUsable, MprAssumption
<1>8. \A m \in Neighs : BestHolds(neigh', m)
  BY <1>3, <1>4, <1>7 DEF BestHolds
<1>9. knew' = [m \in Neighs |-> knew'[m]]
  BY <1>1
<1>10. \A m \in Neighs : Remembers(neigh', knew', m)
  <2> SUFFICES ASSUME NEW m \in Neighs
               PROVE  Remembers(neigh', knew', m)
    OBVIOUS
  <2>1. CASE MetricChanged(lk, nd[n], n) /\ neigh'[m].out # InfiniteMetric
    <3>1. knew'[m] = neigh'[m].out
      BY <1>1, <2>1
    <3>2. BestHolds(neigh', m)
      BY <1>8
    <3> QED BY <2>1, <3>1, <3>2 DEF BestHolds, Remembers
  <2>2. CASE ~(MetricChanged(lk, nd[n], n) /\ neigh'[m].out # InfiniteMetric)
    <3>1. knew'[m] = knew[m]
      BY <1>1, <2>2
    <3>2. neigh'[m].bestMetric = nd[m].bestMetric
      <4>1. CASE m # n
        BY <1>4, <4>1
      <4>2. CASE m = n
        <5>1. best = NONE \/ nd[n].bestMetric = lk[best].out
          BY <1>3, <1>4, <1>7, <2>2, <4>2 DEF MetricChanged
        <5> QED BY <1>3, <1>4, <4>2, <5>1
      <4> QED BY <4>1, <4>2
    <3> QED BY <3>1, <3>2 DEF Remembers
  <2> QED BY <2>1, <2>2
<1>11. IsLinks(link')
  BY <1>1, UsedKeeps
<1>12. ASSUME NEW m \in Neighs
       PROVE  BestIsFresh(link', neigh', m)
  <2>1. SameMetrics(lk, link', m)
    BY <1>1, UsedKeeps
  <2>2. CASE m = n
    <3>1. BestIsFresh(lk, neigh', m)
      BY <1>3, <1>4, <2>2 DEF BestIsFresh
    <3> HIDE DEF new, best
    <3> QED BY <2>1, <3>1, StaysFresh
  <2>3. CASE m # n
    <3>1. neigh'[m] = nd[m] /\ BestIsFresh(lk, nd, m)
      BY <1>4, <2>3
    <3> HIDE DEF new, best
    <3> QED BY <2>1, <3>1, StaysFresh
  <2> QED BY <2>2, <2>3
<1>13. BestLinkFresh'
  BY <1>12 DEF BestLinkFresh, BestIsFresh
<1> QED BY <1>5, <1>6, <1>8, <1>9, <1>10, <1>11, <1>13

(* A HELLO ends with a recalculation for its sender, and the flag of the   *)
(* node follows the relay bits.                                            *)
LEMMA HelloTold ==
  ASSUME MetricInv, NEW l \in Links, NEW h \in Hellos, _cb_msg_pass2_end(l, h)
  PROVE  MetricInv'
<1> DEFINE n == LinkNeigh[l]
           bits == IF h.mpr = NoTlv THEN {} ELSE h.mpr
           out == IF no_default_handling \/ h.metric = 0 THEN InfiniteMetric ELSE h.metric
           listed == IF h.us = "silent" THEN [lk |-> link, nd |-> neigh, selected |-> selected]
                     ELSE _process_domainspecific_linkdata(h, link, neigh, l)
           hops == [listed.lk EXCEPT ![l].hop = _cb_addr_pass2_block(h, @)]
           willing == nhdp_domain_store_willingness(h, hops, l)
           sym == CASE h.us = "heard" -> TRUE [] h.us = "lost" -> FALSE [] h.us = "silent" -> link[l].sym
           lk == [willing EXCEPT ![l] = nhdp_db_link_update_status(@, sym)]
           nd == [listed.nd EXCEPT ![n].will = h.will]
<1>1. n \in Neighs /\ h.metric \in Nat /\ InfiniteMetric \in Nat
  BY DomainAssumption, MprAssumption
<1>2. nhdp_domain_recalculate_metrics(lk, nd, n) /\ selected' = listed.selected
  BY DEF _cb_msg_pass2_end
<1>3. /\ IsLinks(listed.lk)
      /\ IsNeighs(listed.nd)
      /\ \A m \in Neighs : listed.nd[m].best = neigh[m].best /\ listed.nd[m].bestMetric = neigh[m].bestMetric
      /\ \A m \in Neighs \ {n} : listed.nd[m] = neigh[m]
      /\ (\E m \in Neighs : listed.nd[m].selector) => listed.selected
  <2>1. CASE h.us = "silent"
    BY <2>1 DEF MetricInv, SelectedIsKnown
  <2>2. CASE h.us # "silent"
    <3> DEFINE lk0 == [link EXCEPT ![l].out = out]
               nd0 == [neigh EXCEPT ![n].selector = FALSE, ![n].will = NEVER, ![n].out = InfiniteMetric]
               nd1 == [nd0 EXCEPT ![n].selector = "routing" \in bits]
    <3>1. /\ listed.lk = [lk0 EXCEPT ![l].selector = "flooding" \in bits] /\ listed.nd = nd1
          /\ listed.selected = IF h.mpr = NoTlv THEN selected ELSE \E m \in Neighs : nd1[m].selector
      BY <2>2 DEF _process_domainspecific_linkdata, nhdp_domain_process_mpr_tlv
    <3>2. IsLinks(lk0)
      BY <1>1 DEF MetricInv, IsLinks, IsLink
    <3>3. IsLinks(listed.lk)
      <4> HIDE DEF lk0
      <4> QED BY <3>1, <3>2 DEF IsLinks, IsLink
    <3>4. /\ IsNeighs(nd0) /\ \A m \in Neighs \ {n} : nd0[m] = neigh[m]
          /\ \A m \in Neighs : nd0[m].best = neigh[m].best /\ nd0[m].bestMetric = neigh[m].bestMetric
      <4> DEFINE d == neigh[n]
                 d1 == [d EXCEPT !.selector = FALSE]
                 d2 == [d1 EXCEPT !.will = NEVER]
                 d3 == [d2 EXCEPT !.out = InfiniteMetric]
      <4>1. IsNeighs(neigh) /\ IsNeigh(d)
        BY <1>1 DEF MetricInv, IsNeighs
      <4>2. nd0 = [neigh EXCEPT ![n] = d3]
        BY <1>1, <4>1 DEF IsNeighs
      <4>3. IsNeigh(d1) /\ d1.best = d.best /\ d1.bestMetric = d.bestMetric
        BY <4>1, NeighSelector
      <4>4. IsNeigh(d2) /\ d2.best = d.best /\ d2.bestMetric = d.bestMetric
        <5> HIDE DEF d1
        <5> QED BY <4>3, NeighWill
      <4>5. IsNeigh(d3) /\ d3.best = d.best /\ d3.bestMetric = d.bestMetric
        <5> HIDE DEF d2
        <5> QED BY <4>4, NeighOut
      <4> HIDE DEF d3
      <4>6. IsNeighs(nd0) /\ nd0[n] = d3 /\ \A m \in Neighs \ {n} : nd0[m] = neigh[m]
        <5>1. /\ IsNeighs([neigh EXCEPT ![n] = d3]) /\ [neigh EXCEPT ![n] = d3][n] = d3
              /\ \A m \in Neighs \ {n} : [neigh EXCEPT ![n] = d3][m] = neigh[m]
          BY <1>1, <4>1, <4>5, NeighUpdate
        <5> QED BY <4>2, <5>1
      <4> HIDE DEF nd0
      <4> QED BY <1>1, <4>5, <4>6
    <3>5. /\ IsNeighs(nd1) /\ \A m \in Neighs \ {n} : nd1[m] = neigh[m]
          /\ \A m \in Neighs : nd1[m].best = neigh[m].best /\ nd1[m].bestMetric = neigh[m].bestMetric
          /\ nd1[n].selector = ("routing" \in bits)
      <4> HIDE DEF nd0
      <4> QED BY <1>1, <3>4 DEF IsNeighs, IsNeigh
    <3>6. (\E m \in Neighs : nd1[m].selector) => listed.selected
      <4>1. CASE h.mpr = NoTlv
        <5>1. ~nd1[n].selector
          BY <3>5, <4>1
        <5>2. (\E m \in Neighs : nd1[m].selector) => \E m \in Neighs : neigh[m].selector
          BY <3>5, <5>1
        <5> QED BY <3>1, <4>1, <5>2 DEF MetricInv, SelectedIsKnown
      <4>2. CASE h.mpr # NoTlv
        BY <3>1, <4>2
      <4> QED BY <4>1, <4>2
    <3> HIDE DEF nd1
    <3> QED BY <3>1, <3>3, <3>5, <3>6
  <2> QED BY <2>1, <2>2
<1>4. IsLinks(lk)
  <2> HIDE DEF listed
  <2>1. IsLinks(hops)
    <3> DEFINE told2hop == _cb_addr_pass2_block(h, listed.lk[l].hop)
    <3>1. hops = [listed.lk EXCEPT ![l] = [listed.lk[l] EXCEPT !.hop = told2hop]]
      BY <1>3 DEF IsLinks
    <3>2. IsLink(listed.lk[l])
      BY <1>3 DEF IsLinks
    <3> HIDE DEF told2hop, hops
    <3> QED BY <1>3, <3>1, <3>2, LinkFields, LinkUpdate
  <2>2. IsLinks(willing)
    <3> HIDE DEF hops
    <3>1. IsLink(hops[l])
      BY <2>1 DEF IsLinks
    <3>2. willing = [hops EXCEPT ![l] = [hops[l] EXCEPT !.will = h.will]]
      BY <2>1 DEF IsLinks, nhdp_domain_store_willingness
    <3> HIDE DEF willing
    <3> QED BY <2>1, <3>1, <3>2, LinkFields, LinkUpdate
  <2> HIDE DEF willing, sym
  <2>3. IsLink(willing[l])
    BY <2>2 DEF IsLinks
  <2> QED BY <2>2, <2>3, StatusKeeps, LinkUpdate
<1>5. /\ IsNeighs(nd) /\ \A m \in Neighs \ {n} : nd[m] = neigh[m]
      /\ \A m \in Neighs : nd[m].bestMetric = neigh[m].bestMetric /\ nd[m].selector = listed.nd[m].selector
  <2> HIDE DEF listed
  <2> DEFINE d == listed.nd[n]
  <2>1. IsNeigh(d)
    BY <1>1, <1>3 DEF IsNeighs
  <2> DEFINE new == [d EXCEPT !.will = h.will]
  <2>2. nd = [listed.nd EXCEPT ![n] = new]
    BY <1>1, <1>3 DEF IsNeighs
  <2>3. IsNeigh(new) /\ new.bestMetric = d.bestMetric /\ new.selector = d.selector
    BY <2>1, NeighWill
  <2> HIDE DEF new, nd
  <2>4. IsNeighs(nd) /\ nd[n] = new /\ \A m \in Neighs \ {n} : nd[m] = listed.nd[m]
    BY <1>1, <1>3, <2>2, <2>3, NeighUpdate
  <2> QED BY <1>1, <1>3, <2>3, <2>4
<1>6. \A m \in Neighs : Remembers(nd, knew, m)
  BY <1>5 DEF MetricInv, Remembers
<1>7. \A m \in Neighs \ {n} : BestHolds(nd, m)
  BY <1>5 DEF MetricInv, BestHolds
<1>9. \A k \in Links \ {l} : lk[k] = link[k]
  <2>1. \A k \in Links \ {l} : listed.lk[k] = link[k]
    BY DEF MetricInv, IsLinks, _process_domainspecific_linkdata, nhdp_domain_process_mpr_tlv
  <2> HIDE DEF listed, sym
  <2>2. \A k \in Links \ {l} : lk[k] = listed.lk[k]
    BY <1>3 DEF IsLinks, nhdp_domain_store_willingness
  <2> QED BY <2>1, <2>2
<1>10. ASSUME NEW m \in Neighs \ {n}
       PROVE  BestIsFresh(lk, nd, m)
  <2>1. SameMetrics(link, lk, m)
    <3> HIDE DEF lk
    <3> QED BY <1>9 DEF SameMetrics
  <2>2. nd[m] = neigh[m] /\ BestIsFresh(link, neigh, m) /\ IsLinks(link)
    BY <1>5 DEF MetricInv, BestLinkFresh
  <2> HIDE DEF lk, nd
  <2> QED BY <2>1, <2>2, StaysFresh
<1> HIDE DEF lk, nd, n, listed
<1>8. /\ IsLinks(link') /\ IsNeighs(neigh')
      /\ knew' = [m \in Neighs |-> knew'[m]]
      /\ \A m \in Neighs : Remembers(neigh', knew', m) /\ BestHolds(neigh', m)
      /\ BestLinkFresh'
      /\ \A m \in Neighs : neigh'[m].selector = nd[m].selector
  BY <1>1, <1>2, <1>4, <1>5, <1>6, <1>7, <1>10, Recalculated DEF MetricInv
<1> QED BY <1>2, <1>3, <1>5, <1>8 DEF MetricInv, SelectedIsKnown

LEMMA SymtimeTold ==
  ASSUME MetricInv, NEW l \in Links, _cb_link_symtime(l)
  PROVE  MetricInv'
<1> DEFINE lk == [link EXCEPT ![l] = nhdp_db_link_update_status(@, FALSE)]
           n == LinkNeigh[l]
<1>1. nhdp_domain_recalculate_metrics(lk, neigh, n) /\ selected' = selected /\ n \in Neighs
  BY DomainAssumption DEF _cb_link_symtime
<1>2. IsLink(link[l]) /\ IsLinks(link)
  BY DEF MetricInv, IsLinks
<1>3. IsLinks(lk)
  BY <1>2, StatusKeeps, LinkUpdate
<1>5. ASSUME NEW m \in Neighs \ {n}
      PROVE  BestIsFresh(lk, neigh, m)
  <2>1. \A k \in Links \ {l} : lk[k] = link[k]
    BY <1>2 DEF IsLinks
  <2> HIDE DEF lk
  <2>2. SameMetrics(link, lk, m)
    BY <2>1 DEF SameMetrics
  <2>3. BestIsFresh(link, neigh, m)
    BY DEF MetricInv, BestLinkFresh
  <2> QED BY <1>2, <2>2, <2>3, StaysFresh
<1> HIDE DEF lk, n
<1>4. /\ IsLinks(link') /\ IsNeighs(neigh')
      /\ knew' = [m \in Neighs |-> knew'[m]]
      /\ \A m \in Neighs : Remembers(neigh', knew', m) /\ BestHolds(neigh', m)
      /\ BestLinkFresh'
      /\ \A m \in Neighs : neigh'[m].selector = neigh[m].selector
  BY <1>1, <1>3, <1>5, Recalculated DEF MetricInv
<1> QED BY <1>1, <1>4 DEF MetricInv, SelectedIsKnown

(* What leaves the outgoing metrics alone. *)
LEMMA OnlyLinks ==
  ASSUME MetricInv, IsLinks(link'), UNCHANGED <<neigh, knew, selected>>,
         \A l \in Links : link'[l].sym = link[l].sym /\ link'[l].out = link[l].out
  PROVE  MetricInv'
<1>1. ASSUME NEW n \in Neighs
      PROVE  BestIsFresh(link', neigh', n)
  <2>1. SameMetrics(link, link', n) /\ IsLinks(link) /\ BestIsFresh(link, neigh, n)
    BY DEF SameMetrics, MetricInv, BestLinkFresh
  <2> QED BY <2>1, StaysFresh
<1>2. BestLinkFresh'
  BY <1>1 DEF BestLinkFresh, BestIsFresh
<1> QED BY <1>2 DEF MetricInv, SelectedIsKnown

LEMMA HopExpires ==
  ASSUME MetricInv, NEW l \in Links, NEW t \in TwohopAddrs, _cb_l2hop_vtime(l, t)
  PROVE  MetricInv'
<1> DEFINE hop == [link[l].hop EXCEPT ![t] = NoTwohop]
           new == [link[l] EXCEPT !.hop = hop]
<1>1. IsLinks(link) /\ IsLink(link[l])
  BY DEF MetricInv, IsLinks
<1>2. link' = [link EXCEPT ![l] = new] /\ UNCHANGED <<neigh, knew, selected>>
  BY <1>1 DEF _cb_l2hop_vtime, IsLinks, IsLink
<1>3. IsLink(new)
  BY <1>1, LinkFields
<1> HIDE DEF new
<1>4. IsLinks(link')
  <2>1. IsLinks([link EXCEPT ![l] = new])
    BY <1>1, <1>3, LinkUpdate
  <2> QED BY <1>2, <2>1
<1>5. \A k \in Links : link'[k].sym = link[k].sym /\ link'[k].out = link[k].out
  <2>1. new.sym = link[l].sym /\ new.out = link[l].out
    BY <1>1 DEF IsLink, new
  <2> QED BY <1>1, <1>2, <2>1 DEF IsLinks
<1> QED BY <1>2, <1>4, <1>5, OnlyLinks

(* Relays are flags, which no metric depends on. *)
LEMMA SendsTold ==
  ASSUME MetricInv, nhdp_writer_send_hello
  PROVE  MetricInv'
<1>1. UNCHANGED <<knew, selected>>
  BY DEF nhdp_writer_send_hello
<1>2. IsLinks(link') /\ \A l \in Links : link'[l].sym = link[l].sym /\ link'[l].out = link[l].out
  <2>1. CASE link' = link
    BY <2>1 DEF MetricInv
  <2>2. CASE link' = _recalculate_flooding_mpr_set
    <3>1. \A l \in Links : IsLink([link[l] EXCEPT !.mpr = l \in _cb_update_flooding_mpr])
      BY LinkFields DEF MetricInv, IsLinks
    <3>2. link' = [l \in Links |-> [link[l] EXCEPT !.mpr = l \in _cb_update_flooding_mpr]]
      BY <2>2 DEF _recalculate_flooding_mpr_set
    <3>3. \A l \in Links : link'[l].sym = link[l].sym /\ link'[l].out = link[l].out
      BY <3>2 DEF MetricInv, IsLinks, IsLink
    <3> QED BY <3>1, <3>2, <3>3 DEF IsLinks
  <2> QED BY <2>1, <2>2 DEF nhdp_writer_send_hello
<1>3. /\ IsNeighs(neigh')
      /\ \A n \in Neighs : /\ neigh'[n].best = neigh[n].best /\ neigh'[n].bestMetric = neigh[n].bestMetric
                           /\ neigh'[n].out = neigh[n].out /\ neigh'[n].selector = neigh[n].selector
  <2>1. CASE neigh' = neigh
    BY <2>1 DEF MetricInv
  <2>2. CASE neigh' = _recalculate_routing_mpr_set
    <3>1. neigh' = [n \in Neighs |-> [neigh[n] EXCEPT !.mpr = n \in _cb_update_routing_mpr]]
      BY <2>2 DEF _recalculate_routing_mpr_set
    <3>2. ASSUME NEW n \in Neighs
          PROVE  /\ IsNeigh(neigh'[n]) /\ neigh'[n].best = neigh[n].best /\ neigh'[n].bestMetric = neigh[n].bestMetric
                 /\ neigh'[n].out = neigh[n].out /\ neigh'[n].selector = neigh[n].selector
      <4>1. IsNeigh(neigh[n])
        BY DEF MetricInv, IsNeighs
      <4>2. neigh'[n] = [neigh[n] EXCEPT !.mpr = n \in _cb_update_routing_mpr]
        BY <3>1
      <4> QED BY <4>1, <4>2, NeighMpr
    <3>3. neigh' = [n \in Neighs |-> neigh'[n]]
      BY <3>1
    <3> QED BY <3>2, <3>3 DEF IsNeighs
  <2> QED BY <2>1, <2>2 DEF nhdp_writer_send_hello
<1>4. ASSUME NEW n \in Neighs
      PROVE  BestIsFresh(link', neigh', n)
  <2>1. SameMetrics(link, link', n) /\ IsLinks(link) /\ BestIsFresh(link, neigh, n)
    BY <1>2 DEF SameMetrics, MetricInv, BestLinkFresh
  <2> QED BY <1>3, <2>1, StaysFresh
<1>5. BestLinkFresh'
  BY <1>4 DEF BestLinkFresh, BestIsFresh
<1> QED BY <1>1, <1>2, <1>3, <1>5 DEF MetricInv, SelectedIsKnown, Remembers, BestHolds

(* Incoming metrics wait for the next HELLO. *)
LEMMA IncomingTold ==
  ASSUME MetricInv, NEW metric, NEW in, nhdp_domain_set_incoming_metric(metric, in),
         UNCHANGED <<neigh, knew, selected>>
  PROVE  MetricInv'
<1>1. IsLinks(link') /\ \A l \in Links : link'[l].sym = link[l].sym /\ link'[l].out = link[l].out
  <2>1. CASE link' = link
    BY <2>1 DEF MetricInv
  <2>2. CASE link' = [l \in Links |-> [link[l] EXCEPT !.in = in[l]]]
    <3>1. \A l \in Links : IsLink([link[l] EXCEPT !.in = in[l]])
      BY LinkFields DEF MetricInv, IsLinks
    <3>2. \A l \in Links : link'[l].sym = link[l].sym /\ link'[l].out = link[l].out
      BY <2>2 DEF MetricInv, IsLinks, IsLink
    <3> QED BY <2>2, <3>1, <3>2 DEF IsLinks
  <2> QED BY <2>1, <2>2 DEF nhdp_domain_set_incoming_metric
<1> QED BY <1>1, OnlyLinks

LEMMA MetricInitially ==
  ASSUME DomainInit
  PROVE  MetricInv
<1>1. MetricStart \in Nat
  BY MprAssumption DEF MetricStart
<1>2. IsLinks(link)
  BY <1>1 DEF DomainInit, IsLinks, IsLink, nhdp_domain_init_link
<1>3. IsNeighs(neigh) /\ \A n \in Neighs : neigh[n] = nhdp_domain_init_neighbor
  BY DEF DomainInit, IsNeighs, IsNeigh, nhdp_domain_init_neighbor
<1>4. \A n \in Neighs : neigh[n].best = NONE /\ neigh[n].bestMetric = InfiniteMetric /\ ~neigh[n].selector
  BY <1>3 DEF nhdp_domain_init_neighbor
<1>5. \A l \in Links : ~link[l].sym
  BY DEF DomainInit, nhdp_domain_init_link
<1>6. BestLinkFresh
  <2>1. \A n \in Neighs : Symmetric(link, n) = {}
    BY <1>5 DEF Symmetric
  <2>2. \A n \in Neighs : BestOut(link, n) = NONE
    BY <2>1 DEF BestOut
  <2> QED BY <1>4, <2>2 DEF BestLinkFresh, BestIsFresh
<1> QED BY <1>2, <1>3, <1>4, <1>6 DEF DomainInit, MetricInv, Remembers, BestHolds, SelectedIsKnown

LEMMA MetricPreserved ==
  ASSUME MetricInv, [DomainNext]_domainVars
  PROVE  MetricInv'
<1>1. ASSUME NEW d \in Handlers, nhdp_domain_configure(d.metric, d.mpr, d.flooding)
      PROVE  MetricInv'
  BY <1>1, OnlyLinks DEF nhdp_domain_configure, MetricInv
<1>2. ASSUME NEW s \in Ifs \cup {ANY}, NEW e \in CostTables, _cb_cfg_changed(s, e)
      PROVE  MetricInv'
  BY <1>2, OnlyLinks DEF _cb_cfg_changed, MetricInv
<1>3. CASE _cb_set_linkcost
  BY <1>3, IncomingTold DEF _cb_set_linkcost
<1>4. ASSUME NEW l \in Links, NEW k \in Lost, ReceivePacket(l, k)
      PROVE  MetricInv'
  BY <1>4, OnlyLinks DEF ReceivePacket, MetricInv
<1>5. ASSUME NEW l \in Links, HelloLost(l)
      PROVE  MetricInv'
  BY <1>5, OnlyLinks DEF HelloLost, MetricInv
<1>6. ASSUME NEW i \in Ifs, NEW l2 \in Layer2, NEW c \in DatConfigs, DatSampling(i, l2, c)
      PROVE  MetricInv'
  <2>1. PICK in : nhdp_domain_set_incoming_metric("ff_dat_metric", in) /\ UNCHANGED <<neigh, knew, selected>>
    BY <1>6 DEF DatSampling
  <2> QED BY <2>1, IncomingTold
<1>7. CASE UNCHANGED domainVars
  BY <1>7, OnlyLinks DEF domainVars, MetricInv
<1> QED BY <1>1, <1>2, <1>3, <1>4, <1>5, <1>6, <1>7, HelloTold, SymtimeTold, HopExpires, SendsTold DEF DomainNext

(* The best link of a neighbor is the best of its symmetric links as they  *)
(* are and gives it its metric, the listeners of a domain have no outdated *)
(* metric of a neighbor with a link, and the node knows whether somebody   *)
(* selected it, over any HELLOs, lost links and changes of handlers        *)
(* (_recalculate_neighbor_metric, _recalculate_metrics and                 *)
(* nhdp_domain_process_mpr_tlv).                                           *)
THEOREM DomainIsTold == DomainSpec => []DomainTold
<1>1. DomainInit => MetricInv
  BY MetricInitially
<1>2. MetricInv /\ [DomainNext]_domainVars => MetricInv'
  BY MetricPreserved
<1>3. MetricInv => DomainTold
  BY DEF MetricInv, DomainTold, NoOldMetric, Remembers, BestHolds
<1> QED BY <1>1, <1>2, <1>3, PTL DEF DomainSpec

-----------------------------------------------------------------------------
(* the packets that are counted *)

IsBucket(b) ==
  /\ b = [received |-> b.received, total |-> b.total, speed |-> b.speed]
  /\ b.received \in Nat /\ b.total \in Nat

IsDat(d) ==
  /\ d = [contains |-> d.contains, missed |-> d.missed, ptr |-> d.ptr, last |-> d.last, loss |-> d.loss,
          interval |-> d.interval, neighbors |-> d.neighbors, bucket |-> d.bucket]
  /\ d.contains \in BOOLEAN /\ d.ptr \in Slots
  /\ d.bucket = [i \in Slots |-> d.bucket[i]] /\ \A i \in Slots : IsBucket(d.bucket[i])

IsWire(w) == w \in [sent : Nat, mark : Nat] /\ w.mark <= w.sent

(* The link counts all packets of the wire. *)
Counts(d, w) ==
  d.contains =>
    /\ d.last = w.sent % SeqnoModulus
    /\ d.bucket[d.ptr].total = w.sent - w.mark
    /\ d.bucket[d.ptr].received <= d.bucket[d.ptr].total

DatInv ==
  /\ dat = [l \in Links |-> dat[l]] /\ wire = [l \in Links |-> wire[l]]
  /\ \A l \in Links : IsDat(dat[l]) /\ IsWire(wire[l]) /\ Counts(dat[l], wire[l])

(* One link counts on, the others are left alone. *)
LEMMA OneCounts ==
  ASSUME DatInv, NEW l \in Links, NEW d, NEW w, IsDat(d), IsWire(w), Counts(d, w),
         dat' = [dat EXCEPT ![l] = d], wire' = [wire EXCEPT ![l] = w]
  PROVE  DatInv'
<1>1. /\ dat' = [k \in Links |-> IF k = l THEN d ELSE dat[k]]
      /\ wire' = [k \in Links |-> IF k = l THEN w ELSE wire[k]]
  BY DEF DatInv
<1> QED BY <1>1 DEF DatInv

(* Fields of a bucket, and the bucket of a link. *)
LEMMA BucketCounts ==
  ASSUME NEW b, IsBucket(b), NEW r, NEW t
  PROVE  [b EXCEPT !.received = r, !.total = t] = [received |-> r, total |-> t, speed |-> b.speed]
<1> DEFINE e == [b EXCEPT !.received = r]
<1>1. e = [received |-> r, total |-> b.total, speed |-> b.speed]
  BY DEF IsBucket
<1>2. [b EXCEPT !.received = r, !.total = t] = [e EXCEPT !.total = t]
  OBVIOUS
<1> HIDE DEF e
<1>3. [e EXCEPT !.total = t] = [received |-> r, total |-> t, speed |-> b.speed]
  BY <1>1
<1> QED BY <1>2, <1>3

LEMMA BucketSpeed ==
  ASSUME NEW b, IsBucket(b), NEW v
  PROVE  IsBucket([b EXCEPT !.speed = v])
<1>1. [b EXCEPT !.speed = v] = [received |-> b.received, total |-> b.total, speed |-> v]
  BY DEF IsBucket
<1> QED BY <1>1 DEF IsBucket

LEMMA RingUpdate ==
  ASSUME NEW d, IsDat(d), NEW i \in Slots, NEW b
  PROVE  /\ [d EXCEPT !.bucket[i] = b] =
              [contains |-> d.contains, missed |-> d.missed, ptr |-> d.ptr, last |-> d.last, loss |-> d.loss,
               interval |-> d.interval, neighbors |-> d.neighbors, bucket |-> [d.bucket EXCEPT ![i] = b]]
         /\ [d.bucket EXCEPT ![i] = b] = [j \in Slots |-> IF j = i THEN b ELSE d.bucket[j]]
BY DEF IsDat

LEMMA ZeroIsSlot == 0 \in Slots
BY DatAssumption DEF Slots

LEMMA StartsEmpty ==
  ASSUME NEW interval
  PROVE  IsDat(DatLink(interval)) /\ ~DatLink(interval).contains
BY ZeroIsSlot DEF IsDat, IsBucket, DatLink

(* What the division theorem gives for one number. *)
LEMMA SeqnoDivision ==
  ASSUME NEW M \in Nat \ {0}, NEW a \in Nat
  PROVE  a \div M \in Int /\ a % M \in 0 .. M - 1 /\ a = M * (a \div M) + (a % M)
OBVIOUS

(* The remainder is unique. *)
LEMMA SeqnoUnique ==
  ASSUME NEW M \in Nat \ {0}, NEW a \in Int, NEW q \in Int, NEW r \in 0 .. M - 1, a = M * q + r
  PROVE  a % M = r
OBVIOUS

(* The distance of two sequence numbers is the number of packets sent in   *)
(* between, as long as not a whole range of them was lost.                 *)
LEMMA DistanceExact ==
  ASSUME NEW s \in Nat, NEW k \in 1 .. SeqnoModulus - 1
  PROVE  SeqnoDistance((s + k) % SeqnoModulus, s % SeqnoModulus) = k
<1> DEFINE M == SeqnoModulus
           q == s \div M
           r == s % M
<1>1. M \in Nat \ {0}
  BY DatAssumption
<1>2. q \in Int /\ r \in 0 .. M - 1 /\ s = M * q + r
  BY <1>1, SeqnoDivision
<1> HIDE DEF M, q, r
<1>3. CASE r + k < M
  <2>1. s + k = M * q + (r + k) /\ r + k \in 0 .. M - 1 /\ s + k \in Int
    BY <1>1, <1>2, <1>3 DEF M
  <2>2. (s + k) % M = r + k
    BY <1>1, <1>2, <2>1, SeqnoUnique
  <2> QED BY <1>1, <1>2, <2>2 DEF SeqnoDistance, M, r
<1>4. CASE r + k >= M
  <2>1. M * (q + 1) = M * q + M
    BY <1>1, <1>2
  <2>2. s + k = M * (q + 1) + (r + k - M) /\ r + k - M \in 0 .. M - 1 /\ s + k \in Int /\ q + 1 \in Int
    BY <1>1, <1>2, <1>4, <2>1 DEF M
  <2>3. (s + k) % M = r + k - M
    BY <1>1, <2>2, SeqnoUnique
  <2>4. r + k - M < r
    BY <1>1, <1>2 DEF M
  <2> QED BY <1>1, <1>2, <2>3, <2>4 DEF SeqnoDistance, M, r
<1> QED BY <1>1, <1>2, <1>3, <1>4 DEF M

(* A packet arrives: the first one counts for itself, any other one for    *)
(* itself and for the ones lost before it.                                 *)
LEMMA PacketCounts ==
  ASSUME DatInv, NEW l \in Links, NEW lost \in Lost, ReceivePacket(l, lost)
  PROVE  DatInv'
<1> DEFINE d == dat[l]
           w == wire[l]
           sent == w.sent + lost + 1
           seqno == sent % SeqnoModulus
           d1 == _cb_process_packet(d, seqno)
           w1 == [sent |-> sent, mark |-> IF d.contains THEN w.mark ELSE sent - 1]
<1>1. IsDat(d) /\ IsWire(w) /\ Counts(d, w)
  BY DEF DatInv
<1>2. dat' = [dat EXCEPT ![l] = d1] /\ wire' = [wire EXCEPT ![l] = w1]
  BY DEF ReceivePacket, DatInv
<1>3. lost \in Nat /\ lost + 1 \in 1 .. SeqnoModulus - 1 /\ w.sent \in Nat /\ w.mark \in Nat /\ w.mark <= w.sent
  BY <1>1, DomainAssumption, DatAssumption DEF IsWire
<1>4. sent \in Nat /\ sent = w.sent + (lost + 1)
  BY <1>3
<1>5. IsWire(w1)
  BY <1>3, <1>4 DEF IsWire
<1>6. CASE ~d.contains
  <2> DEFINE b == [d.bucket[0] EXCEPT !.received = 1, !.total = 1]
             ring == [d.bucket EXCEPT ![0] = b]
  <2>1. IsBucket(b) /\ b.received = 1 /\ b.total = 1
    <3> DEFINE old == d.bucket[0]
    <3>1. IsBucket(old)
      BY <1>1, ZeroIsSlot DEF IsDat
    <3> HIDE DEF old
    <3>2. b = [received |-> 1, total |-> 1, speed |-> old.speed]
      BY <3>1, BucketCounts DEF old
    <3> QED BY <3>2 DEF IsBucket
  <2>2. ring = [i \in Slots |-> IF i = 0 THEN b ELSE d.bucket[i]]
    <3> HIDE DEF b
    <3> QED BY <1>1 DEF IsDat
  <2>3. d1 = [d EXCEPT !.contains = TRUE, !.ptr = 0, !.last = seqno, !.bucket = ring]
    BY <1>1, <1>6, ZeroIsSlot DEF _cb_process_packet, IsDat
  <2> HIDE DEF b, ring, d1, seqno
  <2>4. d1 = [contains |-> TRUE, missed |-> d.missed, ptr |-> 0, last |-> seqno, loss |-> d.loss,
              interval |-> d.interval, neighbors |-> d.neighbors, bucket |-> ring]
    BY <1>1, <2>3 DEF IsDat
  <2>5. IsDat(d1)
    BY <1>1, <2>1, <2>2, <2>4, ZeroIsSlot DEF IsDat
  <2>6. Counts(d1, w1)
    <3>1. d1.bucket[d1.ptr] = b /\ d1.last = seqno
      BY <2>2, <2>4, ZeroIsSlot
    <3>2. w1.sent = sent /\ w1.mark = sent - 1
      BY <1>6
    <3> QED BY <1>4, <2>1, <3>1, <3>2 DEF Counts, seqno
  <2> HIDE DEF w1
  <2> QED BY <1>2, <1>5, <2>5, <2>6, OneCounts
<1>7. CASE d.contains
  <2> DEFINE old == d.bucket[d.ptr]
             step == SeqnoDistance(seqno, d.last)
             b == [old EXCEPT !.received = old.received + 1, !.total = old.total + step]
             ring == [d.bucket EXCEPT ![d.ptr] = b]
  <2>1. d.ptr \in Slots /\ IsBucket(old)
    BY <1>1 DEF IsDat
  <2>2. step = lost + 1
    <3>1. seqno = (w.sent + (lost + 1)) % SeqnoModulus /\ d.last = w.sent % SeqnoModulus
      BY <1>1, <1>4, <1>7 DEF Counts
    <3> HIDE DEF seqno
    <3>2. SeqnoDistance((w.sent + (lost + 1)) % SeqnoModulus, w.sent % SeqnoModulus) = lost + 1
      BY <1>3, DistanceExact
    <3> QED BY <3>1, <3>2
  <2> HIDE DEF step, old
  <2>3. old.received + 1 \in Nat /\ old.total + step \in Nat
    BY <1>3, <2>1, <2>2 DEF IsBucket
  <2>4. IsBucket(b) /\ b.received = old.received + 1 /\ b.total = old.total + lost + 1
    <3>1. IsBucket(b) /\ b.received = old.received + 1 /\ b.total = old.total + step
      <4>1. b = [received |-> old.received + 1, total |-> old.total + step, speed |-> old.speed]
        BY <2>1, BucketCounts
      <4> HIDE DEF b
      <4> QED BY <2>3, <4>1 DEF IsBucket
    <3> QED BY <1>3, <2>1, <2>2, <3>1 DEF IsBucket
  <2>5. d1 = [d EXCEPT !.bucket = ring, !.last = seqno, !.missed = 0]
    <3>1. d1 = [d EXCEPT !.bucket[d.ptr] = b, !.last = seqno, !.missed = 0]
      BY <1>7 DEF _cb_process_packet, step, old
    <3> HIDE DEF b, seqno, d1
    <3>3. d1 = [[d EXCEPT !.bucket[d.ptr] = b] EXCEPT !.last = seqno, !.missed = 0]
      BY <3>1
    <3>4. [d EXCEPT !.bucket[d.ptr] = b] = [d EXCEPT !.bucket = [d.bucket EXCEPT ![d.ptr] = b]]
      BY <1>1, <2>1 DEF IsDat
    <3>5. d1 = [[d EXCEPT !.bucket = [d.bucket EXCEPT ![d.ptr] = b]] EXCEPT !.last = seqno, !.missed = 0]
      BY <3>3, <3>4
    <3> QED BY <3>5
  <2> HIDE DEF b
  <2>6. ring = [i \in Slots |-> IF i = d.ptr THEN b ELSE d.bucket[i]]
    BY <1>1 DEF IsDat
  <2> HIDE DEF ring, d1, seqno
  <2>7. d1 = [contains |-> TRUE, missed |-> 0, ptr |-> d.ptr, last |-> seqno, loss |-> d.loss,
              interval |-> d.interval, neighbors |-> d.neighbors, bucket |-> ring]
    BY <1>1, <1>7, <2>5 DEF IsDat
  <2>8. IsDat(d1)
    BY <1>1, <2>1, <2>4, <2>6, <2>7 DEF IsDat
  <2>9. Counts(d1, w1)
    <3>1. d1.bucket[d1.ptr] = b /\ d1.last = seqno
      BY <2>1, <2>6, <2>7
    <3>2. w1.sent = sent /\ w1.mark = w.mark
      BY <1>7
    <3>3. old.total = w.sent - w.mark /\ old.received <= old.total /\ old.received \in Nat /\ old.total \in Nat
      BY <1>1, <1>7, <2>1 DEF Counts, IsBucket, old
    <3>4. b.total = sent - w.mark /\ b.received <= b.total
      BY <1>3, <1>4, <2>4, <3>3
    <3> QED BY <3>1, <3>2, <3>4 DEF Counts, seqno
  <2> HIDE DEF w1
  <2> QED BY <1>2, <1>5, <2>8, <2>9, OneCounts
<1> QED BY <1>6, <1>7

(* The next bucket starts with no packet, at what was sent so far. *)
LEMMA SampleCounts ==
  ASSUME NEW d, NEW w, IsDat(d), IsWire(w), Counts(d, w), d.contains, NEW l2, NEW cfg
  PROVE  LET d1 == _cb_dat_sampling(d, l2, cfg).link
             w1 == [w EXCEPT !.mark = w.sent]
         IN  IsDat(d1) /\ IsWire(w1) /\ Counts(d1, w1)
<1> DEFINE measured == [d EXCEPT !.bucket[d.ptr].speed = l2.speed]
           lossrate == _get_lossrate_cost_factor(d, l2,
                         IF cfg.exponent = 0 THEN _calculate_dynamic_loss_exponent(d.neighbors) ELSE cfg.exponent,
                         Received(d), Sum([i \in Slots |-> d.bucket[i].total]))
           mic == _get_mic_cost_factor(d, cfg.mic, l2.crowd)
           next == NextSlot(d.ptr)
           d1 == _cb_dat_sampling(d, l2, cfg).link
           w1 == [w EXCEPT !.mark = w.sent]
<1>1. d1 = [measured EXCEPT !.loss = lossrate.loss, !.neighbors = mic.neighbors, !.ptr = next,
                            !.bucket[next].received = 0, !.bucket[next].total = 0]
  BY DEF _cb_dat_sampling
<1>2. next \in Slots
  <2>1. d.ptr \in Nat /\ SamplingCount \in Nat \ {0}
    BY DatAssumption DEF IsDat, Slots
  <2>2. d.ptr + 1 \in Nat
    BY <2>1
  <2> QED BY <2>1, <2>2, SeqnoDivision DEF NextSlot, Slots
<1> HIDE DEF lossrate, mic, next, d1
<1> DEFINE ring == measured.bucket
           b == [ring[next] EXCEPT !.received = 0]
           c == [b EXCEPT !.total = 0]
           ring1 == [i \in Slots |-> IF i = next THEN c ELSE ring[i]]
<1>3. /\ measured = [contains |-> d.contains, missed |-> d.missed, ptr |-> d.ptr, last |-> d.last, loss |-> d.loss,
                     interval |-> d.interval, neighbors |-> d.neighbors, bucket |-> ring]
      /\ ring = [i \in Slots |-> IF i = d.ptr THEN [d.bucket[i] EXCEPT !.speed = l2.speed] ELSE d.bucket[i]]
  <2> DEFINE fast == [d.bucket[d.ptr] EXCEPT !.speed = l2.speed]
  <2>1. measured = [d EXCEPT !.bucket[d.ptr] = fast]
    BY DEF IsDat
  <2> HIDE DEF measured, fast
  <2>2. /\ measured = [contains |-> d.contains, missed |-> d.missed, ptr |-> d.ptr, last |-> d.last, loss |-> d.loss,
                       interval |-> d.interval, neighbors |-> d.neighbors, bucket |-> [d.bucket EXCEPT ![d.ptr] = fast]]
        /\ [d.bucket EXCEPT ![d.ptr] = fast] = [j \in Slots |-> IF j = d.ptr THEN fast ELSE d.bucket[j]]
    BY <2>1, RingUpdate DEF IsDat
  <2> QED BY <2>2 DEF fast
<1>4. ring = [i \in Slots |-> ring[i]] /\ \A i \in Slots : IsBucket(ring[i])
  <2>1. \A i \in Slots : IsBucket([d.bucket[i] EXCEPT !.speed = l2.speed])
    BY BucketSpeed DEF IsDat
  <2> QED BY <1>3, <2>1 DEF IsDat
<1> HIDE DEF measured, ring
<1>5. IsBucket(c) /\ c.received = 0 /\ c.total = 0
  <2>1. b = [received |-> 0, total |-> ring[next].total, speed |-> ring[next].speed]
    BY <1>2, <1>4 DEF IsBucket
  <2>2. c = [received |-> 0, total |-> 0, speed |-> ring[next].speed]
    <3> HIDE DEF b
    <3> QED BY <2>1
  <2> QED BY <2>2 DEF IsBucket
<1>6. d1 = [contains |-> d.contains, missed |-> d.missed, ptr |-> next, last |-> d.last, loss |-> lossrate.loss,
            interval |-> d.interval, neighbors |-> mic.neighbors, bucket |-> ring1]
  BY <1>1, <1>2, <1>3, <1>4
<1> HIDE DEF c
<1>7. IsDat(d1)
  <2>1. ring1 = [i \in Slots |-> ring1[i]] /\ \A i \in Slots : IsBucket(ring1[i])
    BY <1>4, <1>5
  <2> HIDE DEF ring1
  <2> QED BY <1>2, <1>6, <2>1 DEF IsDat
<1>8. w1 = [sent |-> w.sent, mark |-> w.sent] /\ w.sent \in Nat
  BY DEF IsWire
<1>9. IsWire(w1)
  BY <1>8 DEF IsWire
<1>10. Counts(d1, w1)
  <2>1. d1.bucket[d1.ptr] = c /\ d1.last = d.last
    BY <1>2, <1>6
  <2> HIDE DEF ring1, w1
  <2> QED BY <1>5, <1>8, <2>1 DEF Counts
<1> QED BY <1>7, <1>9, <1>10 DEF d1

LEMMA SamplingCounts ==
  ASSUME DatInv, NEW i \in Ifs, NEW l2 \in Layer2, NEW cfg \in DatConfigs, DatSampling(i, l2, cfg)
  PROVE  DatInv'
<1> DEFINE on == {l \in Links : LinkIf[l] = i /\ dat[l].contains}
<1>1. /\ dat' = [l \in Links |-> IF l \in on THEN _cb_dat_sampling(dat[l], l2, cfg).link ELSE dat[l]]
      /\ wire' = [l \in Links |-> IF l \in on THEN [wire[l] EXCEPT !.mark = wire[l].sent] ELSE wire[l]]
  BY DEF DatSampling
<1>2. ASSUME NEW l \in Links
      PROVE  IsDat(dat'[l]) /\ IsWire(wire'[l]) /\ Counts(dat'[l], wire'[l])
  <2>1. IsDat(dat[l]) /\ IsWire(wire[l]) /\ Counts(dat[l], wire[l])
    BY DEF DatInv
  <2>2. CASE l \in on
    <3>1. dat'[l] = _cb_dat_sampling(dat[l], l2, cfg).link /\ wire'[l] = [wire[l] EXCEPT !.mark = wire[l].sent]
      BY <1>1, <2>2
    <3> QED BY <2>1, <2>2, <3>1, SampleCounts
  <2>3. CASE l \notin on
    BY <1>1, <2>1, <2>3
  <2> QED BY <2>2, <2>3
<1>3. dat' = [l \in Links |-> dat'[l]] /\ wire' = [l \in Links |-> wire'[l]]
  <2> HIDE DEF on
  <2> QED BY <1>1
<1> QED BY <1>2, <1>3 DEF DatInv

(* What leaves the counters alone. *)
LEMMA MissedCounts ==
  ASSUME NEW d, NEW w, IsDat(d), Counts(d, w), NEW interval, NEW missed
  PROVE  /\ IsDat([d EXCEPT !.interval = interval, !.missed = missed])
         /\ Counts([d EXCEPT !.interval = interval, !.missed = missed], w)
<1> DEFINE d1 == [d EXCEPT !.interval = interval, !.missed = missed]
<1>1. d1 = [contains |-> d.contains, missed |-> missed, ptr |-> d.ptr, last |-> d.last, loss |-> d.loss,
            interval |-> interval, neighbors |-> d.neighbors, bucket |-> d.bucket]
  <2> DEFINE e == [d EXCEPT !.interval = interval]
  <2>1. e = [contains |-> d.contains, missed |-> d.missed, ptr |-> d.ptr, last |-> d.last, loss |-> d.loss,
             interval |-> interval, neighbors |-> d.neighbors, bucket |-> d.bucket]
    BY DEF IsDat
  <2>2. d1 = [e EXCEPT !.missed = missed]
    OBVIOUS
  <2> HIDE DEF d1, e
  <2> QED BY <2>1, <2>2
<1> HIDE DEF d1
<1>2. IsDat(d1)
  BY <1>1 DEF IsDat
<1>3. Counts(d1, w)
  BY <1>1 DEF Counts
<1> QED BY <1>2, <1>3 DEF d1

LEMMA LinkMisses ==
  ASSUME DatInv, NEW l \in Links, NEW missed, UNCHANGED wire,
         dat' = [dat EXCEPT ![l] = [dat[l] EXCEPT !.interval = dat[l].interval, !.missed = missed]]
  PROVE  DatInv'
<1> DEFINE d1 == [dat[l] EXCEPT !.interval = dat[l].interval, !.missed = missed]
<1>1. IsDat(dat[l]) /\ IsWire(wire[l]) /\ Counts(dat[l], wire[l]) /\ wire' = [wire EXCEPT ![l] = wire[l]]
  BY DEF DatInv
<1>2. IsDat(d1) /\ Counts(d1, wire[l])
  BY <1>1, MissedCounts
<1> HIDE DEF d1
<1>3. dat' = [dat EXCEPT ![l] = d1]
  BY DEF d1
<1> QED BY <1>1, <1>2, <1>3, OneCounts

LEMMA DatPreserved ==
  ASSUME DatInv, [DomainNext]_domainVars
  PROVE  DatInv'
<1>1. CASE UNCHANGED <<dat, wire>>
  BY <1>1 DEF DatInv
<1>2. ASSUME NEW l \in Links, NEW h \in Hellos, _cb_msg_pass2_end(l, h)
      PROVE  DatInv'
  <2>1. dat' = [dat EXCEPT ![l] = DatLinkChanged(dat[l], dat[l].interval)] /\ UNCHANGED wire
    BY <1>2 DEF _cb_msg_pass2_end, DatInv
  <2> QED BY <2>1, LinkMisses DEF DatLinkChanged
<1>3. ASSUME NEW l \in Links, _cb_link_symtime(l)
      PROVE  DatInv'
  <2>1. dat' = [dat EXCEPT ![l] = DatLinkChanged(dat[l], dat[l].interval)] /\ UNCHANGED wire
    BY <1>3 DEF _cb_link_symtime, DatInv
  <2> QED BY <2>1, LinkMisses DEF DatLinkChanged
<1>4. ASSUME NEW l \in Links, NEW t \in TwohopAddrs, _cb_l2hop_vtime(l, t)
      PROVE  UNCHANGED <<dat, wire>>
  BY <1>4 DEF _cb_l2hop_vtime, plugins
<1>5. CASE nhdp_writer_send_hello
  <2>1. UNCHANGED <<dat, wire>>
    BY <1>5 DEF nhdp_writer_send_hello, plugins
  <2> QED BY <1>1, <2>1
<1>6. ASSUME NEW d \in Handlers, nhdp_domain_configure(d.metric, d.mpr, d.flooding)
      PROVE  DatInv'
  <2>1. UNCHANGED wire /\ (dat' = dat \/ dat' = [l \in Links |-> DatLink(dat[l].interval)])
    BY <1>6 DEF nhdp_domain_configure, _cb_enable_metric
  <2>2. \A l \in Links : IsDat(DatLink(dat[l].interval)) /\ ~DatLink(dat[l].interval).contains
    BY StartsEmpty
  <2> QED BY <2>1, <2>2 DEF DatInv, Counts
<1>7. ASSUME NEW s \in Ifs \cup {ANY}, NEW e \in CostTables, _cb_cfg_changed(s, e)
      PROVE  UNCHANGED <<dat, wire>>
  BY <1>7 DEF _cb_cfg_changed
<1>8. CASE _cb_set_linkcost
  BY <1>1, <1>8 DEF _cb_set_linkcost
<1>9. ASSUME NEW l \in Links, HelloLost(l)
      PROVE  DatInv'
  <2>1. IsDat(dat[l])
    BY DEF DatInv
  <2>2. dat' = [dat EXCEPT ![l] = [dat[l] EXCEPT !.interval = dat[l].interval, !.missed = dat[l].missed + 1]]
        /\ UNCHANGED wire
    BY <1>9, <2>1 DEF HelloLost, _cb_hello_lost, DatInv, IsDat
  <2> QED BY <2>2, LinkMisses
<1>10. CASE UNCHANGED domainVars
  BY <1>1, <1>10 DEF domainVars
<1> QED BY <1>1, <1>2, <1>3, <1>4, <1>5, <1>6, <1>7, <1>8, <1>9, <1>10, PacketCounts, SamplingCounts DEF DomainNext

(* The active bucket of a link holds as many packets as its neighbor sent  *)
(* since the bucket became active, over losses and the wrap of the         *)
(* sequence number (_cb_process_packet of ff_dat_metric.c).                *)
THEOREM PacketsAreCounted == DomainSpec => []DatCounts
<1>1. DomainInit => DatInv
  BY StartsEmpty DEF DomainInit, DatInv, Counts, IsWire
<1>2. DatInv /\ [DomainNext]_domainVars => DatInv'
  BY DatPreserved
<1>3. DatInv => DatCounts
  BY DEF DatInv, DatCounts, Counts
<1> QED BY <1>1, <1>2, <1>3, PTL DEF DomainSpec
=============================================================================
