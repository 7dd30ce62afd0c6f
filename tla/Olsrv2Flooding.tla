--------------------------- MODULE Olsrv2Flooding ---------------------------
(***************************************************************************)
(* How a TC reaches every router: the decision to process and to forward a *)
(* message (olsrv2_mpr_shall_process and olsrv2_mpr_shall_forwarding in    *)
(* olsrv2.c, called by olsrv2_reader.c) at every router of a network.      *)
(*                                                                         *)
(* The first copy decides: it is written into the forwarded set before the *)
(* router looks whether its sender chose it as a flooding MPR, so a router *)
(* that hears a message first from somebody else never forwards it.  What  *)
(* is forwarded waits for the aggregation timer, at every router for       *)
(* another time.  The routers share one channel: all neighbors hear a      *)
(* transmission at once, so a router reads copies in the order in which    *)
(* they were sent, but not soon.                                           *)
(***************************************************************************)
EXTENDS Naturals, Sequences

CONSTANTS
  Routers,
  Networks    \* sets of links, each a set of two routers

(* Every network is connected: some link leads out of every part of it. *)
ASSUME NetworkAssumption ==
  \A net \in Networks : \A side \in SUBSET Routers :
    side # {} /\ side # Routers => \E a \in side, b \in Routers \ side : {a, b} \in net

VARIABLES
  links,      \* the network, symmetric links only
  mprs,       \* the flooding MPRs of every router that has transmitted
  source,     \* the router whose TC is flooded
  pending,    \* routers with the TC in the buffer of their multicast target
  air,        \* copies a router has not read yet, as their senders
  processed,  \* routers with the TC in their processed_set
  forwarded,  \* routers with the TC in their forwarded_set
  sent,       \* how often each router transmitted it
  lossy       \* a copy was lost

floodVars == <<links, mprs, source, pending, air, processed, forwarded, sent, lossy>>

Hears(r, net) == {n \in Routers : {r, n} \in net /\ n # r}
TwoHops(r, net) == {z \in Routers : \E y \in Hears(r, net) : z \in Hears(y, net)} \ (Hears(r, net) \cup {r})

(* What the MPR selection guarantees: every 2-hop neighbor is covered. *)
Covers(r, net) ==
  {m \in SUBSET Hears(r, net) : \A z \in TwoHops(r, net) : \E y \in m : z \in Hears(y, net)}

(* nhdp's _forwarding_selector: the interface has a symmetric neighbor *)
_forwarding_selector(r) == Hears(r, links) # {}

(* The message goes into the buffer and starts the aggregation timer. *)
rfc5444_writer_forward_msg(r) == IF _forwarding_selector(r) THEN pending \cup {r} ELSE pending

FloodInit ==
  /\ links \in Networks
  /\ mprs = [r \in Routers |-> {}]
  /\ source \in Routers
  /\ pending = IF _forwarding_selector(source) THEN {source} ELSE {}
  /\ air = [r \in Routers |-> <<>>]
  /\ processed = {} /\ forwarded = {} /\ lossy = FALSE
  /\ sent = [r \in Routers |-> 0]

-----------------------------------------------------------------------------

(* The aggregation timer fires: the packet is sent and every neighbor      *)
(* hears it.  Any cover of the 2-hop neighbors may be the MPRs that the    *)
(* sender has told its neighbors; nobody asks for them before this. *)
_cb_aggregation_event(r) ==
  /\ r \in pending
  /\ pending' = pending \ {r}
  /\ \E m \in Covers(r, links) : mprs' = [mprs EXCEPT ![r] = m]
  /\ air' = [n \in Routers |-> IF n \in Hears(r, links) THEN Append(air[n], r) ELSE air[n]]
  /\ sent' = [sent EXCEPT ![r] = @ + 1]
  /\ UNCHANGED <<links, source, processed, forwarded, lossy>>

(* The message is new to the forwarded set, comes from a symmetric         *)
(* neighbor and that neighbor chose the router. *)
olsrv2_mpr_shall_forwarding(from, to) ==
  /\ to \notin forwarded
  /\ to \in mprs[from] /\ from \in Hears(to, links)

olsrv2_mpr_shall_process(to) == to \notin processed

(* Error: only a message that is not forwarded is remembered. *)
RememberRefused(from, to) ==
  IF olsrv2_mpr_shall_forwarding(from, to) THEN forwarded ELSE forwarded \cup {to}

RememberSeen(from, to) == forwarded \cup {to}

(* A copy is read.  A router drops its own message; any other one is       *)
(* written into both sets, whatever is decided. *)
TcReceived(from, to) ==
  /\ air[to] # <<>> /\ Head(air[to]) = from
  /\ air' = [air EXCEPT ![to] = Tail(@)]
  /\ IF to = source
     THEN UNCHANGED <<processed, forwarded, pending>>
     ELSE /\ forwarded' = RememberSeen(from, to)
          /\ processed' = IF olsrv2_mpr_shall_process(to) THEN processed \cup {to} ELSE processed
          /\ pending' = IF olsrv2_mpr_shall_forwarding(from, to) THEN rfc5444_writer_forward_msg(to) ELSE pending
  /\ UNCHANGED <<links, mprs, source, sent, lossy>>

TcLost(to) ==
  /\ air[to] # <<>>
  /\ ~lossy
  /\ lossy' = TRUE
  /\ air' = [air EXCEPT ![to] = Tail(@)]
  /\ UNCHANGED <<links, mprs, source, pending, processed, forwarded, sent>>

FloodNext ==
  \/ \E r \in Routers : _cb_aggregation_event(r)
  \/ \E from, to \in Routers : TcReceived(from, to)
  \/ \E to \in Routers : TcLost(to)

FloodSpec == FloodInit /\ [][FloodNext]_floodVars

-----------------------------------------------------------------------------
Silence == pending = {} /\ \A r \in Routers : air[r] = <<>>

(* Unless copies are lost, the TC reaches every router of a connected      *)
(* network, although a router whose first copy comes from a neighbor that  *)
(* did not choose it stays silent (olsrv2_mpr_shall_forwarding); and no    *)
(* router transmits it twice, so the flood ends. *)
FloodReachesAll ==
  /\ Silence /\ ~lossy => processed \cup {source} = Routers
  /\ \A r \in Routers : sent[r] <= 1
=============================================================================
