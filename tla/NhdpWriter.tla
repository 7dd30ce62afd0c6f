----------------------------- MODULE NhdpWriter -----------------------------
(***************************************************************************)
(* The content of a HELLO (nhdp_writer.c, the encoders of nhdp_domain.c)   *)
(* and what its reader (nhdp_reader.c, the decoders of nhdp_domain.c)      *)
(* takes from it: the originators, the willingness in each domain, and one *)
(* address of a neighbor with its link, its relay bits and its metrics.    *)
(* The address may be the reader's own.                                    *)
(***************************************************************************)
EXTENDS Integers, Sequences, FiniteSets, FiniteSetsExt

CONSTANTS
  MaxDomains,    \* NHDP_MAXIMUM_DOMAINS
  Wills,         \* values of willingness, 4 bits
  HelloEntries,  \* what the database of the sender may say of the address, by its owner
  HelloWills     \* willingness of the sender, by the owner: [flooding, routing]

V == INSTANCE Rfc5444Values

(* A naddr with the link of its laddr on the interface of the HELLO: lost, *)
(* the status of the link or "none", whether the neighbor is symmetric,    *)
(* the metrics l_in, l_out, n_in, n_out, and where it is a relay of ours   *)
(* (0 is flooding, else a domain) *)
HelloDbEntries ==
  [lost : BOOLEAN, status : {"none", "pending", "lost", "heard", "symmetric"}, sym : BOOLEAN,
   metrics : Seq(Nat), mpr : SUBSET (0 .. MaxDomains)]

ASSUME HelloAssumption ==
  \A e \in UNION {HelloEntries[x] : x \in DOMAIN HelloEntries} :
    e \in HelloDbEntries /\ Len(e.metrics) = 4 /\ (e.status = "symmetric" => e.sym)

VARIABLES
  domains,   \* number of domains of the sender and of the reader
  will,      \* local_willingness of every domain of the sender, 0 is flooding
  origs,     \* _originator_v4 and _originator_v6: set or not
  entry,     \* the address in the database of the sender
  owner,     \* for the reader: "interface", "elsewhere" or "foreign"
  got,       \* what the reader has
  fresh      \* history variable: the reader has read a HELLO since the last change

helloVars == <<domains, will, origs, entry, owner, got, fresh>>

NoHop == [known |-> FALSE, same |-> FALSE, in |-> 0, out |-> 0]
NoHello == [orig |-> FALSE, orig4 |-> FALSE, will |-> <<>>, heard |-> FALSE, lost |-> FALSE,
            link_out |-> 0, neigh_out |-> 0, mpr |-> {}, hop |-> NoHop]

HelloInit ==
  /\ domains \in [sender : 1 .. MaxDomains, reader : 1 .. MaxDomains]
  /\ will = [d \in 0 .. MaxDomains |-> 0] /\ origs = [v4 |-> FALSE, v6 |-> FALSE]
  /\ owner \in {"interface", "elsewhere", "foreign"}
  /\ entry = (CHOOSE e \in HelloEntries[owner] : TRUE)
  /\ got = NoHello /\ fresh = FALSE

-----------------------------------------------------------------------------
(* Message TLVs.  A byte of willingness is <<low, high>>.                  *)

(* Flooding comes first, then the domains. *)
nhdp_domain_encode_willingness_tlvvalue(n) ==
  [b \in 1 .. (n \div 2) + 1 |->
     << IF 2 * b - 2 <= n THEN will[2 * b - 2] ELSE 0, IF 2 * b - 1 <= n THEN will[2 * b - 1] ELSE 0 >>]

(* The reader takes its own domains for those of the sender, or its first  *)
(* one if the HELLO does not list any. *)
nhdp_domain_process_mprtypes_tlv(present) == IF present THEN 1 .. domains.reader ELSE {1}

nhdp_domain_process_willingness_tlv(value, types) ==
  [d \in 0 .. domains.reader |->
     IF d = 0 THEN value[1][1]
     ELSE IF d \in types /\ d \div 2 < Len(value) THEN value[d \div 2 + 1][(d % 2) + 1] ELSE 0]

(* Does the message have an originator, and the TLV with the v4 one?  *)
_cb_addMessageHeader(af) == origs[af]
_cb_addMessageTLVs(af) == af = "v6" /\ origs.v4

-----------------------------------------------------------------------------
(* The address.                                                            *)

LinkStatus ==
  IF ~entry.lost /\ entry.status \notin {"none", "pending"} THEN entry.status ELSE "absent"

(* Error: a link that is not symmetric any more hides the other links of   *)
(* the neighbor. *)
OtherUnlessLink == ~entry.lost /\ entry.sym /\ LinkStatus = "absent"

OtherNeighSym == ~entry.lost /\ entry.sym /\ LinkStatus # "symmetric"

(* A bit for flooding, then one per domain. *)
nhdp_domain_encode_mpr_tlvvalue(n) == {b \in entry.mpr : b <= n}

(* The four metrics, 0 if they are not written. *)
WrittenMetrics ==
  LET link == LinkStatus \in {"heard", "symmetric"}
      neigh == entry.sym /\ (LinkStatus = "symmetric" \/ OtherNeighSym)
  IN  [i \in 1 .. 4 |-> IF (i <= 2 /\ link) \/ (i > 2 /\ neigh) THEN entry.metrics[i] ELSE 0]

_add_link_address(n) ==
  [status |-> LinkStatus, other |-> OtherNeighSym,
   mpr |-> IF entry.status = "none" THEN {} ELSE nhdp_domain_encode_mpr_tlvvalue(n),
   metric |-> V!_write_metric_tlv(WrittenMetrics)]

-----------------------------------------------------------------------------
(* The reader.                                                             *)

nhdp_domain_process_mpr_tlv(bits, types) == {b \in bits : b = 0 \/ b \in types}

_process_domainspecific_linkdata(told, a, types) ==
  LET metric == V!nhdp_domain_process_metric_linktlv(a.metric)
  IN  [told EXCEPT !.link_out = metric.link_out, !.neigh_out = metric.neigh_out,
                   !.mpr = nhdp_domain_process_mpr_tlv(a.mpr, types)]

_process_domainspecific_2hopdata(a) ==
  LET metric == V!nhdp_domain_process_metric_2hoptlv(a.metric)
  IN  [known |-> TRUE, same |-> a.status = "symmetric", in |-> metric.in, out |-> metric.out]

_cb_addr_pass2_block(told, a, types) ==
  CASE owner = "interface" ->
         [_process_domainspecific_linkdata(told, a, types) EXCEPT
            !.heard = a.status \in {"heard", "symmetric"}, !.lost = a.status = "lost"]
    [] owner = "elsewhere" -> told
    [] OTHER -> [told EXCEPT !.hop = IF a.status = "symmetric" \/ a.other
                                     THEN _process_domainspecific_2hopdata(a) ELSE NoHop]

ReadMessage(af, types) ==
  [got EXCEPT !.orig = _cb_addMessageHeader(af), !.orig4 = _cb_addMessageTLVs(af),
              !.will = nhdp_domain_process_willingness_tlv(nhdp_domain_encode_willingness_tlvvalue(domains.sender), types)]

(* A HELLO is written, sent and read.  The domains are listed if there are *)
(* several. *)
HelloExchanged(af) ==
  /\ \E types \in {nhdp_domain_process_mprtypes_tlv(domains.sender > 1)} :
       got' = _cb_addr_pass2_block(ReadMessage(af, types), _add_link_address(domains.sender), types)
  /\ fresh' = TRUE
  /\ UNCHANGED <<domains, will, origs, entry, owner>>

-----------------------------------------------------------------------------
(* What changes at the sender.                                             *)

EntryChanges(e) ==
  /\ entry' = e /\ fresh' = FALSE
  /\ UNCHANGED <<domains, will, origs, owner, got>>

(* One of the domains, or flooding, is configured. *)
WillingnessChanges(w) ==
  /\ will' = [d \in 0 .. MaxDomains |-> IF d = 0 THEN w.flooding ELSE w.routing[d]] /\ fresh' = FALSE
  /\ UNCHANGED <<domains, origs, entry, owner, got>>

nhdp_set_originator(af) ==
  /\ ~origs[af] /\ origs' = [origs EXCEPT ![af] = TRUE] /\ fresh' = FALSE
  /\ UNCHANGED <<domains, will, entry, owner, got>>
nhdp_reset_originator(af) ==
  /\ origs[af] /\ origs' = [origs EXCEPT ![af] = FALSE] /\ fresh' = FALSE
  /\ UNCHANGED <<domains, will, entry, owner, got>>

HelloNext ==
  \/ \E af \in {"v4", "v6"} : HelloExchanged(af)
  \/ \E e \in HelloEntries[owner] : EntryChanges(e)
  \/ \E w \in HelloWills[owner] : WillingnessChanges(w)
  \/ \E af \in {"v4", "v6"} : owner = "elsewhere" /\ nhdp_set_originator(af)
  \/ \E af \in {"v4", "v6"} : owner = "elsewhere" /\ nhdp_reset_originator(af)

-----------------------------------------------------------------------------
(* A metric after it went through a TLV. *)
Coded(metric) ==
  IF metric \in 1 .. V!METRIC_MAX THEN V!rfc7181_metric_decode(V!rfc7181_metric_encode(metric))
  ELSE V!METRIC_INFINITE

(* After a HELLO its reader has what the database of the sender says,      *)
(* whatever it had before (_add_link_address, _cb_addr_pass2_block): the   *)
(* address is a 2-hop neighbor exactly if it is not lost and its neighbor  *)
(* is symmetric over any link, with both metrics of the neighbor; for its  *)
(* own address it knows whether it is heard and in which common domains it *)
(* is a relay, and it has the sender's incoming metrics as its outgoing    *)
(* ones; in every common domain it has the willingness of the sender, in   *)
(* any other one "never". *)
HelloExact ==
  fresh =>
    LET common == 1 .. Min({domains.sender, domains.reader})
        linked == ~entry.lost /\ entry.status \in {"heard", "symmetric"}
        reached == ~entry.lost /\ entry.sym
    IN  /\ \A d \in 0 .. domains.reader : got.will[d] = IF d \in common \cup {0} THEN will[d] ELSE 0
        /\ owner = "foreign" =>
             /\ got.hop.known <=> reached
             /\ reached => /\ got.hop.same = (entry.status = "symmetric")
                           /\ got.hop.in = Coded(entry.metrics[3]) /\ got.hop.out = Coded(entry.metrics[4])
        /\ owner = "interface" =>
             /\ got.heard = linked /\ got.lost = (~entry.lost /\ entry.status = "lost")
             /\ got.link_out = IF linked THEN Coded(entry.metrics[1]) ELSE V!METRIC_INFINITE
             /\ got.neigh_out = IF reached THEN Coded(entry.metrics[3]) ELSE V!METRIC_INFINITE
             /\ got.mpr = IF entry.status = "none" THEN {} ELSE entry.mpr \cap (common \cup {0})
=============================================================================
