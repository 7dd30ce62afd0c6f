-------------------------------- MODULE Nhdp --------------------------------
(***************************************************************************)
(* NHDP at one node: the callbacks that read a HELLO                       *)
(* (src/src/nhdp/nhdp/nhdp_reader.c), the timers of links, addresses and   *)
(* two-hop addresses (nhdp_db.c) and the loss of all addresses of an       *)
(* interface (nhdp_interfaces.c), on the database of module NhdpDb.        *)
(*                                                                         *)
(* The daemon is single threaded: while a HELLO is read only the reader    *)
(* runs.  The RFC5444 parser calls the callbacks in the order              *)
(*   _cb_messagetlvs, _cb_addresstlvs_pass1 for every address,             *)
(*   _cb_addresstlvs_pass1_end, _cb_addr_pass2_block for every address,    *)
(*   _cb_msg_pass2_end,                                                    *)
(* each of which is an action.  The session cur (the static _current) is   *)
(* not cleared at the end of a message.  A callback that would use a freed *)
(* object sets undef: what the program does then is not defined, and the   *)
(* model stops.  Timers may fire in any order.                             *)
(***************************************************************************)
EXTENDS NhdpDb, Sequences

CONSTANTS
    Af,          \* [Addrs -> {4, 6}], address families
    Hellos,      \* the HELLO messages that may arrive
    HystValues,  \* the verdicts a hysteresis plugin may give
    CountBound   \* bound on |symmetric|, for TLC

LocalIfTlv == {"this", "other", "none"}
LinkStatusTlv == {"none", "lost", "heard", "sym"}
OtherNeighbTlv == {"none", "lost", "sym"}

(* One address of a HELLO; bad tells in which pass its TLVs fail the       *)
(* constraints of the consumer.                                            *)
AddressEntries ==
    [addr : Addrs, lif : LocalIfTlv, ls : LinkStatusTlv, on : OtherNeighbTlv,
     bad : {"no", "pass1", "pass2"}]

(* bad = "tlv": the message TLVs fail their constraints (no validity time);*)
(* bad = "if": address family or interface is not in use.                  *)
Messages ==
    [localif : Ifs, src : Addrs, af : {4, 6}, orig : Addrs \cup {NoAddr},
     v4 : Addrs \cup {NoAddr}, bad : {"no", "tlv", "if"}, addrs : Seq(AddressEntries)]

ASSUME NhdpAssumption ==
    /\ Af \in [Addrs -> {4, 6}]
    /\ Hellos \subseteq Messages
    /\ HystValues \subseteq Hysteresis
    /\ CountBound \in Nat

VARIABLES
    db,     \* the database
    cur,    \* the session data _current
    pc,     \* which callback runs next
    msg,    \* the HELLO that is being read
    idx,    \* the next address of it
    undef   \* a freed object was used

vars == <<db, cur, pc, msg, idx, undef>>

Sessions ==
    [ neigh : Neighs \cup {NoNeigh}, link : Links \cup {NoLink},
      naddr_conflict : BOOLEAN, laddr_conflict : BOOLEAN,
      link_heard : BOOLEAN, link_lost : BOOLEAN,
      has_thisif : BOOLEAN, originator_in_addrblk : BOOLEAN,
      countN : [Neighs -> Int], countL : [Links -> Int], mayGo : SUBSET Addrs ]

NoMessage == [bad |-> "none"]

EmptySession ==
    [ neigh |-> NoNeigh, link |-> NoLink,
      naddr_conflict |-> FALSE, laddr_conflict |-> FALSE,
      link_heard |-> FALSE, link_lost |-> FALSE,
      has_thisif |-> FALSE, originator_in_addrblk |-> FALSE,
      countN |-> [n \in Neighs |-> 0], countL |-> [l \in Links |-> 0], mayGo |-> {} ]

Init ==
    /\ db = EmptyDb
    /\ cur = EmptySession
    /\ pc = "idle" /\ msg = NoMessage /\ idx = 0
    /\ undef = FALSE

Running == ~undef
Idle == Running /\ pc = "idle"

SessionAlive(d, c) == c.neigh \in d.neighs /\ c.link \in d.links

(* The message is done.  Of the session only the two pointers can be read  *)
(* before the next message clears it.                                      *)
EndMessage(c) ==
    /\ pc' = "idle" /\ msg' = NoMessage /\ idx' = 0
    /\ cur' = [EmptySession EXCEPT !.neigh = c.neigh, !.link = c.link]

UseOfFreedObject ==
    /\ undef' = TRUE
    /\ UNCHANGED <<db, cur, pc, msg, idx>>

-----------------------------------------------------------------------------

(* _cleanup_error *)
_cleanup_error(d, c) ==
    LET d1 == IF c.link = NoLink THEN d ELSE nhdp_db_link_remove(d, {c.link})
    IN  IF c.neigh = NoNeigh THEN d1 ELSE nhdp_db_neighbor_remove(d1, c.neigh)

CleanupDefined(d, c) ==
    c.link \in d.links \cup {NoLink} /\ c.neigh \in d.neighs \cup {NoNeigh}

(* The end callback of the parser with dropped = true *)
DropMessage ==
    IF CleanupDefined(db, cur)
    THEN /\ db' = _cleanup_error(db, cur)
         /\ EndMessage(EmptySession)
         /\ UNCHANGED undef
    ELSE UseOfFreedObject

(* A HELLO whose message TLVs fail the constraints: _cb_messagetlvs is not *)
(* called, the end callback runs on the session of the previous message.   *)
HelloFailsConstraints(m) ==
    /\ Idle /\ m.bad = "tlv"
    /\ DropMessage

(* A HELLO for an interface or address family that is not in use: the      *)
(* session is cleared, then the message is dropped.                        *)
HelloIgnored(m) ==
    /\ Idle /\ m.bad = "if"
    /\ EndMessage(EmptySession)
    /\ UNCHANGED <<db, undef>>

_cb_messagetlvs(m) ==
    /\ Idle /\ m.bad = "no"
    /\ \A n \in db.neighs : db.symmetric[n] < CountBound
    /\ cur' = EmptySession
    /\ msg' = m /\ idx' = 1 /\ pc' = "pass1"
    /\ UNCHANGED <<db, undef>>

-----------------------------------------------------------------------------
(* _cb_addresstlvs_pass1: which neighbor and link the addresses belong to  *)
Pass1Session(d, c, e) ==
    LET n == d.naddr[e.addr]
        l == d.laddr[msg.localif][e.addr]
        hitN == e.lif # "none" /\ n # NoNeigh
        hitL == e.lif = "this" /\ l # NoLink
        own == e.ls # "none" /\ e.addr \in OwnAddrs[msg.localif]
        clashN == hitN /\ ~c.naddr_conflict /\ c.neigh \notin {NoNeigh, n}
        clashL == hitL /\ ~c.laddr_conflict /\ c.link \notin {NoLink, l}
    IN  [ neigh |-> IF clashN THEN NoNeigh
                    ELSE IF hitN /\ ~c.naddr_conflict THEN n ELSE c.neigh,
          link |-> IF clashL THEN NoLink
                   ELSE IF hitL /\ ~c.laddr_conflict THEN l ELSE c.link,
          naddr_conflict |-> c.naddr_conflict \/ clashN,
          laddr_conflict |-> c.laddr_conflict \/ clashL,
          link_heard |-> c.link_heard \/ (own /\ e.ls # "lost"),
          link_lost |-> c.link_lost \/ (own /\ e.ls = "lost"),
          has_thisif |-> c.has_thisif \/ e.lif = "this",
          originator_in_addrblk |-> c.originator_in_addrblk \/ e.addr = msg.orig,
          countN |-> IF hitN THEN [c.countN EXCEPT ![n] = @ + 1] ELSE c.countN,
          countL |-> IF hitL THEN [c.countL EXCEPT ![l] = @ + 1] ELSE c.countL,
          mayGo |-> c.mayGo ]

_cb_addresstlvs_pass1 ==
    /\ Running /\ pc = "pass1" /\ idx <= Len(msg.addrs)
    /\ msg.addrs[idx].bad # "pass1"
    /\ cur' = Pass1Session(db, cur, msg.addrs[idx])
    /\ idx' = idx + 1
    /\ UNCHANGED <<db, pc, msg, undef>>

AddressFailsConstraintsPass1 ==
    /\ Running /\ pc = "pass1" /\ idx <= Len(msg.addrs)
    /\ msg.addrs[idx].bad = "pass1"
    /\ DropMessage

-----------------------------------------------------------------------------

(* _pass2_process_localif: the LOCAL_IF = THIS_IF part ...  A result of    *)
(* this and the next operator is a pair of database and session.           *)
ProcessLinkAddr(d, c, a) ==
    LET i == msg.localif
        l == d.laddr[i][a]
        c1 == [c EXCEPT !.countL[l] = @ - 1, !.mayGo = @ \ {a}]
        d1 == SetLinkAddr(d, i, a, c.link)
    IN  IF l = NoLink THEN <<d1, c>>
        ELSE IF l = c.link THEN <<d, c1>>
        ELSE IF c1.countL[l] = 0 THEN <<nhdp_db_link_remove(d1, {l}), c1>>
        ELSE <<d1, c1>>

(* ... and the neighbor address part *)
ProcessNeighborAddr(d, c, a) ==
    LET n == d.naddr[a]
        c1 == [c EXCEPT !.countN[n] = @ - 1]
        d1 == SetNeighborAddr(d, a, c.neigh)
        d2 == IF n # c.neigh /\ c1.countN[n] = 0
              THEN nhdp_db_neighbor_remove(d1, n) ELSE d1
    IN  IF n = NoNeigh THEN <<d1, c>>
        ELSE <<[d2 EXCEPT !.mayGo = @ \ {a}, !.lost = @ \ {a}], c1>>

_pass2_process_localif(d, c, a, lif) ==
    LET r == IF lif = "this" THEN ProcessLinkAddr(d, c, a) ELSE <<d, c>>
    IN  ProcessNeighborAddr(r[1], r[2], a)

-----------------------------------------------------------------------------
(* _handle_originator: the neighbor known by the originator is taken, or   *)
(* loses its originator when the addresses say otherwise.                  *)
OriginatorNeighbor(d, c) ==
    IF c.originator_in_addrblk THEN NoNeigh ELSE NeighborByOriginator(d, msg.orig)

(* Mutant: the originator alone never selects a neighbor.                  *)
NeverTakesOriginatorNeighbor(d, c) == FALSE

TakesOriginatorNeighbor(d, c) ==
    OriginatorNeighbor(d, c) # NoNeigh /\ c.neigh = NoNeigh /\ ~c.naddr_conflict

_handle_originator(d, c) ==
    LET n == OriginatorNeighbor(d, c)
    IN  IF n = NoNeigh \/ n = c.neigh \/ TakesOriginatorNeighbor(d, c)
             \/ c.countN[n] > 0
        THEN d
        ELSE nhdp_db_neighbor_set_originator(d, n, NoAddr)

(* Mark the addresses that may be gone. *)
MarkNeighborAddrs(d, n) ==
    [d EXCEPT !.mayGo = @ \cup {a \in NaddrsOf(d, n) : Af[a] = msg.af}]

LinkAddrsOf(d, l) == {a \in Addrs : d.laddr[msg.localif][a] = l}

(* The dualstack information of the message *)
HandleDualstack(d, c, l2) ==
    IF msg.orig = NoAddr THEN d
    ELSE IF msg.v4 # NoAddr
    THEN LET n2 == NeighborByOriginator(d, msg.v4)
             d1 == IF n2 = NoNeigh THEN d
                   ELSE nhdp_db_neighbor_connect_dualstack(d, c.neigh, n2)
         IN  IF l2 = NoLink THEN d1 ELSE nhdp_db_link_connect_dualstack(d1, c.link, l2)
    ELSE IF Af[msg.orig] = 6
    THEN nhdp_db_link_disconnect_dualstack(
             nhdp_db_neigbor_disconnect_dualstack(d, c.neigh), c.link)
    ELSE d

(* The link the interface's originator tree finds for the IPv4 originator  *)
DualstackLinks(d) ==
    LET S == LinksByOriginator(d, msg.localif, msg.v4)
    IN  IF S = {} THEN {NoLink} ELSE S

(* _cb_addresstlvs_pass1_end up to the allocation of neighbor and link:    *)
(* the neighbor and the link of the session, any free object or, when      *)
(* there is none, NULL.                                                    *)
FreeOr(free, null) == IF free = {} THEN {null} ELSE free

Pass1Neighbors(d, c) ==
    IF TakesOriginatorNeighbor(d, c) THEN {OriginatorNeighbor(d, c)}
    ELSE IF c.neigh # NoNeigh THEN {c.neigh}
    ELSE FreeOr(Neighs \ d.neighs, NoNeigh)

Pass1Links(d, c) ==
    IF c.link # NoLink THEN {c.link} ELSE FreeOr(Links \ d.links, NoLink)

WithNeighbor(d, n) ==
    IF n \in d.neighs THEN MarkNeighborAddrs(d, n) ELSE nhdp_db_neighbor_add(d, n)

WithLink(d, n, l) ==
    IF l \in d.links THEN d ELSE nhdp_db_link_add(d, l, n, msg.localif)

(* No neighbor: only the originator was handled.  No link: the neighbor    *)
(* stays as it is.  The parser calls no further callback in either case.   *)
OutOfMemory(d, n) ==
    /\ db' = d
    /\ EndMessage([cur EXCEPT !.neigh = n, !.link = IF n = NoNeigh THEN @ ELSE NoLink])
    /\ UNCHANGED undef

FinishPass1(d, c) ==
    LET r == IF c.has_thisif THEN <<d, c>>
             ELSE _pass2_process_localif(d, c, msg.src, "this")
    IN  IF ~SessionAlive(r[1], c) THEN UseOfFreedObject
        ELSE \E h \in HystValues, l2 \in DualstackLinks(r[1]) :
             /\ db' = HandleDualstack([r[1] EXCEPT !.hyst[c.link] = h], c, l2)
             /\ cur' = r[2]
             /\ pc' = "pass2" /\ idx' = 1
             /\ UNCHANGED <<msg, undef>>

_cb_addresstlvs_pass1_end ==
    LET d1 == _handle_originator(db, cur)
    IN  /\ Running /\ pc = "pass1" /\ idx > Len(msg.addrs)
        /\ \E n \in Pass1Neighbors(db, cur), l \in Pass1Links(db, cur) :
             IF n = NoNeigh THEN OutOfMemory(d1, n)
             ELSE IF l = NoLink THEN OutOfMemory(WithNeighbor(d1, n), n)
             ELSE FinishPass1(WithLink(WithNeighbor(d1, n), n, l),
                    [cur EXCEPT !.neigh = n, !.link = l, !.mayGo = LinkAddrsOf(db, l)])

-----------------------------------------------------------------------------
(* The two-hop part of _cb_addr_pass2_block *)
ProcessTwohop(d, c, e) ==
    LET h == <<c.link, e.addr>>
    IN  IF \/ e.ls = "none" /\ e.on = "none"
           \/ \E i \in Ifs : e.addr \in OwnAddrs[i]
        THEN d
        ELSE IF e.ls = "sym" \/ e.on = "sym"
        THEN [d EXCEPT !.twohop = @ \cup {h}]
        ELSE [d EXCEPT !.twohop = @ \ {h}]

_cb_addr_pass2_block ==
    LET e == msg.addrs[idx]
        r == IF e.lif = "none" THEN <<db, cur>>
             ELSE _pass2_process_localif(db, cur, e.addr, e.lif)
    IN  /\ Running /\ pc = "pass2" /\ idx <= Len(msg.addrs)
        /\ e.bad # "pass2"
        /\ IF ~SessionAlive(db, cur) \/ ~SessionAlive(r[1], r[2])
           THEN UseOfFreedObject
           ELSE /\ db' = ProcessTwohop(r[1], r[2], e)
                /\ cur' = r[2]
                /\ idx' = idx + 1
                /\ UNCHANGED <<pc, msg, undef>>

AddressFailsConstraintsPass2 ==
    /\ Running /\ pc = "pass2" /\ idx <= Len(msg.addrs)
    /\ msg.addrs[idx].bad = "pass2"
    /\ DropMessage

-----------------------------------------------------------------------------
(* _cb_msg_pass2_end: addresses that were not mentioned go, ...            *)
RemoveLeftovers(d, c) ==
    LET goneL == {a \in LinkAddrsOf(d, c.link) : a \in c.mayGo}
        goneN == NaddrsOf(d, c.neigh) \cap d.mayGo
    IN  [d EXCEPT
            !.laddr[msg.localif] = [a \in Addrs |-> IF a \in goneL THEN NoLink ELSE @[a]],
            !.lost = @ \cup goneN,
            !.twohop = {h \in @ : ~(h[1] = c.link /\ h[2] \in goneN)}]

(* ... the symmetric time is restarted or stopped, ...                     *)
UpdateSymTime(d, c) ==
    IF c.link_heard
    THEN nhdp_db_link_update_status([d EXCEPT !.symTime = @ \cup {c.link}], c.link)
    ELSE IF c.link_lost THEN [d EXCEPT !.symTime = @ \ {c.link}]
    ELSE d

(* Mutant: the validity time of the link is not started.                   *)
FinishWithoutVtime(d, c) ==
    LET d1 == [UpdateSymTime(RemoveLeftovers(d, c), c) EXCEPT !.heardTime = @ \cup {c.link}]
        d2 == nhdp_db_neighbor_set_originator(d1, c.neigh, msg.orig)
    IN  nhdp_db_link_update_status(d2, c.link)

(* ... heard and validity time are restarted, then originator and status   *)
(* of the link are updated.                                                *)
FinishLink(d, c) ==
    LET d1 == [UpdateSymTime(RemoveLeftovers(d, c), c) EXCEPT
                  !.heardTime = @ \cup {c.link}, !.vtime = @ \cup {c.link}]
        d2 == nhdp_db_neighbor_set_originator(d1, c.neigh, msg.orig)
    IN  nhdp_db_link_update_status(d2, c.link)

_cb_msg_pass2_end ==
    /\ Running /\ pc = "pass2" /\ idx > Len(msg.addrs)
    /\ IF ~SessionAlive(db, cur) THEN UseOfFreedObject
       ELSE /\ db' = FinishLink(db, cur)
            /\ EndMessage(cur)
            /\ UNCHANGED undef

-----------------------------------------------------------------------------
(* Timers.  The symmetric time of a link is never due after its heard time *)
(* and this not after its validity time (_cb_msg_pass2_end sets the later  *)
(* ones from the earlier ones); a PENDING link gets no hold time, both may *)
(* then be due at once.                                                    *)
DbStep(d) == db' = d /\ UNCHANGED <<cur, pc, msg, idx, undef>>

_cb_link_symtime(l) ==
    /\ Idle /\ l \in db.symTime
    /\ DbStep(nhdp_db_link_update_status([db EXCEPT !.symTime = @ \ {l}], l))

_cb_link_heard(l) ==
    /\ Idle /\ l \in db.heardTime \ db.symTime
    /\ DbStep(nhdp_db_link_update_status([db EXCEPT !.heardTime = @ \ {l}], l))

(* Mutant: a neighbor without links stays.                                 *)
VtimeKeepsNeighbor(l) ==
    /\ Idle /\ l \in db.vtime
    /\ l \notin db.heardTime \/ db.status[l] = "PENDING"
    /\ DbStep(nhdp_db_link_remove(
           IF db.status[l] = "SYMMETRIC"
           THEN _link_status_not_symmetric_anymore(db, l) ELSE db, {l}))

_cb_link_vtime(l) ==
    LET n  == db.neigh[l]
        d1 == IF db.status[l] = "SYMMETRIC"
              THEN _link_status_not_symmetric_anymore(db, l) ELSE db
        d2 == nhdp_db_link_remove(d1, {l})
    IN  /\ Idle /\ l \in db.vtime
        /\ l \notin db.heardTime \/ db.status[l] = "PENDING"
        /\ DbStep(IF LinksOf(d2, n) = {} THEN nhdp_db_neighbor_remove(d2, n) ELSE d2)

_cb_naddr_vtime(a) ==
    /\ Idle /\ a \in db.lost
    /\ DbStep(nhdp_db_neighbor_addr_remove(db, a))

_cb_l2hop_vtime(h) ==
    /\ Idle /\ h \in db.twohop
    /\ DbStep([db EXCEPT !.twohop = @ \ {h}])

(* A hysteresis plugin changes its mind about a link between two HELLOs    *)
HysteresisChange(l, h) ==
    /\ Idle /\ l \in db.links /\ h # db.hyst[l]
    /\ DbStep(nhdp_db_link_update_status([db EXCEPT !.hyst[l] = h], l))

(* _cb_interface_event: the interface has no active address any more       *)
InterfaceLosesAddresses(i) ==
    LET S == {l \in db.links : db.localif[l] = i}
    IN  /\ Idle /\ S # {}
        /\ \A n \in db.neighs : db.symmetric[n] > -CountBound
        /\ DbStep(nhdp_db_link_set_unsymmetric(db, S))

Halted == undef /\ UNCHANGED vars

-----------------------------------------------------------------------------
Reading ==
    \/ _cb_addresstlvs_pass1 \/ AddressFailsConstraintsPass1
    \/ _cb_addresstlvs_pass1_end
    \/ _cb_addr_pass2_block \/ AddressFailsConstraintsPass2
    \/ _cb_msg_pass2_end

Receive ==
    \/ \E m \in Hellos : HelloFailsConstraints(m) \/ HelloIgnored(m) \/ _cb_messagetlvs(m)
    \/ Reading

Timeout ==
    \/ \E l \in Links : _cb_link_symtime(l) \/ _cb_link_heard(l) \/ _cb_link_vtime(l)
    \/ \E a \in Addrs : _cb_naddr_vtime(a)
    \/ \E h \in Links \X Addrs : _cb_l2hop_vtime(h)

HysteresisEvent == \E l \in Links, h \in HystValues : HysteresisChange(l, h)

Next ==
    \/ Receive \/ Timeout \/ HysteresisEvent \/ Halted
    \/ \E i \in Ifs : InterfaceLosesAddresses(i)

Spec == Init /\ [][Next]_vars

(* Our interfaces keep their addresses.                                    *)
StableNext == Receive \/ Timeout \/ HysteresisEvent \/ Halted

StableSpec == Init /\ [][StableNext]_vars

-----------------------------------------------------------------------------
(* What HELLOs have in common when the nodes around us keep their addresses *)
Entries(m) == {m.addrs[k] : k \in DOMAIN m.addrs}
ThisAddrs(m) == {e.addr : e \in {x \in Entries(m) : x.lif = "this"}}
NeighborAddrs(m) == {e.addr : e \in {x \in Entries(m) : x.lif # "none"}}
Readable(H) == {m \in H : m.bad = "no"}

(* The HELLO names the interface it came from, no address of it twice.     *)
NamesInterface(m) ==
    /\ ThisAddrs(m) # {}
    /\ \A j, k \in DOMAIN m.addrs :
         m.addrs[j].lif = "this" /\ m.addrs[k].lif = "this" /\ j # k
             => m.addrs[j].addr # m.addrs[k].addr

(* The interfaces of our neighbors, as their HELLOs name them              *)
Sides(H) == {<<m.localif, ThisAddrs(m)>> : m \in Readable(H)}

(* Every neighbor has an originator, which is not among its addresses, and *)
(* every of its interfaces has the same addresses in all of its HELLOs; no *)
(* address belongs to two of them.  Damage that the first pass finds is in *)
(* front of these addresses, and there is memory for a link to each of the *)
(* interfaces.                                                             *)
Orderly(H) ==
    /\ \A m \in Readable(H) :
         /\ NamesInterface(m) /\ m.orig # NoAddr
         /\ \A e \in Entries(m) : e.addr # m.orig
         /\ \A j, k \in DOMAIN m.addrs :
              m.addrs[k].bad = "pass1" /\ j < k => m.addrs[j].lif = "none"
    /\ \A m1, m2 \in Readable(H) :
         /\ NeighborAddrs(m1) \cap NeighborAddrs(m2) # {} => m1.orig = m2.orig
         /\ m1.localif = m2.localif /\ ThisAddrs(m1) \cap ThisAddrs(m2) # {}
              => ThisAddrs(m1) = ThisAddrs(m2)
    /\ IsFiniteSet(Sides(H)) /\ Cardinality(Sides(H)) <= Cardinality(Links)

-----------------------------------------------------------------------------
(* Properties *)

(* Every variable has its type; the parser position fits the callback.     *)
TypeOK ==
    /\ db \in Databases /\ cur \in Sessions
    /\ pc \in {"idle", "pass1", "pass2"}
    /\ msg \in Hellos \cup {NoMessage} /\ (pc = "idle" <=> msg = NoMessage)
    /\ idx \in Nat /\ undef \in BOOLEAN

(***************************************************************************)
(* No stored pointer dangles, whatever sequence of HELLOs, drops, timers,  *)
(* failed allocations and interface events: nhdp_db_neighbor_remove and    *)
(* nhdp_db_link_remove take every reference to what they free along.       *)
(***************************************************************************)
NoDanglingReference == ReferencesAlive(db)

(***************************************************************************)
(* The hand-maintained originator indexes agree with the originators when  *)
(* nhdp_db_neighbor_set_originator takes an originator from one neighbor   *)
(* for another and when links come and go in between.                      *)
(***************************************************************************)
OriginatorIndexExact == IndexExact(db)

(***************************************************************************)
(* Dualstack partners point at each other and are alive, whoever is        *)
(* connected anew, disconnected or removed.                                *)
(***************************************************************************)
DualstackMutual == PartnersMutual(db)

(***************************************************************************)
(* Between messages nhdp_neighbor.symmetric is the number of symmetric     *)
(* links (nhdp_db.h:304).                                                  *)
(***************************************************************************)
SymmetricCount == Idle => SymmetricCountExact(db)

(***************************************************************************)
(* Between messages an address that is both a link address and a neighbor  *)
(* address belongs to a link of that neighbor: _pass2_process_localif adds *)
(* both "to the right link" and "to the right neighbor".                   *)
(***************************************************************************)
AddressOwnersAgree ==
    Idle => \A i \in Ifs, a \in Addrs :
        db.laddr[i][a] # NoLink /\ db.naddr[a] # NoNeigh
            => db.neigh[db.laddr[i][a]] = db.naddr[a]

(***************************************************************************)
(* Between messages every link has an address: a HELLO that names none is  *)
(* treated as if its source was tagged THIS_IF (nhdp_reader.c:681).        *)
(***************************************************************************)
LinkHasAddress ==
    Idle => \A l \in db.links : \E a \in Addrs : db.laddr[db.localif[l]][a] = l

(***************************************************************************)
(* Between messages every neighbor has a link, so that the validity time   *)
(* of its last link removes it (_cb_link_vtime).                           *)
(***************************************************************************)
NeighborHasLink == Idle => \A n \in db.neighs : LinksOf(db, n) # {}

(***************************************************************************)
(* Between messages the cached status of a link is the status its timers   *)
(* and hysteresis imply, so that no event was missed.                      *)
(***************************************************************************)
StatusFresh == Idle => \A l \in db.links : db.status[l] = CalculateStatus(db, l)

(***************************************************************************)
(* The cached status of every link and the counter made from it are right  *)
(* together (nhdp_db_link_update_status).                                  *)
(***************************************************************************)
StatusExact == StatusFresh /\ SymmetricCount

(***************************************************************************)
(* Between messages every link has a running validity timer: nothing that  *)
(* was learned stays for ever.                                             *)
(***************************************************************************)
LinkExpires == Idle => db.links = db.vtime

(***************************************************************************)
(* Links do not pile up: between messages each has an address by which the *)
(* next HELLO finds it and a validity timer that removes it                *)
(* (_cb_addresstlvs_pass1_end, _cb_msg_pass2_end).                         *)
(***************************************************************************)
LinksBounded == LinkHasAddress /\ LinkExpires

=============================================================================
