------------------------ MODULE Rfc5444ReaderProofs ------------------------
(***************************************************************************)
(* A message of the RFC5444 writer is shared by its owner, its content     *)
(* providers and the TLV types that belong to it: it lives exactly as long *)
(* as one of them points to it.                                            *)
(*                                                                         *)
(* The registry has two sides, the flags and trees of a message and the    *)
(* pointers of the ones who hold it.  WriterInv says that both sides agree *)
(* for every holder by itself (Points and Kept), from which it follows     *)
(* that a message nobody points to is one whose trees are empty.           *)
(***************************************************************************)
EXTENDS Rfc5444Reader, FiniteSetTheorems, TLAPS

Types == {p.type : p \in WriterProviders} \cup {y.type : y \in WriterTlvtypes}
ProviderIds == {p.id : p \in WriterProviders}
TlvtypeIds == {y.id : y \in WriterTlvtypes}

MessageRecords ==
  [registered : BOOLEAN, providers : SUBSET ProviderIds,
   tlvtypes : SUBSET (({"own"} \X ProviderIds) \cup ({"other"} \X TlvtypeIds)), number : Nat]

(* Who may hold a message of type t. *)
Names(key, t) ==
  \/ key = <<"owner", t>> /\ t \in Types
  \/ \E p \in WriterProviders : p.type = t /\ key = <<"provider", p.id>>
  \/ \E y \in WriterTlvtypes : y.type = t /\ key = <<"tlvtype", y.id>>

(* The message msg has key among its holders. *)
Knows(msg, key) ==
  \/ key[1] = "owner" /\ msg.registered
  \/ key[1] = "provider" /\ key[2] \in msg.providers
  \/ key[1] = "tlvtype" /\ <<"other", key[2]>> \in msg.tlvtypes

(* Whatever is in the trees of a message of type t belongs to it, and the  *)
(* TLV types of a content provider never stay without it.                  *)
Belongs(msg, t) ==
  /\ \A id \in msg.providers : Names(<<"provider", id>>, t)
  /\ \A id : <<"other", id>> \in msg.tlvtypes => Names(<<"tlvtype", id>>, t)
  /\ \A id : <<"own", id>> \in msg.tlvtypes =>
       id \in msg.providers /\ \E p \in WriterProviders : p.id = id /\ p.own

Points ==
  \A h \in wrHeld.by : \E t \in DOMAIN wrMessages :
    h = <<h[1], wrMessages[t].number>> /\ Names(h[1], t) /\ Knows(wrMessages[t], h[1])

Kept ==
  \A t \in DOMAIN wrMessages : \A key :
    Names(key, t) /\ Knows(wrMessages[t], key) => <<key, wrMessages[t].number>> \in wrHeld.by

(* Numbers are given one after the other, each to one message. *)
Numbered ==
  /\ \E n \in Nat : wrHeld.used = 1 .. n
  /\ \A t \in DOMAIN wrMessages : wrMessages[t].number \in wrHeld.used
  /\ \A t, u \in DOMAIN wrMessages : wrMessages[t].number = wrMessages[u].number => t = u

WriterTypes ==
  /\ wrMessages = [t \in DOMAIN wrMessages |-> wrMessages[t]]
  /\ \A t \in DOMAIN wrMessages : wrMessages[t] \in MessageRecords
  /\ wrHeld = [by |-> wrHeld.by, used |-> wrHeld.used]

WriterInv ==
  /\ WriterTypes /\ Numbered /\ Points /\ Kept
  /\ \A t \in DOMAIN wrMessages : IsUsed(wrMessages[t]) /\ Belongs(wrMessages[t], t) /\ t \in Types

-----------------------------------------------------------------------------

(* A key holds messages of one type only. *)
LEMMA NamesOne ==
  ASSUME NEW key, NEW t, NEW u, Names(key, t), Names(key, u)
  PROVE  t = u
BY IdsAssumption DEF Names

(* The message a holder asks for is the one of its type, or a new one that *)
(* nobody holds and whose number nobody has.                               *)
LEMMA GetMessage ==
  ASSUME WriterInv, NEW t \in Types
  PROVE  /\ _get_message(t) \in MessageRecords
         /\ Belongs(_get_message(t), t)
         /\ \E n \in Nat : wrHeld.used \cup {_get_message(t).number} = 1 .. n
         /\ \A u \in DOMAIN wrMessages : u # t => wrMessages[u].number # _get_message(t).number
         /\ t \in DOMAIN wrMessages => _get_message(t) = wrMessages[t]
         /\ t \notin DOMAIN wrMessages => \A key : Names(key, t) => ~Knows(_get_message(t), key)
<1>1. CASE t \in DOMAIN wrMessages
  <2>1. _get_message(t) = wrMessages[t]
    BY <1>1 DEF _get_message
  <2>2. wrHeld.used \cup {wrMessages[t].number} = wrHeld.used
    BY <1>1 DEF WriterInv, Numbered
  <2> QED BY <1>1, <2>1, <2>2 DEF WriterInv, WriterTypes, Numbered
<1>2. CASE t \notin DOMAIN wrMessages
  <2>1. PICK n \in Nat : wrHeld.used = 1 .. n
    BY DEF WriterInv, Numbered
  <2>2. Cardinality(1 .. n) = n
    BY FS_Interval, <2>1
  <2>3. _get_message(t) = [registered |-> FALSE, providers |-> {}, tlvtypes |-> {}, number |-> 1 + n]
    BY <1>2, <2>1, <2>2 DEF _get_message, NoMessage, Number
  <2>4. wrHeld.used \cup {1 + n} = 1 .. (1 + n)
    BY <2>1
  <2>5. \A u \in DOMAIN wrMessages : wrMessages[u].number # 1 + n
    BY <2>1 DEF WriterInv, Numbered
  <2> QED BY <1>2, <2>3, <2>4, <2>5 DEF MessageRecords, Belongs, Knows
<1> QED BY <1>1, <1>2

(* A holder takes the message of its type. *)
LEMMA Takes ==
  ASSUME WriterInv, NEW t \in Types, NEW key, Names(key, t), NEW new \in MessageRecords,
         new.number = _get_message(t).number, Belongs(new, t), IsUsed(new),
         \A k : Names(k, t) => (Knows(new, k) <=> (Knows(_get_message(t), k) \/ k = key)),
         \A h \in wrHeld.by : h[1] = key => t \in DOMAIN wrMessages,
         wrMessages' = _lazy_free_message(t, new), wrHeld' = Holds(key, _get_message(t))
  PROVE  WriterInv'
<1> DEFINE number == _get_message(t).number
<1>1. wrMessages' = [u \in DOMAIN wrMessages \cup {t} |-> IF u = t THEN new ELSE wrMessages[u]]
  BY DEF _lazy_free_message
<1>2. /\ wrHeld' = [by |-> wrHeld'.by, used |-> wrHeld'.used]
      /\ wrHeld'.by = {h \in wrHeld.by : h[1] # key} \cup {<<key, number>>}
      /\ wrHeld'.used = wrHeld.used \cup {number}
  BY DEF Holds, WriterInv, WriterTypes
<1>3. WriterTypes'
  BY <1>1, <1>2 DEF WriterInv, WriterTypes
<1>4. Numbered'
  <2>1. \E n \in Nat : wrHeld'.used = 1 .. n
    BY <1>2, GetMessage
  <2>2. \A u \in DOMAIN wrMessages : u # t => wrMessages[u].number # new.number
    BY GetMessage
  <2> QED BY <1>1, <1>2, <2>1, <2>2 DEF WriterInv, Numbered
<1>5. Points'
  <2> SUFFICES ASSUME NEW h \in wrHeld'.by
               PROVE  \E u \in DOMAIN wrMessages' :
                        h = <<h[1], wrMessages'[u].number>> /\ Names(h[1], u) /\ Knows(wrMessages'[u], h[1])
    BY DEF Points
  <2>1. CASE h = <<key, number>>
    BY <1>1, <2>1
  <2>2. CASE h \in wrHeld.by /\ h[1] # key
    <3>1. PICK u \in DOMAIN wrMessages : h = <<h[1], wrMessages[u].number>> /\ Names(h[1], u) /\ Knows(wrMessages[u], h[1])
      BY <2>2 DEF WriterInv, Points
    <3>2. CASE u = t
      <4>1. Knows(new, h[1]) /\ new.number = wrMessages[t].number
        BY <3>1, <3>2, GetMessage
      <4> QED BY <1>1, <3>1, <3>2, <4>1
    <3>3. CASE u # t
      BY <1>1, <3>1, <3>3
    <3> QED BY <3>2, <3>3
  <2> QED BY <1>2, <2>1, <2>2
<1>6. Kept'
  <2> SUFFICES ASSUME NEW u \in DOMAIN wrMessages', NEW k, Names(k, u), Knows(wrMessages'[u], k)
               PROVE  <<k, wrMessages'[u].number>> \in wrHeld'.by
    BY DEF Kept
  <2>1. CASE k = key
    BY <1>1, <1>2, <2>1, NamesOne
  <2>2. CASE k # key /\ u # t
    BY <1>1, <1>2, <2>2 DEF WriterInv, Kept
  <2>3. CASE k # key /\ u = t
    <3>1. Knows(_get_message(t), k)
      BY <1>1, <2>3
    <3>2. t \in DOMAIN wrMessages /\ _get_message(t) = wrMessages[t]
      BY <2>3, <3>1, GetMessage
    <3> QED BY <1>1, <1>2, <2>3, <3>1, <3>2 DEF WriterInv, Kept
  <2> QED BY <2>1, <2>2, <2>3
<1> QED BY <1>1, <1>3, <1>4, <1>5, <1>6 DEF WriterInv, IsUsed

(* A holder lets its message go, which is freed if it was the last one. *)
LEMMA Leaves ==
  ASSUME WriterInv, NEW t \in DOMAIN wrMessages, NEW key, Names(key, t), NEW new \in MessageRecords,
         new.number = wrMessages[t].number, Belongs(new, t),
         \A k : Names(k, t) => (Knows(new, k) <=> (Knows(wrMessages[t], k) /\ k # key)),
         wrMessages' = _lazy_free_message(t, new), wrHeld' = LetsGo(key)
  PROVE  WriterInv'
<1> DEFINE left == (DOMAIN wrMessages \cup {t}) \ (IF IsUsed(new) THEN {} ELSE {t})
<1>1. wrMessages' = [u \in left |-> IF u = t THEN new ELSE wrMessages[u]]
  BY DEF _lazy_free_message
<1>2. /\ wrHeld' = [by |-> wrHeld'.by, used |-> wrHeld'.used]
      /\ wrHeld'.by = {h \in wrHeld.by : h[1] # key}
      /\ wrHeld'.used = wrHeld.used
  BY DEF LetsGo, WriterInv, WriterTypes
<1>3. left \subseteq DOMAIN wrMessages /\ DOMAIN wrMessages' = left
      /\ \A u \in left : wrMessages'[u] = IF u = t THEN new ELSE wrMessages[u]
  BY <1>1
<1>4. WriterTypes'
  BY <1>1, <1>2, <1>3 DEF WriterInv, WriterTypes
<1>5. Numbered'
  BY <1>2, <1>3 DEF WriterInv, Numbered
<1>6. Points'
  <2> SUFFICES ASSUME NEW h \in wrHeld.by, h[1] # key
               PROVE  \E u \in DOMAIN wrMessages' :
                        h = <<h[1], wrMessages'[u].number>> /\ Names(h[1], u) /\ Knows(wrMessages'[u], h[1])
    BY <1>2 DEF Points
  <2>1. PICK u \in DOMAIN wrMessages : h = <<h[1], wrMessages[u].number>> /\ Names(h[1], u) /\ Knows(wrMessages[u], h[1])
    BY DEF WriterInv, Points
  <2>2. CASE u = t
    <3>1. Knows(new, h[1])
      BY <2>1, <2>2
    <3>2. IsUsed(new)
      BY <3>1 DEF Knows, IsUsed
    <3> QED BY <1>3, <2>1, <2>2, <3>1, <3>2
  <2>3. CASE u # t
    BY <1>3, <2>1, <2>3
  <2> QED BY <2>2, <2>3
<1>7. Kept'
  <2> SUFFICES ASSUME NEW u \in left, NEW k, Names(k, u), Knows(wrMessages'[u], k)
               PROVE  <<k, wrMessages'[u].number>> \in wrHeld'.by
    BY <1>3 DEF Kept
  <2>1. CASE u = t
    BY <1>2, <1>3, <2>1 DEF WriterInv, Kept
  <2>2. CASE u # t
    <3>1. k # key
      BY <2>2, NamesOne
    <3> QED BY <1>2, <1>3, <2>2, <3>1 DEF WriterInv, Kept
  <2> QED BY <2>1, <2>2
<1>8. \A u \in left : IsUsed(wrMessages'[u])
  <2>1. t \in left => IsUsed(new)
    OBVIOUS
  <2> QED BY <1>3, <2>1 DEF WriterInv
<1> QED BY <1>3, <1>4, <1>5, <1>6, <1>7, <1>8 DEF WriterInv, IsUsed

-----------------------------------------------------------------------------

LEMMA WriterInitially ==
  ASSUME ReaderInit
  PROVE  WriterInv
<1>1. wrMessages = <<>> /\ wrHeld = [by |-> {}, used |-> {}]
  BY DEF ReaderInit
<1>2. {} = 1 .. 0
  OBVIOUS
<1>3. wrHeld.by = {} /\ wrHeld.used = 1 .. 0 /\ DOMAIN wrMessages = {}
  BY <1>1, <1>2
<1>4. WriterTypes /\ Numbered
  <2>1. wrMessages = [t \in {} |-> wrMessages[t]]
    BY <1>1
  <2> QED BY <1>1, <1>3, <2>1 DEF WriterTypes, Numbered
<1> QED BY <1>3, <1>4 DEF WriterInv, Points, Kept

LEMMA OwnerTakes ==
  ASSUME WriterInv, NEW type \in Types, rfc5444_writer_register_message(type)
  PROVE  WriterInv'
<1> DEFINE msg == _get_message(type)
<1> DEFINE new == [msg EXCEPT !.registered = TRUE]
<1> DEFINE key == <<"owner", type>>
<1>1. /\ ~msg.registered /\ wrMessages' = _lazy_free_message(type, new) /\ wrHeld' = Holds(key, msg)
  BY DEF rfc5444_writer_register_message
<1>2. msg \in MessageRecords /\ Belongs(msg, type)
  BY GetMessage
<1>3. /\ new \in MessageRecords /\ new.number = msg.number /\ new.registered /\ new.providers = msg.providers
      /\ new.tlvtypes = msg.tlvtypes
  BY <1>2 DEF MessageRecords
<1>4. Belongs(new, type) /\ IsUsed(new) /\ Names(key, type)
  BY <1>2, <1>3 DEF Belongs, IsUsed, Names
<1>5. \A k : Names(k, type) => (Knows(new, k) <=> (Knows(msg, k) \/ k = key))
  BY <1>3 DEF Names, Knows
<1>6. \A h \in wrHeld.by : h[1] = key => type \in DOMAIN wrMessages
  BY <1>4, NamesOne DEF WriterInv, Points
<1> HIDE DEF new, key
<1> QED BY <1>1, <1>3, <1>4, <1>5, <1>6, Takes

LEMMA OwnerLeaves ==
  ASSUME WriterInv, NEW type \in Types, rfc5444_writer_unregister_message(type)
  PROVE  WriterInv'
<1> DEFINE msg == wrMessages[type]
<1> DEFINE new == [msg EXCEPT !.registered = FALSE]
<1> DEFINE key == <<"owner", type>>
<1>1. IsHeld(key) /\ wrMessages' = _lazy_free_message(type, new) /\ wrHeld' = LetsGo(key)
  BY DEF rfc5444_writer_unregister_message
<1>2. Names(key, type)
  BY DEF Names
<1>3. type \in DOMAIN wrMessages
  BY <1>1, <1>2, NamesOne DEF WriterInv, Points, IsHeld
<1>4. msg \in MessageRecords /\ Belongs(msg, type)
  BY <1>3 DEF WriterInv, WriterTypes
<1>5. /\ new \in MessageRecords /\ new.number = msg.number /\ ~new.registered /\ new.providers = msg.providers
      /\ new.tlvtypes = msg.tlvtypes
  BY <1>4 DEF MessageRecords
<1>6. Belongs(new, type)
  BY <1>4, <1>5 DEF Belongs
<1>7. \A k : Names(k, type) => (Knows(new, k) <=> (Knows(msg, k) /\ k # key))
  BY <1>5 DEF Names, Knows
<1> HIDE DEF new, key
<1> QED BY <1>1, <1>2, <1>3, <1>5, <1>6, <1>7, Leaves

LEMMA ProviderTakes ==
  ASSUME WriterInv, NEW cpr \in WriterProviders, rfc5444_writer_register_msgcontentprovider(cpr)
  PROVE  WriterInv'
<1> DEFINE type == cpr.type
<1> DEFINE msg == _get_message(type)
<1> DEFINE new == [msg EXCEPT !.providers = @ \cup {cpr.id}, !.tlvtypes = @ \cup OwnTlvs(cpr)]
<1> DEFINE key == <<"provider", cpr.id>>
<1>1. ~IsHeld(key) /\ wrMessages' = _lazy_free_message(type, new) /\ wrHeld' = Holds(key, msg)
  BY DEF rfc5444_writer_register_msgcontentprovider
<1>2. type \in Types /\ msg \in MessageRecords /\ Belongs(msg, type)
  BY GetMessage DEF Types
<1>3. OwnTlvs(cpr) \subseteq {"own"} \X {cpr.id} /\ cpr.id \in ProviderIds
  BY DEF OwnTlvs, ProviderIds
<1>4. /\ new \in MessageRecords /\ new.number = msg.number /\ new.registered = msg.registered
      /\ new.providers = msg.providers \cup {cpr.id} /\ new.tlvtypes = msg.tlvtypes \cup OwnTlvs(cpr)
  BY <1>2, <1>3 DEF MessageRecords
<1>5. Names(key, type)
  BY DEF Names
<1>6. \A id : <<"other", id>> \in new.tlvtypes <=> <<"other", id>> \in msg.tlvtypes
  BY <1>3, <1>4
<1>7. \A id : <<"own", id>> \in new.tlvtypes => <<"own", id>> \in msg.tlvtypes \/ (id = cpr.id /\ cpr.own)
  BY <1>3, <1>4 DEF OwnTlvs
<1>8. Belongs(new, type) /\ IsUsed(new)
  BY <1>2, <1>4, <1>5, <1>6, <1>7 DEF Belongs, IsUsed
<1>9. \A k : Names(k, type) => (Knows(new, k) <=> (Knows(msg, k) \/ k = key))
  BY <1>4, <1>6 DEF Names, Knows
<1>10. \A h \in wrHeld.by : h[1] # key
  BY <1>1 DEF IsHeld
<1> HIDE DEF new, key, type
<1> QED BY <1>1, <1>2, <1>4, <1>5, <1>8, <1>9, <1>10, Takes

LEMMA ProviderLeaves ==
  ASSUME WriterInv, NEW cpr \in WriterProviders, rfc5444_writer_unregister_content_provider(cpr)
  PROVE  WriterInv'
<1> DEFINE type == cpr.type
<1> DEFINE msg == wrMessages[type]
<1> DEFINE new == [msg EXCEPT !.providers = @ \ {cpr.id}, !.tlvtypes = @ \ OwnTlvs(cpr)]
<1> DEFINE key == <<"provider", cpr.id>>
<1>1. IsHeld(key) /\ wrMessages' = _lazy_free_message(type, new) /\ wrHeld' = LetsGo(key)
  BY DEF rfc5444_writer_unregister_content_provider
<1>2. Names(key, type)
  BY DEF Names
<1>3. type \in DOMAIN wrMessages
  BY <1>1, <1>2, NamesOne DEF WriterInv, Points, IsHeld
<1>4. msg \in MessageRecords /\ Belongs(msg, type)
  BY <1>3 DEF WriterInv, WriterTypes
<1>5. OwnTlvs(cpr) \subseteq {"own"} \X {cpr.id}
  BY DEF OwnTlvs
<1>6. /\ new \in MessageRecords /\ new.number = msg.number /\ new.registered = msg.registered
      /\ new.providers = msg.providers \ {cpr.id} /\ new.tlvtypes = msg.tlvtypes \ OwnTlvs(cpr)
  BY <1>4 DEF MessageRecords
<1>7. \A id : <<"other", id>> \in new.tlvtypes <=> <<"other", id>> \in msg.tlvtypes
  BY <1>5, <1>6
<1>8. \A id : <<"own", id>> \in new.tlvtypes =>
        id \in new.providers /\ \E p \in WriterProviders : p.id = id /\ p.own
  <2> SUFFICES ASSUME NEW id, <<"own", id>> \in msg.tlvtypes, <<"own", id>> \notin OwnTlvs(cpr)
               PROVE  id \in msg.providers \ {cpr.id} /\ \E p \in WriterProviders : p.id = id /\ p.own
    BY <1>6
  <2>1. PICK p \in WriterProviders : id \in msg.providers /\ p.id = id /\ p.own
    BY <1>4 DEF Belongs
  <2>2. ~(cpr.own /\ id = cpr.id)
    BY DEF OwnTlvs
  <2> QED BY <2>1, <2>2, IdsAssumption
<1>9. Belongs(new, type)
  BY <1>4, <1>6, <1>7, <1>8 DEF Belongs
<1>10. \A k : Names(k, type) => (Knows(new, k) <=> (Knows(msg, k) /\ k # key))
  BY <1>6, <1>7 DEF Names, Knows
<1> HIDE DEF new, key, type
<1> QED BY <1>1, <1>2, <1>3, <1>6, <1>9, <1>10, Leaves

LEMMA TlvtypeTakes ==
  ASSUME WriterInv, NEW tlvtype \in WriterTlvtypes, rfc5444_writer_register_addrtlvtype(tlvtype)
  PROVE  WriterInv'
<1> DEFINE type == tlvtype.type
<1> DEFINE msg == _get_message(type)
<1> DEFINE new == [msg EXCEPT !.tlvtypes = @ \cup {<<"other", tlvtype.id>>}]
<1> DEFINE key == <<"tlvtype", tlvtype.id>>
<1>1. ~IsHeld(key) /\ wrMessages' = _lazy_free_message(type, new) /\ wrHeld' = Holds(key, msg)
  BY DEF rfc5444_writer_register_addrtlvtype
<1>2. type \in Types /\ msg \in MessageRecords /\ Belongs(msg, type)
  BY GetMessage DEF Types
<1>3. <<"other", tlvtype.id>> \in {"other"} \X TlvtypeIds
  BY DEF TlvtypeIds
<1>4. /\ new \in MessageRecords /\ new.number = msg.number /\ new.registered = msg.registered
      /\ new.providers = msg.providers /\ new.tlvtypes = msg.tlvtypes \cup {<<"other", tlvtype.id>>}
  BY <1>2, <1>3 DEF MessageRecords
<1>5. Names(key, type)
  BY DEF Names
<1>6. Belongs(new, type) /\ IsUsed(new)
  BY <1>2, <1>4, <1>5 DEF Belongs, IsUsed
<1>7. \A k : Names(k, type) => (Knows(new, k) <=> (Knows(msg, k) \/ k = key))
  BY <1>4 DEF Names, Knows
<1>8. \A h \in wrHeld.by : h[1] # key
  BY <1>1 DEF IsHeld
<1> HIDE DEF new, key, type
<1> QED BY <1>1, <1>2, <1>4, <1>5, <1>6, <1>7, <1>8, Takes

LEMMA TlvtypeLeaves ==
  ASSUME WriterInv, NEW tlvtype \in WriterTlvtypes, rfc5444_writer_unregister_addrtlvtype(tlvtype)
  PROVE  WriterInv'
<1> DEFINE type == tlvtype.type
<1> DEFINE msg == wrMessages[type]
<1> DEFINE new == [msg EXCEPT !.tlvtypes = @ \ {<<"other", tlvtype.id>>}]
<1> DEFINE key == <<"tlvtype", tlvtype.id>>
<1>1. IsHeld(key) /\ wrMessages' = _lazy_free_message(type, new) /\ wrHeld' = LetsGo(key)
  BY DEF rfc5444_writer_unregister_addrtlvtype
<1>2. Names(key, type)
  BY DEF Names
<1>3. type \in DOMAIN wrMessages
  BY <1>1, <1>2, NamesOne DEF WriterInv, Points, IsHeld
<1>4. msg \in MessageRecords /\ Belongs(msg, type)
  BY <1>3 DEF WriterInv, WriterTypes
<1>5. /\ new \in MessageRecords /\ new.number = msg.number /\ new.registered = msg.registered
      /\ new.providers = msg.providers /\ new.tlvtypes = msg.tlvtypes \ {<<"other", tlvtype.id>>}
  BY <1>4 DEF MessageRecords
<1>6. Belongs(new, type)
  BY <1>4, <1>5 DEF Belongs
<1>7. \A k : Names(k, type) => (Knows(new, k) <=> (Knows(msg, k) /\ k # key))
  BY <1>5 DEF Names, Knows
<1> HIDE DEF new, key, type
<1> QED BY <1>1, <1>2, <1>3, <1>5, <1>6, <1>7, Leaves

LEMMA WriterPreserved ==
  ASSUME WriterInv, [ReaderNext]_rfcVars
  PROVE  WriterInv'
<1>1. CASE UNCHANGED writerVars
  BY <1>1 DEF writerVars, WriterInv, WriterTypes, Numbered, Points, Kept
<1>2. CASE rfc5444_reader_add_consumer \/ rfc5444_reader_remove_consumer \/ ReaderReceives \/ UNCHANGED rfcVars
  <2>1. UNCHANGED writerVars
    BY <1>2 DEF rfc5444_reader_add_consumer, rfc5444_reader_remove_consumer, ReaderReceives, rfcVars, writerVars
  <2> QED BY <1>1, <2>1
<1>3. CASE WriterRegisters
  BY <1>3, OwnerTakes, ProviderTakes, TlvtypeTakes DEF WriterRegisters, Types
<1>4. CASE WriterUnregisters
  BY <1>4, OwnerLeaves, ProviderLeaves, TlvtypeLeaves DEF WriterUnregisters, Types
<1>5. CASE rfc5444_writer_cleanup
  <2>1. /\ wrMessages' = <<>> /\ wrHeld'.by = {} /\ wrHeld'.used = wrHeld.used
        /\ wrHeld' = [by |-> wrHeld'.by, used |-> wrHeld'.used]
    BY <1>5 DEF rfc5444_writer_cleanup, WriterInv, WriterTypes
  <2> QED BY <2>1 DEF WriterInv, WriterTypes, Numbered, Points, Kept
<1> QED BY <1>2, <1>3, <1>4, <1>5 DEF ReaderNext

(* Both sides of the registry agree, so a pointer has a message and a      *)
(* message that is used is used by somebody who points to it.              *)
LEMMA WriterHolds ==
  ASSUME WriterInv
  PROVE  MessagesHeld
<1>1. \A h \in wrHeld.by : \E t \in DOMAIN wrMessages : wrMessages[t].number = h[2]
  <2> TAKE h \in wrHeld.by
  <2>1. PICK t \in DOMAIN wrMessages : h = <<h[1], wrMessages[t].number>>
    BY DEF WriterInv, Points
  <2> QED BY <2>1
<1>2. \A t \in DOMAIN wrMessages : \E h \in wrHeld.by : wrMessages[t].number = h[2]
  <2> TAKE t \in DOMAIN wrMessages
  <2>1. /\ wrMessages[t] \in MessageRecords /\ IsUsed(wrMessages[t]) /\ Belongs(wrMessages[t], t) /\ t \in Types
    BY DEF WriterInv, WriterTypes
  <2>2. \E key : Names(key, t) /\ Knows(wrMessages[t], key)
    <3>1. CASE wrMessages[t].registered
      <4>1. Names(<<"owner", t>>, t) /\ Knows(wrMessages[t], <<"owner", t>>)
        BY <2>1, <3>1 DEF Names, Knows
      <4> QED BY <4>1
    <3>2. CASE wrMessages[t].providers # {}
      <4>1. PICK id \in wrMessages[t].providers : TRUE
        BY <3>2
      <4>2. Names(<<"provider", id>>, t) /\ Knows(wrMessages[t], <<"provider", id>>)
        BY <2>1, <4>1 DEF Belongs, Knows
      <4> QED BY <4>2
    <3>3. CASE wrMessages[t].tlvtypes # {} /\ wrMessages[t].providers = {}
      <4>1. PICK x \in wrMessages[t].tlvtypes : TRUE
        BY <3>3
      <4>2. PICK id : x = <<"own", id>> \/ x = <<"other", id>>
        BY <2>1, <4>1 DEF MessageRecords
      <4>3. x = <<"other", id>>
        BY <2>1, <3>3, <4>1, <4>2 DEF Belongs
      <4>4. Names(<<"tlvtype", id>>, t) /\ Knows(wrMessages[t], <<"tlvtype", id>>)
        BY <2>1, <4>1, <4>3 DEF Belongs, Knows
      <4> QED BY <4>4
    <3> QED BY <2>1, <3>1, <3>2, <3>3 DEF IsUsed
  <2>3. PICK key : <<key, wrMessages[t].number>> \in wrHeld.by
    BY <2>2 DEF WriterInv, Kept
  <2> QED BY <2>3
<1> QED BY <1>1, <1>2 DEF MessagesHeld

(* A message of the writer lives exactly as long as somebody points to it, *)
(* in whatever order owner, content providers and TLV types register and   *)
(* unregister (_get_message and _lazy_free_message of rfc5444_writer.c).   *)
THEOREM MessagesAreHeld ==
  ReaderInit /\ [][ReaderNext]_rfcVars => []MessagesHeld
<1>1. ReaderInit => WriterInv
  BY WriterInitially
<1>2. WriterInv /\ [ReaderNext]_rfcVars => WriterInv'
  BY WriterPreserved
<1>3. WriterInv => MessagesHeld
  BY WriterHolds
<1> QED BY <1>1, <1>2, <1>3, PTL
=============================================================================
