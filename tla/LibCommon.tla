----------------------------- MODULE LibCommon -----------------------------
(***************************************************************************)
(* Addresses, prefixes and access lists of the common library              *)
(* (src/src/libcommon/netaddr.c, netaddr_acl.c).  A byte has ByteBits      *)
(* bits, and an address of family af has AfBytes[af] bytes.  The functions *)
(* are called once with every netmask and number, and an access list is    *)
(* read from every list of entries.                                        *)
(*                                                                         *)
(* Numbers with a fraction and an ISO prefix (src/src/libcommon/           *)
(* isonumber.c), the form in which the configuration and the console write *)
(* intervals, rates and metrics.  A text has an integer part, the digits   *)
(* behind the point and a prefix: the place of its letter in " kMGTPE", or *)
(* the negative of the place in " munpfa".  The numbers are small enough   *)
(* for no product to leave 64 bits.                                        *)
(*                                                                         *)
(* Object classes (src/src/base/oonf_class.c): the memory of the objects   *)
(* of a class, which plugins extend by fields of their own before the      *)
(* first object exists, and the events listeners are told.  A block of     *)
(* memory is a number; mem gives its size and who has it.                  *)
(*                                                                         *)
(* The AVL tree of the common library (src/src/libcommon/avl.c,            *)
(* src/include/oonf/libcommon/avl.h), in which the program keeps most of   *)
(* its databases.  Nodes of the same key hang behind the first of them,    *)
(* which alone is a node of the tree, and all nodes are in a list in the   *)
(* order of their keys.  A tree T has the links p (parent), l and r        *)
(* (children), the balance b and the flag f (follower) of every node.      *)
(* The fields of a node that is in no tree are never read; they are reset. *)
(***************************************************************************)
EXTENDS Integers, Sequences, SequencesExt, FiniteSets, FiniteSetsExt

CONSTANTS ByteBits,     \* 8 in the code
          AfBytes,      \* bytes of an address of each family: 4, 16, 6 and 8 in the code
          AclPrefixes,  \* prefixes that are used in access lists
          MaxNumber,    \* bytes of a host number at most
          MaxEntries    \* entries of an access list at most

VARIABLES made,         \* the last call of netaddr_create_host_bin
          acl           \* an access list and the entries it was read from
netVars == <<made, acl>>

Families == DOMAIN AfBytes
Bytes == 0..2 ^ ByteBits - 1
netaddr_get_af_maxprefix(af) == AfBytes[af] * ByteBits
Netaddr == UNION {[af : {af}, addr : [1..AfBytes[af] -> Bytes], len : 0..netaddr_get_af_maxprefix(af)] : af \in Families}
Hosts == {a \in Netaddr : a.len = netaddr_get_af_maxprefix(a.af)}
HighBits(byte, n) == byte \div 2 ^ (ByteBits - n)
LowBits(byte, n) == byte % 2 ^ n

_binary_is_in_subnet(subnet, bin) ==
  LET byte_length == subnet.len \div ByteBits
      bit_length == subnet.len % ByteBits
  IN /\ \A i \in 1..byte_length : subnet.addr[i] = bin[i]
     /\ bit_length # 0 => HighBits(subnet.addr[byte_length + 1], bit_length) = HighBits(bin[byte_length + 1], bit_length)
netaddr_is_in_subnet(subnet, a) == subnet.af = a.af /\ _binary_is_in_subnet(subnet, a.addr)

netaddr_truncate(src) ==
  LET byte_prefix == src.len \div ByteBits
      bit_prefix == src.len % ByteBits
  IN [src EXCEPT !.addr = [i \in DOMAIN src.addr |->
        CASE i <= byte_prefix -> src.addr[i]
          [] i = byte_prefix + 1 -> src.addr[i] - LowBits(src.addr[i], ByteBits - bit_prefix)
          [] OTHER -> 0]]

\* Bytes of the number from number_index + 1 on, written behind host_index bytes.
CopyNumber(addr, number, host_index, number_index) ==
  [i \in DOMAIN addr |-> IF i > host_index THEN number[i - host_index + number_index] ELSE addr[i]]
\* The byte that belongs to the prefix with its first bits and to the number with the others.
MixByte(addr, number, bits, host_index, number_index) ==
  [addr EXCEPT ![host_index + 1] = (@ - LowBits(@, ByteBits - bits)) + LowBits(number[number_index + 1], ByteBits - bits)]

HostBytes(netmask, number, max) ==
  LET host_part_length == (max - netmask.len + ByteBits - 1) \div ByteBits
      bits == netmask.len % ByteBits
      host_index == netmask.len \div ByteBits
      number_index == Len(number) - host_part_length
  IN CASE host_part_length > Len(number) -> CopyNumber(netmask.addr, number, AfBytes[netmask.af] - Len(number), 0)
       [] host_part_length <= Len(number) /\ bits # 0 ->
            CopyNumber(MixByte(netmask.addr, number, bits, host_index, number_index), number, host_index + 1, number_index + 1)
       [] OTHER -> CopyNumber(netmask.addr, number, host_index, number_index)
HostOf(netmask, number) ==
  LET max == netaddr_get_af_maxprefix(netmask.af)
  IN [netmask EXCEPT !.len = max,
        !.addr = IF netmask.len = max \/ Len(number) = 0 THEN netmask.addr ELSE HostBytes(netmask, number, max)]

-----------------------------------------------------------------------------
(* access lists *)

Keywords == {"default_accept", "default_reject", "first_accept", "first_reject"}
AclEntry == [kw : Keywords, sign : {"+"}, addr : {CHOOSE p \in AclPrefixes : TRUE}]
              \cup [kw : {"none"}, sign : {"+", "-"}, addr : AclPrefixes]
netaddr_acl_add == [accept |-> <<>>, reject |-> <<>>, reject_first |-> FALSE, accept_default |-> FALSE]
netaddr_acl_handle_keywords(a, kw) ==
  CASE kw = "default_accept" -> [a EXCEPT !.accept_default = TRUE]
    [] kw = "default_reject" -> [a EXCEPT !.accept_default = FALSE]
    [] kw = "first_accept" -> [a EXCEPT !.reject_first = FALSE]
    [] kw = "first_reject" -> [a EXCEPT !.reject_first = TRUE]
    [] OTHER -> a
AclFrom(entries) ==
  FoldLeft(LAMBDA a, e : CASE e.kw # "none" -> netaddr_acl_handle_keywords(a, e.kw)
                           [] e.kw = "none" /\ e.sign = "-" -> [a EXCEPT !.reject = Append(@, e.addr)]
                           [] OTHER -> [a EXCEPT !.accept = Append(@, e.addr)], netaddr_acl_add, entries)
_is_in_array(array, a) == \E i \in DOMAIN array : netaddr_is_in_subnet(array[i], a)
netaddr_acl_check_accept(list, a) ==
  CASE list.reject_first /\ _is_in_array(list.reject, a) -> FALSE
    [] ~(list.reject_first /\ _is_in_array(list.reject, a)) /\ _is_in_array(list.accept, a) -> TRUE
    [] ~list.reject_first /\ ~_is_in_array(list.accept, a) /\ _is_in_array(list.reject, a) -> FALSE
    [] OTHER -> list.accept_default

-----------------------------------------------------------------------------
NoCall == [done |-> FALSE, netmask |-> CHOOSE p \in AclPrefixes : TRUE, number |-> <<>>, host |-> CHOOSE p \in AclPrefixes : TRUE]
NetInit == made = NoCall /\ acl = [list |-> netaddr_acl_add, from |-> <<>>, done |-> FALSE]
netaddr_create_host_bin ==
  /\ ~made.done /\ ~acl.done
  /\ \E netmask \in Netaddr, number \in SeqOf(Bytes, MaxNumber) :
       made' = [done |-> TRUE, netmask |-> netmask, number |-> number, host |-> HostOf(netmask, number)]
  /\ UNCHANGED acl
netaddr_acl_from_strarray ==
  /\ ~made.done /\ ~acl.done
  /\ \E entries \in SeqOf(AclEntry, MaxEntries) : acl' = [list |-> AclFrom(entries), from |-> entries, done |-> TRUE]
  /\ UNCHANGED made
NetNext == netaddr_create_host_bin \/ netaddr_acl_from_strarray

-----------------------------------------------------------------------------
(* properties *)

\* The bits of an address, the number they are.
Bit(a, i) == (a.addr[(i - 1) \div ByteBits + 1] \div 2 ^ (ByteBits - 1 - ((i - 1) % ByteBits))) % 2
NumberBit(number, i) == (number[Len(number) - i \div ByteBits] \div 2 ^ (i % ByteBits)) % 2
\* A host made from a prefix and a number lies in the prefix, has the bits of
\* the number as far as both have room and the bits of the prefix's address
\* elsewhere, and truncating it gives the truncated prefix, at every length
\* (netaddr_create_host_bin, netaddr_is_in_subnet, netaddr_truncate).
HostExact ==
  made.done =>
    LET m == made.netmask
        max == netaddr_get_af_maxprefix(m.af)
    IN /\ netaddr_is_in_subnet(m, made.host)
       /\ \A i \in 1..max : Bit(made.host, i) =
            IF i > m.len /\ max - i < Len(made.number) * ByteBits THEN NumberBit(made.number, max - i) ELSE Bit(m, i)
       /\ netaddr_truncate([made.host EXCEPT !.len = m.len]) = netaddr_truncate(m)

\* Whether an address is accepted depends on the prefixes it lies in, bit by
\* bit, and on the last keyword of each kind, never on the order of the
\* entries (netaddr_acl_from_strarray, netaddr_acl_check_accept).
Matches(sign, a) ==
  \E i \in DOMAIN acl.from : /\ acl.from[i].kw = "none" /\ acl.from[i].sign = sign /\ acl.from[i].addr.af = a.af
                             /\ \A b \in 1..acl.from[i].addr.len : Bit(acl.from[i].addr, b) = Bit(a, b)
LastKeyword(kws, def) ==
  LET said == SelectSeq(acl.from, LAMBDA e : e.kw \in kws) IN IF said = <<>> THEN def ELSE Last(said).kw
AclExact ==
  acl.done => \A a \in Hosts : netaddr_acl_check_accept(acl.list, a) <=>
    CASE Matches("+", a) /\ Matches("-", a) -> LastKeyword({"first_accept", "first_reject"}, "first_accept") = "first_accept"
      [] Matches("+", a) /\ ~Matches("-", a) -> TRUE
      [] ~Matches("+", a) /\ Matches("-", a) -> FALSE
      [] OTHER -> LastKeyword({"default_accept", "default_reject"}, "default_reject") = "default_accept"

-----------------------------------------------------------------------------
CONSTANTS IsoNumbers,   \* numbers that are written and read
          Scalings      \* powers of ten: how much of a number is one unit

VARIABLE iso            \* the last number that was written and read again
isoVars == <<iso>>

Fractions == 3          \* digits behind the point at most
Refuse == -1            \* the result of a text that is refused

RECURSIVE LargePrefix(_, _, _), SmallPrefix(_, _, _), Digits(_, _, _)
LargePrefix(number, scaling, place) ==
  IF number \div 1000 >= scaling THEN LargePrefix(number, scaling * 1000, place + 1) ELSE [scaling |-> scaling, prefix |-> place]
SmallPrefix(number, scaling, place) ==
  IF number < scaling /\ scaling >= 1000 THEN SmallPrefix(number, scaling \div 1000, place - 1)
  ELSE [scaling |-> scaling, prefix |-> place]
Digits(n, scaling, fraction) ==
  IF n = 0 \/ fraction = 0 THEN <<>> ELSE <<(n * 10) \div scaling>> \o Digits((n * 10) % scaling, scaling, fraction - 1)
\* Zeros behind the last other digit are cut off, and the point if nothing is left.
Trimmed(digits) ==
  LET used == {i \in DOMAIN digits : digits[i] # 0}
  IN IF used = {} THEN <<>> ELSE SubSeq(digits, 1, CHOOSE i \in used : \A j \in used : j <= i)
_isonumber_u64_to_string(number, scaling, raw) ==
  LET as == CASE raw -> [scaling |-> scaling, prefix |-> 0]
              [] ~raw /\ number >= scaling -> LargePrefix(number, scaling, 0)
              [] OTHER -> SmallPrefix(number, scaling, 0)
  IN [int |-> number \div as.scaling, frac |-> Trimmed(Digits(number % as.scaling, as.scaling, Fractions)), prefix |-> as.prefix]

RECURSIVE Widen(_, _, _), Narrow(_, _)
Widen(num, fraction_scale, scaling) ==
  IF fraction_scale < scaling THEN Widen(num * 10, fraction_scale * 10, scaling) ELSE [num |-> num, fs |-> fraction_scale]

\* Thousands are taken from the prefix first, and from the number when there is none.
Narrow(x, scaling) ==
  IF x.fs > scaling /\ x.fs >= 1000
  THEN Narrow([x EXCEPT !.fs = @ \div 1000, !.factor = IF @ > 1 THEN @ \div 1000 ELSE @,
                        !.num = IF x.factor > 1 THEN @ ELSE @ \div 1000], scaling)
  ELSE x
isonumber_to_u64(text, scaling) ==
  LET wide == Widen(FoldLeft(LAMBDA n, d : n * 10 + d, text.int, text.frac), 10 ^ Len(text.frac), scaling)
      x == Narrow([num |-> wide.num, fs |-> wide.fs, factor |-> 1000 ^ text.prefix], scaling)
  IN CASE text.frac = <<>> /\ text.prefix = 0 -> text.int * scaling
       [] text.prefix < 0 -> Refuse
       [] OTHER -> (x.num * x.factor * scaling) \div x.fs

IsoInit == iso = [number |-> 0, scaling |-> 1, raw |-> TRUE, read |-> 0]
isonumber_from_u64 ==
  /\ iso.number = 0
  /\ \E number \in IsoNumbers, scaling \in Scalings, raw \in BOOLEAN :
       iso' = [number |-> number, scaling |-> scaling, raw |-> raw,
               read |-> isonumber_to_u64(_isonumber_u64_to_string(number, scaling, raw), scaling)]
IsoNext == isonumber_from_u64

\* A number that is written without prefix is read back exactly; with a
\* prefix it comes back rounded down by less than a thousandth, and one that
\* needs a small prefix is refused (isonumber_from_u64, isonumber_to_u64).
IsoRoundTrip ==
  LET lost == iso.number - iso.read
  IN CASE iso.raw -> lost = 0
       [] ~iso.raw /\ iso.read = Refuse -> iso.number < iso.scaling
       [] OTHER -> lost >= 0 /\ lost * 1000 <= iso.number

-----------------------------------------------------------------------------
(* object classes *)

CONSTANTS Blocks,       \* blocks of memory
          BaseSize,     \* size of an object of the class
          Align,        \* sizeof(struct list_entity)
          Extensions,   \* extensions of the class and the size of their fields, 0 for a listener
          MinFree,      \* min_free_count
          MaxEvents     \* bound: calls that change the class or an object

VARIABLES class,        \* the class
          mem,          \* blocks of memory
          objects,      \* history: what listeners should know, and what each was told
          events        \* calls so far
classVars == <<class, mem, objects, events>>

Exts == DOMAIN Extensions
Unused == [size |-> 0, owner |-> "nobody"]
_roundup(size) == ((size + Align - 1) \div Align) * Align
ClassAdded(allocated) ==
  [added |-> TRUE, total |-> _roundup(BaseSize), free |-> <<>>, usage |-> 0, allocated |-> allocated,
   exts |-> <<>>, offset |-> [x \in Exts |-> 0]]
ClassInit ==
  /\ class = [ClassAdded(0) EXCEPT !.added = FALSE]
  /\ mem = [b \in Blocks |-> Unused] /\ events = 0
  /\ objects = [x \in Exts |-> {}]
Event == events < MaxEvents /\ events' = events + 1
Used == {b \in Blocks : mem[b].owner = "user"}

oonf_class_add ==
  /\ ~class.added /\ Event
  /\ class' = ClassAdded(class.allocated) /\ UNCHANGED <<mem, objects>>
\* _free_freelist
Emptied == [b \in Blocks |-> IF b \in ToSet(class.free) THEN Unused ELSE mem[b]]
\* The users of a class remove their objects first.
oonf_class_remove ==
  /\ class.added /\ Used = {} /\ Event
  /\ class' = [class EXCEPT !.added = FALSE, !.free = <<>>, !.exts = <<>>, !.offset = [x \in Exts |-> 0]]
  /\ mem' = Emptied /\ UNCHANGED objects

\* cb_add and cb_remove of all extensions
Told(b) == [x \in Exts |-> IF x \in ToSet(class.exts) THEN objects[x] \cup {b} ELSE objects[x]]
Forgotten(b) == [x \in Exts |-> IF x \in ToSet(class.exts) THEN objects[x] \ {b} ELSE objects[x]]

\* An object is allocated and announced.
oonf_class_malloc ==
  /\ class.added /\ Event
  /\ IF class.free = <<>>
     THEN \E b \in Blocks : /\ mem[b] = Unused /\ \A c \in Blocks : c < b => mem[c] # Unused
                            /\ mem' = [mem EXCEPT ![b] = [size |-> class.total, owner |-> "user"]]
                            /\ class' = [class EXCEPT !.usage = @ + 1, !.allocated = @ + 1]
                            /\ objects' = Told(b)
     ELSE LET b == Head(class.free)
          IN /\ mem' = [mem EXCEPT ![b].owner = "user"]
             /\ class' = [class EXCEPT !.usage = @ + 1, !.free = Tail(@)]
             /\ objects' = Told(b)
\* Its end is announced and its memory is kept or given back.
oonf_class_free(b) ==
  /\ b \in Used /\ Event
  /\ IF Len(class.free) < MinFree \/ Len(class.free) < class.usage \div 10
     THEN /\ mem' = [mem EXCEPT ![b].owner = "list"]
          /\ class' = [class EXCEPT !.usage = @ - 1, !.free = Append(@, b)]
     ELSE mem' = [mem EXCEPT ![b] = Unused] /\ class' = [class EXCEPT !.usage = @ - 1]
  /\ objects' = Forgotten(b)

MayExtend(x) == class.allocated = 0 \/ Extensions[x] = 0
oonf_class_extension_add(x) ==
  /\ class.added /\ x \notin ToSet(class.exts) /\ MayExtend(x) /\ Event
  /\ IF Extensions[x] > 0
     THEN /\ class' = [class EXCEPT !.exts = Append(@, x), !.free = <<>>, !.offset[x] = class.total,
                                    !.total = _roundup(class.total + Extensions[x])]
          /\ mem' = Emptied
     ELSE class' = [class EXCEPT !.exts = Append(@, x)] /\ UNCHANGED mem
  /\ UNCHANGED objects
\* A listener that leaves forgets what it knows.
oonf_class_extension_remove(x) ==
  /\ x \in ToSet(class.exts) /\ Event
  /\ class' = [class EXCEPT !.exts = SelectSeq(@, LAMBDA y : y # x), !.offset[x] = 0]
  /\ objects' = [objects EXCEPT ![x] = {}] /\ UNCHANGED mem

ClassNext ==
  \/ oonf_class_add \/ oonf_class_remove \/ oonf_class_malloc
  \/ \E b \in Blocks : oonf_class_free(b)
  \/ \E x \in Exts : oonf_class_extension_add(x)
  \/ \E x \in Exts : oonf_class_extension_remove(x)

\* Every object, also one of recycled memory, has room for the fields of
\* every extension, and no two of them share a byte with each other or with
\* the object, whatever extensions came and went; and no listener knows an
\* object that is freed (oonf_class_extension_add, oonf_class_malloc).
ExtensionRoom ==
  \A x \in ToSet(class.exts) :
    /\ objects[x] \subseteq Used
    /\ Extensions[x] > 0 =>
         /\ class.offset[x] >= BaseSize
         /\ \A b \in Used \cup ToSet(class.free) : class.offset[x] + Extensions[x] <= mem[b].size
         /\ \A y \in ToSet(class.exts) \ {x} : Extensions[y] > 0 =>
              \/ class.offset[x] + Extensions[x] <= class.offset[y]
              \/ class.offset[y] + Extensions[y] <= class.offset[x]

-----------------------------------------------------------------------------
(* trees *)

CONSTANTS AvlNodes,     \* the nodes, positive numbers
          AvlUses       \* [keys, dups, walks]: the keys of the nodes, allow_dups, whether the tree is walked

VARIABLES avl,          \* the tree
          avlUse,       \* its use
          walk          \* a loop over the tree: avl_for_each_element_safe
avlVars == <<avl, avlUse, walk>>

NULL == 0               \* also the head of the list
avl_init ==
  LET nothing == [n \in AvlNodes |-> 0]
  IN [root |-> NULL, list |-> <<>>, count |-> 0, p |-> nothing, l |-> nothing, r |-> nothing, b |-> nothing,
      f |-> [n \in AvlNodes |-> FALSE]]
comp(k1, k2) == k1 - k2
Place(T, n) == CHOOSE i \in DOMAIN T.list : T.list[i] = n
IsFirst(T, n) == T.list[1] = n
IsLast(T, n) == T.list[Len(T.list)] = n
\* list.next and list.prev, with NULL for the head of the list
Succ(T, n) ==
  IF n = NULL THEN IF T.list = <<>> THEN NULL ELSE T.list[1]
  ELSE IF IsLast(T, n) THEN NULL ELSE T.list[Place(T, n) + 1]
Pred(T, n) ==
  IF n = NULL THEN IF T.list = <<>> THEN NULL ELSE Last(T.list)
  ELSE IF IsFirst(T, n) THEN NULL ELSE T.list[Place(T, n) - 1]

-----------------------------------------------------------------------------
(* search *)

RECURSIVE _avl_find_rec(_, _, _, _)
\* The node where the search ends, in the subtree of a node.
_avl_find_rec(T, key, node, k) ==
  LET diff == comp(k, key[node])
  IN CASE diff < 0 /\ T.l[node] # NULL -> _avl_find_rec(T, key, T.l[node], k)
       [] diff > 0 /\ T.r[node] # NULL -> _avl_find_rec(T, key, T.r[node], k)
       [] OTHER -> node
avl_find(T, key, k) ==
  IF T.root = NULL THEN NULL
  ELSE LET node == _avl_find_rec(T, key, T.root, k) IN IF key[node] = k THEN node ELSE NULL

RECURSIVE DownTo(_, _, _, _), LastUpTo(_, _, _, _), UpTo(_, _, _, _), FirstDownTo(_, _, _, _)
DownTo(T, key, node, k) ==
  IF comp(k, key[node]) >= 0 THEN node ELSE IF IsFirst(T, node) THEN NULL ELSE DownTo(T, key, Pred(T, node), k)
LastUpTo(T, key, node, k) ==
  IF IsLast(T, node) \/ comp(k, key[Succ(T, node)]) < 0 THEN node ELSE LastUpTo(T, key, Succ(T, node), k)

avl_find_lessequal(T, key, k) ==
  IF T.root = NULL THEN NULL
  ELSE LET node == DownTo(T, key, _avl_find_rec(T, key, T.root, k), k)
       IN IF node = NULL THEN NULL ELSE LastUpTo(T, key, node, k)
UpTo(T, key, node, k) ==
  IF comp(k, key[node]) <= 0 THEN node ELSE IF IsLast(T, node) THEN NULL ELSE UpTo(T, key, Succ(T, node), k)
FirstDownTo(T, key, node, k) ==
  IF IsFirst(T, node) \/ comp(k, key[Pred(T, node)]) > 0 THEN node ELSE FirstDownTo(T, key, Pred(T, node), k)
avl_find_greaterequal(T, key, k) ==
  IF T.root = NULL THEN NULL
  ELSE LET node == UpTo(T, key, _avl_find_rec(T, key, T.root, k), k)
       IN IF node = NULL THEN NULL ELSE FirstDownTo(T, key, node, k)

-----------------------------------------------------------------------------
(* links and rotations *)

SetParent(T, n, parent) == IF n = NULL THEN T ELSE [T EXCEPT !.p[n] = parent]
\* The link from above to a node now leads to another one.
Relink(T, parent, from, to) ==
  IF parent = NULL THEN [T EXCEPT !.root = to]
  ELSE IF T.l[parent] = from THEN [T EXCEPT !.l[parent] = to]
  ELSE [T EXCEPT !.r[parent] = to]
_avl_rotate_right(T, node) ==
  LET left == T.l[node]
      inner == T.r[left]
      balance == T.b[node] + 1 - (IF T.b[left] < 0 THEN T.b[left] ELSE 0)
  IN SetParent([Relink(T, T.p[node], node, left) EXCEPT
       !.p[left] = T.p[node], !.p[node] = left, !.l[node] = inner, !.r[left] = node,
       !.b[node] = balance, !.b[left] = T.b[left] + 1 + (IF balance > 0 THEN balance ELSE 0)], inner, node)
_avl_rotate_left(T, node) ==
  LET right == T.r[node]
      inner == T.l[right]
      balance == T.b[node] - 1 - (IF T.b[right] > 0 THEN T.b[right] ELSE 0)
  IN SetParent([Relink(T, T.p[node], node, right) EXCEPT
       !.p[right] = T.p[node], !.p[node] = right, !.r[node] = inner, !.l[right] = node,
       !.b[node] = balance, !.b[right] = T.b[right] - 1 + (IF balance < 0 THEN balance ELSE 0)], inner, node)

-----------------------------------------------------------------------------
(* insertion *)

RECURSIVE _post_insert(_, _)
\* A rotation below a node and one above it.
BentLeft(T, node) == LET turned == _avl_rotate_left(T, node) IN _avl_rotate_right(turned, turned.p[turned.p[node]])
BentRight(T, node) == LET turned == _avl_rotate_right(T, node) IN _avl_rotate_left(turned, turned.p[turned.p[node]])
GrownLeft(T, node, parent) ==
  CASE T.b[parent] = 0 -> T
    [] T.b[parent] = -1 -> _post_insert(T, parent)
    [] T.b[parent] < -1 /\ T.b[node] = -1 -> _avl_rotate_right(T, parent)
    [] OTHER -> BentLeft(T, node)
GrownRight(T, node, parent) ==
  CASE T.b[parent] = 0 -> T
    [] T.b[parent] = 1 -> _post_insert(T, parent)
    [] T.b[parent] > 1 /\ T.b[node] = 1 -> _avl_rotate_left(T, parent)
    [] OTHER -> BentRight(T, node)
\* The subtree of a node has grown.
_post_insert(T, node) ==
  LET parent == T.p[node]
  IN IF parent = NULL THEN T
     ELSE IF node = T.l[parent] THEN GrownLeft([T EXCEPT !.b[parent] = @ - 1], node, parent)
     ELSE GrownRight([T EXCEPT !.b[parent] = @ + 1], node, parent)

RECURSIVE _avl_find_last(_, _)
_avl_find_last(T, last) ==
  IF IsLast(T, last) \/ ~T.f[Succ(T, last)] THEN last ELSE _avl_find_last(T, Succ(T, last))
_avl_insert_before(T, pos, new) == [T EXCEPT !.list = InsertAt(@, Place(T, pos), new), !.count = @ + 1]
_avl_insert_after(T, pos, new) == [T EXCEPT !.list = InsertAt(@, Place(T, pos) + 1, new), !.count = @ + 1]
HangLeft(T, node, new, balance) ==
  [_avl_insert_before(T, node, new) EXCEPT !.p[new] = node, !.l[node] = new, !.b[node] = balance]
HangRight(T, node, new, balance) ==
  [_avl_insert_after(T, _avl_find_last(T, node), new) EXCEPT !.p[new] = node, !.r[node] = new, !.b[node] = balance]
InsertBelow(T, node, new, diff) ==
  CASE T.b[node] = 1 -> HangLeft(T, node, new, 0)
    [] T.b[node] = -1 -> HangRight(T, node, new, 0)
    [] T.b[node] = 0 /\ diff < 0 -> _post_insert(HangLeft(T, node, new, -1), node)
    [] OTHER -> _post_insert(HangRight(T, node, new, 1), node)
InsertAtNode(T, key, dups, node, new) ==
  IF key[new] # key[node] THEN InsertBelow(T, node, new, comp(key[new], key[node]))
  ELSE IF ~dups THEN T
  ELSE [_avl_insert_after(T, node, new) EXCEPT !.f[new] = TRUE]
Inserted(T, key, dups, new) ==
  IF T.root = NULL THEN [T EXCEPT !.list = <<new>>, !.root = new, !.count = 1]
  ELSE InsertAtNode(T, key, dups, _avl_find_rec(T, key, T.root, key[new]), new)

-----------------------------------------------------------------------------
(* removal *)

RECURSIVE _avl_post_remove(_, _)
\* The left (right) subtree of a node is now lower than its balance says.
ShrunkLeft(T, parent) ==
  LET right == T.r[parent]
  IN CASE T.b[parent] = 0 -> _avl_post_remove(T, parent)
       [] T.b[parent] = 1 -> T
       [] T.b[parent] > 1 /\ T.b[right] = 0 -> _avl_rotate_left(T, parent)
       [] OTHER -> LET turned == _avl_rotate_left(IF T.b[right] = 1 THEN T ELSE _avl_rotate_right(T, right), parent)
                   IN _avl_post_remove(turned, turned.p[parent])
ShrunkRight(T, parent) ==
  LET left == T.l[parent]
  IN CASE T.b[parent] = 0 -> _avl_post_remove(T, parent)
       [] T.b[parent] = -1 -> T
       [] T.b[parent] < -1 /\ T.b[left] = 0 -> _avl_rotate_right(T, parent)
       [] OTHER -> LET turned == _avl_rotate_right(IF T.b[left] = -1 THEN T ELSE _avl_rotate_left(T, left), parent)
                   IN _avl_post_remove(turned, turned.p[parent])
\* Mutant: a subtree that got lower after a rotation is not reported upwards.
PostRemoveOnce(T, node) == T
_avl_post_remove(T, node) ==
  LET parent == T.p[node]
  IN IF parent = NULL THEN T
     ELSE IF node = T.l[parent] THEN ShrunkLeft([T EXCEPT !.b[parent] = @ + 1], parent)
     ELSE ShrunkRight([T EXCEPT !.b[parent] = @ - 1], parent)

RECURSIVE _avl_local_min(_, _), _avl_remove_worker(_, _)
_avl_local_min(T, node) == IF T.l[node] = NULL THEN node ELSE _avl_local_min(T, T.l[node])
RemoveLeaf(T, node, parent) ==
  CASE parent = NULL -> [T EXCEPT !.root = NULL]
    [] parent # NULL /\ T.l[parent] = node -> ShrunkLeft([T EXCEPT !.l[parent] = NULL, !.b[parent] = @ + 1], parent)
    [] OTHER -> ShrunkRight([T EXCEPT !.r[parent] = NULL, !.b[parent] = @ - 1], parent)
RemoveSingle(T, node, child) == _avl_post_remove(SetParent(Relink(T, T.p[node], node, child), child, T.p[node]), child)
\* Another node takes the place of a node in the tree.
Replace(T, node, other) ==
  SetParent(SetParent([Relink(T, T.p[node], node, other) EXCEPT
    !.b[other] = T.b[node], !.p[other] = T.p[node], !.l[other] = T.l[node], !.r[other] = T.r[node]],
    T.l[node], other), T.r[node], other)
_avl_remove_worker(T, node) ==
  CASE T.l[node] = NULL /\ T.r[node] = NULL -> RemoveLeaf(T, node, T.p[node])
    [] T.l[node] = NULL /\ T.r[node] # NULL -> RemoveSingle(T, node, T.r[node])
    [] T.l[node] # NULL /\ T.r[node] = NULL -> RemoveSingle(T, node, T.l[node])
    [] OTHER -> LET min == _avl_local_min(T, T.r[node]) IN Replace(_avl_remove_worker(T, min), node, min)
Unlinked(T, dups, node) ==
  CASE T.f[node] -> T
    [] ~T.f[node] /\ dups /\ ~IsLast(T, node) /\ T.f[Succ(T, node)] ->
         LET next == Succ(T, node) IN Replace([T EXCEPT !.f[next] = FALSE], node, next)
    [] OTHER -> _avl_remove_worker(T, node)
_avl_remove(T, node) ==
  [T EXCEPT !.list = SelectSeq(@, LAMBDA n : n # node), !.count = @ - 1,
            !.p[node] = 0, !.l[node] = 0, !.r[node] = 0, !.b[node] = 0, !.f[node] = FALSE]
Removed(T, dups, node) == _avl_remove(Unlinked(T, dups, node), node)

-----------------------------------------------------------------------------
(* the users of a tree *)

Members == ToSet(avl.list)
NoWalk == [on |-> FALSE, element |-> NULL, ptr |-> NULL, seen |-> <<>>, must |-> {}]
AvlInit == avl = avl_init /\ walk = NoWalk /\ avlUse \in AvlUses
Usable == {n \in AvlNodes : n \in DOMAIN avlUse.keys}

avl_insert(n) ==
  /\ ~walk.on /\ n \in Usable \ Members
  /\ avl' = Inserted(avl, avlUse.keys, avlUse.dups, n)
  /\ UNCHANGED <<avlUse, walk>>
avl_remove(n) ==
  /\ ~walk.on /\ n \in Members
  /\ avl' = Removed(avl, avlUse.dups, n)
  /\ UNCHANGED <<avlUse, walk>>
avl_remove_all_elements ==
  /\ ~walk.on /\ Members # {}
  /\ avl' = avl_init
  /\ UNCHANGED <<avlUse, walk>>

\* A safe loop: its body may remove the element it is called with, and add
\* or remove others except the one that comes next.
avl_for_each_element_safe ==
  /\ avlUse.walks /\ ~walk.on
  /\ walk' = [on |-> TRUE, element |-> Succ(avl, NULL), ptr |-> Succ(avl, Succ(avl, NULL)), seen |-> <<>>, must |-> Members]
  /\ UNCHANGED <<avl, avlUse>>

LoopGoesOn == Pred(avl, walk.element) # Pred(avl, NULL)
Advance(must) ==
  walk' = [walk EXCEPT !.element = walk.ptr, !.ptr = Succ(avl', walk.ptr), !.seen = Append(@, walk.element), !.must = must]
LoopBody ==
  /\ walk.on /\ LoopGoesOn
  /\ \/ UNCHANGED avl /\ Advance(walk.must)
     \/ \E n \in Members \ {walk.ptr} : avl' = Removed(avl, avlUse.dups, n) /\ Advance(walk.must \ {n})
     \/ \E n \in Usable \ Members : avl' = Inserted(avl, avlUse.keys, avlUse.dups, n) /\ Advance(walk.must)
  /\ UNCHANGED avlUse
LoopEnd ==
  /\ walk.on /\ ~LoopGoesOn
  /\ walk' = [walk EXCEPT !.on = FALSE, !.element = NULL, !.ptr = NULL]
  /\ UNCHANGED <<avl, avlUse>>

AvlNext ==
  \/ \E n \in AvlNodes : avl_insert(n)
  \/ \E n \in AvlNodes : avl_remove(n)
  \/ avl_remove_all_elements
  \/ avl_for_each_element_safe \/ LoopBody \/ LoopEnd

-----------------------------------------------------------------------------
(* properties *)

RECURSIVE Height(_, _), InOrder(_, _)
Height(T, n) == IF n = NULL THEN 0 ELSE 1 + Max({Height(T, T.l[n]), Height(T, T.r[n])})
InOrder(T, n) == IF n = NULL THEN <<>> ELSE InOrder(T, T.l[n]) \o <<n>> \o InOrder(T, T.r[n])

\* After any sequence of insertions and removals, with and without nodes of
\* the same key, the tree is balanced as its nodes say, its links fit
\* together, and it holds the first node of every key in order
\* (avl_insert, avl_remove).
AvlSound ==
  LET first == SelectSeq(avl.list, LAMBDA n : ~avl.f[n])
  IN /\ InOrder(avl, avl.root) = first
     /\ \A n \in ToSet(first) :
          /\ avl.b[n] = Height(avl, avl.r[n]) - Height(avl, avl.l[n]) /\ avl.b[n] \in -1..1
          /\ \A c \in {avl.l[n], avl.r[n]} \ {NULL} : avl.p[c] = n
     /\ avl.root # NULL => avl.p[avl.root] = NULL
     /\ avl.count = Len(avl.list)
     /\ \A i \in 2..Len(avl.list) : LET a == avlUse.keys[avl.list[i - 1]]
                                        b == avlUse.keys[avl.list[i]]
                                    IN a <= b /\ (avl.f[avl.list[i]] <=> a = b)

\* A search finds the first node of a key, the last one of the greatest key
\* that is not greater, and the first one of the smallest key that is not
\* smaller (avl_find, avl_find_lessequal, avl_find_greaterequal).
FindExact ==
  \A k \in 0..Cardinality(AvlNodes) + 1 :
    LET upto == SelectSeq(avl.list, LAMBDA n : avlUse.keys[n] <= k)
        from == SelectSeq(avl.list, LAMBDA n : avlUse.keys[n] >= k)
        isk(n) == avlUse.keys[n] = k
    IN /\ avl_find_lessequal(avl, avlUse.keys, k) = IF upto = <<>> THEN NULL ELSE Last(upto)
       /\ avl_find_greaterequal(avl, avlUse.keys, k) = IF from = <<>> THEN NULL ELSE from[1]
       /\ avl_find(avl, avlUse.keys, k) = IF from # <<>> /\ isk(from[1]) THEN from[1] ELSE NULL

\* A safe loop over a tree calls its body once for every node that is in the
\* tree all the time, whatever the body adds and removes
\* (avl_for_each_element_safe).
LoopVisitsAll ==
  ~walk.on => \A n \in walk.must : Cardinality({i \in DOMAIN walk.seen : walk.seen[i] = n}) = 1
=============================================================================
