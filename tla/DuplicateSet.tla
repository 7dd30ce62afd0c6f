---------------------------- MODULE DuplicateSet ----------------------------
(***************************************************************************)
(* The duplicate set of OONF (src/src/base/oonf_duplicate_set.c).          *)
(*                                                                         *)
(* For every key (originator address, message type) the set remembers the  *)
(* newest sequence number and a bit window of the numbers just below it.   *)
(* OLSRv2 asks it for every TC whether the message is to be processed and  *)
(* whether it is to be forwarded, so an error here either loses topology   *)
(* information or lets a flooded message circulate.                        *)
(*                                                                         *)
(* Sequence numbers roll over.  The model sends ABSOLUTE numbers, the code *)
(* sees them modulo SeqSpace.  base and got are history variables on the     *)
(* absolute side; the code's own state never reads them.                   *)
(***************************************************************************)
EXTENDS Integers, FiniteSets

CONSTANTS
    Keys,         \* the (originator, message type) pairs
    SeqSpace,       \* _mask + 1: 2^8, 2^16 or 2^32
    Window,       \* 32, the numbers that are told apart (diff < -31 is too old)
    HistoryBits,  \* 64, the width of the history word
    MaxTooOld,    \* OONF_DUPSET_MAXIMUM_TOO_OLD
    AbsNumbers    \* the absolute numbers originators send (bound for TLC)

ASSUME DupsetAssumption ==
    /\ SeqSpace \in Nat /\ Window \in Nat /\ HistoryBits \in Nat
    /\ MaxTooOld \in Nat
    /\ Window > 0
    /\ HistoryBits >= Window
    /\ SeqSpace % 2 = 0
    /\ SeqSpace >= 2 * Window
    /\ AbsNumbers \subseteq Int

VARIABLES
    tree,       \* the keys that have an entry
    current,    \* [Keys -> 0..SeqSpace-1]  newest number
    history,    \* [Keys -> SUBSET bit positions]
    tooOld,     \* [Keys -> Nat]  too_old_count
    last,       \* the last call and its answer
    base,       \* history variable: the absolute number behind current
    got         \* history variable: absolute numbers accepted by this entry

vars == <<tree, current, history, tooOld, last, base, got>>

Results == {"TOO_OLD", "DUPLICATE", "NEW", "CURRENT", "NEWEST", "FIRST"}

oonf_duplicate_is_new(result) == result \in {"NEW", "NEWEST", "FIRST"}

(* set->_mask / 2 *)
Limit == (SeqSpace - 1) \div 2

-----------------------------------------------------------------------------

(* The signed distance of two sequence numbers, rollover eliminated. *)
_seqno_difference(seqno1, seqno2) ==
    LET reldiff == (seqno1 - seqno2) % SeqSpace
    IN  IF reldiff > Limit THEN reldiff - SeqSpace ELSE reldiff

(* The answer of _test for entry k. *)
TestResult(k, seqno) ==
    LET diff == _seqno_difference(seqno, current[k])
    IN  IF seqno = current[k] THEN "CURRENT"
        ELSE IF diff < 1 - Window
             THEN IF tooOld[k] + 1 > MaxTooOld THEN "NEWEST" ELSE "TOO_OLD"
        ELSE IF diff <= 0
             THEN IF -diff \in history[k] THEN "DUPLICATE" ELSE "NEW"
        ELSE "NEWEST"

(* A long series of old numbers: _test assumes the originator restarted. *)
IsReset(k, seqno) ==
    /\ seqno # current[k]
    /\ _seqno_difference(seqno, current[k]) < 1 - Window
    /\ tooOld[k] + 1 > MaxTooOld

(* Error: the window is not moved when a newer number arrives. *)
ShiftForgotten(h, d) == h

(* entry->history << d, in a word of HistoryBits bits *)
ShiftLeft(h, d) == {j \in 0..HistoryBits - 1 : j - d \in h}

(* The entry that _test(..., set) leaves behind. *)
TestCurrent(k, seqno, set) ==
    IF IsReset(k, seqno) \/ (set /\ TestResult(k, seqno) = "NEWEST")
    THEN seqno ELSE current[k]

(* Error: _test does not mark a number inside the window as received. *)
HistoryWithoutMark(k, seqno, set) ==
    LET diff == _seqno_difference(seqno, current[k])
    IN  CASE IsReset(k, seqno) -> {0}
          [] ~IsReset(k, seqno) /\ set /\ TestResult(k, seqno) = "NEWEST"
               -> IF diff >= Window THEN {0} ELSE ShiftLeft(history[k], diff) \cup {0}
          [] OTHER -> history[k]

TestHistory(k, seqno, set) ==
    LET diff == _seqno_difference(seqno, current[k])
    IN  CASE IsReset(k, seqno) -> {0}
          [] ~IsReset(k, seqno) /\ set /\ TestResult(k, seqno) = "NEW"
               -> history[k] \cup {-diff}
          [] ~IsReset(k, seqno) /\ set /\ TestResult(k, seqno) = "NEWEST"
               -> IF diff >= Window THEN {0} ELSE ShiftLeft(history[k], diff) \cup {0}
          [] OTHER -> history[k]

TestTooOld(k, seqno) ==
    CASE TestResult(k, seqno) = "CURRENT" -> tooOld[k]
      [] TestResult(k, seqno) = "TOO_OLD" -> tooOld[k] + 1
      [] OTHER -> 0

-----------------------------------------------------------------------------
Init ==
    /\ tree = {}
    /\ current = [k \in Keys |-> 0]
    /\ history = [k \in Keys |-> {}]
    /\ tooOld = [k \in Keys |-> 0]
    /\ last = [call |-> "none"]
    /\ base = [k \in Keys |-> 0]
    /\ got = [k \in Keys |-> {}]

(* A 16 bit number stands for the one absolute number nearest to base: an   *)
(* originator further away than half the number space, or one that lost     *)
(* its counter, is seen as this number.                                     *)
Within(k, n) == n - base[k] \in -(SeqSpace \div 2) .. SeqSpace \div 2 - 1

Answer(k, n, r) ==
    last' = [call |-> "add", key |-> k, n |-> n, result |-> r,
             seen |-> k \in tree /\ n \in got[k], newest |-> base[k],
             reset |-> k \in tree /\ IsReset(k, n % SeqSpace)]

(* oonf_duplicate_entry_add for a key without entry *)
AddFirst(k, n) ==
    /\ k \notin tree
    /\ tree' = tree \cup {k}
    /\ current' = [current EXCEPT ![k] = n % SeqSpace]
    /\ history' = [history EXCEPT ![k] = {0}]
    /\ tooOld' = [tooOld EXCEPT ![k] = 0]
    /\ base' = [base EXCEPT ![k] = n]
    /\ got' = [got EXCEPT ![k] = {n}]
    /\ Answer(k, n, "FIRST")

(* ... when oonf_class_malloc fails *)
AddNoMemory(k, n) ==
    /\ k \notin tree
    /\ Answer(k, n, "TOO_OLD")
    /\ UNCHANGED <<tree, current, history, tooOld, base, got>>

(* oonf_duplicate_entry_add for a known key *)
AddKnown(k, n) ==
    /\ k \in tree
    /\ Within(k, n)
    /\ LET seqno == n % SeqSpace
           result == TestResult(k, seqno)
       IN  /\ current' = [current EXCEPT ![k] = TestCurrent(k, seqno, TRUE)]
           /\ history' = [history EXCEPT ![k] = TestHistory(k, seqno, TRUE)]
           /\ tooOld' = [tooOld EXCEPT ![k] = TestTooOld(k, seqno)]
           /\ base' = [base EXCEPT ![k] = IF result = "NEWEST" THEN n ELSE @]
           /\ got' = [got EXCEPT ![k] =
                IF IsReset(k, seqno) THEN {n}
                ELSE IF oonf_duplicate_is_new(result) THEN @ \cup {n} ELSE @]
           /\ Answer(k, n, result)
    /\ UNCHANGED tree

(* _cb_vtime / _remove_duplicate_entry: the entry's validity time is over *)
Expire(k) ==
    /\ k \in tree
    /\ tree' = tree \ {k}
    /\ last' = [call |-> "vtime"]
    /\ UNCHANGED <<current, history, tooOld, base, got>>

(* oonf_duplicate_set_remove *)
oonf_duplicate_set_remove ==
    /\ tree # {}
    /\ tree' = {}
    /\ last' = [call |-> "remove"]
    /\ UNCHANGED <<current, history, tooOld, base, got>>

oonf_duplicate_entry_add(k, n) ==
    AddFirst(k, n) \/ AddNoMemory(k, n) \/ AddKnown(k, n)

Next ==
    \/ \E k \in Keys, n \in AbsNumbers : oonf_duplicate_entry_add(k, n)
    \/ \E k \in Keys : Expire(k)
    \/ oonf_duplicate_set_remove

Spec == Init /\ [][Next]_vars

TypeOK ==
    /\ tree \in SUBSET Keys
    /\ current \in [Keys -> 0..SeqSpace - 1]
    /\ history \in [Keys -> SUBSET (0..HistoryBits - 1)]
    /\ tooOld \in [Keys -> 0..MaxTooOld]
    /\ base \in [Keys -> Int]
    /\ got \in [Keys -> SUBSET Int]

(***************************************************************************)
(* The bit window is exact: whatever was shifted, reset or rolled over,    *)
(* bit i of an entry's history says whether the number i below the newest  *)
(* one was accepted by this entry, for all 32 positions _test looks at.    *)
(***************************************************************************)
WindowExact ==
    \A k \in tree :
        /\ current[k] = base[k] % SeqSpace
        /\ \A i \in 0..Window - 1 : i \in history[k] <=> base[k] - i \in got[k]
        /\ base[k] \in got[k]
        /\ \A n \in got[k] : n <= base[k]

(***************************************************************************)
(* A message the set declares new has not been accepted before by the same *)
(* entry: no TC is processed or forwarded twice while the entry lives and  *)
(* the originator is not taken for restarted.                              *)
(***************************************************************************)
NoDoubleAccept ==
    last.call = "add" /\ oonf_duplicate_is_new(last.result) /\ ~last.reset
        => ~last.seen

(***************************************************************************)
(* A message the set rejects as duplicate (or as the current one) really   *)
(* was accepted before: no TC is lost to a stale bit of the window.        *)
(***************************************************************************)
NoFalseDuplicate ==
    last.call = "add" /\ last.result \in {"DUPLICATE", "CURRENT"} => last.seen

(***************************************************************************)
(* A message of a known originator is called too old only when it is       *)
(* outside the window of 32 numbers (or when memory ran out).              *)
(***************************************************************************)
TooOldOnlyOutsideWindow ==
    last.call = "add" /\ last.result = "TOO_OLD" /\ last.key \in tree
        => last.newest - last.n >= Window

(***************************************************************************)
(* What oonf_duplicate_entry_add answers is right in all three ways.       *)
(***************************************************************************)
AnswersRight == NoDoubleAccept /\ NoFalseDuplicate /\ TooOldOnlyOutsideWindow
=============================================================================
