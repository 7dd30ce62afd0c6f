------------------------- MODULE DuplicateSetProofs -------------------------
(***************************************************************************)
(* The window of the duplicate set is exact for every number space, window *)
(* length and restart threshold.                                           *)
(***************************************************************************)
EXTENDS DuplicateSet, TLAPS

(* What the division theorem gives for one number. *)
LEMMA ModDivision ==
    ASSUME NEW M \in Nat, M > 0, NEW a \in Int
    PROVE  /\ a \div M \in Int
           /\ a % M \in 0..M - 1
           /\ a = M * (a \div M) + (a % M)
  OBVIOUS

(* The remainder is unique. *)
LEMMA ModUnique ==
    ASSUME NEW M \in Nat, M > 0, NEW a \in Int,
           NEW q \in Int, NEW r \in 0..M - 1, a = M * q + r
    PROVE  a % M = r
  OBVIOUS

(* Half of an even number space. *)
LEMMA LimitIsHalf ==
    /\ SeqSpace \div 2 \in Nat
    /\ SeqSpace = 2 * (SeqSpace \div 2)
    /\ SeqSpace \div 2 >= Window
    /\ Limit = (SeqSpace \div 2) - 1
<1>1. /\ SeqSpace \in Nat /\ SeqSpace % 2 = 0 /\ SeqSpace >= 2 * Window
      /\ Window \in Nat /\ Window > 0
  BY DupsetAssumption
<1>2. SeqSpace = 2 * (SeqSpace \div 2) /\ SeqSpace \div 2 \in Nat
  BY <1>1
<1>3. (SeqSpace - 1) \div 2 = (SeqSpace \div 2) - 1
  BY <1>1, <1>2
<1> QED BY <1>1, <1>2, <1>3 DEF Limit

(***************************************************************************)
(* _seqno_difference recovers the distance of two absolute numbers from    *)
(* their remainders, as long as they are at most half the space apart.     *)
(***************************************************************************)
THEOREM DifferenceCorrect ==
    ASSUME NEW n \in Int, NEW b \in Int,
           n - b \in -(SeqSpace \div 2) .. SeqSpace \div 2 - 1
    PROVE  _seqno_difference(n % SeqSpace, b % SeqSpace) = n - b
<1> DEFINE M == SeqSpace
           H == SeqSpace \div 2
           qn == n \div M
           qb == b \div M
           rn == n % M
           rb == b % M
<1>1. M \in Nat /\ M > 0 /\ H \in Nat /\ M = 2 * H /\ Limit = H - 1
  BY DupsetAssumption, LimitIsHalf
<1>2. /\ qn \in Int /\ rn \in 0..M - 1 /\ n = M * qn + rn
      /\ qb \in Int /\ rb \in 0..M - 1 /\ b = M * qb + rb
  BY <1>1, ModDivision
<1>3. rn \in Int /\ rb \in Int /\ rn - rb \in Int
  BY <1>1, <1>2
<1>4. n - b \in Int /\ -H <= n - b /\ n - b <= H - 1
  BY <1>1
<1> HIDE DEF M, H, qn, qb, rn, rb
<1>5. rn - rb = M * (qb - qn) + (n - b)
  BY <1>1, <1>2, <1>3
<1>6. CASE n - b >= 0
  <2>1. n - b \in 0..M - 1
    BY <1>6, <1>1, <1>4
  <2>2. qb - qn \in Int
    BY <1>2
  <2>3. (rn - rb) % M = n - b
    BY <2>1, <2>2, <1>5, <1>3, <1>1, ModUnique
  <2> QED BY <2>3, <1>4, <1>1 DEF _seqno_difference, M, rn, rb, H
<1>7. CASE n - b < 0
  <2>1. n - b + M \in 0..M - 1 /\ rn - rb = M * (qb - qn - 1) + (n - b + M)
    BY <1>7, <1>1, <1>2, <1>4, <1>5
  <2>2. qb - qn - 1 \in Int
    BY <1>2
  <2>3. (rn - rb) % M = n - b + M
    BY <2>1, <2>2, <1>3, <1>1, ModUnique
  <2> QED BY <2>3, <1>4, <1>1, <1>7 DEF _seqno_difference, M, rn, rb, H
<1> QED BY <1>4, <1>6, <1>7

-----------------------------------------------------------------------------
(***************************************************************************)
(* How _test classifies a number that is d = n - base away from the newest *)
(* one: the code's answers in terms of the absolute distance.              *)
(***************************************************************************)
LEMMA Classification ==
    ASSUME TypeOK, WindowExact,
           NEW k \in tree, NEW n \in Int, Within(k, n)
    PROVE  LET d == n - base[k]
               s == n % SeqSpace
           IN  /\ d \in Int
               /\ _seqno_difference(s, current[k]) = d
               /\ s = current[k] <=> d = 0
               /\ s \in 0..SeqSpace - 1
               /\ IsReset(k, s) <=> (d < 1 - Window /\ tooOld[k] + 1 > MaxTooOld)
               /\ d = 0 => TestResult(k, s) = "CURRENT"
               /\ IsReset(k, s) => TestResult(k, s) = "NEWEST"
               /\ d < 1 - Window /\ ~IsReset(k, s) => TestResult(k, s) = "TOO_OLD"
               /\ d < 0 /\ d >= 1 - Window /\ -d \in history[k]
                    => TestResult(k, s) = "DUPLICATE"
               /\ d < 0 /\ d >= 1 - Window /\ -d \notin history[k]
                    => TestResult(k, s) = "NEW"
               /\ d > 0 => TestResult(k, s) = "NEWEST" /\ ~IsReset(k, s)
<1> DEFINE d == n - base[k]
           s == n % SeqSpace
<1>1. k \in Keys /\ base[k] \in Int /\ current[k] = base[k] % SeqSpace /\ tooOld[k] \in Int
  BY DupsetAssumption DEF TypeOK, WindowExact
<1>2. d \in Int /\ s \in 0..SeqSpace - 1 /\ Window \in Nat /\ Window > 0 /\ SeqSpace \in Nat
      /\ MaxTooOld \in Nat /\ SeqSpace > 0
  BY <1>1, DupsetAssumption, ModDivision
<1>3. _seqno_difference(s, current[k]) = d
  BY <1>1, DifferenceCorrect DEF Within
<1>4. s = current[k] => d = 0
  <2> SUFFICES ASSUME s = current[k] PROVE d = 0
    OBVIOUS
  <2>1. s - current[k] = 0
    BY <1>1, <1>2
  <2>2. 0 % SeqSpace = 0
    BY <1>2
  <2>3. ~(0 > Limit)
    BY LimitIsHalf, <1>2
  <2> HIDE DEF s, d
  <2> QED BY <2>1, <2>2, <2>3, <1>3 DEF _seqno_difference
<1>5. d = 0 => s = current[k]
  BY <1>1
<1> HIDE DEF d, s
<1>6. IsReset(k, s) <=> (d < 1 - Window /\ tooOld[k] + 1 > MaxTooOld)
  BY <1>2, <1>3, <1>4 DEF IsReset
<1>7. /\ d = 0 => TestResult(k, s) = "CURRENT"
      /\ IsReset(k, s) => TestResult(k, s) = "NEWEST"
      /\ d < 1 - Window /\ ~IsReset(k, s) => TestResult(k, s) = "TOO_OLD"
      /\ d < 0 /\ d >= 1 - Window /\ -d \in history[k]
           => TestResult(k, s) = "DUPLICATE"
      /\ d < 0 /\ d >= 1 - Window /\ -d \notin history[k]
           => TestResult(k, s) = "NEW"
      /\ d > 0 => TestResult(k, s) = "NEWEST" /\ ~IsReset(k, s)
  BY <1>2, <1>3, <1>4, <1>5, <1>6 DEF TestResult
<1> QED BY <1>2, <1>3, <1>4, <1>5, <1>6, <1>7 DEF d, s

(* The part of WindowExact that speaks about one entry. *)
Exact(c, h, b, g) ==
    /\ c = b % SeqSpace
    /\ \A i \in 0..Window - 1 : i \in h <=> b - i \in g
    /\ b \in g
    /\ \A n \in g : n <= b

(***************************************************************************)
(* The heart of the proof: an entry that is exact is exact after           *)
(* oonf_duplicate_entry_add, whichever answer _test gives.                 *)
(***************************************************************************)
LEMMA AddKnownKeepsExact ==
    ASSUME TypeOK, WindowExact,
           NEW k \in tree, NEW n \in AbsNumbers, AddKnown(k, n)
    PROVE  /\ Exact(current'[k], history'[k], base'[k], got'[k])
           /\ current'[k] \in 0..SeqSpace - 1
           /\ history'[k] \in SUBSET (0..HistoryBits - 1)
           /\ tooOld'[k] \in 0..MaxTooOld
           /\ base'[k] \in Int
           /\ got'[k] \in SUBSET Int
<1> DEFINE d == n - base[k]
           s == n % SeqSpace
           r == TestResult(k, s)
<1>1. /\ n \in Int /\ Within(k, n) /\ k \in Keys
      /\ Window \in Nat /\ Window > 0 /\ HistoryBits \in Nat /\ HistoryBits >= Window
      /\ SeqSpace \in Nat /\ SeqSpace > 0 /\ MaxTooOld \in Nat
  BY DupsetAssumption DEF AddKnown, TypeOK
<1>2. /\ base[k] \in Int /\ got[k] \in SUBSET Int /\ tooOld[k] \in 0..MaxTooOld
      /\ history[k] \in SUBSET (0..HistoryBits - 1) /\ current[k] \in 0..SeqSpace - 1
      /\ Exact(current[k], history[k], base[k], got[k])
  BY <1>1 DEF TypeOK, WindowExact, Exact
<1>3. /\ current'[k] = TestCurrent(k, s, TRUE)
      /\ history'[k] = TestHistory(k, s, TRUE)
      /\ tooOld'[k] = TestTooOld(k, s)
      /\ base'[k] = IF r = "NEWEST" THEN n ELSE base[k]
      /\ got'[k] = IF IsReset(k, s) THEN {n}
                   ELSE IF oonf_duplicate_is_new(r) THEN got[k] \cup {n} ELSE got[k]
  BY <1>1 DEF AddKnown, TypeOK
<1>4. /\ d \in Int /\ _seqno_difference(s, current[k]) = d /\ s \in 0..SeqSpace - 1
      /\ IsReset(k, s) <=> (d < 1 - Window /\ tooOld[k] + 1 > MaxTooOld)
      /\ d = 0 => r = "CURRENT"
      /\ IsReset(k, s) => r = "NEWEST"
      /\ d < 1 - Window /\ ~IsReset(k, s) => r = "TOO_OLD"
      /\ d < 0 /\ d >= 1 - Window /\ -d \in history[k] => r = "DUPLICATE"
      /\ d < 0 /\ d >= 1 - Window /\ -d \notin history[k] => r = "NEW"
      /\ d > 0 => r = "NEWEST" /\ ~IsReset(k, s)
  BY <1>1, Classification
<1>5. n = base[k] + d /\ s = n % SeqSpace
  BY <1>1, <1>2
<1> HIDE DEF d, s, r
<1>6. CASE IsReset(k, s)
  <2>1. /\ current'[k] = s /\ history'[k] = {0} /\ tooOld'[k] = 0
        /\ base'[k] = n /\ got'[k] = {n}
    BY <1>3, <1>4, <1>6 DEF TestCurrent, TestHistory, TestTooOld, r
  <2> QED BY <2>1, <1>1, <1>4, <1>5 DEF Exact
<1>7. CASE d = 0 \/ (d < 1 - Window /\ ~IsReset(k, s))
           \/ (d < 0 /\ d >= 1 - Window /\ -d \in history[k])
  <2>1. ~IsReset(k, s) /\ r \in {"CURRENT", "TOO_OLD", "DUPLICATE"}
    BY <1>1, <1>4, <1>7
  <2>2. r = "TOO_OLD" => tooOld[k] + 1 <= MaxTooOld
    BY <1>1, <1>2, <1>4, <1>7
  <2>3. /\ current'[k] = current[k] /\ history'[k] = history[k]
        /\ base'[k] = base[k] /\ got'[k] = got[k]
    BY <1>3, <2>1 DEF TestCurrent, TestHistory, oonf_duplicate_is_new, r
  <2>4. tooOld'[k] \in 0..MaxTooOld
    BY <1>1, <1>2, <1>3, <2>1, <2>2 DEF TestTooOld, r
  <2> QED BY <2>3, <2>4, <1>2
<1>8. CASE d < 0 /\ d >= 1 - Window /\ -d \notin history[k]
  <2>1. ~IsReset(k, s) /\ r = "NEW"
    BY <1>1, <1>4, <1>8
  <2>2. /\ current'[k] = current[k] /\ history'[k] = history[k] \cup {-d}
        /\ base'[k] = base[k] /\ got'[k] = got[k] \cup {n} /\ tooOld'[k] = 0
    BY <1>3, <1>4, <2>1
       DEF TestCurrent, TestHistory, TestTooOld, oonf_duplicate_is_new, r
  <2>3. -d \in 0..Window - 1 /\ -d \in 0..HistoryBits - 1
    BY <1>1, <1>4, <1>8
  <2>4. ASSUME NEW i \in 0..Window - 1
        PROVE  i \in history'[k] <=> base'[k] - i \in got'[k]
    BY <2>2, <1>1, <1>2, <1>4, <1>5 DEF Exact
  <2>5. ASSUME NEW m \in got'[k] PROVE m <= base'[k]
    BY <2>2, <1>2, <1>4, <1>5, <1>8 DEF Exact
  <2> QED BY <2>2, <2>3, <2>4, <2>5, <1>1, <1>2 DEF Exact
<1>9. CASE d > 0
  <2>1. ~IsReset(k, s) /\ r = "NEWEST"
    BY <1>1, <1>4, <1>9
  <2>2. /\ current'[k] = s /\ base'[k] = n /\ got'[k] = got[k] \cup {n}
        /\ tooOld'[k] = 0
        /\ history'[k] = IF d >= Window THEN {0} ELSE ShiftLeft(history[k], d) \cup {0}
    BY <1>3, <1>4, <2>1
       DEF TestCurrent, TestHistory, TestTooOld, oonf_duplicate_is_new, r
  <2>3. history'[k] \in SUBSET (0..HistoryBits - 1)
    BY <2>2, <1>1 DEF ShiftLeft
  <2>4. ASSUME NEW i \in 0..Window - 1
        PROVE  i \in history'[k] <=> n - i \in got'[k]
    <3>1. i \in 0..HistoryBits - 1 /\ i \in Int /\ n - i \in Int
      BY <1>1
    <3>2. CASE i = 0
      BY <3>2, <2>2, <1>1
    <3>3. CASE i # 0 /\ i < d
      <4>1. n - i > base[k] /\ n - i # n
        BY <3>1, <3>3, <1>1, <1>2, <1>4, <1>5
      <4>2. n - i \notin got'[k]
        BY <4>1, <3>1, <2>2, <1>2 DEF Exact
      <4>3. i - d < 0
        BY <3>3, <3>1, <1>4
      <4>4. i - d \notin history[k]
        BY <4>3, <1>1, <1>2, <1>4, <3>1
      <4> QED BY <4>2, <4>4, <3>3, <2>2 DEF ShiftLeft
    <3>4. CASE i >= d
      <4>1. d < Window /\ i - d \in 0..Window - 1 /\ base[k] - (i - d) = n - i /\ i # 0
        BY <3>1, <3>4, <1>1, <1>2, <1>4, <1>5, <1>9
      <4>2. i - d \in history[k] <=> n - i \in got[k]
        BY <4>1, <1>2 DEF Exact
      <4>3. i \in history'[k] <=> i - d \in history[k]
        BY <4>1, <3>1, <2>2, <1>1, <1>4 DEF ShiftLeft
      <4>4. n - i # n
        BY <4>1, <3>1, <1>1
      <4> QED BY <4>2, <4>3, <4>4, <2>2
    <3> QED BY <3>1, <3>2, <3>3, <3>4, <1>4
  <2>5. ASSUME NEW m \in got'[k] PROVE m <= n
    BY <2>2, <1>1, <1>2, <1>4, <1>5, <1>9 DEF Exact
  <2> QED BY <2>2, <2>3, <2>4, <2>5, <1>1, <1>2, <1>4, <1>5 DEF Exact
<1> QED BY <1>1, <1>4, <1>6, <1>7, <1>8, <1>9

IInv == TypeOK /\ WindowExact

(* Every step of the duplicate set keeps its entries exact. *)
LEMMA IInvInductive ==
    IInv /\ [Next]_vars => IInv'
<1> SUFFICES ASSUME TypeOK, WindowExact, [Next]_vars PROVE IInv'
  BY DEF IInv
<1> USE DEF IInv
<1>1. ASSUME NEW k \in Keys, NEW n \in AbsNumbers, AddFirst(k, n) PROVE IInv'
  <2>1. n \in Int /\ n % SeqSpace \in 0..SeqSpace - 1 /\ Window \in Nat /\ Window > 0
        /\ HistoryBits \in Nat /\ HistoryBits >= Window /\ MaxTooOld \in Nat
    BY DupsetAssumption, ModDivision
  <2>2. TypeOK'
    BY <1>1, <2>1 DEF AddFirst, TypeOK
  <2>3. WindowExact'
    BY <1>1, <2>1 DEF AddFirst, TypeOK, WindowExact
  <2> QED BY <2>2, <2>3
<1>2. ASSUME NEW k \in Keys, NEW n \in AbsNumbers, AddNoMemory(k, n) PROVE IInv'
  BY <1>2 DEF AddNoMemory, TypeOK, WindowExact
<1>3. ASSUME NEW k \in Keys, NEW n \in AbsNumbers, AddKnown(k, n) PROVE IInv'
  <2>1. k \in tree /\ tree' = tree
    BY <1>3 DEF AddKnown
  <2>2. /\ Exact(current'[k], history'[k], base'[k], got'[k])
        /\ current'[k] \in 0..SeqSpace - 1
        /\ history'[k] \in SUBSET (0..HistoryBits - 1)
        /\ tooOld'[k] \in 0..MaxTooOld
        /\ base'[k] \in Int
        /\ got'[k] \in SUBSET Int
    BY <1>3, <2>1, AddKnownKeepsExact
  <2>3. /\ current' = [current EXCEPT ![k] = current'[k]]
        /\ history' = [history EXCEPT ![k] = history'[k]]
        /\ tooOld' = [tooOld EXCEPT ![k] = tooOld'[k]]
        /\ base' = [base EXCEPT ![k] = base'[k]]
        /\ got' = [got EXCEPT ![k] = got'[k]]
    BY <1>3 DEF AddKnown, TypeOK
  <2>4. TypeOK'
    BY <2>1, <2>2, <2>3 DEF TypeOK
  <2>5. WindowExact'
    BY <2>1, <2>2, <2>3 DEF WindowExact, TypeOK, Exact
  <2> QED BY <2>4, <2>5
<1>4. ASSUME NEW k \in Keys, Expire(k) PROVE IInv'
  BY <1>4 DEF Expire, TypeOK, WindowExact
<1>5. CASE oonf_duplicate_set_remove
  BY <1>5 DEF oonf_duplicate_set_remove, TypeOK, WindowExact
<1>6. CASE UNCHANGED vars
  BY <1>6 DEF vars, TypeOK, WindowExact
<1> QED BY <1>1, <1>2, <1>3, <1>4, <1>5, <1>6 DEF Next, oonf_duplicate_entry_add

(***************************************************************************)
(* The window of every entry is exact in every reachable state, for every  *)
(* number space, window length and restart threshold.                      *)
(***************************************************************************)
THEOREM WindowIsExact == Spec => [](TypeOK /\ WindowExact)
<1>1. Init => IInv
  BY DupsetAssumption DEF Init, IInv, TypeOK, WindowExact
<1> QED BY <1>1, IInvInductive, PTL DEF Spec, IInv

(* What the answers of one call say, given an exact window. *)
Answers == NoDoubleAccept /\ NoFalseDuplicate /\ TooOldOnlyOutsideWindow

LEMMA AnswersStep ==
    IInv /\ Answers /\ [Next]_vars => Answers'
<1> SUFFICES ASSUME TypeOK, WindowExact, Answers, [Next]_vars PROVE Answers'
  BY DEF IInv
<1> USE DEF Answers, NoDoubleAccept, NoFalseDuplicate, TooOldOnlyOutsideWindow
<1>1. ASSUME NEW k \in Keys, NEW n \in AbsNumbers, AddFirst(k, n) PROVE Answers'
  BY <1>1 DEF AddFirst, Answer, oonf_duplicate_is_new
<1>2. ASSUME NEW k \in Keys, NEW n \in AbsNumbers, AddNoMemory(k, n) PROVE Answers'
  BY <1>2 DEF AddNoMemory, Answer, oonf_duplicate_is_new
<1>3. ASSUME NEW k \in Keys, NEW n \in AbsNumbers, AddKnown(k, n) PROVE Answers'
  <2> DEFINE d == n - base[k]
             s == n % SeqSpace
             r == TestResult(k, s)
  <2>1. /\ k \in tree /\ tree' = tree /\ Within(k, n) /\ n \in Int
        /\ last' = [call |-> "add", key |-> k, n |-> n, result |-> r,
                    seen |-> k \in tree /\ n \in got[k], newest |-> base[k],
                    reset |-> k \in tree /\ IsReset(k, s)]
    BY <1>3, DupsetAssumption DEF AddKnown, Answer
  <2>2. /\ d \in Int
        /\ IsReset(k, s) <=> (d < 1 - Window /\ tooOld[k] + 1 > MaxTooOld)
        /\ d = 0 => r = "CURRENT"
        /\ IsReset(k, s) => r = "NEWEST"
        /\ d < 1 - Window /\ ~IsReset(k, s) => r = "TOO_OLD"
        /\ d < 0 /\ d >= 1 - Window /\ -d \in history[k] => r = "DUPLICATE"
        /\ d < 0 /\ d >= 1 - Window /\ -d \notin history[k] => r = "NEW"
        /\ d > 0 => r = "NEWEST" /\ ~IsReset(k, s)
    BY <2>1, Classification
  <2>3. /\ Window \in Nat /\ Window > 0 /\ base[k] \in Int /\ n = base[k] + d
        /\ \A i \in 0..Window - 1 : i \in history[k] <=> base[k] - i \in got[k]
        /\ \A m \in got[k] : m <= base[k]
        /\ base[k] \in got[k]
    BY <2>1, DupsetAssumption DEF TypeOK, WindowExact
  <2> HIDE DEF d, s, r
  <2>4. r \in {"NEW", "NEWEST"} /\ ~IsReset(k, s) => n \notin got[k]
    <3>1. CASE d > 0
      BY <3>1, <2>1, <2>2, <2>3
    <3>2. CASE d < 0 /\ d >= 1 - Window
      <4>1. -d \in 0..Window - 1 /\ base[k] - (-d) = n
        BY <3>2, <2>2, <2>3
      <4> QED BY <4>1, <3>2, <2>2, <2>3
    <3> QED BY <3>1, <3>2, <2>2, <2>3
  <2>5. r \in {"DUPLICATE", "CURRENT"} => n \in got[k]
    <3>1. CASE d = 0
      BY <3>1, <2>3
    <3>2. CASE d < 0 /\ d >= 1 - Window
      <4>1. -d \in 0..Window - 1 /\ base[k] - (-d) = n
        BY <3>2, <2>2, <2>3
      <4> QED BY <4>1, <3>2, <2>2, <2>3
    <3> QED BY <3>1, <3>2, <2>2, <2>3
  <2>6. r = "TOO_OLD" => base[k] - n >= Window
    BY <2>2, <2>3
  <2>7. r # "FIRST"
    BY <2>2, <2>3
  <2> QED BY <2>1, <2>4, <2>5, <2>6, <2>7 DEF oonf_duplicate_is_new
<1>4. ASSUME NEW k \in Keys, Expire(k) PROVE Answers'
  BY <1>4 DEF Expire
<1>5. CASE oonf_duplicate_set_remove
  BY <1>5 DEF oonf_duplicate_set_remove
<1>6. CASE UNCHANGED vars
  BY <1>6 DEF vars, oonf_duplicate_is_new
<1> QED BY <1>1, <1>2, <1>3, <1>4, <1>5, <1>6 DEF Next, oonf_duplicate_entry_add

(***************************************************************************)
(* Nothing is accepted twice, nothing is rejected as a duplicate that was  *)
(* not accepted, and only what lies outside the window is called too old.  *)
(***************************************************************************)
THEOREM AnswersAreRight ==
    Spec => []AnswersRight
<1>1. Init => Answers
  BY DEF Init, Answers, NoDoubleAccept, NoFalseDuplicate, TooOldOnlyOutsideWindow
<1>2. Init => IInv
  BY DupsetAssumption DEF Init, IInv, TypeOK, WindowExact
<1>3. Answers => AnswersRight
  BY DEF Answers, AnswersRight
<1> QED BY <1>1, <1>2, <1>3, IInvInductive, AnswersStep, PTL DEF Spec
=============================================================================
