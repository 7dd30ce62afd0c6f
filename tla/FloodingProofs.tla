--------------------------- MODULE FloodingProofs ---------------------------
(***************************************************************************)
(* The flooding of a TC reaches every router, in every connected network,  *)
(* with every choice of MPRs that covers the 2-hop neighbors and in every  *)
(* order in which the aggregation timers fire and the copies are read.     *)
(*                                                                         *)
(* The argument: the first router that transmits within two hops of a      *)
(* router z either is heard by z, or it has an MPR next to z, and that MPR *)
(* has heard nothing before, since it only hears routers within two hops   *)
(* of z.  So the copy of that first transmission is the first one the MPR  *)
(* reads, it forwards it, and z hears it.  Promised is this argument as an *)
(* invariant: nothing that happens later takes the promise back.           *)
(***************************************************************************)
EXTENDS Olsrv2Flooding, TLAPS

Transmitted == {r \in Routers : sent[r] > 0}

Near(z) == \E w \in Transmitted : z \in Hears(w, links) \/ \E y \in Hears(w, links) : z \in Hears(y, links)

FloodTypes ==
  /\ links \in Networks
  /\ mprs \in [Routers -> SUBSET Routers]
  /\ source \in Routers
  /\ air \in [Routers -> Seq(Routers)]
  /\ pending \in SUBSET Routers /\ processed \in SUBSET Routers
  /\ sent \in [Routers -> Nat]

(* A copy comes from a neighbor that has transmitted. *)
CopiesSent ==
  \A n \in Routers : \A i \in DOMAIN air[n] : air[n][i] \in Transmitted /\ n \in Hears(air[n][i], links)

(* A router transmits at most once, and only what it has received. *)
Once ==
  \A r \in Routers :
    /\ sent[r] <= 1
    /\ r \in pending => sent[r] = 0
    /\ (r \in pending \/ sent[r] = 1) /\ r # source => r \in processed

SourceStarts == source \in pending \/ source \in Transmitted \/ Hears(source, links) = {}

HeardFirst == \A r \in processed : \E w \in Transmitted : r \in Hears(w, links)

(* m will transmit: it waits for its timer, or the copy it will read first *)
(* comes from a router that chose it. *)
WillTransmit(m) ==
  \/ m \in pending
  \/ m # source /\ m \notin processed /\ air[m] # <<>> /\ m \in mprs[Head(air[m])]

Reached(z) ==
  z \in processed \/ air[z] # <<>> \/ \E m \in Routers : z \in Hears(m, links) /\ WillTransmit(m)

Promised == ~lossy => \A z \in Routers : z # source /\ Near(z) => Reached(z)

FloodInv ==
  /\ FloodTypes /\ forwarded = processed
  /\ CopiesSent /\ Once /\ SourceStarts /\ HeardFirst /\ Promised

-----------------------------------------------------------------------------

(* Links are symmetric: who hears r is heard by r. *)
LEMMA Mutual ==
  ASSUME NEW net, NEW a \in Routers, NEW b \in Hears(a, net)
  PROVE  b \in Routers /\ a \in Hears(b, net)
<1>1. {a, b} = {b, a}
  OBVIOUS
<1> QED
  BY <1>1 DEF Hears

(* What Append does to the first element. *)
LEMMA AppendHead ==
  ASSUME NEW s \in Seq(Routers), NEW r \in Routers
  PROVE  /\ Append(s, r) # <<>>
         /\ Head(Append(s, r)) = IF s = <<>> THEN r ELSE Head(s)
<1>1. Len(Append(s, r)) = Len(s) + 1 /\ Len(s) \in Nat
  OBVIOUS
<1>2. Append(s, r) # <<>>
  BY <1>1
<1>3. Head(Append(s, r)) = Append(s, r)[1]
  BY <1>2
<1>4. CASE s = <<>>
  <2>1. Len(s) = 0
    BY <1>4
  <2>2. Append(s, r)[1] = r
    BY <2>1
  <2> QED
    BY <1>2, <1>3, <1>4, <2>2
<1>5. CASE s # <<>>
  <2>1. 1 \in 1 .. Len(s) /\ Head(s) = s[1]
    BY <1>5
  <2>2. Append(s, r)[1] = s[1]
    BY <2>1
  <2> QED
    BY <1>2, <1>3, <1>5, <2>1, <2>2
<1> QED
  BY <1>4, <1>5

(* What Tail keeps. *)
LEMMA TailElements ==
  ASSUME NEW s \in Seq(Routers), s # <<>>, NEW i \in DOMAIN Tail(s)
  PROVE  i + 1 \in DOMAIN s /\ Tail(s)[i] = s[i + 1]
OBVIOUS

(* The initial states satisfy the invariant. *)
LEMMA InitHolds == FloodInit => FloodInv
<1> SUFFICES ASSUME FloodInit PROVE FloodInv
  OBVIOUS
<1>1. FloodTypes /\ forwarded = processed
  <2>1. mprs \in [Routers -> SUBSET Routers] /\ sent \in [Routers -> Nat]
    BY DEF FloodInit
  <2>2. air \in [Routers -> Seq(Routers)]
    BY DEF FloodInit
  <2>3. pending \in SUBSET Routers
    BY DEF FloodInit
  <2> QED
    BY <2>1, <2>2, <2>3 DEF FloodInit, FloodTypes
<1>2. Transmitted = {}
  BY DEF FloodInit, Transmitted
<1>3. CopiesSent
  BY DEF FloodInit, CopiesSent
<1>4. Once
  <2>1. pending \subseteq {source}
    BY DEF FloodInit
  <2>2. \A r \in Routers : sent[r] = 0
    BY DEF FloodInit
  <2>3. \A r \in Routers : sent[r] <= 1 /\ sent[r] # 1
    <3> SUFFICES ASSUME NEW r \in Routers PROVE sent[r] <= 1 /\ sent[r] # 1
      OBVIOUS
    <3>1. sent[r] = 0
      BY <2>2
    <3> QED
      BY <3>1
  <2>4. \A r \in Routers : r \in pending => r = source
    BY <2>1
  <2> QED
    BY <2>2, <2>3, <2>4 DEF Once
<1>5. SourceStarts
  BY DEF FloodInit, SourceStarts, _forwarding_selector
<1>6. HeardFirst
  BY DEF FloodInit, HeardFirst
<1>7. Promised
  BY <1>2 DEF Promised, Near
<1> QED
  BY <1>1, <1>3, <1>4, <1>5, <1>6, <1>7 DEF FloodInv

(* A transmission keeps every promise, and gives one to each router that   *)
(* it is the first one within two hops of (_cb_aggregation_event). *)
LEMMA TransmissionHolds ==
  ASSUME FloodInv, NEW r \in Routers, _cb_aggregation_event(r)
  PROVE  FloodInv'
<1> USE DEF FloodInv
<1>1. PICK chosen \in Covers(r, links) : mprs' = [mprs EXCEPT ![r] = chosen]
  BY DEF _cb_aggregation_event
<1>2. chosen \subseteq Routers /\ chosen \subseteq Hears(r, links)
  BY <1>1 DEF Covers, Hears
<1>3. /\ r \in pending /\ pending' = pending \ {r}
      /\ \A n \in Routers : air'[n] = IF n \in Hears(r, links) THEN Append(air[n], r) ELSE air[n]
      /\ sent' = [sent EXCEPT ![r] = @ + 1]
      /\ links' = links /\ source' = source /\ processed' = processed
      /\ forwarded' = forwarded /\ lossy' = lossy
  BY DEF _cb_aggregation_event
<1>4. FloodTypes'
  <2>1. air' \in [Routers -> Seq(Routers)]
    BY DEF _cb_aggregation_event, FloodTypes
  <2>2. mprs' \in [Routers -> SUBSET Routers]
    BY <1>1, <1>2 DEF FloodTypes
  <2>3. sent' \in [Routers -> Nat]
    BY <1>3 DEF FloodTypes
  <2> QED
    BY <1>3, <2>1, <2>2, <2>3 DEF FloodTypes
<1>5. sent[r] = 0 /\ sent'[r] = 1 /\ \A n \in Routers \ {r} : sent'[n] = sent[n]
  BY <1>3 DEF Once, FloodTypes
<1>6. Transmitted' = Transmitted \cup {r} /\ r \notin Transmitted
  BY <1>5 DEF Transmitted
<1>7. \A n \in Routers : air[n] \in Seq(Routers)
  BY DEF FloodTypes
<1>8. CopiesSent'
  <2> SUFFICES ASSUME NEW n \in Routers, NEW i \in DOMAIN air'[n]
               PROVE  air'[n][i] \in Transmitted' /\ n \in Hears(air'[n][i], links)
    BY <1>3 DEF CopiesSent
  <2>1. CASE n \notin Hears(r, links)
    BY <2>1, <1>3, <1>6 DEF CopiesSent
  <2>2. CASE n \in Hears(r, links)
    <3>1. air'[n] = Append(air[n], r)
      BY <2>2, <1>3
    <3>2. CASE i = Len(air[n]) + 1
      <4>1. air'[n][i] = r
        BY <3>1, <3>2, <1>7
      <4> QED
        BY <4>1, <2>2, <1>6
    <3>3. CASE i # Len(air[n]) + 1
      <4>1. i \in DOMAIN air[n] /\ air'[n][i] = air[n][i]
        BY <3>1, <3>3, <1>7
      <4> QED
        BY <4>1, <1>6 DEF CopiesSent
    <3> QED
      BY <3>2, <3>3
  <2> QED
    BY <2>1, <2>2
<1>9. Once'
  <2> SUFFICES ASSUME NEW n \in Routers
               PROVE  /\ sent'[n] <= 1
                      /\ n \in pending' => sent'[n] = 0
                      /\ (n \in pending' \/ sent'[n] = 1) /\ n # source => n \in processed
    BY <1>3 DEF Once
  <2>1. CASE n = r
    BY <2>1, <1>3, <1>5 DEF Once
  <2>2. CASE n # r
    BY <2>2, <1>3, <1>5 DEF Once
  <2> QED
    BY <2>1, <2>2
<1>10. SourceStarts'
  BY <1>3, <1>6 DEF SourceStarts
<1>11. HeardFirst'
  BY <1>3, <1>6 DEF HeardFirst
<1>12. Promised'
  <2> SUFFICES ASSUME ~lossy, NEW z \in Routers, z # source, Near(z)'
               PROVE  Reached(z)'
    BY <1>3 DEF Promised
  <2>1. \A n \in Routers : air[n] # <<>> => air'[n] # <<>> /\ Head(air'[n]) = Head(air[n])
    BY <1>3, <1>7, AppendHead
  <2>2. \A n \in Hears(r, links) : n \in Routers /\ air'[n] # <<>>
    BY <1>3, <1>7, AppendHead DEF Hears
  <2>3. CASE Near(z)
    <3>1. Reached(z)
      BY <2>3 DEF Promised
    <3>2. CASE z \in processed \/ air[z] # <<>>
      BY <3>2, <2>1, <1>3 DEF Reached
    <3>3. CASE \E m \in Routers : z \in Hears(m, links) /\ WillTransmit(m)
      <4>1. PICK m \in Routers : z \in Hears(m, links) /\ WillTransmit(m)
        BY <3>3
      <4>2. CASE m = r
        BY <4>1, <4>2, <2>2 DEF Reached
      <4>3. CASE m # r /\ m \in pending
        BY <4>1, <4>3, <1>3 DEF Reached, WillTransmit
      <4>4. CASE m # source /\ m \notin processed /\ air[m] # <<>> /\ m \in mprs[Head(air[m])]
        <5>1. Head(air[m]) \in Transmitted
          <6>1. 1 \in DOMAIN air[m] /\ Head(air[m]) = air[m][1]
            BY <4>4, <1>7
          <6> QED
            BY <6>1 DEF CopiesSent
        <5>2. mprs'[Head(air[m])] = mprs[Head(air[m])]
          BY <5>1, <1>1, <1>6 DEF Transmitted, FloodTypes
        <5>3. WillTransmit(m)'
          BY <4>4, <5>2, <2>1, <1>3 DEF WillTransmit
        <5> QED
          BY <5>3, <4>1, <1>3 DEF Reached
      <4> QED
        BY <4>1, <4>2, <4>3, <4>4 DEF WillTransmit
    <3> QED
      BY <3>1, <3>2, <3>3 DEF Reached
  <2>4. CASE ~Near(z)
    <3>1. z \in Hears(r, links) \/ \E y \in Hears(r, links) : z \in Hears(y, links)
      BY <2>4, <1>3, <1>6 DEF Near
    <3>2. CASE z \in Hears(r, links)
      BY <3>2, <2>2 DEF Reached
    <3>3. CASE z = r
      BY <3>3, <1>3 DEF Once, Reached
    <3>4. CASE z \notin Hears(r, links) /\ z # r
      <4>1. z \in TwoHops(r, links)
        BY <3>1, <3>4 DEF TwoHops
      <4>2. PICK m \in chosen : z \in Hears(m, links)
        BY <4>1, <1>1 DEF Covers
      <4>3. m \in Routers /\ m \in Hears(r, links) /\ m # r
        BY <4>2, <1>2 DEF Hears
      <4>4. \A w \in Transmitted : m \notin Hears(w, links)
        BY <2>4, <4>2 DEF Near
      <4>5. m \notin processed
        BY <4>4 DEF HeardFirst
      <4>6. air[m] = <<>>
        <5> SUFFICES ASSUME air[m] # <<>> PROVE FALSE
          OBVIOUS
        <5>1. 1 \in DOMAIN air[m]
          BY <4>3, <1>7
        <5> QED
          BY <5>1, <4>3, <4>4 DEF CopiesSent
      <4>7. air'[m] # <<>> /\ Head(air'[m]) = r
        BY <4>3, <4>6, <1>3, <1>7, AppendHead
      <4>8. m \in mprs'[r]
        BY <4>2, <1>1 DEF FloodTypes
      <4>9. CASE m = source
        <5>1. z \in Hears(source, links)
          BY <4>2, <4>9
        <5>2. source \notin Transmitted
          BY <5>1, <2>4 DEF Near
        <5>3. m \in pending'
          BY <5>1, <5>2, <4>3, <4>9, <1>3 DEF SourceStarts
        <5> QED
          BY <5>3, <4>2, <4>3, <1>3 DEF Reached, WillTransmit
      <4>10. CASE m # source
        <5>1. WillTransmit(m)'
          BY <4>10, <4>5, <4>7, <4>8, <1>3 DEF WillTransmit
        <5> QED
          BY <5>1, <4>2, <4>3, <1>3 DEF Reached
      <4> QED
        BY <4>9, <4>10
    <3> QED
      BY <3>2, <3>3, <3>4
  <2> QED
    BY <2>3, <2>4
<1> QED
  BY <1>3, <1>4, <1>8, <1>9, <1>10, <1>11, <1>12

(* Taking a copy from a router keeps the copies sound. *)
LEMMA ReadingKeepsCopies ==
  ASSUME FloodInv, NEW to \in Routers, air[to] # <<>>, air' = [air EXCEPT ![to] = Tail(@)],
         links' = links, sent' = sent
  PROVE  /\ Head(air[to]) \in Routers /\ Head(air[to]) \in Transmitted
         /\ to \in Hears(Head(air[to]), links) /\ Head(air[to]) \in Hears(to, links)
         /\ air' \in [Routers -> Seq(Routers)]
         /\ CopiesSent' /\ Transmitted' = Transmitted
<1> USE DEF FloodInv
<1>1. \A n \in Routers : air[n] \in Seq(Routers)
  BY DEF FloodTypes
<1>2. Transmitted' = Transmitted
  BY DEF Transmitted
<1>3. 1 \in DOMAIN air[to] /\ Head(air[to]) = air[to][1]
  BY <1>1
<1>4. Head(air[to]) \in Transmitted /\ to \in Hears(Head(air[to]), links)
  BY <1>3 DEF CopiesSent
<1>5. Head(air[to]) \in Routers /\ Head(air[to]) \in Hears(to, links)
  BY <1>4, Mutual DEF Transmitted
<1>6. air' \in [Routers -> Seq(Routers)]
  BY <1>1 DEF FloodTypes
<1>7. CopiesSent'
  <2> SUFFICES ASSUME NEW n \in Routers, NEW i \in DOMAIN air'[n]
               PROVE  air'[n][i] \in Transmitted /\ n \in Hears(air'[n][i], links)
    BY <1>2 DEF CopiesSent
  <2>1. CASE n # to
    BY <2>1 DEF CopiesSent, FloodTypes
  <2>2. CASE n = to
    <3>1. air'[n] = Tail(air[to])
      BY <2>2 DEF FloodTypes
    <3>2. i + 1 \in DOMAIN air[to] /\ air'[n][i] = air[to][i + 1]
      BY <3>1, <1>1, TailElements
    <3> QED
      BY <3>2, <2>2 DEF CopiesSent
  <2> QED
    BY <2>1, <2>2
<1> QED
  BY <1>2, <1>4, <1>5, <1>6, <1>7

(* A router that reads a copy has received the TC, and forwards it if it   *)
(* was counted on (olsrv2_mpr_shall_forwarding, rfc5444_writer_forward_msg). *)
LEMMA ReceptionHolds ==
  ASSUME FloodInv, NEW from \in Routers, NEW to \in Routers, TcReceived(from, to)
  PROVE  FloodInv'
<1> USE DEF FloodInv
<1>1. /\ air[to] # <<>> /\ Head(air[to]) = from
      /\ air' = [air EXCEPT ![to] = Tail(@)]
      /\ links' = links /\ mprs' = mprs /\ source' = source /\ sent' = sent /\ lossy' = lossy
  BY DEF TcReceived
<1>2. /\ from \in Transmitted /\ to \in Hears(from, links) /\ from \in Hears(to, links)
      /\ air' \in [Routers -> Seq(Routers)] /\ CopiesSent' /\ Transmitted' = Transmitted
  BY <1>1, ReadingKeepsCopies
<1>3. \A n \in Routers \ {to} : air'[n] = air[n]
  BY <1>1 DEF FloodTypes
<1>4. \A z : Near(z)' <=> Near(z)
  BY <1>1, <1>2 DEF Near
<1>5. CASE to = source
  <2>1. processed' = processed /\ forwarded' = forwarded /\ pending' = pending
    BY <1>5 DEF TcReceived
  <2>2. FloodTypes' /\ forwarded' = processed' /\ Once' /\ SourceStarts' /\ HeardFirst'
    BY <2>1, <1>1, <1>2 DEF FloodTypes, Once, SourceStarts, HeardFirst
  <2>3. \A m \in Routers : WillTransmit(m) => WillTransmit(m)'
    BY <2>1, <1>1, <1>3, <1>5 DEF WillTransmit
  <2>4. Promised'
    <3> SUFFICES ASSUME ~lossy, NEW z \in Routers, z # source, Near(z)
                 PROVE  Reached(z)'
      BY <1>1, <1>4 DEF Promised
    <3>1. Reached(z)
      BY DEF Promised
    <3> QED
      BY <3>1, <2>1, <2>3, <1>1, <1>3, <1>5 DEF Reached
  <2> QED
    BY <1>2, <2>2, <2>4
<1>6. CASE to # source
  <2>1. /\ forwarded' = forwarded \cup {to} /\ processed' = processed \cup {to}
        /\ pending' = IF to \notin processed /\ to \in mprs[from] THEN pending \cup {to} ELSE pending
    BY <1>2, <1>6 DEF TcReceived, RememberSeen, olsrv2_mpr_shall_process, olsrv2_mpr_shall_forwarding,
                      rfc5444_writer_forward_msg, _forwarding_selector
  <2>2. FloodTypes' /\ forwarded' = processed'
    BY <2>1, <1>1, <1>2 DEF FloodTypes
  <2>3. Once'
    <3> SUFFICES ASSUME NEW n \in Routers
                 PROVE  /\ sent[n] <= 1
                        /\ n \in pending' => sent[n] = 0
                        /\ (n \in pending' \/ sent[n] = 1) /\ n # source => n \in processed'
      BY <1>1 DEF Once
    <3>1. n = to /\ n \notin processed => sent[n] = 0
      BY <1>6 DEF Once, FloodTypes
    <3> QED
      BY <3>1, <2>1 DEF Once
  <2>4. SourceStarts' /\ HeardFirst'
    BY <2>1, <1>1, <1>2 DEF SourceStarts, HeardFirst
  <2>5. \A m \in Routers : WillTransmit(m) => WillTransmit(m)'
    <3> SUFFICES ASSUME NEW m \in Routers, WillTransmit(m) PROVE WillTransmit(m)'
      OBVIOUS
    <3>1. CASE m \in pending
      BY <3>1, <2>1 DEF WillTransmit
    <3>2. CASE m \notin pending /\ m = to
      BY <3>2, <2>1, <1>1 DEF WillTransmit
    <3>3. CASE m \notin pending /\ m # to
      BY <3>3, <2>1, <1>1, <1>3 DEF WillTransmit
    <3> QED
      BY <3>1, <3>2, <3>3
  <2>6. Promised'
    <3> SUFFICES ASSUME ~lossy, NEW z \in Routers, z # source, Near(z)
                 PROVE  Reached(z)'
      BY <1>1, <1>4 DEF Promised
    <3>1. Reached(z)
      BY DEF Promised
    <3>2. CASE z = to
      BY <3>2, <2>1 DEF Reached
    <3>3. CASE z # to
      BY <3>1, <3>3, <2>1, <2>5, <1>1, <1>3 DEF Reached
    <3> QED
      BY <3>2, <3>3
  <2> QED
    BY <1>2, <2>2, <2>3, <2>4, <2>6
<1> QED
  BY <1>5, <1>6

(* After a loss nothing is promised any more. *)
LEMMA LossHolds ==
  ASSUME FloodInv, NEW to \in Routers, TcLost(to)
  PROVE  FloodInv'
<1> USE DEF FloodInv
<1>1. /\ air[to] # <<>> /\ air' = [air EXCEPT ![to] = Tail(@)] /\ lossy' = TRUE
      /\ links' = links /\ mprs' = mprs /\ source' = source /\ pending' = pending
      /\ processed' = processed /\ forwarded' = forwarded /\ sent' = sent
  BY DEF TcLost
<1>2. air' \in [Routers -> Seq(Routers)] /\ CopiesSent' /\ Transmitted' = Transmitted
  BY <1>1, ReadingKeepsCopies
<1>3. FloodTypes' /\ forwarded' = processed' /\ Once' /\ SourceStarts' /\ HeardFirst' /\ Promised'
  BY <1>1, <1>2 DEF FloodTypes, Once, SourceStarts, HeardFirst, Promised
<1> QED
  BY <1>2, <1>3

(* The invariant holds in every reachable state. *)
THEOREM FloodInvariance == FloodSpec => []FloodInv
<1>1. FloodInv /\ [FloodNext]_floodVars => FloodInv'
  <2> SUFFICES ASSUME FloodInv, [FloodNext]_floodVars PROVE FloodInv'
    OBVIOUS
  <2>1. ASSUME NEW r \in Routers, _cb_aggregation_event(r) PROVE FloodInv'
    BY <2>1, TransmissionHolds
  <2>2. ASSUME NEW from \in Routers, NEW to \in Routers, TcReceived(from, to) PROVE FloodInv'
    BY <2>2, ReceptionHolds
  <2>3. ASSUME NEW to \in Routers, TcLost(to) PROVE FloodInv'
    BY <2>3, LossHolds
  <2>4. CASE UNCHANGED floodVars
    BY <2>4 DEF floodVars, FloodInv, FloodTypes, CopiesSent, Once, SourceStarts, HeardFirst, Promised, Near,
                Reached, WillTransmit, Transmitted
  <2> QED
    BY <2>1, <2>2, <2>3, <2>4 DEF FloodNext
<1> QED
  BY InitHolds, <1>1, PTL DEF FloodSpec

(* When no copy is lost and nothing is left to send or to read, every      *)
(* router of the network has the TC, and none has sent it twice            *)
(* (olsrv2_mpr_shall_forwarding enters a message into the forwarded set    *)
(* before it looks whether the sender chose the router). *)
THEOREM FloodAlwaysReachesAll == FloodSpec => []FloodReachesAll
<1>1. FloodInv => FloodReachesAll
  <2> SUFFICES ASSUME FloodInv PROVE FloodReachesAll
    OBVIOUS
  <2> USE DEF FloodInv
  <2>1. \A r \in Routers : sent[r] <= 1
    BY DEF Once
  <2>2. ASSUME Silence, ~lossy PROVE processed \cup {source} = Routers
    <3> DEFINE have == processed \cup {source}
    <3>1. have \subseteq Routers /\ have # {} /\ links \in Networks
      BY DEF FloodTypes
    <3>2. SUFFICES ASSUME have # Routers PROVE FALSE
      OBVIOUS
    <3>3. PICK a \in have, b \in Routers \ have : {a, b} \in links
      BY <3>1, <3>2, NetworkAssumption
    <3>4. b \in Hears(a, links) /\ a \in Routers /\ b # source /\ b \notin processed
      BY <3>1, <3>3 DEF Hears
    <3>5. Near(b)
      <4>1. CASE a = source
        BY <4>1, <3>4, <2>2 DEF SourceStarts, Silence, Near
      <4>2. CASE a \in processed
        BY <4>2, <3>4 DEF HeardFirst, Near
      <4> QED
        BY <4>1, <4>2, <3>3
    <3>6. Reached(b)
      BY <3>3, <3>4, <3>5, <2>2 DEF Promised
    <3> QED
      BY <3>3, <3>4, <3>6, <2>2 DEF Reached, WillTransmit, Silence
  <2> QED
    BY <2>1, <2>2 DEF FloodReachesAll
<1> QED
  BY FloodInvariance, <1>1, PTL
=============================================================================
