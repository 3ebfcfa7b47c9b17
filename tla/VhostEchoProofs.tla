--------------------------- MODULE VhostEchoProofs ---------------------------
(***************************************************************************)
(* What holds of the two event loops for rings of any size: proofs of the  *)
(* invariants that MCVhostEcho checks.  The client numbers its packets, so *)
(* the TX queue holds consecutive numbers; whatever the server puts on RX  *)
(* is a number it has taken, newer than every echo before it.              *)
(***************************************************************************)
EXTENDS VhostEcho, SequenceTheorems, TLAPS

-----------------------------------------------------------------------------
(* The parts of the inductive invariant. *)

(* The packets under way to the server are the ones after those it took. *)
Numbered ==
  /\ sent = txTaken + Len(txQueue)
  /\ \A i \in 1 .. Len(txQueue) : txQueue[i] = txTaken + i

(* Neither ring ever carries 2 * Num packets, none is announced before it is
   taken, and nobody reclaims on RX. *)
Counts ==
  /\ Len(txQueue) + txTaken <= 2 * Num - 1
  /\ Len(rxQueue) + rxTaken <= 2 * Num - 1
  /\ txUsed <= txTaken
  /\ rxUsed <= rxTaken
  /\ rxFreed = 0

(* The server's buffer holds a packet that has not been put on RX. *)
Pending == buffer # NoPacket /\ serverPc # "kick"

(* The last echo taken, the echoes under way and the buffer are numbers of
   packets that the server took, each newer than the one before. *)
EchoOrder ==
  /\ rxOut <= txTaken
  /\ \A i \in 1 .. Len(rxQueue) : rxOut < rxQueue[i] /\ rxQueue[i] <= txTaken
  /\ \A i, j \in 1 .. Len(rxQueue) : i < j => rxQueue[i] < rxQueue[j]
  /\ Pending => /\ rxOut < buffer /\ buffer <= txTaken
                /\ \A i \in 1 .. Len(rxQueue) : rxQueue[i] < buffer

(* The buffer holds the packet taken last or nothing; where it holds nothing
   that is still to be put, and RX was never full, the newest echo is that of
   the packet taken last. *)
BatchInv ==
  /\ buffer # NoPacket => buffer = txOut
  /\ serverPc = "select" => buffer = NoPacket
  /\ Len(rxQueue) + rxTaken < Num /\ ~ Pending => LastEcho = txOut

EchoInv == /\ TypeOK
           /\ Numbered
           /\ Counts
           /\ EchoOrder
           /\ BatchInv
           /\ TxWaitingIsKicked
           /\ RxWaitingIsKicked

-----------------------------------------------------------------------------
(* Sequences. *)

(* The empty sequence has length 0. *)
LEMMA EmptyLen ==
  ASSUME NEW s, s = <<>>
  PROVE  Len(s) = 0
OBVIOUS

(* What is left of a queue when its head is taken. *)
LEMMA TailFacts ==
  ASSUME NEW S, NEW q \in Seq(S), q # <<>>
  PROVE  /\ Len(q) \in Nat \ {0} /\ Head(q) = q[1] /\ q[1] \in S
         /\ Tail(q) \in Seq(S) /\ Len(Tail(q)) = Len(q) - 1
         /\ \A i \in 1 .. Len(q) - 1 : Tail(q)[i] = q[i + 1]
         /\ Len(q) > 1 => /\ Tail(q) # <<>>
                          /\ Tail(q)[Len(Tail(q))] = q[Len(q)]
         /\ Len(q) = 1 => Tail(q) = <<>>
<1>1. Len(q) \in Nat \ {0} /\ q[1] \in S /\ Head(q) = q[1]
  BY EmptySeq, ElementOfSeq
<1>2. /\ Tail(q) \in Seq(S) /\ Len(Tail(q)) = Len(q) - 1
      /\ \A i \in 1 .. Len(Tail(q)) : Tail(q)[i] = q[i + 1]
  BY HeadTailProperties
<1>3. \A i \in 1 .. Len(q) - 1 : Tail(q)[i] = q[i + 1]
  BY <1>2
<1>4. ASSUME Len(q) > 1
      PROVE  /\ Tail(q) # <<>>
             /\ Tail(q)[Len(Tail(q))] = q[Len(q)]
  <2>1. /\ Len(q) - 1 \in 1 .. Len(q) - 1
        /\ (Len(q) - 1) + 1 = Len(q)
    BY <1>1, <1>4
  <2>2. Tail(q)[Len(q) - 1] = q[Len(q)]
    BY <1>3, <2>1
  <2>3. Tail(q) # <<>>
    <3>1. Len(Tail(q)) # 0
      BY <1>1, <1>2, <1>4
    <3> QED  BY <3>1, EmptyLen
  <2> QED  BY <1>2, <2>2, <2>3
<1>5. Len(q) = 1 => Tail(q) = <<>>
  <2>1. Len(q) = 1 => Len(Tail(q)) = 0
    BY <1>2
  <2> QED  BY <1>2, <2>1, EmptySeq
<1> QED  BY <1>1, <1>2, <1>3, <1>4, <1>5

(* Counting to one. *)
LEMMA OneOrNone ==
  ASSUME NEW k \in Nat, k <= 1, NEW j \in 1 .. k
  PROVE  k = 1 /\ j = 1
OBVIOUS

LEMMA LastOfAppended ==
  ASSUME NEW k \in Nat, k <= 1, NEW l \in Nat,
         NEW i \in 1 .. (1 + l) + k, ~ (i <= 1 + l)
  PROVE  k = 1 /\ i - (1 + l) = 1
OBVIOUS

(* What a queue is when something is put behind it. *)
LEMMA AppendFacts ==
  ASSUME NEW S, NEW q \in Seq(S), NEW e \in S
  PROVE  /\ Len(q) \in Nat
         /\ Append(q, e) \in Seq(S) /\ Len(Append(q, e)) = Len(q) + 1
         /\ Append(q, e) # <<>>
         /\ \A i \in 1 .. Len(q) : Append(q, e)[i] = q[i]
         /\ Append(q, e)[Len(q) + 1] = e
         /\ \A i \in 1 .. Len(q) + 1 : i \in 1 .. Len(q) \/ i = Len(q) + 1
<1>1. Len(q) \in Nat
  BY LenProperties
<1>2. /\ Append(q, e) \in Seq(S) /\ Len(Append(q, e)) = Len(q) + 1
      /\ \A i \in 1 .. Len(q) : Append(q, e)[i] = q[i]
      /\ Append(q, e)[Len(q) + 1] = e
  BY AppendProperties
<1>3. Append(q, e) # <<>>
  BY <1>1, <1>2, EmptySeq
<1> QED  BY <1>1, <1>2, <1>3

(* Two increasing sequences, the second above the first, make one. *)
LEMMA ConcatIncreasing ==
  ASSUME NEW s \in Seq(Nat), NEW t \in Seq(Nat),
         Increasing(s), Increasing(t),
         \A i \in 1 .. Len(s), j \in 1 .. Len(t) : s[i] < t[j]
  PROVE  Increasing(s \o t)
<1> DEFINE m == Len(s)
           n == Len(t)
           u == s \o t
<1>1. /\ m \in Nat /\ n \in Nat
      /\ u \in Seq(Nat) /\ Len(u) = m + n
      /\ \A i \in 1 .. m + n : u[i] = IF i <= m THEN s[i] ELSE t[i - m]
  BY LenProperties, ConcatProperties
<1> SUFFICES ASSUME NEW i \in 1 .. m + n - 1
             PROVE  u[i] < u[i + 1]
  BY <1>1 DEF Increasing
<1> HIDE DEF m, n, u
<1>2. u[i] = (IF i <= m THEN s[i] ELSE t[i - m])
  BY <1>1
<1>3. u[i + 1] = (IF i + 1 <= m THEN s[i + 1] ELSE t[i + 1 - m])
  <2>1. i + 1 \in 1 .. m + n
    BY <1>1
  <2> QED  BY <1>1, <2>1
<1>4. CASE i + 1 <= m
  <2>1. i \in 1 .. m - 1
    BY <1>1, <1>4
  <2> QED  BY <1>1, <1>2, <1>3, <1>4, <2>1 DEF Increasing, m
<1>5. CASE i = m
  <2>1. m \in 1 .. m /\ 1 \in 1 .. n /\ i + 1 - m = 1 /\ ~ (i + 1 <= m)
    BY <1>1, <1>5
  <2> QED  BY <1>2, <1>3, <1>5, <2>1 DEF m, n
<1>6. CASE i > m
  <2>1. /\ i - m \in 1 .. n - 1 /\ i + 1 - m = (i - m) + 1
        /\ ~ (i + 1 <= m) /\ ~ (i <= m)
    BY <1>1, <1>6
  <2> QED  BY <1>2, <1>3, <2>1 DEF Increasing, n
<1> QED  BY <1>1, <1>4, <1>5, <1>6

-----------------------------------------------------------------------------
(* Facts about a state in which EchoInv holds. *)

(* The counters are numbers, the queues sequences of packets. *)
LEMMA EchoFacts ==
  ASSUME EchoInv
  PROVE  /\ Num \in Nat /\ Num > 0
         /\ txQueue \in Seq(Packets) /\ rxQueue \in Seq(Packets)
         /\ Len(txQueue) \in Nat /\ Len(rxQueue) \in Nat
         /\ txTaken \in Nat /\ txUsed \in Nat /\ txFreed \in Nat
         /\ rxTaken \in Nat /\ rxUsed \in Nat /\ rxFreed = 0
         /\ sent \in Nat /\ txOut \in Nat /\ rxOut \in Nat
         /\ buffer \in Nat
         /\ \A i \in 1 .. Len(rxQueue) : rxQueue[i] \in Nat
         /\ \A i \in 1 .. Len(txQueue) : txQueue[i] \in Nat
<1>1. txQueue \in Seq(Packets) /\ rxQueue \in Seq(Packets)
  BY DEF EchoInv, TypeOK
<1>2. /\ Len(txQueue) \in Nat /\ Len(rxQueue) \in Nat
      /\ \A i \in 1 .. Len(rxQueue) : rxQueue[i] \in Packets
      /\ \A i \in 1 .. Len(txQueue) : txQueue[i] \in Packets
  BY <1>1, LenProperties, ElementOfSeq
<1>3. Packets \subseteq Nat
  BY DEF Packets
<1>4. /\ txTaken \in Nat /\ txUsed \in Nat /\ txFreed \in Nat
      /\ rxTaken \in Nat /\ rxUsed \in Nat /\ sent \in Nat
  BY DEF EchoInv, TypeOK
<1>5. txOut \in Nat /\ rxOut \in Nat /\ buffer \in Nat
  <2>1. {txOut, rxOut, buffer} \subseteq Packets \cup {NoPacket}
    BY DEF EchoInv, TypeOK
  <2>2. Packets \cup {NoPacket} \subseteq Nat
    BY <1>3 DEF NoPacket
  <2> QED  BY <2>1, <2>2
<1>6. /\ \A i \in 1 .. Len(rxQueue) : rxQueue[i] \in Nat
      /\ \A i \in 1 .. Len(txQueue) : txQueue[i] \in Nat
  BY <1>2, <1>3
<1>7. Num \in Nat /\ Num > 0 /\ rxFreed = 0
  BY EchoAssumption DEF EchoInv, Counts
<1> QED  BY <1>1, <1>2, <1>4, <1>5, <1>6, <1>7

(* A step that moves no packet, and changes neither what is in the buffer nor
   whether it is still to be put. *)
LEMMA QuietKeeps ==
  ASSUME EchoInv,
         UNCHANGED <<txQueue, txTaken, txOut, rxQueue, rxTaken, rxOut, rxFreed,
                     sent, buffer>>,
         Pending' <=> Pending,
         txUsed' <= txTaken, rxUsed' <= rxTaken
  PROVE  /\ Numbered' /\ Counts' /\ EchoOrder'
         /\ (serverPc' = "select" => buffer = NoPacket) => BatchInv'
<1> USE DEF EchoInv
<1>1. Numbered' /\ Counts'
  BY DEF Numbered, Counts
<1>2. EchoOrder'
  BY DEF EchoOrder
<1>3. LastEcho' = LastEcho
  BY DEF LastEcho
<1> QED  BY <1>1, <1>2, <1>3 DEF BatchInv

-----------------------------------------------------------------------------
(* The client's steps. *)

(* Polling its RX kick. *)
LEMMA ClientSelectKeeps ==
  ASSUME EchoInv, ClientSelect
  PROVE  EchoInv'
<1> USE DEF EchoInv, ClientSelect, txVars, rxVars, server
<1>1. TypeOK'
  BY DEF TypeOK
<1>2. Numbered' /\ Counts' /\ EchoOrder' /\ BatchInv'
  BY QuietKeeps DEF Counts, BatchInv, Pending
<1>3. TxWaitingIsKicked' /\ RxWaitingIsKicked'
  BY DEF TxWaitingIsKicked, RxWaitingIsKicked
<1> QED  BY <1>1, <1>2, <1>3

(* Taking an echo: the newest one stays the same. *)
LEMMA ClientTakeKeeps ==
  ASSUME EchoInv, ClientTake
  PROVE  EchoInv'
<1>0. /\ Num \in Nat /\ Num > 0
      /\ Len(txQueue) \in Nat /\ Len(rxQueue) \in Nat
      /\ txTaken \in Nat /\ txUsed \in Nat /\ txFreed \in Nat
      /\ rxTaken \in Nat /\ rxUsed \in Nat /\ sent \in Nat
      /\ txQueue \in Seq(Packets) /\ rxQueue \in Seq(Packets)
  BY EchoFacts
<1> USE DEF EchoInv
<1> DEFINE n == Len(rxQueue)
<1>1. /\ clientPc = "process" /\ rxQueue # <<>>
      /\ rxQueue' = Tail(rxQueue) /\ rxOut' = Head(rxQueue)
      /\ rxTaken' = rxTaken + 1
      /\ UNCHANGED <<rxUsed, rxFreed, txQueue, txTaken, txUsed, txFreed,
                     txOut, txKick, rxKick, clientPc, sent, serverPc, buffer>>
  BY DEF ClientTake, RX!Deliver, RX!Take, txVars, client, server
<1>2. /\ n \in Nat \ {0} /\ rxOut' = rxQueue[1] /\ rxQueue[1] \in Packets
      /\ rxQueue' \in Seq(Packets) /\ Len(rxQueue') = n - 1
      /\ \A i \in 1 .. n - 1 : rxQueue'[i] = rxQueue[i + 1]
      /\ n > 1 => rxQueue' # <<>> /\ rxQueue'[Len(rxQueue')] = rxQueue[n]
      /\ n = 1 => rxQueue' = <<>>
  BY <1>1, <1>0, TailFacts
<1>3. Counts'
  BY <1>1, <1>2, <1>0 DEF Counts
<1>4. TypeOK'
  <2>1. rxTaken' \in 0 .. 2 * Num - 1
    BY <1>1, <1>2, <1>3, <1>0 DEF Counts
  <2> QED  BY <1>1, <1>2, <2>1 DEF TypeOK
<1>5. Numbered'
  BY <1>1 DEF Numbered
<1>6. \A i \in 1 .. n - 1 : i + 1 \in 1 .. n /\ 1 \in 1 .. n /\ 1 < i + 1
  BY <1>2
<1>7. EchoOrder'
  <2>1. rxOut' <= txTaken
    BY <1>2 DEF EchoOrder
  <2>2. \A i \in 1 .. n - 1 : /\ rxOut' < rxQueue'[i]
                              /\ rxQueue'[i] <= txTaken
    BY <1>2, <1>6 DEF EchoOrder
  <2>3. \A i, j \in 1 .. n - 1 : i < j => rxQueue'[i] < rxQueue'[j]
    BY <1>2, <1>6 DEF EchoOrder
  <2>4. Pending => /\ rxOut' < buffer /\ buffer <= txTaken
                   /\ \A i \in 1 .. n - 1 : rxQueue'[i] < buffer
    BY <1>2, <1>6 DEF EchoOrder
  <2> QED  BY <1>1, <1>2, <2>1, <2>2, <2>3, <2>4 DEF EchoOrder, Pending
<1>8. BatchInv'
  <2>1. LastEcho' = LastEcho
    <3>1. n = 1 \/ n > 1
      BY <1>2
    <3> QED  BY <1>1, <1>2, <3>1 DEF LastEcho
  <2>2. Len(rxQueue') + rxTaken' = n + rxTaken
    BY <1>1, <1>2, <1>0
  <2> QED  BY <1>1, <2>1, <2>2 DEF BatchInv, Pending
<1>9. TxWaitingIsKicked' /\ RxWaitingIsKicked'
  BY <1>1 DEF TxWaitingIsKicked, RxWaitingIsKicked
<1> QED  BY <1>3, <1>4, <1>5, <1>7, <1>8, <1>9

(* Announcing what was taken: RX is empty. *)
LEMMA ClientAnnounceKeeps ==
  ASSUME EchoInv, ClientAnnounce
  PROVE  EchoInv'
<1> USE DEF EchoInv, ClientAnnounce, RX!Announce, txVars, server
<1>1. TypeOK'
  BY DEF TypeOK
<1>2. Numbered' /\ Counts' /\ EchoOrder' /\ BatchInv'
  BY EchoFacts, QuietKeeps DEF Counts, BatchInv, Pending
<1>3. TxWaitingIsKicked' /\ RxWaitingIsKicked'
  BY DEF TxWaitingIsKicked, RxWaitingIsKicked
<1> QED  BY <1>1, <1>2, <1>3

(* process_used_vring on TX. *)
LEMMA ClientFreeKeeps ==
  ASSUME EchoInv, ClientFree \/ ClientFreeDone \/ ClientPutFails
  PROVE  EchoInv'
<1>0. /\ Num \in Nat /\ Num > 0
      /\ Len(txQueue) \in Nat /\ Len(rxQueue) \in Nat
      /\ txTaken \in Nat /\ txUsed \in Nat /\ txFreed \in Nat
      /\ rxTaken \in Nat /\ rxUsed \in Nat /\ sent \in Nat
      /\ txQueue \in Seq(Packets) /\ rxQueue \in Seq(Packets)
  BY EchoFacts
<1> USE DEF EchoInv
<1>1. /\ UNCHANGED <<txQueue, txTaken, txUsed, txOut, rxQueue, rxTaken, rxUsed,
                     rxFreed, rxOut, txKick, rxKick, sent, serverPc, buffer>>
      /\ txFreed' \in 0 .. 2 * Num
      /\ clientPc' \in {"free", "put", "select"}
      /\ clientPc \in {"free", "put"}
  <2>1. CASE ClientFree
    BY <2>1, <1>0
       DEF ClientFree, TX!Reclaim, TX!Overrun, TX!Overran, rxVars, client,
           server, Counts, TypeOK
  <2>2. CASE ClientFreeDone \/ ClientPutFails
    BY <2>2 DEF ClientFreeDone, ClientPutFails, txVars, rxVars, server, TypeOK
  <2> QED  BY <2>1, <2>2
<1>2. TypeOK'
  BY <1>1 DEF TypeOK
<1>3. Numbered' /\ Counts' /\ EchoOrder' /\ BatchInv'
  BY <1>1, QuietKeeps DEF Counts, BatchInv, Pending
<1>4. TxWaitingIsKicked' /\ RxWaitingIsKicked'
  BY <1>1 DEF TxWaitingIsKicked, RxWaitingIsKicked
<1> QED  BY <1>2, <1>3, <1>4

(* Putting the next packet: its number follows those under way, and it fits. *)
LEMMA ClientPutKeeps ==
  ASSUME EchoInv, ClientPut
  PROVE  EchoInv'
<1>0. /\ Num \in Nat /\ Num > 0
      /\ Len(txQueue) \in Nat /\ Len(rxQueue) \in Nat
      /\ txTaken \in Nat /\ txUsed \in Nat /\ txFreed \in Nat
      /\ rxTaken \in Nat /\ rxUsed \in Nat /\ sent \in Nat
      /\ txQueue \in Seq(Packets) /\ rxQueue \in Seq(Packets)
  BY EchoFacts
<1> USE DEF EchoInv
<1> DEFINE n == Len(txQueue)
<1>1. /\ clientPc = "put" /\ clientPc' = "kick"
      /\ txFreed < Num /\ n + txTaken < txFreed + Num
      /\ txQueue' = Append(txQueue, sent + 1) /\ sent' = sent + 1
      /\ UNCHANGED <<txTaken, txUsed, txFreed, txOut, rxQueue, rxTaken, rxUsed,
                     rxFreed, rxOut, txKick, rxKick, serverPc, buffer>>
  BY DEF ClientPut, TX!Send, rxVars, server
<1>2. n \in Nat /\ sent = txTaken + n /\ sent + 1 <= 2 * Num - 1
  BY <1>1, <1>0 DEF Numbered
<1>3. sent + 1 \in Packets /\ sent' \in 0 .. 2 * Num - 1
  BY <1>1, <1>2, <1>0 DEF Packets
<1>4. /\ txQueue' \in Seq(Packets) /\ Len(txQueue') = n + 1
      /\ \A i \in 1 .. n : txQueue'[i] = txQueue[i]
      /\ txQueue'[n + 1] = sent + 1
      /\ \A i \in 1 .. n + 1 : i \in 1 .. n \/ i = n + 1
  BY <1>1, <1>3, <1>0, AppendFacts
<1>5. TypeOK'
  BY <1>1, <1>3, <1>4 DEF TypeOK
<1>6. Numbered'
  <2>1. sent' = txTaken' + Len(txQueue')
    BY <1>1, <1>2, <1>4, <1>0
  <2>2. \A i \in 1 .. n : txQueue'[i] = txTaken + i
    BY <1>4 DEF Numbered
  <2>3. txQueue'[n + 1] = txTaken + (n + 1)
    BY <1>2, <1>4, <1>0
  <2> QED  BY <1>1, <1>4, <2>1, <2>2, <2>3 DEF Numbered
<1>7. Counts'
  BY <1>1, <1>2, <1>4, <1>0 DEF Counts
<1>8. EchoOrder' /\ BatchInv'
  BY <1>1 DEF EchoOrder, BatchInv, Pending, LastEcho
<1>9. TxWaitingIsKicked' /\ RxWaitingIsKicked'
  BY <1>1 DEF TxWaitingIsKicked, RxWaitingIsKicked
<1> QED  BY <1>5, <1>6, <1>7, <1>8, <1>9

(* Kicking the server. *)
LEMMA ClientKickKeeps ==
  ASSUME EchoInv, ClientKick
  PROVE  EchoInv'
<1> USE DEF EchoInv, ClientKick, txVars, rxVars, server
<1>1. TypeOK'
  BY DEF TypeOK
<1>2. Numbered' /\ Counts' /\ EchoOrder' /\ BatchInv'
  BY QuietKeeps DEF Counts, BatchInv, Pending
<1>3. TxWaitingIsKicked' /\ RxWaitingIsKicked'
  BY DEF TxWaitingIsKicked, RxWaitingIsKicked
<1> QED  BY <1>1, <1>2, <1>3

-----------------------------------------------------------------------------
(* The server's steps. *)

(* Reading the TX kick, or finding none: the buffer is empty. *)
LEMMA ServerSelectKeeps ==
  ASSUME EchoInv, ServerSelect
  PROVE  EchoInv'
<1> USE DEF EchoInv, ServerSelect, txVars, rxVars, client
<1>1. TypeOK'
  BY DEF TypeOK
<1>2. Numbered' /\ Counts' /\ EchoOrder' /\ BatchInv'
  BY QuietKeeps DEF Counts, BatchInv, Pending
<1>3. TxWaitingIsKicked' /\ RxWaitingIsKicked'
  BY DEF TxWaitingIsKicked, RxWaitingIsKicked
<1> QED  BY <1>1, <1>2, <1>3

(* Taking a packet: its number is above all that were taken, and so above every
   echo.  A packet that is lost leaves the buffer as it was. *)
LEMMA ServerTakeKeeps ==
  ASSUME EchoInv, ServerTake
  PROVE  EchoInv'
<1>0. /\ Num \in Nat /\ Num > 0
      /\ Len(txQueue) \in Nat /\ Len(rxQueue) \in Nat
      /\ txTaken \in Nat /\ rxTaken \in Nat
      /\ txQueue \in Seq(Packets) /\ rxQueue \in Seq(Packets)
      /\ buffer \in Nat /\ rxOut \in Nat
      /\ \A i \in 1 .. Len(rxQueue) : rxQueue[i] \in Nat
  BY EchoFacts
<1> USE DEF EchoInv
<1> DEFINE n == Len(txQueue)
<1>1. /\ serverPc = "process" /\ txQueue # <<>>
      /\ txQueue' = Tail(txQueue) /\ txTaken' = txTaken + 1
      /\ \/ txOut' = Head(txQueue) /\ buffer' = Head(txQueue)
         \/ UNCHANGED <<txOut, buffer>>
      /\ UNCHANGED <<txUsed, txFreed, rxQueue, rxTaken, rxUsed, rxFreed, rxOut,
                     txKick, rxKick, clientPc, sent, serverPc>>
  BY DEF ServerTake, TX!Deliver, TX!Lose, TX!Take, rxVars, client
<1>2. /\ n \in Nat \ {0} /\ Head(txQueue) = txQueue[1]
      /\ txQueue[1] \in Packets
      /\ txQueue' \in Seq(Packets) /\ Len(txQueue') = n - 1
      /\ \A i \in 1 .. n - 1 : txQueue'[i] = txQueue[i + 1]
  BY <1>0, <1>1, TailFacts
<1>3. Head(txQueue) = txTaken + 1
  <2>1. 1 \in 1 .. n
    BY <1>2
  <2>2. txQueue[1] = txTaken + 1
    BY <2>1 DEF Numbered
  <2> QED  BY <1>2, <2>2
<1>4. Counts'
  <2>1. Len(txQueue') + txTaken' <= 2 * Num - 1
    BY <1>0, <1>1, <1>2 DEF Counts
  <2>2. txUsed \in Nat /\ txUsed <= txTaken + 1
    BY <1>0, EchoFacts DEF Counts
  <2> QED  BY <1>1, <2>1, <2>2 DEF Counts
<1>5. TypeOK'
  <2>1. txTaken' \in 0 .. 2 * Num - 1
    BY <1>0, <1>1, <1>2 DEF Counts
  <2>2. {txOut', buffer'} \subseteq Packets \cup {NoPacket}
    BY <1>1, <1>2 DEF TypeOK
  <2> QED  BY <1>1, <1>2, <2>1, <2>2 DEF TypeOK
<1>6. Numbered'
  <2>1. sent' = txTaken' + Len(txQueue')
    BY <1>0, <1>1, <1>2 DEF Numbered
  <2>2. ASSUME NEW i \in 1 .. n - 1
        PROVE  txQueue'[i] = txTaken' + i
    <3>1. i + 1 \in 1 .. n
      BY <1>2
    <3>2. txQueue[i + 1] = txTaken + (i + 1)
      BY <3>1 DEF Numbered
    <3> QED  BY <1>0, <1>1, <1>2, <3>2
  <2> QED  BY <1>2, <2>1, <2>2 DEF Numbered
<1>7. EchoOrder'
  <2>1. /\ rxOut < txTaken + 1
        /\ \A i \in 1 .. Len(rxQueue) : /\ rxOut < rxQueue[i]
                                        /\ rxQueue[i] < txTaken + 1
                                        /\ rxQueue[i] <= txTaken + 1
    BY <1>0 DEF EchoOrder
  <2>2. Pending' =>
          /\ rxOut < buffer' /\ buffer' <= txTaken + 1
          /\ \A i \in 1 .. Len(rxQueue) : rxQueue[i] < buffer'
    <3>1. CASE buffer' = Head(txQueue)
      BY <1>0, <1>3, <2>1, <3>1
    <3>2. CASE buffer' = buffer
      BY <1>0, <1>1, <3>2 DEF EchoOrder, Pending
    <3> QED  BY <1>1, <3>1, <3>2
  <2> QED  BY <1>0, <1>1, <2>1, <2>2 DEF EchoOrder
<1>8. BatchInv'
  <2>1. Head(txQueue) # NoPacket
    BY <1>0, <1>3 DEF NoPacket
  <2> QED  BY <1>1, <2>1 DEF BatchInv, Pending, LastEcho
<1>9. TxWaitingIsKicked' /\ RxWaitingIsKicked'
  BY <1>1 DEF TxWaitingIsKicked, RxWaitingIsKicked
<1> QED  BY <1>4, <1>5, <1>6, <1>7, <1>8, <1>9

(* Announcing what was taken: TX is empty. *)
LEMMA ServerAnnounceKeeps ==
  ASSUME EchoInv, ServerAnnounce
  PROVE  EchoInv'
<1>0. txTaken <= txTaken
  BY EchoFacts
<1> USE DEF EchoInv, ServerAnnounce, TX!Announce, rxVars, client
<1>1. TypeOK'
  BY DEF TypeOK
<1>2. Numbered' /\ Counts' /\ EchoOrder' /\ BatchInv'
  BY <1>0, QuietKeeps DEF Counts, BatchInv, Pending
<1>3. TxWaitingIsKicked' /\ RxWaitingIsKicked'
  BY DEF TxWaitingIsKicked, RxWaitingIsKicked
<1> QED  BY <1>1, <1>2, <1>3

(* Having nothing to send. *)
LEMMA ServerIdleKeeps ==
  ASSUME EchoInv, ServerIdle
  PROVE  EchoInv'
<1> USE DEF EchoInv, ServerIdle, txVars, rxVars, client
<1>1. TypeOK'
  BY DEF TypeOK
<1>2. Numbered' /\ Counts' /\ EchoOrder' /\ BatchInv'
  BY QuietKeeps DEF Counts, BatchInv, Pending
<1>3. TxWaitingIsKicked' /\ RxWaitingIsKicked'
  BY DEF TxWaitingIsKicked, RxWaitingIsKicked
<1> QED  BY <1>1, <1>2, <1>3

(* Putting the buffer on RX: it is newer than every echo there. *)
LEMMA ServerPutKeeps ==
  ASSUME EchoInv, ServerPut
  PROVE  EchoInv'
<1>0. /\ Num \in Nat /\ Num > 0
      /\ Len(txQueue) \in Nat /\ Len(rxQueue) \in Nat
      /\ txTaken \in Nat /\ rxTaken \in Nat
      /\ txQueue \in Seq(Packets) /\ rxQueue \in Seq(Packets)
      /\ buffer \in Nat /\ rxOut \in Nat
      /\ \A i \in 1 .. Len(rxQueue) : rxQueue[i] \in Nat
  BY EchoFacts
<1> USE DEF EchoInv
<1> DEFINE n == Len(rxQueue)
<1>1. /\ serverPc = "poll" /\ serverPc' = "kick" /\ buffer # NoPacket
      /\ rxFreed < Num /\ n + rxTaken < rxFreed + Num
      /\ rxQueue' = Append(rxQueue, buffer)
      /\ UNCHANGED <<rxTaken, rxUsed, rxFreed, rxOut, txQueue, txTaken, txUsed,
                     txFreed, txOut, txKick, rxKick, clientPc, sent, buffer>>
  BY DEF ServerPut, RX!Send, txVars, client
<1>2. buffer \in Packets
  BY <1>1 DEF TypeOK
<1>3. /\ rxQueue' \in Seq(Packets) /\ Len(rxQueue') = n + 1
      /\ rxQueue' # <<>>
      /\ \A i \in 1 .. n : rxQueue'[i] = rxQueue[i]
      /\ rxQueue'[n + 1] = buffer
      /\ \A i \in 1 .. n + 1 : i \in 1 .. n \/ i = n + 1
  BY <1>0, <1>1, <1>2, AppendFacts
<1>4. TypeOK' /\ Numbered'
  BY <1>1, <1>3 DEF TypeOK, Numbered
<1>5. Counts'
  <2>1. n + 1 + rxTaken <= 2 * Num - 1
    BY <1>0, <1>1 DEF Counts
  <2> QED  BY <1>1, <1>3, <2>1 DEF Counts
<1>6. EchoOrder'
  <2>1. /\ rxOut < buffer /\ buffer <= txTaken
        /\ \A i \in 1 .. n : rxQueue[i] < buffer
    BY <1>1 DEF EchoOrder, Pending
  <2>2. \A i \in 1 .. n + 1 : rxOut < rxQueue'[i] /\ rxQueue'[i] <= txTaken
    BY <1>3, <2>1 DEF EchoOrder
  <2>3. ASSUME NEW i \in 1 .. n + 1, NEW j \in 1 .. n + 1, i < j
        PROVE  rxQueue'[i] < rxQueue'[j]
    <3>1. i \in 1 .. n /\ (j \in 1 .. n \/ j = n + 1)
      BY <1>0, <1>3, <2>3
    <3> QED  BY <1>3, <2>1, <2>3, <3>1 DEF EchoOrder
  <2> QED  BY <1>1, <1>3, <2>2, <2>3 DEF EchoOrder, Pending
<1>7. BatchInv'
  <2>1. LastEcho' = buffer
    BY <1>3 DEF LastEcho
  <2> QED  BY <1>1, <2>1 DEF BatchInv
<1>8. TxWaitingIsKicked' /\ RxWaitingIsKicked'
  BY <1>1 DEF TxWaitingIsKicked, RxWaitingIsKicked
<1> QED  BY <1>4, <1>5, <1>6, <1>7, <1>8

(* Finding RX full: the echo is dropped, and the ring is full for good. *)
LEMMA ServerPutFailsKeeps ==
  ASSUME EchoInv, ServerPutFails
  PROVE  EchoInv'
<1>0. /\ Num \in Nat /\ rxTaken \in Nat /\ Len(rxQueue) \in Nat
      /\ rxFreed = 0
  BY EchoFacts
<1> USE DEF EchoInv
<1>1. /\ serverPc = "poll" /\ serverPc' = "kick" /\ buffer # NoPacket
      /\ ~ (Len(rxQueue) + rxTaken < Num)
      /\ UNCHANGED <<txVars, rxVars, txKick, rxKick, client, buffer>>
  BY <1>0 DEF ServerPutFails
<1> USE DEF txVars, rxVars, client
<1>2. TypeOK' /\ Numbered' /\ Counts'
  BY <1>1 DEF TypeOK, Numbered, Counts
<1>3. EchoOrder'
  BY <1>1 DEF EchoOrder, Pending
<1>4. BatchInv'
  BY <1>1 DEF BatchInv
<1>5. TxWaitingIsKicked' /\ RxWaitingIsKicked'
  BY <1>1 DEF TxWaitingIsKicked, RxWaitingIsKicked
<1> QED  BY <1>2, <1>3, <1>4, <1>5

(* Kicking the client; the buffer is empty again. *)
LEMMA KickClientKeeps ==
  ASSUME EchoInv, ServerKick
  PROVE  EchoInv'
<1> USE DEF EchoInv, ServerKick, txVars, rxVars, client
<1>1. TypeOK'
  BY DEF TypeOK
<1>2. Numbered' /\ Counts'
  BY DEF Numbered, Counts
<1>3. EchoOrder'
  BY DEF EchoOrder, Pending
<1>4. BatchInv'
  BY DEF BatchInv, Pending, LastEcho
<1>5. TxWaitingIsKicked' /\ RxWaitingIsKicked'
  BY DEF TxWaitingIsKicked, RxWaitingIsKicked
<1> QED  BY <1>1, <1>2, <1>3, <1>4, <1>5

-----------------------------------------------------------------------------
(* Empty rings, and nothing in the buffer. *)
LEMMA InitEcho == Init => EchoInv
<1> SUFFICES ASSUME Init
             PROVE  EchoInv
  OBVIOUS
<1> USE DEF Init, TX!Init, RX!Init, NoPacket
<1>1. /\ txQueue = <<>> /\ rxQueue = <<>>
      /\ Len(txQueue) = 0 /\ Len(rxQueue) = 0
      /\ txQueue \in Seq(Packets) /\ rxQueue \in Seq(Packets)
  BY EmptySeq
<1>2. Num \in Nat /\ Num > 0
  BY EchoAssumption
<1>3. TypeOK
  <2>1. /\ {txTaken, txUsed, rxTaken, rxUsed, sent} \subseteq 0 .. 2 * Num - 1
        /\ {txFreed, rxFreed} \subseteq 0 .. 2 * Num
    BY <1>2
  <2>2. /\ {txOut, rxOut, buffer} \subseteq Packets \cup {NoPacket}
        /\ {txKick, rxKick} \subseteq BOOLEAN
    OBVIOUS
  <2> QED  BY <1>1, <2>1, <2>2 DEF TypeOK
<1>4. Numbered /\ Counts
  BY <1>1, <1>2 DEF Numbered, Counts
<1>5. EchoOrder
  BY <1>1 DEF EchoOrder, Pending
<1>6. BatchInv
  BY <1>1 DEF BatchInv, Pending, LastEcho
<1>7. TxWaitingIsKicked /\ RxWaitingIsKicked
  BY DEF TxWaitingIsKicked, RxWaitingIsKicked
<1> QED  BY <1>3, <1>4, <1>5, <1>6, <1>7 DEF EchoInv

(* EchoInv holds in every reachable state, for rings of any size. *)
THEOREM EchoInvariant == Spec => []EchoInv
<1>1. Init => EchoInv
  BY InitEcho
<1>2. EchoInv /\ [Next]_vars => EchoInv'
  <2> SUFFICES ASSUME EchoInv, [Next]_vars
               PROVE  EchoInv'
    OBVIOUS
  <2>1. CASE ClientSelect
    BY <2>1, ClientSelectKeeps
  <2>2. CASE ClientTake
    BY <2>2, ClientTakeKeeps
  <2>3. CASE ClientAnnounce
    BY <2>3, ClientAnnounceKeeps
  <2>4. CASE ClientFree \/ ClientFreeDone \/ ClientPutFails
    BY <2>4, ClientFreeKeeps
  <2>5. CASE ClientPut
    BY <2>5, ClientPutKeeps
  <2>6. CASE ClientKick
    BY <2>6, ClientKickKeeps
  <2>7. CASE ServerSelect
    BY <2>7, ServerSelectKeeps
  <2>8. CASE ServerTake
    BY <2>8, ServerTakeKeeps
  <2>9. CASE ServerAnnounce
    BY <2>9, ServerAnnounceKeeps
  <2>10. CASE ServerIdle
    BY <2>10, ServerIdleKeeps
  <2>11. CASE ServerPut
    BY <2>11, ServerPutKeeps
  <2>12. CASE ServerPutFails
    BY <2>12, ServerPutFailsKeeps
  <2>13. CASE ServerKick
    BY <2>13, KickClientKeeps
  <2>14. CASE UNCHANGED vars
    <3> USE <2>14 DEF EchoInv, vars, txVars, rxVars, client, server
    <3>1. TypeOK' /\ Numbered' /\ Counts'
      BY DEF TypeOK, Numbered, Counts
    <3>2. EchoOrder' /\ BatchInv'
      BY DEF EchoOrder, BatchInv, Pending, LastEcho
    <3>3. TxWaitingIsKicked' /\ RxWaitingIsKicked'
      BY DEF TxWaitingIsKicked, RxWaitingIsKicked
    <3> QED  BY <3>1, <3>2, <3>3
  <2> QED
    BY <2>1, <2>2, <2>3, <2>4, <2>5, <2>6, <2>7, <2>8, <2>9, <2>10, <2>11,
       <2>12, <2>13, <2>14
       DEF Next, Client, Server
<1> QED  BY <1>1, <1>2, PTL DEF Spec

(* Every variable holds a value of its kind: neither ring carries 2 * Num
   packets, so no 16-bit index wraps. *)
THEOREM TypeCorrect == Spec => []TypeOK
<1>1. EchoInv => TypeOK
  BY DEF EchoInv
<1> QED  BY <1>1, EchoInvariant, PTL

(* No kick is lost, for TX or for RX: whoever waits in select has one coming while
   its ring is not empty. *)
THEOREM KicksNotLost == Spec => []WaitingIsKicked
<1>1. EchoInv => WaitingIsKicked
  BY DEF EchoInv, WaitingIsKicked
<1> QED  BY <1>1, EchoInvariant, PTL

(* When the server waits again the newest echo is that of the newest packet it
   took, as long as RX was never full. *)
THEOREM NewestIsEchoed == Spec => []BatchEchoed
<1>1. EchoInv => BatchEchoed
  BY DEF EchoInv, BatchInv, BatchEchoed, Pending
<1> QED  BY <1>1, EchoInvariant, PTL

(* Echoes are in the order of the packets, none twice: from the last one the
   client took, over those under way and the server's buffer, to the packets
   under way. *)
THEOREM EchoesFollowPackets == Spec => []EchoesInOrder
<1>1. EchoInv => EchoesInOrder
  <2> SUFFICES ASSUME EchoInv
               PROVE  EchoesInOrder
    OBVIOUS
  <2> DEFINE last == <<rxOut>>
             held == IF buffer = NoPacket \/ serverPc = "kick" THEN <<>>
                                                              ELSE <<buffer>>
             n == Len(rxQueue)
             m == Len(txQueue)
  <2>1. /\ rxOut \in Nat /\ buffer \in Nat /\ txTaken \in Nat
        /\ n \in Nat /\ m \in Nat
        /\ \A i \in 1 .. n : rxQueue[i] \in Nat
        /\ \A i \in 1 .. m : txQueue[i] \in Nat
        /\ rxQueue \in Seq(Nat) /\ txQueue \in Seq(Nat)
    <3>1. Packets \subseteq Nat
      BY DEF Packets
    <3>2. rxQueue \in Seq(Nat) /\ txQueue \in Seq(Nat)
      BY <3>1, EchoFacts, SeqMonotonic
    <3> QED  BY <3>2, EchoFacts
  <2>2. /\ last \in Seq(Nat) /\ Len(last) = 1 /\ last[1] = rxOut
        /\ Increasing(last)
    BY <2>1 DEF Increasing
  <2>3. /\ held \in Seq(Nat) /\ Increasing(held)
        /\ Len(held) \in Nat /\ Len(held) <= 1
        /\ Len(held) = 1 => Pending /\ held[1] = buffer
    <3>1. CASE Pending
      BY <2>1, <3>1 DEF Pending, Increasing
    <3>2. CASE ~ Pending
      BY <3>2 DEF Pending, Increasing
    <3> QED  BY <3>1, <3>2
  <2>4. Increasing(rxQueue)
    <3> SUFFICES ASSUME NEW i \in 1 .. n - 1
                 PROVE  rxQueue[i] < rxQueue[i + 1]
      BY DEF Increasing
    <3>1. i \in 1 .. n /\ i + 1 \in 1 .. n /\ i < i + 1
      BY <2>1
    <3> QED  BY <3>1 DEF EchoInv, EchoOrder
  <2>5. Increasing(txQueue)
    <3> SUFFICES ASSUME NEW i \in 1 .. m - 1
                 PROVE  txQueue[i] < txQueue[i + 1]
      BY DEF Increasing
    <3>1. i \in 1 .. m /\ i + 1 \in 1 .. m
      BY <2>1
    <3>2. txQueue[i] = txTaken + i /\ txQueue[i + 1] = txTaken + (i + 1)
      BY <3>1 DEF EchoInv, Numbered
    <3> QED  BY <2>1, <3>2
  <2>6. /\ rxOut <= txTaken
        /\ \A i \in 1 .. n : rxOut < rxQueue[i] /\ rxQueue[i] <= txTaken
        /\ Pending => /\ rxOut < buffer /\ buffer <= txTaken
                      /\ \A i \in 1 .. n : rxQueue[i] < buffer
        /\ \A i \in 1 .. m : txTaken < txQueue[i]
    BY <2>1 DEF EchoInv, EchoOrder, Numbered
  <2> HIDE DEF last, held, n, m
  <2> DEFINE s1 == last \o rxQueue
             s2 == s1 \o held
             s3 == s2 \o txQueue
  <2>7. /\ s1 \in Seq(Nat) /\ Len(s1) = 1 + n
        /\ \A i \in 1 .. 1 + n : s1[i] = rxOut \/ \E j \in 1 .. n : s1[i] = rxQueue[j]
        /\ Increasing(s1)
    <3>1. /\ s1 \in Seq(Nat) /\ Len(s1) = Len(last) + n
          /\ \A i \in 1 .. Len(last) + n :
               s1[i] = IF i <= Len(last) THEN last[i]
                                         ELSE rxQueue[i - Len(last)]
      BY <2>1, <2>2, ConcatProperties DEF n
    <3>2. ASSUME NEW i \in 1 .. 1 + n
          PROVE  s1[i] = rxOut \/ \E j \in 1 .. n : s1[i] = rxQueue[j]
      <4>1. i = 1 \/ (i - 1 \in 1 .. n /\ ~ (i <= 1))
        BY <2>1
      <4>2. s1[i] = IF i <= 1 THEN last[i] ELSE rxQueue[i - 1]
        BY <2>2, <3>1
      <4> QED  BY <2>2, <4>1, <4>2
    <3>3. Increasing(s1)
      <4>1. \A i \in 1 .. Len(last), j \in 1 .. Len(rxQueue) :
              last[i] < rxQueue[j]
        BY <2>2, <2>6 DEF n
      <4> QED  BY <2>1, <2>2, <2>4, <4>1, ConcatIncreasing
    <3> QED  BY <2>2, <3>1, <3>2, <3>3
  <2> HIDE DEF s1
  <2>8. /\ s2 \in Seq(Nat) /\ Increasing(s2)
        /\ \A i \in 1 .. Len(s2) : s2[i] <= txTaken
    <3>1. /\ s2 \in Seq(Nat) /\ Len(s2) = Len(s1) + Len(held)
          /\ \A i \in 1 .. Len(s1) + Len(held) :
               s2[i] = IF i <= Len(s1) THEN s1[i] ELSE held[i - Len(s1)]
      BY <2>3, <2>7, ConcatProperties
    <3>2. ASSUME NEW i \in 1 .. Len(s2)
          PROVE  s2[i] <= txTaken
      <4>1. CASE i <= Len(s1)
        <5>1. i \in 1 .. 1 + n /\ s2[i] = s1[i]
          BY <2>1, <2>7, <3>1, <4>1
        <5> QED  BY <2>6, <2>7, <5>1
      <4>2. CASE ~ (i <= Len(s1))
        <5>0. /\ i \in 1 .. (1 + n) + Len(held) /\ ~ (i <= 1 + n)
              /\ Len(s1) = 1 + n
          BY <2>7, <3>1, <4>2
        <5>1. Len(held) = 1 /\ i - Len(s1) = 1
          BY <2>1, <2>3, <5>0, LastOfAppended
        <5> QED  BY <2>3, <2>6, <3>1, <4>2, <5>1
      <4> QED  BY <4>1, <4>2
    <3>3. Increasing(s2)
      <4>1. ASSUME NEW i \in 1 .. Len(s1), NEW j \in 1 .. Len(held)
            PROVE  s1[i] < held[j]
        <5>0. Len(held) = 1 /\ j = 1
          BY <2>3, OneOrNone
        <5>1. Pending /\ held[j] = buffer
          BY <2>3, <5>0
        <5> QED  BY <2>1, <2>6, <2>7, <5>1
      <4> QED  BY <2>3, <2>7, <4>1, ConcatIncreasing
    <3> QED  BY <3>1, <3>2, <3>3
  <2> HIDE DEF s2
  <2>9. Increasing(s3)
    <3>1. ASSUME NEW i \in 1 .. Len(s2), NEW j \in 1 .. Len(txQueue)
          PROVE  s2[i] < txQueue[j]
      <4>1. s2[i] <= txTaken /\ s2[i] \in Nat
        BY <2>8, ElementOfSeq
      <4>2. txTaken < txQueue[j] /\ txQueue[j] \in Nat
        BY <2>1, <2>6 DEF m
      <4> QED  BY <2>1, <4>1, <4>2
    <3> QED  BY <2>1, <2>5, <2>8, <3>1, ConcatIncreasing
  <2> QED  BY <2>9 DEF EchoesInOrder, s1, s2, last, held
<1> QED  BY <1>1, EchoInvariant, PTL
=============================================================================
