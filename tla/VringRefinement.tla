--------------------------- MODULE VringRefinement ---------------------------
(***************************************************************************)
(* A vring of any size implements VringChannel.  The initial states map to *)
(* the channel's, and under RingInv every step of either process maps to a *)
(* step of the channel or to a stutter: PutIdx sends, ProcessDesc delivers *)
(* (or loses, after the overrun), PublishUsed announces, ProcessUsedStep   *)
(* reclaims or overruns, and the rest changes nothing that the channel     *)
(* knows of.                                                               *)
(***************************************************************************)
EXTENDS VringProofs, SequenceTheorems

Payload == Packets \cup {NoPacket}

-----------------------------------------------------------------------------
(* The mapped queue. *)

(* What the buffers of the entries from first on, up to last - 1, hold. *)
Entries(first, last, ring, buffers) ==
  [i \in 1 .. last - first |-> buffers[ring[Slot(first + i - 1)]]]

(* The entries between two indices make a sequence, one element per entry. *)
LEMMA EntriesAreSeq ==
  ASSUME NEW first \in 0 .. IdxMod - 1, NEW last \in 0 .. IdxMod - 1,
         first <= last,
         NEW ring \in [Desc -> Desc], NEW buffers \in [Desc -> Payload]
  PROVE  /\ Entries(first, last, ring, buffers) \in Seq(Payload)
         /\ Len(Entries(first, last, ring, buffers)) = last - first
<1> DEFINE n == last - first
           q == Entries(first, last, ring, buffers)
<1>1. n \in Nat
  BY VringAssumption DEF IdxMod
<1>2. \A i \in 1 .. n : buffers[ring[Slot(first + i - 1)]] \in Payload
  <2> SUFFICES ASSUME NEW i \in 1 .. n
               PROVE  buffers[ring[Slot(first + i - 1)]] \in Payload
    OBVIOUS
  <2>1. first + i - 1 \in 0 .. IdxMod - 1
    BY VringAssumption DEF IdxMod
  <2> QED  BY <2>1, SlotCases
<1>3. q \in [1 .. n -> Payload]
  BY <1>2 DEF Entries
<1>4. q \in Seq(Payload)
  BY <1>1, <1>3, SeqDef
<1>5. DOMAIN q = 1 .. n
  BY DEF Entries
<1> QED  BY <1>1, <1>4, <1>5, LenProperties

(* So Queue is one: what the buffers of the published, unprocessed entries
   hold, oldest first. *)
LEMMA QueueIsSeq ==
  ASSUME RingInv
  PROVE  /\ Queue \in Seq(Payload)
         /\ Len(Queue) = availIdx - cLastAvail
<1>1. /\ cLastAvail \in 0 .. IdxMod - 1 /\ availIdx \in 0 .. IdxMod - 1
      /\ cLastAvail <= availIdx
      /\ availRing \in [Desc -> Desc] /\ buf \in [Desc -> Payload]
  BY DEF RingInv, TypeOK, IndicesInOrder, Payload
<1>2. Queue = Entries(cLastAvail, availIdx, availRing, buf)
  BY DEF Queue, Entries
<1> QED  BY <1>1, <1>2, EntriesAreSeq

(* The same of the state after a step. *)
LEMMA NextQueueIsSeq ==
  ASSUME RingInv'
  PROVE  /\ Queue' \in Seq(Payload)
         /\ Len(Queue') = availIdx' - cLastAvail'
<1>1. /\ cLastAvail' \in 0 .. IdxMod - 1 /\ availIdx' \in 0 .. IdxMod - 1
      /\ cLastAvail' <= availIdx'
      /\ availRing' \in [Desc -> Desc] /\ buf' \in [Desc -> Payload]
  BY DEF RingInv, TypeOK, IndicesInOrder, Payload, IdxMod, Desc
<1>2. Queue' = Entries(cLastAvail', availIdx', availRing', buf')
  BY DEF Queue, Entries, Slot
<1> QED  BY <1>1, <1>2, EntriesAreSeq

(* A step that leaves the indices alone, and the buffers of the entries between
   them, leaves the queue alone. *)
LEMMA QueueUnchanged ==
  ASSUME UNCHANGED <<availIdx, cLastAvail>>, RingInv,
         \A k \in cLastAvail .. availIdx - 1 :
           buf'[availRing'[Slot(k)]] = buf[availRing[Slot(k)]]
  PROVE  Queue' = Queue
<1>1. \A i \in 1 .. availIdx - cLastAvail :
        cLastAvail + i - 1 \in cLastAvail .. availIdx - 1
  BY Bounds
<1>2. \A i \in 1 .. availIdx - cLastAvail :
        buf'[availRing'[Slot(cLastAvail + i - 1)]]
          = buf[availRing[Slot(cLastAvail + i - 1)]]
  BY <1>1
<1> QED  BY <1>2 DEF Queue, Slot

-----------------------------------------------------------------------------
(* The steps. *)

(* An initial state of the ring is one of the channel. *)
LEMMA InitMaps == Init => Channel!Init
<1> SUFFICES ASSUME Init
             PROVE  Channel!Init
  OBVIOUS
<1>1. RingInv
  BY InitRing
<1>2. Queue \in Seq(Payload) /\ Len(Queue) = 0
  BY <1>1, QueueIsSeq DEF Init
<1>3. Queue = <<>>
  BY <1>2, EmptySeq
<1> QED  BY <1>3 DEF Init, Channel!Init

(* put_vring fills a descriptor that is nowhere in the queue. *)
LEMMA PutFillMaps ==
  ASSUME RingInv, NEW p \in Packets, PutFill(p)
  PROVE  UNCHANGED Channel!vars
<1>1. freed # Overran
  BY Bounds DEF RingInv, PutFill, StuckPastNum, Overran
<1>2. pLastAvail \in Desc /\ pLastAvail \notin InFlight
  BY <1>1 DEF RingInv, PutFill, OneOwner, TypeOK, Unowned
<1>3. ASSUME NEW k \in cLastAvail .. availIdx - 1
      PROVE  buf'[availRing'[Slot(k)]] = buf[availRing[Slot(k)]]
  <2>1. k \in freed .. availIdx - 1
    BY <1>1, Bounds
  <2>2. availRing[Slot(k)] # pLastAvail /\ availRing[Slot(k)] \in Desc
    BY <1>1, <1>2, <2>1, FlightSlots
  <2> QED  BY <2>2 DEF PutFill, RingInv, TypeOK
<1>4. Queue' = Queue
  BY <1>3, QueueUnchanged DEF PutFill, consumer
<1> QED  BY <1>4 DEF PutFill, consumer, Channel!vars

(* The entry put_vring writes is behind the queue, in a slot of its own. *)
LEMMA PutRingMaps ==
  ASSUME RingInv, PutRing
  PROVE  UNCHANGED Channel!vars
<1>1. freed # Overran /\ availIdx < freed + Num
  BY Bounds DEF RingInv, PutRing, StuckPastNum, ClaimReady, Overran
<1>2. ASSUME NEW k \in cLastAvail .. availIdx - 1
      PROVE  buf'[availRing'[Slot(k)]] = buf[availRing[Slot(k)]]
  <2>1. k \in freed .. availIdx - 1
    BY <1>1, Bounds
  <2>2. Slot(k) # Slot(availIdx) /\ Slot(k) \in Desc
    BY <1>1, <2>1, FlightSlots
  <2> QED  BY <2>2 DEF PutRing, RingInv, TypeOK
<1>3. Queue' = Queue
  BY <1>2, QueueUnchanged DEF PutRing, consumer
<1> QED  BY <1>3 DEF PutRing, consumer, Channel!vars

(* Publishing the entry sends the packet. *)
LEMMA PutIdxMaps ==
  ASSUME RingInv, PutIdx
  PROVE  \E p \in Packets : Channel!Send(p)
<1> DEFINE p == buf[aIdx]
           n == availIdx - cLastAvail
<1>1. /\ p \in Packets
      /\ availRing[Slot(availIdx)] = aIdx
      /\ freed < Num
      /\ availIdx < freed + Num
  BY Bounds DEF RingInv, PutIdx, ClaimReady, StuckPastNum
<1>2. availIdx' = availIdx + 1
  BY <1>1, Bounds, NextIdx DEF PutIdx
<1>3. RingInv'
  BY PutIdxKeeps
<1>4. /\ Queue \in Seq(Payload) /\ Len(Queue) = n
      /\ \A i \in 1 .. n : Queue[i] = buf[availRing[Slot(cLastAvail + i - 1)]]
  BY QueueIsSeq DEF Queue
<1>5. /\ Queue' \in Seq(Payload) /\ Len(Queue') = n + 1
      /\ \A i \in 1 .. n + 1 :
           Queue'[i] = buf[availRing[Slot(cLastAvail + i - 1)]]
  <2>1. /\ availIdx' - cLastAvail' = n + 1
        /\ UNCHANGED <<buf, availRing, cLastAvail>>
    BY <1>2, Bounds DEF PutIdx, consumer
  <2> QED  BY <1>3, <2>1, NextQueueIsSeq DEF Queue, Slot
<1>6. Queue' = Append(Queue, p)
  <2>1. /\ Append(Queue, p) \in Seq(Payload)
        /\ Len(Append(Queue, p)) = n + 1
        /\ \A i \in 1 .. n : Append(Queue, p)[i] = Queue[i]
        /\ Append(Queue, p)[n + 1] = p
    BY <1>1, <1>4, AppendProperties DEF Payload
  <2>2. Queue'[n + 1] = p
    <3>1. cLastAvail + (n + 1) - 1 = availIdx
      BY Bounds
    <3>2. n + 1 \in 1 .. n + 1
      BY Bounds
    <3> QED  BY <1>1, <1>5, <3>1, <3>2
  <2>3. \A i \in 1 .. n + 1 : Queue'[i] = Append(Queue, p)[i]
    <3> SUFFICES ASSUME NEW i \in 1 .. n + 1
                 PROVE  Queue'[i] = Append(Queue, p)[i]
      OBVIOUS
    <3>1. i \in 1 .. n \/ i = n + 1
      BY Bounds
    <3> QED  BY <3>1, <1>4, <1>5, <2>1, <2>2
  <2> QED  BY <1>5, <2>1, <2>3, SeqEqual
<1>7. Len(Queue) + cLastAvail < freed + Num
  BY <1>1, <1>4, Bounds
<1> QED
  BY <1>1, <1>6, <1>7 DEF PutIdx, consumer, Channel!Send

(* Processing an entry takes the packet at the head of the queue: delivers it
   where the descriptor still is as put_vring left it, and it always is before
   the overrun. *)
LEMMA ProcessDescMaps ==
  ASSUME RingInv, ProcessDesc
  PROVE  Channel!Deliver \/ Channel!Lose
<1> DEFINE n == availIdx - cLastAvail
<1>1. /\ cLastAvail # availIdx
      /\ cLastAvail' = (cLastAvail + 1) % IdxMod
      /\ UNCHANGED <<buf, availIdx, availRing, usedIdx, freed>>
  BY DEF ProcessDesc
<1>2. cLastAvail' = cLastAvail + 1 /\ n > 0 /\ n \in Nat
  <2>1. cLastAvail \in 0 .. IdxMod - 2 /\ n > 0 /\ n \in Nat
    BY <1>1, Bounds
  <2> QED  BY <1>1, <2>1, NextIdx
<1>3. RingInv'
  BY ProcessDescKeeps
<1>4. /\ Queue \in Seq(Payload) /\ Len(Queue) = n
      /\ \A i \in 1 .. n : Queue[i] = buf[availRing[Slot(cLastAvail + i - 1)]]
  BY QueueIsSeq DEF Queue
<1>5. Queue # <<>>
  BY <1>2, <1>4, EmptySeq
<1>6. /\ Queue' \in Seq(Payload) /\ Len(Queue') = n - 1
      /\ \A i \in 1 .. n - 1 :
           Queue'[i] = buf[availRing[Slot(cLastAvail + 1 + i - 1)]]
  <2>1. availIdx' - cLastAvail' = n - 1
    BY <1>1, <1>2, Bounds
  <2> QED  BY <1>1, <1>2, <1>3, <2>1, NextQueueIsSeq DEF Queue, Slot
<1>7. Queue' = Tail(Queue)
  <2>1. /\ Tail(Queue) \in Seq(Payload) /\ Len(Tail(Queue)) = n - 1
        /\ \A i \in 1 .. n - 1 : Tail(Queue)[i] = Queue[i + 1]
    BY <1>4, <1>5, HeadTailProperties
  <2>2. \A i \in 1 .. n - 1 : Queue'[i] = Tail(Queue)[i]
    <3> SUFFICES ASSUME NEW i \in 1 .. n - 1
                 PROVE  Queue'[i] = Tail(Queue)[i]
      OBVIOUS
    <3>1. cLastAvail + 1 + i - 1 = cLastAvail + (i + 1) - 1
      BY Bounds
    <3>2. i + 1 \in 1 .. n
      BY <1>2
    <3> QED  BY <1>4, <1>6, <2>1, <3>1, <3>2
  <2> QED  BY <1>6, <2>1, <2>2, SeqEqual
<1>8. Head(Queue) = buf[EntryDesc]
  <2>1. Head(Queue) = Queue[1]
    BY <1>4, <1>5
  <2>2. cLastAvail + 1 - 1 = cLastAvail
    BY Bounds
  <2>3. 1 \in 1 .. n
    BY <1>2
  <2> QED  BY <1>4, <2>1, <2>2, <2>3 DEF EntryDesc
<1>9. Channel!Take
  BY <1>1, <1>2, <1>5, <1>7 DEF Channel!Take
<1>10. CASE len[EntryDesc] = "packet"
  BY <1>8, <1>9, <1>10 DEF ProcessDesc, Channel!Deliver
<1>11. CASE len[EntryDesc] = "bufferSize"
  <2>1. freed = Overran
    <3>1. cLastAvail \in cLastAvail .. availIdx - 1
      BY <1>2, Bounds
    <3> QED  BY <1>11, <3>1 DEF RingInv, OutstandingIntact, EntryDesc
  <2>2. out' = out
    BY <1>11 DEF ProcessDesc
  <2> QED
    BY <1>9, <2>1, <2>2 DEF Channel!Lose, Channel!Overran, Overran, IdxMod
<1> QED  BY <1>10, <1>11 DEF ProcessDesc

(* process_used_vring reclaims what was announced, in order, or runs past it;
   once it has, the channel does not notice that it goes on. *)
LEMMA ProcessUsedMaps ==
  ASSUME RingInv, ProcessUsedStep
  PROVE  Channel!Reclaim \/ Channel!Overrun \/ UNCHANGED Channel!vars
<1>1. Queue' = Queue
  BY QueueUnchanged DEF ProcessUsedStep, consumer
<1>2. UNCHANGED <<usedIdx, cLastAvail, out>>
  BY DEF ProcessUsedStep, consumer
<1>3. CASE freed < usedIdx
  BY <1>1, <1>2, <1>3 DEF ProcessUsedStep, Channel!Reclaim
<1>4. CASE freed = Overran
  <2>1. freed' = freed
    BY <1>4, Bounds DEF ProcessUsedStep, Overran
  <2> QED  BY <1>1, <1>2, <2>1 DEF Channel!vars
<1>5. CASE freed # Overran /\ ~ freed < usedIdx
  <2>1. freed = usedIdx /\ pLastUsed = Slot(usedIdx) /\ freed' = Overran
    BY <1>5, Bounds DEF ProcessUsedStep, RingInv, IndicesInOrder
  <2>2. freed >= Num
    BY <2>1, SlotCases, Bounds DEF ProcessUsedStep, RingInv, TypeOK
  <2> QED
    BY <1>1, <1>2, <2>1, <2>2
       DEF Channel!Overrun, Channel!Overran, Overran, IdxMod
<1> QED  BY <1>3, <1>4, <1>5

(* Publishing used->idx announces what was taken. *)
LEMMA PublishUsedMaps ==
  ASSUME RingInv, PublishUsed
  PROVE  Channel!Announce
<1>1. Queue' = Queue
  BY QueueUnchanged DEF PublishUsed
<1> QED
  BY <1>1 DEF PublishUsed, RingInv, IndicesInOrder, Channel!Announce

(* Entering a call, leaving process_used_vring, or no step at all: nothing that
   the channel knows of changes. *)
LEMMA OthersMap ==
  ASSUME RingInv,
         \/ ProcessUsedBegin \/ ProcessUsedEnd \/ ProcessAvailBegin
         \/ UNCHANGED vars
  PROVE  UNCHANGED Channel!vars
<1>1. UNCHANGED <<availIdx, availRing, buf, cLastAvail, usedIdx, freed, out>>
  BY DEF ProcessUsedBegin, ProcessUsedEnd, ProcessAvailBegin, vars, shared,
         producer, consumer
<1>2. Queue' = Queue
  BY <1>1, QueueUnchanged
<1> QED  BY <1>1, <1>2 DEF Channel!vars

(* Every step of the ring is a step of the channel, or none. *)
LEMMA StepMaps ==
  ASSUME RingInv, [Next]_vars
  PROVE  [Channel!Next]_(Channel!vars)
<1>1. CASE \E p \in Packets : PutFill(p)
  BY <1>1, PutFillMaps
<1>2. CASE PutRing
  BY <1>2, PutRingMaps
<1>3. CASE PutIdx
  BY <1>3, PutIdxMaps DEF Channel!Next
<1>4. CASE ProcessUsedStep
  BY <1>4, ProcessUsedMaps DEF Channel!Next
<1>5. CASE ProcessDesc
  BY <1>5, ProcessDescMaps DEF Channel!Next
<1>6. CASE PublishUsed
  BY <1>6, PublishUsedMaps DEF Channel!Next
<1>7. CASE \/ ProcessUsedBegin \/ ProcessUsedEnd \/ ProcessAvailBegin
           \/ UNCHANGED vars
  BY <1>7, OthersMap
<1> QED
  BY <1>1, <1>2, <1>3, <1>4, <1>5, <1>6, <1>7 DEF Next, Produce, Consume

-----------------------------------------------------------------------------
(* A vring of any size, with any packets, is a bounded FIFO channel that loses,
   repeats and reorders nothing before the producer's overrun. *)
THEOREM RingImplementsChannel == Spec => ImplementsChannel
<1>1. Init => Channel!Init
  BY InitMaps
<1>2. RingInv /\ [Next]_vars => [Channel!Next]_(Channel!vars)
  BY StepMaps
<1> QED
  BY <1>1, <1>2, RingInvariant, PTL
     DEF Spec, ImplementsChannel, Channel!Spec
=============================================================================
