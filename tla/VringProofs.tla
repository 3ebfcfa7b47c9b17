----------------------------- MODULE VringProofs -----------------------------
(***************************************************************************)
(* What holds of a vring of any size: the proofs of the invariants that    *)
(* MCVring checks for Num = 3.  RingInv is inductive: one lemma per action *)
(* shows that the action keeps it, and the theorems at the end follow.     *)
(***************************************************************************)
EXTENDS Vring, TLAPS, FiniteSetTheorems

-----------------------------------------------------------------------------
(* The links of the free list stay on it, none leads back to its head, and no
   two of them meet: what makes a descriptor taken by put_vring or returned by
   _free_vring leave the rest of the list as it was. *)
FreeListClosed ==
  freed # Overran =>
    /\ \A d \in Unowned : next[d] \in (Unowned \ {pLastAvail}) \cup {NONE}
    /\ \A d, e \in Unowned : d # e /\ next[d] # NONE => next[d] # next[e]

(* What put_vring has done so far to the descriptor it is about to publish. *)
ClaimReady ==
  /\ pPc \in {"filled", "listed"} => /\ len[aIdx] = "packet"
                                     /\ buf[aIdx] \in Packets
                                     /\ availIdx < freed + Num
  /\ pPc = "listed" => availRing[Slot(availIdx)] = aIdx

(* The inductive invariant: what every step keeps. *)
RingInv == /\ TypeOK
           /\ StuckPastNum
           /\ IndicesInOrder
           /\ OneOwner
           /\ FreeListClosed
           /\ ClaimReady
           /\ OutstandingIntact
           /\ UsedInOrder

-----------------------------------------------------------------------------
(* Arithmetic of slots.  IdxMod is twice the ring size, so an index that has
   not wrapped selects slot i or slot i - Num. *)

(* An index below IdxMod selects the slot of its own number or Num less. *)
LEMMA SlotCases ==
  ASSUME NEW i \in 0 .. IdxMod - 1
  PROVE  /\ Slot(i) = IF i < Num THEN i ELSE i - Num
         /\ Slot(i) \in Desc
BY VringAssumption DEF Slot, IdxMod, Desc

(* Incrementing an index below the last 16-bit value does not wrap. *)
LEMMA NextIdx ==
  ASSUME NEW i \in 0 .. IdxMod - 2
  PROVE  (i + 1) % IdxMod = i + 1
BY VringAssumption DEF IdxMod

(* Indices less than Num apart select different slots. *)
LEMMA SlotDistinct ==
  ASSUME NEW j \in 0 .. IdxMod - 1, NEW k \in 0 .. IdxMod - 1,
         j < k, k < j + Num
  PROVE  Slot(j) # Slot(k)
BY SlotCases, VringAssumption DEF IdxMod

(* u_idx = (u_idx + 1) % num follows the slot of the next index. *)
LEMMA SlotNext ==
  ASSUME NEW i \in 0 .. IdxMod - 2
  PROVE  (Slot(i) + 1) % Num = Slot(i + 1)
<1>1. CASE i + 1 < Num
  BY <1>1, SlotCases, VringAssumption DEF IdxMod
<1>2. CASE i + 1 = Num
  BY <1>2, SlotCases, VringAssumption DEF IdxMod
<1>3. CASE i + 1 > Num
  BY <1>3, SlotCases, VringAssumption DEF IdxMod
<1>4. QED  BY <1>1, <1>2, <1>3, VringAssumption DEF IdxMod

(* VRING_IDX_NONE is not the number of a descriptor. *)
LEMMA NoneNotDesc == NONE \notin Desc /\ NONE \in 0 .. IdxMod - 1
BY VringAssumption DEF NONE, IdxMod, Desc

-----------------------------------------------------------------------------
(* Facts about a state in which RingInv holds. *)

(* Where no more descriptors were reclaimed than announced, the indices are
   numbers in order. *)
LEMMA Bounds ==
  ASSUME RingInv
  PROVE  /\ Num \in Nat /\ Num > 0
         /\ IdxMod = 2 * Num
         /\ freed \in Nat /\ usedIdx \in Nat /\ cLastAvail \in Nat
         /\ availIdx \in Nat
         /\ usedIdx <= cLastAvail /\ cLastAvail <= availIdx
         /\ availIdx <= IdxMod - 1
         /\ freed # Overran => /\ freed <= usedIdx
                               /\ availIdx <= freed + Num
BY VringAssumption DEF RingInv, TypeOK, IndicesInOrder, IdxMod

(* The slots of the entries in flight, and the slot the next entry goes to,
   are all different. *)
LEMMA FlightSlots ==
  ASSUME RingInv, freed # Overran,
         NEW j \in freed .. availIdx - 1
  PROVE  /\ j \in 0 .. IdxMod - 1
         /\ Slot(j) \in Desc
         /\ availRing[Slot(j)] \in InFlight
         /\ availRing[Slot(j)] \in Desc
         /\ \A k \in freed .. availIdx - 1 : j # k => Slot(j) # Slot(k)
         /\ availIdx < freed + Num => Slot(j) # Slot(availIdx)
<1>1. j \in 0 .. IdxMod - 1
  BY Bounds
<1>2. \A k \in freed .. availIdx - 1 : j # k => Slot(j) # Slot(k)
  BY Bounds, SlotDistinct
<1>3. availIdx < freed + Num => Slot(j) # Slot(availIdx)
  BY Bounds, SlotDistinct
<1>4. Slot(j) \in Desc /\ availRing[Slot(j)] \in Desc
  BY <1>1, SlotCases DEF RingInv, TypeOK
<1>5. QED
  BY <1>1, <1>2, <1>3, <1>4 DEF InFlight

(* There are Num descriptors. *)
LEMMA DescCard == IsFiniteSet(Desc) /\ Cardinality(Desc) = Num
<1>1. /\ IsFiniteSet(0 .. Num - 1)
      /\ Cardinality(0 .. Num - 1)
           = IF 0 > Num - 1 THEN 0 ELSE Num - 1 - 0 + 1
  BY VringAssumption, FS_Interval
<1>2. QED
  BY <1>1, VringAssumption DEF Desc

(* If the free list is not empty there is room in the rings: the entries in
   flight name different descriptors and none of them is the head of the free
   list, so there are fewer than Num of them. *)
LEMMA Room ==
  ASSUME RingInv, freed # Overran, pLastAvail # NONE
  PROVE  availIdx < freed + Num
<1>1. SUFFICES ASSUME availIdx = freed + Num
               PROVE  FALSE
  BY Bounds
<1> DEFINE T == Desc \ {pLastAvail}
           S == freed .. availIdx - 1
           f == [k \in S |-> availRing[Slot(k)]]
<1>2. pLastAvail \in Desc /\ pLastAvail \notin InFlight
  BY DEF RingInv, OneOwner, Unowned, TypeOK
<1>3. IsFiniteSet(S) /\ Cardinality(S) = Num
  <2>1. freed \in Int /\ availIdx - 1 \in Int
    BY Bounds
  <2>2. /\ IsFiniteSet(S)
        /\ Cardinality(S) = IF freed > availIdx - 1 THEN 0
                            ELSE availIdx - 1 - freed + 1
    BY <2>1, FS_Interval
  <2> HIDE DEF S
  <2>3. QED
    BY <1>1, <2>2, Bounds
<1>4. IsFiniteSet(T) /\ Cardinality(T) = Num - 1
  BY <1>2, DescCard, FS_RemoveElement
<1>5. f \in [S -> T]
  BY <1>2, FlightSlots
<1>6. \E x, y \in S : x # y /\ f[x] = f[y]
  <2>1. Cardinality(T) < Cardinality(S)
    BY <1>3, <1>4, Bounds
  <2> HIDE DEF S, T, f
  <2>2. QED
    BY <1>3, <1>4, <1>5, <2>1, FS_PigeonHole
<1>7. QED
  BY <1>6 DEF RingInv, OneOwner, EntriesDistinct
-----------------------------------------------------------------------------
(* The initial state: all descriptors on the free list, in a row. *)
LEMMA InitRing == Init => RingInv
<1> SUFFICES ASSUME Init PROVE RingInv
  OBVIOUS
<1> USE VringAssumption
<1>0. \A d \in Desc : next[d] = IF d = Num - 1 THEN NONE ELSE d + 1
  BY DEF Init, FreshLinks
<1>1. TypeOK
  <2>1. next \in [Desc -> Desc \cup {NONE}]
    BY DEF Init, FreshLinks, Desc
  <2>2. 0 \in Desc /\ 0 \in 0 .. IdxMod - 1 /\ 0 \in 0 .. Overran
    BY DEF Desc, IdxMod, Overran
  <2>3. len \in [Desc -> Lens] /\ buf \in [Desc -> Packets \cup {NoPacket}]
    BY DEF Init, Lens
  <2>4. QED
    BY <2>1, <2>2, <2>3 DEF Init, TypeOK
<1>2. InFlight = {} /\ Claimed = {} /\ Unowned = Desc
  BY DEF Init, InFlight, Claimed, Unowned
<1>3. StuckPastNum /\ ClaimReady
  BY DEF Init, StuckPastNum, ClaimReady
<1>4. IndicesInOrder
  BY SlotCases DEF Init, IndicesInOrder, Overran, IdxMod
<1>5. OneOwner
  BY <1>2 DEF Init, OneOwner, EntriesDistinct, Desc
<1>6. FreeListClosed
  <2>1. pLastAvail = 0
    BY DEF Init
  <2>2. \A d \in Desc : next[d] \in (Desc \ {0}) \cup {NONE}
    BY <1>0 DEF Desc
  <2>3. \A d, e \in Desc : d # e /\ next[d] # NONE => next[d] # next[e]
    BY <1>0 DEF Desc
  <2>4. QED
    BY <1>2, <2>1, <2>2, <2>3 DEF FreeListClosed
<1>7. OutstandingIntact /\ UsedInOrder
  BY DEF Init, OutstandingIntact, UsedInOrder
<1>8. QED
  BY <1>1, <1>3, <1>4, <1>5, <1>6, <1>7 DEF RingInv

(* put_vring takes the head of the free list. *)
LEMMA PutFillKeeps ==
  ASSUME RingInv, NEW p \in Packets, PutFill(p)
  PROVE  RingInv'
<1> USE DEF RingInv
<1>1. pLastAvail \in Desc /\ next[pLastAvail] \in Desc \cup {NONE}
  BY DEF PutFill, TypeOK
<1>2. freed # Overran /\ freed < Num
  BY Bounds DEF PutFill, StuckPastNum, Overran
<1>3. availIdx < freed + Num
  BY <1>2, Room DEF PutFill
<1>4. pLastAvail \in Unowned
  BY <1>1, <1>2, NoneNotDesc DEF OneOwner
<1>5. /\ InFlight' = InFlight
      /\ Claimed = {} /\ Claimed' = {pLastAvail}
      /\ Unowned' = Unowned \ {pLastAvail}
  BY DEF PutFill, InFlight, Claimed, Unowned
<1>6. TypeOK'
  BY <1>1 DEF PutFill, TypeOK, Lens, consumer
<1>7. StuckPastNum'
  BY <1>2, Bounds DEF PutFill, StuckPastNum
<1>8. IndicesInOrder'
  BY DEF PutFill, IndicesInOrder, consumer
<1>9. OneOwner'
  <2>1. EntriesDistinct'
    BY <1>2 DEF PutFill, OneOwner, EntriesDistinct
  <2>2. (Claimed \cap InFlight)' = {}
    BY <1>4, <1>5 DEF Unowned
  <2>3. next[pLastAvail] \in (Unowned \ {pLastAvail}) \cup {NONE}
    BY <1>2, <1>4 DEF FreeListClosed
  <2>4. QED
    BY <1>5, <2>1, <2>2, <2>3 DEF PutFill, OneOwner
<1>10. FreeListClosed'
  <2>1. \A d \in Unowned' : next'[d] = next[d] /\ d # pLastAvail /\ d \in Unowned
    BY <1>5 DEF PutFill, TypeOK, Unowned
  <2>2. \A d \in Unowned' :
          next[d] \in (Unowned' \ {pLastAvail'}) \cup {NONE}
    BY <1>2, <1>4, <1>5, <2>1 DEF PutFill, FreeListClosed
  <2>3. QED
    BY <1>2, <2>1, <2>2 DEF FreeListClosed
<1>11. ClaimReady'
  BY <1>1, <1>3 DEF PutFill, ClaimReady, TypeOK
<1>12. OutstandingIntact'
  <2>1. \A k \in cLastAvail .. availIdx - 1 : k \in freed .. availIdx - 1
    BY <1>2, Bounds
  <2>2. \A k \in cLastAvail .. availIdx - 1 :
          /\ availRing[Slot(k)] # pLastAvail
          /\ availRing[Slot(k)] \in Desc
    BY <1>2, <1>4, <2>1, FlightSlots DEF Unowned
  <2>3. QED
    BY <1>1, <1>2, <2>2 DEF PutFill, OutstandingIntact, TypeOK, consumer
<1>13. UsedInOrder'
  BY DEF PutFill, UsedInOrder, consumer
<1>14. QED
  BY <1>6, <1>7, <1>8, <1>9, <1>10, <1>11, <1>12, <1>13

(* put_vring writes the next entry of the avail ring. *)
LEMMA PutRingKeeps ==
  ASSUME RingInv, PutRing
  PROVE  RingInv'
<1> USE DEF RingInv
<1>1. aIdx \in Desc /\ availIdx < freed + Num /\ freed # Overran
  BY Bounds DEF PutRing, TypeOK, ClaimReady, StuckPastNum, Overran
<1>2. Slot(availIdx) \in Desc
  BY SlotCases DEF TypeOK
<1>3. \A k \in freed .. availIdx - 1 :
        availRing'[Slot(k)] = availRing[Slot(k)]
  BY <1>1, FlightSlots DEF PutRing, TypeOK
<1>4. InFlight' = InFlight /\ Claimed' = Claimed /\ Unowned' = Unowned
  BY <1>3 DEF PutRing, InFlight, Claimed, Unowned
<1>5. TypeOK'
  BY <1>1 DEF PutRing, TypeOK, consumer
<1>6. StuckPastNum'
  BY DEF PutRing, StuckPastNum
<1>7. IndicesInOrder'
  BY DEF PutRing, IndicesInOrder, consumer
<1>8. OneOwner'
  BY <1>1, <1>3, <1>4 DEF PutRing, OneOwner, EntriesDistinct
<1>9. FreeListClosed'
  BY <1>4 DEF PutRing, FreeListClosed
<1>10. ClaimReady'
  BY <1>1, <1>2 DEF PutRing, ClaimReady, TypeOK
<1>11. OutstandingIntact'
  BY <1>1, <1>3, Bounds DEF PutRing, OutstandingIntact, consumer
<1>12. UsedInOrder'
  BY <1>1, <1>3, Bounds DEF PutRing, UsedInOrder, consumer
<1>13. QED
  BY <1>5, <1>6, <1>7, <1>8, <1>9, <1>10, <1>11, <1>12

(* put_vring publishes the entry. *)
LEMMA PutIdxKeeps ==
  ASSUME RingInv, PutIdx
  PROVE  RingInv'
<1> USE DEF RingInv
<1>1. /\ freed < Num /\ freed # Overran
      /\ availIdx < freed + Num
      /\ availIdx' = availIdx + 1
      /\ availIdx + 1 \in 0 .. IdxMod - 1
  <2>1. freed < Num /\ freed # Overran /\ availIdx < freed + Num
    BY Bounds DEF PutIdx, StuckPastNum, Overran, ClaimReady
  <2>2. availIdx \in 0 .. IdxMod - 2
    BY <2>1, Bounds
  <2>3. QED
    BY <2>1, <2>2, NextIdx, Bounds DEF PutIdx
<1>2. availRing[Slot(availIdx)] = aIdx /\ len[aIdx] = "packet"
  BY DEF PutIdx, ClaimReady
<1>3. freed .. availIdx' - 1 = (freed .. availIdx - 1) \cup {availIdx}
  BY <1>1, Bounds
<1>4. /\ InFlight' = InFlight \cup {aIdx}
      /\ Claimed = {aIdx} /\ Claimed' = {}
      /\ Unowned' = Unowned
  BY <1>2, <1>3 DEF PutIdx, InFlight, Claimed, Unowned
<1>5. TypeOK'
  BY <1>1 DEF PutIdx, TypeOK, consumer
<1>6. StuckPastNum'
  BY <1>1, Bounds DEF PutIdx, StuckPastNum
<1>7. IndicesInOrder'
  BY <1>1, Bounds DEF PutIdx, IndicesInOrder, consumer
<1>8. OneOwner'
  <2>1. \A k \in freed .. availIdx - 1 : availRing[Slot(k)] # aIdx
    BY <1>1, <1>4 DEF OneOwner, InFlight
  <2>2. EntriesDistinct'
    BY <1>1, <1>2, <1>3, <2>1 DEF PutIdx, OneOwner, EntriesDistinct
  <2>3. QED
    BY <1>1, <1>4, <2>2 DEF PutIdx, OneOwner
<1>9. FreeListClosed'
  BY <1>4 DEF PutIdx, FreeListClosed
<1>10. ClaimReady'
  BY DEF PutIdx, ClaimReady
<1>11. OutstandingIntact'
  BY <1>1, <1>2, Bounds DEF PutIdx, OutstandingIntact, consumer
<1>12. UsedInOrder'
  BY <1>1 DEF PutIdx, UsedInOrder, consumer
<1>13. QED
  BY <1>5, <1>6, <1>7, <1>8, <1>9, <1>10, <1>11, <1>12
-----------------------------------------------------------------------------
(* process_used_vring is entered, or left because u_idx met used->idx. *)
LEMMA ProcessUsedBeginKeeps ==
  ASSUME RingInv, ProcessUsedBegin
  PROVE  RingInv'
<1> USE DEF RingInv, ProcessUsedBegin, shared, consumer
<1>1. Claimed = {} /\ Claimed' = {}
  BY DEF Claimed
<1>2. InFlight' = InFlight /\ Unowned' = Unowned
  BY <1>1 DEF InFlight, Unowned
<1>3. TypeOK' /\ StuckPastNum' /\ IndicesInOrder' /\ ClaimReady'
  BY DEF TypeOK, StuckPastNum, IndicesInOrder, ClaimReady
<1>4. OneOwner' /\ FreeListClosed'
  BY <1>1, <1>2 DEF OneOwner, EntriesDistinct, FreeListClosed
<1>5. OutstandingIntact' /\ UsedInOrder'
  BY DEF OutstandingIntact, UsedInOrder
<1>6. QED
  BY <1>3, <1>4, <1>5

(* Leaving process_used_vring keeps the ring's invariant. *)
LEMMA ProcessUsedEndKeeps ==
  ASSUME RingInv, ProcessUsedEnd
  PROVE  RingInv'
<1> USE DEF RingInv, ProcessUsedEnd, shared, consumer
<1>1. Claimed = {} /\ Claimed' = {}
  BY DEF Claimed
<1>2. InFlight' = InFlight /\ Unowned' = Unowned
  BY <1>1 DEF InFlight, Unowned
<1>3. TypeOK' /\ IndicesInOrder' /\ ClaimReady'
  BY DEF TypeOK, IndicesInOrder, ClaimReady
<1>4. StuckPastNum'
  <2>1. usedIdx < Num
    BY VringAssumption DEF TypeOK, Desc
  <2>2. QED
    BY <2>1, Bounds DEF StuckPastNum
<1>5. OneOwner' /\ FreeListClosed'
  BY <1>1, <1>2 DEF OneOwner, EntriesDistinct, FreeListClosed
<1>6. OutstandingIntact' /\ UsedInOrder'
  BY DEF OutstandingIntact, UsedInOrder
<1>7. QED
  BY <1>3, <1>4, <1>5, <1>6

(* Returning the next announced descriptor: it is the oldest in flight, and it
   becomes the head of the free list. *)
LEMMA ReclaimKeeps ==
  ASSUME RingInv, ProcessUsedStep, freed < usedIdx, freed # Overran
  PROVE  RingInv'
<1> USE DEF RingInv, FreeDesc
<1> DEFINE d == availRing[Slot(freed)]
<1>1. /\ freed' = freed + 1 /\ freed' # Overran
      /\ freed + 1 \in 0 .. IdxMod - 1
      /\ freed \in 0 .. IdxMod - 2
  BY Bounds DEF ProcessUsedStep, Overran
<1>2. /\ usedRing[pLastUsed] = d
      /\ freed \in freed .. availIdx - 1
      /\ freed \in freed .. cLastAvail - 1
  BY Bounds DEF IndicesInOrder, UsedInOrder
<1>3. d \in InFlight /\ d \in Desc
  BY <1>2, FlightSlots
<1>4. /\ len' = [len EXCEPT ![d] = "bufferSize"]
      /\ next' = [next EXCEPT ![d] = pLastAvail]
      /\ pLastAvail' = d
  BY <1>2 DEF ProcessUsedStep
<1>5. \A k \in freed' .. availIdx - 1 :
        k \in freed .. availIdx - 1 /\ availRing[Slot(k)] # d
  BY <1>1, <1>2, Bounds DEF OneOwner, EntriesDistinct
<1>6. /\ InFlight' = InFlight \ {d}
      /\ Claimed = {} /\ Claimed' = {}
      /\ Unowned' = Unowned \cup {d}
  <2>1. freed .. availIdx - 1 = (freed' .. availIdx - 1) \cup {freed}
    BY <1>1, <1>2, Bounds
  <2>2. InFlight' = InFlight \ {d}
    BY <1>5, <2>1 DEF ProcessUsedStep, InFlight
  <2>3. Claimed = {} /\ Claimed' = {}
    BY DEF ProcessUsedStep, Claimed
  <2>4. QED
    BY <1>3, <2>2, <2>3 DEF Unowned
<1>7. d \notin Unowned
  BY <1>3 DEF Unowned
<1>8. TypeOK'
  <2>1. pLastUsed' \in Desc
    BY VringAssumption DEF ProcessUsedStep, TypeOK, Desc
  <2>2. freed' \in 0 .. Overran
    BY <1>1, Bounds DEF Overran
  <2>3. QED
    BY <1>3, <1>4, <2>1, <2>2 DEF ProcessUsedStep, TypeOK, Lens, consumer
<1>9. StuckPastNum'
  BY <1>1, Bounds DEF ProcessUsedStep, StuckPastNum
<1>10. IndicesInOrder'
  <2>1. pLastUsed' = Slot(freed')
    BY <1>1, SlotNext DEF ProcessUsedStep, IndicesInOrder
  <2>2. QED
    BY <1>1, <2>1, Bounds DEF ProcessUsedStep, IndicesInOrder, consumer
<1>11. OneOwner'
  <2>1. EntriesDistinct'
    BY <1>5 DEF ProcessUsedStep, OneOwner, EntriesDistinct
  <2>2. QED
    BY <1>4, <1>6, <2>1 DEF OneOwner
<1>12. FreeListClosed'
  <2>1. next'[d] = pLastAvail /\ \A e \in Unowned : next'[e] = next[e]
    BY <1>3, <1>4, <1>7 DEF TypeOK, Unowned
  <2>2. pLastAvail \in Unowned \cup {NONE}
    BY DEF OneOwner
  <2>3. \A e \in Unowned : next[e] \in (Unowned \ {pLastAvail}) \cup {NONE}
    BY DEF FreeListClosed
  <2>4. \A e \in Unowned' :
          next'[e] \in (Unowned' \ {pLastAvail'}) \cup {NONE}
    BY <1>4, <1>6, <1>7, <2>1, <2>2, <2>3
  <2>5. \A e, f \in Unowned' : e # f /\ next'[e] # NONE => next'[e] # next'[f]
    BY <1>6, <1>7, <2>1, <2>3 DEF FreeListClosed
  <2>6. QED
    BY <2>4, <2>5 DEF FreeListClosed
<1>13. ClaimReady'
  BY DEF ProcessUsedStep, ClaimReady
<1>14. OutstandingIntact'
  <2>1. \A k \in cLastAvail .. availIdx - 1 :
          k \in freed' .. availIdx - 1 /\ availRing[Slot(k)] \in Desc
    BY <1>1, Bounds, FlightSlots
  <2>2. \A k \in cLastAvail .. availIdx - 1 :
          len'[availRing[Slot(k)]] = len[availRing[Slot(k)]]
    BY <1>4, <1>5, <2>1 DEF TypeOK
  <2>3. QED
    BY <2>2 DEF ProcessUsedStep, OutstandingIntact, consumer
<1>15. UsedInOrder'
  <2>1. \A k \in freed' .. cLastAvail - 1 : k \in freed .. cLastAvail - 1
    BY <1>1, Bounds
  <2>2. QED
    BY <2>1 DEF ProcessUsedStep, UsedInOrder, consumer
<1>16. QED
  BY <1>8, <1>9, <1>10, <1>11, <1>12, <1>13, <1>14, <1>15

(* Returning more than was announced: this takes used->idx >= Num, which u_idx
   never meets, and from then on only the indices and the fact that the
   producer is stuck remain. *)
LEMMA OverrunKeeps ==
  ASSUME RingInv, ProcessUsedStep, ~ (freed < usedIdx /\ freed # Overran)
  PROVE  RingInv'
<1> USE DEF RingInv, FreeDesc
<1>1. freed' = Overran
  BY Bounds DEF ProcessUsedStep, TypeOK, Overran
<1>2. usedIdx >= Num
  <2>1. CASE freed = Overran
    BY <2>1, Bounds DEF StuckPastNum, Overran
  <2>2. CASE freed # Overran
    <3>1. freed = usedIdx /\ pLastUsed = Slot(usedIdx)
      BY <2>2, Bounds DEF IndicesInOrder
    <3>2. QED
      BY <3>1, SlotCases, Bounds DEF ProcessUsedStep, TypeOK
  <2>3. QED
    BY <2>1, <2>2
<1>3. TypeOK'
  <2>1. pLastUsed' \in Desc
    BY VringAssumption DEF ProcessUsedStep, TypeOK, Desc
  <2>2. usedRing[pLastUsed] \in Desc
    BY DEF TypeOK
  <2>3. freed' \in 0 .. Overran
    BY <1>1, Bounds DEF Overran
  <2>4. QED
    BY <2>1, <2>2, <2>3 DEF ProcessUsedStep, TypeOK, Lens, consumer
<1>4. StuckPastNum'
  BY <1>2 DEF ProcessUsedStep, StuckPastNum
<1>5. IndicesInOrder'
  BY <1>1 DEF ProcessUsedStep, IndicesInOrder, consumer, Overran
<1>6. ClaimReady'
  BY DEF ProcessUsedStep, ClaimReady
<1>7. OneOwner' /\ FreeListClosed' /\ OutstandingIntact' /\ UsedInOrder'
  BY <1>1 DEF OneOwner, FreeListClosed, OutstandingIntact, UsedInOrder, Overran
<1>8. QED
  BY <1>3, <1>4, <1>5, <1>6, <1>7
-----------------------------------------------------------------------------
(* process_avail_vring is entered. *)
LEMMA ProcessAvailBeginKeeps ==
  ASSUME RingInv, ProcessAvailBegin
  PROVE  RingInv'
<1> USE DEF RingInv, ProcessAvailBegin, shared, producer
<1>1. InFlight' = InFlight /\ Claimed' = Claimed /\ Unowned' = Unowned
  BY DEF InFlight, Claimed, Unowned
<1>2. TypeOK' /\ StuckPastNum' /\ IndicesInOrder' /\ ClaimReady'
  BY DEF TypeOK, StuckPastNum, IndicesInOrder, ClaimReady
<1>3. OneOwner' /\ FreeListClosed'
  BY <1>1 DEF OneOwner, EntriesDistinct, FreeListClosed
<1>4. OutstandingIntact' /\ UsedInOrder'
  BY DEF OutstandingIntact, UsedInOrder
<1>5. QED
  BY <1>2, <1>3, <1>4

(* _process_desc: as long as nothing was reclaimed too early, the entry has
   the length put_vring stored and goes to the used ring, in the slot that
   follows the previous one. *)
LEMMA ProcessDescKeeps ==
  ASSUME RingInv, ProcessDesc
  PROVE  RingInv'
<1> USE DEF RingInv
<1>1. /\ cLastAvail < availIdx
      /\ cLastAvail \in 0 .. IdxMod - 2
      /\ cLastAvail' = cLastAvail + 1
      /\ cLastUsed' = cLastAvail + 1
      /\ cLastUsed = cLastAvail
  <2>1. cLastUsed = cLastAvail /\ cLastAvail # availIdx
    BY DEF ProcessDesc, EntryDesc, IndicesInOrder
  <2>2. cLastAvail < availIdx /\ cLastAvail \in 0 .. IdxMod - 2
    BY <2>1, Bounds
  <2>3. (cLastAvail + 1) % IdxMod = cLastAvail + 1
    BY <2>2, NextIdx
  <2>4. QED
    BY <2>1, <2>2, <2>3 DEF ProcessDesc, EntryDesc
<1>2. InFlight' = InFlight /\ Claimed' = Claimed /\ Unowned' = Unowned
  BY DEF ProcessDesc, EntryDesc, InFlight, Claimed, Unowned, producer
<1>3. TypeOK'
  <2>1. Slot(cLastAvail) \in Desc /\ availRing[Slot(cLastAvail)] \in Desc
    BY <1>1, SlotCases DEF TypeOK
  <2>2. usedRing' \in [Desc -> Desc] /\ out' \in Packets \cup {NoPacket}
    BY <1>1, <2>1 DEF ProcessDesc, EntryDesc, TypeOK
  <2>3. QED
    BY <1>1, <2>2, Bounds DEF ProcessDesc, EntryDesc, TypeOK, producer
<1>4. StuckPastNum'
  BY DEF ProcessDesc, EntryDesc, StuckPastNum, producer
<1>5. IndicesInOrder'
  BY <1>1, Bounds DEF ProcessDesc, EntryDesc, IndicesInOrder, producer
<1>6. OneOwner' /\ FreeListClosed'
  BY <1>2 DEF ProcessDesc, EntryDesc, OneOwner, EntriesDistinct, FreeListClosed, producer
<1>7. ClaimReady'
  BY DEF ProcessDesc, EntryDesc, ClaimReady, producer
<1>8. OutstandingIntact'
  BY <1>1, Bounds DEF ProcessDesc, EntryDesc, OutstandingIntact
<1>9. UsedInOrder'
  <2>1. SUFFICES ASSUME freed # Overran, NEW k \in freed .. cLastAvail
                 PROVE  usedRing'[Slot(k)] = availRing[Slot(k)]
    BY <1>1, Bounds DEF ProcessDesc, EntryDesc, UsedInOrder
  <2>2. k \in freed .. availIdx - 1 /\ cLastAvail \in freed .. availIdx - 1
    BY <1>1, <2>1, Bounds
  <2>3. len[availRing[Slot(cLastAvail)]] = "packet"
    BY <1>1, <2>1, Bounds DEF OutstandingIntact
  <2>4. usedRing' = [usedRing EXCEPT ![Slot(cLastAvail)]
                                       = availRing[Slot(cLastAvail)]]
    BY <1>1, <2>3 DEF ProcessDesc, EntryDesc
  <2>5. CASE k = cLastAvail
    BY <2>1, <2>2, <2>4, <2>5, FlightSlots DEF TypeOK
  <2>6. CASE k # cLastAvail
    <3>1. Slot(k) # Slot(cLastAvail) /\ Slot(k) \in Desc
      BY <2>1, <2>2, <2>6, FlightSlots
    <3>2. k \in freed .. cLastAvail - 1
      BY <2>1, <2>6, Bounds
    <3>3. QED
      BY <2>1, <2>4, <3>1, <3>2 DEF TypeOK, UsedInOrder
  <2>7. QED
    BY <2>5, <2>6
<1>10. QED
  BY <1>3, <1>4, <1>5, <1>6, <1>7, <1>8, <1>9

(* process_avail_vring publishes used->idx. *)
LEMMA PublishUsedKeeps ==
  ASSUME RingInv, PublishUsed
  PROVE  RingInv'
<1> USE DEF RingInv
<1>1. usedIdx' = cLastAvail /\ usedIdx <= usedIdx'
  BY Bounds DEF PublishUsed, IndicesInOrder
<1>2. InFlight' = InFlight /\ Claimed' = Claimed /\ Unowned' = Unowned
  BY DEF PublishUsed, InFlight, Claimed, Unowned, producer
<1>3. TypeOK'
  BY <1>1 DEF PublishUsed, TypeOK, producer
<1>4. StuckPastNum'
  BY <1>1, Bounds DEF PublishUsed, StuckPastNum, producer
<1>5. IndicesInOrder'
  BY <1>1, Bounds DEF PublishUsed, IndicesInOrder, producer
<1>6. OneOwner' /\ FreeListClosed' /\ ClaimReady'
  BY <1>2 DEF PublishUsed, OneOwner, EntriesDistinct, FreeListClosed,
              ClaimReady, producer
<1>7. OutstandingIntact' /\ UsedInOrder'
  BY DEF PublishUsed, OutstandingIntact, UsedInOrder
<1>8. QED
  BY <1>3, <1>4, <1>5, <1>6, <1>7

(* A step in which nothing changes. *)
LEMMA StutterKeeps ==
  ASSUME RingInv, UNCHANGED vars
  PROVE  RingInv'
<1> USE DEF RingInv, vars, shared, producer, consumer
<1>1. InFlight' = InFlight /\ Claimed' = Claimed /\ Unowned' = Unowned
  BY DEF InFlight, Claimed, Unowned
<1>2. TypeOK' /\ StuckPastNum' /\ IndicesInOrder' /\ ClaimReady'
  BY DEF TypeOK, StuckPastNum, IndicesInOrder, ClaimReady
<1>3. OneOwner' /\ FreeListClosed'
  BY <1>1 DEF OneOwner, EntriesDistinct, FreeListClosed
<1>4. OutstandingIntact' /\ UsedInOrder'
  BY DEF OutstandingIntact, UsedInOrder
<1>5. QED
  BY <1>2, <1>3, <1>4

-----------------------------------------------------------------------------
(* Every step of either process keeps RingInv. *)
LEMMA RingInvInductive ==
  ASSUME RingInv, [Next]_vars
  PROVE  RingInv'
<1>1. CASE \E p \in Packets : PutFill(p)
  BY <1>1, PutFillKeeps
<1>2. CASE PutRing
  BY <1>2, PutRingKeeps
<1>3. CASE PutIdx
  BY <1>3, PutIdxKeeps
<1>4. CASE ProcessUsedBegin
  BY <1>4, ProcessUsedBeginKeeps
<1>5. CASE ProcessUsedStep
  BY <1>5, ReclaimKeeps, OverrunKeeps
<1>6. CASE ProcessUsedEnd
  BY <1>6, ProcessUsedEndKeeps
<1>7. CASE ProcessAvailBegin
  BY <1>7, ProcessAvailBeginKeeps
<1>8. CASE ProcessDesc
  BY <1>8, ProcessDescKeeps
<1>9. CASE PublishUsed
  BY <1>9, PublishUsedKeeps
<1>10. CASE UNCHANGED vars
  BY <1>10, StutterKeeps
<1>11. QED
  BY <1>1, <1>2, <1>3, <1>4, <1>5, <1>6, <1>7, <1>8, <1>9, <1>10
     DEF Next, Produce, Consume

(* RingInv holds in every reachable state of a vring of any size. *)
THEOREM RingInvariant == Spec => []RingInv
<1>1. Init => RingInv
  BY InitRing
<1>2. RingInv /\ [Next]_vars => RingInv'
  BY RingInvInductive
<1>3. QED
  BY <1>1, <1>2, PTL DEF Spec

(* Every variable keeps its type: no index leaves its 16 bits and no entry of
   a ring names anything but a descriptor, which is the assertion of
   _free_vring (vring.c:192). *)
THEOREM TypeCorrect == Spec => []TypeOK
<1>1. RingInv => TypeOK
  BY DEF RingInv
<1>2. QED
  BY <1>1, RingInvariant, PTL

(* reclaimed <= announced <= processed <= published <= reclaimed + num: no
   entry of the avail ring or of the used ring is overwritten before the other
   process has read it. *)
THEOREM IndicesStayInOrder == Spec => []IndicesInOrder
<1>1. RingInv => IndicesInOrder
  BY DEF RingInv
<1>2. QED
  BY <1>1, RingInvariant, PTL

(* put_vring, _process_desc and _free_vring never have the same descriptor. *)
THEOREM DescriptorsHaveOneOwner == Spec => []OneOwner
<1>1. RingInv => OneOwner
  BY DEF RingInv
<1>2. QED
  BY <1>1, RingInvariant, PTL

(* What was published and is not processed yet still is what put_vring wrote:
   _process_desc never takes its early return for it. *)
THEOREM OutstandingStaysIntact == Spec => []OutstandingIntact
<1>1. RingInv => OutstandingIntact
  BY DEF RingInv
<1>2. QED
  BY <1>1, RingInvariant, PTL

(* Descriptors come back in the order in which they were published. *)
THEOREM UsedFollowsAvail == Spec => []UsedInOrder
<1>1. RingInv => UsedInOrder
  BY DEF RingInv
<1>2. QED
  BY <1>1, RingInvariant, PTL

(* For every ring size: once process_used_vring has returned num descriptors
   it never ends, so the producer's process hangs. *)
THEOREM StuckAfterNum == Spec => []StuckPastNum
<1>1. RingInv => StuckPastNum
  BY DEF RingInv
<1>2. QED
  BY <1>1, RingInvariant, PTL

-----------------------------------------------------------------------------
(* The free list as a sequence.  What FreeList computes by following the links
   is the set of its members, and taking a descriptor or returning one takes
   its first member or puts a new one before it. *)
Lists(m, f) ==
  /\ f \in [1 .. m -> Desc]
  /\ {f[i] : i \in 1 .. m} = Unowned
  /\ \A i, j \in 1 .. m : i # j => f[i] # f[j]
  /\ pLastAvail = IF m = 0 THEN NONE ELSE f[1]
  /\ \A i \in 1 .. m : next[f[i]] = IF i = m THEN NONE ELSE f[i + 1]

FreeListed == freed # Overran => \E m \in Nat : \E f : Lists(m, f)

(* new_vring links all descriptors in a row. *)
LEMMA InitListed == Init => FreeListed
<1> SUFFICES ASSUME Init PROVE \E f : Lists(Num, f)
  BY VringAssumption DEF FreeListed
<1> USE VringAssumption
<1> DEFINE f == [i \in 1 .. Num |-> i - 1]
<1>1. Unowned = Desc
  BY DEF Init, InFlight, Claimed, Unowned
<1>2. \A d \in Desc : next[d] = IF d = Num - 1 THEN NONE ELSE d + 1
  BY DEF Init, FreshLinks
<1>3. f \in [1 .. Num -> Desc]
  BY DEF Desc
<1>4. {f[i] : i \in 1 .. Num} = Desc
  <2>1. \A d \in Desc : d + 1 \in 1 .. Num /\ f[d + 1] = d
    BY DEF Desc
  <2> QED
    BY <1>3, <2>1
<1>5. \A i, j \in 1 .. Num : i # j => f[i] # f[j]
  OBVIOUS
<1>6. pLastAvail = 0 /\ f[1] = 0 /\ Num # 0
  BY DEF Init
<1>7. \A i \in 1 .. Num : next[f[i]] = IF i = Num THEN NONE ELSE f[i + 1]
  BY <1>2, <1>3
<1> HIDE DEF f
<1>8. Lists(Num, f)
  BY <1>1, <1>3, <1>4, <1>5, <1>6, <1>7 DEF Lists
<1> QED
  BY <1>8

(* put_vring takes the first member. *)
LEMMA PutFillListed ==
  ASSUME RingInv, FreeListed, NEW p \in Packets, PutFill(p)
  PROVE  FreeListed'
<1> SUFFICES ASSUME freed # Overran PROVE \E m \in Nat : \E f : Lists(m, f)'
  BY DEF FreeListed, PutFill
<1>0. PICK m \in Nat : \E f : Lists(m, f)
  BY DEF FreeListed
<1>1. PICK f : Lists(m, f)
  BY <1>0
<1>2. m > 0 /\ pLastAvail = f[1] /\ 1 \in 1 .. m
  BY <1>1 DEF Lists, PutFill
<1>3. pLastAvail \in Desc /\ pLastAvail \in Unowned
  BY <1>1, <1>2 DEF Lists
<1>4. Unowned' = Unowned \ {f[1]}
  BY <1>2, <1>3 DEF PutFill, InFlight, Claimed, Unowned
<1> DEFINE n == m - 1
           g == [i \in 1 .. n |-> f[i + 1]]
<1>5. n \in Nat /\ \A i \in 1 .. n : i + 1 \in 1 .. m /\ i + 1 # 1 /\ i \in 1 .. m
  BY <1>2
<1>6. \A i \in 1 .. n : g[i] \in Desc /\ g[i] # f[1] /\ g[i] \in Unowned
  BY <1>1, <1>2, <1>5 DEF Lists
<1>7. {g[i] : i \in 1 .. n} = Unowned'
  <2>1. ASSUME NEW d \in Unowned' PROVE \E i \in 1 .. n : g[i] = d
    <3>1. PICK j \in 1 .. m : f[j] = d
      BY <1>1, <1>4 DEF Lists
    <3>2. j # 1 /\ j - 1 \in 1 .. n /\ (j - 1) + 1 = j
      BY <1>4, <3>1
    <3>3. g[j - 1] = d
      BY <3>1, <3>2
    <3> QED
      BY <3>2, <3>3
  <2> HIDE DEF g
  <2> QED
    BY <1>4, <1>6, <2>1
<1>8. \A i, j \in 1 .. n : i # j => g[i] # g[j]
  BY <1>1, <1>5 DEF Lists
<1>9. next' = [next EXCEPT ![f[1]] = NONE] /\ pLastAvail' = next[f[1]]
  BY <1>2 DEF PutFill
<1>10. pLastAvail' = IF n = 0 THEN NONE ELSE g[1]
  BY <1>1, <1>2, <1>5, <1>9 DEF Lists
<1>11. \A i \in 1 .. n : next'[g[i]] = IF i = n THEN NONE ELSE g[i + 1]
  <2>1. ASSUME NEW i \in 1 .. n PROVE next'[g[i]] = IF i = n THEN NONE ELSE g[i + 1]
    <3>1. next'[g[i]] = next[f[i + 1]]
      BY <1>6, <1>9 DEF RingInv, TypeOK
    <3>2. next[f[i + 1]] = IF i + 1 = m THEN NONE ELSE f[(i + 1) + 1]
      BY <1>1, <1>5 DEF Lists
    <3>3. CASE i = n
      BY <3>1, <3>2, <3>3
    <3>4. CASE i # n
      <4>1. i + 1 \in 1 .. n /\ i + 1 # m
        BY <1>5, <3>4
      <4>2. g[i + 1] = f[(i + 1) + 1]
        BY <4>1
      <4> QED
        BY <3>1, <3>2, <3>4, <4>1, <4>2
    <3> QED
      BY <3>3, <3>4
  <2> QED
    BY <2>1
<1> HIDE DEF n
<1>12. g \in [1 .. n -> Desc]
  BY <1>6
<1> HIDE DEF g
<1>13. Lists(n, g)'
  BY <1>7, <1>8, <1>10, <1>11, <1>12 DEF Lists
<1> QED
  BY <1>5, <1>13

(* _free_vring puts the oldest descriptor in flight before the others. *)
LEMMA ReclaimListed ==
  ASSUME RingInv, FreeListed, ProcessUsedStep, freed < usedIdx, freed # Overran
  PROVE  FreeListed'
<1>0. PICK m \in Nat : \E f : Lists(m, f)
  BY DEF FreeListed
<1>1. PICK f : Lists(m, f)
  BY <1>0
<1> PICK d : d = availRing[Slot(freed)]
  OBVIOUS
<1>2. /\ freed' = freed + 1
      /\ freed \in freed .. availIdx - 1
      /\ freed \in freed .. cLastAvail - 1
  BY Bounds DEF ProcessUsedStep, Overran
<1>3. d \in InFlight /\ d \in Desc /\ usedRing[pLastUsed] = d
  BY <1>2, FlightSlots DEF RingInv, IndicesInOrder, UsedInOrder
<1>4. next' = [next EXCEPT ![d] = pLastAvail] /\ pLastAvail' = d
  BY <1>3 DEF ProcessUsedStep, FreeDesc
<1>5. d \notin Unowned /\ Unowned' = Unowned \cup {d}
  <2>1. freed .. availIdx - 1 = (freed' .. availIdx - 1) \cup {freed}
    BY <1>2, Bounds
  <2>2. \A k \in freed' .. availIdx - 1 : availRing[Slot(k)] # d
    BY <1>2, Bounds DEF RingInv, OneOwner, EntriesDistinct
  <2>3. InFlight' = InFlight \ {d}
    BY <2>1, <2>2 DEF ProcessUsedStep, InFlight
  <2>4. Claimed = {} /\ Claimed' = {}
    BY DEF ProcessUsedStep, Claimed
  <2> QED
    BY <1>3, <2>3, <2>4 DEF Unowned
<1> DEFINE n == m + 1
           g == [i \in 1 .. n |-> IF i = 1 THEN d ELSE f[i - 1]]
<1>6. /\ n \in Nat /\ n # 0 /\ 1 \in 1 .. n
      /\ \A i \in 1 .. n : i # 1 => i - 1 \in 1 .. m
      /\ \A i \in 1 .. m : i + 1 \in 1 .. n /\ i + 1 # 1 /\ (i + 1) - 1 = i
  OBVIOUS
<1>7. g[1] = d /\ \A i \in 1 .. m : g[i + 1] = f[i] /\ f[i] \in Unowned
  BY <1>1, <1>6 DEF Lists
<1>8. \A i \in 1 .. n : i # 1 => g[i] = f[i - 1] /\ g[i] \in Unowned
  BY <1>1, <1>6 DEF Lists
<1>9. g \in [1 .. n -> Desc]
  BY <1>3, <1>8 DEF Unowned
<1> HIDE DEF g
<1>10. {g[i] : i \in 1 .. n} = Unowned'
  <2>1. ASSUME NEW e \in Unowned PROVE \E i \in 1 .. n : g[i] = e
    <3>1. PICK j \in 1 .. m : f[j] = e
      BY <1>1 DEF Lists
    <3> QED
      BY <1>6, <1>7, <3>1
  <2> QED
    BY <1>5, <1>6, <1>7, <1>8, <2>1
<1>11. \A i, j \in 1 .. n : i # j => g[i] # g[j]
  <2>1. ASSUME NEW i \in 1 .. n, NEW j \in 1 .. n, i # j, i # 1, j # 1
        PROVE  g[i] # g[j]
    <3>1. i - 1 \in 1 .. m /\ j - 1 \in 1 .. m /\ i - 1 # j - 1
      BY <1>6, <2>1
    <3> QED
      BY <1>1, <1>8, <2>1, <3>1 DEF Lists
  <2> QED
    BY <1>5, <1>7, <1>8, <2>1
<1>12. pLastAvail' = IF n = 0 THEN NONE ELSE g[1]
  BY <1>4, <1>6, <1>7
<1>13. \A i \in 1 .. n : next'[g[i]] = IF i = n THEN NONE ELSE g[i + 1]
  <2>1. next'[g[1]] = IF m = 0 THEN NONE ELSE f[1]
    BY <1>1, <1>3, <1>4, <1>7 DEF Lists, RingInv, TypeOK
  <2>2. ASSUME NEW i \in 1 .. n, i # 1 PROVE next'[g[i]] = IF i = n THEN NONE ELSE g[i + 1]
    <3>1. i - 1 \in 1 .. m /\ g[i] = f[i - 1] /\ g[i] # d /\ g[i] \in Desc
      BY <1>5, <1>6, <1>8, <2>2 DEF Unowned
    <3>2. next'[g[i]] = next[f[i - 1]]
      BY <1>3, <1>4, <3>1 DEF RingInv, TypeOK
    <3>3. next[f[i - 1]] = IF i - 1 = m THEN NONE ELSE f[(i - 1) + 1]
      BY <1>1, <3>1 DEF Lists
    <3>4. (i - 1) + 1 = i /\ (i - 1 = m <=> i = n)
      OBVIOUS
    <3>5. i # n => i \in 1 .. m
      OBVIOUS
    <3> QED
      BY <1>7, <3>2, <3>3, <3>4, <3>5
  <2>3. n = 1 <=> m = 0
    OBVIOUS
  <2>4. m # 0 => g[1 + 1] = f[1]
    BY <1>7
  <2> QED
    BY <2>1, <2>2, <2>3, <2>4
<1>14. Lists(n, g)'
  BY <1>9, <1>10, <1>11, <1>12, <1>13 DEF Lists
<1> QED
  BY <1>6, <1>14 DEF FreeListed

(* The other steps leave the list and what is on it as they were. *)
LEMMA OthersListed ==
  ASSUME RingInv, FreeListed, freed' = freed, next' = next,
         pLastAvail' = pLastAvail, freed # Overran => Unowned' = Unowned
  PROVE  FreeListed'
BY DEF FreeListed, Lists

LEMMA FreeListedInductive ==
  ASSUME RingInv, FreeListed, [Next]_vars
  PROVE  FreeListed'
<1>1. CASE \E p \in Packets : PutFill(p)
  BY <1>1, PutFillListed
<1>2. CASE PutRing
  <2>1. /\ freed # Overran /\ availIdx < freed + Num /\ Slot(availIdx) \in Desc
        /\ aIdx \in Desc
    BY <1>2, Bounds, SlotCases DEF PutRing, RingInv, TypeOK, ClaimReady, StuckPastNum,
                                   Overran
  <2>2. \A k \in freed .. availIdx - 1 : availRing'[Slot(k)] = availRing[Slot(k)]
    BY <1>2, <2>1, FlightSlots DEF PutRing, RingInv, TypeOK
  <2>3. Unowned' = Unowned
    BY <1>2, <2>2 DEF PutRing, InFlight, Claimed, Unowned
  <2> QED
    BY <1>2, <2>3, OthersListed DEF PutRing
<1>3. CASE PutIdx
  <2>1. /\ freed # Overran /\ availIdx' = availIdx + 1
        /\ availRing[Slot(availIdx)] = aIdx
    <3>1. freed < Num /\ freed # Overran /\ availIdx < freed + Num
      BY <1>3, Bounds DEF PutIdx, RingInv, StuckPastNum, Overran, ClaimReady
    <3>2. availIdx \in 0 .. IdxMod - 2
      BY <3>1, Bounds
    <3> QED
      BY <1>3, <3>1, <3>2, NextIdx DEF PutIdx, RingInv, ClaimReady
  <2>2. freed .. availIdx' - 1 = (freed .. availIdx - 1) \cup {availIdx}
    BY <2>1, Bounds DEF RingInv, IndicesInOrder
  <2>3. InFlight' = InFlight \cup {aIdx} /\ Claimed = {aIdx} /\ Claimed' = {}
    BY <1>3, <2>1, <2>2 DEF PutIdx, InFlight, Claimed
  <2>4. Unowned' = Unowned
    BY <2>3 DEF Unowned
  <2> QED
    BY <1>3, <2>4, OthersListed DEF PutIdx
<1>4. CASE ProcessUsedBegin \/ ProcessUsedEnd
  <2>1. InFlight' = InFlight /\ Claimed' = Claimed
    BY <1>4 DEF ProcessUsedBegin, ProcessUsedEnd, shared, InFlight, Claimed
  <2> QED
    BY <1>4, <2>1, OthersListed DEF ProcessUsedBegin, ProcessUsedEnd, shared, Unowned
<1>5. CASE ProcessUsedStep
  <2>1. CASE freed < usedIdx /\ freed # Overran
    BY <1>5, <2>1, ReclaimListed
  <2>2. CASE ~ (freed < usedIdx /\ freed # Overran)
    <3>1. freed' = Overran
      BY <1>5, <2>2, Bounds DEF ProcessUsedStep, RingInv, TypeOK, Overran
    <3> QED
      BY <3>1 DEF FreeListed, Overran
  <2> QED
    BY <2>1, <2>2
<1>6. CASE Consume
  <2>1. InFlight' = InFlight /\ Claimed' = Claimed
    BY <1>6 DEF Consume, ProcessAvailBegin, ProcessDesc, EntryDesc, PublishUsed, shared,
                producer, InFlight, Claimed
  <2> QED
    BY <1>6, <2>1, OthersListed DEF Consume, ProcessAvailBegin, ProcessDesc, EntryDesc,
                                    PublishUsed, shared, producer, Unowned
<1>7. CASE UNCHANGED vars
  <2>1. InFlight' = InFlight /\ Claimed' = Claimed
    BY <1>7 DEF vars, shared, producer, InFlight, Claimed
  <2> QED
    BY <1>7, <2>1, OthersListed DEF vars, shared, producer, Unowned
<1> QED
  BY <1>1, <1>2, <1>3, <1>4, <1>5, <1>6, <1>7 DEF Next, Produce

-----------------------------------------------------------------------------
(* FreeList follows the links in a recursive function; that it finds the list
   is shown by induction on the links followed. *)
Below == {ss \in Nat \X Nat : ss[1] < ss[2]}

(* Induction over the natural numbers, for a set instead of a predicate. *)
LEMMA LeastOf ==
  ASSUME NEW T, T \subseteq Nat, T # {}
  PROVE  \E n \in T : \A m \in T : n <= m
<1>1. IsWellFoundedOn(Below, Nat)
  <2>1. Below = OpToRel(<, Nat)
    BY Zenon DEF Below, OpToRel
  <2> QED
    BY <2>1, NatLessThanWellFounded, Zenon
<1>2. PICK n \in T : \A m \in T : ~ (<<m, n>> \in Below)
  BY <1>1, WFMin, Zenon
<1>3. ASSUME NEW m \in T PROVE n <= m
  <2>1. n \in Nat /\ m \in Nat
    OBVIOUS
  <2>2. ~ (<<m, n>> \in Below)
    BY <1>2
  <2>3. ~ (m < n)
    BY <2>1, <2>2 DEF Below
  <2> QED
    BY <2>1, <2>3
<1> QED
  BY <1>3, Zenon

LEMMA FreeListFinds ==
  ASSUME TypeOK, NEW m \in Nat, NEW f, Lists(m, f)
  PROVE  FreeList = Unowned
<1> DEFINE Found(k) == {f[i] : i \in {j \in 1 .. m : j <= k + 1}}
           At(k) == Found(k) \cup (IF k >= m THEN {NONE} ELSE {})
           Follow(s) == s \cup {next[d] : d \in s \ {NONE}}
           g == [k \in 0 .. Num |-> At(k)]
           Is(r) == r = [k \in 0 .. Num |-> IF k = 0 THEN {pLastAvail}
                                            ELSE Follow(r[k - 1])]
<1>1. Num \in Nat /\ Num > 0 /\ NONE \notin Desc
  BY VringAssumption, NoneNotDesc
<1>2. /\ f \in [1 .. m -> Desc]
      /\ {f[i] : i \in 1 .. m} = Unowned
      /\ \A i, j \in 1 .. m : i # j => f[i] # f[j]
      /\ pLastAvail = IF m = 0 THEN NONE ELSE f[1]
      /\ \A i \in 1 .. m : f[i] # NONE
      /\ \A i \in 1 .. m : next[f[i]] = IF i = m THEN NONE ELSE f[i + 1]
  BY <1>1 DEF Lists
<1>3. At(0) = {pLastAvail}
  <2>1. CASE m = 0
    BY <1>2, <2>1
  <2>2. CASE m # 0
    <3>1. {j \in 1 .. m : j <= 0 + 1} = {1} /\ ~ (0 >= m)
      BY <2>2
    <3> QED
      BY <1>2, <2>2, <3>1
  <2> QED
    BY <2>1, <2>2
<1>4. ASSUME NEW k \in 1 .. Num PROVE At(k) = Follow(At(k - 1))
  <2>1. ASSUME NEW d \in At(k) PROVE d \in Follow(At(k - 1))
    <3>1. CASE d = NONE /\ k >= m
      <4>1. k - 1 >= m \/ k = m
        BY <3>1
      <4>2. CASE k - 1 >= m
        BY <4>2, <3>1
      <4>3. CASE k = m
        <5>1. m \in 1 .. m /\ m <= (k - 1) + 1
          BY <4>3
        <5>2. f[m] \in Found(k - 1) /\ f[m] # NONE /\ next[f[m]] = NONE
          BY <1>2, <5>1
        <5> QED
          BY <3>1, <5>2
      <4> QED
        BY <4>1, <4>2, <4>3
    <3>2. CASE d \in Found(k)
      <4>1. PICK i \in 1 .. m : i <= k + 1 /\ d = f[i]
        BY <3>2
      <4>2. CASE i <= k
        BY <4>1, <4>2
      <4>3. CASE i = k + 1
        <5>1. k \in 1 .. m /\ k # m /\ k <= (k - 1) + 1
          BY <4>1, <4>3
        <5>2. f[k] \in Found(k - 1) /\ f[k] # NONE /\ next[f[k]] = d
          BY <1>2, <4>1, <4>3, <5>1
        <5> QED
          BY <5>2
      <4> QED
        BY <4>1, <4>2, <4>3
    <3> QED
      BY <3>1, <3>2
  <2>2. ASSUME NEW d \in Follow(At(k - 1)) PROVE d \in At(k)
    <3>1. CASE d \in At(k - 1)
      BY <3>1
    <3>2. CASE d \notin At(k - 1)
      <4>1. PICK e \in At(k - 1) \ {NONE} : d = next[e]
        BY <3>2
      <4>2. e \in Found(k - 1)
        BY <4>1
      <4>3. PICK i \in 1 .. m : i <= k /\ e = f[i]
        BY <4>2
      <4>4. d = IF i = m THEN NONE ELSE f[i + 1]
        BY <1>2, <4>1, <4>3
      <4>5. CASE i = m
        BY <4>3, <4>4, <4>5
      <4>6. CASE i # m
        <5>1. i + 1 \in 1 .. m /\ i + 1 <= k + 1
          BY <4>3, <4>6
        <5> QED
          BY <4>4, <4>6, <5>1
      <4> QED
        BY <4>5, <4>6
    <3> QED
      BY <3>1, <3>2
  <2> QED
    BY <2>1, <2>2
<1> HIDE DEF At, Follow
<1>5. Is(g)
  <2>1. 0 \in 0 .. Num /\ \A k \in 1 .. Num : k \in 0 .. Num /\ k - 1 \in 0 .. Num
    BY <1>1
  <2>2. \A k \in 0 .. Num : g[k] = IF k = 0 THEN {pLastAvail} ELSE Follow(g[k - 1])
    BY <1>3, <1>4, <2>1
  <2>3. g = [k \in 0 .. Num |-> g[k]]
    OBVIOUS
  <2> HIDE DEF g
  <2> QED
    BY <2>2, <2>3, Zenon
<1> HIDE DEF g
<1> DEFINE r == CHOOSE r : Is(r)
<1>6. Is(r)
  BY <1>5, Zenon
<1>7. FreeList = r[Num] \ {NONE}
  BY Zenon DEF FreeList, Follow
<1> HIDE DEF r
<1>8. r[0] = {pLastAvail} /\ \A k \in 1 .. Num : r[k] = Follow(r[k - 1])
  <2>1. \A k \in 0 .. Num : r[k] = IF k = 0 THEN {pLastAvail} ELSE Follow(r[k - 1])
    BY <1>6, Zenon
  <2>2. 0 \in 0 .. Num /\ \A k \in 1 .. Num : k \in 0 .. Num /\ k # 0
    BY <1>1
  <2> QED
    BY <2>1, <2>2, Zenon
<1> DEFINE Differ == {k \in 0 .. Num : r[k] # At(k)}
<1>9. Differ = {}
  <2> SUFFICES ASSUME Differ # {} PROVE FALSE
    OBVIOUS
  <2>1. Differ \subseteq Nat
    BY <1>1
  <2>2. PICK k \in Differ : \A j \in Differ : k <= j
    BY <2>1, LeastOf, Zenon
  <2>3. k \in 0 .. Num /\ r[k] # At(k)
    BY Zenon
  <2>4. k \in 1 .. Num /\ k - 1 \in 0 .. Num /\ ~ (k <= k - 1)
    BY <1>1, <1>3, <1>8, <2>3
  <2>5. r[k - 1] = At(k - 1)
    BY <2>2, <2>4, Zenon
  <2> QED
    BY <1>4, <1>8, <2>3, <2>4, <2>5, Zenon
<1>10. m <= Num
  <2> SUFFICES ASSUME m > Num PROVE FALSE
    BY <1>1
  <2>1. IsFiniteSet(1 .. m) /\ Cardinality(1 .. m) = m
    BY FS_Interval
  <2>2. Cardinality(Desc) < Cardinality(1 .. m)
    BY <1>1, <2>1, DescCard
  <2> QED
    BY <1>2, <2>1, <2>2, DescCard, FS_PigeonHole
<1>11. At(Num) \ {NONE} = Unowned
  <2>1. {j \in 1 .. m : j <= Num + 1} = 1 .. m
    BY <1>1, <1>10
  <2>2. NONE \notin Unowned
    BY <1>1 DEF Unowned
  <2> QED
    BY <1>2, <2>1, <2>2 DEF At
<1>12. Num \in 0 .. Num
  BY <1>1
<1> QED
  BY <1>7, <1>9, <1>11, <1>12, Zenon

(* No descriptor is lost: whatever is neither in flight nor being filled can be
   reached by put_vring through the links, for a ring of any size. *)
THEOREM NoDescriptorIsLost == Spec => []NoDescLost
<1>1. RingInv /\ FreeListed /\ [Next]_vars => FreeListed'
  BY FreeListedInductive
<1>2. RingInv /\ FreeListed => NoDescLost
  BY FreeListFinds DEF NoDescLost, FreeListed, RingInv
<1> QED
  BY <1>1, <1>2, InitListed, RingInvariant, PTL DEF Spec

=============================================================================
