-------------------------------- MODULE Vring --------------------------------
(***************************************************************************)
(* One vring of common/vring.c: the descriptor table, the avail ring and   *)
(* the used ring in memory shared by two processes, and the VringTable     *)
(* entry each process keeps of it.                                         *)
(*                                                                         *)
(* The producer calls put_vring and process_used_vring, in any order; the  *)
(* consumer calls process_avail_vring.  On the TX ring the client is the   *)
(* producer and the server the consumer; on the RX ring it is the other    *)
(* way round.  Each action is one access to a word that the other side     *)
(* reads, together with the accesses to private memory that follow it, in  *)
(* program order (the build is -O0 and the processor keeps stores in       *)
(* order).                                                                 *)
(*                                                                         *)
(* Indices keep their width: avail->idx, used->idx and both last_ indices  *)
(* are uint16_t, and the 16-bit range is twice the ring size (65536 and    *)
(* 32768).                                                                 *)
(*                                                                         *)
(* Left out: desc.addr (never changed after new_vring; address mapping is  *)
(* another component), desc.flags (put_vring writes 0 and _free_vring sets *)
(* F_WRITE, nobody sets F_NEXT, so every chain has one descriptor), the    *)
(* virtio header (always 0) and used->ring[].len (never read).             *)
(***************************************************************************)
EXTENDS Integers, Sequences, FiniteSets

CONSTANTS Num,       (* VHOST_VRING_SIZE = vring.num                      *)
          Packets,   (* what put_vring can be asked to send               *)
          NoPacket   (* what avail_handler was given before its first call*)

ASSUME VringAssumption ==
  /\ Num \in Nat \ {0}
  /\ NoPacket \notin Packets

(* The values of a uint16_t: 32768 slots, 65536 values. *)
IdxMod == 2 * Num

Desc == 0 .. Num - 1

(* VRING_IDX_NONE, (uint16_t)-1 *)
NONE == IdxMod - 1

(* The slot of a ring that a free-running index selects. *)
Slot(i) == i % Num

(* desc.len: BUFFER_SIZE when the descriptor is free, the length of a packet
   with its header once put_vring has filled it.  Only the latter is below
   ETH_PACKET_SIZE, which is what _process_desc tests. *)
Lens == {"bufferSize", "packet"}

VARIABLES
  \* shared memory
  next,         (* desc[].next                                            *)
  len,          (* desc[].len                                             *)
  buf,          (* the packet in the buffer desc[].addr points to         *)
  availIdx,     (* avail->idx                                             *)
  availRing,    (* avail->ring                                            *)
  usedIdx,      (* used->idx                                              *)
  usedRing,     (* used->ring[].id                                        *)
  \* the producer
  pPc,          (* where the producer is                                  *)
  pLastAvail,   (* its last_avail_idx: the head of the free list          *)
  pLastUsed,    (* its last_used_idx, and u_idx in process_used_vring     *)
  aIdx,         (* a_idx in put_vring: the descriptor being filled        *)
  \* the consumer
  cPc,          (* where the consumer is                                  *)
  cLastAvail,   (* its last_avail_idx: the next avail entry to process    *)
  cLastUsed,    (* its last_used_idx: the next used entry to write        *)
  \* observation
  out,          (* the last packet given to avail_handler                 *)
  freed         (* calls of _free_vring so far; Overran once there were   *)
                (* more than used->idx announced                          *)

shared == <<next, len, buf, availIdx, availRing, usedIdx, usedRing>>
producer == <<pPc, pLastAvail, pLastUsed, aIdx>>
consumer == <<cPc, cLastAvail, cLastUsed>>
vars == <<shared, producer, consumer, out, freed>>

Overran == IdxMod

-----------------------------------------------------------------------------
(* The free list new_vring makes: all descriptors in a row.  The mutant leaves
   out the assignment after its loop. *)
EndlessLinks == [d \in Desc |-> d + 1]

FreshLinks == [d \in Desc |-> IF d = Num - 1 THEN NONE ELSE d + 1]

(* The client's new_vring links all descriptors into the free list and clears
   the two indices; the rings keep what a client that was killed left in the
   shared memory object.  Producer and consumer start at 0: the client by its
   own assignment, the server by SET_VRING_BASE and used->idx. *)
Init == /\ next = FreshLinks
        /\ len = [d \in Desc |-> "bufferSize"]
        /\ buf = [d \in Desc |-> NoPacket]
        /\ availIdx = 0
        /\ availRing \in [Desc -> Desc]
        /\ usedIdx = 0
        /\ usedRing \in [Desc -> Desc]
        /\ pPc = "idle"
        /\ pLastAvail = 0
        /\ pLastUsed = 0
        /\ aIdx = 0
        /\ cPc = "idle"
        /\ cLastAvail = 0
        /\ cLastUsed = 0
        /\ out = NoPacket
        /\ freed = 0
-----------------------------------------------------------------------------
(***************************************************************************)
(* put_vring.  With an empty free list (last_avail_idx = VRING_IDX_NONE)   *)
(* it reads desc[65535].len, a word of a packet buffer that no packet of   *)
(* this program reaches: the word is 0 and put_vring returns -1 having     *)
(* changed nothing, which is no step here.                                 *)
(***************************************************************************)
PutFill(p) ==
  /\ pPc = "idle"
  /\ pLastAvail # NONE
  /\ aIdx' = pLastAvail
  /\ pLastAvail' = next[pLastAvail]
  /\ buf' = [buf EXCEPT ![pLastAvail] = p]
  /\ len' = [len EXCEPT ![pLastAvail] = "packet"]
  /\ next' = [next EXCEPT ![pLastAvail] = NONE]
  /\ pPc' = "filled"
  /\ UNCHANGED <<availIdx, availRing, usedIdx, usedRing, pLastUsed,
                 consumer, out, freed>>

(* Mutant: the entry goes to the slot with the descriptor's number, which is
   the right one only as long as the descriptors are used in a row. *)
PutRingByDesc ==
  /\ pPc = "filled"
  /\ availRing' = [availRing EXCEPT ![aIdx] = aIdx]
  /\ pPc' = "listed"
  /\ UNCHANGED <<next, len, buf, availIdx, usedIdx, usedRing, pLastAvail,
                 pLastUsed, aIdx, consumer, out, freed>>

PutRing ==
  /\ pPc = "filled"
  /\ availRing' = [availRing EXCEPT ![Slot(availIdx)] = aIdx]
  /\ pPc' = "listed"
  /\ UNCHANGED <<next, len, buf, availIdx, usedIdx, usedRing, pLastAvail,
                 pLastUsed, aIdx, consumer, out, freed>>

PutIdx ==
  /\ pPc = "listed"
  /\ availIdx' = (availIdx + 1) % IdxMod
  /\ pPc' = "idle"
  /\ UNCHANGED <<next, len, buf, availRing, usedIdx, usedRing, pLastAvail,
                 pLastUsed, aIdx, consumer, out, freed>>
-----------------------------------------------------------------------------
(***************************************************************************)
(* process_used_vring: returns descriptors to the free list until its      *)
(* u_idx, which counts modulo num, meets used->idx, which counts modulo    *)
(* 2^16.  used->idx is read again in every iteration.                      *)
(***************************************************************************)
ProcessUsedBegin ==
  /\ pPc = "idle"
  /\ pPc' = "freeing"
  /\ UNCHANGED <<shared, pLastAvail, pLastUsed, aIdx, consumer, out, freed>>

(* Mutant: the old head is not linked behind d. *)
FreeDescUnlinked(d) ==
  /\ len' = [len EXCEPT ![d] = "bufferSize"]
  /\ pLastAvail' = d
  /\ UNCHANGED next

(* _free_vring(d) *)
FreeDesc(d) ==
  /\ len' = [len EXCEPT ![d] = "bufferSize"]
  /\ next' = [next EXCEPT ![d] = pLastAvail]
  /\ pLastAvail' = d

ProcessUsedStep ==
  /\ pPc = "freeing"
  /\ pLastUsed # usedIdx
  /\ FreeDesc(usedRing[pLastUsed])
  /\ pLastUsed' = (pLastUsed + 1) % Num
  /\ freed' = IF freed < usedIdx THEN freed + 1 ELSE Overran
  /\ UNCHANGED <<buf, availIdx, availRing, usedIdx, usedRing, pPc, aIdx,
                 consumer, out>>

(* Mutant: used->idx is compared modulo num as well. *)
ProcessUsedEndModNum ==
  /\ pPc = "freeing"
  /\ pLastUsed = Slot(usedIdx)
  /\ pPc' = "idle"
  /\ UNCHANGED <<shared, pLastAvail, pLastUsed, aIdx, consumer, out, freed>>

ProcessUsedEnd ==
  /\ pPc = "freeing"
  /\ pLastUsed = usedIdx
  /\ pPc' = "idle"
  /\ UNCHANGED <<shared, pLastAvail, pLastUsed, aIdx, consumer, out, freed>>
-----------------------------------------------------------------------------
(***************************************************************************)
(* process_avail_vring: processes entries while last_avail_idx differs     *)
(* from avail->idx, read again in every iteration, then publishes used->idx*)
(* once for the whole batch.                                               *)
(***************************************************************************)
ProcessAvailBegin ==
  /\ cPc = "idle"
  /\ cPc' = "processing"
  /\ UNCHANGED <<shared, producer, cLastAvail, cLastUsed, out, freed>>

(* d_idx: the descriptor of the next entry.  The mutant takes the entry's
   position for it. *)
EntryPosition == Slot(cLastAvail)

EntryDesc == availRing[Slot(cLastAvail)]

(* _process_desc and the two increments after it.  A descriptor whose length
   reaches ETH_PACKET_SIZE copies nothing: _process_desc returns -1 before
   it writes the used entry, but both indices still advance. *)
ProcessDesc ==
  LET d == EntryDesc IN
  /\ cPc = "processing"
  /\ cLastAvail # availIdx
  /\ \/ /\ len[d] = "packet"
        /\ usedRing' = [usedRing EXCEPT ![Slot(cLastUsed)] = d]
        /\ out' = buf[d]
     \/ /\ len[d] = "bufferSize"
        /\ UNCHANGED <<usedRing, out>>
  /\ cLastAvail' = (cLastAvail + 1) % IdxMod
  /\ cLastUsed' = (cLastUsed + 1) % IdxMod
  /\ UNCHANGED <<next, len, buf, availIdx, availRing, usedIdx, producer,
                 cPc, freed>>

(* Mutant: everything published so far is announced as used. *)
PublishUsedAvail ==
  /\ cPc = "processing"
  /\ usedIdx' = availIdx
  /\ cPc' = "idle"
  /\ UNCHANGED <<next, len, buf, availIdx, availRing, usedRing, producer,
                 cLastAvail, cLastUsed, out, freed>>

PublishUsed ==
  /\ cPc = "processing"
  /\ cLastAvail = availIdx
  /\ usedIdx' = cLastUsed
  /\ cPc' = "idle"
  /\ UNCHANGED <<next, len, buf, availIdx, availRing, usedRing, producer,
                 cLastAvail, cLastUsed, out, freed>>
-----------------------------------------------------------------------------
Produce == \/ \E p \in Packets : PutFill(p)
           \/ PutRing
           \/ PutIdx
           \/ ProcessUsedBegin
           \/ ProcessUsedStep
           \/ ProcessUsedEnd

Consume == ProcessAvailBegin \/ ProcessDesc \/ PublishUsed

Next == Produce \/ Consume

Spec == Init /\ [][Next]_vars

(* A call that has begun goes on: both processes keep running.  When to call
   is the callers' choice and gets no fairness. *)
Fairness == /\ WF_vars(PutRing \/ PutIdx)
            /\ WF_vars(ProcessUsedStep \/ ProcessUsedEnd)
            /\ WF_vars(ProcessDesc \/ PublishUsed)

FairSpec == Spec /\ Fairness
-----------------------------------------------------------------------------
(***************************************************************************)
(* Properties.  Indices do not wrap in any behaviour (StuckPastNum is the  *)
(* reason), so freed .. availIdx - 1 numbers the avail entries whose       *)
(* descriptors are with the consumer or on their way back from it.         *)
(***************************************************************************)
TypeOK ==
  /\ next \in [Desc -> Desc \cup {NONE}]
  /\ len \in [Desc -> Lens]
  /\ buf \in [Desc -> Packets \cup {NoPacket}]
  /\ availIdx \in 0 .. IdxMod - 1
  /\ availRing \in [Desc -> Desc]
  /\ usedIdx \in 0 .. IdxMod - 1
  /\ usedRing \in [Desc -> Desc]
  /\ pPc \in {"idle", "filled", "listed", "freeing"}
  /\ pLastAvail \in Desc \cup {NONE}
  /\ pLastUsed \in Desc
  /\ aIdx \in Desc
  /\ cPc \in {"idle", "processing"}
  /\ cLastAvail \in 0 .. IdxMod - 1
  /\ cLastUsed \in 0 .. IdxMod - 1
  /\ out \in Packets \cup {NoPacket}
  /\ freed \in 0 .. Overran

(* Descriptors listed in the avail ring and not yet back on the free list. *)
InFlight == {availRing[Slot(k)] : k \in freed .. availIdx - 1}

(* The descriptor put_vring has taken off the free list and not published. *)
Claimed == IF pPc \in {"filled", "listed"} THEN {aIdx} ELSE {}

Unowned == Desc \ (InFlight \cup Claimed)

(* What the links of the free list reach from its head. *)
FreeList ==
  LET reach[k \in 0 .. Num] ==
        IF k = 0 THEN {pLastAvail}
        ELSE reach[k - 1] \cup {next[d] : d \in reach[k - 1] \ {NONE}}
  IN  reach[Num] \ {NONE}

(* The four indices stay in order and never wrap: reclaimed <= announced <=
   processed <= published, and at most Num entries are published and not
   reclaimed, so that avail->ring and used->ring are never overwritten while
   the other side still has to read them. *)
IndicesInOrder ==
  /\ cLastUsed = cLastAvail
  /\ usedIdx <= cLastAvail
  /\ cLastAvail <= availIdx
  /\ freed # Overran => /\ freed <= usedIdx
                        /\ pLastUsed = Slot(freed)
                        /\ availIdx <= freed + Num

(* put_vring, _process_desc and _free_vring never have the same descriptor:
   no two entries in flight name one descriptor, the one put_vring is filling
   is not among them, and what put_vring will take next is neither.  Holds
   until process_used_vring frees more than was announced. *)
EntriesDistinct ==
  \A j, k \in freed .. availIdx - 1 :
    j # k => availRing[Slot(j)] # availRing[Slot(k)]

OneOwner ==
  freed # Overran => /\ EntriesDistinct
                     /\ Claimed \cap InFlight = {}
                     /\ pLastAvail \in Unowned \cup {NONE}

(* No descriptor is lost: whatever is neither in flight nor being filled can
   be reached by put_vring through the links _free_vring and new_vring make. *)
NoDescLost == freed # Overran => FreeList = Unowned

(* The consumer never meets a descriptor that _free_vring has reset under it:
   every published, unprocessed entry still has the length put_vring stored,
   so _process_desc delivers it and writes its used entry. *)
OutstandingIntact ==
  freed # Overran =>
    \A k \in cLastAvail .. availIdx - 1 : len[availRing[Slot(k)]] = "packet"

(* The consumer hands the descriptors back in the order in which put_vring
   published them, each one once: used->ring and avail->ring agree wherever
   the producer has not reclaimed yet. *)
UsedInOrder ==
  freed # Overran =>
    \A k \in freed .. cLastAvail - 1 : usedRing[Slot(k)] = availRing[Slot(k)]

(* Once process_used_vring has returned Num descriptors it is still running,
   and used->idx is a value its u_idx cannot take: the producer sends nothing
   any more, whatever the consumer does. *)
StuckPastNum == freed >= Num => pPc = "freeing" /\ usedIdx >= Num

(* The ring implements the bounded FIFO of VringChannel: packets are taken in
   the order in which put_vring published them, none twice, none changed, and
   none lost before the overrun. *)
Queue == [i \in 1 .. availIdx - cLastAvail |->
            buf[availRing[Slot(cLastAvail + i - 1)]]]

Channel == INSTANCE VringChannel
             WITH queue <- Queue, taken <- cLastAvail, used <- usedIdx

ImplementsChannel == Channel!Spec

(* The comment at vring.c:203: process_used_vring frees the descriptors
   between last_used_idx and used->idx, then records the new last_used_idx.
   So a call that begins also ends. *)
ProcessUsedReturns == (pPc = "freeing") ~> (pPc = "idle")
=============================================================================
