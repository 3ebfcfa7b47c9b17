------------------------------ MODULE DescChain ------------------------------
(***************************************************************************)
(* One ring on which a packet may be a chain of descriptors: what a driver *)
(* puts, what _process_desc makes of it, what the used ring tells the      *)
(* driver (process_avail_vring and _process_desc of vring.c).              *)
(*                                                                         *)
(* The driver is put_vring, whose packets are one descriptor of header and *)
(* data, or a guest's (scripts/qemu.sh), which is not in the repository:   *)
(* it takes descriptors that are free, chains them, and on finding a used  *)
(* entry frees the chain with that head; a head that it has not handed out *)
(* breaks it.  Lengths are scaled: Cap stands for ETH_PACKET_SIZE, Hdr for *)
(* the size of the virtio header.  Vring has the steps of the two sides on *)
(* the indices; here a packet is one step.                                 *)
(***************************************************************************)
EXTENDS Integers, Sequences, FiniteSetsExt

CONSTANTS Num,        (* descriptors, and slots of the two rings           *)
          Cap,        (* ETH_PACKET_SIZE                                   *)
          Hdr,        (* sizeof(struct virtio_net_hdr)                     *)
          Chains,     (* the packets: sequences of buffer lengths          *)
          MaxPackets  (* bound: packets put                                *)

ASSUME DescChainAssumption ==
  /\ {Num, Cap, Hdr} \subseteq Nat \ {0} /\ MaxPackets \in Nat
  /\ Chains \subseteq Seq(Nat \ {0})
  /\ \A c \in Chains : Len(c) \in 1 .. Num /\ c[1] >= Hdr

Ids == 0 .. Num - 1
Packets == 1 .. MaxPackets
NONE == Num                     (* no next descriptor *)

VARIABLES
  \* shared memory
  desc,       (* desc[d]: length, next, and the packet its bytes are of    *)
  availRing,  (* heads, by slot                                            *)
  availIdx,   (* avail->idx                                                *)
  usedRing,   (* heads, by slot                                            *)
  usedIdx,    (* used->idx                                                 *)
  \* the driver
  chain,      (* chain[p]: the descriptors of packet p, <<>> once freed    *)
  sizes,      (* sizes[p]: the buffer lengths of packet p                  *)
  seen,       (* used entries it has looked at                             *)
  broken,     (* it found a used entry for no packet of its own            *)
  \* the server
  lastAvail,  (* last_avail_idx; last_used_idx is always the same          *)
  delivered   (* delivered[p]: what avail_handler got of the p-th entry:   *)
              (* bytes, and the packets they are of                        *)

driver == <<chain, sizes, seen, broken>>
vars == <<desc, availRing, availIdx, usedRing, usedIdx, driver, lastAvail,
          delivered>>

Nothing == [len |-> 0, of |-> {}]

Init == /\ desc = [d \in Ids |-> [len |-> 0, next |-> NONE, of |-> 0]]
        /\ availRing = [s \in Ids |-> 0]
        /\ availIdx = 0
        /\ usedRing = [s \in Ids |-> 0]
        /\ usedIdx = 0
        /\ chain = [p \in Packets |-> <<>>]
        /\ sizes = [p \in Packets |-> <<>>]
        /\ seen = 0
        /\ broken = FALSE
        /\ lastAvail = 0
        /\ delivered = [p \in Packets |-> Nothing]
-----------------------------------------------------------------------------
InUse == UNION {Range(chain[p]) : p \in Packets}

(* The guest's driver puts a packet, of buffers c, in descriptors that are
   free, in any order.  (put_vring is the case of one buffer and a list.) *)
Put(c) ==
  /\ ~ broken
  /\ availIdx < MaxPackets
  /\ \E ids \in [1 .. Len(c) -> Ids \ InUse] :
       LET p == availIdx + 1
           At(d) == CHOOSE k \in 1 .. Len(c) : ids[k] = d
       IN  /\ IsInjective(ids)
           /\ desc' = [d \in Ids |->
                         IF d \notin Range(ids) THEN desc[d]
                         ELSE [len |-> c[At(d)], of |-> p,
                               next |-> IF At(d) = Len(c) THEN NONE
                                        ELSE ids[At(d) + 1]]]
           /\ availRing' = [availRing EXCEPT ![availIdx % Num] = ids[1]]
           /\ chain' = [chain EXCEPT ![p] = ids]
           /\ sizes' = [sizes EXCEPT ![p] = c]
  /\ availIdx' = availIdx + 1
  /\ UNCHANGED <<usedRing, usedIdx, seen, broken, lastAvail, delivered>>

(* The driver's look at the next used entry. *)
Reclaim ==
  /\ ~ broken
  /\ seen # usedIdx
  /\ seen' = seen + 1
  /\ LET mine == {p \in Packets : /\ chain[p] # <<>>
                                  /\ chain[p][1] = usedRing[seen % Num]}
     IN  /\ chain' = [p \in Packets |-> IF p \in mine THEN <<>> ELSE chain[p]]
         /\ broken' = (mine = {})
  /\ UNCHANGED <<desc, availRing, availIdx, usedRing, usedIdx, sizes,
                 lastAvail, delivered>>
-----------------------------------------------------------------------------
(* Mutant: a buffer that fits exactly is taken. *)
FitsExactly(len, more) == len + more <= Cap

Fits(len, more) == len + more < Cap

(* The loop of _process_desc: buffers are copied along next until the chain
   ends or one does not fit. *)
Walk(head) ==
  LET after[n \in 0 .. Num] ==
        IF n = 0 THEN [at |-> head, len |-> 0, of |-> {}]
        ELSE LET s == after[n - 1] IN
             IF s.at # NONE /\ Fits(s.len, desc[s.at].len)
               THEN [at  |-> desc[s.at].next,
                     len |-> s.len + desc[s.at].len,
                     of  |-> s.of \cup {desc[s.at].of}]
               ELSE [s EXCEPT !.at = NONE]
  IN  after

Copy(head) == Walk(head)[Num]

(* Mutant: the used entry names the slot. *)
UsedEntrySlot(head, slot) == slot

UsedEntry(head, slot) == head

(* One round of process_avail_vring.  Without a byte copied, _process_desc
   returns before it writes the used entry; the indices advance all the
   same. *)
ProcessDesc ==
  /\ lastAvail # availIdx
  /\ LET slot == lastAvail % Num
         head == availRing[slot]
         got == Copy(head)
     IN  IF got.len = 0
           THEN UNCHANGED <<usedRing, delivered>>
           ELSE /\ usedRing' = [usedRing EXCEPT
                                  ![slot] = UsedEntry(head, slot)]
                /\ delivered' = [delivered EXCEPT ![lastAvail + 1] =
                                   [len |-> got.len - Hdr, of |-> got.of]]
  /\ lastAvail' = lastAvail + 1
  /\ UNCHANGED <<desc, availRing, availIdx, usedIdx, driver>>

(* Mutant: one entry too many. *)
PublishUsedAhead ==
  /\ lastAvail = availIdx
  /\ usedIdx # lastAvail
  /\ usedIdx' = lastAvail + 1
  /\ UNCHANGED <<desc, availRing, availIdx, usedRing, driver, lastAvail,
                 delivered>>

(* The end of process_avail_vring. *)
PublishUsed ==
  /\ lastAvail = availIdx
  /\ usedIdx # lastAvail
  /\ usedIdx' = lastAvail
  /\ UNCHANGED <<desc, availRing, availIdx, usedRing, driver, lastAvail,
                 delivered>>

Next == (\E c \in Chains : Put(c)) \/ Reclaim \/ ProcessDesc \/ PublishUsed

Spec == Init /\ [][Next]_vars
-----------------------------------------------------------------------------
(* Every variable holds a value of its kind. *)
TypeOK ==
  /\ desc \in [Ids -> [len : Nat, next : Ids \cup {NONE},
                       of : 0 .. MaxPackets]]
  /\ availRing \in [Ids -> Ids] /\ usedRing \in [Ids -> Ids]
  /\ {seen, usedIdx, lastAvail, availIdx} \subseteq 0 .. MaxPackets
  /\ seen <= usedIdx /\ usedIdx <= lastAvail /\ lastAvail <= availIdx
  /\ \A p \in Packets : Range(chain[p]) \subseteq Ids
  /\ broken \in BOOLEAN

Processed == 1 .. lastAvail

(* The total of the first k buffers of c, for each k. *)
Totals(c) == LET total[k \in 0 .. Len(c)] ==
                   IF k = 0 THEN 0 ELSE total[k - 1] + c[k]
             IN  total

(* The total of the longest prefix of c that is shorter than Cap. *)
Prefix(c) == Max({t \in {Totals(c)[k] : k \in 0 .. Len(c)} : t < Cap})

(* No packet put so far begins with a buffer that does not fit. *)
FirstBuffersFit == \A p \in 1 .. availIdx : sizes[p][1] < Cap

(* avail_handler gets the longest prefix of the packet's buffers that is below
   ETH_PACKET_SIZE, without its header, and no byte of another packet: walking
   the chain never leaves it, though descriptors are reused all the time.  (The
   test at vring.c:258 is "<": the comment at vring.c:245 lets a chain of
   exactly ETH_PACKET_SIZE pass, which loses its last buffer.) *)
PrefixDelivered ==
  FirstBuffersFit =>
    \A p \in Processed :
      /\ delivered[p].len = Prefix(sizes[p]) - Hdr
      /\ delivered[p].of = {p}

(* vring.h:53: the used ring is the "ring of descriptors that have already been
   processed": the entries published name the packets taken, and the driver
   finds its own.  That ends when a packet is put whose first buffer does not
   fit, since its used entry is counted and not written (vring.c:276). *)
UsedNamesPacket ==
  FirstBuffersFit =>
    /\ ~ broken
    /\ \A p \in seen + 1 .. usedIdx :
         /\ chain[p] # <<>>
         /\ usedRing[(p - 1) % Num] = chain[p][1]

(* A packet whose first buffer does not fit does harm through its used entry
   alone: until the driver has looked at that, no packet gets bytes of another
   one. *)
MixedOnlyAfterWrongEntry ==
  \A p \in Processed :
    \/ delivered[p].of \subseteq {p}
    \/ \E q \in 1 .. seen : delivered[q] = Nothing
=============================================================================
