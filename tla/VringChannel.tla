---------------------------- MODULE VringChannel ----------------------------
(***************************************************************************)
(* What one vring promises to the two processes that share it, without the *)
(* descriptor table, the two index rings or the free list: a bounded FIFO  *)
(* of packets whose buffers come back to the producer in batches.          *)
(*                                                                         *)
(* The producer owns Num buffers.  Send hands one to the consumer with a   *)
(* packet in it; the consumer takes the packets in order, announces from   *)
(* time to time how many it has used, and the producer reclaims the        *)
(* announced buffers.  The three counters count from the start of the      *)
(* connection.                                                             *)
(*                                                                         *)
(* The last two actions are the price of the producer's 16-bit             *)
(* bookkeeping: a producer that has reclaimed Num buffers never sends      *)
(* again (freed < Num in Send), may go on "reclaiming" buffers nobody      *)
(* announced (Overrun), and from then on packets still in the queue may    *)
(* be lost (Lose).  Before that point the channel is reliable.             *)
(***************************************************************************)
EXTENDS Naturals, Sequences

CONSTANTS Num,       (* number of buffers of the ring, vring.num         *)
          Packets,   (* what a buffer can carry                          *)
          NoPacket   (* the value of out before the first delivery       *)

VARIABLES queue,     (* packets sent and not taken yet, oldest first      *)
          taken,     (* number of packets the consumer has taken          *)
          used,      (* number of buffers the consumer has announced      *)
          freed,     (* number of buffers the producer has reclaimed, or  *)
                     (* Overran                                           *)
          out        (* the last packet handed to the consumer's handler  *)

vars == <<queue, taken, used, freed, out>>

(* More buffers reclaimed than were announced. *)
Overran == 2 * Num

Init == /\ queue = <<>>
        /\ taken = 0
        /\ used = 0
        /\ freed = 0
        /\ out = NoPacket

Send(p) == /\ freed < Num
           /\ Len(queue) + taken < freed + Num
           /\ queue' = Append(queue, p)
           /\ UNCHANGED <<taken, used, freed, out>>

(* Mutant: last_avail_idx is not advanced. *)
TakeAgain == /\ queue # <<>>
             /\ queue' = queue
             /\ taken' = taken + 1
             /\ UNCHANGED <<used, freed>>

Take == /\ queue # <<>>
        /\ queue' = Tail(queue)
        /\ taken' = taken + 1
        /\ UNCHANGED <<used, freed>>

Deliver == Take /\ out' = Head(queue)

Announce == /\ used' = taken
            /\ UNCHANGED <<queue, taken, freed, out>>

Reclaim == /\ freed < used
           /\ freed' = freed + 1
           /\ UNCHANGED <<queue, taken, used, out>>

Overrun == /\ freed = used
           /\ freed >= Num
           /\ freed' = Overran
           /\ UNCHANGED <<queue, taken, used, out>>

Lose == freed = Overran /\ Take /\ UNCHANGED out

Next == \/ \E p \in Packets : Send(p)
        \/ Deliver
        \/ Announce
        \/ Reclaim
        \/ Overrun
        \/ Lose

Spec == Init /\ [][Next]_vars
=============================================================================
