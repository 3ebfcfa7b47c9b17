------------------------------ MODULE VhostEcho ------------------------------
(***************************************************************************)
(* A connected client and server: their event loops, the TX and RX rings   *)
(* between them and the kick eventfds.                                     *)
(*                                                                         *)
(* The client (demo/vhost_client.c) polls its RX kick, reclaims used TX    *)
(* buffers, puts a packet on TX and kicks.  The server (vhost_server.c, of *)
(* which vgpu_host.c is a copy) waits for the TX kick, takes all TX        *)
(* packets, each into the same private buffer, puts what is in the buffer  *)
(* on RX and kicks.  Nobody reclaims used RX buffers.                      *)
(*                                                                         *)
(* Each ring is a VringChannel, which Vring implements; a call of          *)
(* process_avail_vring or process_used_vring is a sequence of steps that   *)
(* the other process interleaves with.  The client numbers its packets, to *)
(* tell them apart: in the program all carry the same ARP request, and no  *)
(* step depends on the contents.                                           *)
(***************************************************************************)
EXTENDS Integers, Sequences

CONSTANT Num          (* VHOST_VRING_SIZE                                  *)

ASSUME EchoAssumption == Num \in Nat \ {0}

VARIABLES
  txQueue, txTaken, txUsed, txFreed, txOut,     (* the TX ring            *)
  rxQueue, rxTaken, rxUsed, rxFreed, rxOut,     (* the RX ring            *)
  txKick, rxKick,     (* the eventfds: TRUE when their counter is not 0   *)
  clientPc,           (* where the client's loop is                       *)
  serverPc,           (* where the server's loop is                       *)
  buffer,             (* VhostServer.buffer, NoPacket when its size is 0  *)
  sent                (* number of packets the client has put             *)

txVars == <<txQueue, txTaken, txUsed, txFreed, txOut>>
rxVars == <<rxQueue, rxTaken, rxUsed, rxFreed, rxOut>>
client == <<clientPc, sent>>
server == <<serverPc, buffer>>
vars == <<txVars, rxVars, txKick, rxKick, client, server>>

(* A ring carries fewer than 2 * Num packets before its producer is stuck. *)
Packets == 1 .. 2 * Num
NoPacket == 0

TX == INSTANCE VringChannel WITH queue <- txQueue, taken <- txTaken,
        used <- txUsed, freed <- txFreed, out <- txOut
RX == INSTANCE VringChannel WITH queue <- rxQueue, taken <- rxTaken,
        used <- rxUsed, freed <- rxFreed, out <- rxOut

Init == /\ TX!Init
        /\ RX!Init
        /\ txKick = FALSE
        /\ rxKick = FALSE
        /\ clientPc = "select"
        /\ serverPc = "select"
        /\ buffer = NoPacket
        /\ sent = 0
-----------------------------------------------------------------------------
(***************************************************************************)
(* The client: loop_client.                                                *)
(***************************************************************************)

(* traverse_fd_list with a zero timeout: _kick_client reads the RX kick if
   there is one. *)
ClientSelect ==
  /\ clientPc = "select"
  /\ rxKick' = FALSE
  /\ clientPc' = IF rxKick THEN "process" ELSE "free"
  /\ UNCHANGED <<txVars, rxVars, txKick, server, sent>>

(* process_avail_vring on RX: avail_handler_client ignores the packet. *)
ClientTake ==
  /\ clientPc = "process"
  /\ RX!Deliver
  /\ UNCHANGED <<txVars, txKick, rxKick, client, server>>

ClientAnnounce ==
  /\ clientPc = "process"
  /\ rxQueue = <<>>
  /\ RX!Announce
  /\ clientPc' = "free"
  /\ UNCHANGED <<txVars, txKick, rxKick, sent, server>>

(* poll_client: process_used_vring on TX, one descriptor per step. *)
ClientFree ==
  /\ clientPc = "free"
  /\ TX!Reclaim \/ TX!Overrun
  /\ UNCHANGED <<rxVars, txKick, rxKick, client, server>>

(* Mutant: used->idx compared modulo num. *)
ClientFreeDoneModNum ==
  /\ clientPc = "free"
  /\ txFreed % Num = txUsed % Num
  /\ clientPc' = "put"
  /\ UNCHANGED <<txVars, rxVars, txKick, rxKick, sent, server>>

(* u_idx counts modulo Num and meets used->idx only below Num. *)
ClientFreeDone ==
  /\ clientPc = "free"
  /\ txFreed = txUsed
  /\ txUsed < Num
  /\ clientPc' = "put"
  /\ UNCHANGED <<txVars, rxVars, txKick, rxKick, sent, server>>

(* send_packet: put_vring. *)
ClientPut ==
  /\ clientPc = "put"
  /\ TX!Send(sent + 1)
  /\ sent' = sent + 1
  /\ clientPc' = "kick"
  /\ UNCHANGED <<rxVars, txKick, rxKick, server>>

(* With no free descriptor put_vring returns -1 and poll_client returns
   without a kick. *)
ClientPutFails ==
  /\ clientPc = "put"
  /\ Len(txQueue) + txTaken >= txFreed + Num
  /\ clientPc' = "select"
  /\ UNCHANGED <<txVars, rxVars, txKick, rxKick, sent, server>>

ClientKick ==
  /\ clientPc = "kick"
  /\ txKick' = TRUE
  /\ clientPc' = "select"
  /\ UNCHANGED <<txVars, rxVars, rxKick, sent, server>>
-----------------------------------------------------------------------------
(***************************************************************************)
(* The server: loop_server.                                                *)
(***************************************************************************)

(* traverse_fd_list: _kick_server reads the TX kick if there is one; otherwise
   select times out. *)
ServerSelect ==
  /\ serverPc = "select"
  /\ txKick' = FALSE
  /\ serverPc' = IF txKick THEN "process" ELSE "poll"
  /\ UNCHANGED <<txVars, rxVars, rxKick, client, buffer>>

(* Mutant: a packet that finds the buffer full is dropped. *)
ServerTakeFirst ==
  /\ serverPc = "process"
  /\ \/ /\ TX!Deliver
        /\ buffer' = IF buffer = NoPacket THEN Head(txQueue) ELSE buffer
     \/ TX!Lose /\ UNCHANGED buffer
  /\ UNCHANGED <<rxVars, txKick, rxKick, client, serverPc>>

(* process_avail_vring on TX: avail_handler_server copies the packet over the
   previous one.  A packet whose descriptor the stuck client has taken back is
   skipped. *)
ServerTake ==
  /\ serverPc = "process"
  /\ \/ TX!Deliver /\ buffer' = Head(txQueue)
     \/ TX!Lose /\ UNCHANGED buffer
  /\ UNCHANGED <<rxVars, txKick, rxKick, client, serverPc>>

ServerAnnounce ==
  /\ serverPc = "process"
  /\ txQueue = <<>>
  /\ TX!Announce
  /\ serverPc' = "poll"
  /\ UNCHANGED <<rxVars, txKick, rxKick, client, buffer>>

(* Mutant: a server that has nothing to send clears the kick. *)
ServerIdleClears ==
  /\ serverPc = "poll"
  /\ buffer = NoPacket
  /\ txKick' = FALSE
  /\ serverPc' = "select"
  /\ UNCHANGED <<txVars, rxVars, rxKick, client, buffer>>

(* poll_server with an empty buffer. *)
ServerIdle ==
  /\ serverPc = "poll"
  /\ buffer = NoPacket
  /\ serverPc' = "select"
  /\ UNCHANGED <<txVars, rxVars, txKick, rxKick, client, buffer>>

(* poll_server: put_vring on RX. *)
ServerPut ==
  /\ serverPc = "poll"
  /\ buffer # NoPacket
  /\ RX!Send(buffer)
  /\ serverPc' = "kick"
  /\ UNCHANGED <<txVars, txKick, rxKick, client, buffer>>

(* With no free descriptor put_vring returns -1, which poll_server ignores. *)
ServerPutFails ==
  /\ serverPc = "poll"
  /\ buffer # NoPacket
  /\ Len(rxQueue) + rxTaken >= rxFreed + Num
  /\ serverPc' = "kick"
  /\ UNCHANGED <<txVars, rxVars, txKick, rxKick, client, buffer>>

(* Mutant: the buffer is not marked empty. *)
ServerKickKeeps ==
  /\ serverPc = "kick"
  /\ rxKick' = TRUE
  /\ serverPc' = "select"
  /\ UNCHANGED <<txVars, rxVars, txKick, client, buffer>>

(* kick, and the buffer is marked empty. *)
ServerKick ==
  /\ serverPc = "kick"
  /\ rxKick' = TRUE
  /\ buffer' = NoPacket
  /\ serverPc' = "select"
  /\ UNCHANGED <<txVars, rxVars, txKick, client>>
-----------------------------------------------------------------------------
Client == \/ ClientSelect
          \/ ClientTake
          \/ ClientAnnounce
          \/ ClientFree
          \/ ClientFreeDone
          \/ ClientPut
          \/ ClientPutFails
          \/ ClientKick

Server == \/ ServerSelect
          \/ ServerTake
          \/ ServerAnnounce
          \/ ServerIdle
          \/ ServerPut
          \/ ServerPutFails
          \/ ServerKick

Next == Client \/ Server

Spec == Init /\ [][Next]_vars

(* Both loops run as long as app_running is set, and nothing in them blocks:
   select has a timeout, the eventfds are only read when they are readable. *)
FairSpec == Spec /\ WF_vars(Client) /\ WF_vars(Server)
-----------------------------------------------------------------------------
(***************************************************************************)
(* Properties.                                                             *)
(***************************************************************************)
TypeOK ==
  /\ txQueue \in Seq(Packets) /\ rxQueue \in Seq(Packets)
  /\ {txTaken, txUsed, rxTaken, rxUsed, sent} \subseteq 0 .. 2 * Num - 1
  /\ {txFreed, rxFreed} \subseteq 0 .. 2 * Num
  /\ {txOut, rxOut, buffer} \subseteq Packets \cup {NoPacket}
  /\ {txKick, rxKick} \subseteq BOOLEAN
  /\ clientPc \in {"select", "process", "free", "put", "kick"}
  /\ serverPc \in {"select", "process", "poll", "kick"}

(* No wakeup is lost, on either ring: while packets wait, the other side has been
   kicked, is about to be, or is processing the ring and will look again. *)
TxWaitingIsKicked ==
  txQueue # <<>> => txKick \/ serverPc = "process" \/ clientPc = "kick"

RxWaitingIsKicked ==
  rxQueue # <<>> => rxKick \/ clientPc = "process" \/ serverPc = "kick"

WaitingIsKicked == TxWaitingIsKicked /\ RxWaitingIsKicked

Increasing(s) == \A i \in 1 .. Len(s) - 1 : s[i] < s[i + 1]

(* Echoes come back in the order of the packets and none comes back twice,
   whatever was overwritten in the server's buffer in between: the last echo
   taken, the echoes under way, the buffer and the packets under way are all
   newer one than the other. *)
EchoesInOrder ==
  Increasing(<<rxOut>> \o rxQueue
             \o (IF buffer = NoPacket \/ serverPc = "kick" THEN <<>>
                                                          ELSE <<buffer>>)
             \o txQueue)

LastEcho == IF rxQueue = <<>> THEN rxOut ELSE rxQueue[Len(rxQueue)]

(* The last packet of every batch is echoed, as long as RX has descriptors
   left: when the server waits again, the newest echo is that of the newest
   packet it was given. *)
BatchEchoed ==
  serverPc = "select" /\ Len(rxQueue) + rxTaken < Num => LastEcho = txOut

(* Every packet the client has put is taken by the server. *)
TxServed ==
  \A n \in Packets : (txTaken + Len(txQueue) >= n) ~> (txTaken >= n)

(* The price of u_idx counting modulo num is paid in every run that goes on
   long enough: the client ends up in process_used_vring and stays there. *)
ClientGetsStuck == <>[](clientPc = "free")
=============================================================================
