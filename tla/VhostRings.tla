------------------------------ MODULE VhostRings ------------------------------
(***************************************************************************)
(* The server's TX ring under a master that is not the repository's client *)
(* (scripts/qemu.sh runs the server under QEMU): for each ring the master  *)
(* hands over an eventfd or says that the ring is to be polled; it stops   *)
(* the rings with GET_VRING_BASE and starts them again from the index it   *)
(* was told, on the one connection it has.                                 *)
(*                                                                         *)
(* The master is what doc/vhost-user.txt asks of one: it gives a ring its  *)
(* addresses before its kick, kicks after it put a packet where there is   *)
(* an eventfd, and puts nothing while the rings are stopped.  Each start   *)
(* hands over an eventfd of its own, as QEMU's does, named here by the     *)
(* start; the server never takes one off its fd list.  The server is       *)
(* vhost_server.c, of which vgpu_host.c is a copy.  Left out: the echo     *)
(* on RX (VhostEcho), addresses (MemTable), connections (VhostSession).    *)
(***************************************************************************)
EXTENDS Integers, Sequences, FiniteSets

CONSTANTS Modes,        (* the masters: [TX, RX] -> {"fd", "poll"}         *)
          Room,         (* slots of the fd list that are left for kicks    *)
          MaxPackets,   (* bound: packets put on TX                        *)
          MaxStops      (* bound: times the rings are stopped              *)

Rings == {"TX", "RX"}

ASSUME VhostRingsAssumption ==
  /\ Modes \subseteq [Rings -> {"fd", "poll"}]
  /\ {Room, MaxPackets, MaxStops} \subseteq Nat

VARIABLES
  \* the master and its guest
  mode,       (* how each ring is to be watched                            *)
  phase,      (* "off", "running", "stopping", "stopped"                   *)
  base,       (* the TX index to start from                                *)
  stops,
  last,       (* the ring that was set up last (history)                   *)
  owed,       (* a packet was put and not kicked for yet                   *)
  \* between the two
  avail,      (* TX avail->idx                                             *)
  used,       (* TX used->idx                                              *)
  kicked,     (* the TX eventfds whose counter is not 0                    *)
  queue,      (* the requests on the socket                                *)
  reply,      (* the reply to GET_VRING_BASE, or NoReply                   *)
  \* the server
  pc,         (* "select", "handle", "poll"                                *)
  ready,      (* what select reported and is still to be handled           *)
  desc,       (* desc[r]: SET_VRING_ADDR has come for ring r               *)
  listening,  (* the TX eventfds in the fd list                            *)
  isPolling,  (* is_polling                                                *)
  lastAvail,  (* vring[TX].last_avail_idx                                  *)
  lastUsed,   (* vring[TX].last_used_idx                                   *)
  \* history
  taken,      (* taken[i]: how often packet i was processed                *)
  stopped,    (* GET_VRING_BASE was answered, no SET_VRING_KICK since      *)
  late        (* the packets processed in that time                        *)

master == <<mode, phase, base, stops, last, owed>>
history == <<taken, stopped, late>>
indices == <<lastAvail, lastUsed, used>>
server == <<pc, ready, desc, listening, isPolling, indices>>
vars == <<master, avail, kicked, queue, reply, server, history>>

NoReply == -1
SOCK == 0                     (* the connection, among what select reports *)
Kickfds == 1 .. MaxStops + 1
Packets == 1 .. MaxPackets

Init == /\ mode \in Modes
        /\ phase = "off"
        /\ base = 0
        /\ stops = 0
        /\ last = "TX"
        /\ owed = FALSE
        /\ avail = 0
        /\ used = 0
        /\ kicked = {}
        /\ queue = <<>>
        /\ reply = NoReply
        /\ pc = "select"
        /\ ready = {}
        /\ desc = [r \in Rings |-> FALSE]
        /\ listening = {}
        /\ isPolling = FALSE
        /\ lastAvail = 0
        /\ lastUsed = 0
        /\ taken = [i \in Packets |-> 0]
        /\ stopped = FALSE
        /\ late = {}
-----------------------------------------------------------------------------
(***************************************************************************)
(* The master.                                                             *)
(***************************************************************************)

Request(type, r, num) == [type |-> type, ring |-> r, num |-> num]

StartRing(r) == <<Request("base", r, IF r = "TX" THEN base ELSE 0),
                  Request("addr", r, 0),
                  Request("kick", r, stops + 1)>>

(* The rings are set up in either order.  "other" stands for the requests that
   the server takes and ignores. *)
Start ==
  /\ phase \in {"off", "stopped"}
  /\ \E r, s \in Rings :
       /\ r # s
       /\ queue' = queue \o <<Request("other", r, 0)>>
                         \o StartRing(r) \o StartRing(s)
       /\ last' = s
  /\ phase' = "running"
  /\ UNCHANGED <<mode, base, stops, owed, avail, kicked, reply, server,
                 history>>

Put ==
  /\ phase = "running"
  /\ ~ owed
  /\ avail < MaxPackets
  /\ avail' = avail + 1
  /\ owed' = (mode["TX"] = "fd")
  /\ UNCHANGED <<mode, phase, base, stops, last, kicked, queue, reply, server,
                 history>>

Kick ==
  /\ phase = "running"
  /\ owed
  /\ kicked' = kicked \cup {stops + 1}
  /\ owed' = FALSE
  /\ UNCHANGED <<mode, phase, base, stops, last, avail, queue, reply, server,
                 history>>

Stop ==
  /\ phase = "running"
  /\ stops < MaxStops
  /\ stops' = stops + 1
  /\ queue' = Append(queue, Request("getbase", "TX", 0))
  /\ phase' = "stopping"
  /\ UNCHANGED <<mode, base, last, owed, avail, kicked, reply, server,
                 history>>

GetAnswer ==
  /\ phase = "stopping"
  /\ reply # NoReply
  /\ base' = reply
  /\ reply' = NoReply
  /\ phase' = "stopped"
  /\ UNCHANGED <<mode, stops, last, owed, avail, kicked, queue, server,
                 history>>
-----------------------------------------------------------------------------
(***************************************************************************)
(* The server's loop.                                                      *)
(***************************************************************************)

(* process_avail_vring: everything between last_avail_idx and avail->idx. *)
Process ==
  /\ taken' = [i \in Packets |->
                 IF i \in lastAvail + 1 .. avail THEN taken[i] + 1
                                                 ELSE taken[i]]
  /\ late' = IF stopped THEN late \cup (lastAvail + 1 .. avail) ELSE late
  /\ lastAvail' = avail
  /\ lastUsed' = lastUsed + avail - lastAvail
  /\ used' = lastUsed'
  /\ UNCHANGED stopped

Idle == UNCHANGED <<indices, history>>

(* traverse_fd_list *)
Select ==
  /\ pc = "select"
  /\ ready' = (listening \cap kicked)
                \cup (IF queue = <<>> THEN {} ELSE {SOCK})
  /\ pc' = "handle"
  /\ UNCHANGED <<master, avail, kicked, queue, reply, desc, listening,
                 isPolling, indices, history>>

(* receive_sock_server: one request.  The socket's slot comes first. *)
Handling(type) ==
  /\ pc = "handle"
  /\ SOCK \in ready
  /\ ready' = ready \ {SOCK}
  /\ Head(queue).type = type
  /\ queue' = Tail(queue)
  /\ UNCHANGED <<pc, master, avail, kicked>>

(* _set_features, _reset_owner, _set_log_base, _set_log_fd, _set_vring_err *)
IgnoreRequest ==
  /\ Handling("other")
  /\ UNCHANGED <<reply, desc, listening, isPolling, indices, history>>

(* Mutant: the index is reset whatever the master says. *)
SetVringBaseZero ==
  /\ Handling("base")
  /\ lastAvail' = IF Head(queue).ring = "TX" THEN 0 ELSE lastAvail
  /\ UNCHANGED <<reply, desc, listening, isPolling, lastUsed, used, history>>

(* Mutant: the number is taken for the last one processed. *)
SetVringBaseNext ==
  /\ Handling("base")
  /\ lastAvail' = IF Head(queue).ring = "TX" THEN Head(queue).num + 1
                                             ELSE lastAvail
  /\ UNCHANGED <<reply, desc, listening, isPolling, lastUsed, used, history>>

(* _set_vring_base *)
SetVringBase ==
  /\ Handling("base")
  /\ lastAvail' = IF Head(queue).ring = "TX" THEN Head(queue).num ELSE lastAvail
  /\ UNCHANGED <<reply, desc, listening, isPolling, lastUsed, used, history>>

(* Mutant: the index of the used ring starts again from 0. *)
SetVringAddrZero ==
  /\ Handling("addr")
  /\ desc' = [desc EXCEPT ![Head(queue).ring] = TRUE]
  /\ lastUsed' = IF Head(queue).ring = "TX" THEN 0 ELSE lastUsed
  /\ UNCHANGED <<reply, listening, isPolling, lastAvail, used, history>>

(* _set_vring_addr; last_used_idx is read from the ring. *)
SetVringAddr ==
  /\ Handling("addr")
  /\ desc' = [desc EXCEPT ![Head(queue).ring] = TRUE]
  /\ lastUsed' = IF Head(queue).ring = "TX" THEN used ELSE lastUsed
  /\ UNCHANGED <<reply, listening, isPolling, lastAvail, used, history>>

(* add_fd_list, whose error is ignored when the list is full. *)
WithKick(fd) ==
  IF Cardinality(listening) < Room THEN listening \cup {fd} ELSE listening

(* Mutant: polling begins for no ring. *)
SetVringKickNoPoll ==
  /\ Handling("kick")
  /\ listening' = IF Head(queue).ring = "TX" /\ mode["TX"] = "fd"
                    THEN WithKick(Head(queue).num) ELSE listening
  /\ isPolling' = FALSE
  /\ stopped' = (stopped /\ Head(queue).ring = "RX")
  /\ UNCHANGED <<reply, desc, indices, taken, late>>

(* _set_vring_kick: is_polling follows the request handled last, of whichever
   ring. *)
SetVringKick ==
  LET r == Head(queue).ring IN
  /\ Handling("kick")
  /\ listening' = IF r = "TX" /\ mode[r] = "fd"
                    THEN WithKick(Head(queue).num) ELSE listening
  /\ isPolling' = (mode[r] = "poll")
  /\ stopped' = (stopped /\ r = "RX")
  /\ UNCHANGED <<reply, desc, indices, taken, late>>

(* Mutant: the ring's fill level is reported. *)
GetVringBaseAvail ==
  /\ Handling("getbase")
  /\ reply' = avail
  /\ stopped' = TRUE
  /\ UNCHANGED <<desc, listening, isPolling, indices, taken, late>>

(* _get_vring_base: the ring stays as it is. *)
GetVringBase ==
  /\ Handling("getbase")
  /\ reply' = lastAvail
  /\ stopped' = TRUE
  /\ UNCHANGED <<desc, listening, isPolling, indices, taken, late>>

(* _kick_server, for the first of the eventfds still to be handled. *)
ReadKick(fd) ==
  /\ pc = "handle"
  /\ SOCK \notin ready
  /\ fd \in ready
  /\ \A other \in ready : fd <= other
  /\ ready' = ready \ {fd}
  /\ kicked' = kicked \ {fd}
  /\ IF desc["TX"] THEN Process ELSE Idle
  /\ UNCHANGED <<master, avail, queue, reply, pc, desc, listening, isPolling>>

Handled ==
  /\ pc = "handle"
  /\ ready = {}
  /\ pc' = "poll"
  /\ UNCHANGED <<master, avail, kicked, queue, reply, ready, desc, listening,
                 isPolling, indices, history>>

(* poll_server: nothing before RX has its addresses. *)
Poll ==
  /\ pc = "poll"
  /\ pc' = "select"
  /\ IF desc["RX"] /\ isPolling /\ desc["TX"] THEN Process ELSE Idle
  /\ UNCHANGED <<master, avail, kicked, queue, reply, ready, desc, listening,
                 isPolling>>

Handler == \/ IgnoreRequest \/ SetVringBase \/ SetVringAddr
           \/ SetVringKick \/ GetVringBase

Server == \/ Select \/ Handler \/ Handled \/ Poll
          \/ \E fd \in Kickfds : ReadKick(fd)

Master == Start \/ Put \/ Kick \/ Stop \/ GetAnswer

Next == Master \/ Server

(* The server's loop goes on, and a guest that put a packet goes on to kick. *)
Spec == Init /\ [][Next]_vars /\ WF_vars(Server) /\ WF_vars(Kick)
-----------------------------------------------------------------------------
(* Every variable holds a value of its kind. *)
TypeOK ==
  /\ mode \in Modes
  /\ phase \in {"off", "running", "stopping", "stopped"}
  /\ stops \in 0 .. MaxStops
  /\ base \in 0 .. avail /\ avail \in 0 .. MaxPackets
  /\ lastAvail \in 0 .. avail
  /\ reply \in {NoReply} \cup 0 .. avail
  /\ {used, lastUsed} \subseteq Nat
  /\ kicked \subseteq Kickfds /\ listening \subseteq Kickfds
  /\ last \in Rings
  /\ \A v \in {owed, isPolling, stopped} : v \in BOOLEAN
  /\ pc \in {"select", "handle", "poll"}
  /\ ready \subseteq {SOCK} \cup Kickfds
  /\ desc \in [Rings -> BOOLEAN]
  /\ taken \in [Packets -> 0 .. MaxStops + 1]
  /\ late \subseteq Packets

(* A stop and a restart skip no packet: what lies behind last_avail_idx, and
   behind the index the master was told to start from, has been processed. *)
NothingSkipped ==
  \A i \in Packets :
    (i <= lastAvail \/ i <= base \/ i <= reply) => taken[i] > 0

(* A packet is processed a second time only where the server processed it
   after it had told the master where it stands. *)
RepeatedOnlyIfLate == \A i \in Packets : taken[i] > 1 => i \in late

(* Through all stops and restarts, the used index that the driver reads counts
   the packets up to last_avail_idx.  SET_VRING_BASE sets one index of the ring
   and SET_VRING_ADDR the other (vhost_server.c:220, :234); they part only where
   a packet was processed late.  From then on the server announces more buffers
   than it was given. *)
UsedFollowsAvail == late = {} => used = lastAvail

(* The watch that the master asked for on TX is one that the server keeps: for
   kicks, up to the start whose eventfd finds the fd list full; polling, if that
   is asked for on the ring set up last as well, since is_polling is one flag for
   all rings. *)
WatchKept == IF mode["TX"] = "fd" THEN stops < Room ELSE mode[last] = "poll"

(* doc/vhost-user.txt:825: the invalid FD flag of SET_VRING_KICK "signals that
   polling should be used instead of waiting for a kick".  While the rings run, a
   packet that was put is processed, whatever is stopped, restarted, kicked or
   polled -- unless the fd list is full (the result of add_fd_list is ignored), or
   TX is to be polled and RX, set up after it, to be kicked. *)
TxServed ==
  \A i \in Packets :
    (WatchKept /\ phase = "running" /\ i <= avail)
      ~> (taken[i] > 0 \/ phase # "running")

(* doc/vhost-user.txt:319: "Once the source has finished migration, rings will
   be stopped by the source. No further update must be done before rings are
   restarted." *)
StoppedRingIsLeft == [][stopped => UNCHANGED taken]_vars
=============================================================================
