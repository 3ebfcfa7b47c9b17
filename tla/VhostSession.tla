---------------------------- MODULE VhostSession ----------------------------
(***************************************************************************)
(* The control plane: clients that connect, hand their rings over, send    *)
(* and leave, and the server that serves them from one select loop.        *)
(*                                                                         *)
(* A client (demo/vhost_client.c) creates its shared memory, connects and  *)
(* sends the messages of init_vhost_client without waiting for the server, *)
(* except for the reply to GET_FEATURES.  It leaves through                *)
(* end_vhost_client, which removes the shared memory, or is killed, which  *)
(* leaves it behind for the next client to open.  One client runs at a     *)
(* time, but what it left in its socket, in its eventfd and in the         *)
(* server's tables stays.                                                  *)
(*                                                                         *)
(* The server (vgpu_host.c; demo/vhost_server.c is a copy) never restarts. *)
(* One pass of its loop takes the descriptors that select reports, in the  *)
(* order of their slots in the fd list, and calls the handler of each: one *)
(* connection, one message or one kick per slot.  Descriptors are named by *)
(* what they are, not by number.  (The number of a socket that is closed   *)
(* may be given to an eventfd received later in the same pass, and its bit *)
(* is still set; the read of that eventfd then fails with EAGAIN, because  *)
(* it is non-blocking, and changes nothing.  Sockets are accepted before   *)
(* anything is closed, since the listening socket has the first slot.)     *)
(*                                                                         *)
(* Left out: the echo on RX and the reclaiming of TX buffers (VhostEcho);  *)
(* vring.num and callfd (the same value for every client, the latter never *)
(* used); requests the client does not send; SIGINT during the wait for    *)
(* the reply (Lifecycle); a recvmsg that fails, which only costs a pass.   *)
(* The descriptors and indices that new_vring resets while the server may  *)
(* read a leftover kick are reset at once.  The model stops when the       *)
(* server has died or goes round the whole range of a 16-bit index.        *)
(***************************************************************************)
EXTENDS Integers, Sequences, FiniteSetsExt

CONSTANTS MaxClients,    (* bound: clients that are started                *)
          MaxPackets,    (* bound: packets one client puts on TX           *)
          FdListSize,    (* FD_LIST_SIZE                                   *)
          Addrs          (* where mmap may place a client's shared memory  *)

ASSUME SessionAssumption ==
  /\ MaxClients \in Nat \ {0}
  /\ MaxPackets \in Nat
  /\ FdListSize \in Nat \ {0}
  /\ Addrs # {}

Clients == 1 .. MaxClients
Objects == 1 .. MaxClients        (* shared memory objects                 *)
Slots == 1 .. FdListSize
Rings == {"RX", "TX"}
NULL == 0

(* What init_vhost_client sends, in order. *)
RingSetup(r) ==
  <<<<"num", r>>, <<"base", r>>, <<"kick", r>>, <<"call", r>>, <<"addr", r>>>>

Handshake == <<<<"owner", "-">>, <<"features", "-">>, <<"mem", "-">>>>
             \o RingSetup("RX") \o RingSetup("TX")

(* What a slot of the fd list holds. *)
Free == <<"free", NULL>>
Listen == <<"listen", NULL>>
Sock(g) == <<"sock", g>>
Kickfd(g) == <<"kick", g>>

VARIABLES
  \* the clients
  gen,        (* the client that runs, or the last one that ran            *)
  clientPc,   (* where it is                                               *)
  step,       (* the next message of Handshake                             *)
  addr,       (* addr[g]: the address client g maps its memory at          *)
  obj,        (* obj[g]: the shared memory object client g opened          *)
  linked,     (* the last object still has its name                        *)
  \* shared memory, per object: the TX ring
  avail,      (* avail->idx                                                *)
  used,       (* used->idx                                                 *)
  writer,     (* the client whose new_vring wrote the descriptor addresses *)
  \* the sockets and the TX eventfds, per client
  backlog,    (* connections not accepted yet                              *)
  queue,      (* messages not received yet                                 *)
  open,       (* the client's end of its socket is open                    *)
  reply,      (* the reply to GET_FEATURES is waiting                      *)
  kicked,     (* the TX eventfd's counter is not 0                         *)
  \* the server
  server,     (* "up"; or what stopped it: "sigpipe", a null vring.used    *)
              (* ("badRing"), a null buffer ("badCopy"), a "runaway" loop  *)
  fds,        (* unsock->fd_list.read_fds                                  *)
  ready,      (* the slots of this pass that are still to be handled       *)
  memory,     (* the client of the last SET_MEM_TABLE                      *)
  desc,       (* the object vring[].desc, avail and used point into        *)
  lastAvail,  (* vring[TX].last_avail_idx                                  *)
  lastUsed,   (* vring[TX].last_used_idx                                   *)
  \* history
  early       (* since the newest client started, a kick was read before   *)
              (* SET_VRING_ADDR of its TX ring                             *)

client == <<gen, clientPc, step, addr, obj, linked>>
shm == <<avail, used, writer>>
wires == <<backlog, queue, open, reply, kicked>>
rings == <<memory, desc, lastAvail, lastUsed>>
vars == <<client, shm, wires, server, fds, ready, rings, early>>

Init == /\ gen = 0
        /\ clientPc = "gone"
        /\ step = 1
        /\ addr \in [Clients -> Addrs]
        /\ obj = [g \in Clients |-> NULL]
        /\ linked = FALSE
        /\ avail = [o \in Objects |-> 0]
        /\ used = [o \in Objects |-> 0]
        /\ writer = [o \in Objects |-> NULL]
        /\ backlog = <<>>
        /\ queue = [g \in Clients |-> <<>>]
        /\ open = [g \in Clients |-> FALSE]
        /\ reply = [g \in Clients |-> FALSE]
        /\ kicked = [g \in Clients |-> FALSE]
        /\ server = "up"
        /\ fds = [i \in Slots |-> IF i = 1 THEN Listen ELSE Free]
        /\ ready = {}
        /\ memory = NULL
        /\ desc = [r \in Rings |-> NULL]
        /\ lastAvail = 0
        /\ lastUsed = 0
        /\ early = FALSE
-----------------------------------------------------------------------------
(***************************************************************************)
(* The clients.                                                            *)
(***************************************************************************)

(* new_vhost_client: shm_open creates a new object unless the name of the last
   one is still there; new_vring initialises the ring in it. *)
StartClient ==
  /\ clientPc = "gone"
  /\ gen < MaxClients
  /\ gen' = gen + 1
  /\ LET o == IF linked THEN obj[gen] ELSE gen + 1 IN
       /\ obj' = [obj EXCEPT ![gen + 1] = o]
       /\ avail' = [avail EXCEPT ![o] = 0]
       /\ used' = [used EXCEPT ![o] = 0]
       /\ writer' = [writer EXCEPT ![o] = gen + 1]
  /\ linked' = TRUE
  /\ clientPc' = "connect"
  /\ step' = 1
  /\ early' = FALSE
  /\ UNCHANGED <<addr, wires, server, fds, ready, rings>>

(* init_unsock: connect returns once there is room in the listen queue, which
   listen(sock, 1) makes two connections long. *)
Connect ==
  /\ clientPc = "connect"
  /\ Len(backlog) < 2
  /\ backlog' = Append(backlog, gen)
  /\ open' = [open EXCEPT ![gen] = TRUE]
  /\ clientPc' = "send"
  /\ UNCHANGED <<gen, step, addr, obj, linked, shm, queue, reply, kicked,
                 server, fds, ready, rings, early>>

(* vhost_ioctl: one message; GET_FEATURES waits for its reply. *)
Send ==
  /\ clientPc = "send"
  /\ queue' = [queue EXCEPT ![gen] = Append(@, Handshake[step])]
  /\ IF Handshake[step][1] = "features"
       THEN clientPc' = "wait" /\ UNCHANGED step
       ELSE /\ step' = step + 1
            /\ clientPc' = IF step = Len(Handshake) THEN "put" ELSE "send"
  /\ UNCHANGED <<gen, addr, obj, linked, shm, backlog, open, reply, kicked,
                 server, fds, ready, rings, early>>

GetReply ==
  /\ clientPc = "wait"
  /\ reply[gen]
  /\ reply' = [reply EXCEPT ![gen] = FALSE]
  /\ step' = step + 1
  /\ clientPc' = "send"
  /\ UNCHANGED <<gen, addr, obj, linked, shm, backlog, queue, open, kicked,
                 server, fds, ready, rings, early>>

(* send_packet: put_vring, then kick. *)
Put ==
  /\ clientPc = "put"
  /\ avail[obj[gen]] < MaxPackets
  /\ avail' = [avail EXCEPT ![obj[gen]] = @ + 1]
  /\ clientPc' = "kick"
  /\ UNCHANGED <<gen, step, addr, obj, linked, used, writer, wires, server,
                 fds, ready, rings, early>>

Kick ==
  /\ clientPc = "kick"
  /\ kicked' = [kicked EXCEPT ![gen] = TRUE]
  /\ clientPc' = "put"
  /\ UNCHANGED <<gen, step, addr, obj, linked, shm, backlog, queue, open,
                 reply, server, fds, ready, rings, early>>

(* SIGINT ends loop_client; end_vhost_client sends RESET_OWNER, unlinks the
   shared memory and closes the socket. *)
Exit ==
  /\ clientPc = "put"
  /\ queue' = [queue EXCEPT ![gen] = Append(@, <<"reset", "-">>)]
  /\ linked' = FALSE
  /\ open' = [open EXCEPT ![gen] = FALSE]
  /\ clientPc' = "gone"
  /\ UNCHANGED <<gen, step, addr, obj, shm, backlog, reply, kicked, server,
                 fds, ready, rings, early>>

(* The client is killed: its socket is closed, its shared memory stays. *)
Killed ==
  /\ clientPc # "gone"
  /\ open' = [open EXCEPT ![gen] = FALSE]
  /\ clientPc' = "gone"
  /\ UNCHANGED <<gen, step, addr, obj, linked, shm, backlog, queue, reply,
                 kicked, server, fds, ready, rings, early>>
-----------------------------------------------------------------------------
(***************************************************************************)
(* The server's loop.                                                      *)
(***************************************************************************)

(* Whether select reports a descriptor: a connection to accept, a message or
   the end of a stream to receive, an eventfd that was kicked. *)
Readable(fd) ==
  CASE fd[1] = "listen" -> backlog # <<>>
    [] fd[1] = "sock"   -> queue[fd[2]] # <<>> \/ ~ open[fd[2]]
    [] fd[1] = "kick"   -> kicked[fd[2]]
    [] OTHER            -> FALSE

(* traverse_fd_list.  A pass in which nothing is readable changes nothing. *)
Select ==
  /\ server = "up"
  /\ ready = {}
  /\ ready' = {i \in Slots : Readable(fds[i])}
  /\ ready' # {}
  /\ UNCHANGED <<client, shm, wires, server, fds, rings, early>>

(* process_fd_set has come to the slot of fd. *)
Handling(fd) ==
  /\ server = "up"
  /\ ready # {}
  /\ fds[Min(ready)] = fd
  /\ ready' = ready \ {Min(ready)}

(* Mutant: the search stops one slot too early. *)
WithFdShort(fd) ==
  LET free == {i \in Slots : fds[i] = Free /\ i < FdListSize}
  IN  IF free = {} THEN fds ELSE [fds EXCEPT ![Min(free)] = fd]

(* add_fd_list: the first free slot; without one it only reports an error. *)
WithFd(fd) ==
  LET free == {i \in Slots : fds[i] = Free}
  IN  IF free = {} THEN fds ELSE [fds EXCEPT ![Min(free)] = fd]

(* del_fd_list *)
WithoutFd(fd) == [i \in Slots |-> IF fds[i] = fd THEN Free ELSE fds[i]]

(* Mutant: the socket is added twice, as init_unsock does for a client's. *)
AcceptTwice ==
  /\ Handling(Listen)
  /\ LET free == {i \in Slots : fds[i] = Free} IN
       fds' = [i \in Slots |-> IF i = Min(free) \/ i = Max(free)
                                 THEN Sock(Head(backlog)) ELSE fds[i]]
  /\ backlog' = Tail(backlog)
  /\ UNCHANGED <<client, shm, queue, open, reply, kicked, server, rings,
                 early>>

(* accept_sock_server *)
Accept ==
  /\ Handling(Listen)
  /\ fds' = WithFd(Sock(Head(backlog)))
  /\ backlog' = Tail(backlog)
  /\ UNCHANGED <<client, shm, queue, open, reply, kicked, server, rings,
                 early>>

(* Mutant: the closed socket stays in the fd list. *)
CloseKeepsFd(g) ==
  /\ Handling(Sock(g))
  /\ queue[g] = <<>>
  /\ UNCHANGED <<client, shm, wires, server, fds, rings, early>>

(* receive_sock_server at the end of the stream. *)
Close(g) ==
  /\ Handling(Sock(g))
  /\ queue[g] = <<>>
  /\ fds' = WithoutFd(Sock(g))
  /\ UNCHANGED <<client, shm, wires, server, rings, early>>

(* receive_sock_server takes message m of client g. *)
Receives(g, m) ==
  /\ Handling(Sock(g))
  /\ queue[g] # <<>>
  /\ Head(queue[g]) = m
  /\ queue' = [queue EXCEPT ![g] = Tail(@)]
-----------------------------------------------------------------------------
(***************************************************************************)
(* The message handlers: in_msg_server.                                    *)
(***************************************************************************)

(* SET_OWNER, RESET_OWNER, SET_VRING_NUM and SET_VRING_CALL change nothing
   that is modelled. *)
NoEffect(g) ==
  /\ \E m \in {<<"owner", "-">>, <<"reset", "-">>}
                \cup ({"num", "call"} \X Rings) : Receives(g, m)
  /\ UNCHANGED <<client, shm, backlog, open, reply, kicked, server, fds,
                 rings, early>>

(* Mutant: the handler returns 0, so that no reply is sent. *)
GetFeaturesNoReply(g) ==
  /\ Receives(g, <<"features", "-">>)
  /\ UNCHANGED <<client, shm, backlog, open, reply, kicked, server, fds,
                 rings, early>>

(* _get_features and the reply.  Sending to a client that has gone raises
   SIGPIPE, for which the server has no handler. *)
GetFeatures(g) ==
  /\ Receives(g, <<"features", "-">>)
  /\ IF open[g] THEN /\ reply' = [reply EXCEPT ![g] = TRUE]
                     /\ UNCHANGED server
                ELSE /\ server' = "sigpipe"
                     /\ UNCHANGED reply
  /\ UNCHANGED <<client, shm, backlog, open, kicked, fds, rings, early>>

(* Mutant: the table is taken over when the rings are, not when it comes. *)
SetMemTableIgnored(g) ==
  /\ Receives(g, <<"mem", "-">>)
  /\ UNCHANGED <<client, shm, backlog, open, reply, kicked, server, fds,
                 rings, early>>

(* _set_mem_table maps the sender's object. *)
SetMemTable(g) ==
  /\ Receives(g, <<"mem", "-">>)
  /\ memory' = g
  /\ UNCHANGED <<client, shm, backlog, open, reply, kicked, server, fds, desc,
                 lastAvail, lastUsed, early>>

(* Mutant: the index goes on where the last client's was. *)
SetVringBaseKeeps(g, r) ==
  /\ Receives(g, <<"base", r>>)
  /\ UNCHANGED <<client, shm, backlog, open, reply, kicked, server, fds,
                 memory, desc, lastAvail, lastUsed, early>>

(* _set_vring_base; the client always sends 0. *)
SetVringBase(g, r) ==
  /\ Receives(g, <<"base", r>>)
  /\ lastAvail' = IF r = "TX" THEN 0 ELSE lastAvail
  /\ UNCHANGED <<client, shm, backlog, open, reply, kicked, server, fds,
                 memory, desc, lastUsed, early>>

(* _set_vring_kick: only the TX eventfd goes to the fd list. *)
SetVringKick(g, r) ==
  /\ Receives(g, <<"kick", r>>)
  /\ fds' = IF r = "TX" THEN WithFd(Kickfd(g)) ELSE fds
  /\ UNCHANGED <<client, shm, backlog, open, reply, kicked, server, rings,
                 early>>

(* _map_user_addr and _map_guest_addr: an address of client g lies in a region
   of the table in force.  The client's guest addresses are its own. *)
Mapped(g) == memory # NULL /\ addr[memory] = addr[g]

(* _set_vring_addr; used->idx is read through the new pointer, whatever it
   is. *)
SetVringAddr(g, r) ==
  /\ Receives(g, <<"addr", r>>)
  /\ IF Mapped(g)
       THEN /\ desc' = [desc EXCEPT ![r] = obj[memory]]
            /\ lastUsed' = IF r = "TX" THEN used[obj[memory]] ELSE lastUsed
            /\ UNCHANGED server
       ELSE /\ desc' = [desc EXCEPT ![r] = NULL]
            /\ server' = "badRing"
            /\ UNCHANGED lastUsed
  /\ UNCHANGED <<client, shm, backlog, open, reply, kicked, fds, memory,
                 lastAvail, early>>
-----------------------------------------------------------------------------
(* Messages of the newest client that the server has taken. *)
Taken == step - (IF clientPc = "wait" THEN 0 ELSE 1) - Len(queue[gen])

HasTaken(m) == gen # 0 /\ \E i \in 1 .. Taken : Handshake[i] = m

(***************************************************************************)
(* _kick_server: whichever client's eventfd it is, the TX ring of the      *)
(* server's only table is processed, if it is set.                         *)
(***************************************************************************)
ReadKick(g) ==
  /\ Handling(Kickfd(g))
  /\ early' = (early \/ ~ HasTaken(<<"addr", "TX">>))
  /\ kicked' = [kicked EXCEPT ![g] = FALSE]
  /\ UNCHANGED <<client, backlog, queue, open, reply, fds, memory, desc>>

KickBeforeAddr(g) ==
  /\ ReadKick(g)
  /\ desc["TX"] = NULL
  /\ UNCHANGED <<shm, server, lastAvail, lastUsed>>

(* Mutant: one entry per kick. *)
ProcessOneTX(g) ==
  LET o == desc["TX"] IN
  /\ ReadKick(g)
  /\ o # NULL
  /\ lastAvail < avail[o]
  /\ Mapped(writer[o])
  /\ lastAvail' = lastAvail + 1
  /\ lastUsed' = lastUsed + 1
  /\ used' = [used EXCEPT ![o] = lastUsed']
  /\ UNCHANGED <<avail, writer, server>>

(* Mutant: the ring is rewound instead of advanced. *)
ProcessTXBackwards(g) ==
  LET o == desc["TX"] IN
  /\ ReadKick(g)
  /\ o # NULL
  /\ lastAvail <= avail[o]
  /\ lastAvail < avail[o] => Mapped(writer[o])
  /\ lastAvail' = avail[o]
  /\ lastUsed' = lastUsed + lastAvail - avail[o]
  /\ used' = [used EXCEPT ![o] = lastUsed']
  /\ UNCHANGED <<avail, writer, server>>

(* process_avail_vring: all entries published, then used->idx.  The addresses
   in the descriptors are those of the client that wrote them. *)
ProcessTX(g) ==
  LET o == desc["TX"] IN
  /\ ReadKick(g)
  /\ o # NULL
  /\ lastAvail <= avail[o]
  /\ lastAvail < avail[o] => Mapped(writer[o])
  /\ lastAvail' = avail[o]
  /\ lastUsed' = lastUsed + avail[o] - lastAvail
  /\ used' = [used EXCEPT ![o] = lastUsed']
  /\ UNCHANGED <<avail, writer, server>>

(* _process_desc copies from the null pointer that map_handler returned. *)
ProcessUnmapped(g) ==
  LET o == desc["TX"] IN
  /\ ReadKick(g)
  /\ o # NULL
  /\ lastAvail < avail[o]
  /\ ~ Mapped(writer[o])
  /\ server' = "badCopy"
  /\ UNCHANGED <<shm, lastAvail, lastUsed>>

(* last_avail_idx is ahead of avail->idx: process_avail_vring goes round the
   16-bit range. *)
ProcessRunaway(g) ==
  LET o == desc["TX"] IN
  /\ ReadKick(g)
  /\ o # NULL
  /\ lastAvail > avail[o]
  /\ server' = "runaway"
  /\ UNCHANGED <<shm, lastAvail, lastUsed>>
-----------------------------------------------------------------------------
(* What a client does without being told to. *)
Proceed == server = "up" /\ (Connect \/ Send \/ GetReply \/ Kick)

Client == \/ Proceed
          \/ server = "up" /\ (StartClient \/ Put \/ Exit \/ Killed)

Handler(g) == \/ Close(g)
              \/ NoEffect(g)
              \/ GetFeatures(g)
              \/ SetMemTable(g)
              \/ \E r \in Rings : \/ SetVringBase(g, r)
                                  \/ SetVringKick(g, r)
                                  \/ SetVringAddr(g, r)
              \/ KickBeforeAddr(g)
              \/ ProcessTX(g)
              \/ ProcessUnmapped(g)
              \/ ProcessRunaway(g)

Server == \/ Select
          \/ Accept
          \/ \E g \in Clients : Handler(g)

Next == Client \/ Server

Spec == Init /\ [][Next]_vars

(* The server's loop runs on; a client that runs goes through its handshake
   and kicks after it has put.  Whether a client puts another packet, leaves,
   is killed or is started gets no fairness. *)
FairSpec == /\ Spec
            /\ WF_vars(Server)
            /\ WF_vars(Proceed)
-----------------------------------------------------------------------------
(***************************************************************************)
(* Properties.                                                             *)
(***************************************************************************)
Fds == {Free, Listen} \cup ({"sock", "kick"} \X Clients)

TypeOK ==
  /\ gen \in 0 .. MaxClients
  /\ clientPc \in {"gone", "connect", "send", "wait", "put", "kick"}
  /\ step \in 1 .. Len(Handshake) + 1
  /\ addr \in [Clients -> Addrs]
  /\ obj \in [Clients -> Objects \cup {NULL}]
  /\ linked \in BOOLEAN
  /\ avail \in [Objects -> 0 .. MaxPackets]
  /\ used \in [Objects -> Nat]
  /\ writer \in [Objects -> Clients \cup {NULL}]
  /\ backlog \in Seq(Clients)
  /\ \A g \in Clients : Len(queue[g]) <= Len(Handshake) + 1
  /\ {open, reply, kicked} \subseteq [Clients -> BOOLEAN]
  /\ server \in {"up", "sigpipe", "badRing", "badCopy", "runaway"}
  /\ fds \in [Slots -> Fds]
  /\ ready \subseteq Slots
  /\ memory \in Clients \cup {NULL}
  /\ desc \in [Rings -> Objects \cup {NULL}]
  /\ {lastAvail, lastUsed} \subseteq Nat
  /\ early \in BOOLEAN

Listed(fd) == \E i \in Slots : fds[i] = fd

Running == clientPc # "gone"

(* process_fd_set goes by slots and looks at the list again at each one, while
   its handlers add and remove descriptors.  Still no handler blocks in accept
   or recvmsg and stops the loop for everybody: a socket whose handler is to
   be called in this pass has a connection, a message or the end of the stream
   to give it. *)
HandlersNeverBlock ==
  \A i \in ready : fds[i][1] # "kick" => Readable(fds[i])

(* As long as one client is all the server has seen, the handshake runs ahead
   of the server and kicks run ahead of the handshake without ever making it
   follow a null or stale pointer, wherever the client is killed. *)
FirstClientSafe == gen = 1 => server \in {"up", "sigpipe"}

(* No kick is lost once the first one has found the ring in place: what the
   first client has published and the server has not processed is announced by
   a kick, or is about to be. *)
NoLostKickOnceStarted ==
  gen = 1 /\ Running /\ lastAvail > 0 /\ lastAvail < avail[obj[gen]] =>
    kicked[gen] \/ clientPc = "kick"

(* The comment at vgpu_host.c:324: the server listens for kicks.  Once it
   has handled SET_VRING_KICK of TX, the running client's eventfd is in the fd
   list, although the eventfds of its predecessors are never removed and their
   sockets only when the end of the stream is read -- for every client up to
   which the list has a slot for the listening socket and two for each client.
   The first one beyond may go unheard: add_fd_list finds no slot, and
   _set_vring_kick ignores its error. *)
KickListened ==
  Running /\ HasTaken(<<"kick", "TX">>) /\ 2 * gen < FdListSize =>
    Listed(Kickfd(gen))

(* vring.c:259 reports a fault of this memcpy after the client was restarted
   and supposes an alignment problem; so addresses are always mapped. *)
AddressesMapped == server # "badCopy"

(* What a restart can break, it breaks before the successor has its addresses:
   as long as no kick, left behind or the successor's own, is read between the
   newest client's start and its SET_VRING_ADDR of TX, the server never copies
   from an address that is not mapped and never finds last_avail_idx ahead of
   avail->idx. *)
HarmOnlyByEarlyKick == server \in {"badCopy", "runaway"} => early

(* unsock.c:149: when the reply cannot be sent, the server reports it and goes
   on. *)
SurvivesFailedReply == server # "sigpipe"

(* doc/vhost-user.txt:189-191: GET_FEATURES requires a reply.  A running client
   gets it and vhost_ioctl does not block for ever, whatever earlier clients
   left behind -- for every client whose connection finds a slot even if each of
   its predecessors still has two.  One beyond may be accepted and never heard:
   accept_sock_server ignores the error of add_fd_list. *)
AwaitsReply == clientPc = "wait" /\ 2 * gen <= FdListSize

ReplyComes == AwaitsReply ~> (clientPc # "wait" \/ server # "up")

(* The connection of a client that has gone gives its slot back. *)
ClosedIsDropped ==
  \A g \in Clients :
    (Listed(Sock(g)) /\ ~ open[g]) ~> (~ Listed(Sock(g)) \/ server # "up")
=============================================================================
