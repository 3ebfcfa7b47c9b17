------------------------------ MODULE Lifecycle ------------------------------
(***************************************************************************)
(* The life of the processes and of the names they share: the path of the  *)
(* server's socket and the names of the clients' shared memory.  Servers   *)
(* (vgpu_host.c and demo/vhost_server.c, which have the same default path) *)
(* and clients (demo/vhost_client.c) are started, interrupted and killed   *)
(* at any time; every process here runs once, a restart is another one.    *)
(* Processes of a kind are numbered in the order in which they start.      *)
(*                                                                         *)
(* Only SIGINT has a handler.  It clears app_running, which the loops set  *)
(* when they begin; SIGTERM and SIGPIPE have their default action.  A      *)
(* process that has gone has closed its sockets.  What the two say to one  *)
(* another is in VhostSession; here sending succeeds as long as the peer   *)
(* lives.                                                                  *)
(***************************************************************************)
EXTENDS Naturals

CONSTANTS Servers, Clients,
          NoOne,              (* not a process                             *)
          MaxKills            (* bound: processes killed or terminated     *)

ASSUME LifecycleAssumption ==
  /\ Servers \cap Clients = {}
  /\ Servers \cup Clients \subseteq Nat
  /\ NoOne \notin Servers \cup Clients
  /\ MaxKills \in Nat

Processes == Servers \cup Clients

VARIABLES
  pc,          (* pc[p]: the step p takes next, or how it ended            *)
  running,     (* running[p]: app_running                                  *)
  deaf,        (* deaf[s]: init_unsock failed                              *)
  path,        (* the server whose socket the path names                   *)
  peer,        (* peer[c]: the server c is connected to                    *)
  name,        (* the client that created the object the names stand for   *)
  object,      (* object[c]: by its creator, the object c has mapped       *)
  rings,       (* rings[o]: the client that initialised the rings in o     *)
  kills,
  contested    (* history: the processes that did not have the path, or    *)
               (* the names, for themselves all the time                   *)

clientVars == <<peer, name, object, rings>>
serverVars == <<deaf, path>>
vars == <<pc, running, serverVars, clientVars, kills, contested>>

Gone == {"ended", "refused", "broken", "killed"}
Alive(p) == p # NoOne /\ pc[p] \notin Gone \cup {"none"}

Init == /\ pc = [p \in Processes |-> "none"]
        /\ running = [p \in Processes |-> FALSE]
        /\ deaf = [s \in Servers |-> FALSE]
        /\ path = NoOne
        /\ peer = [c \in Clients |-> NoOne]
        /\ name = NoOne
        /\ object = [c \in Clients |-> NoOne]
        /\ rings = [c \in Clients |-> NoOne]
        /\ kills = 0
        /\ contested = {}

(* p is the next of its kind to be started. *)
Launch(p, kind, first) ==
  /\ pc[p] = "none"
  /\ \A q \in kind : q < p => pc[q] # "none"
  /\ pc' = [pc EXCEPT ![p] = first]

Goes(p, from, to) == pc[p] = from /\ pc' = [pc EXCEPT ![p] = to]

(* p is about to touch what the processes of its kind share. *)
Contest(p, kind) ==
  LET others == {q \in kind \ {p} : Alive(q)} IN
  contested' = contested \cup others \cup (IF others = {} THEN {} ELSE {p})

-----------------------------------------------------------------------------
(***************************************************************************)
(* A server.                                                               *)
(***************************************************************************)

LaunchServer(s) ==
  /\ Launch(s, Servers, "unlink")
  /\ UNCHANGED <<running, serverVars, clientVars, kills, contested>>

(* Mutant: a path that exists is left alone. *)
KeepPath(s) ==
  /\ Goes(s, "unlink", "bind")
  /\ Contest(s, Servers)
  /\ UNCHANGED <<running, serverVars, clientVars, kills>>

(* init_unsock: what has the path loses it. *)
UnlinkPath(s) ==
  /\ Goes(s, "unlink", "bind")
  /\ path' = NoOne
  /\ Contest(s, Servers)
  /\ UNCHANGED <<running, deaf, clientVars, kills>>

(* bind.  When it fails, new_vhost_server does not notice. *)
Bind(s) ==
  /\ Contest(s, Servers)
  /\ IF path = NoOne
       THEN /\ Goes(s, "bind", "listen")
            /\ path' = s
            /\ UNCHANGED deaf
       ELSE /\ Goes(s, "bind", "start")
            /\ deaf' = [deaf EXCEPT ![s] = TRUE]
            /\ UNCHANGED path
  /\ UNCHANGED <<running, clientVars, kills>>

Listen(s) ==
  /\ Goes(s, "listen", "start")
  /\ UNCHANGED <<running, serverVars, clientVars, kills, contested>>

(* run_vhost_server and loop_client begin with app_running = 1. *)
EnterLoop(p) ==
  /\ Goes(p, "start", "loop")
  /\ running' = [running EXCEPT ![p] = TRUE]
  /\ UNCHANGED <<serverVars, clientVars, kills, contested>>

LeaveLoop(p, to) ==
  /\ ~ running[p]
  /\ Goes(p, "loop", to)
  /\ UNCHANGED <<running, serverVars, clientVars, kills, contested>>

(* Mutant: a server that did not get the path removes it all the same. *)
CloseServerAnyway(s) ==
  /\ Goes(s, "close", "ended")
  /\ path' = NoOne
  /\ Contest(s, Servers)
  /\ UNCHANGED <<running, deaf, clientVars, kills>>

(* close_unsock in end_vhost_server, and the end of main. *)
CloseServer(s) ==
  /\ Goes(s, "close", "ended")
  /\ path' = IF deaf[s] THEN path ELSE NoOne
  /\ Contest(s, Servers)
  /\ UNCHANGED <<running, deaf, clientVars, kills>>

Server(s) == \/ UnlinkPath(s) \/ Bind(s) \/ Listen(s) \/ EnterLoop(s)
             \/ LeaveLoop(s, "close") \/ CloseServer(s)
-----------------------------------------------------------------------------
(***************************************************************************)
(* A client.                                                               *)
(***************************************************************************)

LaunchClient(c) ==
  /\ Launch(c, Clients, "create")
  /\ UNCHANGED <<running, serverVars, clientVars, kills, contested>>

(* Mutant: the name of an object that exists is opened, and not written. *)
CreateShmKeepsRings(c) ==
  LET o == IF name = NoOne THEN c ELSE name IN
  /\ Goes(c, "create", "connect")
  /\ name' = o
  /\ object' = [object EXCEPT ![c] = o]
  /\ rings' = IF name = NoOne THEN [rings EXCEPT ![o] = c] ELSE rings
  /\ Contest(c, Clients)
  /\ UNCHANGED <<running, serverVars, peer, kills>>

(* create_shm and new_vring: shm_open opens what has the name, if anything has;
   the rings in it are initialised. *)
CreateShm(c) ==
  LET o == IF name = NoOne THEN c ELSE name IN
  /\ Goes(c, "create", "connect")
  /\ name' = o
  /\ object' = [object EXCEPT ![c] = o]
  /\ rings' = [rings EXCEPT ![o] = c]
  /\ Contest(c, Clients)
  /\ UNCHANGED <<running, serverVars, peer, kills>>

(* Mutant: the result of connect is ignored. *)
ConnectUnchecked(c) ==
  /\ Goes(c, "connect", "features")
  /\ peer' = [peer EXCEPT ![c] = path]
  /\ UNCHANGED <<running, serverVars, name, object, rings, kills, contested>>

(* connect: refused unless the path names a socket that is listened on. *)
Connect(c) ==
  /\ IF Alive(path) /\ pc[path] \in {"start", "loop", "close"}
       THEN Goes(c, "connect", "features") /\ peer' = [peer EXCEPT ![c] = path]
       ELSE Goes(c, "connect", "refused") /\ UNCHANGED peer
  /\ UNCHANGED <<running, serverVars, name, object, rings, kills, contested>>

(* Mutant: a wait that is for ever when the server has gone. *)
GetFeaturesWaits(c) ==
  /\ Goes(c, "features", "tables")
  /\ pc[peer[c]] = "loop"
  /\ UNCHANGED <<running, serverVars, clientVars, kills, contested>>

(* SET_OWNER and GET_FEATURES with its reply.  Without a server the send raises
   SIGPIPE, or the receive returns 0 and the assertion on the reply fails. *)
GetFeatures(c) ==
  /\ \/ Goes(c, "features", "tables") /\ pc[peer[c]] = "loop"
     \/ Goes(c, "features", "broken") /\ ~ Alive(peer[c])
  /\ UNCHANGED <<running, serverVars, clientVars, kills, contested>>

(* vhost_ioctl without a reply: the send succeeds, or raises SIGPIPE. *)
Sends(c, from, to) ==
  /\ Goes(c, from, IF Alive(peer[c]) THEN to ELSE "broken")
  /\ UNCHANGED <<running, serverVars, clientVars, kills, contested>>

(* process_used_vring does not return (Vring). *)
GetStuck(c) ==
  /\ Goes(c, "loop", "stuck")
  /\ UNCHANGED <<running, serverVars, clientVars, kills, contested>>

(* Mutant: the name stays. *)
EndShmKeepsName(c) ==
  /\ Goes(c, "end", "ended")
  /\ Contest(c, Clients)
  /\ UNCHANGED <<running, serverVars, clientVars, kills>>

(* end_shm and close_unsock in end_vhost_client. *)
EndShm(c) ==
  /\ Goes(c, "end", "ended")
  /\ name' = NoOne
  /\ Contest(c, Clients)
  /\ UNCHANGED <<running, serverVars, peer, object, rings, kills>>

Client(c) == \/ CreateShm(c) \/ Connect(c) \/ GetFeatures(c)
             \/ Sends(c, "tables", "start") \/ EnterLoop(c)
             \/ LeaveLoop(c, "reset") \/ Sends(c, "reset", "end") \/ EndShm(c)
-----------------------------------------------------------------------------
(* signal_handler.  A client that waits for a reply stops waiting: recvmsg
   fails with EINTR, which init_vhost_client does not notice. *)
Interrupt(p) ==
  /\ Alive(p)
  /\ running' = [running EXCEPT ![p] = FALSE]
  /\ \/ UNCHANGED pc
     \/ Goes(p, "features", "tables")
  /\ UNCHANGED <<serverVars, clientVars, kills, contested>>

(* SIGKILL, and SIGTERM, for which init_signals registers no handler. *)
Kill(p) ==
  /\ Alive(p)
  /\ kills < MaxKills
  /\ kills' = kills + 1
  /\ pc' = [pc EXCEPT ![p] = "killed"]
  /\ UNCHANGED <<running, serverVars, clientVars, contested>>

Next == \/ \E s \in Servers : LaunchServer(s) \/ Server(s)
        \/ \E c \in Clients : LaunchClient(c) \/ Client(c) \/ GetStuck(c)
        \/ \E p \in Processes : Interrupt(p) \/ Kill(p)

Spec == Init /\ [][Next]_vars

(* A process that runs goes on; nothing else has to happen. *)
FairSpec == /\ Spec
            /\ \A s \in Servers : WF_vars(Server(s))
            /\ \A c \in Clients : WF_vars(Client(c))
-----------------------------------------------------------------------------
(* Every variable holds a value of its kind; a client past connect has a
   server. *)
TypeOK ==
  /\ pc \in [Processes -> {"none", "unlink", "bind", "listen", "start", "loop",
                           "close", "create", "connect", "features", "tables",
                           "stuck", "reset", "end"} \cup Gone]
  /\ running \in [Processes -> BOOLEAN]
  /\ deaf \in [Servers -> BOOLEAN]
  /\ path \in Servers \cup {NoOne}
  /\ peer \in [Clients -> Servers \cup {NoOne}]
  /\ \A c \in Clients :
       pc[c] \in {"features", "tables", "start", "loop", "stuck", "reset",
                  "end"} => peer[c] # NoOne
  /\ name \in Clients \cup {NoOne}
  /\ {object, rings} \subseteq [Clients -> Clients \cup {NoOne}]
  /\ kills \in 0 .. MaxKills
  /\ contested \subseteq Processes

(* A server that has the path for itself can be reached from listen to close,
   whatever path an earlier one left behind. *)
ReachableUnlessContested ==
  \A s \in Servers :
    pc[s] \in {"start", "loop", "close"} /\ s \notin contested => path = s

(* Servers that start at once, unlink one another's path and find it taken
   leave one of them reachable: where some run, and none is between unlink and
   bind, the path names one that is bound to it -- unless one was killed, or
   ended that had the path once. *)
Bound == {"listen", "start", "loop", "close"}

KeepsPath(s) == \/ pc[s] \in {"none", "unlink"} \cup Bound
                \/ pc[s] = "ended" /\ deaf[s]

OneKeepsThePath ==
  (\E s \in Servers : pc[s] \in Bound) /\ (\A s \in Servers : KeepsPath(s)) =>
    path # NoOne /\ pc[path] \in Bound /\ ~ deaf[path]

(* The names stand for memory whose creator still runs, or was cut short: it
   was killed, found no server, or lost the one it had.  No client leaves them
   to the memory it had when it ended, whoever else shared that. *)
CutShort(c) == \/ pc[c] \in {"killed", "refused"}
               \/ pc[c] = "broken" /\ ~ Alive(peer[c])

NameIsOfUnfinished ==
  /\ name # NoOne => Alive(name) \/ CutShort(name)
  /\ \A c \in Clients : pc[c] = "ended" => name # object[c]

(* As long as no other client creates its memory or ends, a client's memory is
   the one that has the names, and the rings in it are the ones it initialised,
   even where it took over what an earlier client left. *)
RingsAreOwn ==
  \A c \in Clients :
    Alive(c) /\ object[c] # NoOne /\ c \notin contested =>
      name = object[c] /\ rings[object[c]] = c

(* A client does not wait for ever for the reply of a server, whatever becomes
   of that server. *)
WaitEnds == \A c \in Clients : pc[c] = "features" ~> pc[c] # "features"

(* unsock.h:28: a socket that listens is responsible for cleaning up its path;
   so none removes the path of another server that can be reached by it. *)
RemovesOwnPath ==
  [][\A s \in Servers :
       Goes(s, "close", "ended") => path \in {s, NoOne} \/ path' = path]_vars
=============================================================================
