--------------------------- MODULE LifecycleProofs ---------------------------
(***************************************************************************)
(* What holds of the names for any number of processes that are started,   *)
(* interrupted and killed at any time: proofs of the invariants that       *)
(* MCLifecycle checks.                                                     *)
(***************************************************************************)
EXTENDS Lifecycle, TLAPS

-----------------------------------------------------------------------------
(* The parts of the inductive invariant. *)

(* A server that has the path for itself finds it free when it binds and has it
   from then on until it removes it. *)
PathInv ==
  \A s \in Servers : s \notin contested =>
    /\ pc[s] = "bind" => path = NoOne
    /\ pc[s] \in {"listen", "start", "loop", "close"} => path = s

(* Whichever server the path names got it by bind, and gives it up at its end;
   no bind has failed before it was tried. *)
BoundInv ==
  /\ path # NoOne => /\ ~ deaf[path]
                     /\ pc[path] \in Bound \cup {"killed"}
  /\ \A s \in Servers : pc[s] \in {"none", "unlink", "bind"} => ~ deaf[s]

(* A client's server has run; a client that broke off lost it. *)
PeerInv ==
  \A c \in Clients :
    /\ peer[c] # NoOne => pc[peer[c]] # "none"
    /\ pc[c] = "broken" => ~ Alive(peer[c])

(* The object that has the names, and every object that is mapped, is one that
   its client has created. *)
Created(o) == o = NoOne \/ pc[o] \notin {"none", "create"}

(* Where a client is that has called create_shm and has not been cut short. *)
Holding == {"connect", "features", "tables", "start", "loop", "stuck", "reset",
            "end", "ended"}

(* A client has an object from its create_shm on, and gives the names up at its
   end. *)
NameInv ==
  /\ Created(name)
  /\ name # NoOne => object[name] = name
  /\ \A c \in Clients :
       /\ Created(object[c])
       /\ pc[c] \in {"none", "create"} => object[c] = NoOne
       /\ pc[c] \in Holding => object[c] # NoOne
       /\ pc[c] = "ended" => name # object[c]

LifeInv == /\ TypeOK
           /\ PathInv
           /\ BoundInv
           /\ OneKeepsThePath
           /\ PeerInv
           /\ NameInv
           /\ RingsAreOwn

(* A step of a process leaves the others where they are. *)
LEMMA OthersStay ==
  ASSUME TypeOK, NEW p \in Processes, NEW x, pc' = [pc EXCEPT ![p] = x]
  PROVE  /\ pc'[p] = x
         /\ \A q \in Processes : q # p => pc'[q] = pc[q]
BY DEF TypeOK

(* Whoever is alive while p touches what its kind shares is contested, and p is
   unless it is alone. *)
LEMMA AllContested ==
  ASSUME NEW kind, NEW p \in kind, Contest(p, kind)
  PROVE  /\ contested \subseteq contested'
         /\ contested' \subseteq contested \cup kind
         /\ \A q \in kind : q # p /\ Alive(q) => q \in contested'
BY DEF Contest

-----------------------------------------------------------------------------
(* Types. *)
LEMMA ServerTypes ==
  ASSUME TypeOK, NEW s \in Servers, LaunchServer(s) \/ Server(s)
  PROVE  TypeOK'
<1> USE LifecycleAssumption DEF Processes, Goes, Launch, Gone, serverVars,
        clientVars
<1>0. s \notin Clients /\ s \in Processes
  OBVIOUS
<1>1. CASE LaunchServer(s)
  BY <1>0, <1>1 DEF TypeOK, LaunchServer
<1>2. CASE UnlinkPath(s)
  <2>1. contested' \subseteq Processes
    BY <1>2, AllContested DEF TypeOK, UnlinkPath
  <2> QED  BY <1>0, <1>2, <2>1 DEF TypeOK, UnlinkPath
<1>3. CASE Bind(s)
  <2>1. contested' \subseteq Processes
    BY <1>3, AllContested DEF TypeOK, Bind
  <2> QED  BY <1>0, <1>3, <2>1 DEF TypeOK, Bind
<1>4. CASE Listen(s)
  BY <1>0, <1>4 DEF TypeOK, Listen
<1>5. CASE EnterLoop(s)
  BY <1>0, <1>5 DEF TypeOK, EnterLoop
<1>6. CASE LeaveLoop(s, "close")
  BY <1>0, <1>6 DEF TypeOK, LeaveLoop
<1>7. CASE CloseServer(s)
  <2>1. contested' \subseteq Processes
    BY <1>7, AllContested DEF TypeOK, CloseServer
  <2> QED  BY <1>0, <1>7, <2>1 DEF TypeOK, CloseServer
<1> QED
  BY <1>1, <1>2, <1>3, <1>4, <1>5, <1>6, <1>7 DEF Server

LEMMA ClientTypes ==
  ASSUME TypeOK, NEW c \in Clients, LaunchClient(c) \/ Client(c) \/ GetStuck(c)
  PROVE  TypeOK'
<1> USE LifecycleAssumption DEF Processes, Goes, Launch, Gone, serverVars,
        clientVars
<1>0. c \in Processes
  OBVIOUS
<1>1. CASE LaunchClient(c)
  BY <1>0, <1>1 DEF TypeOK, LaunchClient
<1>2. CASE CreateShm(c)
  <2>1. contested' \subseteq Processes
    BY <1>2, AllContested DEF TypeOK, CreateShm
  <2> QED  BY <1>0, <1>2, <2>1 DEF TypeOK, CreateShm
<1>3. CASE Connect(c)
  BY <1>0, <1>3 DEF TypeOK, Connect, Alive
<1>4. CASE GetFeatures(c)
  BY <1>0, <1>4 DEF TypeOK, GetFeatures
<1>5. CASE Sends(c, "tables", "start")
  BY <1>0, <1>5 DEF TypeOK, Sends
<1>6. CASE EnterLoop(c)
  BY <1>0, <1>6 DEF TypeOK, EnterLoop
<1>7. CASE LeaveLoop(c, "reset")
  BY <1>0, <1>7 DEF TypeOK, LeaveLoop
<1>8. CASE Sends(c, "reset", "end")
  BY <1>0, <1>8 DEF TypeOK, Sends
<1>9. CASE EndShm(c)
  <2>1. contested' \subseteq Processes
    BY <1>9, AllContested DEF TypeOK, EndShm
  <2> QED  BY <1>0, <1>9, <2>1 DEF TypeOK, EndShm
<1>10. CASE GetStuck(c)
  BY <1>0, <1>10 DEF TypeOK, GetStuck
<1> QED
  BY <1>1, <1>2, <1>3, <1>4, <1>5, <1>6, <1>7, <1>8, <1>9, <1>10 DEF Client

LEMMA SignalTypes ==
  ASSUME TypeOK, NEW p \in Processes, Interrupt(p) \/ Kill(p)
  PROVE  TypeOK'
<1> USE LifecycleAssumption DEF Processes, Goes, Gone, serverVars, clientVars
<1>1. CASE Interrupt(p)
  BY <1>1 DEF TypeOK, Interrupt
<1>2. CASE Kill(p)
  <2>1. kills' \in 0 .. MaxKills
    BY <1>2 DEF TypeOK, Kill
  <2> QED  BY <1>2, <2>1 DEF TypeOK, Kill
<1> QED  BY <1>1, <1>2

-----------------------------------------------------------------------------
(* The path. *)

(* A step that neither changes the path nor brings a server to where it needs
   the path. *)
LEMMA PathKept ==
  ASSUME PathInv, path' = path, contested \subseteq contested',
         \A s \in Servers :
           /\ pc'[s] = "bind" => pc[s] = "bind"
           /\ pc'[s] \in {"listen", "start", "loop", "close"} =>
                pc[s] \in {"listen", "start", "loop", "close"}
  PROVE  PathInv'
BY DEF PathInv

(* A step in which p contests the path: the other servers that are alive are
   contested, and those that are not have no claim. *)
LEMMA PathContested ==
  ASSUME TypeOK, NEW p \in Servers, Contest(p, Servers),
         NEW x, pc' = [pc EXCEPT ![p] = x],
         p \notin contested' =>
           /\ x = "bind" => path' = NoOne
           /\ x \in {"listen", "start", "loop", "close"} => path' = p
  PROVE  PathInv'
<1> SUFFICES ASSUME NEW q \in Servers, q \notin contested'
             PROVE  /\ pc'[q] = "bind" => path' = NoOne
                    /\ pc'[q] \in {"listen", "start", "loop", "close"} =>
                         path' = q
  BY DEF PathInv
<1>1. p \in Processes /\ q \in Processes /\ q # NoOne
  BY LifecycleAssumption DEF Processes
<1>2. CASE q = p
  BY <1>1, <1>2, OthersStay
<1>3. CASE q # p
  <2>1. ~ Alive(q) /\ pc'[q] = pc[q]
    BY <1>1, <1>3, AllContested, OthersStay
  <2> QED  BY <1>1, <2>1 DEF Alive, Gone
<1> QED  BY <1>2, <1>3

(* A step that leaves the path and every server that has or had it. *)
LEMMA BoundKept ==
  ASSUME TypeOK, BoundInv, OneKeepsThePath, UNCHANGED <<path, deaf>>,
         \A s \in Servers :
           /\ pc[s] \in Bound => pc'[s] \in Bound \cup {"killed"}
           /\ pc'[s] \in Bound => pc[s] \in Bound
           /\ pc[s] = "killed" => pc'[s] = "killed"
           /\ pc'[s] \in {"none", "unlink", "bind"} =>
                pc[s] \in {"none", "unlink", "bind"}
           /\ KeepsPath(s)' => KeepsPath(s)
  PROVE  BoundInv' /\ OneKeepsThePath'
<1>1. path \in Servers \cup {NoOne}
  BY DEF TypeOK
<1>2. BoundInv'
  BY <1>1 DEF BoundInv
<1>3. OneKeepsThePath'
  <2> SUFFICES ASSUME NEW t \in Servers, pc'[t] \in Bound,
                      \A s \in Servers : KeepsPath(s)'
               PROVE  path # NoOne /\ pc'[path] \in Bound /\ ~ deaf[path]
    BY DEF OneKeepsThePath
  <2>1. /\ path \in Servers /\ path # NoOne
        /\ pc[path] \in Bound /\ ~ deaf[path]
    BY <1>1 DEF OneKeepsThePath
  <2>2. pc'[path] \in Bound \cup {"killed"} /\ KeepsPath(path)'
    BY <2>1
  <2>3. pc'[path] # "killed"
    BY <2>2 DEF KeepsPath, Bound
  <2> QED  BY <2>1, <2>2, <2>3
<1> QED  BY <1>2, <1>3

LEMMA ServerPaths ==
  ASSUME TypeOK, PathInv, NEW s \in Servers, LaunchServer(s) \/ Server(s)
  PROVE  PathInv'
<1> USE DEF Goes, Launch, serverVars, clientVars
<1>0. s \in Processes /\ Servers \subseteq Processes
  BY DEF Processes
<1>1. CASE LaunchServer(s)
  BY <1>0, <1>1, OthersStay, PathKept DEF LaunchServer
<1>2. CASE UnlinkPath(s)
  BY <1>2, PathContested DEF UnlinkPath
<1>3. CASE Bind(s)
  <2>1. CASE path = NoOne
    BY <1>3, <2>1, PathContested DEF Bind
  <2>2. CASE path # NoOne
    <3>1. s \notin contested' => s \notin contested
      BY <1>3, AllContested DEF Bind
    <3>2. s \in contested'
      BY <1>3, <2>2, <3>1 DEF Bind, PathInv
    <3> QED  BY <1>3, <2>2, <3>2, PathContested DEF Bind
  <2> QED  BY <2>1, <2>2
<1>4. CASE Listen(s)
  BY <1>0, <1>4, OthersStay, PathKept DEF Listen
<1>5. CASE EnterLoop(s)
  BY <1>0, <1>5, OthersStay, PathKept DEF EnterLoop
<1>6. CASE LeaveLoop(s, "close")
  BY <1>0, <1>6, OthersStay, PathKept DEF LeaveLoop
<1>7. CASE CloseServer(s)
  BY <1>7, PathContested DEF CloseServer
<1> QED
  BY <1>1, <1>2, <1>3, <1>4, <1>5, <1>6, <1>7 DEF Server

(* A server that is between unlink and bind, or ends with the path, makes no
   claim for the others; one that finds the path taken finds it bound. *)
LEMMA ServersBound ==
  ASSUME TypeOK, BoundInv, OneKeepsThePath, NEW s \in Servers,
         LaunchServer(s) \/ Server(s)
  PROVE  BoundInv' /\ OneKeepsThePath'
<1> USE LifecycleAssumption DEF Goes, Launch, serverVars, clientVars
<1>0. /\ s \in Processes /\ Servers \subseteq Processes /\ s # NoOne
      /\ path \in Servers \cup {NoOne}
  BY DEF Processes, TypeOK
<1>1. CASE LaunchServer(s)
  BY <1>0, <1>1, OthersStay, BoundKept DEF LaunchServer, Bound, KeepsPath
<1>2. CASE UnlinkPath(s)
  <2>1. /\ path' = NoOne /\ pc'[s] = "bind" /\ deaf' = deaf
        /\ pc[s] = "unlink"
        /\ \A t \in Servers : t # s => pc'[t] = pc[t]
    BY <1>0, <1>2, OthersStay DEF UnlinkPath
  <2> QED  BY <2>1 DEF BoundInv, OneKeepsThePath, KeepsPath, Bound
<1>3. CASE Bind(s)
  <2>1. CASE path = NoOne
    <3>1. /\ path' = s /\ pc'[s] = "listen" /\ deaf' = deaf
          /\ \A t \in Servers : t # s => pc'[t] = pc[t]
      BY <1>0, <1>3, <2>1, OthersStay DEF Bind
    <3>2. pc[s] = "bind"
      BY <1>3, <2>1 DEF Bind
    <3>3. ~ deaf[s]
      BY <3>2 DEF BoundInv
    <3> QED  BY <3>1, <3>3 DEF BoundInv, OneKeepsThePath, Bound
  <2>2. CASE path # NoOne
    <3>1. /\ path' = path /\ pc[s] = "bind" /\ pc'[s] = "start"
          /\ deaf' = [deaf EXCEPT ![s] = TRUE]
          /\ \A t \in Servers : t # s => pc'[t] = pc[t]
      BY <1>0, <1>3, <2>2, OthersStay DEF Bind
    <3>2. path \in Servers /\ path # s /\ ~ deaf[path]
          /\ pc[path] \in Bound \cup {"killed"}
      BY <1>0, <2>2, <3>1 DEF BoundInv, Bound
    <3>3. deaf'[path] = deaf[path] /\ pc'[path] = pc[path]
      BY <3>1, <3>2 DEF TypeOK
    <3> QED
      BY <3>1, <3>2, <3>3 DEF BoundInv, OneKeepsThePath, KeepsPath, Bound
  <2> QED  BY <2>1, <2>2
<1>4. CASE Listen(s)
  BY <1>0, <1>4, OthersStay, BoundKept DEF Listen, Bound, KeepsPath
<1>5. CASE EnterLoop(s)
  BY <1>0, <1>5, OthersStay, BoundKept DEF EnterLoop, Bound, KeepsPath
<1>6. CASE LeaveLoop(s, "close")
  BY <1>0, <1>6, OthersStay, BoundKept DEF LeaveLoop, Bound, KeepsPath
<1>7. CASE CloseServer(s)
  <2>1. /\ pc[s] = "close" /\ pc'[s] = "ended" /\ deaf' = deaf
        /\ \A t \in Servers : t # s => pc'[t] = pc[t]
    BY <1>0, <1>7, OthersStay DEF CloseServer
  <2>2. CASE ~ deaf[s]
    <3>1. path' = NoOne
      BY <1>7, <2>2 DEF CloseServer
    <3> QED
      BY <2>1, <2>2, <3>1 DEF BoundInv, OneKeepsThePath, KeepsPath, Bound
  <2>3. CASE deaf[s]
    <3>1. path' = path
      BY <1>7, <2>3 DEF CloseServer
    <3>2. path # NoOne => path # s
      BY <2>3 DEF BoundInv
    <3>3. BoundInv'
      BY <1>0, <2>1, <3>1, <3>2 DEF BoundInv
    <3>4. \A t \in Servers : KeepsPath(t)' => KeepsPath(t)
      BY <2>1 DEF KeepsPath, Bound
    <3>5. \A t \in Servers : pc'[t] \in Bound => pc[t] \in Bound
      BY <2>1 DEF Bound
    <3>6. OneKeepsThePath'
      BY <1>0, <2>1, <3>1, <3>2, <3>4, <3>5 DEF OneKeepsThePath
    <3> QED  BY <3>3, <3>6
  <2> QED  BY <2>2, <2>3
<1> QED
  BY <1>1, <1>2, <1>3, <1>4, <1>5, <1>6, <1>7 DEF Server

LEMMA ClientPaths ==
  ASSUME TypeOK, PathInv, BoundInv, OneKeepsThePath, NEW c \in Clients,
         LaunchClient(c) \/ Client(c) \/ GetStuck(c)
  PROVE  PathInv' /\ BoundInv' /\ OneKeepsThePath'
<1>1. c \in Processes /\ Servers \subseteq Processes /\ c \notin Servers
  BY LifecycleAssumption DEF Processes
<1>2. /\ path' = path /\ deaf' = deaf
      /\ \E x : pc' = [pc EXCEPT ![c] = x]
  BY DEF LaunchClient, Launch, Client, CreateShm, Connect, GetFeatures, Sends,
         EnterLoop, LeaveLoop, EndShm, GetStuck, Goes, serverVars
<1>3. contested \subseteq contested'
  BY AllContested
     DEF LaunchClient, Client, CreateShm, Connect, GetFeatures, Sends,
         EnterLoop, LeaveLoop, EndShm, GetStuck
<1>4. \A s \in Servers : pc'[s] = pc[s]
  BY <1>1, <1>2, OthersStay
<1>5. PathInv'
  BY <1>2, <1>3, <1>4, PathKept
<1> QED  BY <1>2, <1>4, <1>5, BoundKept DEF KeepsPath

LEMMA SignalPaths ==
  ASSUME TypeOK, PathInv, BoundInv, OneKeepsThePath, NEW p \in Processes,
         Interrupt(p) \/ Kill(p)
  PROVE  PathInv' /\ BoundInv' /\ OneKeepsThePath'
<1>1. CASE Interrupt(p)
  <2>1. path' = path /\ deaf' = deaf
    BY <1>1 DEF Interrupt, serverVars
  <2>2. \A s \in Servers : \/ pc'[s] = pc[s]
                           \/ pc[s] = "features" /\ pc'[s] = "tables"
    BY <1>1, OthersStay DEF Interrupt, Goes, Processes
  <2>3. PathInv'
    BY <1>1, <2>1, <2>2, PathKept DEF Interrupt
  <2> QED  BY <2>1, <2>2, <2>3, BoundKept DEF Bound, KeepsPath
<1>2. CASE Kill(p)
  <2>1. path' = path /\ deaf' = deaf
    BY <1>2 DEF Kill, serverVars
  <2>2. \A s \in Servers : pc'[s] = pc[s] \/ pc'[s] = "killed"
    BY <1>2, OthersStay DEF Kill, Processes
  <2>3. PathInv'
    BY <1>2, <2>1, <2>2, PathKept DEF Kill
  <2> QED  BY <2>1, <2>2, <2>3, BoundKept DEF Bound, KeepsPath
<1> QED  BY <1>1, <1>2

-----------------------------------------------------------------------------
(* The servers of the clients. *)

(* No process comes back to life, and none that has run is as good as new. *)
LEMMA PeersKept ==
  ASSUME TypeOK, PeerInv, peer' = peer,
         \A s \in Servers : pc'[s] = "none" => pc[s] = "none",
         \A s \in Servers : Alive(s)' => Alive(s) \/ pc[s] = "none",
         \A c \in Clients : pc'[c] = "broken" =>
           pc[c] = "broken" \/ ~ Alive(peer[c])
  PROVE  PeerInv'
<1> SUFFICES ASSUME NEW c \in Clients
             PROVE  /\ peer[c] # NoOne => pc'[peer[c]] # "none"
                    /\ pc'[c] = "broken" => ~ Alive(peer[c])'
  BY DEF PeerInv
<1>1. peer[c] \in Servers \cup {NoOne}
  BY DEF TypeOK
<1>2. peer[c] # NoOne => pc'[peer[c]] # "none"
  BY <1>1 DEF PeerInv
<1>3. ASSUME pc'[c] = "broken", Alive(peer[c])'
      PROVE  FALSE
  <2>1. ~ Alive(peer[c])
    BY <1>3 DEF PeerInv
  <2>2. peer[c] \in Servers
    BY <1>1, <1>3 DEF Alive
  <2>3. pc[peer[c]] # "none"
    BY <2>2, LifecycleAssumption DEF PeerInv
  <2> QED  BY <1>3, <2>1, <2>2, <2>3
<1> QED  BY <1>2, <1>3

LEMMA ServerPeers ==
  ASSUME TypeOK, PeerInv, NEW s \in Servers, LaunchServer(s) \/ Server(s)
  PROVE  PeerInv'
<1>1. /\ s \in Processes /\ Servers \subseteq Processes
      /\ Clients \subseteq Processes /\ s \notin Clients
  BY LifecycleAssumption DEF Processes
<1>2. /\ peer' = peer
      /\ Alive(s) \/ pc[s] = "none"
      /\ \E x : x # "none" /\ pc' = [pc EXCEPT ![s] = x]
  <2>1. s # NoOne
    BY LifecycleAssumption
  <2> QED
    BY <2>1
       DEF LaunchServer, Launch, Server, UnlinkPath, Bind, Listen, EnterLoop,
           LeaveLoop, CloseServer, Goes, clientVars, Alive, Gone
<1> PICK x : x # "none" /\ pc' = [pc EXCEPT ![s] = x]
  BY <1>2
<1>3. /\ pc'[s] # "none"
      /\ \A q \in Processes : q # s => pc'[q] = pc[q]
  BY <1>1, <1>2, OthersStay
<1>4. \A t \in Servers : Alive(t)' => Alive(t) \/ pc[t] = "none"
  BY <1>1, <1>2, <1>3 DEF Alive
<1> QED  BY <1>1, <1>2, <1>3, <1>4, PeersKept

LEMMA ClientPeers ==
  ASSUME TypeOK, PeerInv, NEW c \in Clients,
         LaunchClient(c) \/ Client(c) \/ GetStuck(c)
  PROVE  PeerInv'
<1>1. /\ c \in Processes /\ Servers \subseteq Processes
      /\ Clients \subseteq Processes /\ c \notin Servers
      /\ NoOne \notin Servers
  BY LifecycleAssumption DEF Processes
<1>2. CASE Connect(c)
  <2>1. /\ pc[c] = "connect" /\ pc'[c] # "broken"
        /\ \A q \in Processes : q # c => pc'[q] = pc[q]
    BY <1>1, <1>2, OthersStay DEF Connect, Goes
  <2>2. \A s \in Servers : pc'[s] = pc[s] /\ (Alive(s)' <=> Alive(s))
    BY <1>1, <2>1 DEF Alive
  <2>3. \/ peer' = peer
        \/ peer' = [peer EXCEPT ![c] = path] /\ Alive(path)
    BY <1>2 DEF Connect
  <2>4. CASE peer' = peer
    BY <1>1, <2>1, <2>2, <2>4, PeersKept
  <2>5. CASE peer' = [peer EXCEPT ![c] = path] /\ Alive(path)
    <3>1. path \in Servers /\ pc[path] # "none"
      BY <2>5 DEF TypeOK, Alive
    <3>2. /\ peer'[c] = path
          /\ \A d \in Clients : d # c => peer'[d] = peer[d]
      BY <2>5 DEF TypeOK
    <3>3. ASSUME NEW d \in Clients
          PROVE  /\ peer'[d] # NoOne => pc'[peer'[d]] # "none"
                 /\ pc'[d] = "broken" => ~ Alive(peer[d])'
      <4>1. CASE d = c
        BY <2>1, <2>2, <3>1, <3>2, <4>1
      <4>2. CASE d # c
        <5>1. peer'[d] = peer[d] /\ pc'[d] = pc[d]
              /\ peer[d] \in Servers \cup {NoOne}
          BY <1>1, <2>1, <3>2, <4>2 DEF TypeOK
        <5> QED  BY <2>2, <5>1 DEF PeerInv, Alive
      <4> QED  BY <4>1, <4>2
    <3> QED  BY <3>3 DEF PeerInv
  <2> QED  BY <2>3, <2>4, <2>5
<1>3. CASE ~ Connect(c)
  <2>1. /\ peer' = peer
        /\ \E x : /\ pc' = [pc EXCEPT ![c] = x]
                  /\ x = "broken" => ~ Alive(peer[c])
    BY <1>3
       DEF LaunchClient, Launch, Client, CreateShm, GetFeatures, Sends,
           EnterLoop, LeaveLoop, EndShm, GetStuck, Goes, clientVars
  <2>2. /\ pc'[c] = "broken" => ~ Alive(peer[c])
        /\ \A q \in Processes : q # c => pc'[q] = pc[q]
    BY <1>1, <2>1, OthersStay
  <2>3. \A s \in Servers : pc'[s] = pc[s] /\ (Alive(s)' <=> Alive(s))
    BY <1>1, <2>2 DEF Alive
  <2> QED  BY <1>1, <2>1, <2>2, <2>3, PeersKept
<1> QED  BY <1>2, <1>3

LEMMA SignalPeers ==
  ASSUME TypeOK, PeerInv, NEW p \in Processes, Interrupt(p) \/ Kill(p)
  PROVE  PeerInv'
<1>1. Servers \subseteq Processes /\ Clients \subseteq Processes
  BY DEF Processes
<1>2. peer' = peer /\ Alive(p)
  BY DEF Interrupt, Kill, clientVars
<1>3. \A q \in Processes : \/ pc'[q] = pc[q]
                           \/ pc'[q] \in {"tables", "killed"} /\ Alive(q)
  BY <1>2, OthersStay DEF Interrupt, Kill, Goes
<1>4. \A s \in Servers : Alive(s)' => Alive(s)
  BY <1>1, <1>3 DEF Alive
<1> QED  BY <1>1, <1>2, <1>3, <1>4, PeersKept

-----------------------------------------------------------------------------
(* The names and the objects. *)

(* A step of a server, or one of a client that leaves the objects alone: nobody
   goes back before create_shm, and only EndShm ends a client. *)
LEMMA NameKept ==
  ASSUME TypeOK, NameInv, RingsAreOwn, contested \subseteq contested',
         UNCHANGED <<name, object, rings>>,
         \A c \in Clients :
           /\ pc'[c] \in {"none", "create"} => pc[c] \in {"none", "create"}
           /\ pc'[c] \in Holding => pc[c] \in Holding
           /\ pc'[c] = "ended" => pc[c] = "ended"
           /\ Alive(c)' => Alive(c) \/ object[c] = NoOne
  PROVE  NameInv' /\ RingsAreOwn'
<1>1. /\ name \in Clients \cup {NoOne}
      /\ \A c \in Clients : object[c] \in Clients \cup {NoOne}
  BY DEF TypeOK
<1>2. \A o \in Clients \cup {NoOne} : Created(o) => Created(o)'
  BY DEF Created
<1>3. NameInv'
  BY <1>1, <1>2 DEF NameInv
<1>4. RingsAreOwn'
  BY DEF RingsAreOwn
<1> QED  BY <1>3, <1>4

LEMMA ServerNames ==
  ASSUME TypeOK, NameInv, RingsAreOwn, NEW s \in Servers,
         LaunchServer(s) \/ Server(s)
  PROVE  NameInv' /\ RingsAreOwn'
<1>1. s \in Processes /\ Clients \subseteq Processes /\ s \notin Clients
  BY LifecycleAssumption DEF Processes
<1>2. /\ UNCHANGED <<name, object, rings>>
      /\ \E x : pc' = [pc EXCEPT ![s] = x]
  BY DEF LaunchServer, Launch, Server, UnlinkPath, Bind, Listen, EnterLoop,
         LeaveLoop, CloseServer, Goes, clientVars
<1>3. contested \subseteq contested'
  BY AllContested
     DEF LaunchServer, Server, UnlinkPath, Bind, Listen, EnterLoop, LeaveLoop,
         CloseServer
<1>4. \A c \in Clients : pc'[c] = pc[c] /\ (Alive(c)' <=> Alive(c))
  BY <1>1, <1>2, OthersStay DEF Alive
<1> QED  BY <1>2, <1>3, <1>4, NameKept

LEMMA SignalNames ==
  ASSUME TypeOK, NameInv, RingsAreOwn, NEW p \in Processes,
         Interrupt(p) \/ Kill(p)
  PROVE  NameInv' /\ RingsAreOwn'
<1>1. Clients \subseteq Processes
  BY DEF Processes
<1>2. CASE Interrupt(p)
  <2>1. UNCHANGED <<name, object, rings, contested>>
    BY <1>2 DEF Interrupt, clientVars
  <2>2. \A c \in Clients : \/ pc'[c] = pc[c]
                           \/ pc[c] = "features" /\ pc'[c] = "tables"
    BY <1>1, <1>2, OthersStay DEF Interrupt, Goes
  <2> QED  BY <2>1, <2>2, NameKept DEF Alive, Gone, Holding
<1>3. CASE Kill(p)
  <2>1. UNCHANGED <<name, object, rings, contested>>
    BY <1>3 DEF Kill, clientVars
  <2>2. \A c \in Clients : pc'[c] = pc[c] \/ pc'[c] = "killed"
    BY <1>1, <1>3, OthersStay DEF Kill
  <2> QED  BY <2>1, <2>2, NameKept DEF Alive, Gone, Holding
<1> QED  BY <1>2, <1>3

(* create_shm: what has the names keeps them, and every other client that runs
   is contested, for its rings may just have been initialised again. *)
LEMMA CreateShmNames ==
  ASSUME TypeOK, NameInv, RingsAreOwn, NEW c \in Clients, CreateShm(c)
  PROVE  NameInv' /\ RingsAreOwn'
<1>1. /\ c \in Processes /\ Clients \subseteq Processes
      /\ NoOne \notin Clients
  BY LifecycleAssumption DEF Processes
<1>2. PICK o \in Clients : o = IF name = NoOne THEN c ELSE name
  BY DEF TypeOK
<1>3. /\ pc[c] = "create" /\ pc' = [pc EXCEPT ![c] = "connect"]
      /\ name' = o
      /\ object' = [object EXCEPT ![c] = o]
      /\ rings' = [rings EXCEPT ![o] = c]
      /\ Contest(c, Clients)
  BY <1>2 DEF CreateShm, Goes
<1>4. /\ object'[c] = o /\ rings'[o] = c
      /\ \A d \in Clients : d # c => object'[d] = object[d]
      /\ pc'[c] = "connect"
      /\ \A d \in Clients : d # c => pc'[d] = pc[d]
  BY <1>1, <1>2, <1>3, OthersStay DEF TypeOK
<1>5. \A d \in Clients \cup {NoOne} : Created(d) => Created(d)'
  BY <1>1, <1>4 DEF Created
<1>6. Created(name)'
  <2>1. CASE name = NoOne
    BY <1>1, <1>2, <1>3, <1>4, <2>1 DEF Created
  <2>2. CASE name # NoOne
    BY <1>2, <1>3, <1>5, <2>2 DEF NameInv
  <2> QED  BY <2>1, <2>2
<1>9. object'[o] = o
  <2>1. CASE name = NoOne
    BY <1>2, <1>4, <2>1
  <2>2. CASE name # NoOne
    BY <1>2, <1>4, <2>2 DEF NameInv
  <2> QED  BY <2>1, <2>2
<1>7. NameInv'
  <2> SUFFICES ASSUME NEW d \in Clients
               PROVE  /\ Created(object[d])'
                      /\ pc'[d] \in {"none", "create"} => object'[d] = NoOne
                      /\ pc'[d] \in Holding => object'[d] # NoOne
                      /\ pc'[d] = "ended" => name' # object'[d]
    BY <1>3, <1>6, <1>9 DEF NameInv
  <2>1. CASE d = c
    BY <1>1, <1>3, <1>4, <1>6, <2>1 DEF Holding, Created
  <2>2. CASE d # c
    <3>1. object[d] \in Clients \cup {NoOne} /\ Created(object[d])
      BY DEF TypeOK, NameInv
    <3>2. Created(object[d])'
      BY <1>4, <1>5, <2>2, <3>1
    <3>3. pc[d] = "ended" => o # object[d]
      BY <1>1, <1>2, <1>3, <3>1 DEF NameInv, Created
    <3> QED  BY <1>3, <1>4, <2>2, <3>2, <3>3 DEF NameInv
  <2> QED  BY <2>1, <2>2
<1>8. RingsAreOwn'
  <2> SUFFICES ASSUME NEW d \in Clients, Alive(d)', d \notin contested'
               PROVE  object'[d] # NoOne =>
                        name' = object'[d] /\ rings'[object'[d]] = d
    BY DEF RingsAreOwn
  <2>1. d = c
    <3>1. d # c => Alive(d)
      BY <1>4 DEF Alive
    <3> QED  BY <1>3, <3>1, AllContested
  <2> QED  BY <1>3, <1>4, <2>1
<1> QED  BY <1>7, <1>8

(* end_shm: a client that ends had an object, and now nothing has the names. *)
LEMMA EndShmNames ==
  ASSUME TypeOK, NameInv, RingsAreOwn, NEW c \in Clients, EndShm(c)
  PROVE  NameInv' /\ RingsAreOwn'
<1>1. c \in Processes /\ Clients \subseteq Processes
  BY DEF Processes
<1>2. /\ pc[c] = "end" /\ pc'[c] = "ended"
      /\ \A d \in Clients : d # c => pc'[d] = pc[d]
      /\ name' = NoOne
      /\ UNCHANGED <<object, rings>>
      /\ \A d \in Clients : d # c /\ Alive(d) => d \in contested'
      /\ contested \subseteq contested'
  BY <1>1, OthersStay, AllContested DEF EndShm, Goes
<1>3. \A d \in Clients \cup {NoOne} : Created(d) => Created(d)'
  BY <1>1, <1>2 DEF Created
<1>4. NameInv'
  <2>1. Created(name)'
    BY <1>2 DEF Created
  <2>2. \A d \in Clients : Created(object[d])'
    BY <1>2, <1>3 DEF NameInv, TypeOK
  <2>3. \A d \in Clients : pc[d] \in {"end", "ended"} => object[d] # NoOne
    BY DEF NameInv, Holding
  <2>4. \A d \in Clients :
          /\ pc'[d] \in {"none", "create"} => object'[d] = NoOne
          /\ pc'[d] \in Holding => object'[d] # NoOne
          /\ pc'[d] = "ended" => name' # object'[d]
    BY <1>2, <2>3 DEF NameInv
  <2> QED  BY <1>2, <2>1, <2>2, <2>4 DEF NameInv
<1>5. RingsAreOwn'
  <2> SUFFICES ASSUME NEW d \in Clients, Alive(d)'
               PROVE  d \in contested'
    BY DEF RingsAreOwn
  <2>1. d # c
    BY <1>2 DEF Alive, Gone
  <2> QED  BY <1>2, <2>1 DEF Alive
<1> QED  BY <1>4, <1>5

LEMMA ClientNames ==
  ASSUME TypeOK, NameInv, RingsAreOwn, NEW c \in Clients,
         LaunchClient(c) \/ Client(c) \/ GetStuck(c)
  PROVE  NameInv' /\ RingsAreOwn'
<1>1. CASE CreateShm(c)
  BY <1>1, CreateShmNames
<1>2. CASE EndShm(c)
  BY <1>2, EndShmNames
<1>3. CASE LaunchClient(c)
  <2>1. UNCHANGED <<name, object, rings, contested>>
    BY <1>3 DEF LaunchClient, clientVars
  <2>2. /\ pc[c] = "none" /\ pc'[c] = "create"
        /\ \A d \in Clients : d # c => pc'[d] = pc[d]
    BY <1>3, OthersStay DEF LaunchClient, Launch, Processes
  <2>3. object[c] = NoOne
    BY <2>2 DEF NameInv
  <2> QED  BY <2>1, <2>2, <2>3, NameKept DEF Alive, Gone, Holding
<1>4. CASE \/ Connect(c) \/ GetFeatures(c) \/ Sends(c, "tables", "start")
           \/ EnterLoop(c) \/ LeaveLoop(c, "reset") \/ Sends(c, "reset", "end")
           \/ GetStuck(c)
  <2>1. UNCHANGED <<name, object, rings, contested>>
    BY <1>4 DEF Connect, GetFeatures, Sends, EnterLoop, LeaveLoop, GetStuck,
                clientVars
  <2>2. \E x \in {"features", "refused", "tables", "broken", "start", "loop",
                  "reset", "end", "stuck"} : pc' = [pc EXCEPT ![c] = x]
    BY <1>4 DEF Connect, GetFeatures, Sends, EnterLoop, LeaveLoop, GetStuck,
                Goes
  <2>3. pc[c] \in {"connect", "features", "tables", "start", "loop", "reset"}
    BY <1>4 DEF Connect, GetFeatures, Sends, EnterLoop, LeaveLoop, GetStuck,
                Goes
  <2>4. /\ pc'[c] \in {"features", "refused", "tables", "broken", "start",
                       "loop", "reset", "end", "stuck"}
        /\ \A d \in Clients : d # c => pc'[d] = pc[d]
    BY <2>2, OthersStay DEF Processes
  <2> QED  BY <2>1, <2>3, <2>4, NameKept DEF Alive, Gone, Holding
<1> QED  BY <1>1, <1>2, <1>3, <1>4 DEF Client

-----------------------------------------------------------------------------
(* No process has been started. *)
LEMMA InitLife == Init => LifeInv
<1> SUFFICES ASSUME Init
             PROVE  LifeInv
  OBVIOUS
<1> USE LifecycleAssumption DEF Init, Processes
<1>1. TypeOK
  BY DEF TypeOK
<1>2. PathInv
  BY DEF PathInv
<1>5. BoundInv /\ OneKeepsThePath /\ PeerInv
  BY DEF BoundInv, OneKeepsThePath, Bound, PeerInv
<1>3. NameInv
  BY DEF NameInv, Created, Holding
<1>4. RingsAreOwn
  BY DEF RingsAreOwn, Alive
<1> QED  BY <1>1, <1>2, <1>3, <1>4, <1>5 DEF LifeInv

(* LifeInv holds in every reachable state, however many processes are started,
   interrupted and killed. *)
THEOREM LifeInvariant == Spec => []LifeInv
<1>1. Init => LifeInv
  BY InitLife
<1>2. LifeInv /\ [Next]_vars => LifeInv'
  <2> SUFFICES ASSUME LifeInv, [Next]_vars
               PROVE  LifeInv'
    OBVIOUS
  <2> USE DEF LifeInv
  <2>1. CASE \E s \in Servers : LaunchServer(s) \/ Server(s)
    BY <2>1, ServerTypes, ServerPaths, ServersBound, ServerPeers, ServerNames
  <2>2. CASE \E c \in Clients : LaunchClient(c) \/ Client(c) \/ GetStuck(c)
    BY <2>2, ClientTypes, ClientPaths, ClientPeers, ClientNames
  <2>3. CASE \E p \in Processes : Interrupt(p) \/ Kill(p)
    BY <2>3, SignalTypes, SignalPaths, SignalPeers, SignalNames
  <2>4. CASE UNCHANGED vars
    BY <2>4 DEF vars, clientVars, serverVars, TypeOK, PathInv, BoundInv,
                OneKeepsThePath, KeepsPath, PeerInv, NameInv, Created,
                RingsAreOwn, Alive
  <2> QED  BY <2>1, <2>2, <2>3, <2>4 DEF Next
<1> QED  BY <1>1, <1>2, PTL DEF Spec

(* Every variable holds a value of its kind; a client past connect has a
   server. *)
THEOREM TypeCorrect == Spec => []TypeOK
<1>1. LifeInv => TypeOK
  BY DEF LifeInv
<1> QED  BY <1>1, LifeInvariant, PTL

(* A server that has the path for itself can be reached from listen to close. *)
THEOREM Reachable == Spec => []ReachableUnlessContested
<1>1. LifeInv => ReachableUnlessContested
  BY DEF LifeInv, PathInv, ReachableUnlessContested
<1> QED  BY <1>1, LifeInvariant, PTL

(* Of servers that run, one can be reached by the path, unless one is between
   unlink and bind, was killed, or ended that had the path. *)
THEOREM OneReachable == Spec => []OneKeepsThePath
<1>1. LifeInv => OneKeepsThePath
  BY DEF LifeInv
<1> QED  BY <1>1, LifeInvariant, PTL

(* The names are those of a client that still runs or was cut short; no client
   that ended leaves them to its memory. *)
THEOREM NamesOfUnfinished == Spec => []NameIsOfUnfinished
<1>1. ASSUME LifeInv
      PROVE  NameIsOfUnfinished
  <2>1. ASSUME name # NoOne
        PROVE  Alive(name) \/ CutShort(name)
    <3>1. /\ name \in Clients /\ object[name] = name
          /\ pc[name] # "none" /\ pc[name] # "ended"
      BY <1>1, <2>1 DEF LifeInv, TypeOK, NameInv, Created
    <3>2. pc[name] = "broken" => ~ Alive(peer[name])
      BY <1>1, <3>1 DEF LifeInv, PeerInv
    <3> QED  BY <2>1, <3>1, <3>2 DEF Alive, Gone, CutShort
  <2> QED  BY <1>1, <2>1 DEF LifeInv, NameInv, NameIsOfUnfinished
<1>2. LifeInv => NameIsOfUnfinished
  BY <1>1
<1> QED  BY <1>2, LifeInvariant, PTL

(* A client that runs alone finds its own rings in its memory, and the memory
   has its names. *)
THEOREM OwnRings == Spec => []RingsAreOwn
<1>1. LifeInv => RingsAreOwn
  BY DEF LifeInv
<1> QED  BY <1>1, LifeInvariant, PTL
=============================================================================
