-------------------------- MODULE VhostSessionProofs --------------------------
(***************************************************************************)
(* What holds of the control plane for any number of clients, one after    *)
(* the other, and an fd list of any length: proofs of the safety           *)
(* properties that MCVhostSession checks.  They rest on the order in which *)
(* the server takes what clients sent: everybody's messages in sequence,   *)
(* and a predecessor's memory table before its successor's.                *)
(***************************************************************************)
EXTENDS VhostSession, SequenceTheorems, FiniteSetTheorems, WellFoundedInduction,
        TLAPS

-----------------------------------------------------------------------------
(* The parts of the inductive invariant. *)

MemMsg == <<"mem", "-">>

(* All that a client sends. *)
Msgs == Append(Handshake, <<"reset", "-">>)

Messages == {Msgs[i] : i \in 1 .. 14}

(* g has connected. *)
Known(g) == g < gen \/ (g = gen /\ clientPc # "connect")

(* Where the running client is, and what its predecessors left. *)
ClientInv ==
  /\ gen = 0 => clientPc = "gone" /\ ~ linked
  /\ \A g \in Clients : g <= gen => obj[g] # NULL
  /\ gen # 0 => writer[obj[gen]] = gen
  /\ clientPc = "connect" => step = 1
  /\ clientPc = "send" => step <= 13
  /\ clientPc = "wait" => step = 2
  /\ clientPc \in {"put", "kick"} => step = 14
  /\ \A g \in Clients : open[g] <=> g = gen /\ clientPc \notin {"gone", "connect"}
  /\ \A g \in Clients : ~ Known(g) => queue[g] = <<>> /\ ~ reply[g]
  /\ memory <= gen

(* What the fd list and the listen queue hold: every socket at most once. *)
FdInv ==
  /\ fds[1] = Listen
  /\ \A i \in Slots : fds[i] = Listen => i = 1
  /\ \A i, j \in Slots, g \in Clients :
       fds[i] = Sock(g) /\ fds[j] = Sock(g) => i = j
  /\ \A g \in Clients : Listed(Sock(g)) => Known(g)
  /\ \A k \in 1 .. Len(backlog), g \in Clients :
       backlog[k] = g => Known(g) /\ ~ Listed(Sock(g))
  /\ \A k, l \in 1 .. Len(backlog) : backlog[k] = backlog[l] => k = l

(* HandlersNeverBlock, by what a slot holds. *)
PassInv ==
  \A i \in ready :
    /\ fds[i] # Free
    /\ fds[i] = Listen => backlog # <<>>
    /\ \A g \in Clients : fds[i] = Sock(g) => queue[g] # <<>> \/ ~ open[g]

(* A client has its reply only when the server has taken GET_FEATURES, and sends
   its memory table after that; the server then has its socket. *)
TableInv ==
  /\ Running /\ (reply[gen] \/ step > 2) => Taken >= 2 /\ Listed(Sock(gen))
  /\ \A g \in Clients : \A i \in 1 .. Len(queue[g]) :
       queue[g][i] = MemMsg => i = 1 /\ Listed(Sock(g))

(* The server has taken t messages of client g, and the rest is in its queue. *)
At(g, t) ==
  /\ t \in 0 .. 14
  /\ Len(queue[g]) + t <= 14
  /\ \A i \in 1 .. Len(queue[g]) : queue[g][i] = Msgs[t + i]

InSequence ==
  /\ queue \in [Clients -> Seq(Messages)]
  /\ \A g \in Clients : \E t \in 0 .. 14 : At(g, t)

(* Taken does not count what a client that is gone sent last. *)
TakenOfNewest(t) == t = Taken \/ (~ Running /\ t = Taken + 1)

InPass(g) == \E i \in ready : fds[i] = Sock(g)

(* While the table of a predecessor g waits, at most the first message of the
   newest client has been taken, and only in a pass in which g's turn is still
   to come. *)
Lags(g, t) ==
  (\E i \in 1 .. Len(queue[g]) : queue[g][i] = MemMsg) =>
    /\ t = 0 \/ (t = 1 /\ ~ InPass(gen) /\ InPass(g))
    /\ InPass(gen) => InPass(g)

(* t messages of the newest client have been taken. *)
Position(t) == /\ At(gen, t)
               /\ TakenOfNewest(t)
               /\ \A g \in Clients : g < gen => Lags(g, t)

(* What the server has done for the newest client when it has taken t of its
   messages. *)
Progress(t) ==
  /\ t >= 3 => memory = gen
  /\ server = "up" /\ ~ early =>
       /\ t \in 10 .. 12 => lastAvail = 0
       /\ t >= 13 => desc["TX"] = obj[gen] /\ lastAvail <= avail[obj[gen]]

NewestInv == gen # 0 => \E t \in 0 .. 14 : Position(t) /\ Progress(t)

(* As long as there has been one client at most. *)
FirstInv ==
  /\ gen = 0 => /\ memory = NULL
                /\ lastAvail = 0
                /\ \A r \in Rings : desc[r] = NULL
                /\ server = "up"
  /\ gen = 1 => /\ obj[1] = 1
                /\ memory \in {NULL, 1}
                /\ \A r \in Rings : desc[r] \in {NULL, 1}
                /\ \A r \in Rings : desc[r] = 1 => memory = 1
                /\ lastAvail <= avail[1]
                /\ lastAvail > 0 => desc["TX"] = 1

SessionInv == /\ TypeOK
              /\ ClientInv
              /\ FdInv
              /\ PassInv
              /\ TableInv
              /\ InSequence
              /\ NewestInv
              /\ HarmOnlyByEarlyKick
              /\ FirstInv
              /\ FirstClientSafe
              /\ NoLostKickOnceStarted

-----------------------------------------------------------------------------
(* Numbers, messages and descriptors. *)

(* process_fd_set takes a slot that is ready, the lowest. *)
LEMMA MinIsIn ==
  ASSUME NEW n \in Nat, NEW S \in SUBSET (1 .. n), S # {}
  PROVE  Min(S) \in S
<1> DEFINE Below(x) == {y \in S : y <= x}
           T == {Below(x) : x \in S}
<1>1. IsFiniteSet(S)
  <2>1. IsFiniteSet(1 .. n)
    BY FS_Interval
  <2> QED  BY <2>1, FS_Subset
<1>2. T \subseteq FiniteSubsetsOf(S) /\ T # {}
  <2>1. \A x \in S : Below(x) \in SUBSET S /\ IsFiniteSet(Below(x))
    BY <1>1, FS_Subset
  <2> QED  BY <2>1 DEF FiniteSubsetsOf
<1>3. PICK B \in T : \A C \in T : <<C, B>> \notin StrictSubsetOrdering(S)
  <2>1. IsWellFoundedOn(StrictSubsetOrdering(S), FiniteSubsetsOf(S))
    BY FS_StrictSubsetOrderingWellFounded
  <2> HIDE DEF T
  <2> QED  BY <1>2, <2>1, WFMin
<1>4. PICK m \in S : B = Below(m)
  BY <1>3
<1>5. ASSUME NEW x \in S, x < m
      PROVE  FALSE
  <2>1. x \in Int /\ m \in Int
    OBVIOUS
  <2>2. \A y \in S : y <= x => y <= m
    <3> SUFFICES ASSUME NEW y \in S, y <= x
                 PROVE  y <= m
      OBVIOUS
    <3>1. y \in Int
      OBVIOUS
    <3> QED  BY <1>5, <2>1, <3>1
  <2>3. m \in B /\ m \notin Below(x) /\ Below(x) \in T
    BY <1>4, <1>5, <2>1
  <2>4. <<Below(x), B>> \in StrictSubsetOrdering(S)
    BY <1>2, <1>3, <1>4, <2>2, <2>3 DEF StrictSubsetOrdering, FiniteSubsetsOf
  <2> QED  BY <1>3, <2>3, <2>4
<1>6. \A x \in S : m <= x
  <2> SUFFICES ASSUME NEW x \in S
               PROVE  m <= x
    OBVIOUS
  <2>1. x \in Int /\ m \in Int
    OBVIOUS
  <2> QED  BY <1>5, <2>1
<1> QED  BY <1>6 DEF Min

(* The messages, by their places. *)
LEMMA MsgPlaces ==
  /\ Len(Handshake) = 13
  /\ \A i \in 1 .. 13 : Handshake[i] = Msgs[i]
  /\ \A i \in 1 .. 13 : Handshake[i][1] = "features" <=> i = 2
  /\ Handshake[11] = <<"kick", "TX">> /\ Handshake[13] = <<"addr", "TX">>
  /\ \A i \in 1 .. 13 : Handshake[i] = <<"kick", "TX">> => i = 11
  /\ \A i \in 1 .. 13 : Handshake[i] = <<"addr", "TX">> => i = 13
  /\ Msgs[14] = <<"reset", "-">>
  /\ \A i \in 1 .. 14 : Msgs[i] = MemMsg <=> i = 3
  /\ \A i \in 1 .. 14 : Msgs[i] = <<"features", "-">> <=> i = 2
  /\ \A i \in 1 .. 14 : Msgs[i] = <<"base", "TX">> <=> i = 10
  /\ \A i \in 1 .. 14 : Msgs[i] = <<"kick", "TX">> <=> i = 11
  /\ \A i \in 1 .. 14 : Msgs[i] = <<"addr", "TX">> <=> i = 13
  /\ \A i \in 1 .. 14 : Msgs[i] = <<"addr", "RX">> <=> i = 8
<1> USE DEF Handshake, RingSetup, Msgs, MemMsg
<1>1. /\ Len(Handshake) = 13
      /\ \A i \in 1 .. 13 : Handshake[i] = Msgs[i]
  OBVIOUS
<1>2. /\ \A i \in 1 .. 13 : Handshake[i][1] = "features" <=> i = 2
      /\ Handshake[11] = <<"kick", "TX">> /\ Handshake[13] = <<"addr", "TX">>
  OBVIOUS
<1>3. /\ \A i \in 1 .. 13 : Handshake[i] = <<"kick", "TX">> => i = 11
      /\ \A i \in 1 .. 13 : Handshake[i] = <<"addr", "TX">> => i = 13
  OBVIOUS
<1>4. /\ Msgs[14] = <<"reset", "-">>
      /\ \A i \in 1 .. 14 : Msgs[i] = MemMsg <=> i = 3
      /\ \A i \in 1 .. 14 : Msgs[i] = <<"features", "-">> <=> i = 2
  OBVIOUS
<1>5. /\ \A i \in 1 .. 14 : Msgs[i] = <<"base", "TX">> <=> i = 10
      /\ \A i \in 1 .. 14 : Msgs[i] = <<"kick", "TX">> <=> i = 11
  OBVIOUS
<1>6. /\ \A i \in 1 .. 14 : Msgs[i] = <<"addr", "TX">> <=> i = 13
      /\ \A i \in 1 .. 14 : Msgs[i] = <<"addr", "RX">> <=> i = 8
  OBVIOUS
<1> QED  BY <1>1, <1>2, <1>3, <1>4, <1>5, <1>6

LEMMA HandshakeLength == Len(Handshake) = 13
BY MsgPlaces

LEMMA MemPlace == \A i \in 1 .. 14 : Msgs[i] = MemMsg <=> i = 3
BY MsgPlaces

(* Descriptors of different kinds, and of different clients, differ. *)
LEMMA FdKinds ==
  /\ Free # Listen
  /\ \A g : Sock(g) # Free /\ Sock(g) # Listen /\ Kickfd(g) # Free /\ Kickfd(g) # Listen
  /\ \A g, h : Sock(g) # Kickfd(h)
  /\ \A g, h : Sock(g) = Sock(h) => g = h
  /\ \A g, h : Kickfd(g) = Kickfd(h) => g = h
BY DEF Free, Listen, Sock, Kickfd

(* The list of descriptors. *)
LEMMA FdTypes ==
  /\ Free \in Fds /\ Listen \in Fds
  /\ \A g \in Clients : Sock(g) \in Fds /\ Kickfd(g) \in Fds
  /\ \A fd \in Fds : \/ fd = Free \/ fd = Listen
                     \/ \E g \in Clients : fd = Sock(g) \/ fd = Kickfd(g)
BY DEF Fds, Sock, Kickfd

(* What is listed does not change while fds does not. *)
LEMMA ListedKept ==
  ASSUME fds' = fds, NEW g
  PROVE  Listed(Sock(g))' <=> Listed(Sock(g))
BY DEF Listed

(* What select reports, by the kind of the descriptor. *)
LEMMA ReadableKinds ==
  /\ ~ Readable(Free)
  /\ Readable(Listen) <=> backlog # <<>>
  /\ \A g : Readable(Sock(g)) <=> queue[g] # <<>> \/ ~ open[g]
BY DEF Readable, Free, Listen, Sock

-----------------------------------------------------------------------------
(* The numbers of a state that satisfies the invariant. *)
LEMMA SessionFacts ==
  ASSUME SessionInv
  PROVE  /\ MaxClients \in Nat \ {0} /\ Clients = 1 .. MaxClients
         /\ gen \in Nat /\ gen <= MaxClients
         /\ Running => gen # 0
         /\ gen # 0 => gen \in Clients
         /\ step \in 1 .. 14
         /\ \A g \in Clients : Len(queue[g]) \in Nat /\ queue[g] \in Seq(Messages)
         /\ Len(backlog) \in Nat
         /\ \A k \in 1 .. Len(backlog) : backlog[k] \in Clients
         /\ gen # 0 => Taken \in Int /\ Len(queue[gen]) \in Nat
         /\ Running => Taken = step - (IF clientPc = "wait" THEN 0 ELSE 1)
                               - Len(queue[gen])
<1> USE DEF SessionInv
<1>1. MaxClients \in Nat \ {0} /\ Clients = 1 .. MaxClients
  BY SessionAssumption DEF Clients
<1>2. gen \in Nat /\ gen <= MaxClients
  BY <1>1 DEF TypeOK
<1>3. Running => gen # 0
  BY DEF Running, ClientInv
<1>4. gen # 0 => gen \in Clients
  BY <1>1, <1>2
<1>5. step \in 1 .. 14
  BY MsgPlaces DEF TypeOK
<1>6. \A g \in Clients : Len(queue[g]) \in Nat /\ queue[g] \in Seq(Messages)
  BY LenProperties DEF InSequence
<1>7. gen # 0 => Taken \in Int /\ Len(queue[gen]) \in Nat
  BY <1>4, <1>5, <1>6 DEF Taken
<1>8. /\ Len(backlog) \in Nat
      /\ \A k \in 1 .. Len(backlog) : backlog[k] \in Clients
  BY LenProperties, ElementOfSeq DEF TypeOK
<1> QED  BY <1>1, <1>2, <1>3, <1>4, <1>5, <1>6, <1>7, <1>8 DEF Taken

(* A running client's place, from the invariant: Taken. *)
LEMMA PlaceOfRunning ==
  ASSUME SessionInv, Running
  PROVE  /\ gen \in Clients
         /\ Taken \in 0 .. 14
         /\ Position(Taken) /\ Progress(Taken)
<1>1. gen # 0 /\ gen \in Clients
  BY SessionFacts
<1>2. PICK t \in 0 .. 14 : Position(t) /\ Progress(t)
  BY <1>1 DEF SessionInv, NewestInv
<1>3. t = Taken
  BY <1>2 DEF Position, TakenOfNewest
<1> QED  BY <1>1, <1>2, <1>3

(* A message behind a queue. *)
LEMMA AppendFacts ==
  ASSUME NEW S, NEW q \in Seq(S), NEW e \in S
  PROVE  /\ Len(q) \in Nat
         /\ Append(q, e) \in Seq(S) /\ Len(Append(q, e)) = Len(q) + 1
         /\ Append(q, e) # <<>>
         /\ \A i \in 1 .. Len(q) : Append(q, e)[i] = q[i]
         /\ Append(q, e)[Len(q) + 1] = e
         /\ \A i \in 1 .. Len(q) + 1 : i \in 1 .. Len(q) \/ i = Len(q) + 1
<1>1. Len(q) \in Nat
  BY LenProperties
<1>2. /\ Append(q, e) \in Seq(S) /\ Len(Append(q, e)) = Len(q) + 1
      /\ \A i \in 1 .. Len(q) : Append(q, e)[i] = q[i]
      /\ Append(q, e)[Len(q) + 1] = e
  BY AppendProperties
<1>3. Append(q, e) # <<>>
  BY <1>1, <1>2, EmptySeq
<1> QED  BY <1>1, <1>2, <1>3

(* A queue without its head. *)
LEMMA TailFacts ==
  ASSUME NEW S, NEW q \in Seq(S), q # <<>>
  PROVE  /\ Len(q) \in Nat \ {0} /\ Head(q) = q[1] /\ q[1] \in S
         /\ Tail(q) \in Seq(S) /\ Len(Tail(q)) = Len(q) - 1
         /\ \A i \in 1 .. Len(q) - 1 : Tail(q)[i] = q[i + 1] /\ i + 1 \in 1 .. Len(q)
<1>1. Len(q) \in Nat \ {0} /\ q[1] \in S /\ Head(q) = q[1]
  BY EmptySeq, ElementOfSeq
<1>2. /\ Tail(q) \in Seq(S) /\ Len(Tail(q)) = Len(q) - 1
      /\ \A i \in 1 .. Len(Tail(q)) : Tail(q)[i] = q[i + 1]
  BY HeadTailProperties
<1> QED  BY <1>1, <1>2

(* Nobody who has not connected has a queue. *)
LEMMA EmptyQueue ==
  ASSUME NEW q, q = <<>>
  PROVE  Len(q) = 0
OBVIOUS

-----------------------------------------------------------------------------
(* The clients. *)

(* A step that leaves the queues and the server's tables alone, and after which
   the newest client has the same place. *)
LEMMA PlaceKept ==
  ASSUME NewestInv,
         UNCHANGED <<gen, queue, ready, fds, memory, server, early, lastAvail,
                     desc, obj>>,
         gen # 0 => avail'[obj[gen]] >= avail[obj[gen]],
         gen # 0 => avail'[obj[gen]] \in Nat /\ avail[obj[gen]] \in Nat,
         lastAvail \in Nat,
         \A t \in 0 .. 14 : gen # 0 /\ TakenOfNewest(t) => TakenOfNewest(t)'
  PROVE  NewestInv'
<1> SUFFICES ASSUME gen # 0
             PROVE  \E t \in 0 .. 14 : Position(t)' /\ Progress(t)'
  BY DEF NewestInv
<1>1. PICK t \in 0 .. 14 : Position(t) /\ Progress(t)
  BY DEF NewestInv
<1>2. Position(t)'
  <2>1. \A g \in Clients : Lags(g, t)' <=> Lags(g, t)
    BY DEF Lags, InPass
  <2> QED  BY <1>1, <2>1 DEF Position, At
<1>3. Progress(t)'
  BY <1>1 DEF Progress
<1> QED  BY <1>2, <1>3

LEMMA StartClientKeeps ==
  ASSUME SessionInv, server = "up", StartClient
  PROVE  SessionInv'
<1>0. /\ MaxClients \in Nat \ {0} /\ Clients = 1 .. MaxClients
      /\ Objects = Clients
      /\ gen \in Nat /\ gen + 1 \in Clients
      /\ \A g \in Clients : g \in Int
      /\ \A k \in 1 .. Len(backlog) : backlog[k] \in Clients
      /\ gen # 0 => gen \in Clients
  BY SessionFacts DEF StartClient, Objects, Clients
<1> PICK n \in Clients : n = gen + 1
  BY <1>0
<1>1. PICK o \in Objects :
        /\ o = IF linked THEN obj[gen] ELSE n
        /\ obj' = [obj EXCEPT ![n] = o]
        /\ avail' = [avail EXCEPT ![o] = 0]
        /\ used' = [used EXCEPT ![o] = 0]
        /\ writer' = [writer EXCEPT ![o] = n]
  <2>1. linked => obj[gen] \in Objects
    BY <1>0 DEF SessionInv, ClientInv, TypeOK
  <2> QED  BY <1>0, <2>1 DEF StartClient
<1>2. /\ clientPc = "gone" /\ clientPc' = "connect" /\ step' = 1 /\ early' = FALSE
      /\ gen' = n /\ linked' = TRUE
      /\ UNCHANGED <<addr, wires, server, fds, ready, rings>>
  BY DEF StartClient
<1>3. o # NULL /\ obj'[n] = o /\ writer'[o] = n /\ avail'[o] = 0
      /\ \A g \in Clients : g # n => obj'[g] = obj[g]
  BY <1>0, <1>1 DEF SessionInv, TypeOK, NULL
<1>4. \A g \in Clients : Known(g) => Known(g)'
  BY <1>0, <1>2 DEF Known
<1>5. \A g \in Clients : g >= n => ~ Known(g)
  BY <1>0 DEF Known
<1>6. /\ queue[n] = <<>> /\ Len(queue[n]) = 0 /\ ~ reply[n] /\ ~ Listed(Sock(n))
  BY <1>0, <1>5, EmptyQueue DEF SessionInv, ClientInv, FdInv
<1>7. TypeOK'
  <2> USE DEF SessionInv, TypeOK, wires, rings
  <2>1. gen' \in 0 .. MaxClients /\ clientPc' \in {"gone", "connect", "send", "wait", "put", "kick"}
    BY <1>0, <1>2
  <2>2. step' \in 1 .. Len(Handshake) + 1
    BY <1>2, MsgPlaces
  <2>3. /\ obj' \in [Clients -> Objects \cup {NULL}]
        /\ used' \in [Objects -> Nat]
        /\ writer' \in [Objects -> Clients \cup {NULL}]
    BY <1>0, <1>1
  <2>4. avail' \in [Objects -> 0 .. MaxPackets]
    BY <1>1, SessionAssumption
  <2> QED  BY <1>2, <2>1, <2>2, <2>3, <2>4
<1>8. ClientInv'
  <2>1. \A g \in Clients : open[g] <=> g = gen' /\ clientPc' \notin {"gone", "connect"}
    BY <1>2 DEF SessionInv, ClientInv
  <2>2. \A g \in Clients : ~ Known(g)' => queue[g] = <<>> /\ ~ reply[g]
    BY <1>4 DEF SessionInv, ClientInv
  <2>3. memory <= n
    BY <1>0 DEF SessionInv, ClientInv, TypeOK, NULL
  <2>4. \A g \in Clients : g <= n => obj'[g] # NULL
    BY <1>0, <1>3 DEF SessionInv, ClientInv
  <2> QED  BY <1>0, <1>2, <1>3, <2>1, <2>2, <2>3, <2>4 DEF ClientInv, wires, rings
<1>9. FdInv'
  BY <1>0, <1>2, <1>4 DEF SessionInv, FdInv, Listed, wires
<1>10. PassInv' /\ InSequence'
  BY <1>2 DEF SessionInv, PassInv, InSequence, At, wires
<1>11. TableInv'
  BY <1>2, <1>6 DEF SessionInv, TableInv, Listed, wires
<1>12. NewestInv'
  <2>1. Position(0)'
    <3>1. At(n, 0)'
      <4>1. Len(queue'[n]) = 0
        BY <1>2, <1>6 DEF wires
      <4> QED  BY <4>1 DEF At
    <3>2. TakenOfNewest(0)'
      <4>1. Len(queue'[gen']) = 0
        BY <1>2, <1>6 DEF wires
      <4>2. Taken' = 0
        BY <1>2, <4>1 DEF Taken
      <4> QED  BY <4>2 DEF TakenOfNewest
    <3>3. \A g \in Clients : Lags(g, 0)'
      BY <1>2, <1>6 DEF Lags, InPass, Listed, SessionInv, TypeOK
    <3> QED  BY <1>2, <3>1, <3>2, <3>3 DEF Position
  <2>2. Progress(0)'
    BY DEF Progress
  <2> QED  BY <2>1, <2>2 DEF NewestInv
<1>13. FirstInv' /\ NoLostKickOnceStarted'
  <2>1. gen' # 0
    BY <1>0, <1>2
  <2>2. gen' = 1 => gen = 0 /\ n = 1
    BY <1>0, <1>2
  <2>3. gen = 0 => ~ linked
    BY DEF SessionInv, ClientInv
  <2>4. gen' = 1 => /\ o = 1 /\ memory = NULL /\ lastAvail = 0
                    /\ \A r \in Rings : desc[r] = NULL
    BY <1>1, <2>2, <2>3 DEF SessionInv, FirstInv
  <2> QED  BY <1>2, <1>3, <2>1, <2>2, <2>4
           DEF FirstInv, NoLostKickOnceStarted, rings, NULL
<1>14. HarmOnlyByEarlyKick' /\ FirstClientSafe'
  BY <1>2 DEF HarmOnlyByEarlyKick, FirstClientSafe
<1> QED
  BY <1>7, <1>8, <1>9, <1>10, <1>11, <1>12, <1>13, <1>14 DEF SessionInv

LEMMA ConnectKeeps ==
  ASSUME SessionInv, server = "up", Connect
  PROVE  SessionInv'
<1>0. /\ gen \in Clients /\ gen # 0 /\ gen \in Nat
      /\ \A g \in Clients : g \in Int
      /\ backlog \in Seq(Clients) /\ Len(backlog) \in Nat
      /\ \A k \in 1 .. Len(backlog) : backlog[k] \in Clients
  <2>1. /\ gen \in Clients /\ gen # 0 /\ gen \in Nat
        /\ \A g \in Clients : g \in Int
    BY SessionFacts DEF Connect, Running
  <2>2. backlog \in Seq(Clients)
    BY DEF SessionInv, TypeOK
  <2> QED  BY <2>1, <2>2, SessionFacts
<1>1. /\ clientPc = "connect" /\ clientPc' = "send"
      /\ backlog' = Append(backlog, gen)
      /\ open' = [open EXCEPT ![gen] = TRUE]
      /\ UNCHANGED <<gen, step, addr, obj, linked, avail, used, writer, queue,
                     reply, kicked, server, fds, ready, memory, desc, lastAvail,
                     lastUsed, early>>
  BY DEF Connect, shm, rings
<1>2. /\ Len(backlog') = Len(backlog) + 1 /\ backlog' # <<>>
      /\ backlog' \in Seq(Clients)
      /\ \A k \in 1 .. Len(backlog) : backlog'[k] = backlog[k]
      /\ backlog'[Len(backlog) + 1] = gen
      /\ \A k \in 1 .. Len(backlog) + 1 : k \in 1 .. Len(backlog) \/ k = Len(backlog) + 1
  BY <1>0, <1>1, AppendFacts
<1>3. /\ ~ Known(gen)
      /\ \A g \in Clients : Known(g)' <=> Known(g) \/ g = gen
  BY <1>0, <1>1 DEF Known
<1>4. /\ queue[gen] = <<>> /\ ~ reply[gen] /\ ~ Listed(Sock(gen))
      /\ \A k \in 1 .. Len(backlog) : backlog[k] # gen
      /\ step = 1
  BY <1>0, <1>1, <1>3 DEF SessionInv, ClientInv, FdInv
<1>5. TypeOK'
  BY <1>0, <1>1, <1>2 DEF SessionInv, TypeOK
<1>6. ClientInv'
  <2>1. \A g \in Clients : open'[g] <=> g = gen
    BY <1>0, <1>1 DEF SessionInv, ClientInv, TypeOK
  <2> QED  BY <1>0, <1>1, <1>3, <1>4, <2>1 DEF SessionInv, ClientInv
<1>7. FdInv'
  <2>1. \A g : Listed(Sock(g))' <=> Listed(Sock(g))
    BY <1>1, ListedKept
  <2>2. ASSUME NEW k \in 1 .. Len(backlog'), NEW g \in Clients, backlog'[k] = g
        PROVE  Known(g)' /\ ~ Listed(Sock(g))'
    <3>1. g = gen \/ (k \in 1 .. Len(backlog) /\ backlog[k] = g)
      BY <1>2, <2>2
    <3>2. (Known(g) \/ g = gen) /\ ~ Listed(Sock(g))
      BY <1>4, <3>1 DEF SessionInv, FdInv
    <3> QED  BY <1>3, <2>1, <3>2
  <2>3. \A k, l \in 1 .. Len(backlog') : backlog'[k] = backlog'[l] => k = l
    BY <1>0, <1>2, <1>4 DEF SessionInv, FdInv
  <2>4. \A g \in Clients : Listed(Sock(g)) => Known(g)'
    BY <1>3 DEF SessionInv, FdInv
  <2>5. \A g \in Clients : Listed(Sock(g))' => Known(g)'
    BY <2>1, <2>4
  <2> QED  BY <1>1, <2>2, <2>3, <2>5 DEF SessionInv, FdInv
<1>8. PassInv'
  <2>1. \A i \in ready : fds[i] # Sock(gen)
    BY <1>4 DEF SessionInv, TypeOK, Listed
  <2>2. \A g \in Clients : g # gen => open'[g] = open[g]
    BY <1>0, <1>1 DEF SessionInv, TypeOK
  <2> QED  BY <1>1, <1>2, <2>1, <2>2 DEF SessionInv, PassInv
<1>9. TableInv' /\ InSequence'
  BY <1>1, <1>4 DEF SessionInv, TableInv, InSequence, At, Listed
<1>10. NewestInv'
  <2>1. \A t \in 0 .. 14 : TakenOfNewest(t) => TakenOfNewest(t)'
    BY <1>1 DEF TakenOfNewest, Taken, Running
  <2>2. avail[obj[gen]] \in Nat /\ lastAvail \in Nat
    BY <1>0, SessionAssumption DEF SessionInv, TypeOK, ClientInv
  <2> QED  BY <1>1, <2>1, <2>2, PlaceKept DEF SessionInv
<1>11. /\ HarmOnlyByEarlyKick' /\ FirstInv' /\ FirstClientSafe'
       /\ NoLostKickOnceStarted'
  BY <1>1 DEF SessionInv, HarmOnlyByEarlyKick, FirstInv, FirstClientSafe,
              NoLostKickOnceStarted, Running
<1> QED
  BY <1>5, <1>6, <1>7, <1>8, <1>9, <1>10, <1>11 DEF SessionInv

(* What the object of a client holds is a number. *)
LEMMA AvailOfClient ==
  ASSUME SessionInv, NEW g \in Clients, g <= gen
  PROVE  /\ obj[g] \in Objects
         /\ avail[obj[g]] \in Nat /\ avail[obj[g]] <= MaxPackets
         /\ used[obj[g]] \in Nat
         /\ lastAvail \in Nat /\ lastUsed \in Nat /\ MaxPackets \in Nat
BY SessionAssumption DEF SessionInv, TypeOK, ClientInv

(* Sending: one message more behind the client's queue. *)
LEMMA SendKeeps ==
  ASSUME SessionInv, server = "up", Send
  PROVE  SessionInv'
<1>0. /\ gen \in Clients /\ gen # 0 /\ gen \in Nat /\ Running
      /\ queue[gen] \in Seq(Messages) /\ Len(queue[gen]) \in Nat
      /\ queue \in [Clients -> Seq(Messages)]
      /\ step \in 1 .. 13
  BY SessionFacts DEF Send, Running, SessionInv, InSequence, ClientInv
<1> DEFINE n == Len(queue[gen])
<1>1. /\ clientPc = "send"
      /\ queue' = [queue EXCEPT ![gen] = Append(queue[gen], Handshake[step])]
      /\ \/ step = 2 /\ clientPc' = "wait" /\ step' = step
         \/ /\ step # 2
            /\ step' = step + 1
            /\ clientPc' = IF step = 13 THEN "put" ELSE "send"
      /\ UNCHANGED <<gen, addr, obj, linked, avail, used, writer, backlog, open,
                     reply, kicked, server, fds, ready, memory, desc, lastAvail,
                     lastUsed, early>>
  BY <1>0, MsgPlaces DEF Send, shm, rings
<1>2. Handshake[step] = Msgs[step] /\ Handshake[step] \in Messages
  BY <1>0, MsgPlaces DEF Messages
<1>3. /\ queue'[gen] = Append(queue[gen], Msgs[step])
      /\ \A g \in Clients : g # gen => queue'[g] = queue[g]
      /\ queue' \in [Clients -> Seq(Messages)]
  BY <1>0, <1>1, <1>2, AppendFacts
<1>4. /\ queue'[gen] # <<>> /\ Len(queue'[gen]) = n + 1
      /\ \A i \in 1 .. n : queue'[gen][i] = queue[gen][i]
      /\ queue'[gen][n + 1] = Msgs[step]
      /\ \A i \in 1 .. n + 1 : i \in 1 .. n \/ i = n + 1
  BY <1>0, <1>2, <1>3, AppendFacts
<1>5. /\ Taken \in 0 .. 14 /\ Position(Taken) /\ Progress(Taken)
      /\ Taken = step - 1 - n
  BY <1>0, <1>1, PlaceOfRunning, SessionFacts
<1>6. Taken' = Taken
  BY <1>0, <1>1, <1>4, <1>5 DEF Taken
<1>7. \A g \in Clients : Known(g)' <=> Known(g)
  BY <1>0, <1>1 DEF Known
<1>8. At(gen, Taken)'
  <2> DEFINE u == Taken
  <2>1. u \in 0 .. 14 /\ u + n + 1 = step /\ At(gen, u)
    BY <1>0, <1>5 DEF Position
  <2> HIDE DEF u
  <2>2. \A i \in 1 .. n + 1 : queue'[gen][i] = Msgs[u + i]
    BY <1>0, <1>4, <2>1 DEF At
  <2> QED  BY <1>0, <1>1, <1>4, <1>6, <2>1, <2>2 DEF At, u
<1>9. TypeOK'
  <2>1. \A g \in Clients : Len(queue'[g]) <= 14
    <3>1. Len(queue'[gen]) <= 14
      <4>1. n \in Nat /\ step \in 1 .. 13 /\ step - 1 - n >= 0
        BY <1>0, <1>5
      <4>2. n + 1 <= 13
        BY <4>1
      <4> QED  BY <1>4, <4>1, <4>2
    <3>2. \A g \in Clients : Len(queue[g]) <= 14
      BY HandshakeLength DEF SessionInv, TypeOK
    <3> QED  BY <1>3, <3>1, <3>2
  <2>2. step' \in 1 .. 14
    BY <1>0, <1>1
  <2>3. clientPc' \in {"wait", "put", "send"}
    BY <1>1
  <2> QED  BY <1>1, <2>1, <2>2, <2>3, HandshakeLength DEF SessionInv, TypeOK
<1>10. ClientInv'
  <2>1. /\ clientPc' = "send" => step' <= 13
        /\ clientPc' = "wait" => step' = 2
        /\ clientPc' \in {"put", "kick"} => step' = 14
        /\ clientPc' \in {"wait", "put", "send"}
    BY <1>0, <1>1
  <2>2. \A g \in Clients : ~ Known(g)' => queue'[g] = <<>> /\ ~ reply'[g]
    BY <1>0, <1>1, <1>3, <1>7 DEF SessionInv, ClientInv, Known
  <2> QED  BY <1>0, <1>1, <2>1, <2>2 DEF SessionInv, ClientInv
<1>11. FdInv'
  <2>1. \A g : Listed(Sock(g))' <=> Listed(Sock(g))
    BY <1>1, ListedKept
  <2> QED  BY <1>1, <1>7, <2>1 DEF SessionInv, FdInv
<1>12. PassInv'
  BY <1>1, <1>3, <1>4 DEF SessionInv, PassInv
<1>13. TableInv'
  <2>1. reply[gen] \/ step' > 2 => Taken >= 2 /\ Listed(Sock(gen))
    <3>1. step' > 2 => step > 2
      BY <1>0, <1>1
    <3> QED  BY <1>0, <3>1 DEF SessionInv, TableInv
  <2>2. ASSUME NEW g \in Clients, NEW i \in 1 .. Len(queue'[g]),
               queue'[g][i] = MemMsg
        PROVE  i = 1 /\ Listed(Sock(g))
    <3>1. CASE g # gen \/ i \in 1 .. n
      BY <1>3, <1>4, <2>2, <3>1 DEF SessionInv, TableInv
    <3>2. CASE g = gen /\ i = n + 1
      <4>1. step = 3
        <5>1. Msgs[step] = MemMsg
          BY <1>4, <2>2, <3>2
        <5>2. step \in 1 .. 14
          BY <1>0
        <5> QED  BY <5>1, <5>2, MemPlace
      <4>2. Taken >= 2 /\ Listed(Sock(gen))
        BY <1>0, <4>1 DEF SessionInv, TableInv
      <4> QED  BY <1>0, <1>5, <3>2, <4>1, <4>2
    <3> QED  BY <1>4, <3>1, <3>2
  <2> QED  BY <1>1, <1>6, <2>1, <2>2 DEF TableInv, Listed
<1>14. InSequence'
  <2>1. \A g \in Clients : g # gen => \E t \in 0 .. 14 : At(g, t)'
    BY <1>3 DEF SessionInv, InSequence, At
  <2>2. \E t \in 0 .. 14 : At(gen, t)'
    BY <1>5, <1>6, <1>8
  <2> QED  BY <1>1, <1>3, <2>1, <2>2 DEF InSequence
<1>15. NewestInv'
  <2>1. ASSUME NEW g \in Clients, g < gen
        PROVE  Lags(g, Taken)'
    <3>1. g # gen /\ Lags(g, Taken)
      BY <1>0, <1>5, <2>1 DEF Position, Clients
    <3> QED  BY <1>1, <1>3, <1>6, <3>1 DEF Lags, InPass
  <2>2. Position(Taken)'
    BY <1>1, <1>8, <2>1 DEF Position, TakenOfNewest
  <2>3. Progress(Taken)'
    BY <1>1, <1>5, <1>6 DEF Progress
  <2> QED  BY <1>5, <1>6, <2>2, <2>3 DEF NewestInv
<1>16. /\ HarmOnlyByEarlyKick' /\ FirstInv' /\ FirstClientSafe'
       /\ NoLostKickOnceStarted'
  BY <1>0, <1>1 DEF SessionInv, HarmOnlyByEarlyKick, FirstInv, FirstClientSafe,
              NoLostKickOnceStarted
<1> QED
  BY <1>9, <1>10, <1>11, <1>12, <1>13, <1>14, <1>15, <1>16 DEF SessionInv

(* The fd list and the listen queue stay, and whoever had connected has. *)
LEMMA FdKept ==
  ASSUME FdInv, UNCHANGED <<fds, backlog>>,
         \A g \in Clients : Known(g) => Known(g)'
  PROVE  FdInv'
<1>1. \A g : Listed(Sock(g))' <=> Listed(Sock(g))
  BY ListedKept
<1> QED  BY <1>1 DEF FdInv

LEMMA GetReplyKeeps ==
  ASSUME SessionInv, server = "up", GetReply
  PROVE  SessionInv'
<1>0. /\ gen \in Clients /\ gen # 0 /\ gen \in Nat /\ Running
      /\ Len(queue[gen]) \in Nat
  BY SessionFacts DEF GetReply, Running
<1>1. /\ clientPc = "wait" /\ clientPc' = "send" /\ reply[gen]
      /\ reply' = [reply EXCEPT ![gen] = FALSE]
      /\ step' = step + 1
      /\ UNCHANGED <<gen, addr, obj, linked, avail, used, writer, backlog, queue,
                     open, kicked, server, fds, ready, memory, desc, lastAvail,
                     lastUsed, early>>
  BY DEF GetReply, shm, rings
<1>2. step = 2 /\ step' = 3
  BY <1>1 DEF SessionInv, ClientInv
<1>3. Taken' = Taken /\ Taken >= 2 /\ Listed(Sock(gen))
  BY <1>0, <1>1, <1>2 DEF Taken, SessionInv, TableInv
<1>4. \A g \in Clients : Known(g)' <=> Known(g)
  BY <1>0, <1>1 DEF Known
<1>5. \A g \in Clients : reply'[g] => reply[g]
  BY <1>0, <1>1 DEF SessionInv, TypeOK
<1>6. TypeOK'
  <2>1. step' \in 1 .. 14 /\ clientPc' \in {"send"}
    BY <1>1, <1>2
  <2>2. reply' \in [Clients -> BOOLEAN]
    BY <1>1 DEF SessionInv, TypeOK
  <2> QED  BY <1>1, <2>1, <2>2, HandshakeLength DEF SessionInv, TypeOK
<1>7. ClientInv'
  BY <1>1, <1>2, <1>4, <1>5 DEF SessionInv, ClientInv
<1>8. FdInv'
  BY <1>1, <1>4, FdKept DEF SessionInv
<1>9. PassInv' /\ InSequence'
  BY <1>1 DEF SessionInv, PassInv, InSequence, At
<1>10. TableInv'
  BY <1>1, <1>3 DEF SessionInv, TableInv, Listed
<1>11. NewestInv'
  <2>1. \A t \in 0 .. 14 : TakenOfNewest(t) => TakenOfNewest(t)'
    BY <1>0, <1>3 DEF TakenOfNewest
  <2> QED  BY <1>0, <1>1, <2>1, PlaceKept, AvailOfClient DEF SessionInv
<1>12. /\ HarmOnlyByEarlyKick' /\ FirstInv' /\ FirstClientSafe'
       /\ NoLostKickOnceStarted'
  BY <1>0, <1>1 DEF SessionInv, HarmOnlyByEarlyKick, FirstInv, FirstClientSafe,
                    NoLostKickOnceStarted
<1> QED
  BY <1>6, <1>7, <1>8, <1>9, <1>10, <1>11, <1>12 DEF SessionInv

LEMMA PutKeeps ==
  ASSUME SessionInv, server = "up", Put
  PROVE  SessionInv'
<1>0. /\ gen \in Clients /\ gen # 0 /\ gen \in Nat /\ Running
      /\ obj[gen] \in Objects /\ avail[obj[gen]] \in Nat
      /\ lastAvail \in Nat /\ MaxPackets \in Nat
  BY SessionFacts, AvailOfClient DEF Put, Running
<1>1. /\ clientPc = "put" /\ clientPc' = "kick"
      /\ avail[obj[gen]] < MaxPackets
      /\ avail' = [avail EXCEPT ![obj[gen]] = avail[obj[gen]] + 1]
      /\ UNCHANGED <<gen, step, addr, obj, linked, used, writer, backlog, queue,
                     open, reply, kicked, server, fds, ready, memory, desc,
                     lastAvail, lastUsed, early>>
  BY DEF Put, wires, rings
<1>2. avail[obj[gen]] + 1 \in 0 .. MaxPackets
  BY <1>0, <1>1
<1>3. TypeOK'
  BY <1>0, <1>1, <1>2 DEF SessionInv, TypeOK
<1>4. avail'[obj[gen]] = avail[obj[gen]] + 1
  BY <1>0, <1>1 DEF SessionInv, TypeOK
<1>5. \A g \in Clients : Known(g)' <=> Known(g)
  BY <1>0, <1>1 DEF Known
<1>6. Taken' = Taken
  BY <1>1 DEF Taken
<1>7. ClientInv'
  BY <1>1, <1>5 DEF SessionInv, ClientInv
<1>8. FdInv'
  BY <1>1, <1>5, FdKept DEF SessionInv
<1>9. PassInv' /\ InSequence'
  BY <1>1 DEF SessionInv, PassInv, InSequence, At
<1>10. TableInv'
  BY <1>0, <1>1, <1>6 DEF SessionInv, TableInv, Listed
<1>11. NewestInv'
  <2>1. \A t \in 0 .. 14 : TakenOfNewest(t) => TakenOfNewest(t)'
    BY <1>0, <1>6 DEF TakenOfNewest
  <2> QED  BY <1>0, <1>1, <1>4, <2>1, PlaceKept DEF SessionInv
<1>12. FirstInv'
  <2>1. gen = 1 => avail'[1] >= avail[1] /\ avail'[1] \in Nat /\ avail[1] \in Nat
    BY <1>0, <1>4 DEF SessionInv, FirstInv
  <2> QED  BY <1>0, <1>1, <2>1 DEF SessionInv, FirstInv
<1>13. /\ HarmOnlyByEarlyKick' /\ FirstClientSafe' /\ NoLostKickOnceStarted'
  BY <1>1 DEF SessionInv, HarmOnlyByEarlyKick, FirstClientSafe,
              NoLostKickOnceStarted
<1> QED
  BY <1>3, <1>7, <1>8, <1>9, <1>10, <1>11, <1>12, <1>13 DEF SessionInv

LEMMA KickKeeps ==
  ASSUME SessionInv, server = "up", Kick
  PROVE  SessionInv'
<1>0. gen \in Clients /\ gen # 0 /\ gen \in Nat /\ Running
  BY SessionFacts DEF Kick, Running
<1>1. /\ clientPc = "kick" /\ clientPc' = "put"
      /\ kicked' = [kicked EXCEPT ![gen] = TRUE]
      /\ UNCHANGED <<gen, step, addr, obj, linked, avail, used, writer, backlog,
                     queue, open, reply, server, fds, ready, memory, desc,
                     lastAvail, lastUsed, early>>
  BY DEF Kick, shm, rings
<1>2. TypeOK' /\ kicked'[gen]
  BY <1>0, <1>1 DEF SessionInv, TypeOK
<1>5. \A g \in Clients : Known(g)' <=> Known(g)
  BY <1>0, <1>1 DEF Known
<1>6. Taken' = Taken
  BY <1>1 DEF Taken
<1>7. ClientInv'
  BY <1>1, <1>5 DEF SessionInv, ClientInv
<1>8. FdInv'
  BY <1>1, <1>5, FdKept DEF SessionInv
<1>9. PassInv' /\ InSequence'
  BY <1>1 DEF SessionInv, PassInv, InSequence, At
<1>10. TableInv'
  BY <1>0, <1>1, <1>6 DEF SessionInv, TableInv, Listed
<1>11. NewestInv'
  <2>1. \A t \in 0 .. 14 : TakenOfNewest(t) => TakenOfNewest(t)'
    BY <1>0, <1>6 DEF TakenOfNewest
  <2> QED  BY <1>0, <1>1, <2>1, PlaceKept, AvailOfClient DEF SessionInv
<1>12. /\ HarmOnlyByEarlyKick' /\ FirstInv' /\ FirstClientSafe'
       /\ NoLostKickOnceStarted'
  BY <1>1, <1>2 DEF SessionInv, HarmOnlyByEarlyKick, FirstInv, FirstClientSafe,
              NoLostKickOnceStarted
<1> QED
  BY <1>2, <1>7, <1>8, <1>9, <1>10, <1>11, <1>12 DEF SessionInv

(* Leaving: RESET_OWNER is the last message; after it Taken is one behind. *)
LEMMA ExitKeeps ==
  ASSUME SessionInv, server = "up", Exit
  PROVE  SessionInv'
<1> DEFINE n == Len(queue[gen])
<1>0. /\ gen \in Clients /\ gen # 0 /\ gen \in Nat /\ Running
      /\ queue[gen] \in Seq(Messages) /\ n \in Nat
      /\ queue \in [Clients -> Seq(Messages)]
      /\ step = 14
  BY SessionFacts DEF Exit, Running, SessionInv, InSequence, ClientInv
<1>1. /\ clientPc = "put" /\ clientPc' = "gone" /\ linked' = FALSE
      /\ queue' = [queue EXCEPT ![gen] = Append(queue[gen], <<"reset", "-">>)]
      /\ open' = [open EXCEPT ![gen] = FALSE]
      /\ UNCHANGED <<gen, step, addr, obj, avail, used, writer, backlog,
                     reply, kicked, server, fds, ready, memory, desc, lastAvail,
                     lastUsed, early>>
  BY DEF Exit, shm, rings
<1>2. <<"reset", "-">> = Msgs[14] /\ <<"reset", "-">> \in Messages
  BY MsgPlaces DEF Messages
<1>3. /\ queue'[gen] = Append(queue[gen], Msgs[14])
      /\ \A g \in Clients : g # gen => queue'[g] = queue[g]
      /\ queue' \in [Clients -> Seq(Messages)]
  BY <1>0, <1>1, <1>2, AppendFacts
<1>4. /\ queue'[gen] # <<>> /\ Len(queue'[gen]) = n + 1
      /\ \A i \in 1 .. n : queue'[gen][i] = queue[gen][i]
      /\ queue'[gen][n + 1] = Msgs[14]
      /\ \A i \in 1 .. n + 1 : i \in 1 .. n \/ i = n + 1
  BY <1>0, <1>2, <1>3, AppendFacts
<1>5. PICK t \in 0 .. 14 : t = Taken /\ Position(t) /\ Progress(t)
                         /\ t = 13 - n /\ n <= 13
  <2>1. Taken \in 0 .. 14 /\ Position(Taken) /\ Progress(Taken)
    BY <1>0, PlaceOfRunning
  <2>2. Taken = 13 - n
    BY <1>0, <1>1 DEF Taken
  <2>3. n <= 13
    <3>1. Taken \in 0 .. 14
      BY <2>1
    <3>2. n \in Nat
      BY <1>0
    <3>3. 13 - n \in 0 .. 14
      BY <2>2, <3>1, Zenon
    <3> HIDE DEF n
    <3> QED  BY <3>2, <3>3
  <2> QED  BY <2>1, <2>2, <2>3
<1>6. Taken' = t - 1
  BY <1>0, <1>1, <1>4, <1>5 DEF Taken
<1>7. \A g \in Clients : Known(g)' <=> Known(g)
  BY <1>0, <1>1 DEF Known
<1>8. At(gen, t)'
  <2>1. t + n = 13 /\ At(gen, t)
    BY <1>0, <1>5 DEF Position
  <2>2. ASSUME NEW i \in 1 .. n + 1
        PROVE  queue'[gen][i] = Msgs[t + i]
    <3>1. CASE i \in 1 .. n
      BY <1>4, <2>1, <3>1 DEF At
    <3>2. CASE i = n + 1
      <4>1. t + i = 14
        BY <1>0, <2>1, <3>2
      <4> QED  BY <1>4, <3>2, <4>1
    <3> QED  BY <1>4, <3>1, <3>2
  <2> QED  BY <1>0, <1>1, <1>4, <2>1, <2>2 DEF At
<1>9. TypeOK'
  <2>1. \A g \in Clients : Len(queue'[g]) <= 14
    <3>1. Len(queue'[gen]) <= 14
      <4>1. n <= 13
        BY <1>0, <1>5
      <4> QED  BY <1>0, <1>4, <4>1
    <3>2. \A g \in Clients : Len(queue[g]) <= 14
      BY HandshakeLength DEF SessionInv, TypeOK
    <3> QED  BY <1>3, <3>1, <3>2
  <2>2. open' \in [Clients -> BOOLEAN] /\ linked' \in BOOLEAN
    BY <1>1 DEF SessionInv, TypeOK
  <2>3. clientPc' \in {"gone"}
    BY <1>1
  <2> QED  BY <1>1, <2>1, <2>2, <2>3, HandshakeLength DEF SessionInv, TypeOK
<1>10. \A g \in Clients : ~ open'[g]
  BY <1>0, <1>1 DEF SessionInv, ClientInv, TypeOK
<1>11. ClientInv'
  <2>1. \A g \in Clients : ~ Known(g)' => queue'[g] = <<>> /\ ~ reply'[g]
    BY <1>0, <1>1, <1>3, <1>7 DEF SessionInv, ClientInv, Known
  <2> QED  BY <1>0, <1>1, <1>10, <2>1 DEF SessionInv, ClientInv
<1>12. FdInv'
  BY <1>1, <1>7, FdKept DEF SessionInv
<1>13. PassInv'
  BY <1>1, <1>10 DEF SessionInv, PassInv
<1>14. TableInv'
  <2>1. ASSUME NEW g \in Clients, NEW i \in 1 .. Len(queue'[g]),
               queue'[g][i] = MemMsg
        PROVE  i = 1 /\ Listed(Sock(g))
    <3>1. CASE g # gen \/ i \in 1 .. n
      BY <1>3, <1>4, <2>1, <3>1 DEF SessionInv, TableInv
    <3>2. CASE g = gen /\ i = n + 1
      BY <1>4, <2>1, <3>2, MemPlace
    <3> QED  BY <1>4, <3>1, <3>2
  <2> QED  BY <1>1, <2>1 DEF TableInv, Listed, Running
<1>15. InSequence'
  <2>1. \A g \in Clients : g # gen => \E u \in 0 .. 14 : At(g, u)'
    BY <1>3 DEF SessionInv, InSequence, At
  <2>2. \E u \in 0 .. 14 : At(gen, u)'
    BY <1>8
  <2> QED  BY <1>1, <1>3, <2>1, <2>2 DEF InSequence
<1>16. NewestInv'
  <2>1. ASSUME NEW g \in Clients, g < gen
        PROVE  Lags(g, t)'
    <3>1. g # gen /\ Lags(g, t)
      BY <1>0, <1>5, <2>1 DEF Position, Clients
    <3> QED  BY <1>1, <1>3, <3>1 DEF Lags, InPass
  <2>2. TakenOfNewest(t)'
    BY <1>1, <1>6 DEF TakenOfNewest, Running
  <2>3. Position(t)'
    BY <1>1, <1>8, <2>1, <2>2 DEF Position
  <2>4. Progress(t)'
    BY <1>1, <1>5 DEF Progress
  <2> QED  BY <2>3, <2>4 DEF NewestInv
<1>17. /\ HarmOnlyByEarlyKick' /\ FirstInv' /\ FirstClientSafe'
       /\ NoLostKickOnceStarted'
  BY <1>0, <1>1 DEF SessionInv, HarmOnlyByEarlyKick, FirstInv, FirstClientSafe,
              NoLostKickOnceStarted, Running
<1> QED
  BY <1>9, <1>11, <1>12, <1>13, <1>14, <1>15, <1>16, <1>17 DEF SessionInv

(* Being killed: what is on its way stays. *)
LEMMA KilledKeeps ==
  ASSUME SessionInv, server = "up", Killed
  PROVE  SessionInv'
<1>0. gen \in Clients /\ gen # 0 /\ gen \in Nat /\ Running
  BY SessionFacts DEF Killed, Running
<1>1. /\ clientPc' = "gone"
      /\ open' = [open EXCEPT ![gen] = FALSE]
      /\ UNCHANGED <<gen, step, addr, obj, linked, avail, used, writer, backlog,
                     queue, reply, kicked, server, fds, ready, memory, desc,
                     lastAvail, lastUsed, early>>
  BY DEF Killed, shm, rings
<1>2. TypeOK'
  BY <1>1 DEF SessionInv, TypeOK
<1>3. \A g \in Clients : Known(g) => Known(g)'
  BY <1>0, <1>1 DEF Known
<1>4. \A g \in Clients : ~ open'[g]
  BY <1>0, <1>1 DEF SessionInv, ClientInv, TypeOK
<1>5. ClientInv'
  BY <1>0, <1>1, <1>3, <1>4 DEF SessionInv, ClientInv
<1>6. FdInv'
  BY <1>1, <1>3, FdKept DEF SessionInv
<1>7. PassInv' /\ InSequence'
  BY <1>1, <1>4 DEF SessionInv, PassInv, InSequence, At
<1>8. TableInv'
  BY <1>1 DEF SessionInv, TableInv, Listed, Running
<1>9. NewestInv'
  <2>1. Taken' = Taken \/ Taken' = Taken - 1
    BY <1>1, SessionFacts DEF Taken
  <2>2. \A t \in 0 .. 14 : TakenOfNewest(t) => TakenOfNewest(t)'
    BY <1>0, <1>1, <2>1, SessionFacts DEF TakenOfNewest, Running
  <2> QED  BY <1>0, <1>1, <2>2, PlaceKept, AvailOfClient DEF SessionInv
<1>10. /\ HarmOnlyByEarlyKick' /\ FirstInv' /\ FirstClientSafe'
       /\ NoLostKickOnceStarted'
  BY <1>1 DEF SessionInv, HarmOnlyByEarlyKick, FirstInv, FirstClientSafe,
              NoLostKickOnceStarted, Running
<1> QED
  BY <1>2, <1>5, <1>6, <1>7, <1>8, <1>9, <1>10 DEF SessionInv

-----------------------------------------------------------------------------
(* The server's loop. *)

(* A handler is called for one slot of this pass. *)
LEMMA HandlingSlot ==
  ASSUME SessionInv, NEW fd, Handling(fd)
  PROVE  /\ server = "up"
         /\ \E i \in ready : /\ i \in Slots
                             /\ fds[i] = fd
                             /\ ready' = ready \ {i}
<1>1. ready \in SUBSET (1 .. FdListSize) /\ FdListSize \in Nat /\ ready # {}
  BY SessionAssumption DEF SessionInv, TypeOK, Slots, Handling
<1>2. Min(ready) \in ready
  BY <1>1, MinIsIn
<1> QED  BY <1>1, <1>2 DEF Handling, Slots

(* add_fd_list takes a free slot, or none. *)
LEMMA WithFdSlot ==
  ASSUME SessionInv, NEW fd
  PROVE  \/ WithFd(fd) = fds /\ \A f \in Slots : fds[f] # Free
         \/ \E f \in Slots : fds[f] = Free /\ WithFd(fd) = [fds EXCEPT ![f] = fd]
<1> DEFINE free == {i \in Slots : fds[i] = Free}
<1>1. free \in SUBSET (1 .. FdListSize) /\ FdListSize \in Nat
  BY SessionAssumption DEF Slots
<1>2. CASE free = {}
  BY <1>2 DEF WithFd
<1>3. CASE free # {}
  <2>1. Min(free) \in free
    BY <1>1, <1>3, MinIsIn
  <2> QED  BY <1>3, <2>1 DEF WithFd
<1> QED  BY <1>2, <1>3

(* At most an eventfd has come to the list. *)
FdsKept ==
  /\ fds' \in [Slots -> Fds]
  /\ \A i \in Slots : \/ fds'[i] = fds[i]
                      \/ fds[i] = Free /\ \E g \in Clients : fds'[i] = Kickfd(g)

LEMMA KickListKept ==
  ASSUME SessionInv, NEW g \in Clients, fds' = WithFd(Kickfd(g)) \/ fds' = fds
  PROVE  FdsKept
<1>1. fds \in [Slots -> Fds] /\ Kickfd(g) \in Fds
  BY FdTypes DEF SessionInv, TypeOK
<1>2. CASE fds' = fds
  BY <1>1, <1>2 DEF FdsKept
<1>3. ASSUME NEW f \in Slots, fds[f] = Free, fds' = [fds EXCEPT ![f] = Kickfd(g)]
      PROVE  FdsKept
  BY <1>1, <1>3 DEF FdsKept
<1> QED  BY <1>2, <1>3, WithFdSlot

(* An eventfd more takes nothing away. *)
LEMMA SocketsKept ==
  ASSUME FdsKept
  PROVE  /\ \A i \in Slots, g \in Clients : fds'[i] = Sock(g) <=> fds[i] = Sock(g)
         /\ \A i \in Slots : fds'[i] = Listen <=> fds[i] = Listen
         /\ \A i \in Slots : fds'[i] = Free => fds[i] = Free
         /\ \A g \in Clients : Listed(Sock(g))' <=> Listed(Sock(g))
<1>1. /\ \A i \in Slots, g \in Clients : fds'[i] = Sock(g) <=> fds[i] = Sock(g)
      /\ \A i \in Slots : fds'[i] = Listen <=> fds[i] = Listen
      /\ \A i \in Slots : fds'[i] = Free => fds[i] = Free
  BY FdKinds DEF FdsKept
<1>2. \A g \in Clients : Listed(Sock(g))' <=> Listed(Sock(g))
  BY <1>1 DEF Listed
<1> QED  BY <1>1, <1>2

(* A message is taken from the head of a queue; only the newest client's count in
   Taken. *)
LEMMA Received ==
  ASSUME SessionInv, NEW g \in Clients, NEW m, Receives(g, m),
         UNCHANGED <<gen, clientPc, step>>
  PROVE  /\ Len(queue[g]) \in Nat \ {0} /\ m = queue[g][1]
         /\ queue'[g] \in Seq(Messages) /\ Len(queue'[g]) = Len(queue[g]) - 1
         /\ \A i \in 1 .. Len(queue[g]) - 1 :
              queue'[g][i] = queue[g][i + 1] /\ i + 1 \in 1 .. Len(queue[g])
         /\ \A h \in Clients : h # g => queue'[h] = queue[h]
         /\ queue' \in [Clients -> Seq(Messages)]
         /\ Listed(Sock(g)) /\ Known(g) /\ g <= gen /\ gen # 0 /\ gen \in Clients
         /\ Taken \in Int
         /\ g = gen => Taken' = Taken + 1
         /\ g # gen => Taken' = Taken
<1>0. /\ queue \in [Clients -> Seq(Messages)]
      /\ queue[g] \in Seq(Messages) /\ queue[g] # <<>>
      /\ m = Head(queue[g]) /\ queue' = [queue EXCEPT ![g] = Tail(queue[g])]
  BY DEF SessionInv, InSequence, Receives
<1> DEFINE n == Len(queue[g])
<1>1. /\ n \in Nat \ {0} /\ m = queue[g][1]
      /\ queue'[g] \in Seq(Messages) /\ Len(queue'[g]) = n - 1
      /\ \A i \in 1 .. n - 1 : queue'[g][i] = queue[g][i + 1] /\ i + 1 \in 1 .. n
      /\ \A h \in Clients : h # g => queue'[h] = queue[h]
      /\ queue' \in [Clients -> Seq(Messages)]
  BY <1>0, TailFacts
<1>2. Listed(Sock(g)) /\ Known(g) /\ g <= gen /\ gen # 0 /\ gen \in Clients
  <2>1. Listed(Sock(g))
    BY HandlingSlot DEF Receives, Listed
  <2>2. Known(g)
    BY <2>1 DEF SessionInv, FdInv
  <2> QED  BY <2>1, <2>2, SessionFacts DEF Known
<1>3. Taken \in Int
  BY <1>2, SessionFacts
<1>4. /\ g = gen => Taken' = Taken + 1
      /\ g # gen => Taken' = Taken
  <2>1. step \in Int /\ Len(queue[gen]) \in Int
    BY <1>2, SessionFacts
  <2>2. gen' = gen /\ clientPc' = clientPc /\ step' = step
    OBVIOUS
  <2>3. /\ g = gen => Len(queue'[gen]) = Len(queue[gen]) - 1
        /\ g # gen => queue'[gen] = queue[gen]
    BY <1>1, <1>2
  <2>4. CASE g = gen
    <3>1. Len(queue'[gen']) = Len(queue[gen]) - 1
      BY <2>2, <2>3, <2>4
    <3> QED  BY <2>1, <2>2, <2>4, <3>1 DEF Taken
  <2>5. CASE g # gen
    <3>1. Len(queue'[gen']) = Len(queue[gen])
      BY <2>2, <2>3, <2>5
    <3> QED  BY <2>1, <2>2, <2>5, <3>1 DEF Taken
  <2> QED  BY <2>4, <2>5
<1> QED  BY <1>1, <1>2, <1>3, <1>4

(* The place of the newest client after the server took a message of g: one
   further, if that is the newest, and where it was, if it is a predecessor. *)
Advanced(g, m) ==
  \E t, u \in 0 .. 14 :
    /\ Position(t) /\ Progress(t)
    /\ Position(u)'
    /\ g = gen => u = t + 1 /\ m = Msgs[u]
    /\ g # gen => u = t /\ g < gen /\ (m = MemMsg => t <= 1)

(* What every message handler keeps: it takes the head of a queue, and may reply
   to GET_FEATURES and add an eventfd. *)
LEMMA ReceivingKeeps ==
  ASSUME SessionInv, NEW g \in Clients, NEW m, Receives(g, m),
         UNCHANGED <<gen, clientPc, step, addr, obj, linked, avail, writer,
                     backlog, open>>,
         FdsKept, memory' = memory \/ memory' = g,
         \/ reply' = reply
         \/ reply' = [reply EXCEPT ![g] = TRUE] /\ m = <<"features", "-">>
  PROVE  /\ ClientInv' /\ FdInv' /\ PassInv' /\ TableInv' /\ InSequence'
         /\ ready' \in SUBSET Slots
         /\ \A h \in Clients : Len(queue'[h]) <= 14
         /\ reply' \in [Clients -> BOOLEAN]
         /\ server = "up" /\ g <= gen /\ gen # 0
         /\ Advanced(g, m)
<1>0. /\ Clients = 1 .. MaxClients /\ MaxClients \in Nat
      /\ gen \in Nat
      /\ queue \in [Clients -> Seq(Messages)]
      /\ queue[g] \in Seq(Messages) /\ queue[g] # <<>>
      /\ g \in Nat
  BY SessionFacts DEF SessionInv, InSequence, Receives
<1>1. PICK s \in ready : s \in Slots /\ fds[s] = Sock(g) /\ ready' = ready \ {s}
  BY HandlingSlot DEF Receives
<1>2. server = "up" /\ m = Head(queue[g]) /\ queue' = [queue EXCEPT ![g] = Tail(queue[g])]
  BY HandlingSlot DEF Receives
<1> DEFINE n == Len(queue[g])
<1>3. /\ n \in Nat \ {0} /\ m = queue[g][1]
      /\ queue'[g] \in Seq(Messages) /\ Len(queue'[g]) = n - 1
      /\ \A i \in 1 .. n - 1 : queue'[g][i] = queue[g][i + 1] /\ i + 1 \in 1 .. n
      /\ \A h \in Clients : h # g => queue'[h] = queue[h]
      /\ queue' \in [Clients -> Seq(Messages)]
  BY Received
<1>4. Listed(Sock(g)) /\ Known(g) /\ g <= gen /\ gen # 0 /\ gen \in Clients
  BY Received
<1>5. \A h \in Clients : Known(h)' <=> Known(h)
  BY DEF Known
<1>6. /\ \A i \in Slots, h \in Clients : fds'[i] = Sock(h) <=> fds[i] = Sock(h)
      /\ \A i \in Slots : fds'[i] = Listen <=> fds[i] = Listen
      /\ \A i \in Slots : fds'[i] = Free => fds[i] = Free
      /\ \A h \in Clients : Listed(Sock(h))' <=> Listed(Sock(h))
  BY SocketsKept
<1>7. /\ reply' \in [Clients -> BOOLEAN]
      /\ \A h \in Clients : reply'[h] => reply[h] \/ (h = g /\ m = <<"features", "-">>)
  BY DEF SessionInv, TypeOK
<1>8. /\ ready' \in SUBSET Slots
      /\ \A h \in Clients : Len(queue'[h]) <= 14
  <2>1. \A h \in Clients : Len(queue[h]) <= 14
    BY HandshakeLength DEF SessionInv, TypeOK
  <2>2. Len(queue'[g]) <= 14
    BY <1>3, <2>1
  <2> QED  BY <1>1, <1>3, <2>1, <2>2 DEF SessionInv, TypeOK
<1>9. ClientInv'
  <2>1. \A h \in Clients : ~ Known(h)' => queue'[h] = <<>> /\ ~ reply'[h]
    BY <1>3, <1>4, <1>5, <1>7 DEF SessionInv, ClientInv
  <2>2. memory' <= gen
    BY <1>4 DEF SessionInv, ClientInv
  <2> QED  BY <2>1, <2>2 DEF SessionInv, ClientInv
<1>10. FdInv'
  <2>1. 1 \in Slots
    BY SessionAssumption DEF Slots
  <2> QED  BY <1>5, <1>6, <2>1 DEF SessionInv, FdInv
<1>11. \A i \in ready' : fds[i] # Sock(g) /\ i \in Slots /\ i \in ready
  BY <1>1, <1>8 DEF SessionInv, FdInv
<1>12. PassInv'
  <2>1. ASSUME NEW i \in ready'
        PROVE  /\ fds'[i] # Free
               /\ fds'[i] = Listen => backlog # <<>>
               /\ \A h \in Clients : fds'[i] = Sock(h) => queue'[h] # <<>> \/ ~ open[h]
    BY <1>3, <1>6, <1>11, <2>1 DEF SessionInv, PassInv
  <2> QED  BY <2>1 DEF PassInv
<1>13. \A h \in Clients : InPass(h)' <=> InPass(h) /\ h # g
  <2>1. \A h \in Clients : InPass(h)' <=> \E i \in ready' : fds[i] = Sock(h)
    BY <1>6, <1>11 DEF InPass
  <2>2. \A h \in Clients : h # g => Sock(h) # Sock(g)
    BY FdKinds
  <2> QED  BY <1>1, <1>11, <2>1, <2>2 DEF InPass
<1>14. ASSUME NEW h \in Clients, NEW i \in 1 .. Len(queue'[h]), queue'[h][i] = MemMsg
       PROVE  h # g /\ i \in 1 .. Len(queue[h]) /\ queue[h][i] = MemMsg
  <2>1. h # g
    <3>1. SUFFICES ASSUME h = g
                   PROVE  FALSE
      OBVIOUS
    <3>2. i \in 1 .. n - 1 /\ queue[g][i + 1] = MemMsg /\ i + 1 \in 1 .. n
      BY <1>3, <1>14, <3>1
    <3>3. i + 1 = 1
      BY <3>2 DEF SessionInv, TableInv
    <3> QED  BY <3>2, <3>3
  <2> QED  BY <1>3, <1>14, <2>1
<1>15. ASSUME NEW t \in 0 .. 14, At(g, t)
       PROVE  t + 1 \in 0 .. 14 /\ m = Msgs[t + 1] /\ At(g, t + 1)'
  <2>1. n + t <= 14 /\ \A i \in 1 .. n : queue[g][i] = Msgs[t + i]
    BY <1>15 DEF At
  <2>2. t + 1 \in 0 .. 14 /\ (n - 1) + (t + 1) <= 14
    <3>1. n \in Nat \ {0} /\ n + t <= 14
      BY <1>3, <2>1
    <3> HIDE DEF n
    <3> QED  BY <3>1
  <2>3. m = Msgs[t + 1]
    BY <1>3, <2>1
  <2>4. ASSUME NEW i \in 1 .. n - 1
        PROVE  queue'[g][i] = Msgs[(t + 1) + i]
    <3>1. queue'[g][i] = Msgs[t + (i + 1)]
      BY <1>3, <2>1
    <3>2. t + (i + 1) = (t + 1) + i
      OBVIOUS
    <3> QED  BY <3>1, <3>2
  <2> QED  BY <1>3, <2>2, <2>3, <2>4 DEF At
<1>16. InSequence'
  <2>1. \E t \in 0 .. 14 : At(g, t)'
    <3>1. PICK t \in 0 .. 14 : At(g, t)
      BY DEF SessionInv, InSequence
    <3> QED  BY <1>15, <3>1
  <2>2. ASSUME NEW h \in Clients, h # g
        PROVE  \E u \in 0 .. 14 : At(h, u)'
    <3>1. PICK u \in 0 .. 14 : At(h, u)
      BY DEF SessionInv, InSequence
    <3>2. queue'[h] = queue[h]
      BY <1>3, <2>2
    <3> QED  BY <3>1, <3>2 DEF At
  <2> QED  BY <1>3, <2>1, <2>2 DEF InSequence
<1>17. /\ Taken \in Int
       /\ g = gen => Taken' = Taken + 1
       /\ g # gen => Taken' = Taken
  BY Received
<1>18. PICK t \in 0 .. 14 : Position(t) /\ Progress(t)
  BY <1>4 DEF SessionInv, NewestInv
<1>19. PICK u \in 0 .. 14 : /\ At(gen, u)'
                            /\ g = gen => u = t + 1 /\ m = Msgs[u]
                            /\ g # gen => u = t
  <2>1. CASE g = gen
    BY <1>15, <1>18, <2>1 DEF Position
  <2>2. CASE g # gen
    <3>1. At(gen, t)'
      BY <1>3, <1>4, <1>18, <2>2 DEF Position, At
    <3> QED  BY <2>2, <3>1
  <2> QED  BY <2>1, <2>2
<1>20. Position(u)'
  <2>1. TakenOfNewest(u)'
    BY <1>17, <1>18, <1>19 DEF Position, TakenOfNewest, Running
  <2>2. ASSUME NEW h \in Clients, h < gen,
               NEW i \in 1 .. Len(queue'[h]), queue'[h][i] = MemMsg
        PROVE  /\ u = 0 \/ (u = 1 /\ ~ InPass(gen)' /\ InPass(h)')
               /\ InPass(gen)' => InPass(h)'
    <3>1. h # g /\ i \in 1 .. Len(queue[h]) /\ queue[h][i] = MemMsg
      BY <1>14, <2>2
    <3>2. /\ t = 0 \/ (t = 1 /\ ~ InPass(gen) /\ InPass(h))
          /\ InPass(gen) => InPass(h)
      BY <1>18, <2>2, <3>1 DEF Position, Lags
    <3>3. InPass(h)' <=> InPass(h)
      BY <1>13, <3>1
    <3>4. InPass(gen)' <=> InPass(gen) /\ gen # g
      BY <1>4, <1>13
    <3>5. CASE g = gen
      <4>1. InPass(gen)
        BY <1>1, <3>5 DEF InPass
      <4> QED  BY <1>19, <3>2, <3>3, <3>4, <3>5, <4>1
    <3>6. CASE g # gen
      BY <1>19, <3>2, <3>3, <3>4, <3>6
    <3> QED  BY <3>5, <3>6
  <2>3. \A h \in Clients : h < gen => Lags(h, u)'
    BY <2>2 DEF Lags
  <2> QED  BY <1>19, <2>1, <2>3 DEF Position
<1>21. Advanced(g, m)
  <2>1. ASSUME g # gen
        PROVE  g < gen /\ (m = MemMsg => t <= 1)
    <3>1. g < gen
      BY <1>0, <1>4, <2>1
    <3>2. Lags(g, t) /\ 1 \in 1 .. Len(queue[g])
      BY <1>3, <1>18, <3>1 DEF Position
    <3> QED  BY <1>3, <3>1, <3>2 DEF Lags
  <2> QED  BY <1>18, <1>19, <1>20, <2>1 DEF Advanced
<1>22. TableInv'
  <2>1. ASSUME Running, reply'[gen] \/ step > 2
        PROVE  Taken' >= 2 /\ Listed(Sock(gen))'
    <3>1. CASE reply[gen] \/ step > 2
      BY <1>4, <1>6, <1>17, <2>1, <3>1 DEF SessionInv, TableInv
    <3>2. CASE gen = g /\ m = <<"features", "-">>
      <4>1. u = 2
        BY <1>19, <3>2, MsgPlaces
      <4>2. t = Taken
        BY <1>18, <2>1 DEF Position, TakenOfNewest
      <4> QED  BY <1>4, <1>6, <1>17, <1>19, <3>2, <4>1, <4>2
    <3> QED  BY <1>4, <1>7, <2>1, <3>1, <3>2
  <2>2. ASSUME NEW h \in Clients, NEW i \in 1 .. Len(queue'[h]), queue'[h][i] = MemMsg
        PROVE  i = 1 /\ Listed(Sock(h))'
    BY <1>6, <1>14, <2>2 DEF SessionInv, TableInv
  <2> QED  BY <2>1, <2>2 DEF TableInv, Running
<1> QED
  BY <1>2, <1>4, <1>7, <1>8, <1>9, <1>10, <1>12, <1>16, <1>21, <1>22

(* The handlers do for the newest client what Progress says: SET_MEM_TABLE,
   SET_VRING_BASE and SET_VRING_ADDR of its TX ring come third, tenth and
   thirteenth, and no message of a predecessor undoes them. *)
LEMMA PlaceAdvanced ==
  ASSUME SessionInv, NEW g \in Clients, NEW m, Advanced(g, m),
         gen # 0, server = "up", UNCHANGED <<gen, early, avail, obj>>,
         m = MemMsg => memory' = g,
         m # MemMsg => memory' = memory,
         m = <<"base", "TX">> => lastAvail' = 0,
         m # <<"base", "TX">> => lastAvail' = lastAvail,
         server' = "up" /\ m = <<"addr", "TX">> => desc'["TX"] = obj[memory],
         server' = "up" /\ m # <<"addr", "TX">> => desc'["TX"] = desc["TX"]
  PROVE  NewestInv'
<1>1. PICK t \in 0 .. 14, u \in 0 .. 14 :
        /\ Position(t) /\ Progress(t)
        /\ Position(u)'
        /\ g = gen => u = t + 1 /\ m = Msgs[u]
        /\ g # gen => u = t /\ g < gen /\ (m = MemMsg => t <= 1)
  BY DEF Advanced
<1>2. avail[obj[gen]] \in Nat /\ lastAvail \in Nat
  BY SessionFacts, AvailOfClient
<1>3. /\ g = gen => (m = MemMsg <=> u = 3)
      /\ g = gen => (m = <<"base", "TX">> <=> u = 10)
      /\ g = gen => (m = <<"addr", "TX">> <=> u = 13)
  <2>1. CASE g = gen
    <3>1. u \in 1 .. 14 /\ m = Msgs[u]
      BY <1>1, <2>1
    <3>2. /\ Msgs[u] = MemMsg <=> u = 3
          /\ Msgs[u] = <<"base", "TX">> <=> u = 10
          /\ Msgs[u] = <<"addr", "TX">> <=> u = 13
      BY <3>1, MsgPlaces
    <3> QED  BY <3>1, <3>2
  <2> QED  BY <2>1
<1>4. u >= 3 => memory' = gen
  <2>1. CASE g = gen
    <3>1. CASE u = 3
      BY <1>3, <2>1, <3>1
    <3>2. CASE u > 3
      <4>1. t >= 3
        BY <1>1, <2>1, <3>2
      <4> QED  BY <1>1, <1>3, <2>1, <3>2, <4>1 DEF Progress
    <3> QED  BY <3>1, <3>2
  <2>2. CASE g # gen
    BY <1>1, <2>2 DEF Progress
  <2> QED  BY <2>1, <2>2
<1>5. ASSUME server' = "up", ~ early, u \in 10 .. 12
      PROVE  lastAvail' = 0
  <2>1. u = 10 /\ g = gen => lastAvail' = 0
    BY <1>3
  <2>2. u # 10 \/ g # gen => t \in 10 .. 12
    BY <1>1, <1>5
  <2>3. t \in 10 .. 12 => lastAvail = 0
    BY <1>1, <1>5 DEF Progress
  <2> QED  BY <2>1, <2>2, <2>3
<1>6. ASSUME server' = "up", ~ early, u >= 13
      PROVE  desc'["TX"] = obj[gen] /\ lastAvail' <= avail[obj[gen]]
  <2>1. t >= 12 /\ memory = gen
    BY <1>1, <1>6 DEF Progress
  <2>2. CASE g = gen /\ u = 13
    <3>1. t = 12
      BY <1>1, <2>2
    <3>2. lastAvail = 0
      BY <1>1, <1>6, <3>1 DEF Progress
    <3>3. m = <<"addr", "TX">> /\ m # <<"base", "TX">>
      BY <1>3, <2>2
    <3> QED  BY <1>2, <1>6, <2>1, <3>2, <3>3
  <2>3. CASE g # gen \/ u # 13
    <3>1. t >= 13
      BY <1>1, <1>6, <2>3
    <3>2. desc["TX"] = obj[gen] /\ lastAvail <= avail[obj[gen]]
      BY <1>1, <1>6, <3>1 DEF Progress
    <3>3. desc'["TX"] = obj[gen]
      BY <1>6, <2>1, <3>2
    <3>4. lastAvail' <= avail[obj[gen]]
      BY <1>2, <3>2
    <3> QED  BY <3>3, <3>4
  <2> QED  BY <2>2, <2>3
<1>7. Progress(u)'
  BY <1>4, <1>5, <1>6 DEF Progress
<1> QED  BY <1>1, <1>7 DEF NewestInv

(* What a message handler may do to the server's tables. *)
LEMMA MessageKeeps ==
  ASSUME SessionInv, NEW g \in Clients, NEW m, Receives(g, m),
         UNCHANGED <<gen, clientPc, step, addr, obj, linked, avail, used, writer,
                     backlog, open, kicked, early>>,
         fds' = WithFd(Kickfd(g)) \/ fds' = fds,
         \/ reply' = reply
         \/ reply' = [reply EXCEPT ![g] = TRUE] /\ m = <<"features", "-">>,
         server' \in {"up", "sigpipe", "badRing"},
         m = MemMsg => memory' = g,
         m # MemMsg => memory' = memory,
         m = <<"base", "TX">> => lastAvail' = 0,
         m # <<"base", "TX">> => lastAvail' = lastAvail,
         lastUsed' \in Nat,
         desc' \in [Rings -> Objects \cup {NULL}],
         server' = "up" /\ m = <<"addr", "TX">> => desc'["TX"] = obj[memory],
         server' = "up" /\ m # <<"addr", "TX">> => desc'["TX"] = desc["TX"],
         gen = 1 => /\ server' # "badRing"
                    /\ \A r \in Rings : \/ desc'[r] = desc[r]
                                        \/ memory = 1 /\ desc'[r] = 1
  PROVE  SessionInv'
<1>1. FdsKept /\ (memory' = memory \/ memory' = g)
  BY KickListKept
<1>2. /\ ClientInv' /\ FdInv' /\ PassInv' /\ TableInv' /\ InSequence'
      /\ ready' \in SUBSET Slots
      /\ \A h \in Clients : Len(queue'[h]) <= 14
      /\ reply' \in [Clients -> BOOLEAN]
      /\ server = "up" /\ g <= gen /\ gen # 0
      /\ Advanced(g, m)
  BY <1>1, ReceivingKeeps
<1>3. gen \in Nat /\ g \in Nat /\ g # 0 /\ lastAvail \in Nat /\ lastAvail' \in Nat
  <2>1. lastAvail \in Nat
    BY DEF SessionInv, TypeOK
  <2>2. lastAvail' \in Nat
    BY <2>1
  <2>3. gen \in Nat /\ g \in Nat /\ g # 0
    BY SessionFacts
  <2> QED  BY <2>1, <2>2, <2>3
<1>4. TypeOK'
  <2>1. fds' \in [Slots -> Fds]
    BY <1>1 DEF FdsKept
  <2>2. memory' \in Clients \cup {NULL}
    BY <1>1 DEF SessionInv, TypeOK
  <2>3. step' \in 1 .. Len(Handshake) + 1
    BY DEF SessionInv, TypeOK
  <2>4. \A h \in Clients : Len(queue'[h]) <= Len(Handshake) + 1
    BY <1>2, HandshakeLength
  <2> QED  BY <1>2, <1>3, <2>1, <2>2, <2>3, <2>4 DEF SessionInv, TypeOK
<1>5. NewestInv'
  BY <1>2, PlaceAdvanced
<1>6. FirstInv'
  <2>1. ASSUME gen = 1
        PROVE  /\ obj[1] = 1
               /\ memory' \in {NULL, 1}
               /\ \A r \in Rings : desc'[r] \in {NULL, 1}
               /\ \A r \in Rings : desc'[r] = 1 => memory' = 1
               /\ lastAvail' <= avail[1]
               /\ lastAvail' > 0 => desc'["TX"] = 1
    <3>1. g = 1
      BY <1>2, <1>3, <2>1
    <3>2. /\ obj[1] = 1
          /\ memory \in {NULL, 1}
          /\ \A r \in Rings : desc[r] \in {NULL, 1}
          /\ \A r \in Rings : desc[r] = 1 => memory = 1
          /\ lastAvail <= avail[1]
          /\ lastAvail > 0 => desc["TX"] = 1
      BY <2>1 DEF SessionInv, FirstInv
    <3>3. memory' = memory \/ memory' = 1
      BY <1>1, <3>1
    <3>4. \A r \in Rings : desc'[r] \in {NULL, 1} /\ (desc'[r] = 1 => memory' = 1)
      BY <2>1, <3>2, <3>3
    <3>5. lastAvail' <= avail[1] /\ (lastAvail' > 0 => lastAvail > 0)
      <4>1. avail[1] \in Nat
        BY <1>2, <2>1, <3>1, <3>2, AvailOfClient
      <4> QED  BY <1>3, <3>2, <4>1
    <3>6. lastAvail' > 0 => desc'["TX"] = 1
      BY <2>1, <3>2, <3>5 DEF Rings
    <3> QED  BY <3>2, <3>3, <3>4, <3>5, <3>6
  <2> QED  BY <1>2, <2>1 DEF FirstInv
<1>7. /\ HarmOnlyByEarlyKick' /\ FirstClientSafe'
  BY DEF HarmOnlyByEarlyKick, FirstClientSafe
<1>8. NoLostKickOnceStarted'
  BY <1>3 DEF SessionInv, NoLostKickOnceStarted, Running
<1> QED
  BY <1>2, <1>4, <1>5, <1>6, <1>7, <1>8 DEF SessionInv

(* The client's tables, as SessionInv types them. *)
LEMMA TableTypes ==
  ASSUME SessionInv
  PROVE  /\ server \in {"up", "sigpipe", "badRing", "badCopy", "runaway"}
         /\ memory \in Clients \cup {NULL} /\ memory <= gen
         /\ desc \in [Rings -> Objects \cup {NULL}]
         /\ lastAvail \in Nat /\ lastUsed \in Nat
BY DEF SessionInv, TypeOK, ClientInv

LEMMA NoEffectKeeps ==
  ASSUME SessionInv, NEW g \in Clients, NoEffect(g)
  PROVE  SessionInv'
<1>1. PICK m \in {<<"owner", "-">>, <<"reset", "-">>}
                   \cup ({"num", "call"} \X Rings) : Receives(g, m)
  BY DEF NoEffect
<1>2. m # MemMsg /\ m # <<"base", "TX">> /\ m # <<"addr", "TX">>
  BY DEF MemMsg
<1>3. server = "up"
  BY <1>1, HandlingSlot DEF Receives
<1>4. UNCHANGED <<gen, clientPc, step, addr, obj, linked, avail, used, writer,
                  backlog, open, reply, kicked, server, fds, memory, desc,
                  lastAvail, lastUsed, early>>
  BY DEF NoEffect, client, shm, rings
<1> QED  BY <1>1, <1>2, <1>3, <1>4, MessageKeeps, TableTypes

LEMMA GetFeaturesKeeps ==
  ASSUME SessionInv, NEW g \in Clients, GetFeatures(g)
  PROVE  SessionInv'
<1> DEFINE m == <<"features", "-">>
<1>1. Receives(g, m) /\ server = "up"
  BY HandlingSlot DEF GetFeatures, Receives
<1>2. m # MemMsg /\ m # <<"base", "TX">> /\ m # <<"addr", "TX">>
  BY DEF MemMsg
<1>3. UNCHANGED <<gen, clientPc, step, addr, obj, linked, avail, used, writer,
                  backlog, open, kicked, fds, memory, desc, lastAvail,
                  lastUsed, early>>
  BY DEF GetFeatures, client, shm, rings
<1>4. /\ reply' = reply \/ reply' = [reply EXCEPT ![g] = TRUE]
      /\ server' \in {"up", "sigpipe"}
  BY <1>1 DEF GetFeatures
<1> QED  BY <1>1, <1>2, <1>3, <1>4, MessageKeeps, TableTypes

LEMMA SetMemTableKeeps ==
  ASSUME SessionInv, NEW g \in Clients, SetMemTable(g)
  PROVE  SessionInv'
<1>1. Receives(g, MemMsg) /\ server = "up" /\ memory' = g
  BY HandlingSlot DEF SetMemTable, Receives, MemMsg
<1>2. MemMsg # <<"base", "TX">> /\ MemMsg # <<"addr", "TX">>
  BY DEF MemMsg
<1>3. UNCHANGED <<gen, clientPc, step, addr, obj, linked, avail, used, writer,
                  backlog, open, reply, kicked, server, fds, desc, lastAvail,
                  lastUsed, early>>
  BY DEF SetMemTable, client, shm
<1> QED  BY <1>1, <1>2, <1>3, MessageKeeps, TableTypes

LEMMA SetVringBaseHolds ==
  ASSUME SessionInv, NEW g \in Clients, NEW r \in Rings, SetVringBase(g, r)
  PROVE  SessionInv'
<1> DEFINE m == <<"base", r>>
<1>1. Receives(g, m) /\ server = "up"
  BY HandlingSlot DEF SetVringBase, Receives
<1>2. m # MemMsg /\ m # <<"addr", "TX">> /\ m # <<"features", "-">>
  BY DEF MemMsg
<1>3. m = <<"base", "TX">> <=> r = "TX"
  OBVIOUS
<1>4. /\ m = <<"base", "TX">> => lastAvail' = 0
      /\ m # <<"base", "TX">> => lastAvail' = lastAvail
  BY <1>3 DEF SetVringBase
<1>5. UNCHANGED <<gen, clientPc, step, addr, obj, linked, avail, used, writer,
                  backlog, open, reply, kicked, server, fds, memory, desc,
                  lastUsed, early>>
  BY DEF SetVringBase, client, shm
<1> HIDE DEF m
<1> QED  BY <1>1, <1>2, <1>4, <1>5, MessageKeeps, TableTypes

LEMMA SetVringKickKeeps ==
  ASSUME SessionInv, NEW g \in Clients, NEW r \in Rings, SetVringKick(g, r)
  PROVE  SessionInv'
<1> DEFINE m == <<"kick", r>>
<1>1. Receives(g, m) /\ server = "up"
  BY HandlingSlot DEF SetVringKick, Receives
<1>2. m # MemMsg /\ m # <<"base", "TX">> /\ m # <<"addr", "TX">>
  BY DEF MemMsg
<1>3. /\ UNCHANGED <<gen, clientPc, step, addr, obj, linked, avail, used, writer,
                     backlog, open, reply, kicked, server, memory, desc,
                     lastAvail, lastUsed, early>>
      /\ fds' = WithFd(Kickfd(g)) \/ fds' = fds
  BY DEF SetVringKick, client, shm, rings
<1> HIDE DEF m
<1> QED  BY <1>1, <1>2, <1>3, MessageKeeps, TableTypes

(* SET_VRING_ADDR finds the sender's own table in force as long as there has
   been one client only: it sent SET_MEM_TABLE before. *)
LEMMA SetVringAddrKeeps ==
  ASSUME SessionInv, NEW g \in Clients, NEW r \in Rings, SetVringAddr(g, r)
  PROVE  SessionInv'
<1> DEFINE m == <<"addr", r>>
<1>1. Receives(g, m) /\ server = "up" /\ queue[g] # <<>> /\ Head(queue[g]) = m
  BY HandlingSlot DEF SetVringAddr, Receives
<1>2. m # MemMsg /\ m # <<"base", "TX">> /\ m # <<"features", "-">>
  BY DEF MemMsg
<1>3. m = <<"addr", "TX">> <=> r = "TX"
  OBVIOUS
<1>4. UNCHANGED <<gen, clientPc, step, addr, obj, linked, avail, used, writer,
                  backlog, open, reply, kicked, fds, memory, lastAvail, early>>
  BY DEF SetVringAddr, client, shm
<1>5. gen = 1 => memory = 1 /\ obj[1] = 1 /\ Mapped(g)
  <2>1. SUFFICES ASSUME gen = 1
                 PROVE  memory = 1 /\ obj[1] = 1 /\ Mapped(g)
    OBVIOUS
  <2>2. PICK t \in 0 .. 14 : Position(t) /\ Progress(t)
    BY <2>1 DEF SessionInv, NewestInv
  <2>3. g = 1
    <3>1. Listed(Sock(g))
      BY HandlingSlot DEF SetVringAddr, Receives, Listed
    <3>2. Known(g)
      BY <3>1 DEF SessionInv, FdInv
    <3> QED  BY <2>1, <3>2, SessionFacts DEF Known
  <2>4. 1 \in 1 .. Len(queue[g]) /\ queue[g][1] = m
    BY <1>1, TailFacts, SessionFacts
  <2>5. Msgs[t + 1] = m /\ t + 1 \in 1 .. 14
    BY <2>1, <2>2, <2>3, <2>4 DEF Position, At
  <2>6. t >= 7
    <3>1. r \in {"RX", "TX"}
      BY DEF Rings
    <3> QED  BY <2>5, <3>1, MsgPlaces
  <2>7. memory = 1
    BY <2>1, <2>2, <2>6 DEF Progress
  <2> QED  BY <2>1, <2>3, <2>7 DEF SessionInv, FirstInv, Mapped, NULL
<1>6. memory # NULL => obj[memory] \in Objects /\ used[obj[memory]] \in Nat
  BY TableTypes, AvailOfClient DEF NULL
<1>7. CASE Mapped(g)
  <2>1. /\ memory # NULL
        /\ desc' = [desc EXCEPT ![r] = obj[memory]]
        /\ lastUsed' = IF r = "TX" THEN used[obj[memory]] ELSE lastUsed
        /\ server' = "up"
    BY <1>1, <1>7 DEF SetVringAddr, Mapped
  <2>2. lastUsed' \in Nat /\ desc' \in [Rings -> Objects \cup {NULL}]
    BY <1>6, <2>1, TableTypes
  <2>3. /\ m = <<"addr", "TX">> => desc'["TX"] = obj[memory]
        /\ m # <<"addr", "TX">> => desc'["TX"] = desc["TX"]
    BY <1>3, <2>1, TableTypes DEF Rings
  <2>4. gen = 1 => \A q \in Rings : \/ desc'[q] = desc[q]
                                    \/ memory = 1 /\ desc'[q] = 1
    BY <1>5, <2>1, TableTypes
  <2> HIDE DEF m
  <2> QED  BY <1>1, <1>2, <1>4, <2>1, <2>2, <2>3, <2>4, MessageKeeps
<1>8. CASE ~ Mapped(g)
  <2>1. /\ desc' = [desc EXCEPT ![r] = NULL]
        /\ server' = "badRing" /\ lastUsed' = lastUsed
    BY <1>8 DEF SetVringAddr
  <2>2. lastUsed' \in Nat /\ desc' \in [Rings -> Objects \cup {NULL}]
    BY <2>1, TableTypes
  <2> HIDE DEF m
  <2> QED  BY <1>1, <1>2, <1>4, <1>5, <1>8, <2>1, <2>2, MessageKeeps
<1> QED  BY <1>7, <1>8

-----------------------------------------------------------------------------
(* Passes, connections and their ends. *)

(* A new pass: the table of a predecessor is in it if the newest client's socket
   is, and nothing of the newest client has been taken in it. *)
LEMMA SelectKeeps ==
  ASSUME SessionInv, Select
  PROVE  SessionInv'
<1>1. /\ server = "up" /\ ready = {}
      /\ ready' = {i \in Slots : Readable(fds[i])}
      /\ UNCHANGED <<gen, clientPc, step, addr, obj, linked, avail, used, writer,
                     backlog, queue, open, reply, kicked, server, fds, memory,
                     desc, lastAvail, lastUsed, early>>
  BY DEF Select, client, shm, wires, rings
<1>2. TypeOK'
  BY <1>1 DEF SessionInv, TypeOK
<1>3. \A g \in Clients : Known(g)' <=> Known(g)
  BY <1>1 DEF Known
<1>4. ClientInv' /\ InSequence'
  BY <1>1, <1>3 DEF SessionInv, ClientInv, InSequence, At
<1>5. FdInv'
  BY <1>1, <1>3, FdKept DEF SessionInv
<1>6. PassInv'
  <2>1. \A i \in ready' : i \in Slots /\ Readable(fds[i])
    BY <1>1
  <2>2. ASSUME NEW i \in Slots, NEW fd, fds[i] = fd, Readable(fd)
        PROVE  /\ fd # Free
               /\ fd = Listen => backlog # <<>>
               /\ \A g \in Clients : fd = Sock(g) => queue[g] # <<>> \/ ~ open[g]
    BY <2>2, ReadableKinds
  <2>3. \A i \in ready' :
          /\ fds[i] # Free
          /\ fds[i] = Listen => backlog # <<>>
          /\ \A g \in Clients : fds[i] = Sock(g) => queue[g] # <<>> \/ ~ open[g]
    BY <2>1, <2>2
  <2> QED  BY <1>1, <2>3 DEF PassInv
<1>7. TableInv'
  <2>1. Taken' = Taken
    BY <1>1 DEF Taken
  <2> QED  BY <1>1, <2>1 DEF SessionInv, TableInv, Listed, Running
<1>8. NewestInv'
  <2> SUFFICES ASSUME gen # 0
               PROVE  \E t \in 0 .. 14 : Position(t)' /\ Progress(t)'
    BY <1>1 DEF NewestInv
  <2>1. PICK t \in 0 .. 14 : Position(t) /\ Progress(t)
    BY DEF SessionInv, NewestInv
  <2>2. ASSUME NEW g \in Clients, g < gen,
               NEW i \in 1 .. Len(queue[g]), queue[g][i] = MemMsg
        PROVE  t = 0 /\ InPass(g)'
    <3>1. t = 0
      <4>1. ~ InPass(g)
        BY <1>1 DEF InPass
      <4> QED  BY <2>1, <2>2, <4>1 DEF Position, Lags
    <3>2. PICK j \in Slots : fds[j] = Sock(g)
      BY <2>2 DEF SessionInv, TableInv, Listed
    <3>3. queue[g] # <<>>
      <4>1. queue[g] = <<>> => Len(queue[g]) = 0
        BY EmptyQueue
      <4> QED  BY <2>2, <4>1
    <3>4. Readable(Sock(g))
      BY <3>3, ReadableKinds
    <3> QED  BY <1>1, <3>1, <3>2, <3>4 DEF InPass
  <2>3. \A g \in Clients : g < gen => Lags(g, t)'
    BY <1>1, <2>2 DEF Lags
  <2>4. Position(t)'
    BY <1>1, <2>1, <2>3 DEF Position, At, TakenOfNewest, Taken, Running
  <2>5. Progress(t)'
    BY <1>1, <2>1 DEF Progress
  <2> QED  BY <2>4, <2>5
<1>9. /\ HarmOnlyByEarlyKick' /\ FirstInv' /\ FirstClientSafe'
      /\ NoLostKickOnceStarted'
  BY <1>1 DEF SessionInv, HarmOnlyByEarlyKick, FirstInv, FirstClientSafe,
              NoLostKickOnceStarted, Running
<1> QED
  BY <1>2, <1>4, <1>5, <1>6, <1>7, <1>8, <1>9 DEF SessionInv

(* A step of the loop that takes no message and leaves the rings alone, and
   after which the sockets of this pass that had messages are still in it. *)
LEMMA PassGoesOn ==
  ASSUME SessionInv,
         UNCHANGED <<gen, clientPc, step, addr, obj, linked, avail, used, writer,
                     queue, open, reply, kicked, server, memory, desc,
                     lastAvail, lastUsed, early>>,
         \A g \in Clients : InPass(g)' => InPass(g),
         \A g \in Clients : InPass(g) /\ queue[g] # <<>> => InPass(g)'
  PROVE  /\ ClientInv' /\ InSequence' /\ NewestInv'
         /\ HarmOnlyByEarlyKick' /\ FirstInv' /\ FirstClientSafe'
         /\ NoLostKickOnceStarted'
<1>1. ClientInv' /\ InSequence'
  <2>1. \A g \in Clients : Known(g)' <=> Known(g)
    BY DEF Known
  <2> QED  BY <2>1 DEF SessionInv, ClientInv, InSequence, At
<1>2. NewestInv'
  <2> SUFFICES ASSUME gen # 0
               PROVE  \E t \in 0 .. 14 : Position(t)' /\ Progress(t)'
    BY DEF NewestInv
  <2>1. PICK t \in 0 .. 14 : Position(t) /\ Progress(t)
    BY DEF SessionInv, NewestInv
  <2>2. ASSUME NEW g \in Clients, g < gen,
               NEW i \in 1 .. Len(queue[g]), queue[g][i] = MemMsg
        PROVE  /\ t = 0 \/ (t = 1 /\ ~ InPass(gen)' /\ InPass(g)')
               /\ InPass(gen)' => InPass(g)'
    <3>1. queue[g] # <<>>
      <4>1. queue[g] = <<>> => Len(queue[g]) = 0
        BY EmptyQueue
      <4> QED  BY <2>2, <4>1
    <3>2. /\ t = 0 \/ (t = 1 /\ ~ InPass(gen) /\ InPass(g))
          /\ InPass(gen) => InPass(g)
      BY <2>1, <2>2 DEF Position, Lags
    <3>3. gen \in Clients
      BY SessionFacts
    <3> QED  BY <3>1, <3>2, <3>3
  <2>3. \A g \in Clients : g < gen => Lags(g, t)'
    BY <2>2 DEF Lags
  <2>4. Position(t)'
    BY <2>1, <2>3 DEF Position, At, TakenOfNewest, Taken, Running
  <2>5. Progress(t)'
    BY <2>1 DEF Progress
  <2> QED  BY <2>4, <2>5
<1>3. /\ HarmOnlyByEarlyKick' /\ FirstInv' /\ FirstClientSafe'
      /\ NoLostKickOnceStarted'
  BY DEF SessionInv, HarmOnlyByEarlyKick, FirstInv, FirstClientSafe,
         NoLostKickOnceStarted, Running
<1> QED  BY <1>1, <1>2, <1>3

(* Accepting: the next socket moves from the listen queue to a free slot, or to
   none. *)
LEMMA AcceptKeeps ==
  ASSUME SessionInv, Accept
  PROVE  SessionInv'
<1>1. PICK s \in ready : s \in Slots /\ fds[s] = Listen /\ ready' = ready \ {s}
  BY HandlingSlot DEF Accept
<1>2. backlog \in Seq(Clients) /\ backlog # <<>>
  BY <1>1 DEF SessionInv, TypeOK, PassInv
<1>3. PICK h \in Clients : h = Head(backlog)
  BY <1>2, TailFacts
<1>4. /\ server = "up"
      /\ backlog' = Tail(backlog) /\ fds' = WithFd(Sock(h))
      /\ UNCHANGED <<gen, clientPc, step, addr, obj, linked, avail, used, writer,
                     queue, open, reply, kicked, server, memory, desc,
                     lastAvail, lastUsed, early>>
  BY <1>3, HandlingSlot DEF Accept, client, shm, rings
<1> DEFINE n == Len(backlog)
<1>5. /\ n \in Nat \ {0} /\ h = backlog[1]
      /\ backlog' \in Seq(Clients) /\ Len(backlog') = n - 1
      /\ \A k \in 1 .. n - 1 : backlog'[k] = backlog[k + 1] /\ k + 1 \in 1 .. n
  BY <1>2, <1>3, <1>4, TailFacts
<1>6. Known(h) /\ ~ Listed(Sock(h))
  BY <1>5 DEF SessionInv, FdInv
<1>7. \A i \in Slots : \/ fds'[i] = fds[i]
                       \/ fds[i] = Free /\ fds'[i] = Sock(h)
  <2>1. CASE fds' = fds
    BY <2>1
  <2>2. ASSUME NEW f \in Slots, fds[f] = Free, fds' = [fds EXCEPT ![f] = Sock(h)]
        PROVE  \A i \in Slots : \/ fds'[i] = fds[i]
                                \/ fds[i] = Free /\ fds'[i] = Sock(h)
    BY <2>2 DEF SessionInv, TypeOK
  <2> QED  BY <1>4, <2>1, <2>2, WithFdSlot
<1>8. \A i, j \in Slots : fds'[i] # fds[i] /\ fds'[j] # fds[j] => i = j
  <2>1. CASE fds' = fds
    BY <2>1
  <2>2. ASSUME NEW f \in Slots, fds[f] = Free, fds' = [fds EXCEPT ![f] = Sock(h)]
        PROVE  \A i, j \in Slots : fds'[i] # fds[i] /\ fds'[j] # fds[j] => i = j
    BY <2>2 DEF SessionInv, TypeOK
  <2> QED  BY <1>4, <2>1, <2>2, WithFdSlot
<1>9. TypeOK'
  <2>1. fds' \in [Slots -> Fds]
    <3>1. fds \in [Slots -> Fds] /\ Sock(h) \in Fds
      BY FdTypes DEF SessionInv, TypeOK
    <3> QED  BY <1>4, <3>1, WithFdSlot
  <2>2. ready' \subseteq Slots
    BY <1>1 DEF SessionInv, TypeOK
  <2> QED  BY <1>4, <1>5, <2>1, <2>2 DEF SessionInv, TypeOK
<1>10. ASSUME NEW i \in Slots
       PROVE  /\ fds'[i] = Listen <=> fds[i] = Listen
              /\ fds'[i] = Free => fds[i] = Free
              /\ \A g \in Clients : fds'[i] = Sock(g) =>
                   fds[i] = Sock(g) \/ (g = h /\ fds'[i] # fds[i])
              /\ \A g \in Clients : fds[i] = Sock(g) => fds'[i] = Sock(g)
  BY <1>7, FdKinds
<1>11. ASSUME NEW g \in Clients
       PROVE  /\ Listed(Sock(g))' => Listed(Sock(g)) \/ g = h
              /\ Listed(Sock(g)) => Listed(Sock(g))'
  BY <1>10 DEF Listed
<1>12. FdInv'
  <2>1. 1 \in Slots
    BY SessionAssumption DEF Slots
  <2>2. ASSUME NEW i \in Slots, NEW j \in Slots, NEW g \in Clients,
               fds'[i] = Sock(g), fds'[j] = Sock(g)
        PROVE  i = j
    <3>1. CASE fds[i] = Sock(g) /\ fds[j] = Sock(g)
      BY <3>1 DEF SessionInv, FdInv
    <3>2. CASE g = h
      <4>1. fds[i] # Sock(g) /\ fds[j] # Sock(g)
        BY <1>6, <3>2 DEF Listed
      <4> QED  BY <1>8, <2>2, <4>1
    <3> QED  BY <1>10, <2>2, <3>1, <3>2
  <2>3. \A g \in Clients : Known(g)' <=> Known(g)
    BY <1>4 DEF Known
  <2>4. ASSUME NEW k \in 1 .. Len(backlog'), NEW g \in Clients, backlog'[k] = g
        PROVE  Known(g) /\ ~ Listed(Sock(g))'
    <3>1. k + 1 \in 1 .. n /\ backlog[k + 1] = g
      BY <1>5, <2>4
    <3>2. Known(g) /\ ~ Listed(Sock(g))
      BY <3>1 DEF SessionInv, FdInv
    <3>3. g # h
      <4>1. 1 \in 1 .. n /\ k + 1 # 1
        BY <1>5, <2>4
      <4> QED  BY <1>5, <3>1, <4>1 DEF SessionInv, FdInv
    <3> QED  BY <1>11, <3>2, <3>3
  <2>5. ASSUME NEW k \in 1 .. Len(backlog'), NEW l \in 1 .. Len(backlog'),
               backlog'[k] = backlog'[l]
        PROVE  k = l
    <3>1. /\ k + 1 \in 1 .. n /\ l + 1 \in 1 .. n
          /\ backlog[k + 1] = backlog[l + 1]
      BY <1>5, <2>5
    <3>2. k + 1 = l + 1
      BY <3>1 DEF SessionInv, FdInv
    <3>3. k \in Int /\ l \in Int
      BY <1>5
    <3> QED  BY <3>2, <3>3
  <2>6. \A g \in Clients : Listed(Sock(g))' => Known(g)
    BY <1>6, <1>11 DEF SessionInv, FdInv
  <2>7. fds'[1] = Listen /\ \A i \in Slots : fds'[i] = Listen => i = 1
    BY <1>10, <2>1 DEF SessionInv, FdInv
  <2> QED  BY <2>2, <2>3, <2>4, <2>5, <2>6, <2>7 DEF FdInv
<1>13. \A i \in ready' : i \in ready /\ i \in Slots /\ fds'[i] = fds[i] /\ fds[i] # Listen
  <2>1. \A i \in ready' : i \in ready /\ i \in Slots /\ i # s
    BY <1>1 DEF SessionInv, TypeOK
  <2>2. \A i \in Slots : fds[i] = Listen => i = s
    BY <1>1 DEF SessionInv, FdInv
  <2>3. \A i \in ready : fds[i] # Free
    BY DEF SessionInv, PassInv
  <2> QED  BY <1>7, <2>1, <2>2, <2>3
<1>14. PassInv'
  BY <1>4, <1>13 DEF SessionInv, PassInv
<1>15. TableInv'
  <2>1. Taken' = Taken /\ (Running => gen \in Clients)
    BY <1>4, SessionFacts DEF Taken
  <2> QED  BY <1>4, <1>11, <2>1 DEF SessionInv, TableInv, Running
<1>16. ASSUME NEW g \in Clients
       PROVE  InPass(g)' <=> InPass(g)
  <2>1. fds[s] # Sock(g)
    BY <1>1, FdKinds
  <2>2. \A i \in ready : i # s => i \in ready'
    BY <1>1
  <2> QED  BY <1>13, <2>1, <2>2 DEF InPass
<1> QED
  BY <1>4, <1>9, <1>12, <1>14, <1>15, <1>16, PassGoesOn DEF SessionInv

(* The end of a stream: only the socket of a client that has gone leaves the
   list. *)
LEMMA CloseKeeps ==
  ASSUME SessionInv, NEW g \in Clients, Close(g)
  PROVE  SessionInv'
<1>1. PICK s \in ready : s \in Slots /\ fds[s] = Sock(g) /\ ready' = ready \ {s}
  BY HandlingSlot DEF Close
<1>2. /\ server = "up" /\ queue[g] = <<>>
      /\ fds' = [i \in Slots |-> IF fds[i] = Sock(g) THEN Free ELSE fds[i]]
      /\ UNCHANGED <<gen, clientPc, step, addr, obj, linked, avail, used, writer,
                     backlog, queue, open, reply, kicked, server, memory, desc,
                     lastAvail, lastUsed, early>>
  BY HandlingSlot DEF Close, WithoutFd, client, shm, wires, rings
<1>3. ~ open[g] /\ Len(queue[g]) = 0
  BY <1>1, <1>2, EmptyQueue DEF SessionInv, PassInv
<1>4. TypeOK'
  <2>1. fds' \in [Slots -> Fds] /\ ready' \subseteq Slots
    BY <1>1, <1>2, FdTypes DEF SessionInv, TypeOK
  <2> QED  BY <1>2, <2>1 DEF SessionInv, TypeOK
<1>5. ASSUME NEW i \in Slots
      PROVE  /\ fds'[i] = Listen <=> fds[i] = Listen
             /\ \A h \in Clients : fds'[i] = Sock(h) <=> fds[i] = Sock(h) /\ h # g
  BY <1>2, FdKinds
<1>6. ASSUME NEW h \in Clients
      PROVE  Listed(Sock(h))' <=> Listed(Sock(h)) /\ h # g
  BY <1>5 DEF Listed
<1>7. FdInv'
  <2>1. 1 \in Slots
    BY SessionAssumption DEF Slots
  <2>2. \A h \in Clients : Known(h)' <=> Known(h)
    BY <1>2 DEF Known
  <2> QED  BY <1>2, <1>5, <1>6, <2>1, <2>2 DEF SessionInv, FdInv
<1>8. \A i \in ready' : i \in ready /\ i \in Slots /\ fds'[i] = fds[i] /\ fds[i] # Sock(g)
  <2>1. \A i \in ready' : i \in ready /\ i \in Slots /\ i # s
    BY <1>1 DEF SessionInv, TypeOK
  <2>2. \A i \in Slots : fds[i] = Sock(g) => i = s
    BY <1>1 DEF SessionInv, FdInv
  <2> QED  BY <1>2, <2>1, <2>2
<1>9. PassInv'
  BY <1>2, <1>8 DEF SessionInv, PassInv
<1>10. TableInv'
  <2>1. Taken' = Taken
    BY <1>2 DEF Taken
  <2>2. g = gen => ~ Running
    <3>1. Known(g)
      BY <1>1 DEF SessionInv, FdInv, Listed
    <3>2. Known(g) /\ g = gen => clientPc # "connect"
      BY SessionFacts DEF Known
    <3> QED  BY <1>3, <3>1, <3>2 DEF SessionInv, ClientInv, Running
  <2>3. ASSUME Running, reply[gen] \/ step > 2
        PROVE  Taken >= 2 /\ Listed(Sock(gen))'
    <3>1. Taken >= 2 /\ Listed(Sock(gen)) /\ gen \in Clients
      BY <2>3, SessionFacts DEF SessionInv, TableInv
    <3>2. PICK h \in Clients : h = gen
      BY <3>1
    <3>3. Listed(Sock(h))'
      BY <1>6, <2>2, <2>3, <3>1, <3>2
    <3> QED  BY <1>2, <3>1, <3>2, <3>3 DEF Listed
  <2>4. ASSUME NEW h \in Clients, NEW i \in 1 .. Len(queue[h]), queue[h][i] = MemMsg
        PROVE  i = 1 /\ Listed(Sock(h))'
    BY <1>3, <1>6, <2>4 DEF SessionInv, TableInv
  <2> QED  BY <1>2, <2>1, <2>3, <2>4 DEF TableInv, Running
<1>11. ASSUME NEW h \in Clients
       PROVE  /\ InPass(h)' => InPass(h)
              /\ InPass(h) /\ h # g => InPass(h)'
  <2>1. h # g => fds[s] # Sock(h)
    BY <1>1, FdKinds
  <2>2. \A i \in ready : i # s => i \in ready'
    BY <1>1
  <2> QED  BY <1>8, <2>1, <2>2 DEF InPass
<1>12. \A h \in Clients : InPass(h) /\ queue[h] # <<>> => InPass(h)'
  BY <1>2, <1>11
<1> QED
  BY <1>2, <1>4, <1>7, <1>9, <1>10, <1>11, <1>12, PassGoesOn DEF SessionInv

-----------------------------------------------------------------------------
(* The kicks. *)

(* HasTaken of SET_VRING_ADDR of TX, in terms of the newest client's place. *)
LEMMA TakenAddr ==
  ASSUME SessionInv, HasTaken(<<"addr", "TX">>)
  PROVE  \A t \in 0 .. 14 : TakenOfNewest(t) => t >= 13
<1>1. gen # 0 /\ Taken \in Int /\ Len(queue[gen]) \in Nat
  BY SessionFacts DEF HasTaken
<1>2. PICK i \in 1 .. Taken : Handshake[i] = <<"addr", "TX">>
  BY DEF HasTaken
<1>3. Taken <= 13
  <2>1. step \in 1 .. 14 /\ (clientPc = "wait" => step = 2)
    BY SessionFacts DEF SessionInv, ClientInv
  <2>2. PICK q \in Nat : q = Len(queue[gen])
    BY <1>1
  <2>3. Taken = step - (IF clientPc = "wait" THEN 0 ELSE 1) - q
    BY <2>2 DEF Taken
  <2>4. CASE clientPc = "wait"
    <3>1. Taken = 2 - q
      BY <2>1, <2>3, <2>4
    <3> QED  BY <2>2, <3>1
  <2>5. CASE clientPc # "wait"
    <3>1. Taken = (step - 1) - q
      BY <2>3, <2>5
    <3> QED  BY <2>1, <2>2, <3>1
  <2> QED  BY <2>4, <2>5
<1>4. i = 13
  <2>1. i \in 1 .. 13
    BY <1>1, <1>2, <1>3
  <2> QED  BY <1>2, <2>1, MsgPlaces
<1> QED  BY <1>1, <1>2, <1>4 DEF TakenOfNewest

(* Reading a kick moves nobody's messages.  If it does not count as early, the
   newest client's TX ring is in place. *)
LEMMA ReadKickKeeps ==
  ASSUME SessionInv, NEW g \in Clients, ReadKick(g), UNCHANGED <<avail, writer>>
  PROVE  /\ server = "up"
         /\ ClientInv' /\ FdInv' /\ PassInv' /\ TableInv' /\ InSequence'
         /\ ready' \subseteq Slots /\ kicked' \in [Clients -> BOOLEAN]
         /\ early' \in BOOLEAN
         /\ UNCHANGED <<gen, clientPc, step, addr, obj, linked, backlog, queue,
                        open, reply, fds, memory, desc>>
         /\ gen # 0 => \E t \in 0 .. 14 : Position(t) /\ Position(t)' /\ Progress(t)
         /\ ~ early' => /\ gen # 0 /\ memory = gen
                        /\ desc["TX"] = obj[gen] /\ lastAvail <= avail[obj[gen]]
<1>1. PICK s \in ready : s \in Slots /\ fds[s] = Kickfd(g) /\ ready' = ready \ {s}
  BY HandlingSlot DEF ReadKick
<1>2. /\ server = "up"
      /\ kicked' = [kicked EXCEPT ![g] = FALSE]
      /\ UNCHANGED <<gen, clientPc, step, addr, obj, linked, backlog, queue,
                     open, reply, fds, memory, desc>>
  BY HandlingSlot DEF ReadKick, client
<1>3. early' \in BOOLEAN
  <2>1. early' = (early \/ ~ HasTaken(<<"addr", "TX">>))
    BY DEF ReadKick
  <2> QED  BY <2>1, Zenon
<1>4. ready' \subseteq Slots /\ kicked' \in [Clients -> BOOLEAN]
  BY <1>1, <1>2 DEF SessionInv, TypeOK
<1>5. ClientInv' /\ InSequence' /\ FdInv'
  <2>1. \A h \in Clients : Known(h)' <=> Known(h)
    BY <1>2 DEF Known
  <2> QED  BY <1>2, <2>1, FdKept DEF SessionInv, ClientInv, InSequence, At
<1>6. PassInv'
  BY <1>1, <1>2 DEF SessionInv, PassInv
<1>7. TableInv'
  <2>1. Taken' = Taken
    BY <1>2 DEF Taken
  <2> QED  BY <1>2, <2>1 DEF SessionInv, TableInv, Listed, Running
<1>8. ASSUME NEW h \in Clients
      PROVE  InPass(h)' <=> InPass(h)
  <2>1. fds[s] # Sock(h)
    BY <1>1, FdKinds
  <2> QED  BY <1>1, <1>2, <2>1 DEF InPass
<1>9. ASSUME gen # 0
      PROVE  \E t \in 0 .. 14 : Position(t) /\ Position(t)' /\ Progress(t)
  <2>1. PICK t \in 0 .. 14 : Position(t) /\ Progress(t)
    BY <1>9 DEF SessionInv, NewestInv
  <2>2. PICK c \in Clients : c = gen
    BY <1>9, SessionFacts
  <2>3. ASSUME NEW h \in Clients, h < gen
        PROVE  Lags(h, t)'
    <3>1. Lags(h, t)
      BY <2>1, <2>3 DEF Position
    <3>2. InPass(c)' <=> InPass(c)
      BY <1>8
    <3>3. InPass(gen)' <=> InPass(c)'
      BY <1>2, <2>2 DEF InPass
    <3>4. InPass(h)' <=> InPass(h)
      BY <1>8
    <3> QED  BY <1>2, <2>2, <3>1, <3>2, <3>3, <3>4 DEF Lags
  <2>4. Position(t)'
    BY <1>2, <2>1, <2>3 DEF Position, At, TakenOfNewest, Taken, Running
  <2> QED  BY <2>1, <2>4
<1>10. ASSUME ~ early'
       PROVE  /\ gen # 0 /\ memory = gen
              /\ desc["TX"] = obj[gen] /\ lastAvail <= avail[obj[gen]]
  <2>1. ~ early /\ HasTaken(<<"addr", "TX">>)
    <3>1. early' = (early \/ ~ HasTaken(<<"addr", "TX">>))
      BY DEF ReadKick
    <3> QED  BY <1>10, <3>1, Zenon
  <2>2. gen # 0
    BY <2>1 DEF HasTaken
  <2>3. PICK t \in 0 .. 14 : Position(t) /\ Progress(t)
    BY <2>2 DEF SessionInv, NewestInv
  <2>4. t >= 13
    BY <2>1, <2>3, TakenAddr DEF Position
  <2> QED  BY <1>2, <2>1, <2>2, <2>3, <2>4 DEF Progress
<1> QED
  BY <1>2, <1>3, <1>4, <1>5, <1>6, <1>7, <1>9, <1>10

(* What holds of the TX ring while there has been one client at most. *)
LEMMA FirstRing ==
  ASSUME SessionInv, desc["TX"] # NULL, gen \in {0, 1}
  PROVE  /\ gen = 1 /\ obj[1] = 1 /\ desc["TX"] = 1 /\ memory = 1
         /\ writer[1] = 1 /\ lastAvail <= avail[1]
BY DEF SessionInv, FirstInv, ClientInv, Rings

LEMMA KickBeforeAddrKeeps ==
  ASSUME SessionInv, NEW g \in Clients, KickBeforeAddr(g)
  PROVE  SessionInv'
<1>1. /\ ReadKick(g) /\ desc["TX"] = NULL
      /\ UNCHANGED <<avail, used, writer, server, lastAvail, lastUsed>>
  BY DEF KickBeforeAddr, shm
<1>2. /\ server = "up"
      /\ ClientInv' /\ FdInv' /\ PassInv' /\ TableInv' /\ InSequence'
      /\ ready' \subseteq Slots /\ kicked' \in [Clients -> BOOLEAN]
      /\ early' \in BOOLEAN
      /\ UNCHANGED <<gen, clientPc, step, addr, obj, linked, backlog, queue,
                     open, reply, fds, memory, desc>>
      /\ gen # 0 => \E t \in 0 .. 14 : Position(t) /\ Position(t)' /\ Progress(t)
      /\ ~ early' => /\ gen # 0 /\ memory = gen
                     /\ desc["TX"] = obj[gen] /\ lastAvail <= avail[obj[gen]]
  BY <1>1, ReadKickKeeps
<1>3. TypeOK'
  BY <1>1, <1>2 DEF SessionInv, TypeOK
<1>4. early'
  <2>1. gen # 0 => obj[gen] # NULL
    BY SessionFacts DEF SessionInv, ClientInv
  <2> QED  BY <1>1, <1>2, <2>1
<1>5. NewestInv'
  BY <1>1, <1>2, <1>4 DEF NewestInv, Progress
<1>6. FirstInv' /\ FirstClientSafe' /\ HarmOnlyByEarlyKick'
  BY <1>1, <1>2 DEF SessionInv, FirstInv, FirstClientSafe, HarmOnlyByEarlyKick
<1>7. NoLostKickOnceStarted'
  <2>1. gen = 1 => ~ lastAvail > 0
    BY <1>1 DEF SessionInv, FirstInv, NULL
  <2> QED  BY <1>1, <1>2, <2>1 DEF NoLostKickOnceStarted
<1> QED
  BY <1>2, <1>3, <1>5, <1>6, <1>7 DEF SessionInv

LEMMA ProcessTXKeeps ==
  ASSUME SessionInv, NEW g \in Clients, ProcessTX(g)
  PROVE  SessionInv'
<1>1. PICK o \in Objects : /\ o = desc["TX"] /\ o # NULL
                           /\ lastAvail <= avail[o]
                           /\ lastAvail' = avail[o]
                           /\ lastUsed' = lastUsed + avail[o] - lastAvail
                           /\ used' = [used EXCEPT ![o] = lastUsed']
  BY TableTypes DEF ProcessTX, Rings
<1>2. ReadKick(g) /\ UNCHANGED <<avail, writer, server>>
  BY DEF ProcessTX
<1>3. /\ server = "up"
      /\ ClientInv' /\ FdInv' /\ PassInv' /\ TableInv' /\ InSequence'
      /\ ready' \subseteq Slots /\ kicked' \in [Clients -> BOOLEAN]
      /\ early' \in BOOLEAN
      /\ UNCHANGED <<gen, clientPc, step, addr, obj, linked, backlog, queue,
                     open, reply, fds, memory, desc>>
      /\ gen # 0 => \E t \in 0 .. 14 : Position(t) /\ Position(t)' /\ Progress(t)
      /\ ~ early' => /\ gen # 0 /\ memory = gen
                     /\ desc["TX"] = obj[gen] /\ lastAvail <= avail[obj[gen]]
  BY <1>2, ReadKickKeeps
<1>4. avail[o] \in Nat /\ lastAvail' \in Nat /\ lastUsed' \in Nat
  <2>1. avail[o] \in Nat /\ lastAvail \in Nat /\ lastUsed \in Nat
    BY SessionAssumption DEF SessionInv, TypeOK
  <2> QED  BY <1>1, <2>1
<1>5. TypeOK'
  <2>1. used' \in [Objects -> Nat]
    BY <1>1, <1>4 DEF SessionInv, TypeOK
  <2> QED  BY <1>2, <1>3, <1>4, <2>1 DEF SessionInv, TypeOK
<1>6. NewestInv'
  <2> SUFFICES ASSUME gen # 0
               PROVE  \E t \in 0 .. 14 : Position(t)' /\ Progress(t)'
    BY <1>3 DEF NewestInv
  <2>1. PICK t \in 0 .. 14 : Position(t) /\ Position(t)' /\ Progress(t)
    BY <1>3
  <2>2. ~ early' => t >= 13
    <3>1. ASSUME ~ early'
          PROVE  t >= 13
      <4>1. HasTaken(<<"addr", "TX">>)
        <5>1. early' = (early \/ ~ HasTaken(<<"addr", "TX">>))
          BY <1>2 DEF ReadKick
        <5> QED  BY <3>1, <5>1, Zenon
      <4> QED  BY <2>1, <4>1, TakenAddr DEF Position
    <3> QED  BY <3>1
  <2>3. t >= 3 => memory' = gen'
    BY <1>3, <2>1 DEF Progress
  <2>4. ~ early' => desc'["TX"] = obj'[gen'] /\ lastAvail' <= avail'[obj'[gen']]
    BY <1>1, <1>2, <1>3, <1>4
  <2>5. Progress(t)'
    BY <2>2, <2>3, <2>4 DEF Progress
  <2> QED  BY <2>1, <2>5
<1>7. FirstInv'
  <2>1. gen \in {0, 1} => /\ gen = 1 /\ obj[1] = 1 /\ o = 1 /\ memory = 1
    BY <1>1, FirstRing
  <2>2. gen = 1 => \A r \in Rings : desc[r] \in {NULL, 1}
    BY DEF SessionInv, FirstInv
  <2> QED  BY <1>1, <1>2, <1>3, <1>4, <2>1, <2>2 DEF FirstInv
<1>8. FirstClientSafe' /\ HarmOnlyByEarlyKick'
  BY <1>2, <1>3 DEF FirstClientSafe, HarmOnlyByEarlyKick
<1>9. NoLostKickOnceStarted'
  <2>1. gen = 1 => obj[gen] = o
    BY <1>1, FirstRing
  <2> QED  BY <1>1, <1>2, <1>3, <1>4, <2>1 DEF NoLostKickOnceStarted
<1> QED
  BY <1>3, <1>5, <1>6, <1>7, <1>8, <1>9 DEF SessionInv

(* The two ways in which processing the ring goes wrong need an early kick, and
   a predecessor. *)
LEMMA HarmfulKickKeeps ==
  ASSUME SessionInv, NEW g \in Clients, ReadKick(g),
         UNCHANGED <<avail, used, writer, lastAvail, lastUsed>>,
         server' \in {"badCopy", "runaway"},
         gen \notin {0, 1}, early'
  PROVE  SessionInv'
<1>1. /\ ClientInv' /\ FdInv' /\ PassInv' /\ TableInv' /\ InSequence'
      /\ ready' \subseteq Slots /\ kicked' \in [Clients -> BOOLEAN]
      /\ early' \in BOOLEAN
      /\ UNCHANGED <<gen, clientPc, step, addr, obj, linked, backlog, queue,
                     open, reply, fds, memory, desc>>
      /\ gen # 0 => \E t \in 0 .. 14 : Position(t) /\ Position(t)' /\ Progress(t)
  BY ReadKickKeeps
<1>2. TypeOK'
  <2>1. server' \in {"up", "sigpipe", "badRing", "badCopy", "runaway"}
    OBVIOUS
  <2> QED  BY <1>1, <2>1 DEF SessionInv, TypeOK
<1>3. NewestInv'
  BY <1>1 DEF NewestInv, Progress
<1>4. /\ FirstInv' /\ FirstClientSafe' /\ HarmOnlyByEarlyKick'
      /\ NoLostKickOnceStarted'
  BY <1>1 DEF FirstInv, FirstClientSafe, HarmOnlyByEarlyKick, NoLostKickOnceStarted
<1> QED
  BY <1>1, <1>2, <1>3, <1>4 DEF SessionInv

LEMMA ProcessUnmappedKeeps ==
  ASSUME SessionInv, NEW g \in Clients, ProcessUnmapped(g)
  PROVE  SessionInv'
<1>1. /\ ReadKick(g) /\ desc["TX"] # NULL /\ ~ Mapped(writer[desc["TX"]])
      /\ server' = "badCopy"
      /\ UNCHANGED <<avail, used, writer, lastAvail, lastUsed>>
  BY DEF ProcessUnmapped, shm
<1>2. gen \notin {0, 1}
  BY <1>1, FirstRing DEF Mapped, NULL
<1>3. early'
  <2>1. ASSUME ~ early'
        PROVE  FALSE
    <3>1. gen # 0 /\ memory = gen /\ desc["TX"] = obj[gen]
      BY <1>1, <2>1, ReadKickKeeps
    <3>2. writer[obj[gen]] = gen
      BY <3>1 DEF SessionInv, ClientInv
    <3> QED  BY <1>1, <3>1, <3>2 DEF Mapped, NULL
  <2> QED  BY <2>1
<1> QED  BY <1>1, <1>2, <1>3, HarmfulKickKeeps

LEMMA ProcessRunawayKeeps ==
  ASSUME SessionInv, NEW g \in Clients, ProcessRunaway(g)
  PROVE  SessionInv'
<1>1. /\ ReadKick(g) /\ desc["TX"] # NULL /\ lastAvail > avail[desc["TX"]]
      /\ server' = "runaway"
      /\ UNCHANGED <<avail, used, writer, lastAvail, lastUsed>>
  BY DEF ProcessRunaway, shm
<1>2. lastAvail \in Nat /\ avail[desc["TX"]] \in Nat
  BY <1>1, TableTypes, SessionAssumption DEF SessionInv, TypeOK, Rings
<1>3. gen \notin {0, 1}
  BY <1>1, <1>2, FirstRing
<1>4. early'
  <2>1. ASSUME ~ early'
        PROVE  FALSE
    <3>1. desc["TX"] = obj[gen] /\ lastAvail <= avail[obj[gen]]
      BY <1>1, <2>1, ReadKickKeeps
    <3> QED  BY <1>1, <1>2, <3>1
  <2> QED  BY <2>1
<1> QED  BY <1>1, <1>3, <1>4, HarmfulKickKeeps

-----------------------------------------------------------------------------
(* The theorems. *)

LEMMA SessionInit == Init => SessionInv
<1> SUFFICES ASSUME Init
             PROVE  SessionInv
  OBVIOUS
<1> USE DEF Init
<1>1. \A g \in Clients : g \in Nat \ {0}
  BY SessionAssumption DEF Clients
<1>2. TypeOK
  <2>1. \A g \in Clients : Len(queue[g]) <= 14
    BY EmptyQueue
  <2>2. fds \in [Slots -> Fds]
    BY DEF Fds
  <2>3. backlog \in Seq(Clients)
    OBVIOUS
  <2>4. /\ avail \in [Objects -> 0 .. MaxPackets]
        /\ used \in [Objects -> Nat]
        /\ gen \in 0 .. MaxClients
    BY SessionAssumption
  <2>5. /\ writer \in [Objects -> Clients \cup {NULL}]
        /\ obj \in [Clients -> Objects \cup {NULL}]
        /\ desc \in [Rings -> Objects \cup {NULL}]
        /\ memory \in Clients \cup {NULL}
    OBVIOUS
  <2>6. {open, reply, kicked} \subseteq [Clients -> BOOLEAN]
    OBVIOUS
  <2>7. step \in 1 .. Len(Handshake) + 1 /\ {lastAvail, lastUsed} \subseteq Nat
    BY HandshakeLength
  <2>8. ready \subseteq Slots /\ early \in BOOLEAN /\ linked \in BOOLEAN
    OBVIOUS
  <2>9. /\ clientPc \in {"gone"} /\ server \in {"up"}
        /\ addr \in [Clients -> Addrs]
    OBVIOUS
  <2> QED
    BY <2>1, <2>2, <2>3, <2>4, <2>5, <2>6, <2>7, <2>8, <2>9, HandshakeLength
       DEF TypeOK
<1>3. ClientInv
  BY <1>1 DEF ClientInv, NULL
<1>4. FdInv
  <2>1. 1 \in Slots
    BY SessionAssumption DEF Slots
  <2>2. Len(backlog) = 0
    BY EmptyQueue
  <2>3. \A i \in Slots, g \in Clients : fds[i] # Sock(g)
    BY FdKinds
  <2>4. \A i \in Slots : fds[i] = Listen => i = 1
    BY FdKinds
  <2> QED  BY <2>1, <2>2, <2>3, <2>4 DEF FdInv, Listed
<1>5. PassInv
  BY DEF PassInv
<1>6. TableInv
  <2>1. \A g \in Clients : Len(queue[g]) = 0
    BY EmptyQueue
  <2> QED  BY <2>1 DEF TableInv, Running
<1>7. InSequence
  <2>1. \A g \in Clients : At(g, 0)
    <3>1. \A g \in Clients : Len(queue[g]) = 0
      BY EmptyQueue
    <3> QED  BY <3>1 DEF At
  <2> QED  BY <2>1 DEF InSequence
<1>8. /\ NewestInv /\ HarmOnlyByEarlyKick /\ FirstInv /\ FirstClientSafe
      /\ NoLostKickOnceStarted
  BY DEF NewestInv, HarmOnlyByEarlyKick, FirstInv, FirstClientSafe,
         NoLostKickOnceStarted, NULL
<1> QED
  BY <1>2, <1>3, <1>4, <1>5, <1>6, <1>7, <1>8 DEF SessionInv

LEMMA SessionStutter == SessionInv /\ UNCHANGED vars => SessionInv'
<1> SUFFICES ASSUME SessionInv, UNCHANGED vars
             PROVE  SessionInv'
  OBVIOUS
<1>1. UNCHANGED <<gen, clientPc, step, addr, obj, linked, avail, used, writer,
                  backlog, queue, open, reply, kicked, server, fds, ready,
                  memory, desc, lastAvail, lastUsed, early>>
  BY DEF vars, client, shm, wires, rings
<1>2. TypeOK'
  BY <1>1 DEF SessionInv, TypeOK
<1>3. FdInv' /\ PassInv'
  BY <1>1, FdKept DEF SessionInv, PassInv, Known
<1>4. TableInv'
  <2>1. Taken' = Taken
    BY <1>1 DEF Taken
  <2> QED  BY <1>1, <2>1 DEF SessionInv, TableInv, Listed, Running
<1>5. \A g \in Clients : InPass(g)' <=> InPass(g)
  BY <1>1 DEF InPass
<1> QED  BY <1>1, <1>2, <1>3, <1>4, <1>5, PassGoesOn DEF SessionInv

LEMMA SessionStep == SessionInv /\ [Next]_vars => SessionInv'
<1> SUFFICES ASSUME SessionInv, [Next]_vars
             PROVE  SessionInv'
  OBVIOUS
<1>1. CASE Client
  BY <1>1, ConnectKeeps, SendKeeps, GetReplyKeeps, KickKeeps, StartClientKeeps,
     PutKeeps, ExitKeeps, KilledKeeps
     DEF Client, Proceed
<1>2. CASE Select \/ Accept
  BY <1>2, SelectKeeps, AcceptKeeps
<1>3. ASSUME NEW g \in Clients, Handler(g)
      PROVE  SessionInv'
  <2>1. CASE Close(g) \/ NoEffect(g) \/ GetFeatures(g) \/ SetMemTable(g)
    BY <2>1, CloseKeeps, NoEffectKeeps, GetFeaturesKeeps, SetMemTableKeeps
  <2>2. ASSUME NEW r \in Rings,
               SetVringBase(g, r) \/ SetVringKick(g, r) \/ SetVringAddr(g, r)
        PROVE  SessionInv'
    BY <2>2, SetVringBaseHolds, SetVringKickKeeps, SetVringAddrKeeps
  <2>3. CASE KickBeforeAddr(g) \/ ProcessTX(g) \/ ProcessUnmapped(g) \/ ProcessRunaway(g)
    BY <2>3, KickBeforeAddrKeeps, ProcessTXKeeps, ProcessUnmappedKeeps,
       ProcessRunawayKeeps
  <2> QED  BY <1>3, <2>1, <2>2, <2>3 DEF Handler
<1>4. CASE UNCHANGED vars
  BY <1>4, SessionStutter
<1> QED  BY <1>1, <1>2, <1>3, <1>4 DEF Next, Server

(* The invariant of the control plane. *)
THEOREM SessionInvariant == Spec => []SessionInv
BY SessionInit, SessionStep, PTL DEF Spec

(* Every variable has its type; so lastUsed never falls below 0 and no queue
   holds more than what a client sends. *)
THEOREM TypeCorrect == Spec => []TypeOK
<1>1. SessionInv => TypeOK
  BY DEF SessionInv
<1> QED  BY <1>1, SessionInvariant, PTL

(* No handler of a pass blocks: what process_fd_set (common/fd_list.c) calls
   accept or recvmsg for still has something to give, whatever the handlers
   before it in the pass have added to the list or removed from it. *)
THEOREM PassNeverBlocks == Spec => []HandlersNeverBlock
<1>1. SessionInv => HandlersNeverBlock
  <2> SUFFICES ASSUME SessionInv, NEW i \in ready, fds[i][1] # "kick"
               PROVE  Readable(fds[i])
    BY DEF HandlersNeverBlock
  <2>1. i \in Slots /\ fds[i] \in Fds
    BY DEF SessionInv, TypeOK
  <2>2. PICK fd \in Fds : fd = fds[i]
    BY <2>1
  <2>3. CASE fd = Free
    BY <2>2, <2>3 DEF SessionInv, PassInv
  <2>4. CASE fd = Listen
    BY <2>2, <2>4, ReadableKinds DEF SessionInv, PassInv
  <2>5. ASSUME NEW g \in Clients, fd = Sock(g)
        PROVE  Readable(fds[i])
    BY <2>2, <2>5, ReadableKinds DEF SessionInv, PassInv
  <2>6. \A g \in Clients : fd # Kickfd(g)
    BY <2>2 DEF Kickfd
  <2> QED  BY <2>2, <2>3, <2>4, <2>5, <2>6, FdTypes
<1> QED  BY <1>1, SessionInvariant, PTL

(* As long as there has been one client, nothing but a reply to a client that
   has gone stops the server (demo/vhost_client.c sends its messages without
   waiting, and kicks before the server has them). *)
THEOREM FirstClientIsSafe == Spec => []FirstClientSafe
<1>1. SessionInv => FirstClientSafe
  BY DEF SessionInv
<1> QED  BY <1>1, SessionInvariant, PTL

(* A packet of the first client that the server has not seen has a kick coming,
   once a kick has found the ring in place. *)
THEOREM StartedRingIsKicked == Spec => []NoLostKickOnceStarted
<1>1. SessionInv => NoLostKickOnceStarted
  BY DEF SessionInv
<1> QED  BY <1>1, SessionInvariant, PTL

(* With any number of clients one after the other, the server copies from an
   unmapped address or finds last_avail_idx ahead of avail->idx only after a
   kick that came before the newest client's SET_VRING_ADDR of TX. *)
THEOREM HarmIsByEarlyKick == Spec => []HarmOnlyByEarlyKick
<1>1. SessionInv => HarmOnlyByEarlyKick
  BY DEF SessionInv
<1> QED  BY <1>1, SessionInvariant, PTL
-----------------------------------------------------------------------------
(***************************************************************************)
(* The eventfds.  They are never removed from the fd list, so that it must *)
(* have room for one of each client up to the one that runs, besides the   *)
(* sockets.                                                                *)
(***************************************************************************)

KickMsg == <<"kick", "TX">>

(* Every eventfd is listed at most once, and not before the server has taken
   SET_VRING_KICK of TX from its client; the running client's is listed once it
   has, unless the list is too short. *)
KickInv ==
  /\ \A i, j \in Slots, g \in Clients :
       fds[i] = Kickfd(g) /\ fds[j] = Kickfd(g) => i = j
  /\ \A g \in Clients : Listed(Kickfd(g)) =>
       /\ g <= gen
       /\ g = gen /\ Running => step > 11
       /\ \A k \in 1 .. Len(queue[g]) : queue[g][k] # KickMsg
  /\ Running /\ Taken >= 11 /\ 2 * gen < FdListSize => Listed(Kickfd(gen))

LEMMA KickPlace == \A i \in 1 .. 14 : Msgs[i] = KickMsg <=> i = 11
BY MsgPlaces DEF KickMsg

(* KickListened speaks of the message, KickInv of its place. *)
LEMMA TakenKick ==
  ASSUME SessionInv, HasTaken(<<"kick", "TX">>)
  PROVE  Taken >= 11
<1>1. gen # 0 /\ Taken \in Int /\ Len(queue[gen]) \in Nat
  BY SessionFacts DEF HasTaken
<1>2. PICK i \in 1 .. Taken : Handshake[i] = <<"kick", "TX">>
  BY DEF HasTaken
<1>3. i \in 1 .. 13 => i = 11
  BY <1>2, MsgPlaces
<1> QED  BY <1>1, <1>2, <1>3

(* The newest client's eventfd, when it is not listed, finds room in a list with
   more slots than there are other descriptors of the clients so far. *)
LEMMA RoomForKick ==
  ASSUME SessionInv, KickInv, gen # 0, 2 * gen < FdListSize,
         ~ Listed(Kickfd(gen))
  PROVE  \E f \in Slots : fds[f] = Free
<1>1. /\ gen \in Nat \ {0} /\ gen \in Clients /\ Clients \subseteq Nat \ {0}
      /\ FdListSize \in Nat \ {0} /\ Slots = 1 .. FdListSize
  BY SessionFacts, SessionAssumption DEF Slots
<1> SUFFICES ASSUME \A f \in Slots : fds[f] # Free
             PROVE  FALSE
  OBVIOUS
<1>2. \A i \in Slots : \/ fds[i] = Listen
                       \/ \E h \in Clients : fds[i] = Sock(h) /\ h <= gen
                       \/ \E h \in Clients : fds[i] = Kickfd(h) /\ h < gen
  <2>1. ASSUME NEW i \in Slots, NEW h \in Clients, fds[i] = Sock(h)
        PROVE  h <= gen
    <3>1. Known(h)
      BY <2>1 DEF SessionInv, FdInv, Listed
    <3> QED  BY <1>1, <3>1 DEF Known
  <2>2. ASSUME NEW i \in Slots, NEW h \in Clients, fds[i] = Kickfd(h)
        PROVE  h < gen
    <3>1. h <= gen
      BY <2>2 DEF KickInv, Listed
    <3>2. h # gen
      BY <2>2 DEF Listed
    <3> QED  BY <1>1, <3>1, <3>2
  <2>3. \A i \in Slots : \/ fds[i] = Listen
                         \/ \E h \in Clients : fds[i] = Sock(h) \/ fds[i] = Kickfd(h)
    BY FdTypes DEF SessionInv, TypeOK
  <2> QED  BY <2>1, <2>2, <2>3
<1> DEFINE code(fd) == IF fd[1] = "listen" THEN 0
                       ELSE IF fd[1] = "sock" THEN fd[2]
                       ELSE gen + fd[2]
           T == 0 .. 2 * gen - 1
           c == [i \in Slots |-> code(fds[i])]
<1>3. /\ code(Listen) = 0
      /\ \A h \in Clients : code(Sock(h)) = h /\ code(Kickfd(h)) = gen + h
  BY DEF Listen, Sock, Kickfd
<1>4. \A i \in Slots :
        \/ fds[i] = Listen /\ c[i] = 0
        \/ \E h \in Clients : fds[i] = Sock(h) /\ c[i] = h /\ h <= gen
        \/ \E h \in Clients : fds[i] = Kickfd(h) /\ c[i] = gen + h /\ h < gen
  <2>1. \A i \in Slots : c[i] = code(fds[i])
    OBVIOUS
  <2> HIDE DEF c, code
  <2> QED  BY <1>2, <1>3, <2>1
<1> HIDE DEF code
<1>5. c \in [Slots -> T]
  <2>1. ASSUME NEW i \in Slots
        PROVE  c[i] \in T
    <3>1. CASE c[i] = 0
      BY <1>1, <3>1
    <3>2. ASSUME NEW h \in Clients, c[i] = h, h <= gen
          PROVE  c[i] \in T
      BY <1>1, <3>2
    <3>3. ASSUME NEW h \in Clients, c[i] = gen + h, h < gen
          PROVE  c[i] \in T
      BY <1>1, <3>3
    <3> HIDE DEF c, T
    <3> QED  BY <1>4, <3>1, <3>2, <3>3
  <2> QED  BY <2>1
<1>6. /\ IsFiniteSet(Slots) /\ Cardinality(Slots) = FdListSize
      /\ IsFiniteSet(T) /\ Cardinality(T) = 2 * gen
  BY <1>1, FS_Interval
<1>7. PICK i \in Slots, j \in Slots : i # j /\ c[i] = c[j]
  <2>1. Cardinality(T) < Cardinality(Slots)
    BY <1>1, <1>6
  <2> HIDE DEF c, T
  <2> QED  BY <1>5, <1>6, <2>1, FS_PigeonHole
<1>8. \/ fds[i] = Listen /\ fds[j] = Listen
      \/ \E h \in Clients : fds[i] = Sock(h) /\ fds[j] = Sock(h)
      \/ \E h \in Clients : fds[i] = Kickfd(h) /\ fds[j] = Kickfd(h)
  <2> HIDE DEF c
  <2> QED  BY <1>1, <1>4, <1>7
<1> QED  BY <1>7, <1>8 DEF SessionInv, FdInv, KickInv

(* A step that sends and receives nothing and leaves the eventfds listed. *)
LEMMA KicksQuiet ==
  ASSUME SessionInv, KickInv, UNCHANGED <<gen, queue>>,
         \A i \in Slots, g \in Clients : fds'[i] = Kickfd(g) <=> fds[i] = Kickfd(g),
         Running' => Running /\ Taken' = Taken /\ step' >= step /\ step' \in Nat
  PROVE  KickInv'
<1>1. \A g \in Clients : Listed(Kickfd(g))' <=> Listed(Kickfd(g))
  BY DEF Listed
<1>2. ASSUME NEW g \in Clients, Listed(Kickfd(g))'
      PROVE  /\ g <= gen
             /\ g = gen /\ Running' => step' > 11
             /\ \A k \in 1 .. Len(queue[g]) : queue[g][k] # KickMsg
  BY <1>1, <1>2, SessionFacts DEF KickInv
<1>3. ASSUME Running', Taken' >= 11, 2 * gen < FdListSize
      PROVE  Listed(Kickfd(gen))'
  <2>1. PICK g \in Clients : g = gen
    BY <1>3, SessionFacts
  <2>2. Listed(Kickfd(g))'
    BY <1>1, <1>3, <2>1 DEF KickInv
  <2> QED  BY <2>1, <2>2 DEF Listed
<1> QED  BY <1>2, <1>3 DEF KickInv

LEMMA StartClientKicks ==
  ASSUME SessionInv, KickInv, StartClient
  PROVE  KickInv'
<1>1. /\ gen \in Nat /\ gen + 1 \in Clients /\ gen' = gen + 1
      /\ clientPc' = "connect" /\ step' = 1 /\ UNCHANGED <<queue, fds>>
      /\ \A g \in Clients : g \in Nat
  BY SessionFacts DEF StartClient, wires
<1> PICK n \in Clients : n = gen + 1
  BY <1>1
<1>2. \A g \in Clients : Listed(Kickfd(g))' <=> Listed(Kickfd(g))
  BY <1>1 DEF Listed
<1>3. ASSUME NEW g \in Clients, Listed(Kickfd(g))'
      PROVE  /\ g <= gen' /\ g # gen'
             /\ \A k \in 1 .. Len(queue[g]) : queue[g][k] # KickMsg
  BY <1>1, <1>2, <1>3 DEF KickInv
<1>4. Taken' = 0
  <2>1. queue[n] = <<>>
    BY <1>1 DEF SessionInv, ClientInv, Known
  <2>2. Len(queue'[gen']) = 0
    BY <1>1, <2>1, EmptyQueue
  <2> QED  BY <1>1, <2>2 DEF Taken
<1> QED  BY <1>1, <1>3, <1>4 DEF KickInv

(* Sending SET_VRING_KICK is the eleventh step of the handshake. *)
LEMMA SendKicks ==
  ASSUME SessionInv, KickInv, NEW n \in 1 .. 14, UNCHANGED <<gen, fds>>,
         queue' = [queue EXCEPT ![gen] = Append(@, Msgs[n])],
         Running, n = step \/ n = 14,
         Running' => Taken' = Taken /\ step' >= step /\ step' \in Nat
  PROVE  KickInv'
<1>1. /\ gen \in Clients /\ step \in 1 .. 14
      /\ queue \in [Clients -> Seq(Messages)] /\ Msgs[n] \in Messages
  BY SessionFacts DEF SessionInv, InSequence, Messages
<1>2. /\ \A g \in Clients : g # gen => queue'[g] = queue[g]
      /\ queue'[gen] = Append(queue[gen], Msgs[n])
  BY <1>1
<1>3. \A k \in 1 .. Len(queue'[gen]) :
        \/ k \in 1 .. Len(queue[gen]) /\ queue'[gen][k] = queue[gen][k]
        \/ queue'[gen][k] = Msgs[n]
  BY <1>1, <1>2, AppendFacts
<1>4. \A g \in Clients : Listed(Kickfd(g))' <=> Listed(Kickfd(g))
  BY DEF Listed
<1>5. ASSUME NEW g \in Clients, Listed(Kickfd(g))'
      PROVE  /\ g <= gen
             /\ g = gen /\ Running' => step' > 11
             /\ \A k \in 1 .. Len(queue'[g]) : queue'[g][k] # KickMsg
  <2>1. /\ g <= gen
        /\ g = gen => step > 11
        /\ \A k \in 1 .. Len(queue[g]) : queue[g][k] # KickMsg
    BY <1>4, <1>5 DEF KickInv
  <2>2. g = gen => Msgs[n] # KickMsg
    <3>1. g = gen => n # 11
      BY <1>1, <2>1
    <3> QED  BY <3>1, KickPlace
  <2>3. g = gen /\ Running' => step' > 11
    BY <1>1, <2>1
  <2> QED  BY <1>2, <1>3, <2>1, <2>2, <2>3
<1>6. ASSUME Running', Taken' >= 11, 2 * gen < FdListSize
      PROVE  Listed(Kickfd(gen))'
  <2>1. PICK g \in Clients : g = gen
    BY <1>1
  <2>2. Listed(Kickfd(g))'
    BY <1>4, <1>6, <2>1 DEF KickInv
  <2> QED  BY <2>1, <2>2 DEF Listed
<1> QED  BY <1>5, <1>6 DEF KickInv

(* Taking a message: SET_VRING_KICK of TX adds its sender's eventfd if there is
   room, and no other message touches an eventfd. *)
LEMMA ReceivedKicks ==
  ASSUME SessionInv, KickInv,
         NEW g \in Clients, NEW m, Receives(g, m),
         UNCHANGED <<gen, clientPc, step>>,
         m # KickMsg => fds' = fds,
         m = KickMsg => fds' = WithFd(Kickfd(g))
  PROVE  KickInv'
<1>1. /\ Len(queue[g]) \in Nat \ {0} /\ m = queue[g][1]
      /\ Len(queue'[g]) = Len(queue[g]) - 1
      /\ \A i \in 1 .. Len(queue[g]) - 1 :
           queue'[g][i] = queue[g][i + 1] /\ i + 1 \in 1 .. Len(queue[g])
      /\ \A h \in Clients : h # g => queue'[h] = queue[h]
      /\ g <= gen /\ gen # 0 /\ gen \in Clients
      /\ Taken \in Int
      /\ g = gen => Taken' = Taken + 1
      /\ g # gen => Taken' = Taken
  BY Received
<1>2. ASSUME NEW h \in Clients, \A k \in 1 .. Len(queue[h]) : queue[h][k] # KickMsg
      PROVE  \A k \in 1 .. Len(queue'[h]) : queue'[h][k] # KickMsg
  <2>1. CASE h = g
    <3>1. ASSUME NEW k \in 1 .. Len(queue'[g])
          PROVE  queue'[g][k] = queue[g][k + 1] /\ k + 1 \in 1 .. Len(queue[g])
      BY <1>1, <3>1
    <3> QED  BY <1>2, <2>1, <3>1
  <2>2. CASE h # g
    BY <1>1, <1>2, <2>2
  <2> QED  BY <2>1, <2>2
<1>3. ASSUME NEW t \in 0 .. 14, At(g, t)
      PROVE  t + 1 \in 1 .. 14 /\ m = Msgs[t + 1]
  <2>1. Len(queue[g]) + t <= 14 /\ queue[g][1] = Msgs[t + 1]
    BY <1>1, <1>3 DEF At
  <2> QED  BY <1>1, <2>1
<1>4. g = gen /\ Running => (m = KickMsg <=> Taken = 10)
  <2>1. SUFFICES ASSUME g = gen, Running
                 PROVE  m = KickMsg <=> Taken = 10
    OBVIOUS
  <2>2. PICK t \in 0 .. 14 : t = Taken /\ At(g, t)
    BY <2>1, PlaceOfRunning DEF Position
  <2>3. t + 1 \in 1 .. 14 /\ m = Msgs[t + 1]
    BY <1>3, <2>2
  <2>4. m = KickMsg <=> t + 1 = 11
    BY <2>3, KickPlace
  <2> QED  BY <2>2, <2>4
<1>5. m = KickMsg => ~ Listed(Kickfd(g))
  <2>1. SUFFICES ASSUME m = KickMsg
                 PROVE  ~ Listed(Kickfd(g))
    OBVIOUS
  <2>2. 1 \in 1 .. Len(queue[g]) /\ queue[g][1] = KickMsg
    BY <1>1, <2>1
  <2>3. Listed(Kickfd(g)) =>
          \A k \in 1 .. Len(queue[g]) : queue[g][k] # KickMsg
    BY DEF KickInv
  <2> QED  BY <2>2, <2>3
<1>6. CASE \/ m # KickMsg
           \/ WithFd(Kickfd(g)) = fds /\ \A f \in Slots : fds[f] # Free
  <2>1. fds' = fds
    BY <1>6
  <2>2. \A h \in Clients : Listed(Kickfd(h))' <=> Listed(Kickfd(h))
    BY <2>1 DEF Listed
  <2>3. ASSUME NEW h \in Clients, Listed(Kickfd(h))'
        PROVE  /\ h <= gen
               /\ h = gen /\ Running => step > 11
               /\ \A k \in 1 .. Len(queue'[h]) : queue'[h][k] # KickMsg
    BY <1>2, <2>2, <2>3 DEF KickInv
  <2>4. ASSUME Running, Taken' >= 11, 2 * gen < FdListSize
        PROVE  Listed(Kickfd(gen))'
    <3>0. m = KickMsg => g # gen
      BY <1>1, <1>5, <1>6, <2>4, RoomForKick
    <3>1. Taken >= 11
      BY <1>1, <1>4, <2>4, <3>0
    <3>2. PICK h \in Clients : h = gen
      BY <1>1
    <3>3. Listed(Kickfd(h))'
      BY <2>2, <2>4, <3>1, <3>2 DEF KickInv
    <3> QED  BY <3>2, <3>3 DEF Listed
  <2> QED  BY <2>1, <2>3, <2>4 DEF KickInv, Running
<1>7. CASE m = KickMsg /\ \E f \in Slots : /\ fds[f] = Free
                                           /\ WithFd(Kickfd(g))
                                              = [fds EXCEPT ![f] = Kickfd(g)]
  <2>2. PICK f \in Slots : fds[f] = Free /\ fds' = [fds EXCEPT ![f] = Kickfd(g)]
    BY <1>7
  <2>3. \A i \in Slots, h \in Clients :
          fds'[i] = Kickfd(h) <=> fds[i] = Kickfd(h) \/ (i = f /\ h = g)
    BY <2>2, FdKinds DEF SessionInv, TypeOK
  <2>4. \A h \in Clients : Listed(Kickfd(h))' <=> Listed(Kickfd(h)) \/ h = g
    BY <2>3 DEF Listed
  <2>5. \A i, j \in Slots, h \in Clients :
          fds'[i] = Kickfd(h) /\ fds'[j] = Kickfd(h) => i = j
    BY <1>5, <1>7, <2>3 DEF KickInv, Listed
  <2>6. g = gen /\ Running => step > 11
    <3>1. SUFFICES ASSUME g = gen, Running
                   PROVE  step > 11
      OBVIOUS
    <3>2. Taken = 10
      BY <1>4, <1>7, <3>1
    <3>3. PICK q \in Nat \ {0} : q = Len(queue[gen])
      BY <1>1, <3>1
    <3>4. Taken = step - (IF clientPc = "wait" THEN 0 ELSE 1) - q
      BY <3>3 DEF Taken
    <3>5. step \in 1 .. 14 /\ (clientPc = "wait" => step = 2)
      BY SessionFacts DEF SessionInv, ClientInv
    <3>6. clientPc # "wait"
      <4>1. clientPc = "wait" => Taken = 2 - q
        BY <3>4, <3>5
      <4> QED  BY <3>2, <3>3, <4>1
    <3>7. Taken = (step - 1) - q
      BY <3>4, <3>6
    <3> QED  BY <3>2, <3>3, <3>5, <3>7
  <2>7. ASSUME NEW k \in 1 .. Len(queue'[g])
        PROVE  queue'[g][k] # KickMsg
    <3>1. PICK t \in 0 .. 14 : At(g, t)
      BY DEF SessionInv, InSequence
    <3>2. t = 10
      <4>1. t + 1 \in 1 .. 14 /\ m = Msgs[t + 1]
        BY <1>3, <3>1
      <4>2. t + 1 = 11
        BY <1>7, <4>1, KickPlace
      <4> QED  BY <4>2
    <3>3. k + 1 \in 1 .. Len(queue[g]) /\ queue'[g][k] = queue[g][k + 1]
      BY <1>1
    <3>4. queue[g][k + 1] = Msgs[10 + (k + 1)] /\ Len(queue[g]) + 10 <= 14
      BY <3>1, <3>2, <3>3 DEF At
    <3>5. 10 + (k + 1) \in 1 .. 14 /\ 10 + (k + 1) # 11
      BY <1>1, <3>3, <3>4
    <3> QED  BY <3>3, <3>4, <3>5, KickPlace
  <2>8. ASSUME NEW h \in Clients, Listed(Kickfd(h))'
        PROVE  /\ h <= gen
               /\ h = gen /\ Running => step > 11
               /\ \A k \in 1 .. Len(queue'[h]) : queue'[h][k] # KickMsg
    <3>1. CASE h = g
      BY <1>1, <2>6, <2>7, <3>1
    <3>2. CASE h # g
      BY <1>2, <2>4, <2>8, <3>2 DEF KickInv
    <3> QED  BY <3>1, <3>2
  <2>9. ASSUME Running, Taken' >= 11, 2 * gen < FdListSize
        PROVE  Listed(Kickfd(gen))'
    <3>1. PICK h \in Clients : h = gen
      BY <1>1
    <3>2. h # g => Listed(Kickfd(h))
      BY <1>1, <2>9, <3>1 DEF KickInv
    <3>3. Listed(Kickfd(h))'
      BY <2>4, <3>2
    <3> QED  BY <3>1, <3>3 DEF Listed
  <2> QED  BY <2>5, <2>8, <2>9 DEF KickInv, Running
<1> QED
  <2>1. \/ WithFd(Kickfd(g)) = fds /\ \A f \in Slots : fds[f] # Free
        \/ \E f \in Slots : /\ fds[f] = Free
                           /\ WithFd(Kickfd(g)) = [fds EXCEPT ![f] = Kickfd(g)]
    BY WithFdSlot
  <2> QED  BY <1>6, <1>7, <2>1

LEMMA HandlerKicks ==
  ASSUME SessionInv, KickInv,
         NEW g \in Clients, Handler(g)
  PROVE  KickInv'
<1>1. ASSUME NEW m, Receives(g, m), m # KickMsg,
             UNCHANGED <<gen, clientPc, step, fds>>
      PROVE  KickInv'
  BY <1>1, ReceivedKicks
<1>2. CASE NoEffect(g)
  <2>1. PICK m \in {<<"owner", "-">>, <<"reset", "-">>}
                     \cup ({"num", "call"} \X Rings) : Receives(g, m)
    BY <1>2 DEF NoEffect
  <2>2. m # KickMsg
    BY DEF KickMsg
  <2>3. UNCHANGED <<gen, clientPc, step, fds>>
    BY <1>2 DEF NoEffect, client
  <2> QED  BY <1>1, <2>1, <2>2, <2>3
<1>3. CASE GetFeatures(g)
  <2>1. /\ Receives(g, <<"features", "-">>) /\ <<"features", "-">> # KickMsg
        /\ UNCHANGED <<gen, clientPc, step, fds>>
    BY <1>3 DEF GetFeatures, client, KickMsg
  <2> QED  BY <1>1, <2>1
<1>4. CASE SetMemTable(g)
  <2>1. /\ Receives(g, <<"mem", "-">>) /\ <<"mem", "-">> # KickMsg
        /\ UNCHANGED <<gen, clientPc, step, fds>>
    BY <1>4 DEF SetMemTable, client, KickMsg
  <2> QED  BY <1>1, <2>1
<1>5. ASSUME NEW r \in Rings, SetVringBase(g, r)
      PROVE  KickInv'
  <2>1. /\ Receives(g, <<"base", r>>) /\ <<"base", r>> # KickMsg
        /\ UNCHANGED <<gen, clientPc, step, fds>>
    BY <1>5 DEF SetVringBase, client, KickMsg
  <2> QED  BY <1>1, <2>1
<1>6. ASSUME NEW r \in Rings, SetVringAddr(g, r)
      PROVE  KickInv'
  <2>1. /\ Receives(g, <<"addr", r>>) /\ <<"addr", r>> # KickMsg
        /\ UNCHANGED <<gen, clientPc, step, fds>>
    BY <1>6 DEF SetVringAddr, client, KickMsg
  <2> QED  BY <1>1, <2>1
<1>7. ASSUME NEW r \in Rings, SetVringKick(g, r)
      PROVE  KickInv'
  <2>1. /\ Receives(g, <<"kick", r>>) /\ (<<"kick", r>> = KickMsg <=> r = "TX")
        /\ UNCHANGED <<gen, clientPc, step>>
    BY <1>7 DEF SetVringKick, client, KickMsg
  <2>2. fds' = IF r = "TX" THEN WithFd(Kickfd(g)) ELSE fds
    BY <1>7 DEF SetVringKick
  <2> QED  BY <2>1, <2>2, ReceivedKicks
<1>8. CASE Close(g)
  <2>1. /\ UNCHANGED <<gen, clientPc, step, queue>>
        /\ fds' = WithoutFd(Sock(g))
    BY <1>8 DEF Close, client, wires
  <2>2. \A i \in Slots, h \in Clients : fds'[i] = Kickfd(h) <=> fds[i] = Kickfd(h)
    BY <2>1, FdKinds DEF WithoutFd
  <2>3. Taken' = Taken /\ (Running' <=> Running) /\ step \in Nat
    BY <2>1, SessionFacts DEF Taken, Running
  <2> QED  BY <2>1, <2>2, <2>3, KicksQuiet
<1>9. ASSUME ReadKick(g)
      PROVE  KickInv'
  <2>1. UNCHANGED <<gen, clientPc, step, queue, fds>>
    BY <1>9 DEF ReadKick, client
  <2>2. Taken' = Taken /\ (Running' <=> Running) /\ step \in Nat
    BY <2>1, SessionFacts DEF Taken, Running
  <2> QED  BY <2>1, <2>2, KicksQuiet
<1> QED
  BY <1>2, <1>3, <1>4, <1>5, <1>6, <1>7, <1>8, <1>9
     DEF Handler, KickBeforeAddr, ProcessTX, ProcessUnmapped, ProcessRunaway

LEMMA ClientKicks ==
  ASSUME SessionInv, KickInv, Client
  PROVE  KickInv'
<1>0. Running => gen \in Clients /\ step \in 1 .. 14 /\ Taken \in Int
  BY SessionFacts
<1>1. CASE Connect
  <2>1. /\ UNCHANGED <<gen, step, queue, fds>>
        /\ clientPc = "connect" /\ clientPc' = "send"
    BY <1>1 DEF Connect
  <2>2. Taken' = Taken /\ Running
    BY <2>1 DEF Taken, Running
  <2> QED  BY <1>0, <2>1, <2>2, KicksQuiet
<1>2. CASE GetReply
  <2>1. /\ UNCHANGED <<gen, queue, fds>> /\ step' = step + 1
        /\ clientPc = "wait" /\ clientPc' = "send"
    BY <1>2 DEF GetReply
  <2>2. Running /\ Len(queue[gen]) \in Nat
    BY <2>1, SessionFacts DEF Running
  <2>3. Taken' = Taken
    BY <1>0, <2>1, <2>2 DEF Taken
  <2> QED  BY <1>0, <2>1, <2>2, <2>3, KicksQuiet
<1>3. CASE Put \/ Kick
  <2>1. /\ UNCHANGED <<gen, step, queue, fds>>
        /\ clientPc \in {"put", "kick"} /\ clientPc' \in {"put", "kick"}
    BY <1>3 DEF Put, Kick, wires
  <2>2. Taken' = Taken /\ Running
    BY <2>1 DEF Taken, Running
  <2> QED  BY <1>0, <2>1, <2>2, KicksQuiet
<1>4. CASE Killed
  <2>1. UNCHANGED <<gen, step, queue, fds>> /\ ~ Running'
    BY <1>4 DEF Killed, Running
  <2> QED  BY <2>1, KicksQuiet
<1>5. CASE Send
  <2>1. /\ clientPc = "send" /\ step \in 1 .. 13 /\ Running
        /\ UNCHANGED <<gen, fds>>
        /\ queue' = [queue EXCEPT ![gen] = Append(@, Handshake[step])]
    BY <1>0, <1>5 DEF Send, Running, SessionInv, ClientInv
  <2>2. Handshake[step] = Msgs[step]
    BY <2>1, MsgPlaces
  <2>3. \/ step = 2 /\ clientPc' = "wait" /\ step' = step
        \/ step # 2 /\ step' = step + 1 /\ clientPc' \in {"put", "send"}
    BY <1>5, <2>1, MsgPlaces DEF Send
  <2>4. /\ Len(queue[gen]) \in Nat
        /\ Len(queue'[gen]) = Len(queue[gen]) + 1
    <3>1. queue[gen] \in Seq(Messages) /\ Msgs[step] \in Messages
      BY <1>0, <2>1, SessionFacts DEF Messages
    <3>2. queue'[gen] = Append(queue[gen], Msgs[step])
      BY <1>0, <2>1, <2>2 DEF SessionInv, InSequence
    <3> QED  BY <3>1, <3>2, AppendFacts
  <2>5. Taken' = Taken
    <3>1. PICK q \in Nat : q = Len(queue[gen]) /\ q + 1 = Len(queue'[gen])
      BY <2>4
    <3>2. Taken = (step - 1) - q
      BY <2>1, <3>1 DEF Taken
    <3>3. Taken' = step' - (IF clientPc' = "wait" THEN 0 ELSE 1) - (q + 1)
      BY <2>1, <3>1 DEF Taken
    <3>4. Taken' = step - (q + 1)
      <4>1. CASE step = 2
        BY <2>3, <3>3, <4>1
      <4>2. CASE step # 2
        <5>1. step' = step + 1 /\ clientPc' # "wait"
          BY <2>3, <4>2
        <5>2. Taken' = (step' - 1) - (q + 1)
          BY <3>3, <5>1
        <5> QED  BY <2>1, <3>1, <5>1, <5>2
      <4> QED  BY <4>1, <4>2
    <3> QED  BY <2>1, <3>1, <3>2, <3>4
  <2>6. PICK n \in 1 .. 14 : n = step
    BY <2>1
  <2>7. step' >= step /\ step' \in Nat
    BY <2>1, <2>3
  <2> QED  BY <2>1, <2>2, <2>5, <2>6, <2>7, SendKicks
<1>6. CASE Exit
  <2>1. /\ UNCHANGED <<gen, fds>> /\ Running /\ ~ Running'
        /\ queue' = [queue EXCEPT ![gen] = Append(@, Msgs[14])]
    BY <1>6, MsgPlaces DEF Exit, Running
  <2> QED  BY <2>1, SendKicks
<1> QED
  BY <1>1, <1>2, <1>3, <1>4, <1>5, <1>6, StartClientKicks DEF Client, Proceed

LEMMA PassKicks ==
  ASSUME SessionInv, KickInv, Select \/ Accept \/ UNCHANGED vars
  PROVE  KickInv'
<1>1. UNCHANGED <<gen, clientPc, step, queue>>
  BY DEF Select, Accept, vars, client, wires
<1>2. Taken' = Taken /\ (Running' <=> Running) /\ step \in Nat
  BY <1>1, SessionFacts DEF Taken, Running
<1>3. \A i \in Slots, h \in Clients : fds'[i] = Kickfd(h) <=> fds[i] = Kickfd(h)
  <2>1. CASE fds' = fds
    BY <2>1
  <2>2. CASE Accept
    <3>1. fds' = WithFd(Sock(Head(backlog)))
      BY <2>2 DEF Accept
    <3>2. ASSUME NEW b, fds' = WithFd(Sock(b))
          PROVE  \A i \in Slots, h \in Clients :
                   fds'[i] = Kickfd(h) <=> fds[i] = Kickfd(h)
      <4>1. CASE fds' = fds
        BY <4>1
      <4>2. ASSUME NEW f \in Slots, fds[f] = Free,
                   fds' = [fds EXCEPT ![f] = Sock(b)]
            PROVE  \A i \in Slots, h \in Clients :
                     fds'[i] = Kickfd(h) <=> fds[i] = Kickfd(h)
        BY <4>2, FdKinds DEF SessionInv, TypeOK
      <4> QED  BY <3>2, <4>1, <4>2, WithFdSlot
    <3> QED  BY <3>1, <3>2
  <2> QED  BY <2>1, <2>2 DEF Select, vars
<1> QED  BY <1>1, <1>2, <1>3, KicksQuiet

(* For every client up to which the fd list has a slot for the listening socket
   and two for each client, the server listens for kicks from SET_VRING_KICK of TX
   on (vgpu_host.c:324), although _set_vring_kick ignores whether add_fd_list found
   room. *)
THEOREM KicksAreListened == Spec => []KickListened
<1>1. Init => KickInv
  <2> SUFFICES ASSUME Init
               PROVE  KickInv
    OBVIOUS
  <2>1. \A i \in Slots, g \in Clients : fds[i] # Kickfd(g)
    BY FdKinds DEF Init
  <2> QED  BY <2>1 DEF Init, KickInv, Listed, Running
<1>2. SessionInv /\ KickInv /\ [Next]_vars => KickInv'
  BY HandlerKicks, ClientKicks, PassKicks DEF Next, Server
<1>3. SessionInv /\ KickInv => KickListened
  BY TakenKick DEF KickInv, KickListened
<1> QED  BY <1>1, <1>2, <1>3, SessionInvariant, PTL DEF Spec
=============================================================================
