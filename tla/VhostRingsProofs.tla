--------------------------- MODULE VhostRingsProofs ---------------------------
(***************************************************************************)
(* What holds of stopping and restarting the rings for any number of       *)
(* packets and of stops: proofs of the invariants that MCVhostRings        *)
(* checks.  A restart may take last_avail_idx back, so the proofs follow   *)
(* the request that does it through the socket: what it carries, what may  *)
(* stand before it, and how often it was handled.                          *)
(***************************************************************************)
EXTENDS VhostRings, SequenceTheorems, TLAPS

Requests == [type : {"other", "base", "addr", "kick", "getbase"},
             ring : Rings, num : Nat]

-----------------------------------------------------------------------------
(* The parts of the inductive invariant. *)

(* The j-th request on the socket is one of this type for TX. *)
ForTx(j, type) == queue[j].type = type /\ queue[j].ring = "TX"

BaseQueued == \E j \in DOMAIN queue : ForTx(j, "base")

(* SET_VRING_BASE for TX carries the index that the master was told; the server
   still is as it was when it told it.  It comes once, and before the requests
   that start the ring.  Nothing follows GET_VRING_BASE. *)
QueueOK ==
  /\ queue \in Seq(Requests)
  /\ SOCK \in ready => queue # <<>>
  /\ \A j \in DOMAIN queue :
       /\ ForTx(j, "base") => /\ queue[j].num = base
                              /\ stopped \/ ~ desc["TX"]
       /\ queue[j].type = "getbase" => /\ j = Len(queue)
                                       /\ phase = "stopping"
       /\ queue[j].type = "kick" => queue[j].num \in Kickfds
  /\ \A j, k \in DOMAIN queue :
       ForTx(j, "base") /\ (\/ ForTx(k, "base") \/ ForTx(k, "addr")
                            \/ ForTx(k, "kick")) => j <= k

(* What the master's phase says of the socket and of the server. *)
PhaseOK ==
  /\ phase \in {"off", "stopped"} => queue = <<>>
  /\ phase = "off" => ~ desc["TX"]
  /\ phase = "stopped" => stopped
  /\ phase \in {"stopping", "stopped"} => stops >= 1
  /\ reply # NoReply => /\ phase = "stopping"
                        /\ queue = <<>>
                        /\ stopped

(* How often SET_VRING_BASE for TX has been handled. *)
Rounds == stops + (IF phase = "running" THEN 1 ELSE 0)
                - (IF BaseQueued THEN 1 ELSE 0)

(* Where the rings stopped: the index in the reply, or what became of it. *)
Mark == IF reply # NoReply THEN reply ELSE base

(* A packet is processed once a round, and what lies ahead of last_avail_idx
   and was processed already was processed late; so was, while the rings are
   stopped, what lies ahead of the index that the master was told. *)
RoundsOK ==
  /\ desc["TX"] => Rounds >= 1
  /\ ~ desc["TX"] => \A i \in Packets : taken[i] = 0
  /\ \A i \in Packets :
       /\ taken[i] <= Rounds
       /\ i > lastAvail /\ taken[i] > 0 => taken[i] < Rounds /\ i \in late
       /\ stopped /\ i > Mark /\ taken[i] > 0 => i \in late

RestartInv == /\ TypeOK
              /\ QueueOK
              /\ PhaseOK
              /\ RoundsOK
              /\ NothingSkipped
              /\ RepeatedOnlyIfLate

-----------------------------------------------------------------------------
(* Facts about a state in which RestartInv holds. *)

(* The counters are numbers, and there are at most MaxStops + 1 rounds. *)
LEMMA Counters ==
  ASSUME RestartInv
  PROVE  /\ MaxPackets \in Nat /\ MaxStops \in Nat
         /\ stops \in Nat /\ stops <= MaxStops
         /\ avail \in Nat /\ avail <= MaxPackets
         /\ lastAvail \in Nat /\ lastAvail <= avail
         /\ base \in Nat /\ base <= avail
         /\ reply \in Int /\ reply <= avail
         /\ Mark \in Int
         /\ Rounds \in Int /\ Rounds <= MaxStops + 1
         /\ \A i \in Packets : i \in Nat /\ taken[i] \in Nat
BY VhostRingsAssumption
   DEF RestartInv, TypeOK, NoReply, Mark, Rounds, Packets

(* What taking a request off the socket means: there is one, the phase is one
   in which the master sends, and what is left moves up by one. *)
LEMMA HandlingFacts ==
  ASSUME RestartInv, NEW type, Handling(type)
  PROVE  /\ queue # <<>>
         /\ Len(queue) \in Nat \ {0}
         /\ DOMAIN queue = 1 .. Len(queue)
         /\ Head(queue) = queue[1]
         /\ queue[1] \in Requests
         /\ queue[1].type = type
         /\ queue' \in Seq(Requests)
         /\ Len(queue') = Len(queue) - 1
         /\ DOMAIN queue' = 1 .. Len(queue) - 1
         /\ \A j \in 1 .. Len(queue) - 1 : queue'[j] = queue[j + 1]
         /\ reply = NoReply
         /\ phase \in {"running", "stopping"}
<1>1. queue # <<>> /\ queue \in Seq(Requests)
  BY DEF RestartInv, QueueOK, Handling
<1>2. /\ Len(queue) \in Nat \ {0}
      /\ DOMAIN queue = 1 .. Len(queue)
      /\ Head(queue) = queue[1]
      /\ queue[1] \in Requests
  BY <1>1, EmptySeq, LenProperties, ElementOfSeq
<1>3. /\ queue' \in Seq(Requests)
      /\ Len(queue') = Len(queue) - 1
      /\ \A j \in 1 .. Len(queue') : queue'[j] = queue[j + 1]
  BY <1>1, HeadTailProperties DEF Handling
<1>4. DOMAIN queue' = 1 .. Len(queue')
  BY <1>3, LenProperties
<1>5. reply = NoReply /\ phase \in {"running", "stopping"}
  BY <1>1 DEF RestartInv, TypeOK, PhaseOK
<1> QED  BY <1>1, <1>2, <1>3, <1>4, <1>5 DEF Handling

(* Taking a request off the socket keeps the order of the others; the server
   need only still be as it was for a SET_VRING_BASE among them. *)
LEMMA HandlingKeepsQueue ==
  ASSUME RestartInv, NEW type, Handling(type),
         \A j \in 2 .. Len(queue) :
           ForTx(j, "base") => stopped' \/ ~ desc'["TX"]
  PROVE  /\ QueueOK'
         /\ BaseQueued' <=> \E j \in 2 .. Len(queue) : ForTx(j, "base")
<1> DEFINE n == Len(queue)
<1>1. /\ n \in Nat \ {0}
      /\ DOMAIN queue = 1 .. n /\ DOMAIN queue' = 1 .. n - 1
      /\ queue' \in Seq(Requests) /\ Len(queue') = n - 1
      /\ \A j \in 1 .. n - 1 : queue'[j] = queue[j + 1]
  BY HandlingFacts
<1>2. UNCHANGED <<base, phase>> /\ SOCK \notin ready'
  BY DEF Handling, master
<1>3. \A j \in 1 .. n - 1 :
        /\ j + 1 \in DOMAIN queue /\ j + 1 \in 2 .. n
        /\ queue'[j] = queue[j + 1]
  BY <1>1
<1>4. ASSUME NEW j \in DOMAIN queue'
      PROVE  /\ ForTx(j, "base")' => /\ queue'[j].num = base
                                     /\ stopped' \/ ~ desc'["TX"]
             /\ queue'[j].type = "getbase" => /\ j = n - 1
                                              /\ phase = "stopping"
             /\ queue'[j].type = "kick" => queue'[j].num \in Kickfds
  <2>1. /\ j \in 1 .. n - 1 /\ j + 1 \in DOMAIN queue
        /\ j + 1 \in 2 .. n /\ queue'[j] = queue[j + 1]
    BY <1>1, <1>3
  <2>2. ForTx(j, "base")' <=> ForTx(j + 1, "base")
    BY <2>1 DEF ForTx
  <2>3. /\ ForTx(j + 1, "base") => queue[j + 1].num = base
        /\ queue[j + 1].type = "getbase" => /\ j + 1 = n
                                            /\ phase = "stopping"
        /\ queue[j + 1].type = "kick" => queue[j + 1].num \in Kickfds
    BY <2>1 DEF RestartInv, QueueOK
  <2>4. j + 1 = n => j = n - 1
    BY <1>1, <2>1
  <2> QED  BY <2>1, <2>2, <2>3, <2>4
<1>5. ASSUME NEW j \in DOMAIN queue', NEW k \in DOMAIN queue',
             ForTx(j, "base")',
             (ForTx(k, "base") \/ ForTx(k, "addr") \/ ForTx(k, "kick"))'
      PROVE  j <= k
  <2>1. /\ j \in 1 .. n - 1 /\ j + 1 \in DOMAIN queue
        /\ k \in 1 .. n - 1 /\ k + 1 \in DOMAIN queue
        /\ queue'[j] = queue[j + 1] /\ queue'[k] = queue[k + 1]
    BY <1>1, <1>3
  <2>2. /\ ForTx(j + 1, "base")
        /\ ForTx(k + 1, "base") \/ ForTx(k + 1, "addr") \/ ForTx(k + 1, "kick")
    BY <1>5, <2>1 DEF ForTx
  <2>3. j + 1 <= k + 1
    BY <2>1, <2>2 DEF RestartInv, QueueOK
  <2> QED  BY <1>1, <2>1, <2>3
<1>6. QueueOK'
  BY <1>1, <1>2, <1>4, <1>5 DEF QueueOK
<1>7. BaseQueued' <=> \E j \in 2 .. n : ForTx(j, "base")
  <2>1. ASSUME NEW j \in 2 .. n
        PROVE  j - 1 \in DOMAIN queue' /\ queue'[j - 1] = queue[j]
    <3>1. j - 1 \in 1 .. n - 1 /\ (j - 1) + 1 = j
      BY <1>1
    <3> QED  BY <1>1, <3>1
  <2>2. BaseQueued' => \E j \in 2 .. n : ForTx(j, "base")
    BY <1>1, <1>3 DEF BaseQueued, ForTx
  <2>3. (\E j \in 2 .. n : ForTx(j, "base")) => BaseQueued'
    BY <2>1 DEF BaseQueued, ForTx
  <2> QED  BY <2>2, <2>3
<1> QED  BY <1>6, <1>7

(* A request other than SET_VRING_BASE for TX, and other than the ones that
   undo what it finds, leaves the rounds as they are. *)
LEMMA HandlingKeepsRounds ==
  ASSUME RestartInv, NEW type, Handling(type), ~ ForTx(1, "base"),
         \A j \in 2 .. Len(queue) :
           ForTx(j, "base") => stopped' \/ ~ desc'["TX"]
  PROVE  Rounds' = Rounds
<1>1. BaseQueued' <=> \E j \in 2 .. Len(queue) : ForTx(j, "base")
  BY HandlingKeepsQueue
<1>2. /\ DOMAIN queue = 1 .. Len(queue)
      /\ Len(queue) \in Nat \ {0}
  BY HandlingFacts
<1>3. \A j \in DOMAIN queue : j = 1 \/ j \in 2 .. Len(queue)
  BY <1>2
<1>4. \A j \in 2 .. Len(queue) : j \in DOMAIN queue
  BY <1>2
<1>5. BaseQueued <=> \E j \in 2 .. Len(queue) : ForTx(j, "base")
  BY <1>3, <1>4 DEF BaseQueued
<1>6. UNCHANGED <<stops, phase>>
  BY DEF Handling, master
<1> QED  BY <1>1, <1>5, <1>6 DEF Rounds

(* Where SET_VRING_ADDR or SET_VRING_KICK for TX comes, SET_VRING_BASE for TX
   came before it. *)
LEMMA NoBaseBehind ==
  ASSUME RestartInv, NEW type, Handling(type),
         ForTx(1, "base") \/ ForTx(1, "addr") \/ ForTx(1, "kick")
  PROVE  \A j \in 2 .. Len(queue) : ~ ForTx(j, "base")
<1>1. /\ DOMAIN queue = 1 .. Len(queue)
      /\ Len(queue) \in Nat \ {0}
  BY HandlingFacts
<1>2. ASSUME NEW j \in 2 .. Len(queue), ForTx(j, "base")
      PROVE  FALSE
  <2>1. j \in DOMAIN queue /\ 1 \in DOMAIN queue
    BY <1>1
  <2>2. j <= 1
    BY <1>2, <2>1 DEF RestartInv, QueueOK
  <2> QED  BY <2>2
<1> QED  BY <1>2

(* A SET_VRING_BASE still on the socket finds the server as it was. *)
LEMMA BaseFinds ==
  ASSUME RestartInv, NEW type, Handling(type),
         NEW j \in 1 .. Len(queue), ForTx(j, "base")
  PROVE  queue[j].num = base /\ (stopped \/ ~ desc["TX"])
<1>1. DOMAIN queue = 1 .. Len(queue)
  BY HandlingFacts
<1> QED  BY <1>1 DEF RestartInv, QueueOK

-----------------------------------------------------------------------------
(* The server's steps. *)

(* process_avail_vring, once the ring has its addresses: what it takes again
   is known to be late, and nobody takes a packet twice in a round. *)
LEMMA ProcessKeeps ==
  ASSUME RestartInv, Process, desc["TX"],
         UNCHANGED <<master, avail, queue, reply, desc>>
  PROVE  /\ lastAvail' \in 0 .. avail
         /\ {used', lastUsed'} \subseteq Nat
         /\ taken' \in [Packets -> 0 .. MaxStops + 1]
         /\ late' \subseteq Packets
         /\ RoundsOK' /\ NothingSkipped' /\ RepeatedOnlyIfLate'
<1> USE DEF RestartInv
<1>1. Rounds' = Rounds /\ Mark' = Mark
  BY DEF Rounds, BaseQueued, ForTx, Mark, master
<1>2. Rounds >= 1
  BY DEF RoundsOK
<1>3. /\ lastAvail' = avail
      /\ stopped' = stopped
      /\ late \subseteq late'
      /\ stopped => \A i \in lastAvail + 1 .. avail : i \in late'
  BY DEF Process
<1>4. ASSUME NEW i \in Packets
      PROVE  /\ i \in lastAvail + 1 .. avail => taken'[i] = taken[i] + 1
             /\ i \notin lastAvail + 1 .. avail => taken'[i] = taken[i]
  BY DEF Process
<1>5. ASSUME NEW i \in Packets
      PROVE  /\ taken'[i] \in Nat /\ taken'[i] <= Rounds
             /\ taken'[i] > 0 => taken[i] > 0 \/ i \in lastAvail + 1 .. avail
             /\ i <= avail => taken'[i] > 0
             /\ taken[i] > 0 => taken'[i] > 0
             /\ i > avail => taken'[i] = taken[i]
             /\ taken'[i] > 1 => i \in late'
  <2>1. /\ i \in Nat /\ taken[i] \in Nat /\ lastAvail \in Nat
        /\ avail \in Nat /\ lastAvail <= avail /\ Rounds \in Int
    BY Counters
  <2>2. /\ taken[i] <= Rounds
        /\ i > lastAvail /\ taken[i] > 0 => taken[i] < Rounds /\ i \in late
        /\ taken[i] > 1 => i \in late
        /\ i <= lastAvail => taken[i] > 0
    BY DEF RoundsOK, RepeatedOnlyIfLate, NothingSkipped
  <2>3. CASE i \in lastAvail + 1 .. avail
    BY <1>2, <1>3, <1>4, <2>1, <2>2, <2>3
  <2>4. CASE i \notin lastAvail + 1 .. avail
    BY <1>3, <1>4, <2>1, <2>2, <2>4
  <2> QED  BY <2>3, <2>4
<1>6. /\ lastAvail' \in 0 .. avail
      /\ {used', lastUsed'} \subseteq Nat
      /\ taken' \in [Packets -> 0 .. MaxStops + 1]
      /\ late' \subseteq Packets
  <2>1. lastAvail' \in 0 .. avail
    BY <1>3, Counters
  <2>2. \A i \in Packets : taken'[i] \in 0 .. MaxStops + 1
    BY <1>5, Counters
  <2>3. taken' = [i \in Packets |-> taken'[i]]
    BY DEF Process
  <2>4. lastAvail + 1 .. avail \subseteq Packets
    BY Counters DEF Packets
  <2>5. late' \subseteq Packets
    BY <2>4 DEF Process, TypeOK
  <2>6. {used', lastUsed'} \subseteq Nat
    BY Counters DEF Process, TypeOK
  <2> QED  BY <2>1, <2>2, <2>3, <2>5, <2>6
<1>7. RoundsOK'
  <2>1. ASSUME NEW i \in Packets, stopped, i > Mark, taken'[i] > 0
        PROVE  i \in late'
    BY <1>3, <1>5, <2>1 DEF RoundsOK
  <2>2. ASSUME NEW i \in Packets, i > avail, taken'[i] > 0
        PROVE  taken'[i] < Rounds /\ i \in late'
    BY <1>3, <1>5, <2>2, Counters DEF RoundsOK
  <2> QED  BY <1>1, <1>2, <1>3, <1>5, <2>1, <2>2 DEF RoundsOK
<1>8. NothingSkipped'
  <2> SUFFICES ASSUME NEW i \in Packets,
                      i <= avail \/ i <= base \/ i <= reply
               PROVE  taken'[i] > 0
    BY <1>3 DEF NothingSkipped, master
  <2> QED  BY <1>5 DEF NothingSkipped
<1>9. RepeatedOnlyIfLate'
  BY <1>5 DEF RepeatedOnlyIfLate
<1> QED  BY <1>6, <1>7, <1>8, <1>9

(* A step that touches none of what the rounds, the skipped and the repeated
   packets are about. *)
LEMMA RoundsUntouched ==
  ASSUME RestartInv, Rounds' = Rounds, Mark' = Mark, desc'["TX"] = desc["TX"],
         UNCHANGED <<base, reply, lastAvail, taken, late>>,
         stopped' => stopped
  PROVE  RoundsOK' /\ NothingSkipped' /\ RepeatedOnlyIfLate'
BY DEF RestartInv, RoundsOK, NothingSkipped, RepeatedOnlyIfLate

(* traverse_fd_list keeps the invariant. *)
LEMMA SelectKeeps ==
  ASSUME RestartInv, Select
  PROVE  RestartInv'
<1> USE DEF RestartInv, Select, master, history, indices
<1>1. TypeOK'
  BY DEF TypeOK
<1>2. QueueOK'
  <2>1. SOCK \notin Kickfds
    BY VhostRingsAssumption DEF SOCK, Kickfds
  <2>2. SOCK \in ready' => queue # <<>>
    BY <2>1 DEF TypeOK
  <2> QED  BY <2>2 DEF QueueOK, ForTx
<1>3. PhaseOK'
  BY DEF PhaseOK
<1>4. Rounds' = Rounds /\ Mark' = Mark
  BY DEF Rounds, BaseQueued, ForTx, Mark
<1> QED  BY <1>1, <1>2, <1>3, <1>4, RoundsUntouched

(* So does leaving its loop, *)
LEMMA HandledKeeps ==
  ASSUME RestartInv, Handled
  PROVE  RestartInv'
<1> USE DEF RestartInv, Handled, master, history, indices
<1>1. TypeOK'
  BY DEF TypeOK
<1>2. QueueOK'
  BY DEF QueueOK, ForTx
<1>3. PhaseOK'
  BY DEF PhaseOK
<1>4. Rounds' = Rounds /\ Mark' = Mark
  BY DEF Rounds, BaseQueued, ForTx, Mark
<1> QED  BY <1>1, <1>2, <1>3, <1>4, RoundsUntouched

(* and reading a kick, and a poll. *)
LEMMA WatchKeeps ==
  ASSUME RestartInv, (\E fd \in Kickfds : ReadKick(fd)) \/ Poll
  PROVE  RestartInv'
<1> USE DEF RestartInv, master
<1>1. /\ UNCHANGED <<mode, phase, base, stops, last, owed, avail, queue, reply,
                     desc, listening, isPolling>>
      /\ ready' \subseteq ready
      /\ pc' \in {"select", "handle", "poll"}
      /\ \/ Process /\ desc["TX"]
         \/ Idle
  BY DEF ReadKick, Poll
<1>2. kicked' \subseteq Kickfds
  BY DEF ReadKick, Poll, TypeOK
<1>3. QueueOK' /\ PhaseOK' /\ stopped' = stopped
  BY <1>1 DEF QueueOK, PhaseOK, ForTx, Process, Idle, history
<1>4. /\ lastAvail' \in 0 .. avail
      /\ {used', lastUsed'} \subseteq Nat
      /\ taken' \in [Packets -> 0 .. MaxStops + 1]
      /\ late' \subseteq Packets
      /\ RoundsOK' /\ NothingSkipped' /\ RepeatedOnlyIfLate'
  <2>1. CASE Process /\ desc["TX"]
    BY <1>1, <2>1, ProcessKeeps
  <2>2. CASE Idle
    <3>1. UNCHANGED <<lastAvail, used, lastUsed, taken, stopped, late>>
      BY <2>2 DEF Idle, history, indices
    <3>2. Rounds' = Rounds /\ Mark' = Mark
      BY <1>1 DEF Rounds, BaseQueued, ForTx, Mark
    <3> QED  BY <1>1, <3>1, <3>2, RoundsUntouched DEF TypeOK
  <2> QED  BY <1>1, <2>1, <2>2
<1>5. TypeOK'
  BY <1>1, <1>2, <1>3, <1>4 DEF TypeOK
<1> QED  BY <1>3, <1>4, <1>5

(* The requests that are ignored, and the addresses of RX. *)
LEMMA IgnoreRequestKeeps ==
  ASSUME RestartInv, IgnoreRequest
  PROVE  RestartInv'
<1> USE DEF RestartInv
<1>1. /\ Handling("other")
      /\ UNCHANGED <<reply, desc, listening, isPolling, lastAvail, used,
                     lastUsed, taken, stopped, late>>
      /\ UNCHANGED <<pc, mode, phase, base, stops, last, owed, avail, kicked>>
      /\ ready' \subseteq ready
  BY DEF IgnoreRequest, Handling, master, history, indices
<1>2. \A j \in 2 .. Len(queue) :
        ForTx(j, "base") => stopped' \/ ~ desc'["TX"]
  BY <1>1, HandlingFacts, BaseFinds
<1>3. ~ ForTx(1, "base")
  BY <1>1, HandlingFacts DEF ForTx
<1>4. QueueOK' /\ Rounds' = Rounds
  BY <1>1, <1>2, <1>3, HandlingKeepsQueue, HandlingKeepsRounds
<1>5. PhaseOK'
  BY <1>1, HandlingFacts DEF PhaseOK
<1>6. Mark' = Mark
  BY <1>1 DEF Mark
<1>7. TypeOK'
  BY <1>1 DEF TypeOK
<1> QED  BY <1>1, <1>4, <1>5, <1>6, <1>7, RoundsUntouched

(* SET_VRING_BASE for TX takes last_avail_idx back to where the master was told
   that it was: what lies ahead of it was processed late.  A round begins. *)
LEMMA SetVringBaseKeeps ==
  ASSUME RestartInv, SetVringBase
  PROVE  RestartInv'
<1> USE DEF RestartInv
<1>1. /\ Handling("base")
      /\ lastAvail' = IF queue[1].ring = "TX" THEN queue[1].num ELSE lastAvail
      /\ UNCHANGED <<reply, desc, listening, isPolling, used, lastUsed, taken,
                     stopped, late>>
      /\ UNCHANGED <<pc, mode, phase, base, stops, last, owed, avail, kicked>>
      /\ ready' \subseteq ready
  BY HandlingFacts DEF SetVringBase, Handling, master, history
<1>2. \A j \in 2 .. Len(queue) :
        ForTx(j, "base") => stopped' \/ ~ desc'["TX"]
  BY <1>1, HandlingFacts, BaseFinds
<1>3. QueueOK'
  BY <1>1, <1>2, HandlingKeepsQueue
<1>4. PhaseOK'
  BY <1>1, HandlingFacts DEF PhaseOK
<1>5. Mark' = Mark /\ Mark = base
  BY <1>1, HandlingFacts DEF Mark
<1>6. CASE queue[1].ring = "TX"
  <2>1. ForTx(1, "base")
    BY <1>1, <1>6, HandlingFacts DEF ForTx
  <2>2. 1 \in 1 .. Len(queue) /\ 1 \in DOMAIN queue
    BY <1>1, HandlingFacts
  <2>3. lastAvail' = base /\ (stopped \/ ~ desc["TX"])
    BY <1>1, <1>6, <2>1, <2>2, BaseFinds
  <2>4. BaseQueued
    BY <2>1, <2>2 DEF BaseQueued
  <2>5. ~ BaseQueued'
    BY <1>1, <1>2, <2>1, HandlingKeepsQueue, NoBaseBehind
  <2>6. Rounds' = Rounds + 1
    BY <1>1, <2>4, <2>5, Counters DEF Rounds
  <2>7. TypeOK'
    BY <1>1, <2>3 DEF TypeOK
  <2>8. RoundsOK'
    <3>1. \A i \in Packets :
            /\ taken[i] <= Rounds + 1
            /\ i > base /\ taken[i] > 0 => taken[i] < Rounds + 1 /\ i \in late
      BY <1>5, <2>3, Counters DEF RoundsOK
    <3>2. desc["TX"] => Rounds + 1 >= 1
      BY Counters DEF RoundsOK
    <3> QED  BY <1>1, <1>5, <2>3, <2>6, <3>1, <3>2 DEF RoundsOK
  <2>9. NothingSkipped' /\ RepeatedOnlyIfLate'
    BY <1>1, <2>3 DEF NothingSkipped, RepeatedOnlyIfLate
  <2> QED  BY <1>3, <1>4, <2>7, <2>8, <2>9
<1>7. CASE queue[1].ring # "TX"
  <2>1. ~ ForTx(1, "base")
    BY <1>7 DEF ForTx
  <2>2. Rounds' = Rounds
    BY <1>1, <1>2, <2>1, HandlingKeepsRounds
  <2>3. TypeOK'
    BY <1>1, <1>7 DEF TypeOK
  <2> QED  BY <1>1, <1>3, <1>4, <1>5, <1>7, <2>2, <2>3, RoundsUntouched
<1> QED  BY <1>6, <1>7

(* SET_VRING_ADDR for TX lets the server process: a round has begun. *)
LEMMA SetVringAddrKeeps ==
  ASSUME RestartInv, SetVringAddr
  PROVE  RestartInv'
<1> USE DEF RestartInv
<1>1. /\ Handling("addr")
      /\ desc' = [desc EXCEPT ![queue[1].ring] = TRUE]
      /\ lastUsed' \in {lastUsed, used}
      /\ UNCHANGED <<reply, listening, isPolling, lastAvail, used, taken,
                     stopped, late>>
      /\ UNCHANGED <<pc, mode, phase, base, stops, last, owed, avail, kicked>>
      /\ ready' \subseteq ready
  BY HandlingFacts DEF SetVringAddr, Handling, master, history
<1>2. queue[1].ring \in Rings /\ desc \in [Rings -> BOOLEAN]
  BY <1>1, HandlingFacts DEF Requests, TypeOK
<1>3. queue[1].ring # "TX" => desc'["TX"] = desc["TX"]
  BY <1>1, <1>2 DEF Rings
<1>4. queue[1].ring = "TX" => ForTx(1, "addr") /\ desc'["TX"]
  BY <1>1, <1>2, HandlingFacts DEF ForTx, Rings
<1>5. \A j \in 2 .. Len(queue) :
        ForTx(j, "base") => stopped' \/ ~ desc'["TX"]
  BY <1>1, <1>3, <1>4, HandlingFacts, BaseFinds, NoBaseBehind
<1>6. ~ ForTx(1, "base")
  BY <1>1, HandlingFacts DEF ForTx
<1>7. QueueOK' /\ Rounds' = Rounds
  BY <1>1, <1>5, <1>6, HandlingKeepsQueue, HandlingKeepsRounds
<1>8. PhaseOK'
  BY <1>1, HandlingFacts DEF PhaseOK
<1>9. Mark' = Mark
  BY <1>1 DEF Mark
<1>10. TypeOK'
  BY <1>1, <1>2 DEF TypeOK
<1>11. CASE queue[1].ring = "TX"
  <2>1. ~ BaseQueued'
    BY <1>1, <1>4, <1>5, <1>11, HandlingKeepsQueue, NoBaseBehind
  <2>2. Rounds >= 1
    BY <1>1, <1>7, <2>1, HandlingFacts, Counters DEF Rounds, PhaseOK
  <2>3. RoundsOK'
    BY <1>1, <1>4, <1>7, <1>9, <1>11, <2>2 DEF RoundsOK
  <2> QED
    BY <1>1, <1>7, <1>8, <1>10, <2>3 DEF NothingSkipped, RepeatedOnlyIfLate
<1>12. CASE queue[1].ring # "TX"
  BY <1>1, <1>3, <1>7, <1>8, <1>9, <1>10, <1>12, RoundsUntouched
<1> QED  BY <1>11, <1>12

(* SET_VRING_KICK for TX ends the time in which processing is late. *)
LEMMA SetVringKickKeeps ==
  ASSUME RestartInv, SetVringKick
  PROVE  RestartInv'
<1> USE DEF RestartInv
<1> DEFINE r == queue[1].ring
<1>1. /\ Handling("kick")
      /\ listening' \in {listening, listening \cup {queue[1].num}}
      /\ isPolling' = (mode[r] = "poll")
      /\ stopped' = (stopped /\ r = "RX")
      /\ UNCHANGED <<reply, desc, lastAvail, used, lastUsed, taken, late>>
      /\ UNCHANGED <<pc, mode, phase, base, stops, last, owed, avail, kicked>>
      /\ ready' \subseteq ready
  BY HandlingFacts DEF SetVringKick, WithKick, Handling, master, indices
<1>2. r \in Rings
  BY <1>1, HandlingFacts DEF Requests
<1>3. \A j \in 2 .. Len(queue) :
        ForTx(j, "base") => stopped' \/ ~ desc'["TX"]
  <2>1. CASE r = "TX"
    <3>1. ForTx(1, "kick")
      BY <1>1, <2>1, HandlingFacts DEF ForTx
    <3> QED  BY <1>1, <3>1, NoBaseBehind
  <2>2. CASE r = "RX"
    <3>1. stopped' = (stopped /\ TRUE)
      BY <1>1, <2>2
    <3>2. stopped => stopped'
      BY <3>1
    <3>3. \A j \in 2 .. Len(queue) : j \in 1 .. Len(queue)
      OBVIOUS
    <3> QED  BY <1>1, <3>2, <3>3, BaseFinds
  <2> QED  BY <1>2, <2>1, <2>2 DEF Rings
<1>4. ~ ForTx(1, "base")
  BY <1>1, HandlingFacts DEF ForTx
<1>5. QueueOK' /\ Rounds' = Rounds
  BY <1>1, <1>3, <1>4, HandlingKeepsQueue, HandlingKeepsRounds
<1>6. PhaseOK'
  BY <1>1, HandlingFacts DEF PhaseOK
<1>7. Mark' = Mark
  BY <1>1 DEF Mark
<1>8. TypeOK'
  <2>1. {isPolling', stopped'} \subseteq BOOLEAN
    BY <1>1 DEF TypeOK
  <2>2. queue[1].num \in Kickfds
    BY <1>1, HandlingFacts DEF QueueOK
  <2>3. listening' \subseteq Kickfds
    BY <1>1, <2>2 DEF TypeOK
  <2> QED  BY <1>1, <2>1, <2>3 DEF TypeOK
<1> QED  BY <1>1, <1>5, <1>6, <1>7, <1>8, RoundsUntouched

(* GET_VRING_BASE tells where the server stands, and what lies ahead of that
   was processed late, if at all. *)
LEMMA GetVringBaseKeeps ==
  ASSUME RestartInv, GetVringBase
  PROVE  RestartInv'
<1> USE DEF RestartInv
<1>1. /\ Handling("getbase")
      /\ reply' = lastAvail /\ stopped'
      /\ UNCHANGED <<desc, listening, isPolling, lastAvail, used, lastUsed,
                     taken, late>>
      /\ UNCHANGED <<pc, mode, phase, base, stops, last, owed, avail, kicked>>
      /\ ready' \subseteq ready
  BY DEF GetVringBase, Handling, master, indices
<1>2. stopped' = TRUE
  BY DEF GetVringBase
<1>3. ~ ForTx(1, "base")
  BY <1>1, HandlingFacts DEF ForTx
<1>4. QueueOK' /\ Rounds' = Rounds
  BY <1>1, <1>3, HandlingKeepsQueue, HandlingKeepsRounds
<1>5. phase = "stopping" /\ queue' = <<>>
  <2>1. 1 \in DOMAIN queue /\ queue[1].type = "getbase"
    BY <1>1, HandlingFacts
  <2>2. 1 = Len(queue) /\ phase = "stopping"
    BY <2>1 DEF QueueOK
  <2> QED  BY <1>1, <2>2, HandlingFacts, EmptySeq
<1>6. PhaseOK'
  BY <1>1, <1>5 DEF PhaseOK
<1>7. Mark' = lastAvail
  BY <1>1, Counters DEF Mark, NoReply
<1>8. TypeOK'
  BY <1>1, <1>2 DEF TypeOK
<1>9. RoundsOK'
  BY <1>1, <1>4, <1>7 DEF RoundsOK
<1>10. NothingSkipped' /\ RepeatedOnlyIfLate'
  BY <1>1 DEF NothingSkipped, RepeatedOnlyIfLate
<1> QED  BY <1>4, <1>6, <1>8, <1>9, <1>10

-----------------------------------------------------------------------------
(* The master's steps. *)

(* What the master sends to start the rings. *)
LEMMA StartRequests ==
  ASSUME RestartInv, NEW r \in Rings, NEW s \in Rings, r # s, queue = <<>>
  PROVE  LET sent == queue \o <<Request("other", r, 0)>>
                           \o StartRing(r) \o StartRing(s)
         IN  /\ sent \in Seq(Requests)
             /\ Len(sent) = 7
             /\ sent[1] = Request("other", r, 0)
             /\ \A j \in 1 .. 3 : /\ sent[j + 1] = StartRing(r)[j]
                                  /\ sent[j + 4] = StartRing(s)[j]
<1> DEFINE o == <<Request("other", r, 0)>>
           sr == StartRing(r)
           ss == StartRing(s)
<1>1. o \in Seq(Requests) /\ Len(o) = 1 /\ o[1] = Request("other", r, 0)
  BY DEF Request, Requests
<1>2. /\ sr \in Seq(Requests) /\ Len(sr) = 3
      /\ ss \in Seq(Requests) /\ Len(ss) = 3
  BY Counters DEF StartRing, Request, Requests
<1>3. queue \o o = o
  BY <1>1, ConcatEmptySeq
<1> HIDE DEF o, sr, ss
<1>4. /\ o \o sr \in Seq(Requests) /\ Len(o \o sr) = 4
      /\ (o \o sr)[1] = o[1]
      /\ \A j \in 1 .. 3 : (o \o sr)[j + 1] = sr[j]
  <2>1. /\ o \o sr \in Seq(Requests) /\ Len(o \o sr) = Len(o) + Len(sr)
        /\ \A i \in 1 .. Len(o) + Len(sr) :
             (o \o sr)[i] = IF i <= Len(o) THEN o[i] ELSE sr[i - Len(o)]
    BY <1>1, <1>2, ConcatProperties
  <2>2. \A j \in 1 .. 3 : /\ j + 1 \in 1 .. 4 /\ ~ (j + 1 <= 1)
                          /\ (j + 1) - 1 = j
    OBVIOUS
  <2>4. Len(o) = 1 /\ Len(sr) = 3 /\ Len(o) + Len(sr) = 4
    BY <1>1, <1>2
  <2>3. \A j \in 1 .. 3 : (o \o sr)[j + 1] = sr[j]
    BY <2>1, <2>2, <2>4
  <2> QED  BY <2>1, <2>3, <2>4
<1>5. /\ (o \o sr) \o ss \in Seq(Requests) /\ Len((o \o sr) \o ss) = 7
      /\ \A j \in 1 .. 4 : ((o \o sr) \o ss)[j] = (o \o sr)[j]
      /\ \A j \in 1 .. 3 : ((o \o sr) \o ss)[j + 4] = ss[j]
  BY <1>2, <1>4, ConcatProperties
<1> QED  BY <1>1, <1>3, <1>4, <1>5 DEF o, sr, ss

(* Starting the rings: one SET_VRING_BASE for TX, with the index that the
   master was told, before the other requests for TX.  The round it begins
   has begun when it is handled. *)
LEMMA StartKeeps ==
  ASSUME RestartInv, Start
  PROVE  RestartInv'
<1> USE DEF RestartInv
<1>1. PICK r \in Rings, s \in Rings :
        /\ r # s
        /\ queue' = queue \o <<Request("other", r, 0)>>
                          \o StartRing(r) \o StartRing(s)
  BY DEF Start
<1>2. /\ phase \in {"off", "stopped"} /\ queue = <<>> /\ phase' = "running"
      /\ reply = NoReply
      /\ last' \in Rings
      /\ UNCHANGED <<mode, base, stops, owed, avail, kicked, reply, pc, ready,
                     desc, listening, isPolling, lastAvail, used, lastUsed,
                     taken, stopped, late>>
  BY DEF Start, PhaseOK, server, indices, history
<1>3. /\ queue' \in Seq(Requests) /\ Len(queue') = 7
      /\ queue'[1] = Request("other", r, 0)
      /\ \A j \in 1 .. 3 : /\ queue'[j + 1] = StartRing(r)[j]
                           /\ queue'[j + 4] = StartRing(s)[j]
  BY <1>1, <1>2, StartRequests
<1>4. DOMAIN queue' = 1 .. 7
  BY <1>3, LenProperties
<1>5. /\ queue'[2] = Request("base", r, IF r = "TX" THEN base ELSE 0)
      /\ queue'[3] = Request("addr", r, 0)
      /\ queue'[4] = Request("kick", r, stops + 1)
      /\ queue'[5] = Request("base", s, IF s = "TX" THEN base ELSE 0)
      /\ queue'[6] = Request("addr", s, 0)
      /\ queue'[7] = Request("kick", s, stops + 1)
  <2>1. \A x \in Rings :
          /\ StartRing(x)[1] = Request("base", x, IF x = "TX" THEN base ELSE 0)
          /\ StartRing(x)[2] = Request("addr", x, 0)
          /\ StartRing(x)[3] = Request("kick", x, stops + 1)
    BY DEF StartRing
  <2>2. /\ queue'[1 + 1] = StartRing(r)[1] /\ queue'[1 + 4] = StartRing(s)[1]
        /\ queue'[2 + 1] = StartRing(r)[2] /\ queue'[2 + 4] = StartRing(s)[2]
        /\ queue'[3 + 1] = StartRing(r)[3] /\ queue'[3 + 4] = StartRing(s)[3]
    BY <1>3
  <2> QED  BY <2>1, <2>2
<1>6. \A j \in 1 .. 7 : j = 1 \/ j = 2 \/ j = 3 \/ j = 4 \/ j = 5 \/ j = 6
                        \/ j = 7
  OBVIOUS
<1> DEFINE b == IF r = "TX" THEN 2 ELSE 5
<1>7. /\ queue'[1].type = "other"
      /\ queue'[2].type = "base" /\ queue'[2].ring = r
      /\ queue'[3].type = "addr" /\ queue'[3].ring = r
      /\ queue'[4].type = "kick" /\ queue'[4].ring = r
      /\ queue'[5].type = "base" /\ queue'[5].ring = s
      /\ queue'[6].type = "addr" /\ queue'[6].ring = s
      /\ queue'[7].type = "kick" /\ queue'[7].ring = s
      /\ r = "TX" => queue'[2].num = base
      /\ s = "TX" => queue'[5].num = base
      /\ queue'[4].num = stops + 1 /\ queue'[7].num = stops + 1
  BY <1>3, <1>5 DEF Request
<1>8. \/ r = "TX" /\ s = "RX" /\ b = 2
      \/ r = "RX" /\ s = "TX" /\ b = 5
  BY <1>1 DEF Rings
<1>9. \A j \in 1 .. 7 :
        /\ ForTx(j, "base")' <=> j = b
        /\ (ForTx(j, "addr") \/ ForTx(j, "kick"))' => b <= j
        /\ queue'[j].type # "getbase"
  <2> SUFFICES ASSUME NEW j \in 1 .. 7
               PROVE  /\ ForTx(j, "base")' <=> j = b
                      /\ (ForTx(j, "addr") \/ ForTx(j, "kick"))' => b <= j
                      /\ queue'[j].type # "getbase"
    OBVIOUS
  <2> HIDE DEF b
  <2>1. CASE r = "TX" /\ s = "RX" /\ b = 2
    BY <1>6, <1>7, <2>1 DEF ForTx
  <2>2. CASE r = "RX" /\ s = "TX" /\ b = 5
    BY <1>6, <1>7, <2>2 DEF ForTx
  <2> QED  BY <1>8, <2>1, <2>2
<1>17. ASSUME NEW j \in 1 .. 7, queue'[j].type = "kick"
       PROVE  queue'[j].num \in Kickfds
  <2>1. stops + 1 \in Kickfds
    BY Counters DEF Kickfds
  <2>2. j = 4 \/ j = 7
    BY <1>6, <1>7, <1>17
  <2> QED  BY <1>7, <2>1, <2>2
<1>10. queue'[b].num = base /\ b \in 1 .. 7
  BY <1>7, <1>8
<1> HIDE DEF b
<1>11. stopped \/ ~ desc["TX"]
  BY <1>2 DEF PhaseOK
<1>12. QueueOK'
  <2>1. queue' # <<>>
    <3>1. Len(queue') = 7
      BY <1>3
    <3>2. queue' = <<>> => Len(queue') = 0
      OBVIOUS
    <3> QED  BY <3>1, <3>2
  <2>2. \A j, k \in 1 .. 7 :
          (ForTx(j, "base") /\ (\/ ForTx(k, "base") \/ ForTx(k, "addr")
                                \/ ForTx(k, "kick")))' => j <= k
    BY <1>9, <1>10
  <2>3. \A j \in 1 .. 7 :
          ForTx(j, "base")' => /\ queue'[j].num = base'
                               /\ stopped' \/ ~ desc'["TX"]
    BY <1>2, <1>9, <1>10, <1>11
  <2> QED  BY <1>2, <1>3, <1>4, <1>9, <1>17, <2>1, <2>2, <2>3 DEF QueueOK
<1>13. PhaseOK'
  BY <1>2 DEF PhaseOK
<1>14. TypeOK'
  BY <1>2 DEF TypeOK
<1>15. Rounds' = Rounds
  <2>1. BaseQueued'
    BY <1>4, <1>9, <1>10 DEF BaseQueued
  <2>2. ~ BaseQueued
    BY <1>2 DEF BaseQueued
  <2> QED  BY <1>2, <2>1, <2>2, Counters DEF Rounds
<1>16. Mark' = Mark
  BY <1>2 DEF Mark
<1> QED  BY <1>2, <1>12, <1>13, <1>14, <1>15, <1>16, RoundsUntouched

(* Putting a packet and kicking for it. *)
LEMMA PutOrKickKeeps ==
  ASSUME RestartInv, Put \/ Kick
  PROVE  RestartInv'
<1> USE DEF RestartInv
<1>1. /\ UNCHANGED <<mode, phase, base, stops, last, queue, reply, pc, ready,
                     desc, listening, isPolling, lastAvail, used, lastUsed, taken,
                     stopped, late>>
      /\ avail' \in avail .. MaxPackets
      /\ owed' \in BOOLEAN /\ kicked' \subseteq Kickfds
  <2>1. CASE Put
    <3>1. owed' \in BOOLEAN
      BY <2>1, Zenon DEF Put
    <3>2. avail' = avail + 1 /\ avail < MaxPackets /\ kicked' = kicked
      BY <2>1 DEF Put
    <3>3. avail' \in avail .. MaxPackets /\ kicked' \subseteq Kickfds
      BY <3>2, Counters DEF TypeOK
    <3> QED  BY <2>1, <3>1, <3>3 DEF Put, server, indices, history
  <2>2. CASE Kick
    <3>0. stops + 1 \in Kickfds
      BY Counters DEF Kickfds
    <3>1. owed' \in BOOLEAN /\ kicked' \subseteq Kickfds
      BY <2>2, <3>0 DEF Kick, TypeOK
    <3>2. avail' = avail /\ avail \in avail .. MaxPackets
      BY <2>2, Counters DEF Kick
    <3> QED  BY <2>2, <3>1, <3>2 DEF Kick, server, indices, history
  <2> QED  BY <2>1, <2>2
<1>2. TypeOK'
  <2>1. 0 .. avail \subseteq 0 .. avail'
    BY <1>1, Counters
  <2>2. avail' \in 0 .. MaxPackets
    BY <1>1, Counters
  <2> QED  BY <1>1, <2>1, <2>2 DEF TypeOK
<1>3. QueueOK' /\ PhaseOK'
  BY <1>1 DEF QueueOK, PhaseOK, ForTx
<1>4. Rounds' = Rounds /\ Mark' = Mark
  BY <1>1 DEF Rounds, BaseQueued, ForTx, Mark
<1> QED  BY <1>1, <1>2, <1>3, <1>4, RoundsUntouched

(* Asking where the server stands: nothing is sent behind it. *)
LEMMA StopKeeps ==
  ASSUME RestartInv, Stop
  PROVE  RestartInv'
<1> USE DEF RestartInv
<1> DEFINE n == Len(queue)
           m == Request("getbase", "TX", 0)
<1>1. /\ phase = "running" /\ phase' = "stopping"
      /\ stops < MaxStops /\ stops' = stops + 1
      /\ queue' = Append(queue, m)
      /\ reply = NoReply
      /\ UNCHANGED <<mode, base, last, owed, avail, kicked, reply, pc, ready, desc,
                     listening, isPolling, lastAvail, used, lastUsed, taken,
                     stopped, late>>
  BY DEF Stop, server, indices, history, PhaseOK
<1>2. queue \in Seq(Requests) /\ n \in Nat /\ DOMAIN queue = 1 .. n
  BY LenProperties DEF QueueOK
<1>3. m \in Requests /\ m.type = "getbase"
  BY DEF Request, Requests, Rings
<1> HIDE DEF m
<1>4. /\ queue' \in Seq(Requests) /\ Len(queue') = n + 1
      /\ \A j \in 1 .. n : queue'[j] = queue[j]
      /\ queue'[n + 1] = m
  BY <1>1, <1>2, <1>3, AppendProperties
<1>5. DOMAIN queue' = 1 .. n + 1 /\ queue' # <<>>
  BY <1>2, <1>4, LenProperties, EmptySeq
<1>6. \A j \in 1 .. n + 1 : j \in 1 .. n \/ j = n + 1
  BY <1>2
<1>7. \A j \in 1 .. n + 1 :
        /\ ForTx(j, "base")' <=> j \in 1 .. n /\ ForTx(j, "base")
        /\ ForTx(j, "addr")' <=> j \in 1 .. n /\ ForTx(j, "addr")
        /\ ForTx(j, "kick")' <=> j \in 1 .. n /\ ForTx(j, "kick")
  BY <1>2, <1>3, <1>4, <1>6 DEF ForTx
<1>8. QueueOK'
  <2>1. \A j \in 1 .. n : queue[j].type # "getbase"
    BY <1>1, <1>2 DEF QueueOK
  <2>2. \A j \in 1 .. n + 1 :
          queue'[j].type = "getbase" => j = Len(queue') /\ phase' = "stopping"
    BY <1>1, <1>4, <1>6, <2>1
  <2>3. \A j \in 1 .. n + 1 :
          ForTx(j, "base")' => /\ queue'[j].num = base'
                               /\ stopped' \/ ~ desc'["TX"]
    BY <1>1, <1>2, <1>4, <1>7 DEF QueueOK
  <2>5. \A j \in 1 .. n + 1 :
          queue'[j].type = "kick" => queue'[j].num \in Kickfds
    BY <1>2, <1>3, <1>4, <1>6 DEF QueueOK
  <2>4. \A j, k \in 1 .. n + 1 :
          (ForTx(j, "base") /\ (\/ ForTx(k, "base") \/ ForTx(k, "addr")
                                \/ ForTx(k, "kick")))' => j <= k
    BY <1>2, <1>7 DEF QueueOK
  <2> QED  BY <1>1, <1>4, <1>5, <2>2, <2>3, <2>4, <2>5 DEF QueueOK
<1>9. PhaseOK'
  BY <1>1, Counters DEF PhaseOK
<1>10. TypeOK'
  BY <1>1, Counters DEF TypeOK
<1>11. Rounds' = Rounds
  <2>1. BaseQueued' <=> BaseQueued
    <3>1. 1 .. n \subseteq 1 .. n + 1
      BY <1>2
    <3> QED  BY <1>2, <1>5, <1>7, <3>1 DEF BaseQueued
  <2> QED  BY <1>1, <2>1, Counters DEF Rounds
<1>12. Mark' = Mark
  BY <1>1 DEF Mark
<1> QED  BY <1>1, <1>8, <1>9, <1>10, <1>11, <1>12, RoundsUntouched

(* Reading the answer: the index to start from next time. *)
LEMMA GetAnswerKeeps ==
  ASSUME RestartInv, GetAnswer
  PROVE  RestartInv'
<1> USE DEF RestartInv
<1>1. /\ phase = "stopping" /\ phase' = "stopped"
      /\ reply # NoReply /\ base' = reply /\ reply' = NoReply
      /\ queue = <<>> /\ stopped
      /\ UNCHANGED <<mode, stops, last, owed, avail, kicked, queue, pc, ready, desc,
                     listening, isPolling, lastAvail, used, lastUsed, taken,
                     stopped, late>>
  BY DEF GetAnswer, server, indices, history, PhaseOK
<1>2. TypeOK'
  BY <1>1 DEF TypeOK
<1>3. DOMAIN queue = {}
  BY <1>1
<1>4. QueueOK'
  BY <1>1, <1>3 DEF QueueOK
<1>5. PhaseOK'
  BY <1>1 DEF PhaseOK
<1>6. Rounds' = Rounds
  BY <1>1 DEF Rounds, BaseQueued, ForTx
<1>7. Mark' = Mark
  BY <1>1 DEF Mark
<1>8. RoundsOK'
  BY <1>1, <1>6, <1>7 DEF RoundsOK
<1>9. NothingSkipped' /\ RepeatedOnlyIfLate'
  BY <1>1, VhostRingsAssumption
     DEF NothingSkipped, RepeatedOnlyIfLate, NoReply, Packets
<1> QED  BY <1>2, <1>4, <1>5, <1>8, <1>9

-----------------------------------------------------------------------------
(* Nothing was taken and nothing is on its way at the start. *)
LEMMA InitRestart == Init => RestartInv
<1> SUFFICES ASSUME Init
             PROVE  RestartInv
  OBVIOUS
<1> USE VhostRingsAssumption DEF Init
<1>1. DOMAIN queue = {} /\ queue \in Seq(Requests)
  BY EmptySeq
<1>2. ~ BaseQueued
  BY <1>1 DEF BaseQueued
<1>0. Rounds = 0
  <2>1. Rounds = 0 + 0 - 0
    BY <1>2 DEF Rounds
  <2> QED  BY <2>1
<1>3. TypeOK
  <2>1. /\ mode \in Modes
        /\ phase \in {"off", "running", "stopping", "stopped"}
        /\ pc \in {"select", "handle", "poll"}
        /\ ready \subseteq {SOCK} \cup Kickfds /\ late \subseteq Packets
        /\ kicked \subseteq Kickfds /\ listening \subseteq Kickfds
        /\ {used, lastUsed} \subseteq Nat
        /\ desc \in [Rings -> BOOLEAN]
        /\ last \in Rings
    BY DEF Rings
  <2>2. /\ stops \in 0 .. MaxStops
        /\ base \in 0 .. avail /\ avail \in 0 .. MaxPackets
        /\ lastAvail \in 0 .. avail
        /\ reply \in {NoReply} \cup 0 .. avail
        /\ taken \in [Packets -> 0 .. MaxStops + 1]
    OBVIOUS
  <2>3. \A v \in {owed, isPolling, stopped} : v \in BOOLEAN
    OBVIOUS
  <2> QED  BY <2>1, <2>2, <2>3 DEF TypeOK
<1>4. QueueOK /\ PhaseOK
  BY <1>1 DEF QueueOK, PhaseOK, Rings
<1>5. RoundsOK
  BY <1>0 DEF RoundsOK, Rings
<1>6. NothingSkipped /\ RepeatedOnlyIfLate
  BY DEF NothingSkipped, RepeatedOnlyIfLate, Packets, NoReply
<1> QED  BY <1>3, <1>4, <1>5, <1>6 DEF RestartInv

(* RestartInv holds in every reachable state, for any number of packets and of
   stops. *)
THEOREM RestartInvariant == Spec => []RestartInv
<1>1. Init => RestartInv
  BY InitRestart
<1>2. RestartInv /\ [Next]_vars => RestartInv'
  <2> SUFFICES ASSUME RestartInv, [Next]_vars
               PROVE  RestartInv'
    OBVIOUS
  <2>1. CASE Start
    BY <2>1, StartKeeps
  <2>2. CASE Put \/ Kick
    BY <2>2, PutOrKickKeeps
  <2>3. CASE Stop
    BY <2>3, StopKeeps
  <2>4. CASE GetAnswer
    BY <2>4, GetAnswerKeeps
  <2>5. CASE Select
    BY <2>5, SelectKeeps
  <2>6. CASE IgnoreRequest
    BY <2>6, IgnoreRequestKeeps
  <2>7. CASE SetVringBase
    BY <2>7, SetVringBaseKeeps
  <2>8. CASE SetVringAddr
    BY <2>8, SetVringAddrKeeps
  <2>9. CASE SetVringKick
    BY <2>9, SetVringKickKeeps
  <2>10. CASE GetVringBase
    BY <2>10, GetVringBaseKeeps
  <2>11. CASE (\E fd \in Kickfds : ReadKick(fd)) \/ Poll
    BY <2>11, WatchKeeps
  <2>12. CASE Handled
    BY <2>12, HandledKeeps
  <2>13. CASE UNCHANGED vars
    <3> USE <2>13 DEF RestartInv, vars, master, server, indices, history
    <3>1. TypeOK' /\ QueueOK' /\ PhaseOK'
      BY DEF TypeOK, QueueOK, PhaseOK, ForTx
    <3>2. Rounds' = Rounds /\ Mark' = Mark
      BY DEF Rounds, BaseQueued, ForTx, Mark
    <3> QED  BY <3>1, <3>2, RoundsUntouched
  <2> QED
    BY <2>1, <2>2, <2>3, <2>4, <2>5, <2>6, <2>7, <2>8, <2>9, <2>10, <2>11,
       <2>12, <2>13
       DEF Next, Master, Server, Handler
<1> QED  BY <1>1, <1>2, PTL DEF Spec

(* Every variable holds a value of its kind; no packet is processed more often
   than the rings were started. *)
THEOREM TypeCorrect == Spec => []TypeOK
<1>1. RestartInv => TypeOK
  BY DEF RestartInv
<1> QED  BY <1>1, RestartInvariant, PTL

(* However often the rings are stopped and started again, no packet is
   skipped. *)
THEOREM RestartSkipsNothing == Spec => []NothingSkipped
<1>1. RestartInv => NothingSkipped
  BY DEF RestartInv
<1> QED  BY <1>1, RestartInvariant, PTL

(* A packet is processed twice only where the server went on processing after
   it had answered GET_VRING_BASE. *)
THEOREM RestartRepeatsOnlyLate == Spec => []RepeatedOnlyIfLate
<1>1. RestartInv => RepeatedOnlyIfLate
  BY DEF RestartInv
<1> QED  BY <1>1, RestartInvariant, PTL

-----------------------------------------------------------------------------
(* The used index.  SET_VRING_ADDR takes it from the ring, SET_VRING_BASE takes
   last_avail_idx from the master; they agree because the master was told, or
   is about to be, or is on the way to say, where the server still stands. *)

(* The server has nothing to process: it never started, or it told where it
   stands and the ring has not been started again. *)
Told == phase \in {"off", "stopped"} \/ reply # NoReply \/ BaseQueued

UsedOK == /\ lastUsed = used
          /\ late = {} => /\ used = lastAvail
                          /\ Told => Mark = lastAvail

(* A step that moves no index, and of which the master learns nothing. *)
LEMMA UsedUntouched ==
  ASSUME UsedOK, Told' => Told, Mark' = Mark,
         UNCHANGED <<lastAvail, used, late>>, lastUsed' \in {lastUsed, used}
  PROVE  UsedOK'
BY DEF UsedOK

(* Taking a request off the socket puts none there, and tells nothing. *)
LEMMA HandlingTellsNothing ==
  ASSUME RestartInv, NEW type, Handling(type), reply' = reply
  PROVE  (Told' => Told) /\ Mark' = Mark
<1>1. BaseQueued' => BaseQueued
  <2>1. /\ Len(queue) \in Nat \ {0}
        /\ DOMAIN queue = 1 .. Len(queue)
        /\ DOMAIN queue' = 1 .. Len(queue) - 1
        /\ \A j \in 1 .. Len(queue) - 1 : queue'[j] = queue[j + 1]
    BY HandlingFacts
  <2>2. \A j \in DOMAIN queue' : /\ j + 1 \in DOMAIN queue
                                 /\ queue'[j] = queue[j + 1]
    BY <2>1
  <2> QED  BY <2>2 DEF BaseQueued, ForTx
<1>2. UNCHANGED <<phase, base>>
  BY DEF Handling, master
<1> QED  BY <1>1, <1>2 DEF Told, Mark

(* process_avail_vring takes as many buffers to the used ring as it takes from
   the avail ring; where it could fall behind what was told, that is late. *)
LEMMA ProcessKeepsUsed ==
  ASSUME RestartInv, UsedOK, Process, desc["TX"],
         UNCHANGED <<master, avail, queue, reply, desc>>
  PROVE  UsedOK'
<1> USE DEF RestartInv
<1>1. /\ lastAvail' = avail
      /\ lastUsed' = lastUsed + avail - lastAvail
      /\ used' = lastUsed'
      /\ late' = IF stopped THEN late \cup (lastAvail + 1 .. avail) ELSE late
  BY DEF Process
<1>2. /\ avail \in Nat /\ lastAvail \in Nat /\ lastAvail <= avail
      /\ lastUsed \in Nat
  BY Counters DEF TypeOK
<1>3. Told' = Told /\ Mark' = Mark
  BY DEF Told, Mark, BaseQueued, ForTx, master
<1>4. SUFFICES ASSUME late' = {}
               PROVE  used' = lastAvail' /\ (Told' => Mark' = lastAvail')
  BY <1>1 DEF UsedOK
<1>5. late = {} /\ (stopped => avail = lastAvail)
  <2>1. stopped => lastAvail + 1 .. avail = {}
    BY <1>1, <1>4
  <2>2. lastAvail + 1 .. avail = {} => ~ (lastAvail + 1 <= avail)
    BY <1>2
  <2> QED  BY <1>1, <1>2, <1>4, <2>1, <2>2
<1>6. used = lastAvail /\ lastUsed = used /\ (Told => Mark = lastAvail)
  BY <1>5 DEF UsedOK
<1>7. used' = lastAvail'
  BY <1>1, <1>2, <1>6
<1>8. ASSUME Told
      PROVE  stopped
  <2>1. BaseQueued => stopped
    BY DEF BaseQueued, QueueOK
  <2> QED  BY <1>8, <2>1 DEF Told, PhaseOK
<1> QED  BY <1>1, <1>3, <1>5, <1>6, <1>7, <1>8

(* The requests of the master. *)
LEMMA HandlerKeepsUsed ==
  ASSUME RestartInv, UsedOK, Handler
  PROVE  UsedOK'
<1> USE DEF RestartInv
<1>1. CASE IgnoreRequest
  <2>1. /\ Handling("other")
        /\ UNCHANGED <<reply, lastAvail, lastUsed, used, late>>
    BY <1>1 DEF IgnoreRequest, indices, history
  <2> QED  BY <2>1, HandlingTellsNothing, UsedUntouched
<1>2. CASE SetVringBase
  <2>1. /\ Handling("base") /\ UNCHANGED <<reply, lastUsed, used, late>>
        /\ lastAvail' = IF queue[1].ring = "TX" THEN queue[1].num ELSE lastAvail
    BY <1>2, HandlingFacts DEF SetVringBase, history
  <2>2. CASE queue[1].ring = "TX"
    <3>1. /\ ForTx(1, "base") /\ 1 \in DOMAIN queue /\ 1 \in 1 .. Len(queue)
          /\ reply = NoReply
      BY <2>1, <2>2, HandlingFacts DEF ForTx
    <3>2. Told /\ Mark = base /\ lastAvail' = base
      BY <2>1, <2>2, <3>1, BaseFinds DEF Told, BaseQueued, Mark
    <3>3. Mark' = Mark
      BY <2>1, HandlingTellsNothing
    <3> QED  BY <2>1, <3>2, <3>3 DEF UsedOK
  <2>3. CASE queue[1].ring # "TX"
    BY <2>1, <2>3, HandlingTellsNothing, UsedUntouched
  <2> QED  BY <2>2, <2>3
<1>3. CASE SetVringAddr
  <2>1. /\ Handling("addr") /\ UNCHANGED <<reply, lastAvail, used, late>>
        /\ lastUsed' \in {lastUsed, used}
    BY <1>3 DEF SetVringAddr, history
  <2> QED  BY <2>1, HandlingTellsNothing, UsedUntouched
<1>4. CASE SetVringKick
  <2>1. Handling("kick") /\ UNCHANGED <<reply, lastAvail, lastUsed, used, late>>
    BY <1>4 DEF SetVringKick, indices
  <2> QED  BY <2>1, HandlingTellsNothing, UsedUntouched
<1>5. CASE GetVringBase
  <2>1. reply' = lastAvail /\ UNCHANGED <<lastAvail, lastUsed, used, late>>
    BY <1>5 DEF GetVringBase, indices
  <2>2. Mark' = lastAvail'
    BY <2>1, Counters DEF Mark, NoReply
  <2> QED  BY <2>1, <2>2 DEF UsedOK
<1> QED  BY <1>1, <1>2, <1>3, <1>4, <1>5 DEF Handler

(* The master: only GetAnswer moves the mark, and that to where it was. *)
LEMMA MasterKeepsUsed ==
  ASSUME RestartInv, UsedOK, Master
  PROVE  UsedOK'
<1> USE DEF RestartInv
<1>1. UNCHANGED <<lastAvail, lastUsed, used, late>>
  BY DEF Master, Start, Put, Kick, Stop, GetAnswer, server, indices, history
<1>2. (Told' => Told) /\ Mark' = Mark
  <2>1. CASE Start
    BY <2>1 DEF Start, Told, Mark
  <2>2. CASE Put \/ Kick
    BY <2>2 DEF Put, Kick, Told, Mark, BaseQueued, ForTx
  <2>3. CASE Stop
    <3>1. BaseQueued' => BaseQueued
      <4>1. /\ queue \in Seq(Requests)
            /\ queue' = Append(queue, Request("getbase", "TX", 0))
        BY <2>3 DEF Stop, QueueOK
      <4>2. /\ Len(queue) \in Nat /\ DOMAIN queue = 1 .. Len(queue)
            /\ DOMAIN queue' = 1 .. Len(queue) + 1
            /\ \A j \in 1 .. Len(queue) : queue'[j] = queue[j]
            /\ queue'[Len(queue) + 1].type = "getbase"
        BY <4>1 DEF Request
      <4>3. ASSUME NEW j \in DOMAIN queue', ForTx(j, "base")'
            PROVE  j \in DOMAIN queue /\ ForTx(j, "base")
        <5>1. j # Len(queue) + 1
          BY <4>2, <4>3 DEF ForTx
        <5>2. j \in 1 .. Len(queue)
          BY <4>2, <4>3, <5>1
        <5> QED  BY <4>2, <4>3, <5>2 DEF ForTx
      <4> QED  BY <4>3 DEF BaseQueued
    <3> QED  BY <2>3, <3>1 DEF Stop, Told, Mark
  <2>4. CASE GetAnswer
    BY <2>4 DEF GetAnswer, Told, Mark
  <2> QED  BY <2>1, <2>2, <2>3, <2>4 DEF Master
<1> QED  BY <1>1, <1>2, UsedUntouched

LEMMA UsedInvariant == Spec => []UsedOK
<1>1. Init => UsedOK
  BY DEF Init, UsedOK, Mark, NoReply
<1>2. RestartInv /\ UsedOK /\ [Next]_vars => UsedOK'
  <2> SUFFICES ASSUME RestartInv, UsedOK, [Next]_vars
               PROVE  UsedOK'
    OBVIOUS
  <2>1. CASE Master
    BY <2>1, MasterKeepsUsed
  <2>2. CASE Handler
    BY <2>2, HandlerKeepsUsed
  <2>3. CASE (\E fd \in Kickfds : ReadKick(fd)) \/ Poll
    <3>1. /\ UNCHANGED <<master, avail, queue, reply, desc>>
          /\ (Process /\ desc["TX"]) \/ Idle
      BY <2>3 DEF ReadKick, Poll
    <3>2. CASE Process /\ desc["TX"]
      BY <3>1, <3>2, ProcessKeepsUsed
    <3>3. CASE Idle
      BY <3>1, <3>3, UsedUntouched
         DEF Idle, indices, history, master, Told, Mark, BaseQueued, ForTx
    <3> QED  BY <3>1, <3>2, <3>3
  <2>4. CASE Select \/ Handled \/ UNCHANGED vars
    BY <2>4, UsedUntouched
       DEF Select, Handled, vars, server, indices, history, master, Told, Mark,
           BaseQueued, ForTx
  <2> QED  BY <2>1, <2>2, <2>3, <2>4 DEF Next, Server
<1> QED  BY <1>1, <1>2, RestartInvariant, PTL DEF Spec

(* As long as no packet was processed late, the used index that the driver reads
   counts the packets up to last_avail_idx, whatever was stopped and started. *)
THEOREM UsedIndexFollows == Spec => []UsedFollowsAvail
<1>1. UsedOK => UsedFollowsAvail
  BY DEF UsedOK, UsedFollowsAvail
<1> QED  BY <1>1, UsedInvariant, PTL
=============================================================================
