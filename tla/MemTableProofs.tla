---------------------------- MODULE MemTableProofs ----------------------------
(***************************************************************************)
(* What holds of the server's mappings for every table the master may      *)
(* send: proofs of the invariants that MCMemTable checks.  While the       *)
(* server is up it never unmaps, so its mappings only grow and stay apart; *)
(* MappingInv says so, and that each region in force either has a mapping  *)
(* of its own or is one whose mmap failed.                                 *)
(***************************************************************************)
EXTENDS MemTable, Sequences, TLAPS

-----------------------------------------------------------------------------
(* The parts of the inductive invariant. *)

(* The regions in force are those of the last table. *)
RegionsMirrorTable ==
  \A i \in DOMAIN table :
    /\ regions[i].guest = table[i].guest
    /\ regions[i].user = table[i].user
    /\ regions[i].size = table[i].size

(* The mapping made for region i. *)
MappingOf(i) == [at |-> regions[i].mmapAddr - table[i].offset,
                 size |-> table[i].size, file |-> table[i].file]

(* A region has its mapping, or its mmap failed and its address is the bare
   offset. *)
RegionsMapped ==
  server = "up" =>
    \A i \in DOMAIN table :
      \/ MappingOf(i) \in mappings
      \/ failed /\ regions[i].mmapAddr = table[i].offset

(* Mappings are in the server's addresses and do not overlap. *)
MappingsApart ==
  /\ \A m \in mappings : m.at \in Int /\ m.size \in Nat \ {0}
  /\ \A m, n \in mappings :
       m # n => Pages(m.at, m.size) \cap Pages(n.at, n.size) = {}

MappingInv == /\ TypeOK
              /\ RegionsMirrorTable
              /\ RegionsMapped
              /\ MappingsApart
              /\ RingReachesItsFile

-----------------------------------------------------------------------------
(* The lookups. *)

(* A lookup finds the region of a table that holds the address, whatever the
   order of the search: no other does. *)
LEMMA TranslateHit ==
  ASSUME NEW regs, NEW base, NEW a \in Int, NEW i \in DOMAIN regs,
         DOMAIN regs \subseteq Nat,
         a \in Pages(base[i], regs[i].size),
         \A j \in DOMAIN regs : a \in Pages(base[j], regs[j].size) => j = i
  PROVE  Translate(regs, base, a) = regs[i].mmapAddr + a - base[i]
<1> DEFINE hits == {j \in DOMAIN regs : a \in Pages(base[j], regs[j].size)}
<1>1. hits = {i}
  OBVIOUS
<1>2. \A y \in {i} : i <= y
  OBVIOUS
<1>3. Min(hits) = i
  BY <1>1, <1>2 DEF Min
<1> QED  BY <1>1, <1>3 DEF Translate

(* What the constants' assumptions say of the table in force. *)
LEMMA TableFacts ==
  ASSUME TypeOK, NEW i \in DOMAIN table
  PROVE  /\ table \in Tables
         /\ i \in Nat
         /\ table[i].guest \in Nat /\ table[i].user \in Nat
         /\ table[i].offset \in Nat
         /\ table[i].size \in 1 .. FirstAddr
         /\ FirstAddr \in Nat /\ LastAddr \in Nat
BY MemTableAssumption DEF TypeOK

(* Both lookups take the k-th page of a region where its mapping, or the bare
   offset, says. *)
LEMMA LookupsAgree ==
  ASSUME TypeOK, RegionsMirrorTable,
         NEW i \in DOMAIN table, NEW k \in 0 .. table[i].size - 1
  PROVE  /\ MapUserAddr(table[i].user + k) = regions[i].mmapAddr + k
         /\ MapGuestAddr(table[i].guest + k) = regions[i].mmapAddr + k
<1>1. /\ DOMAIN regions = DOMAIN table
      /\ DOMAIN table \subseteq Nat
      /\ regions[i].mmapAddr \in Nat
      /\ k \in Int
  BY TableFacts DEF TypeOK
<1>2. MapUserAddr(table[i].user + k) = regions[i].mmapAddr + k
  <2> DEFINE a == table[i].user + k
             base == [j \in DOMAIN regions |-> regions[j].user]
  <2>1. /\ a \in Int
        /\ a \in Pages(base[i], regions[i].size)
    BY <1>1, TableFacts DEF RegionsMirrorTable, Pages
  <2>2. ASSUME NEW j \in DOMAIN regions,
               a \in Pages(base[j], regions[j].size)
        PROVE  j = i
    <3>1. a \in Pages(table[j].user, table[j].size)
      BY <2>2, <1>1 DEF RegionsMirrorTable
    <3>2. a \in Pages(table[i].user, table[i].size)
      BY TableFacts DEF Pages
    <3> QED  BY <1>1, <3>1, <3>2, TableFacts, RegionsDisjoint
  <2>3. Translate(regions, base, a) = regions[i].mmapAddr + a - base[i]
    BY <1>1, <2>1, <2>2, TranslateHit
  <2>4. base[i] = table[i].user
    BY <1>1 DEF RegionsMirrorTable
  <2>5. regions[i].mmapAddr + a - base[i] = regions[i].mmapAddr + k
    BY <1>1, <2>4, TableFacts
  <2> QED  BY <2>3, <2>5 DEF MapUserAddr
<1>3. MapGuestAddr(table[i].guest + k) = regions[i].mmapAddr + k
  <2> DEFINE a == table[i].guest + k
             base == [j \in DOMAIN regions |-> regions[j].guest]
  <2>1. /\ a \in Int
        /\ a \in Pages(base[i], regions[i].size)
    BY <1>1, TableFacts DEF RegionsMirrorTable, Pages
  <2>2. ASSUME NEW j \in DOMAIN regions,
               a \in Pages(base[j], regions[j].size)
        PROVE  j = i
    <3>1. a \in Pages(table[j].guest, table[j].size)
      BY <2>2, <1>1 DEF RegionsMirrorTable
    <3>2. a \in Pages(table[i].guest, table[i].size)
      BY TableFacts DEF Pages
    <3> QED  BY <1>1, <3>1, <3>2, TableFacts, RegionsDisjoint
  <2>3. Translate(regions, base, a) = regions[i].mmapAddr + a - base[i]
    BY <1>1, <2>1, <2>2, TranslateHit
  <2>4. base[i] = table[i].guest
    BY <1>1 DEF RegionsMirrorTable
  <2>5. regions[i].mmapAddr + a - base[i] = regions[i].mmapAddr + k
    BY <1>1, <2>4, TableFacts
  <2> QED  BY <2>3, <2>5 DEF MapGuestAddr
<1> QED  BY <1>2, <1>3

-----------------------------------------------------------------------------
(* What a step does to the invariant. *)

(* What map_shm returns for the regions of a table: a failure or a place of the
   region's size, apart from what is in use and from the other regions'. *)
LEMMA MapShmFacts ==
  ASSUME NEW t \in Tables, NEW p \in MapShm(t), NEW i \in DOMAIN t
  PROVE  /\ p[i] \in Nat
         /\ t[i].size \in 1 .. FirstAddr /\ t[i].offset \in Nat
         /\ p[i] # MapFailed =>
              /\ Pages(p[i], t[i].size) \subseteq FirstAddr .. LastAddr
              /\ Pages(p[i], t[i].size) \cap (Mapped(mappings) \cup own) = {}
         /\ \A j \in DOMAIN t :
              p[i] # MapFailed /\ p[j] # MapFailed /\ i # j =>
                Pages(p[i], t[i].size) \cap Pages(p[j], t[j].size) = {}
<1> DEFINE new == [j \in DOMAIN t |->
                     IF p[j] = MapFailed THEN {} ELSE Pages(p[j], t[j].size)]
<1>1. /\ p \in [DOMAIN t -> {MapFailed} \cup FirstAddr .. LastAddr]
      /\ new[i] \subseteq FirstAddr .. LastAddr
      /\ new[i] \cap (Mapped(mappings) \cup own) = {}
      /\ \A j \in DOMAIN t : i # j => new[i] \cap new[j] = {}
  BY DEF MapShm
<1>2. p[i] \in Nat /\ t[i].size \in 1 .. FirstAddr /\ t[i].offset \in Nat
  BY <1>1, MemTableAssumption DEF MapFailed, NULL
<1> QED  BY <1>1, <1>2

(* A mapping that a new table adds is that of one of its regions. *)
LEMMA NewMappingFacts ==
  ASSUME NEW t, NEW p, NEW m \in NewMappings(t, p)
  PROVE  \E i \in DOMAIN t : /\ p[i] # MapFailed
                             /\ m.at = p[i] /\ m.size = t[i].size
                             /\ m = [at |-> p[i], size |-> t[i].size,
                                     file |-> t[i].file]
BY DEF NewMappings

(* A new table keeps the mappings apart. *)
LEMMA MapShmKeepsApart ==
  ASSUME TypeOK, MappingsApart, NEW t \in Tables, NEW p \in MapShm(t),
         mappings' = Mappings(mappings, t, p)
  PROVE  /\ MappingsApart'
         /\ \A m \in mappings' :
              Pages(m.at, m.size) \subseteq FirstAddr .. LastAddr
<1>1. ASSUME NEW m \in NewMappings(t, p)
      PROVE  /\ m.at \in Int /\ m.size \in Nat \ {0}
             /\ Pages(m.at, m.size) \subseteq FirstAddr .. LastAddr
             /\ Pages(m.at, m.size) \cap Mapped(mappings) = {}
  <2>1. PICK i \in DOMAIN t : /\ p[i] # MapFailed
                              /\ m.at = p[i] /\ m.size = t[i].size
    BY NewMappingFacts
  <2> QED  BY <2>1, MapShmFacts, MemTableAssumption
<1>2. ASSUME NEW m \in NewMappings(t, p), NEW n \in NewMappings(t, p), m # n
      PROVE  Pages(m.at, m.size) \cap Pages(n.at, n.size) = {}
  <2>1. PICK i \in DOMAIN t : /\ p[i] # MapFailed
                              /\ m.at = p[i] /\ m.size = t[i].size
                              /\ m = [at |-> p[i], size |-> t[i].size,
                                      file |-> t[i].file]
    BY NewMappingFacts
  <2>2. PICK j \in DOMAIN t : /\ p[j] # MapFailed
                              /\ n.at = p[j] /\ n.size = t[j].size
                              /\ n = [at |-> p[j], size |-> t[j].size,
                                      file |-> t[j].file]
    BY NewMappingFacts
  <2> QED  BY <1>2, <2>1, <2>2, MapShmFacts
<1>3. ASSUME NEW m \in mappings, NEW n \in NewMappings(t, p)
      PROVE  /\ Pages(m.at, m.size) \cap Pages(n.at, n.size) = {}
             /\ Pages(n.at, n.size) \cap Pages(m.at, m.size) = {}
  <2>1. Pages(m.at, m.size) \subseteq Mapped(mappings)
    BY DEF Mapped
  <2> QED  BY <1>1, <2>1
<1>4. mappings' = mappings \cup NewMappings(t, p)
  BY DEF Mappings
<1>5. \A m \in mappings' : m.at \in Int /\ m.size \in Nat \ {0}
  BY <1>1, <1>4 DEF MappingsApart
<1>6. \A m, n \in mappings' :
        m # n => Pages(m.at, m.size) \cap Pages(n.at, n.size) = {}
  BY <1>2, <1>3, <1>4 DEF MappingsApart
<1>7. \A m \in mappings' :
        Pages(m.at, m.size) \subseteq FirstAddr .. LastAddr
  BY <1>1, <1>4 DEF TypeOK
<1> QED  BY <1>5, <1>6, <1>7 DEF MappingsApart

(* A pointer that reaches its page goes on doing so while mappings are only
   added. *)
LEMMA GrowthKeepsBehind ==
  ASSUME NEW a, NEW page \in Behind(a), mappings \subseteq mappings'
  PROVE  page \in Behind(a)'
BY DEF Behind

(* _set_mem_table keeps the invariant. *)
LEMMA SetMemTableKeeps ==
  ASSUME MappingInv, NEW t \in Tables, SetMemTable(t)
  PROVE  MappingInv'
<1> USE DEF MappingInv
<1>1. PICK p \in MapShm(t) :
        /\ mappings' = Mappings(mappings, t, p)
        /\ regions' = [i \in DOMAIN t |->
                         [guest |-> t[i].guest, user |-> t[i].user,
                          size |-> t[i].size,
                          mmapAddr |-> p[i] + t[i].offset]]
        /\ failed' = (failed \/ \E i \in DOMAIN t : p[i] = MapFailed)
  BY DEF SetMemTable
<1>2. /\ table' = t /\ server = "up" /\ server' = server
      /\ ring' = ring /\ ringFile' = ringFile /\ ringFits' = ringFits
      /\ own' = own
      /\ sent < MaxTables /\ sent' = sent + 1
  BY DEF SetMemTable
<1>3. /\ DOMAIN regions' = DOMAIN t
      /\ \A i \in DOMAIN t : regions'[i].mmapAddr = p[i] + t[i].offset
  BY <1>1
<1>4. /\ MappingsApart'
      /\ \A m \in mappings' :
           Pages(m.at, m.size) \subseteq FirstAddr .. LastAddr
  BY <1>1, MapShmKeepsApart
<1>5. TypeOK'
  <2>1. \A i \in DOMAIN t : p[i] + t[i].offset \in Nat
    BY MapShmFacts
  <2>2. sent' \in 0 .. MaxTables
    BY <1>2, MemTableAssumption DEF TypeOK
  <2>3. failed' \in BOOLEAN
    BY <1>1 DEF TypeOK
  <2> QED  BY <1>2, <1>3, <1>4, <2>1, <2>2, <2>3 DEF TypeOK
<1>6. RegionsMirrorTable'
  BY <1>1, <1>2 DEF RegionsMirrorTable
<1>7. RegionsMapped'
  <2> SUFFICES ASSUME NEW i \in DOMAIN t
               PROVE  \/ MappingOf(i)' \in mappings'
                      \/ failed' /\ regions'[i].mmapAddr = t[i].offset
    BY <1>2 DEF RegionsMapped
  <2>1. p[i] \in Nat /\ t[i].offset \in Nat
    BY MapShmFacts
  <2>2. CASE p[i] = MapFailed
    <3>1. regions'[i].mmapAddr = t[i].offset
      BY <1>3, <2>1, <2>2 DEF MapFailed, NULL
    <3>2. failed'
      BY <1>1, <2>2, Zenon
    <3> QED  BY <3>1, <3>2
  <2>3. CASE p[i] # MapFailed
    <3>1. regions'[i].mmapAddr - t[i].offset = p[i]
      BY <1>3, <2>1
    <3>2. MappingOf(i)' = [at |-> p[i], size |-> t[i].size,
                           file |-> t[i].file]
      BY <1>2, <3>1 DEF MappingOf
    <3>3. MappingOf(i)' \in NewMappings(t, p)
      BY <2>3, <3>2 DEF NewMappings
    <3> QED  BY <1>1, <3>3 DEF Mappings
  <2> QED  BY <2>2, <2>3
<1>8. RingReachesItsFile'
  <2>1. mappings \subseteq mappings'
    BY <1>1 DEF Mappings
  <2> QED  BY <1>2, <2>1, GrowthKeepsBehind DEF RingReachesItsFile, Behind
<1> QED  BY <1>4, <1>5, <1>6, <1>7, <1>8

(* Where region i has its mapping, the k-th page of the region that the mapping
   reaches is the page behind its translation. *)
LEMMA MappedPageBehind ==
  ASSUME MappingInv, NEW i \in DOMAIN table, NEW k \in 0 .. table[i].size - 1,
         MappingOf(i) \in mappings, Reaches(i, k)
  PROVE  /\ Meant(i, k) \in Behind(regions[i].mmapAddr + k)
         /\ regions[i].mmapAddr + k \in Mapped(mappings)
<1> DEFINE m == MappingOf(i)
           a == regions[i].mmapAddr + k
<1>1. /\ regions[i].mmapAddr \in Nat /\ table[i].offset \in Nat
      /\ table[i].size \in Nat /\ k \in Nat
  BY TableFacts, MemTableAssumption DEF MappingInv, TypeOK
<1>2. /\ m \in mappings
      /\ m.at = regions[i].mmapAddr - table[i].offset
      /\ m.size = table[i].size /\ m.file = table[i].file
  BY DEF MappingOf
<1>3. a \in Pages(m.at, m.size)
  BY <1>1, <1>2 DEF Pages, Reaches
<1>4. a - m.at = table[i].offset + k
  BY <1>1, <1>2
<1>5. <<m.file, a - m.at>> = Meant(i, k)
  BY <1>2, <1>4 DEF Meant
<1> QED  BY <1>2, <1>3, <1>5 DEF Behind, Mapped

(* A region whose mmap failed translates its pages to addresses below the
   server's, which nothing is mapped at. *)
LEMMA FailedPageUnmapped ==
  ASSUME MappingInv, NEW i \in DOMAIN table, NEW k \in 0 .. table[i].size - 1,
         regions[i].mmapAddr = table[i].offset, Reaches(i, k)
  PROVE  regions[i].mmapAddr + k \notin Mapped(mappings) \cup own
<1>1. regions[i].mmapAddr + k < FirstAddr
  BY TableFacts DEF MappingInv, Reaches
<1>2. Mapped(mappings) \subseteq FirstAddr .. LastAddr
  BY DEF MappingInv, TypeOK, Mapped
<1>3. own \subseteq FirstAddr .. LastAddr
  BY MemTableAssumption DEF MappingInv, TypeOK
<1>4. FirstAddr \in Nat /\ LastAddr \in Nat
  BY MemTableAssumption
<1>5. regions[i].mmapAddr + k \in Int
  BY TableFacts DEF MappingInv
<1> QED  BY <1>1, <1>2, <1>3, <1>4, <1>5

(* _set_vring_addr keeps the invariant. *)
LEMMA SetVringAddrKeeps ==
  ASSUME MappingInv, NEW i \in DOMAIN table, NEW k \in 0 .. table[i].size - 1,
         SetVringAddr(i, k)
  PROVE  MappingInv'
<1> USE DEF MappingInv
<1>1. /\ server = "up"
      /\ ring' = regions[i].mmapAddr + k
      /\ ringFile' = Meant(i, k)
      /\ ringFits' = Reaches(i, k)
      /\ server' = IF ring' \in Mapped(mappings) \cup own
                   THEN "up" ELSE "fault"
      /\ UNCHANGED <<table, regions, mappings, own, failed, sent>>
  BY LookupsAgree DEF SetVringAddr
<1>2. TypeOK'
  BY <1>1 DEF TypeOK, Reaches
<1>3. RegionsMirrorTable'
  BY <1>1 DEF RegionsMirrorTable
<1>4. RegionsMapped'
  BY <1>1 DEF RegionsMapped, MappingOf
<1>5. MappingsApart'
  BY <1>1 DEF MappingsApart
<1>6. RingReachesItsFile'
  <2>1. CASE MappingOf(i) \in mappings /\ Reaches(i, k)
    BY <1>1, <2>1, MappedPageBehind DEF RingReachesItsFile, Behind
  <2>2. CASE /\ failed /\ regions[i].mmapAddr = table[i].offset
             /\ Reaches(i, k)
    BY <1>1, <2>2, FailedPageUnmapped DEF RingReachesItsFile
  <2>3. CASE ~Reaches(i, k)
    BY <1>1, <2>3 DEF RingReachesItsFile
  <2> QED  BY <1>1, <2>1, <2>2, <2>3 DEF RegionsMapped
<1> QED  BY <1>2, <1>3, <1>4, <1>5, <1>6

(* end_vhost_server keeps the invariant: what it says of the pointer is about a
   server that is up, or one that died. *)
LEMMA EndServerKeeps ==
  ASSUME MappingInv, EndServer
  PROVE  MappingInv'
<1> USE DEF MappingInv, EndServer
<1>1. mappings' \subseteq mappings /\ own' \subseteq own
  OBVIOUS
<1>2. TypeOK'
  BY <1>1 DEF TypeOK
<1>3. RegionsMirrorTable'
  BY DEF RegionsMirrorTable
<1>4. MappingsApart'
  BY <1>1 DEF MappingsApart
<1> QED  BY <1>2, <1>3, <1>4 DEF RegionsMapped, RingReachesItsFile

-----------------------------------------------------------------------------
(* The mappings stay apart, each region keeps its own, and the ring pointer its
   page, in every reachable state. *)
THEOREM MappingsHold == Spec => []MappingInv
<1>1. Init => MappingInv
  <2> SUFFICES ASSUME Init
               PROVE  MappingInv
    OBVIOUS
  <2> USE DEF Init
  <2>1. DOMAIN table = {} /\ DOMAIN regions = {}
    OBVIOUS
  <2>2. TypeOK
    <3>1. /\ table \in Tables \cup {<<>>}
          /\ DOMAIN regions = DOMAIN table
          /\ \A i \in DOMAIN regions : regions[i].mmapAddr \in Nat
          /\ mappings = {} /\ own \subseteq Own
          /\ server \in {"up", "ended", "fault"}
      BY <2>1
    <3>2. {ringFits, failed} \subseteq BOOLEAN
      OBVIOUS
    <3>3. sent \in 0 .. MaxTables
      BY MemTableAssumption
    <3> QED  BY <3>1, <3>2, <3>3 DEF TypeOK
  <2>3. RegionsMirrorTable /\ RegionsMapped
    BY <2>1 DEF RegionsMirrorTable, RegionsMapped
  <2>4. MappingsApart
    BY DEF MappingsApart
  <2>5. RingReachesItsFile
    BY DEF RingReachesItsFile
  <2> QED  BY <2>2, <2>3, <2>4, <2>5 DEF MappingInv
<1>2. MappingInv /\ [Next]_vars => MappingInv'
  <2> SUFFICES ASSUME MappingInv, [Next]_vars
               PROVE  MappingInv'
    OBVIOUS
  <2>1. ASSUME NEW t \in Tables, SetMemTable(t)
        PROVE  MappingInv'
    BY <2>1, SetMemTableKeeps
  <2>2. ASSUME NEW i \in DOMAIN table, NEW k \in 0 .. table[i].size - 1,
               SetVringAddr(i, k)
        PROVE  MappingInv'
    BY <2>2, SetVringAddrKeeps
  <2>3. CASE EndServer
    BY <2>3, EndServerKeeps
  <2>4. CASE UNCHANGED vars
    BY <2>4 DEF vars, MappingInv, TypeOK, RegionsMirrorTable, RegionsMapped,
       MappingOf, MappingsApart, RingReachesItsFile, Behind
  <2> QED  BY <2>1, <2>2, <2>3, <2>4 DEF Next
<1> QED  BY <1>1, <1>2, PTL DEF Spec

(* Every variable holds a value of its kind. *)
THEOREM TypeCorrect == Spec => []TypeOK
<1>1. MappingInv => TypeOK
  BY DEF MappingInv
<1> QED  BY <1>1, MappingsHold, PTL

(* The ring pointer of SET_VRING_ADDR reaches the page meant by it, however many
   tables follow, and only a failed mmap or a mapping that is too short kills
   the server. *)
THEOREM PointerSurvivesTables == Spec => []RingReachesItsFile
<1>1. MappingInv => RingReachesItsFile
  BY DEF MappingInv
<1> QED  BY <1>1, MappingsHold, PTL

(* As long as no mmap failed, both lookups take an address of any table to the
   page of the file that the master means by it, and miss it only where the
   mapping does not reach. *)
THEOREM LookupsReachFile == Spec => []TranslationReachesFile
<1>1. MappingInv => TranslationReachesFile
  <2> SUFFICES ASSUME MappingInv, server = "up", ~failed,
                      NEW i \in DOMAIN table,
                      NEW k \in 0 .. table[i].size - 1
               PROVE  /\ MapUserAddr(table[i].user + k)
                           = MapGuestAddr(table[i].guest + k)
                      /\ Reaches(i, k) <=>
                           Meant(i, k) \in Behind(MapUserAddr(table[i].user + k))
    BY DEF TranslationReachesFile
  <2> DEFINE a == regions[i].mmapAddr + k
             m == MappingOf(i)
  <2>1. /\ MapUserAddr(table[i].user + k) = a
        /\ MapGuestAddr(table[i].guest + k) = a
    BY LookupsAgree DEF MappingInv
  <2>2. m \in mappings
    BY DEF MappingInv, RegionsMapped
  <2>3. Reaches(i, k) => Meant(i, k) \in Behind(a)
    BY <2>2, MappedPageBehind
  <2>4. ASSUME Meant(i, k) \in Behind(a)
        PROVE  Reaches(i, k)
    <3>1. PICK n \in mappings : /\ a \in Pages(n.at, n.size)
                                /\ Meant(i, k) = <<n.file, a - n.at>>
      BY <2>4 DEF Behind
    <3>2. /\ regions[i].mmapAddr \in Nat /\ table[i].offset \in Nat
          /\ table[i].size \in Nat \ {0} /\ k \in Nat
          /\ n.at \in Int /\ n.size \in Nat \ {0}
      BY TableFacts, MemTableAssumption DEF MappingInv, TypeOK, MappingsApart
    <3>3. a - n.at = table[i].offset + k
      BY <3>1 DEF Meant
    <3>4. /\ m.at = regions[i].mmapAddr - table[i].offset
          /\ m.size = table[i].size
      BY DEF MappingOf
    <3>5. n.at = m.at
      BY <3>2, <3>3, <3>4
    <3>6. n.at \in Pages(n.at, n.size) /\ n.at \in Pages(m.at, m.size)
      BY <3>2, <3>4, <3>5 DEF Pages
    <3>7. n = m
      BY <2>2, <3>6 DEF MappingInv, MappingsApart
    <3> QED  BY <3>1, <3>2, <3>3, <3>4, <3>7 DEF Pages, Reaches
  <2> QED  BY <2>1, <2>3, <2>4
<1> QED  BY <1>1, MappingsHold, PTL
=============================================================================
