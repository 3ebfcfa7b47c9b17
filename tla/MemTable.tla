------------------------------- MODULE MemTable -------------------------------
(***************************************************************************)
(* The server's view of the master's memory: the regions of SET_MEM_TABLE, *)
(* the mappings made for them, the translation of guest and user addresses *)
(* and the pointer that SET_VRING_ADDR keeps from it (vhost_server.c, of   *)
(* which vgpu_host.c is a copy; map_shm and unmap_shm of shm.c).           *)
(*                                                                         *)
(* A region of the master's table says: guest addresses from guest on and  *)
(* user addresses from user on stand for the bytes of file from offset on, *)
(* size of them.  Every region comes with its descriptor, which is never 0 *)
(* (doc/vhost-user.txt:750, :1154), so nregions counts all regions sent.   *)
(* An address is a number, the unit is a page.  Pages below FirstAddr are  *)
(* never mapped.  No region is larger than that: the address that is made  *)
(* for one that could not be mapped, its offset alone, then meets none of  *)
(* the server's memory, which mmap places high; nothing in the code checks *)
(* it.                                                                     *)
(***************************************************************************)
EXTENDS Integers, FiniteSetsExt

CONSTANTS Tables,      (* the tables the master may send: sequences of     *)
                       (* [guest, user, size, offset, file]                *)
          FirstAddr,   (* the server's addresses: FirstAddr .. LastAddr    *)
          LastAddr,
          Own,         (* those of its code, its stack and its heap        *)
          MaxTables    (* bound: tables sent                               *)

ASSUME MemTableAssumption ==
  /\ {FirstAddr, LastAddr, MaxTables} \subseteq Nat
  /\ Own \subseteq FirstAddr .. LastAddr
  /\ \A t \in Tables : \A i \in DOMAIN t :
       /\ {i, t[i].guest, t[i].user, t[i].offset} \subseteq Nat
       /\ t[i].size \in 1 .. FirstAddr

Pages(at, size) == at .. at + size - 1

(* The regions of a table do not overlap: the master takes the base addresses
   of each from a mapping of its own (vhost_client.c:54-56). *)
ASSUME RegionsDisjoint ==
  \A t \in Tables : \A i, j \in DOMAIN t : i # j =>
    /\ Pages(t[i].user, t[i].size) \cap Pages(t[j].user, t[j].size) = {}
    /\ Pages(t[i].guest, t[i].size) \cap Pages(t[j].guest, t[j].size) = {}

VARIABLES
  table,      (* the master's regions, as last sent                        *)
  regions,    (* memory.regions: [guest, user, size, mmapAddr]             *)
  mappings,   (* the server's shared mappings: [at, size, file]            *)
  ring,       (* vring.used: an address, or NULL                           *)
  ringFile,   (* the page of a file that the master meant by it            *)
  ringFits,   (* history: that page was within its region's mapping        *)
  own,        (* the server's own memory                                   *)
  failed,     (* history: an mmap failed                                   *)
  sent,       (* tables received                                           *)
  server      (* "up", "ended", "fault": died of a bad pointer             *)

vars == <<table, regions, mappings, ring, ringFile, ringFits, own, failed,
          sent, server>>

NULL == 0
NoPage == <<>>

Mapped(maps) == UNION {Pages(m.at, m.size) : m \in maps}

(* The page of a file behind address a of the server. *)
Behind(a) == {<<m.file, a - m.at>> :
                m \in {n \in mappings : a \in Pages(n.at, n.size)}}

Init == /\ table = <<>>
        /\ regions = <<>>
        /\ mappings = {}
        /\ ring = NULL
        /\ ringFile = NoPage
        /\ ringFits = FALSE
        /\ own = Own
        /\ failed = FALSE
        /\ sent = 0
        /\ server = "up"
-----------------------------------------------------------------------------
(* The first region of regs that holds address a by its base addresses, NULL
   when there is none. *)
Translate(regs, base, a) ==
  LET hits == {i \in DOMAIN regs : a \in Pages(base[i], regs[i].size)}
  IN  IF hits = {} THEN NULL
      ELSE regs[Min(hits)].mmapAddr + a - base[Min(hits)]

MapGuestAddr(a) ==
  Translate(regions, [i \in DOMAIN regions |-> regions[i].guest], a)

(* Mutant: the search goes by user addresses, the offset by guest addresses. *)
MapUserByGuest(a) ==
  LET hits == {i \in DOMAIN regions :
                 a \in Pages(regions[i].user, regions[i].size)}
  IN  IF hits = {} THEN NULL
      ELSE regions[Min(hits)].mmapAddr + a - regions[Min(hits)].guest

MapUserAddr(a) ==
  Translate(regions, [i \in DOMAIN regions |-> regions[i].user], a)

(* Mutant: what mmap itself returns. *)
MapFailedRaw == -1

(* What map_shm returns where mmap fails. *)
MapFailed == NULL

(* map_shm for every region of t: a place where the kernel has room for size
   pages, or a failure. *)
MapShm(t) ==
  {p \in [DOMAIN t -> {MapFailed} \cup FirstAddr .. LastAddr] :
     LET new == [i \in DOMAIN t |->
                   IF p[i] = MapFailed THEN {} ELSE Pages(p[i], t[i].size)] IN
     /\ \A i \in DOMAIN t :
          /\ new[i] \subseteq FirstAddr .. LastAddr
          /\ new[i] \cap (Mapped(mappings) \cup own) = {}
     /\ \A i, j \in DOMAIN t : i # j => new[i] \cap new[j] = {}}

(* The mapping is as long as the region, and starts at page 0 of the file. *)
NewMappings(t, p) == {[at |-> p[i], size |-> t[i].size, file |-> t[i].file] :
                        i \in {j \in DOMAIN t : p[j] # MapFailed}}

(* Mutant: what the old table mapped is unmapped. *)
NewMappingsOnly(old, t, p) == NewMappings(t, p)

Mappings(old, t, p) == old \cup NewMappings(t, p)

(* _set_mem_table.  A failed mmap is logged, and the region counted. *)
SetMemTable(t) ==
  /\ server = "up"
  /\ sent < MaxTables
  /\ sent' = sent + 1
  /\ table' = t
  /\ \E p \in MapShm(t) :
       /\ mappings' = Mappings(mappings, t, p)
       /\ regions' = [i \in DOMAIN t |->
                        [guest |-> t[i].guest, user |-> t[i].user,
                         size |-> t[i].size, mmapAddr |-> p[i] + t[i].offset]]
       /\ failed' = (failed \/ \E i \in DOMAIN t : p[i] = MapFailed)
  /\ UNCHANGED <<ring, ringFile, ringFits, own, server>>

(* What the master means by the k-th page of region i. *)
Meant(i, k) == <<table[i].file, table[i].offset + k>>

(* The mapping of region i, as long as the region but begun at page 0 of the
   file, holds the region's k-th page. *)
Reaches(i, k) == table[i].offset + k < table[i].size

(* _set_vring_addr for a ring in the k-th page of region i of the master's
   table: used->idx is read through the pointer at once. *)
SetVringAddr(i, k) ==
  /\ server = "up"
  /\ ring' = MapUserAddr(table[i].user + k)
  /\ ringFile' = Meant(i, k)
  /\ ringFits' = Reaches(i, k)
  /\ server' = IF ring' \in Mapped(mappings) \cup own THEN "up" ELSE "fault"
  /\ UNCHANGED <<table, regions, mappings, own, failed, sent>>

(* end_vhost_server: munmap at the address in userspace_addr, which is the
   master's, for every region.  A mapping hit in part counts as gone. *)
Unmapped == UNION {Pages(regions[i].user, regions[i].size) :
                     i \in DOMAIN regions}

EndServer ==
  /\ server = "up"
  /\ server' = "ended"
  /\ own' = own \ Unmapped
  /\ mappings' = {m \in mappings : Pages(m.at, m.size) \cap Unmapped = {}}
  /\ UNCHANGED <<table, regions, ring, ringFile, ringFits, failed, sent>>

Next == \/ \E t \in Tables : SetMemTable(t)
        \/ \E i \in DOMAIN table :
             \E k \in 0 .. table[i].size - 1 : SetVringAddr(i, k)
        \/ EndServer

Spec == Init /\ [][Next]_vars
-----------------------------------------------------------------------------
(* Every variable holds a value of its kind. *)
TypeOK ==
  /\ table \in Tables \cup {<<>>}
  /\ DOMAIN regions = DOMAIN table
  /\ \A i \in DOMAIN regions : regions[i].mmapAddr \in Nat
  /\ \A m \in mappings : Pages(m.at, m.size) \subseteq FirstAddr .. LastAddr
  /\ own \subseteq Own
  /\ {ringFits, failed} \subseteq BOOLEAN
  /\ sent \in 0 .. MaxTables
  /\ server \in {"up", "ended", "fault"}

(* As long as no mmap failed, both lookups take an address of the master's
   table to the very page of the file that the master means by it, whatever
   was mapped before and wherever the kernel put it -- except for the last
   pages of a region with an mmap offset, as many as that offset, which they
   take past the region's mapping (doc/vhost-user.txt:98 asks for a mapping
   that reaches them). *)
TranslationReachesFile ==
  (server = "up" /\ ~failed) =>
    \A i \in DOMAIN table : \A k \in 0 .. table[i].size - 1 :
      LET page == Meant(i, k)
          byUser == MapUserAddr(table[i].user + k)
          byGuest == MapGuestAddr(table[i].guest + k)
      IN  /\ byUser = byGuest
          /\ Reaches(i, k) <=> page \in Behind(byUser)

(* The ring pointer kept from SET_VRING_ADDR goes on reaching the page meant by
   it when later tables replace the regions it was computed from.  A failed mmap
   is not noticed when it happens: it kills the server when a ring is placed in
   that region, and nothing else does but a mapping that is too short. *)
RingReachesItsFile ==
  /\ server = "up" /\ ringFits => ringFile \in Behind(ring)
  /\ server = "fault" => failed \/ ~ringFits
=============================================================================
