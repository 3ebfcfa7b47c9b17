# TLA+ models and proofs for my-vapp

my-vapp is a pair of processes that exchange Ethernet packets through shared memory with the
vhost-user protocol: a client (the master, `demo/vhost_client.c`) that owns the memory and the
rings, and a server (the slave, `vgpu_host.c`; `demo/vhost_server.c` is the same program, with
the same line numbers up to line 432 and two to three lines further after that). This directory
holds TLA+ modules for the parts of it that carry state across processes, TLC configurations
that check them on small instances, and proofs that hold for every ring size, every number of
clients, servers, packets and restarts, and every memory table.

The server also runs under another master: `scripts/qemu.sh` connects QEMU to it. Such a master
stops and restarts rings, asks for polling, sends tables of several regions and puts packets in
chains of descriptors, all of which the server has code for and the repository's client never
uses. Those parts are modelled against what `doc/vhost-user.txt` lets a master do.

    tlc -workers 2 -config MCVring.cfg MCVring.tla      # and the other cfg files
    tlapm VringProofs.tla                                # and the other *Proofs, VringRefinement

`PROJECT.json` lists components, runs, theorems, hazards, findings, and for every definition the
source lines it stands for.

## 1. Inventory

| component | source | state | operations |
|---|---|---|---|
| vring | `common/vring.c`, `include/vring.h` | shared: `desc[]`, `avail`, `used`; per process: `last_avail_idx`, `last_used_idx` | `new_vring`, `put_vring`, `process_used_vring`, `process_avail_vring`, `kick` |
| client event loop | `demo/vhost_client.c` | fd list, TX and RX tables | `loop_client`: `_kick_client`, then `poll_client` |
| server event loop | `vgpu_host.c` | `buffer`, `buffer_size`, `is_polling` | `loop_server`: fd handlers, then `poll_server` |
| session set-up | `demo/vhost_client.c`, `common/vring.c` | socket, shm object, eventfds | `new_vhost_client`, `init_vhost_client`, `set_host_vring`, `end_vhost_client` |
| message handlers | `vgpu_host.c` | `memory`, `vring_table`, `fd_list` | one handler per request |
| fd list | `common/fd_list.c` | `read_fds[FD_LIST_SIZE]` | `add_fd_list`, `del_fd_list`, `traverse_fd_list` |
| unix socket | `common/unsock.c`, `common/common.c` | socket, its fd list | `init_unsock`, `accept_sock_server`, `receive_sock_server`, `vhost_ioctl` |
| memory table | `vgpu_host.c` | `memory.regions[]` | `_set_mem_table`, `_map_guest_addr`, `_map_user_addr` |
| shared memory objects | `common/shm.c` | a name in `/dev/shm` | `create_shm`, `map_shm`, `end_shm` |
| signals | client and server | `app_running` | `signal_handler` |
| statistics, debug, `main.c` | `common/stat.c`, `common/debug.c`, `main.c` | counters, text | printing |

How they interact. The client creates a shared memory object with both rings and all packet
buffers, connects, and sends owner, features (the only request with a reply), the memory table
and, for RX and then TX, num, base, kick, call, addr. From then on the socket is silent until
RESET_OWNER; packets travel through the rings and two eventfds. On TX the client produces and
the server consumes, on RX the other way round. The server has one memory table, one vring
table and one packet buffer for all connections, and one select loop for the listening socket,
the connections and the TX eventfds.

What is hard here:

* **The ring.** Two processes work on it without locks. Correct means: a descriptor is never
  with both, none is lost, packets arrive once, in order and unchanged, indices survive their
  16-bit width. (`u_idx` counts modulo `num` and `used->idx` does not.)
* **The event loops.** No lost wakeup between reading a kick and processing a ring; echoes in
  order; the single private buffer; nobody reclaims RX descriptors.
* **The session.** The client never waits for the server except once, so kicks and messages
  overtake one another; clients are killed and restarted while the server keeps their rings,
  their eventfds and their memory table; the fd list is bounded and changes while it is walked.
* **Another master.** Rings that are stopped and started again with packets and kicks under way;
  one `is_polling` for two rings; regions replaced under ring pointers that stay; chains that are
  cut while the driver reuses their descriptors.
* **The life of the processes.** Two servers that take the path from one another; clients that
  take over, or remove, the shared memory of others; SIGINT before the loop, SIGTERM, SIGPIPE.
* **Failure.** A reply to a client that has gone; memory that cannot be mapped; a bind that
  fails and is not noticed.

## 2. Modules

| module | models | extends / instances |
|---|---|---|
| `VringChannel` | the promise of one ring: a bounded FIFO with batch reclaiming | |
| `Vring` | one ring at the granularity of accesses to shared memory | `INSTANCE VringChannel` (refinement) |
| `VringProofs` | theorems about `Vring` | `Vring`, `TLAPS` |
| `VringRefinement` | the proof that `Vring` implements `VringChannel` | `VringProofs` |
| `VhostEcho` | both event loops and both rings of a connected pair | two `INSTANCE`s of `VringChannel` |
| `VhostSession` | clients that come and go, the handlers, the select loop | |
| `VhostRings` | the server's TX ring under a master that stops, restarts and polls rings | |
| `MemTable` | memory regions, their mappings, both translations, the ring pointer | |
| `DescChain` | packets that are chains of descriptors, lengths, the used ring | |
| `Lifecycle` | starts, interrupts and kills; the socket path and the shared memory names | |
| `VhostEchoProofs`, `VhostSessionProofs`, `VhostRingsProofs`, `MemTableProofs`, `DescChainProofs`, `LifecycleProofs` | theorems about the module each is named for | that module, `TLAPS` |
| `MC*` | instances for TLC | |

The layers meet in `VringChannel`: `Vring` implements it, `VhostEcho` is built from it, so that
the event loops are checked against exactly what the ring keeps to. The other modules share no
variables: each one takes what the others establish in its simplest form (in `VhostSession`
memory is one region per client, in `VhostRings` it is not there at all, in `Lifecycle` a message
is sent or raises SIGPIPE), and says so in its header.

### Vring

The variables are the words of shared memory (`next`, `len`, `buf`, `availIdx`, `availRing`,
`usedIdx`, `usedRing`) and what each process keeps in its `VringTable` (`pLastAvail`,
`pLastUsed`; `cLastAvail`, `cLastUsed`). An action is one access that the other process can see:

| code | actions |
|---|---|
| `new_vring` | `Init` (any ring contents: a killed client leaves its object behind) |
| `put_vring` | `PutFill`, `PutRing`, `PutIdx` |
| `process_used_vring`, `_free_vring` | `ProcessUsedBegin`, `ProcessUsedStep`/`FreeDesc`, `ProcessUsedEnd` |
| `process_avail_vring`, `_process_desc` | `ProcessAvailBegin`, `ProcessDesc`, `PublishUsed` |

Indices keep their width by ratio: 65536 values for 32768 slots is `IdxMod == 2 * Num`.
`freed` and `out` are observations: how many descriptors have been returned, and the last packet
delivered. `freed` jumps to `Overran` when `process_used_vring` frees what nobody announced,
which it does once it has returned `Num` descriptors; properties that no longer make sense from
then on are stated up to that point, and `StuckPastNum` says exactly when it is reached.

### VringChannel

`queue`, `taken`, `used`, `freed`, `out`. `Send`, `Deliver`, `Announce`, `Reclaim` are the
channel; `Overrun` and `Lose` say what is no longer promised when the producer has reclaimed
`Num` buffers. The refinement maps `queue` to the packets of entries `cLastAvail` to
`availIdx - 1`.

### VhostEcho

`clientPc` and `serverPc` follow `loop_client` and `loop_server` (one pass: handle a kick if
there is one, then poll). Eventfds are flags: their counter is only tested and reset. The client
numbers its packets so that echoes can be told apart.

### VhostSession

Per client: where it is in `new_vhost_client`, `init_vhost_client`, `send_packet`, and what it
leaves in its socket and eventfd. Per shared memory object: the TX indices and who wrote the
descriptors. The server: the fd list by slot, the slots of the current pass, the memory table,
and `vring_table`. Each handler is an action that takes one message. `server` records what
stops the server: `SIGPIPE`, a null `vring.used`, a copy from a null buffer, or a walk round the
16-bit index. After that the model stops: nothing restarts the server. `early` is an observation:
a kick was read between the newest client's start and its SET_VRING_ADDR.

File descriptor numbers are abstracted to what a descriptor is. One effect is lost: the number
of a socket closed in a pass may be given to an eventfd that arrives later in the same pass, and
its bit is still set. Its read then fails with EAGAIN (`EFD_NONBLOCK`, vring.c:80) and nothing
changes. It cannot happen to a socket, because the listening socket has the first slot and so
nothing has been closed yet when a connection is accepted.

Three details of the code are not steps of their own here. A SIGINT that ends the wait for the
reply is in `Lifecycle` (`Interrupt`). A `recvmsg` that fails on a reset connection (unsock.c:114)
changes nothing and leaves the end of the stream to the next pass. `new_vring` resets the indices
and links the descriptors in one step: a leftover kick that is read in the middle counts as early
in any case, and what it can do is in the model (`ProcessRunaway`, `ProcessUnmapped`).

### VhostRings

The master is the documented one: base, addr and kick for each ring, in either order of the
rings; kicks after a put where it gave an eventfd; GET_VRING_BASE to stop; a restart from the
index in the reply. The server is its whole loop on the TX side: `Select`, one handler per
request (`SetVringBase`, `SetVringAddr`, `SetVringKick`, `GetVringBase`, `IgnoreRequest`),
`ReadKick`, `Poll`. `is_polling` follows the SET_VRING_KICK handled last, and `poll_server` does
nothing before RX has its addresses, as in the code. Every start hands over an eventfd of its own;
`listening` is what the fd list holds of them, none is ever removed, and `Room` is how many it can
take (`WithKick` is `add_fd_list`, whose error the code ignores). SET_VRING_BASE sets `lastAvail`
and SET_VRING_ADDR reads `lastUsed` from the ring, as in the code. `taken` counts how often a packet
was processed, `stopped` and `late` which ones after GET_VRING_BASE was answered.

### MemTable

The unit is a page. `table` is what the master sent, `regions` is `memory.regions[]`, `mappings`
what `mmap` gave for it. `MapShm` is the kernel: any free place, or a failure, for each region.
As in `map_shm`, a mapping is as long as its region and starts at page 0 of the file, while
`mmap_offset` is added to its address. `Translate` is the loop of `_map_guest_addr` and
`_map_user_addr`. `ring` is the pointer SET_VRING_ADDR keeps; `used->idx` is read through it at
once, which ends the server if nothing is there. `EndServer` unmaps what the code unmaps: the
master's user addresses, in the server's address space. The comment of `unmap_shm` (shm.c:75) means
the server's own mapping; as the process exits next, no property says anything of the state after it.

### DescChain

A packet is a sequence of buffer lengths. `Walk` is the loop of `_process_desc`, round by round:
along `next` while the total stays below `ETH_PACKET_SIZE` (`Fits`); `Copy` is what it ends with.
`ProcessDesc` is one round of `process_avail_vring`, with the used entry that is not written when
nothing was copied. The driver is a guest's and not in the repository: it takes any free
descriptors, in any order (`put_vring`, for packets of one buffer, takes it from the head of a
list), and frees the chain whose head it finds in the used ring. Bytes carry the number of their
packet, so that a walk into another packet shows.

### Lifecycle

`pc` is where a process is in its `main`. A server unlinks, binds, listens, loops, closes and
unlinks; a client creates its memory, connects, waits for its features, sends its tables, loops,
sends RESET_OWNER and unlinks its memory. `path` is the server whose socket the path names;
`name`, `object`, `rings` say which shared memory the names stand for, who has it mapped and who
initialised the rings in it. `Interrupt` is SIGINT, `Kill` is SIGKILL or SIGTERM (no handler),
`broken` a client that ended by SIGPIPE or the failed assertion on the reply, `stuck` one in
`process_used_vring`. `contested` is an observation: who did not have the path or the names for
itself.

## 3. Runs

| run | question | result |
|---|---|---|
| `vring` | Are descriptors shared or lost, do indices stay in order, is the ring a FIFO? | passes, `Num = 3`, two packets |
| `vring_returns` | Does `process_used_vring` return (vring.c:203)? | violated |
| `echo` | Are wakeups lost, echoes in order, packets served; where does a run end? | passes, `Num = 3` |
| `session` | Is the first client safe from its own handshake, what can a restart break; does the loop block; does every client get its reply, is every slot given back? | passes, 2 clients, 2 packets |
| `session_restart` | Are descriptor addresses mapped when the server follows them (vring.c:259)? | violated, 2 clients |
| `session_reply` | Does the server survive a reply it cannot send (unsock.c:149)? | violated, 1 client |
| `memory` | Do translated addresses, and ring pointers that outlive their table, reach the page meant? | passes, 3 tables |
| `rings` | Is anything skipped, repeated or left over when rings are stopped, restarted, kicked or polled, and do the two indices stay together? | passes, 3 packets, 2 stops, room for 2 eventfds |
| `rings_stop` | Is a stopped ring left alone (doc/vhost-user.txt:319)? | violated, 1 packet, 1 stop |
| `chain` | What is delivered of a chain, and does the driver get its own descriptors back? | passes, `Num = 3`, 5 packets |
| `lifecycle` | Who has the path and the memory, what stays behind, does a client wait for ever? | passes, 2 servers, 2 clients, 1 kill |
| `lifecycle_path` | Does a server remove only its own path (unsock.h:28)? | violated, 2 servers |

What the passing runs show beyond single steps:

* `OneOwner`, `NoDescLost`: over all interleavings of filling, publishing, processing, announcing
  and freeing, including reuse of descriptors in another order than the first round's.
* `ImplementsChannel`: every step of `Vring` is a step of `VringChannel` or a stutter.
* `WaitingIsKicked`: on both rings, reading the eventfd before the ring is enough.
* `TxServed`: everything the client publishes is taken, up to the moment it hangs and after it.
* `BatchEchoed`: of a batch only the last packet is echoed, and that one always is while RX has
  descriptors. The server drops the others; the model does not hide it.
* `ClientGetsStuck`: *every* fair run of the connected pair ends with the client in
  `process_used_vring`. This is the same defect as `vring_returns`, seen from outside.
* `FirstClientSafe`: for the first client no order of kill, kicks and messages makes the server
  follow a null or stale pointer; together with `session_restart`, which shows that the second
  one can, it says that the stale tables are the only cause.
* `KickListened` and `ReplyComes` are exact about the fd list. Eventfds are never removed, and the
  sockets of clients that have left may still be listed when their successor comes; so client `g` is
  certain to be heard if there are `2 * g` slots for its connection and `2 * g + 1` for its eventfd
  too, the listening socket included. The run has five slots for two clients, none to spare: one
  slot that `add_fd_list` misses leaves the second client unheard. With four TLC finds both sockets
  and the first eventfd in the way of the second one, with three a connection that is accepted and
  never read from: the result of `add_fd_list` is ignored in both places (unsock.c:179,
  vgpu_host.c:341). `FD_LIST_SIZE` is 10, which is enough for four clients, and since a slot is lost
  for good with every client that gets as far as SET_VRING_KICK, the ninth of them at the latest is
  not heard. `KicksAreListened` in section 4 is the general statement.
* `HarmOnlyByEarlyKick`: the faults and runaways a restart can cause all come from a kick, left
  behind or the successor's own, that is read between the successor's start and its
  SET_VRING_ADDR. Whatever else predecessors left, in sockets, eventfds, tables and shared memory,
  is harmless to `process_avail_vring` (not to SET_VRING_ADDR: a message that a killed client left
  can still be handled under its successor's memory table, which is `badRing`).
* `NothingSkipped`, `RepeatedOnlyIfLate`: GET_VRING_BASE does not stop the ring (`rings_stop`), but
  the price is exactly that: packets processed after the answer are processed again, none is lost.
  `UsedFollowsAvail`: the two indices of the ring, which different requests set at a restart, part
  only where a packet was processed late.
* `TxServed` of `VhostRings` holds for every choice of watch and order of the rings but one: TX
  polled, and RX set up after it and kicked. `is_polling` is one flag that each SET_VRING_KICK
  overwrites (vhost_server.c:346), so packets are then left for ever; with RX set up first they are
  served. It also ends at the start whose eventfd finds the fd list full.
* `TranslationReachesFile` is exact: of a region with an mmap offset the last pages, as many as the
  offset, lie behind its mapping, and all others are reached. `RingReachesItsFile`: a second
  SET_MEM_TABLE leaves ring pointers good, because nothing is unmapped; its second part says what
  can kill the server in SET_VRING_ADDR.
* `PrefixDelivered`: a chain of exactly `ETH_PACKET_SIZE` loses its last buffer (the test is `<`),
  and no other harm is done as long as every first buffer fits. A packet whose first buffer does
  not fit makes `_process_desc` skip the used entry; `MixedOnlyAfterWrongEntry` says when that
  becomes corruption of other packets: not before the driver has looked at that entry.
* `ReachableUnlessContested`: a server that shares the path with no other can be reached, whatever
  a killed one left there. `OneKeepsThePath` is about those that do not: however servers unlink and
  bind between one another's steps, one is left that can be reached, unless one was killed, or one
  that had the path ended (`lifecycle_path` shows what that does). The others are deaf, and their
  end takes the path from nobody.
* `NameIsOfUnfinished`: names are left behind by clients that were killed, found no server or lost
  it, and by no others, whoever shared the memory. `RingsAreOwn`: as long as no other client creates
  its memory or ends, a client keeps the names, and taking over a killed client's memory is
  harmless. What two clients at a time do to one another's names is in the model, but the code
  promises nothing about it and no property bounds it.
  `WaitEnds`: a client that waits for its features comes out of it when the server goes.

Violations are written up in `PROJECT.json` under `findings`, with the comment each one
contradicts. Deviations that passing properties name as exceptions (polling of the first ring, mmap
offsets, a chain of full length, a first buffer that does not fit, a full fd list, a path or names
that are contested) are stated in the comments of those properties.

### Bounds

* `Num = 3` in `vring`: the smallest ring in which the free list can be permuted while one
  descriptor is with the consumer and another is being filled. No other bound is needed: the
  producer gets stuck after `Num` descriptors, which makes the state space finite. The indices
  never wrap for the same reason.
* `Num = 3` in `echo`: batches of one, two and three packets, and RX exhaustion. Packet numbers
  go up to `2 * Num`, which `TypeOK` shows is never reached.
* `MaxClients = 2`: a client and its successor. What the server keeps of the past is one table,
  so a third client meets what the second one met, except in the fd list, for which
  `FdListSize = 5` leaves no slot to spare. `MaxPackets = 2`: a packet before and one after the first
  kick that counts. `Addrs` has two members, so that the successor's mapping may be at the same
  address or another. One client runs at a time, as the fixed shm name demands.
* `rings`: three packets and two stops let a packet be put before, between and after each stop,
  and be processed late in both; all four choices of kick and poll. With `Room = 2` the second start
  still finds room for its eventfd and the third finds the list full. A counter that is kept modulo
  16 bits does not matter at these lengths and is left a natural number.
* `memory`: eight pages of address space, of which one is the server's own; tables of one and two
  regions, one file or two, moved and split with an offset. Three tables in a row: a ring placed
  under the first lives through two replacements.
* `chain`: with `Cap = 4` and `Hdr = 1` the packets are below, at and above the limit, in one to
  three descriptors; five packets go round a ring of three once and into its second round.
* `lifecycle`: two of each kind is what contention needs; every process runs once, a restart is
  another process, numbered in the order of starting. One kill, since a second one only empties
  the scene.

`CHECK_DEADLOCK` is off where the system stops: in the session runs the last client leaves and the
server waits in select, or has died; in `memory` and `lifecycle` all processes have ended; in
`chain` the driver has put its last packet. In `rings` the server's loop never stops.

### Fairness

* `Vring!FairSpec`: a call that has begun goes on (weak fairness of the steps inside a call);
  when a process calls is its own choice.
* `VhostEcho!FairSpec`: both loops run while `app_running` is set, and nothing in them blocks:
  select has a timeout, eventfds are read only when readable.
* `VhostSession!FairSpec`: the server's loop runs on, and a client goes through its handshake
  and kicks after a put. Putting, leaving, being killed and being started get no fairness.
* `VhostRings!Spec`: the server's loop, in which nothing blocks, and the guest's kick after its
  put. When the master starts, puts or stops is its own choice.
* `Lifecycle!FairSpec`: weak fairness of each process's own steps. A process need not be started,
  interrupted, killed or get stuck.

## 4. Proofs

Every safety invariant of every passing run, and the refinement of the ring, are theorems for all
values of the constants. The assumptions are those the modules
state by name (`VringAssumption`, `EchoAssumption`, `SessionAssumption`, ...): the constants are
numbers or sets, rings and fd lists are not empty. `MemTable` also assumes `RegionsDisjoint`: the
regions of one table do not overlap, neither in the master's user addresses nor in its guest
addresses, because the master takes each from a mapping of its own (vhost_client.c:54-56). Without
that the first region that matches would be returned for an address of the second.
`MemTableAssumption` also says that no region is larger than the lowest address mmap gives
(`FirstAddr`): the code makes an address for a region whose mmap failed, its bare offset, and where
mmap places regions neither that nor what is behind it can meet a mapping; nothing in the code
checks it. `DescChain`
assumes of a packet that it has at least one buffer and no more than there are descriptors, that
no buffer is empty, and that the first one holds the virtio header, which vhost-user masters write
in front of every packet; `avail_handler` gets the length without it.

| module | theorem | property |
|---|---|---|
| `VringProofs` | `RingInvariant`, `TypeCorrect`, `IndicesStayInOrder`, `DescriptorsHaveOneOwner`, `OutstandingStaysIntact`, `UsedFollowsAvail`, `StuckAfterNum`, `NoDescriptorIsLost` | `RingInv` (inductive), `TypeOK`, `IndicesInOrder`, `OneOwner`, `OutstandingIntact`, `UsedInOrder`, `StuckPastNum`, `NoDescLost` |
| `VringRefinement` | `RingImplementsChannel` | `ImplementsChannel` |
| `VhostEchoProofs` | `EchoInvariant`, `TypeCorrect`, `KicksNotLost`, `NewestIsEchoed`, `EchoesFollowPackets` | `EchoInv` (inductive), `TypeOK`, `WaitingIsKicked`, `BatchEchoed`, `EchoesInOrder` |
| `VhostSessionProofs` | `SessionInvariant`, `TypeCorrect`, `PassNeverBlocks`, `FirstClientIsSafe`, `StartedRingIsKicked`, `HarmIsByEarlyKick`, `KicksAreListened` | `SessionInv` (inductive), `TypeOK`, `HandlersNeverBlock`, `FirstClientSafe`, `NoLostKickOnceStarted`, `HarmOnlyByEarlyKick`, `KickListened` |
| `VhostRingsProofs` | `RestartInvariant`, `TypeCorrect`, `RestartSkipsNothing`, `RestartRepeatsOnlyLate`, `UsedIndexFollows` | `RestartInv` (inductive), `TypeOK`, `NothingSkipped`, `RepeatedOnlyIfLate`, `UsedFollowsAvail` |
| `MemTableProofs` | `MappingsHold`, `TypeCorrect`, `PointerSurvivesTables`, `LookupsReachFile` | `MappingInv` (inductive), `TypeOK`, `RingReachesItsFile`, `TranslationReachesFile` |
| `DescChainProofs` | `ChainsInOrder`, `TypeCorrect`, `DeliversPrefix`, `UsedEntriesNamePackets`, `MixedOnlyAfter` | `ChainInv` (inductive), `TypeOK`, `PrefixDelivered`, `UsedNamesPacket`, `MixedOnlyAfterWrongEntry` |
| `LifecycleProofs` | `LifeInvariant`, `TypeCorrect`, `Reachable`, `OneReachable`, `NamesOfUnfinished`, `OwnRings` | `LifeInv` (inductive), `TypeOK`, `ReachableUnlessContested`, `OneKeepsThePath`, `NameIsOfUnfinished`, `RingsAreOwn` |

All are laid out alike: the parts of the inductive invariant, lemmas about the data, one lemma
`...Keeps` per action with a step for each part that the action can disturb, the initial state, and
the theorems. The strengthenings were checked with TLC as invariants of the runs' instances before
they were proved; the runs themselves check the properties.

**The ring.** `OneOwner` is not inductive: the descriptor that `put_vring` takes next is
`next[pLastAvail]`, so one needs to know where the links of unowned descriptors lead
(`FreeListClosed`: to unowned descriptors, never to the head, no two to the same one), and that
is kept by `_free_vring` only if the descriptor it returns is one in flight, which is `UsedInOrder`,
which needs that processed entries are in order and not overwritten (`IndicesInOrder`). That
indices do not wrap is `StuckPastNum`. `ClaimReady` says what `put_vring` has done between its
steps. `RingInv` is the conjunction. `Room` uses a cardinality argument: while a descriptor is
unowned, fewer than `Num` entries are in flight.

**The free list.** `NoDescLost` says that following the links from the head reaches every unowned
descriptor. The inductive form does not follow links: `Lists` says that the unowned descriptors
can be put in a sequence without repetitions that begins at the head and whose neighbours are
linked. `put_vring` takes the first member away, `_free_vring` puts one in front, which is free of
the others because it was in flight. That `FreeList`, a recursive function, computes the members of
that sequence is the lemma `FreeListFinds`.

**The refinement.** The mapped queue is a sequence of `availIdx - cLastAvail` packets (`Entries`).
`PutIdx` appends to it: the ring slot it publishes is `ClaimReady`'s, and a claimed descriptor's
buffer holds a packet, which had to be added to that part of the invariant. `ProcessDesc` takes its
head, or, after the overrun, loses what it should have been. Every other step of either process
leaves the mapped variables alone, by `OutstandingIntact` and `OneOwner`: filling a free
descriptor changes no packet in the queue.

**The event loops.** The wakeup invariants are inductive as they stand. The order of echoes is not:
`Numbered` says that the TX queue holds consecutive numbers after the last one taken, `Counts` that
neither ring carries `2 * Num` packets (which is why packet numbers stay in their type: a client
that has reclaimed `Num` descriptors is in `process_used_vring` for ever), `EchoOrder` is
`EchoesInOrder` without concatenations, and `BatchInv` says that the buffer holds the packet taken
last or nothing, and that it is empty when the server waits.

**The session.** What makes it hard is that predecessors' messages are handled under their
successor. `InSequence` says of every client that the server has taken the first `t` of the
fourteen messages it can send and the rest is in its queue in order; `NewestInv` ties that `t` to
what the server has done for the newest client (`Progress`: from the third message on the table in
force is its own, from the thirteenth on the TX ring is its own and last_avail_idx is not ahead).
A predecessor's SET_MEM_TABLE could undo that. `TableInv` and `Lags` say why it does not: the table
is sent after the reply to GET_FEATURES, so its socket was accepted long ago and the table heads its
queue; a pass that takes the successor's first message also has the predecessor's turn in it, so
at most one message of the successor is taken before the table is. A predecessor's SET_VRING_ADDR
after that maps the ring of the table in force, the successor's. `PassInv` is what keeps handlers
from blocking: a slot of this pass changes only through its own handler, since sockets are listed
once (`FdInv`) and freed slots are not in the pass. `FirstInv` is the part about the first client.
`KicksAreListened` needs `KickInv` besides (every eventfd is listed once, and not before its message
was taken) and counts the descriptors of the clients so far (`RoomForKick`, with the pigeonhole
principle). It has no hypothesis on the length of the list: a list that was full for some client
leaves the claim about it, and the eventfds already listed, untouched.

**Restarts.** A restart may take last_avail_idx back, so the proof follows the SET_VRING_BASE that
does it through the socket (`QueueOK`: what it carries, and that it comes before the requests that
start the ring) and counts how often it has been handled (`RoundsOK`: a packet is processed at most
once a round, and what lies ahead of last_avail_idx and was processed was processed late). The used
index needs `UsedOK` on top: while the server has told where it stands and was not started again
(`Told`: the index is in the reply, with the master, or on its way back), last_avail_idx is still
that index, so SET_VRING_BASE changes nothing unless a packet was processed late.

**The memory table.** While the server is up it never unmaps: mappings only grow in number and stay
apart (`MappingsApart`), and each region in force has a mapping or is one whose mmap failed
(`RegionsMapped`). `TranslateHit` says that a lookup finds the region that holds an address,
whatever the order of the search.

**Chains.** `Orderly` is what a reader expects of the ring: each outstanding chain lies in its
descriptors as it was put (`DescsInPlace`), no two share one (`ChainsApart`), avail and used
entries name their heads (`HeadsListed`, `HeadsUsed`), and what has been delivered is the prefix
that fits (`Outcomes`). It is inductive only under `Clean`: the driver has not yet looked at an
entry of a packet of which nothing was copied. Since such a packet has a first buffer that does not
fit, `FirstBuffersFit` implies `Clean`. `CopyOfPacket` is the lemma about `_process_desc`: walking a
chain in place adds the buffers up to the first that does not fit (`CutExists`), stops there or at
the end (`WalkStops`), before `Num` rounds are over, and meets bytes of that packet only. That used
and avail slots of different live packets differ (`SlotsDiffer`) follows from `RoomInRing`: chains
that are apart need a descriptor each (`Pigeons`), so there are never more than `Num`.

**Induction over data.** `Totals`, `Walk` and `FreeList` are recursive functions, and what they
compute is needed for every length. `SmallestOf` and `LeastOf` give every nonempty set of numbers
a least member (from the well-foundedness of `<`), and a claim about all rounds is proved by
showing that the set of rounds at which it fails has no least one. The same argument shows that
such a function exists, so that its definition can be unfolded.

**Starts and ends.** `PathInv` says that an uncontested server has the path from its bind to its
unlink, `BoundInv` that whichever server the path names got it by bind and has not ended: with it
`OneKeepsThePath` is inductive, since a server that finds the path taken finds it bound, and the end
of one that did not get it leaves it alone. `NameInv` says that the object a name stands for, and
every mapped object, was created by its client, that a creator has its own object mapped as long as
the names stand for it, and that no client gets past create_shm without one. `PeerInv` is what
`NameIsOfUnfinished` needs of a client that broke off: its server has run, and is gone for good.

Only model-checked: all liveness properties (`ProcessUsedReturns` in `vring_returns`, `TxServed`,
`ClientGetsStuck`, `ReplyComes`, `ClosedIsDropped`, `WaitEnds`, ...), since liveness under fairness
is out of the prover's reach; and the properties of the `violation` runs, which do not hold.

## 5. Not modelled, and the plan

Not modelled:

* Statistics, debug output and `main.c` (its Makefile target is marked unused): counters and text
  that no control depends on.
* `vring.num`, sent but the same everywhere; `callfd`, which is never used; the write list of the
  fd list, which nothing enters.
* `create_shm` and `end_shm` that fail half way, and calls like `socket` and `accept` that fail.
* `put_vring` with a packet longer than its buffer has room behind the header: both callers put
  packets that came out of `_process_desc` or are a few bytes long.
* Undefined behaviour without an effect on the state: `put_vring` reads the length of
  `desc[65535]` and throws it away when no descriptor is free (vring.c:138), and `FD_ISSET` is
  applied to -1 for free slots, whose missing handler makes the outcome harmless except for a
  count that is only compared (fd_list.c:125).
* Memory order: the build has no optimisation and the target's stores stay in order, so accesses
  take effect in program order.
* RX under a polling or stopping master: what `poll_server` echoes is in `VhostEcho`, under the
  repository's client.

What could come next:

1. `VhostEcho` is proved over `VringChannel`, and `Vring` implements that. A module that composes
   two `Vring`s with the event loops would state the properties of the pair about the real rings;
   the refinement theorem already gives the steps.
2. Failures of `create_shm` and `end_shm` half way, in `Lifecycle`.
