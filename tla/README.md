# A TLA+ development of libsinet

libsinet moves packets between the rings of a network interface and those of
the host's stack, in user space, through netmap. This directory specifies its
concurrent core, checks it with TLC on small instances and proves parts of it
with TLAPS for every size. Paths below are relative to the repository.

## The system

### Components, their state and operations

| Component | Source | State | Operations |
|---|---|---|---|
| Intrusive lists | `src/sin_list.h`, `src/sin_types.h` | head, tail, length; the links are in the objects | append, reset, walk |
| Work-item queue | `src/sin_wi_queue.c` | a list, a mutex, a condition, `nwait` | put_item (bounded), put_items, pump, get_item, get_items |
| Receive thread | `src/sin_rx_thread.c` | head, cur and tail of a ring, the list `pkts_in` | poll, dequeue, sort, give slots back |
| Packet sorter | `src/sin_pkt_sorter.c`, `sin_sorter.c` | a list of entries, a work list for each | register an entry, sort and consume a batch |
| Transmit thread | `src/sin_tx_thread.c` | cur and tail of a ring, the list `pkts_out`, the out queue | take packets, exchange buffers, advance, sync |
| Packets and zones | `src/sin_pkt*.[ch]` | a packet per slot, its busy flag, its buffer | construct, swap, copy, return, lock |
| Worker threads | `src/sin_wrk_thread.c`, `src/sin_signal.c` | method pointers, control queue, preallocated signal | construct, check_ctrl, notify_on_ctrl, destroy |
| Instance | `src/sin_init.c`, `src/sin_destroy.c` | descriptors, zones, sorters, threads | init with its undo labels, destroy |
| ICMP responder | `src/sin_ip4_icmp.c`, `src/sin_ip4.h` | none | taste, request to reply, checksums |
| Sockets | `src/sin_socket.c`, `sin_bind.c`, `sin_connect.c`, `sin_close.c` | reference count, addresses | create, bind, connect, close |
| Event queue | `src/sin_queue.c` | one structure | construct (a stub) |
| UDP mirror | `apps/udp_mirror` | the instances, the SIGHUP handling, the session | become a daemon, set up and destroy instances, register a sorter, taste, mirror datagrams |
| Helpers | `src/sin_mem_fast.h`, `sin_math.h`, `sin_errno.c`, `sin_debug.h`, `misc` | none | copies, errors, debugging, scripts |

### How they interact

`sin_init` makes a work set for every hardware ring (`phy[i]`) and one for the
host ring (`hst`). A work set has a receive ring and a transmit ring shared
with the kernel, a zone of packets for each (one packet per slot, for ever),
and a thread for each. The receive thread dequeues packets, marks them busy and
lets the sorter distribute them to the work lists of its entries; the consumer
of an entry puts its list on the out queue of a transmit thread. On a hardware
ring the ICMP entry answers on the same ring and everything else goes to the
host; everything from the host goes to hardware ring 0. The transmit thread
exchanges the buffer of each packet with that of a transmit slot and returns
the packet to the zone it came from, which clears its busy flag. `spin_ring`
in the receive thread then moves head past packets that are back.

`udp_mirror` is the application in the repository: it may become a daemon, calls
`sin_init` and `sin_sorter_reg` for each interface on its command line, waits, and
calls `sin_destroy` for each.

The threads share: an out queue (mutex and condition), the busy flags (a mutex
per packet), and the slots of a receive ring (by ownership: whoever holds the
busy packet). The owner tells a thread to stop with a signal on its control
queue and one pump of the queue it may wait on, then joins it.

### What is hard

- wakeups: signals are sent only when `nwait` says so, once per batch, to
  getters that do different things with a wakeup;
- intrusive links: an object on two lists, or reused with a link in it,
  corrupts somebody else's list;
- ownership of slots: packets come back out of order from several threads while
  the NIC goes on; three positions of a ring wrap independently;
- values read before a wait and used after it; batches larger than the ring;
- starting and stopping threads: what they may use before, and what is freed after;
- two dozen acquisitions in `sin_init`, each of which may fail;
- the exchange of two buffers takes four stores to slots and packets that the
  kernel and other threads look at, and no lock;
- a parent that exits and a child that changes signal handling and session;
- lists and counts changed without a lock (sorter entries, references);
- checksums updated in place, in fields narrower than the sums.

The properties that make each component correct are those of the section
"Modules" below. `PROJECT.json` lists the hazards one by one, at their lines.

## Modules

`SinList` holds the list operations as operators on the record of head, tail
and length, and on the function from objects to links. `WorkQueue` and
`Forwarder` are abstract specifications: a FIFO queue shared by getters, and
FIFO channels of frames. Definitions marked "(faulty: ...)" are deliberately
wrong versions of the definition that follows them, which show that a property
notices the mistake; nothing else uses them.

### WiQueue: the work-item queue

One action is one critical section: `GetNow`, `StartWait`, `WakeTake`,
`WakeReturn`, `WakeWait` are what get_item and get_items do between the lock,
or the return of `pthread_cond_wait`, and the unlock or the next wait. `Unlink` is
the assignment get_item makes after its unlock, `ListAppend`, `NextOut` and
`Release` what callers do with objects they own. `next` is every object's
`sin_next`; `contents` is a history variable with the sequence each list
should stand for.

- `ListsIntact`: each list, followed along the links, is its sequence, with the
  right tail and length. `OneOwner`: no object is in two places.
  `FreeUnlinked`: the assertion of `sin_list_append`.
- `NoLostWakeup`, `WorkIsTaken`: signalling. What `NoLostWakeup` needs, that `nwait` counts
  the waiters, is a part of the invariant that is proved.
- `LinksImplementFIFO` (MCWiQueue): the queue read off the links alone
  implements `WorkQueue`. `ImplementsFIFO` is the same with the history variable.

### NetmapRing, RxThread: the receive side

A packet is named by its slot. The thread's loop is split at the iterations of
its inner loops, since consumers run between them: `RxPoll`, `DequeuePkt`,
`SortPkt`, `Consume` (an entry's list goes to its consumer and is reset),
`SpinRing`, `SpinDone`. `ReturnPkt` is `sin_pkt_zone_ret_pkt`, by a consumer, at any
time and in any order. `NicReceive` and the effect of `RxPoll` on the kernel's
positions are netmap's: poll releases the slots before head and shows the
slots filled so far; one slot always stays empty. Which entry tastes a packet is
a free choice here; `Forwarding` fixes it.

- `RxRingInOrder`: the order of positions the kernel checks at every sync.
- `BusySlotsHeld`: no packet in use is in a slot that was
  given back, or that the NIC may fill.
- `BusyInOnePlace`: a busy packet is with exactly one of `pkts_in`, a work list or
  a consumer, once; an idle one with none.
- `RxRingRecovers`: a ring that ran out of slots gets some back.

### TxThread: the transmit side

The actions follow the main loop: `TxFull`, `TxLeftOver` and `TxNeedPkts` are its
top (with the count of free slots), `TxGet` and `TxGetNothing` the wait,
`TxSwap` one iteration of the transmit loop, `TxAdvance` and `TxSync` the rest. The
out queue is the FIFO queue `WiQueue` implements. Buffers are named by their
contents, since all rings share one netmap descriptor and the thread always
exchanges buffers. All descriptors are opened with `NETMAP_NO_TX_POLL`, so that only
the thread's own ioctl syncs the transmit ring. A sent buffer becomes `Blank`:
sending it again would show.

- `TxRingInOrder`: as for the receive ring. `BatchFits`: slots counted before the
  wait are free after it, the batch fits, and the assertion of `advance_tx_ring`.
- `TxImplementsChannel`: unsent slots, leftover packets and out queue together
  implement one FIFO channel of `Forwarder`, which every frame leaves.

### Forwarding: the data path

Both sides together for all work sets: `Forward` joins `Consume` with the put on
the out queue `Dest` names, `Swap` joins `TxSwap` with `ReturnPkt` of the packet,
`Arrive` joins `NicReceive` with the frame in the packet's buffer. `MCForwarding`
connects one hardware ring and the host ring as `sin_init` does.

- `FwImplementsRx`, `FwImplementsTx`: every step is one of each side, or leaves it
  alone: each side meets what the other assumes of its environment.
- `BusyPacketQueuedOnce`: the packets a zone has given away are exactly those in
  out queues and transmit threads, each once.
- `FwImplementsForwarder`: frames of one source and class leave in order, once,
  unaltered, and in the end all of them.

### WrkThread, Stance: the life of the threads

`WrkThread` has the steps of constructor and destructor, and the worker's loop
reduced to what matters for stopping: a receive worker comes by `check_ctrl`
every 10 ms, a transmit worker waits on its out queue unless the ring is full.
The four method pointers are plain stores made while the thread already runs;
they may become visible in any order. `Stance` adds the order of `sin_init`, of its
undo labels (`InitFails`, after any constructor) and of `sin_destroy`. The two orders are
constants; `OrderAssumption` says what both have in common: receive threads are started after all
transmit threads and stopped before them.

- `UsesNothingFreed`: a running thread finds its signal, its control queue and
  the out queues it puts on.
- `TermSignalTakenOnce`: the put of the signal is never refused (its result is
  ignored), and nothing is read from the control queue once the signal is freed.
- `StopsUnlessPumpMissed`: a thread told to stop ends, unless it is a transmit
  thread that has yet to look at its queue when it is pumped.

### PktSorter: registration on a running instance

`RxThread` has the sorter with a fixed list of entries. `PktSorter` has one sorter
whose list grows while batches are sorted, without a lock. On the registrar's
side `StartReg` is the load of `first`, and each `Store` makes one of the stores of
`sin_pkt_sorter_reg` visible. On the receive thread's side `Taste`, `NoTaste`,
`ConsumeEntry` and `ConsumeDefault` are the iterations of the two loops.
Its destruction is in `InitDestroy`.

- `NothingLeftBehind`: what the first loop puts on a work list the second loop
  takes off, though the list of entries has grown meanwhile.
- `NewestEntryFirst`: the order of entries decides, for all entries registered
  before the batch.
- `TasteSet`: no entry is asked before its `pkt_taste` is there.

All are checked for one registrar and stores that become visible in order, and
each restriction is needed. With two registrars one of two entries is lost, and packets
on its work list with it (`sin_pkt_sorter.c:100-101`; `MCPktSorter_race.cfg` shows
it). Nothing orders the stores to an entry before the one to `inst->first`: with
`StoresInOrder = FALSE` the receive thread calls a null `pkt_taste`.

### InitDestroy, PktZone: acquiring and releasing

`AcquireOrder`, `UndoOrder` and `DestroyOrder` are the sequences of `sin_init`, of
its labels and of `sin_destroy`; `Acquire` and `AcquireFails` take a step of the
first, `Release` of the others, with the tests the code makes (`Releases`). Descriptors
that were not opened become -1 (`SET_IFNOT_ERR_ELSE_RST`). `PktZone` has the
construction and destruction of a zone packet by packet.

- `ReleasesOnlyHeld`, `DestroysOnlyThere`: nothing is released that is not there.
- `OnlyMappingLeft`, `LeftOver`: what is left in the end. Nobody unmaps netmap's
  memory; a zone whose packets could not be made leaves `pmap`; `sin_pkt_zone_dtor`
  frees packets without their time stamps and mutexes.
- `ThreadsFindTheirOwn`: at every point of all three sequences, what a running thread
  uses is there.

### PktSwap: the exchange of buffers

`TxThread` follows what the buffers contain, and exchanges them in one step.
`PktSwap` looks into `sin_pkt_zone_swap`: for the receive zone of one ring and the
transmit threads its packets go to, it has the buffer index and the flag of every
slot and the `buf` of every packet. `SwapIdx`, `SwapBuf` and `SetFlags` are the stores,
`RetPkt` gives the packet back, `Advance` passes the filled slots on. The exchange of one
field by three exclusive ors is one store: nobody else looks at the field
meanwhile, which is what `BuffersApart` is about. `Dequeue`, `Spin`,
`KernelPasses` and `Sent` are the receive thread and the kernel. The kernel keeps the
buffer it has for a slot (`mapped`) and looks again only if the flag says so. The
order of slots is that of `RxThread` and `TxThread`; here any slot a thread may take
can be the next.

- `BuffersApart`: no two slots name one buffer, and a slot of the kernel's, or one that is
  not being exchanged, names the buffer its packet has. The kernel never writes a frame
  into a buffer with another one, though all transmit threads are at it at once.
- `KernelKnows`: the kernel never uses the buffer that a slot had before the exchange.

### InitZone: a zone in the life of an instance

`InitZone` composes the three: one receive zone is constructed, given up or destroyed
(`Caller`) inside the step of `sin_init`, its labels or `sin_destroy` that does so, and
the threads that are there exchange its buffers meanwhile (`Threads`). A thread is
released by joining it, which takes it between two batches (`Joined`).

- `WholeWhileUsed`: a thread finds all packets of the zone.
- `SwapsWhatIsThere`: the packet and the zone of an exchange under way are there.

### UdpMirror: the application

`UdpMirror` is the main program, around `InitZone`: `InitIf`, `RegIf`, `WakeUp`, `DestroyIf`
and `Exit` follow its loops. The instance of the interface `Followed` is the one of
`InitZone`, step by step and with its threads; those of the others come and go in a
step. `Foreground`, or `IgnoreHup`, `Fork`, `ForkFails`, `SetSid` and `RestoreHup`, are
`udpm_daemon`; the parent exits when it likes (`ParentExits`), which may throw a SIGHUP
at the processes of its session.

- `HangupUnharmed`: that SIGHUP never ends the child, and the program runs with the
  handling of SIGHUP it was started with, but for the fork that failed, whose result
  `main` does not look at.
- `NoInstanceLeft`: the loops destroy what they set up, and all of it.

### IpRewrite: consumers that rewrite packets

`sin_ip4_icmp_taste`, `sin_ip4_icmp_repl_taste` and `udpm_taste` are the tests of the
same names, `RewriteEcho` is `sin_ip4_icmp_req2rpl`, `Mirror` is `sin_ip4_udp_mirror` in
either build, on headers of a few words of `W` bits. They start from every valid packet of
that size, for us or not: `IrInit` has lengths, protocols, types and ports on either side
of each test. The judge is `OnesSum`, the one's complement sum of RFC 1071; `Total` is the loop
of `sin_ip4_cksum`. `WordAssumption` keeps a word wide enough for the carries of these headers.

- `MirroredValid`: swapping addresses and ports keeps both sums valid, and so does
  computing them.
- `EchoSumOffByCarry`: says exactly when the ICMP sum of an echo reply is right: when
  the 16-bit addition of line 142 has no carry to lose.
- `EchoEnds`: what has been answered is a reply for its receiver and is never answered again.

### Sockets

One step is a load or a store of the reference count (`Load`, `Increment`, `Check`,
`Decrement`), or a whole call that works on one socket's addresses (`SetFirst`,
`SetInPlace`, `SetLonger`, `Close`). An address is a block of memory, a pointer into a
block and a length; `realloc` may move the block.

- `EachBlockOnce`: no block is leaked, freed twice or shared.
- `CountCoversSockets`: the count is never below the number of open sockets plus
  one, on all paths, as long as calls come one at a time. It may be above:
  `sin_close` gives no reference back.

Two more definitions say what the code does not do. `BoundAddressKept`
(`MCSockets_address.cfg`): after `realloc` has moved the block of an address, `addr`
still points into the old one, and the address is written there (`sin_bind.c:63`,
`sin_connect.c:63`). `LiveInstanceAccepted` (`MCSockets_refused.cfg`): two concurrent
calls of `sin_socket` can lose a reference, after which a live instance is taken for
one that was not initialized.

## Findings

- `destroy_returns`: the exception of `StopsUnlessPumpMissed` is real. If the pump
  comes after a transmit thread's `check_ctrl` and before its wait, no signal is
  sent; the thread waits, no receive thread is left to put anything, and
  `pthread_join` never returns. `test.c` expects `sin_destroy` to return.
- `methods_set`: `pthread_create` (line 121) comes before the stores of the method
  pointers (129-132), and the new thread's first call is `get_tname`.
- `reply_header`: the header sum of an echo reply is computed over a header that
  still holds the old sum, and comes out as 0 (`sin_ip4_icmp.c:139`).

No document says otherwise of what the sections `PktSorter` and `Sockets` list, nor
of the leaks under `InitDestroy`. Line 95 of `sin_pkt_sorter.c` sets the type tag
of the sorter where that of the entry is meant; tags are not modelled.

In the run `stance`, a thread that calls a pointer not yet set ends
the program, and the properties hold up to there.

## Runs and bounds

| Run | Module, configuration | Bounds | Distinct states |
|---|---|---|---|
| queue | MCWiQueue | 4 items, 2 producers, a batch and a single-item getter, limits 0 and 2 | 25 717 |
| rx_ring | RxThread, MCRxThread | 5 slots, 2 entries | 3 410 |
| tx_ring | TxThread, MCTxThread | 3 slots, 3 packets, 2 frames | 115 056 |
| forwarding | MCForwarding | 3 slots, 1 frame from the network, 2 from the host, 2 entries | 152 848 |
| stance, destroy_returns | MCStance | 2 receive and 2 transmit workers, 1 packet per queue | 14 720 |
| methods_set | MCStance, `_methods` | the same | stops at the violation |
| sorter | PktSorter, MCPktSorter | 3 entries, 1 registrar, batches up to 2, stores in order | 138 704 |
| init_destroy | UdpMirror, MCUdpMirror | 2 interfaces, the first followed; 3 hardware rings, 2 slots, 2 transmit threads with 2 slots each, 2 frames | 463 686 |
| rewrite | IpRewrite, MCIpRewrite | words of 3 bits, ports 2 to 6, 3 values for what is left alone | 161 488 |
| reply_header | IpRewrite, `_header` | the same | stops at the violation |
| sockets | Sockets, MCSockets | 1 thread, 2 sockets, 3 blocks, count up to 4 | 226 420 |

Runs with liveness properties check them together with the safety properties, under
the fair specification.

Four items let a batch join a queue of two that a getter is about to cut; two
getters are the least with which a signal can go to the wrong one. A ring of
five slots holds four packets: two returned around one that is not, with one
still to dequeue. In the transmit runs three packets meet two free slots, so
that a rest is left over, and behaviours are unbounded: the ring wraps at all
offsets. `MaxPut` is the number of packets there are, or what a work list of a whole
ring's packets can hold. `MaxFrames` bounds the frames each ring receives in a
behaviour of `Forwarding`: three can meet in the out queue of the hardware ring, put
there by both receive threads, and its two usable slots are one too few. That
rings wrap around at every offset is left to the runs of either side, which
`FwImplementsRx` and `FwImplementsTx` carry over. `MaxOut` bounds the packets in an
out queue: a transmit worker only tells none from some. Work sets of one side
share no state but packets, so one is enough in the runs of one side.

Three entries let one be registered behind, at and before the entry the walk is at.
`EachPhy` makes all rings alike, so three show the first, the last and one between
them. Two slots of the zone and two frames let one packet be exchanged by each of two
transmit threads at once, or both by one, in one batch or in two, and let a slot be
received into again after an exchange; the theorems are for any number. `Frames` bounds the frames that arrive. `Followed` is the first interface, so that
the other one comes up while its threads run, and may fail. The parent is gone when the child
leaves `udpm_daemon` (`Daemon`): after `setsid` its exit touches nothing of the child. Words of 3 bits are the
scaled words of the code: five of them need both folds, sums carry out of a word
and `EchoReq` is neither 0 nor the top bit. A block of memory more than two sockets
can hold without a rest is not needed: `realloc` moves an address whenever one is
free, and three blocks are freed and taken again in all orders. `MaxRef` bounds the
number of successful calls of `sin_socket`, whose references are never given back.

Deadlock checking is off where the system does stop: `Stance`, `UdpMirror`
after its exit or a crash, `IpRewrite` after the one packet, and `Sockets` when the
count has reached `MaxRef` and all sockets are closed.

## Fairness

Threads are scheduled: each has weak fairness on the steps it can always take.
In `WiQueue` nothing makes producers put, and a wait ends for sure only when
signalled. In `RxFairSpec` consumers return what they were given, which
`FwImplementsForwarder` does not assume: there they are the transmit
threads. NICs send the slots they have (`NicSend`). Spurious wakeups, the
arrival of frames, a full ring in `WrkThread` and the end of the application are
never assumed to happen.

## Proofs

`WiQueue_proofs` proves for any items, threads and calls that `Inv` is inductive:
the type invariant, `ListsIntact`, `OneOwner`, `FreeUnlinked`, `HandsRight`,
`WaitersCounted` and `NoLostWakeup` together. They need each other: splicing two lists keeps
both intact only because no object is on two (`SpliceIsList`, `SpliceFrame`);
appending keeps a list only if the object carries no link (`FreeUnlinked`), and it
carries none because a getter clears it before giving it back (`HandsRight`);
that some getter is awake follows from the count of those that are not.
`QueueImplementsFIFO` maps every step to one of `WorkQueue` or a stutter.
Assumptions: `QueueAssumption`, a finite set of getters, and disjoint threads.

`Forwarding_proofs` has the theorems of `NetmapRing`, `RxThread`, `TxThread` and `Forwarding`. The
lemmas on `Dist` do the modular arithmetic once: distances from a point grow by one with a step
and add up.

Ring order and buffer safety of the receive side are proved for any number of slots,
work sets and entries. The strengthening `RingInv` adds that cur differs from
tail exactly while the thread dequeues, so that poll, which moves the kernel's
head and tail, finds them equal. `RxBusyInOnePlace` follows a packet from list to
list; its one step that could go wrong is a dequeued packet that is busy already, which
`RingInv` rules out (`CurNotBusy`).

`TxRingInOrder` and `BatchFits` are proved for any slots, work sets and packets,
together (`TxInv`): head may be advanced by a whole batch only since
the batch fits, and it fits only since nothing but this thread's own sync moves
cur and tail between the count and the advance.

For `Forwarding` it is proved that the data path implements the specifications of both
sides, `FwImplementsRx` and `FwImplementsTx`, and so inherits their invariants, and
`BusyPacketQueuedOnce`; for any work sets, slots, entries and frames. The first needs no
invariant. The second does: the receive side must be shown to put only filled packets that
nobody uses, and the NIC to write into no packet that waits to be sent. `FwInv` joins the
invariants of both sides with where the packets are (`QueuedOnce`), that a thread takes
packets only when it has none left (`NothingLeft`), and that a busy packet, or one
filled and not yet dequeued, has a frame in its buffer (`FrameThere`). A packet in a queue is
busy; a busy one has its slot between head and cur (`BusySlotPlace`), where no frame arrives
and from where nothing is dequeued. Assumption: a work list, which never holds a whole ring,
is not longer than `MaxPut`.

`TxStepsOfChannels` is the safety part of `TxImplementsChannel`, for any work sets, slots, packets
and frames: every step of `TxThread` is `Accept` or `Emit` of one channel of `Forwarder`, or a
stutter. `TransitIs` has a channel as three parts, the unsent slots, the packets left over and
those of the queue, and each kind of step has a lemma: the NIC shortens the
first part (`NicSendEmits`), a put lengthens the last (`PutAccepts`), a swap moves one frame from
the second to the first (`SwapKeeps`), get_items all frames from the third to the second (`GetKeeps`),
and `AdvanceKeeps` shows that head goes exactly as far as slots were filled. A swap leaves
the buffer of its packet with nothing to send, so that no list may have that packet twice, and
get_items overwrites the list of leftovers, so that it must be empty: that is what `ChInv` adds to
`TxInv`. By `FwPathImplementsTx` all of it holds in the data path (`FwStepsOfChannels`).

`PktSorter_proofs` proves the three properties of a sorter whose list grows meanwhile, for any
number of entries and batches of any size, under the assumption `OneInOrder`: one
registrar, and stores that become visible in order. `PsInv` reads the list from `first` as the
history `regs` backwards, so that the receive thread's position is an index counted from
the end, which a registration does not move (`BatchKeeps`). What the thread knows
at a position are `Tasting`, that no entry it has passed takes the packet, and `Consuming`, that the
work lists it has passed are empty. `StoreKeeps` shows that a new entry is filled in and linked
before it is found, which is where `OneInOrder` is needed.

`Sockets_proofs` proves `EachBlockOnce` for any threads, sockets and blocks. `MemInv` adds
that a closed socket has no address and that an address is unset exactly when it
has no block; else a new socket could start with somebody's block. The lemma
`SetKeepsInv` covers first allocation, writing in place and `realloc` at once: the
address gets a block nobody else has. `CountAlwaysCovers` proves `CountCoversSockets` for calls
that come one at a time (`OneThread`): `RefInv` says at which places in a call the
thread holds a reference of its own, and where what it has read is still the count. With two threads it is false, as
`LiveInstanceAccepted` shows.

`Stance_proofs` proves `UsesNothingFreed` and `TermSignalTakenOnce` for any finite set of workers and
any orders that `OrderAssumption` allows. `StInv` says that a worker's thread, signal and queue
exist as long as the owner's position in its constructor or destructor says
(`Lifetime`), that the control queue holds the one signal while the worker is to take it and is empty otherwise
(`OneSignal`), and that all transmit workers are up while a receive worker is there (`RxWithin`):
the receive thread is the one that uses what belongs to another.

`InitDestroy_proofs` proves `ReleasesOnlyHeld`, `OnlyMappingLeft` and `ThreadsFindTheirOwn` for any number of
hardware rings and a failure at any acquisition. The three sequences are first described place by
place (`AcquireSequence`, `UndoSequence`, `DestroySequence`): which step stands where is arithmetic, and
which label jumps where as well (`LabelsFit`). `IdInv` then says in each phase which
resources are held, by their places: acquired before the present one, or not yet passed by the
labels. A release that does not look at its field first is safe since its label is only
reached after the acquisition.

`UdpMirror_proofs` goes on to `PktZone`, `PktSwap`, `InitZone` and `UdpMirror`.
`BuffersApart` and `KernelKnows` are proved for any slots and any number of
transmit threads. `SwInv` says for each step of an exchange what is already exchanged
(`Buffers`), that a packet is in one queue or one exchange, and that it is busy all that time
(`OnePlace`): two threads never work on one packet. `DestroysOnlyThere` and
`LeftOver` are proved for zones of any size (`PzInv`: the packets before slot `i` are there while the
zone is filled, and after it when it is destroyed). `ZoneImplementsParts` shows that the composition
`InitZone` implements its three parts, whose theorems hold in it therefore.
`WholeWhileUsed` and `SwapsWhatIsThere` need what joins them: `ZoneFollows`, that the zone is up
as long as the instance holds it, but inside its destructor, and `SwapsHeld`, that a thread in an
exchange has not been joined. `MirrorImplementsZone` carries all of this over to the
application (`MirrorInstanceSafe`), for any number of interfaces. `HangupUnharmed` follows from `HupInv`: while
the parent is alive the signal is ignored or the child has a session of its own.
`NoInstanceLeft` follows from `LoopInv`: both loops of `main` count the instances that are up.

`IpRewrite_proofs` proves `MirroredValid`, `EchoEnds` and `EchoSumOffByCarry` for words of any width, and so
for those of 16 bits. A one's complement sum is the sum modulo `M - 1`, but for zero
(`SumReduces`); a header is valid if and only if its plain sum is a multiple of `M - 1`, which
does not depend on the order of words (`SumsUpIs`); two foldings are enough for six
words (`FoldIs`). The headers have few words, so that the sums are unrolled and no induction is
needed. `EchoSumOffByCarry` is the arithmetic of the one addition that may leave the word. Assumptions:
`IpRewriteAssumption` and `WordAssumption`.

The type invariants `RxTypeOK`, `TxTypeOK` and `PsTypeOK` are parts of these invariants.

Every invariant a run checks is a theorem. Only model-checked: everything about liveness and
about `ENABLED`, and `FwImplementsForwarder`, whose channels are picked out of shared rings with
`SelectSeq`: that is recursive, and what it returns would have to be proved by induction.
`LinksImplementFIFO` reads a list with a recursive function; its proved counterpart
is `ImplementsFIFO` with `ListsIntact`.

## Abstractions

- The body of a critical section is one step; so are swap, unlink and return of
  one packet, which nobody else may touch meanwhile (`WiQueue` has them apart).
- Packet contents are a frame's name, lengths and timestamps are left out.
- Kernel and NIC are external: positions move as the netmap API defines.
- Receive and transmit threads end only in `WrkThread`; packets that are left in
  an out queue at that time are dropped with the zones.
- The sorter of the host ring has one entry; in `Forwarding` its other entries are
  there and accept nothing. What a taste accepts is a free choice, fixed per entry
  in `PktSorter`.
- A socket is used by one thread at a time, and memory that is read again after it
  was freed has what was last written there.
- A `sin_init` that fails half way joins the threads it has started; in `InitDestroy` that is
  one step, `Stance` has the threads' own, and `InitZone` those of the transmit loop.
- `sin_pkt_zone_copy` is left out: it is for packets of another netmap descriptor, and all
  zones of an instance are made with the one in `netmap_fd`, which its packets never leave.
- The command line of `udp_mirror`, and the change of directory and of the standard
  descriptors in `udpm_daemon`, are left out; the child of a fork leads no process group, so
  its `setsid` succeeds. Without a timeout `main` never returns from `sigsuspend`: it
  installs no handler, and the signal ends the process.
- The tastes of `IpRewrite` see packets with plain headers. The code looks neither at the header
  length nor at the fragment offset; what it does to the payload of other packets has no
  right answer to compare with.

## Plan

1. Done: lists and queue, receive side, transmit side, data path, thread life,
   sorter registration, acquisition and release, the exchange of buffers, checksums and tastes,
   sockets, the application.
2. Done: every invariant proved for all values of the constants.
3. Done: the steps of the transmit threads as steps of the channels of `Forwarder`.
4. The order of the receive side, from ring to sorter to out queue, stated per ring and not per
   class, so that it needs no `SelectSeq` and can be proved.

Not modelled, and not planned: the event queue stub (one allocation nothing calls), copies of
memory, error codes, debugging output, scripts.
