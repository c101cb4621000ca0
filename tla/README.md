# libfabric-provider-dpa: a TLA+ development

The repository is a libfabric provider on Dolphin's DPAlib: applications open
fabrics, domains and endpoints, connect MSG endpoints, send and receive
messages, and read and write remote memory, all over an interconnect (PIO)
whose remote memory a process maps and stores into. This directory models the
provider in TLA+, checks the models with TLC on small instances, and proves
their central invariants with TLAPS for every value of the constants.

Source paths below are relative to the repository's `src/`, as `dpa_msg.c`.
`PROJECT.json` gives, for every definition, the lines it models.

Run from this directory:

    tlc -workers 2 -config RingMessages.cfg MCMsgRing.tla
    tlapm MsgRingProofs.tla

The modules with theorems are `MsgRingProofs`, `MsgEndpointProofs`,
`ConnMgrProofs`, `RmaProofs`, `CompletionsProofs`, `EventQueueProofs`,
`SetupProofs` (with the address vector and the memory regions) and, about
linked lists as such, `SListTheorems`.

## 1. Inventory

| component (source) | state | operations | properties that make it correct |
|---|---|---|---|
| message ring (`dpa_msg.c`, `dpa_msg.h`, `dpa_msg_cm.h`) | the ring in the receiver's segment, write offset of the sender, read offset of the receiver, the status word that publishes it | `try_send`, `write_msg`, `remote_space`, `try_recv`, `read_msg`, `new_offset`, `data_ptr` | whole messages, once, in order; nothing unread is overwritten; both sides agree on offsets; the ring drains |
| queues and progress of an endpoint (`dpa_msg.c`, `dpa_ep.h`, `list.h`) | send and receive queue, a lock each, two interrupts, the pool of entries | `_dpa_send`, `_dpa_recv`, `process_send_queue`, `process_recv_queue`, `progress_queue`, the interrupt callbacks | no operation lost, repeated or reordered; every operation completes; calls return |
| connection management (`dpa_cm.c`, `dpa_msg_cm.c`) | data interrupt 0 of a node, connection data on it, the pool of buffers, `connected`, the mapping of the remote buffer | `dpa_listen`, `dpa_connect`, `dpa_accept`, `progress_pep_eq`, `progress_ep_eq`, `alloc_msg_buffer`, `connect_msg`, `disconnect_msg`, `dpa_ep_close` | buffers are exclusive; handshakes do not cross; each side maps its partner's buffer; handshakes end |
| remote memory access (`dpa_rma.c`) | `last_remote_mr`: the cached target, its four handles, the remote interrupt | `cache_connect`, `cache_disconnect`, `dpa_readmsg`, `dpa_writemsg`, `cache_connect_interrupt` | no handle lost or released twice; an access goes through the mapping of its target; lengths are clipped |
| memory registration (`dpa_mr.c`, `dpa_segments.h`, `hash.h`) | segments by key, the hash map of regions | `dpa_mr_reg`, `dpa_mr_close` | application, map and library agree; a key is usable again once its region is closed |
| completion queue (`dpa_cq.c`) | entries, error entries, free list, condition variable, progress function | add, read, `sread`, `readerr`, `signal`, `wait_data` | completions once and in order, no struct lost, waiters wake |
| counter (`dpa_cntr.c`) | value, error value | add, set, read, `wait` | the counter follows the completions; a wait returns what is true |
| event queue (`dpa_eq.c`) | entries, free list, condition variable, progress pointer | `read`, `sread`, peek, write, signal | events read once and in order, lists stay lists, waiters wake, requests are taken |
| endpoint (`dpa_ep.c`) | capabilities, tables of operations, bindings, progress functions, the embedded states above | open, bind, accept, connect, shutdown, close | announced operations exist; bound objects lock when they must; progress and interrupts reach those who wait |
| provider information (`dpa_info.c`), domain, fabric (`dpa_domain.c`, `dpa_fabric.c`) | the modes of a domain | `dpa_getinfo`, `dpa_domain_open` | what is announced is what is opened |
| address vector (`dpa_av.c`, `array.h`) | a growing array of addresses | open, insert, lookup, close | a handle keeps its address |
| lists, hash map (`list.h`, `hash.h`) | links, buckets | insert, remove, find | lists end at their tail and repeat nothing |
| locks and atomics (`locks.h`) | build variants | lock, wait, signal, atomic add | mutual exclusion, signals kept or lost as the variant says |
| unsupported operations, environment and log | none | - | - |

How they interact. A receiver's ring is written by the sender's stores and
read by the receiver; the only information that flows back is the status word.
`_dpa_send` and `_dpa_recv` use the ring directly when nothing is queued, or
queue the operation; queues are then processed by the thread that reads the
completion queue (manual progress) or by interrupt callbacks in DPAlib's own
threads (automatic progress). The ring triggers the peer's interrupt after each
write and each read. The handshake gives each endpoint the buffer of the other;
it travels over data interrupts and progresses when the application reads its
event queue, which calls the progress function that listening, accepting or
connecting put there. Operations report to a completion queue and to a counter.
Which of them lock, which interrupts exist and whose progress a read makes is
decided while the objects are opened, bound and connected. RMA uses none of
this but the completion queue, and the regions other nodes register.

What is hard: remote stores that are reordered between barriers; offsets that
wrap on two pages; a status word that lags; callbacks that race calls; unlocked
list operations; a fixed interrupt number that all endpoints of a node share; a
pool that is read and reserved in two unlocked steps; library calls that fail
half way through an acquisition; a cached mapping; waits that do not look again
before they sleep, and ignore their timeout; event structs that are used over
and over and travel between lists; setup calls in any order. `PROJECT.json`
lists every hazard at its line, with the properties that cover it, or the
reason none does.

## 2. The modules

### MsgChannel, MsgRing, MsgRingProofs: the data path

`MsgChannel` is what one direction of a connection promises: messages accepted
are delivered once, whole and in order; a receive returns the first bytes of
exactly one message and says `FI_ETOOSMALL` when it cut it.

`MsgRing` is one direction of the data path, store by store; `MCMsgRing` gives
it plans, the lengths an application sends and the lengths of its buffers.

| TLA+ | code |
|---|---|
| `mem` | the ring; a byte is known by its message and its index (0 for the size word) |
| `wire` | remote stores issued and not landed: a sequence of epochs. `dpa_barrier` starts an epoch; stores of an epoch land in any order |
| `statusWire`, `visible` | values of the status word under way, and the one the sender reads |
| `write`, `read` | `ep_send_info.write`, `ep_recv_info.read`, modulo twice the ring |
| `Post`, `WritePayload`, `WriteSize` | `try_send`: an entry, the check of `remote_space` with the payload stores, the size store after the barrier |
| `LoadSize`, `CopyOut`, `ClearRead`, `PublishRead` | `try_recv` and `read_msg`: poll the size word, copy, clear what was copied, publish the offset |
| `Land`, `LandStatus` | the network (external) |
| `sent`, `got` | history |

`NewOffset`, `RemoteSpace`, `Pos` are the arithmetic of `new_offset`,
`remote_space` and `data_ptr`. A size word that is a mixture of bytes reads as
any of `GarbageSizes`. Both barriers of the receiver are folded into the order
in which its own steps take effect on local memory.

### MsgEndpoint, MCMsgEndpoint, MsgEndpointProofs: queues, locks, callbacks

One endpoint, its application thread and the two callback threads of its
interrupts. The ring is reduced to counters (`inbox`, `outbox`, the capacity),
which is what the queues see of it: space for a message, a message. `config`,
chosen in the initial state from `Configs`, holds what a domain and its queues
fix: progress mode, whether locks are needed (`threading < FI_THREAD_FID`),
interrupts, the sides of the completion queue, the timeouts in use.

From `FI_THREAD_COMPLETION` on there are no locks, though with automatic progress
callbacks run beside the application. Two threads between the lock and the
release of one queue, where there is none to take, are a data race (`Race`). What
follows a race is undefined, so `ended` records it and the behaviour stops there;
all that is said of such a configuration is said up to its first race. The behaviour
also stops where a callback crashes: it takes `*(dpa_fid_ep **)arg` for its endpoint
while it is given the endpoint itself, which is right only if DPAlib passes the
address of its argument. Nothing in the repository says whether it does, so
`indirect` has both.

| TLA+ | code |
|---|---|
| `queue`, `lock`, `irq` | `msg_queue_entry` lists, their mutexes, interrupts triggered and not taken |
| `Post` .. `EnqueueLink` | `_dpa_send`, `_dpa_recv`, `_dpa_msg_enqueue`, list insertion split into look and link |
| `CqRead`, `WaitInterrupt`, `WaitFails`, `CqTake` | `dpa_cq_sreadfrom` with the progress function and `wait_interrupt` |
| `Check` .. `RemoveUnlink` | `process_send_queue`, `process_recv_queue`, list removal split into look and unlink |
| `Interrupted`, `Callback`, `CallbackCrashes` | the two interrupt callbacks, and what their argument points to |
| `Race`, `Runs`, `ended` | two threads in a list without a lock; the end of what is defined |
| `Connect`, `PeerWrites`, `PeerReads` | `connect_msg` as far as it sets `connected`; the peer |

The functions are one definition for both directions, with the side as
parameter: the C functions differ in the ring call only, and in that a receive
looks at `connected` and a send does not.

### ConnMgr, MCConnMgr, ConnMgrProofs: connections

Any number of nodes, active and passive endpoints; each endpoint has a thread
and an event queue.

| TLA+ | code |
|---|---|
| `holder`, `answers` | data interrupt 0 of a node (`DPA_FLAG_FIXED_INTNO`), and what was sent to it |
| `listening`, `requests`, `connreq` | `dpa_listen`, connection data on its interrupt, `FI_CONNREQ` events |
| `reserved`, `chosen`, `buffer` | the pool, `get_empty_buffer`, `msg_recv_info.buffer` |
| `data` | the `segment_data` struct at hand, which the active side overwrites |
| `Connect`, `SendRequest` | `dpa_connect` |
| `Accept`, then `ChooseBuffer`, `ReserveBuffer`, `SendAnswer` | `dpa_accept` with `alloc_msg_buffer` and `send_connect_data` |
| `TakeAnswer`, `RemoveInterrupt`, `ConnectMsg` | `progress_ep_eq`, `connect_msg`; on the active side it allocates and answers in between |
| `RequestFails`, `AllocFails`, `AnswerFails`, `ConnectMsgFails` | a library call fails: the exits of `dpa_connect`, `alloc_msg_buffer`, `dpa_accept` and `connect_msg` |
| `Disconnect`, `Close` | `dpa_shutdown` with `disconnect_msg` in any stage; `dpa_ep_close` in any stage, between two calls of the application |

`partner` and `failed` are history: whose answer was taken, and where a call
failed. The code is not uniform about failures, and the model follows it: an
accept that fails after interrupt 0 was created leaves it held, the error of a
trigger is lost, and `progress_ep_eq` does not look at what
`alloc_send_buffer` returns. Which endpoints may meet a failure is the constant
`Failing`, which may leave is `Leavers`. Neither `dpa_shutdown` nor `dpa_ep_close`
asks how far the handshake is. A shutdown in the middle of one is forgotten: the
endpoint is connected when the answer comes. A close in the middle of one (stage
`"gone"`) frees the endpoint and leaves interrupt 0 of its node held for good.
`InterruptInUse` therefore names both things that leave it behind, a failed call and
such a close, and says that nothing else does. The event queue of an endpoint closed
like that still has it as the argument of its progress function; reading that queue
is undefined, and the model does not.

### Rma, MCRma, RmaProofs: remote memory access

One endpoint with one calling thread, and the regions and completion queue
interrupts of the remote nodes, which are registered and closed meanwhile.

| TLA+ | code |
|---|---|
| `cache` | `last_remote_mr`: target, base, length, the handles that are not NULL, the remote interrupt |
| `held` | handles DPAlib has given out (external) |
| `Call`, `Open` .. `StartSequence`, `ConnectFails` | `cache_connect`, one action per library call, any of which fails, with `CacheDisconnect` for `cache_disconnect` |
| `Access` | the loops of `dpa_readmsg` and `dpa_writemsg`, from any address (`Offsets`), with `top - base` compared as unsigned and the total of the parts a `size_t` |
| `ReuseInterrupt` .. `Trigger` | `cache_connect_interrupt` and the trigger of `dpa_writedata` |
| `RegisterMr`, `RegisterFails`, `CloseMr`, `WaitData` | `dpa_mr_reg`, the failure of `dpa_alloc_segment` that leaves its segment, `dpa_mr_close`, `dpa_cq_wait_data` of the remote process |

No code compares an address with the mapping. Behind one in it, the room is what is
left of the mapping; behind one beyond it, `top - base` is negative and wraps, and
the loop clips to nothing that has to do with the mapping. `AccessIsClipped` says
what is copied in either case (`Fits`), and that a write that did not fit is
reported.

### Completions, MCCompletions, CompletionsProofs: completion queue and counter

Threads of the application that read, wait and signal, and threads of DPAlib
that complete operations. Both objects are in one module because an operation
reports to both, one after the other, and `fi_cntr_wait` promises something
about the queue. `config` holds what domain and build fix: whether `cq_lock`
locks, whether there is a progress function, which condition variable
`locks.h` was built with, which calls the application makes.

Without the lock (`FI_THREAD_COMPLETION`) the application uses the queue from one
thread, as that level asks of it, but with automatic progress DPAlib's threads add
completions beside it. Two threads in the lists, or in the plain counter, at once are
a data race: `raced` records it, and the behaviour ends there. `DeliveredInOrder` and
`CounterFollowsQueue` say that only callbacks without the lock race, and that up to
the first race nothing is lost.

| TLA+ | code |
|---|---|
| `queue`, `free`, `entry` | `event_queue` and `error_queue`, `free_list`, what is stored in each struct |
| `lock`, `Acquire`, `Release` | `cq_lock`, `cq_unlock`; the sections between them are several steps |
| `Complete`, `AddLock`, `AddTake`, `AddLink`, `Signal`, `Count` | `cq_add_src` and `get_empty_event`, `cq_signal`, then `dpa_cntr_inc` or `dpa_cntr_err_inc` |
| `Read`, `ReadErr`, `ProgressEnd`, `TakeLock`, `Take`, `TakeEnd` | `dpa_cq_sreadfrom`, `cq_read_priv`, `dpa_cq_readerr`, struct by struct |
| `Sleep`, `SpinEnd`, `SpuriousWakeup`, `WakeLock` | `cq_wait` over `fastlock_wait_timeout`: it does not look at the queue again and drops the timeout |
| `cond`, `ReleasedBySignal` | `spin_wait`, `spin_signal`: tickets, and signals that are counted |
| `Race`, `SetWhileCounted`, `UpToRace` | two threads in what `cq_lock` does not lock; the end of what is defined |
| `WaitData`, `Trigger`, `TakeInterrupt`, `InterruptTimeout`, `InterruptFails` | `dpa_cq_wait_data`, a second call of which replaces the interrupt of the first, and `wait_cq_interrupt`, which adds a completion of its own |
| `CntrWait`, `CntrStep`, `TimedOut`, `CounterRead`, `CntrSet` | `dpa_cntr_wait`; the timeout test reads the field of the unsafe variant; the `int` of `atomic_t` past its largest value |

### SList, SListTheorems, EventQueue, EventQueueProofs, MCEventQueue: event queue

`SList` is `list.h` pointer by pointer: a heap of `next` fields and the head
and tail of each list. Nothing in it keeps an entry out of two lists, as
nothing in the code does. `EventQueue` needs that: a read with `FI_PEEK` leaves
its struct in the event queue and links it into the free list as well, which
cuts off what is queued behind it. The history variable `intact` says whether
that has happened: the properties are claimed while nothing was behind what was
peeked at, and nothing was added between a peek and the read that followed.

| TLA+ | code |
|---|---|
| `heap`, `made`, `entry` | the lists, the structs allocated, the event in each |
| `Read`, `MakeProgress` | `dpa_eq_sread`, `make_queue_progress`, which reads the function and calls it |
| `ProgressTakes`, `ProgressFails`, `ProgressEnds` | `progress_pep_eq` and `progress_ep_eq`: connection data, an error (after which both go on as if there were data, so that a request nobody made is added), a timeout |
| `LookEmpty`, `ChooseWait` | the look at the queue, then the look at `progress.func`, which another thread may have set in between |
| `Take`, `Copy` | `eq_read_priv` |
| `Peek`, `Recycle` | `get_head` with `FI_PEEK`, and the free list |
| `Write`, `AddTake`, `AddLink`, `Signal` | `dpa_eq_write`, `eq_add`, `eq_signal` |
| `Sleep`, `SpuriousWakeup` | the wait without a second look |
| `Listen`, `Connect`, `ClosePep` | what sets and resets the progress function, whoever had set it |

### AddressVector

The table, its growth with `realloc`, and handles, which are pointers to rows
whatever type was asked for (the type is never stored). `array_request_size`
compares with the count the array was created with, which it never changes, and
takes `sizeof(arr->value_size)` bytes a row, the size of a `size_t` and not of a row.
The model counts bytes (`RowBytes`, `SizeBytes`): that a row is no wider than a
`size_t` is the assumption `LP64Assumption`, true of 64-bit targets, where an address
is two 32-bit numbers; without it the rows outgrow the allocation.
`HandlesResolve` says how far handles can be trusted: always up to the first count,
beyond it as long as no growth moved the array; and that the rows in use fit it.

### Setup, MemoryRegions, SetupProofs, MCSetup: from hints to a connected endpoint

`dpa_getinfo` (`Verified`, `Answer`), `dpa_domain_open`, queues and counters,
passive endpoints and connection requests, `dpa_ep_open` (`Expanded`,
`MsgTable`, `RmaTable`), `dpa_ep_bind` (`Slots`, `ProgressOf`, `SameDomain`),
the interrupts and the buffer of `alloc_msg_buffer` (`AllocMsgBuffer`), accept,
connect, shutdown and close, in any order an application may call them. It
extends `AddressVector`. `crashed` is the use of a null pointer, which two
orders of calls reach: an accept without an event queue, and a connection of an
endpoint with receives bound and sends not. The application of a behaviour
follows one of `Plans`, which bounds what it opens and asks for.

Calls of DPAlib fail for the endpoints a plan names (`failing`). An accept that fails
leaves the endpoint unaccepted, with the buffer it may have got. On the active side
nobody looks whether `alloc_msg_buffer` could allocate, or anywhere whether the send
interrupt could be made, and the endpoint is connected without (`AllocationFails`,
`Unchecked`); `refused` remembers what the library refused, so that the properties can
say that nothing else is missing. `Shutdown` runs in any state.

`MemoryRegions` is `dpa_mr.c`: threads register and close regions, one library
call at a time, any of which may fail and leave the segment; the hash map is
modelled over `SList`, entry by entry. `MCSetup` composes it with `Setup`: one
of the plans opens a domain and registers memory in it.

## 3. The runs

| run | expects | shows |
|---|---|---|
| `ring_messages` | pass, 59,418 states | all interleavings of messages of lengths 1, 4 and 6 through a ring of 8 bytes, and of messages of 1 and 2 bytes, which take the same 4 bytes of the ring, that are cut or not: the ring refines `MsgChannel`, stores hit cleared bytes only, the reader sees whole messages, offsets agree, the ring drains |
| `ring_zero_length` | violation | a message of length 0 stores the size word 0: the receiver never moves past it |
| `ring_stale_bytes` | violation | bytes left by a cut are read as a size word once messages take unequal parts of the ring |
| `endpoint_queues` | pass, 177,086 states | manual progress by polling and by waiting, automatic progress with locks, automatic progress without locks up to the first race, callbacks given the endpoint itself up to the crash that ends the behaviour: operations complete once and in order, none is forgotten, and only callbacks without locks race; polled posts complete; a reader that waits for ever for its receives wakes for a message that came between its look and its wait |
| `endpoint_auto_lost` | violation | automatic progress: a receive is queued after the message came and its callback found the queue empty; nobody looks again |
| `endpoint_lock_leak` | violation | an operation that completes at once returns with the lock held |
| `conn_three` | pass, 114,160 states | three nodes, six endpoints, all handshakes at once, two endpoints that disconnect and close in any stage and two that fail: interrupt 0 is left behind by a failed call or a close in mid-handshake and by nothing else, buffers stay exclusive, answers never cross, the accepting side maps the right buffer, every handshake ends where no call failed and nobody closed in the middle of one |
| `conn_active` | violation | the active side maps the remote buffer at the offset of its own |
| `rma_two_nodes` | pass, 546,507 states | two nodes with two regions each, every library call failing anywhere, addresses in a mapping and beyond it: no handle lost, no access through another target's mapping, no signal through an interrupt of another number (of the interrupt the code compares no node), lengths clipped to the room as the code computes it |
| `completions` | pass, 195,082 states | eleven configurations of queue and counter, three of them callbacks without the lock up to their first race: completions are read once and in order and no struct is lost, the counter follows the queue, a wait returns what is true, a sleeper wakes, a spinning reader is not stranded |
| `event_queue` | pass, 292,718 states | five ways to use an event queue, with waits for connection data that fail: lists stay lists and events are read once and in order until a peek cuts them off, a sleeper wakes where no progress function is ever set, a connection request is taken |
| `setup` | pass, 302,197 states | eleven plans of setup calls in any order, in two of which calls of DPAlib fail: what is announced is what is opened, safe means locked, whoever has messages has a buffer and a waiter its interrupt unless DPAlib refused it, a read drives the sides it was bound for, handles resolve, regions, map and library agree |

Each violation is a finding in `PROJECT.json`, with the line of the source
whose comment it contradicts.

Several configurations of one component are one run: the module has a constant
set (`Configs` or `Plans`), and the initial state picks a member that no action
changes. The MC module defines the set, so that the configurations can be read
next to each other.

A definition whose comment begins with `Slip` is used by no action: it is a
likely mistake in the definition after it, a guard dropped or an order swapped.
With it in place TLC finds the property violated that `PROJECT.json` names
under "mutants", which shows that the property depends on that code.

### Bounds, and why they are enough

- Ring: `Word` is 2 bytes and the ring 4 words. A message of
  6 fills the ring with its size word, one of 4 fills it but for a word and one of 1 takes half of it, with
  a byte of padding: messages wrap in the payload and meet the end of the ring
  exactly. Five sends take both offsets past both pages and let the sender wait
  for space; so do five of 2 bytes, read with a buffer of 1 byte or of 2.
- Endpoint: three operations a side where order and loss are the question (one
  queued, one behind it, one in hand), two where a reader waits. The peer's ring
  holds one message, or two, so that it is full and empty in turn. Two operations a
  side and a peer's ring of one are enough for a call and a callback to race on a queue
  that holds something.
- Connections: three nodes are the fewest on which a node has two active
  endpoints, another two passive ones and a third one of each. Connections
  have no cycle (see section 5). Two buffers are what a node with two
  endpoints needs. One active and one passive endpoint (`Leavers`) disconnect and
  close in any stage, on the nodes where another endpoint can come after them; one
  passive and one active endpoint (`Failing`) may meet a failed call at any
  point. Both are what an interrupt that stays behind needs.
- RMA: two nodes with two keys are what a change of node alone, of key alone and
  of both need; parts `<<2>>`, `<<2, 2>>` and `<<5>>` against a region of 3
  bytes fit, are cut in the second part and cut in the first; sizes are
  modulo 6, so that the total of `<<5, 5>>` wraps. Addresses take every value, three of
  them beyond the mapping. Nodes, keys and interrupt numbers are symmetric; the run checks no
  liveness, so symmetry is sound.
- Completions: two completions and a free list of one struct, so that the list
  runs empty, grows and is used again; two threads of each kind, which is what
  a signal that wakes the wrong one needs; reads of one and of two entries; a
  counter whose largest value is 1, so that two completions pass it; thresholds that are
  reached (1) and never reached (3).
- Event queue: three events and a free list of one struct: one is peeked at, one
  behind it, one added meanwhile. Two threads. One wait for connection data fails.
- Setup: two domains, two endpoints, two completion queues and a counter are
  what a binding across domains, a queue with two endpoints, and an endpoint with
  two queues need. Hints ask for one thing each, what is supported and what is
  not. A vector made for 0 or 2 addresses takes 3. Keys 1, 3 and 4 in a space
  of 4 and a map of 2 buckets: two share a bucket, one does not fit a segment
  number. Four registrations, by two threads. Calls of DPAlib fail in two plans: a
  client whose info has each set of capabilities in turn, and a server whose endpoint
  is bound to a queue, with manual and with automatic progress.

`CHECK_DEADLOCK FALSE` stands in the runs whose system stops when its bounded
number of messages, operations, handshakes, completions or calls is through.
`rma_two_nodes` checks for deadlock.

### Fairness

- Ring: weak fairness of every step but `Post`. Stores land; a sender or
  receiver with an operation outstanding is driven by the application that
  reads its completion queue, or by a callback.
- Endpoint: weak fairness of the application thread as a whole, of each
  callback thread, of the peer. Strong fairness of `Connect`, which is
  enabled whenever the application is between calls: it reads its event queue
  too, now and then. Which call the application chooses is not constrained:
  completion does not depend on one call being made. `WaitFails` and
  `CallbackCrashes` are not fair. All of it up to the end of the behaviour: the
  liveness properties excuse one that a race or a crash has ended.
- Connections: weak fairness of listening and of reading `FI_CONNREQ`, and per
  endpoint of its handshake. An accept that was refused because interrupt 0 was
  taken is called again; an application that waits for `FI_CONNECTED` reads its
  event queue. `Connect`, `Disconnect` and `Close` are not fair, nor is a failure;
  `EveryHandshakeCompletes` is about behaviours in which no call fails and no
  endpoint is closed in the middle of its handshake.
- Completions: weak fairness, per thread, of the steps of an addition or a call
  under way, up to a data race. No call is fair, nor a completion, a trigger, a spurious wake-up or a
  failed interrupt. `SpinEnd` is not fair either: the loop of `spin_wait` reads an
  ordinary variable, and nothing obliges the build to load it again, so that
  `SleeperWakes` is about the other variant and of the spinning one it is only
  said that its ticket is called.
- Event queue: weak fairness of the steps of a call under way, and of `Read`:
  an application reads its event queue over and over.
- RMA, setup and memory regions: none.

## 4. The proofs

All theorems hold for every value of the constants that the named assumptions
of the modules allow. No symmetry, no bound on messages, nodes, endpoints or
keys.

`MsgRingProofs`: `TypeCorrect`, that is `Spec => []TypeOK`. `TypeOK` is
inductive. The work is in the offsets: `NewOffset` keeps word alignment and
stays below twice the ring, since the ring is a multiple of the word, and a
position taken modulo the ring is a byte of it. So a size word never wraps.

The rest of the module is about what the ring promises, of any size, for any lengths
and any number of messages. `RingInvariant` says that `IInv` holds in every state;
`StoresSafe`, `OffsetsSafe`, `ReaderSafe` and the refinement `RingIsChannel` follow
from it. It has two parts.

- `OffsetInv`. `Layout`: the messages not yet received lie one behind the other
  from the read to the write offset, which decides between an empty and a full
  ring. `StatusLags`: of the read offsets on their way to the sender, each is
  behind the next, the one it sees is behind them all, and what is used plus the
  lag is at most the ring. This is why a sender that computes `remote_space`
  from an old offset takes too little and never too much.
- `ByteInv`. Each byte of an unread message is issued once, and is then either on
  the wire or has landed (`WireStores`, `WireOnce`, `MemFromWire`,
  `LandedIsThere`); stores go out oldest message first and size word last
  (`WireOrder`), so that a size word that has landed has its payload
  before it (`SizeLandsLast`). The slots of two unread messages are disjoint by
  `Layout`, so that no store hits another.

Both rest on conditions that are hypotheses of the theorems. `HasSequence`: there is a
sequence, so that `dpa_barrier` is one; without it a size word overtakes its payload.
`SizesKept`: the application's buffers hold its messages (`Uncut`), or all its
messages take the same number of bytes and the ring is a whole number of them
(`EvenSlots`). A cut leaves bytes behind that may be read as a size later (run
`ring_stale_bytes`), and with neither condition none of this holds in general. With
even slots every message starts at a multiple of the slot (`OnSlots`), and what a cut
leaves behind (`Stale`) is payload, which lies where no size word ever goes.
`MemFromWire` therefore speaks of the bytes that are not stale. Only
`StoresHitClearedBytes` is about uncut messages alone, as its statement says.
`RingIsChannel` maps each step: the payload stores of a message that fits are its
send, the publication of the read offset is its receive, everything else (landing,
polling, copying, clearing) is a stutter.

`MsgEndpointProofs`: `TypeCorrect`, `InOrder` and `PostsAccounted`, that the
operations of a side complete once and in the order of posting, and that none is
lost. The invariant says what a queue holds: the numbers
from the last one completed to the last one posted, without a gap
(`QueuesAre`). Between the completion of a head and its removal the queue holds
one more (`Removing`), between posting and linking one less (`InCall`). Splitting list
operations into look and link makes it necessary to know that what was seen is still
so (`SoleIs`), which needs that one thread at a time is between lock and release
(`Alone`): with locks because the lock is held there (`InsideHoldsLock`), without them
because two would be a data race, and the behaviour has ended (`RInv`). With manual
progress there is one thread and no race (`RaceTakesTwo`). So the theorems are about
every configuration, callbacks without locks included, up to the first race; what
list operations that do interleave then leave is the hazard at `dpa_ep.c:145` in
`PROJECT.json`, of which nothing can be proved.

`ConnMgrProofs`: `TypeCorrect`; `ExclusiveBuffers`, that no two endpoints of
a node receive into one buffer; and `InterruptReleased`, that interrupt 0 is
held by an endpoint that is in a handshake, had a call fail or was closed in the
middle of one, though disconnections and closes come in any stage. The second is not
inductive: choosing a buffer and
reserving it are two steps without a lock. The invariant adds
`HoldsInterrupt` (who is between creation and removal of interrupt 0 is its
holder), `ChosenIsFree` (a buffer chosen and not yet reserved is free),
`AnswerNamesBuffer` and `OwnBufferReserved`. The first says that at most one
endpoint of a node is between choice and reservation, so the fixed interrupt
number is the lock the pool does not have. All of it holds whatever library
calls fail, and whoever leaves in whatever stage: who is closed between choice and
reservation does not exist, since both are in one call of the application.

`PartnersMatch` and `PassiveSideMaps` say that answers do not cross: two endpoints
that took an answer took each other's, and an accepting endpoint maps the buffer
its partner gave. Their invariant `PInv` follows a handshake through the nodes.
The request of a node is in one place: in the mail of the listening node, with
one accepting endpoint, or answered (`RequestsOnce`), and as long as it is there
the endpoint that sent it waits and holds interrupt 0 of its node
(`RequestersWait`). So at most one answer is at an interrupt and it is
meant for the holder (`AnswersMeant`); no answer is taken before it is sent or
taken twice (`NotYetPartner`, `PartnerOnce`); and the buffer named in an answer
stays with its sender or with nobody, also after a disconnection (`Gave`,
`PartnerKnown`). The connections may have a cycle: then handshakes
do not end, but they do not cross either.

`RmaProofs`: `TypeCorrect`, `NoHandleIsLost`, `AccessesHitTheirTarget` and
`AccessesAreClipped`.
`HandlesOwned` (handles given out are those of the cache) needs `HandlesStaged`:
which handles are in the cache at each stage of an acquisition, so that no
step acquires a handle that is there. `AccessHitsTarget` needs `MappingStaged`:
the cache names a target only with that target's mapping, a call in
progress has the mapping of its own target from the mapping step on, and the
interrupt it is about to trigger has the number it asked for. The lemma
`DisconnectEmpties` says what `cache_disconnect` leaves. `AccessesAreClipped` is
about the loops of `dpa_readmsg` and `dpa_writemsg` over parts of any number: what
an access copies is the smaller of what it was asked for and the room behind its
address, for any address. By induction over the parts, what is copied after `i` of them
is the smaller of their sum and the room (`CopiedIsClipped`). The unsigned difference
is the room itself when the address lies in the mapping, and `Width` more than the
negative one when it lies beyond (`UnsignedRoom`), from which `AccessClips` follows.

`CompletionsProofs`: `TypeCorrect`, `Delivered`, `CounterAgrees`, `SpinnerIsCalled` and
the action property `WaitTellsTheTruth`. One thread at a time is between
`cq_lock` and `cq_unlock`: with the lock because it holds it (`CriticalHoldsLock`),
without it because two would be a data race, where the behaviour has ended
(`Alone`, `RInv`). A race takes two threads, and since an application that has no lock
uses the queue from one thread (`ConfigsAssumption`), which `FI_THREAD_COMPLETION` asks
of it, the other is DPAlib's: there is none with the lock nor with manual progress
(`RaceTakesTwo`). The configurations are all others, callbacks without the lock
included. So a struct is in one place of one list or in the hands
of that thread (`ListsApart`, `HoldsAre`), though it goes around the lists
for ever; and what was linked into a queue is what was delivered from it,
followed by what its structs hold (`QueuesHold`), which is `DeliveredInOrder`. A
completion is with one thread until it is linked and until it is counted
(`CompletionsAre`), so that the counter is behind by the threads that still have
to count (`CounterFollowsQueue`); `LateFinite` is there since nothing bounds the
threads. For the reader that spins, `SpinnerIs` says that its ticket is the last one
drawn while it sleeps and that while it is awake no signal is lost, which
is why a completion that comes between its last look and its ticket does not
strand it. The theorem is about one reader: a ticket of another may take the signal.
`WaitTellsTheTruth` goes through the steps: whoever waits can end the wait only in
`CntrStep`, with the result it has just read.

`SListTheorems`: what the operations of `list.h` do to lists of any length.
`Holds(heap, l, p)` says that the links and ends of list `l` are those of the
sequence `p`, which repeats nothing. Adding at the tail appends to `p`
(`LinkedTailAppends`), adding the last entry again changes nothing
(`LinkedTailAgain`), taking the head or the entry at `i` out leaves the others in
their order (`UnlinkedHeadDrops`, `UnlinkedAtRemoves`), and other lists keep theirs
when their entries are others (`LinkedTailElsewhere`, `HoldsStill`). `WalkMeetsAll`
says that a walk from the head meets `p` and ends, so that the properties, which are
stated with `Walk`, follow from `Holds`. Its proof is an induction over the steps of
the walk.

`EventQueueProofs`: `TypeCorrect`, `ListsStayLists` and `EventsReadInOrder`. While
`intact`, the event queue holds a sequence `q` of structs and the free list a
sequence `f` (`Shape`), which share no struct but one: a struct that was peeked
at is the last of `f` and alone in `q`, so that its one `next` field is null
for both. A struct between `get_empty_event` and the link, or between a
read and its copy, is in the hands of one thread (`HandsOnly`, `OneHandEach`). What was added is
what was read followed by what the structs of `q` hold. `Counted` bounds the
events being added, which is why there is a struct for each; it counts threads, of which
`AppsAssumption` says that there are finitely many.

`SetupProofs` proves every property of `Setup`, of the address vector in it
and of `MemoryRegions`. `VectorResolves` has its own invariant: each handle
names a row in use, of this array or of one it grew out of, and the array moves
only when it grows beyond the count it was created with; the bytes of the new one hold
the rows since a row is no wider than a `size_t` (`BytesGrow`, from
`LP64Assumption`). The others
share `SetupInv`, in four parts that build on each other: `InfoInv` (the levels of an info
are within what the provider caps them to, and one with a handle is that of the
passive endpoint),
`DomainInv` (the modes of a domain are those of its info), `QueueInv` (a queue
is in an open domain and locks as its threading says), and `EpInv`, whose parts
`Opened`, `Located`, `Buffered`, `Interrupted` and `BoundOK` say what each open
endpoint owes to its info, its domain, its connection and its bindings.
`SafeEndpointsLock` follows from the domain check of `dpa_ep_bind` and from both
kinds of object comparing the same level with limits of their own;
`WaitersHaveInterrupts` needs that a binding after the interrupts were made
is remembered (`late`), which is what the code lacks. It and `EndpointsHaveBuffers`
hold also where calls of DPAlib fail, since `refused` remembers what they refused
(`AllocatesOK`, `FailureOK`).

`RegionsStayAgreed` is the theorem about registration. What makes it true though segment and
map are changed by separate calls is that DPAlib gives a key to one segment: from
`DPACreateSegment` on the key has one owner, the call under way, then the open
region, then the call that closes it, or nobody after a failure (`OneOwner`).
So no two regions that are mapped have a key (`MappedKeys`), and `hash_remove`,
which takes the first entry of that key, takes the one that is closed
(`RemovedFromBucket`). The list of each bucket has the mapped regions of that
bucket (`BucketLists`), by `SListTheorems`: an entry is in one bucket, so that a change of
one list leaves the others. `MrTyped` counts the registrations under way against
the bound, for finitely many threads (`RegistrarsAssumption`).

The theorems are about `Setup!Spec` and `MrSpec`; in `MCSetup` every step is one of
either and leaves the variables of the other alone.

Induction over data. The induction theorems of the library take an operator as a
parameter, which the provers used here cannot instantiate. `SListTheorems` and
`RmaProofs` do induction with sets in its place (lemma `Induction`): a set of
numbers that has 0 and with each number the next has all of them, since the numbers
it lacks have a least one (`WFMin`, `NatLessThanWellFounded`). The recursive functions
of `SList` and `Rma` are defined step by step, so that the set is that of the steps at which the
function has the value claimed.

Only model-checked:

- all liveness: the provers used cannot reason about fairness or `ENABLED`. These are
  `EveryMessageReceived`, `PolledPostsComplete`, `WaitingReaderWakes`,
  `EveryHandshakeCompletes`, `SleeperWakes` of both queues and `RequestsTaken`.

When messages of unequal slots are cut, the properties of the ring do not hold in
general, as `ring_stale_bytes` shows; of that case nothing is proved.

## 5. What is not modelled

- The pool of queue entries of an endpoint, which is taken from and given back
  to under the lock of the queue it serves.
- Two threads on the cache of `dpa_rma.c`, and a remote memory in which RMA
  stores land late; what a mapping is worth after its region was closed.
- A second segment of buffers: the array was made for one, and what the code
  does beyond it is undefined. Two nodes that connect to each other: both hold
  interrupt 0 and wait for ever, which no document denies.
- What follows a data race or a crash: the behaviour ends there. Reading the event
  queue of an endpoint that was closed in the middle of its handshake, which uses what
  was freed. `dpa_pep_close` in `ConnMgr`, where a node that listens goes on to; it is
  in `EventQueue`.
- Closing queues, counters and domains, which frees memory; the error queue of
  the event queue, which nothing fills; `hash_get` and the doubly linked lists,
  which nothing calls; `dpa_fabric.c` and the start and stop of the library.
- Unsupported operations, environment, log and helpers have no behaviour.
- Abstracted: payload bytes but for identity; addresses and names; the contents of
  completion and event entries beyond identity, kind, order and truncation;
  of the sizes and orders that `dpa_getinfo`
  compares one by one, one number and its limit; memory errors (a send before
  the connection writes through NULL).
- DPAlib is external, modelled from its use: stores between barriers
  reorder, epochs do not; an interrupt that is triggered stays triggered until
  taken; a data interrupt keeps what was sent in order; a fixed interrupt
  number exists once; any acquisition can fail.

## 6. Plan

Done, in the order of what matters most: the data path, the queues, connections
with their failures, remote memory access, completions and counters, event
queues, setup from hints to interrupts, address vectors, memory regions. Proved:
safety and refinement of the data path, the queues of an endpoint, handshakes,
handles, targets and lengths of RMA, completions and counters, event queues, all
of setup, memory regions. Every invariant and action property that a passing run
checks is stated by a theorem.

Next, the model:

1. `Rma`: two threads on one cache; the order of data and interrupt.
2. `MsgRing`: a run without a sequence (no barriers), a message at capacity.
   `MsgEndpoint`: its composition over `MsgChannel`.
3. `ConnMgr`: connections in a cycle.

Next, the proofs: what the model gains, in the order above. Two threads on one
cache need the lock the code lacks, or a theorem about one thread at a time.
