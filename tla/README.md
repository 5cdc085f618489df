# Relink-COM in TLA+

Relink-COM is a peer-to-peer publish/subscribe library for robots: typed
topics over UDP, over shared memory on one host, with discovery through a
registration server (rlcore) or multicast, NAT punching and a relay. This
directory models the library, its two daemons and its command line tool in
TLA+, checks the models with TLC on small instances and proves the results
that matter most, for every value of the constants, with TLAPS. Paths below are
relative to the repository; headers without a directory are in
`cpp/include/relink/`.

## Inventory

| Part | State | Operations | What is hard | What makes it correct |
|---|---|---|---|---|
| Shared-memory ring, data path (`shm_transport.hpp`) | `head`, `tail`, the slots | `try_push`, `try_pop`, `try_pop_zero_copy`; `publish_local_ipc` and the poll thread of `relink.hpp` | two processes, no lock; a callback reads the slot in place | no slot race; FIFO, nothing lost, torn or duplicated; what was accepted arrives |
| Segment life cycle (`shm_transport.hpp`, `shm_transport.py`) | the name in `/dev/shm`, `magic`, geometry, `creator_pid` | `open` (create, attach, take over), `init_as_creator`, `unlink` | crashes between any two steps, races between openers | one initialiser; agreed geometry; a leaked segment is recovered |
| UDP transport (`udp_transport.hpp`, `frame.hpp`) | sequence counter, per-topic window, handlers, reply queue, send buffer | `publish_raw`, `publish_scattered`, `recv_and_dispatch`, `start`, `stop` | several copies of a message, wrap-around, threads sharing a buffer | each message at most once; only duplicates dropped; no bytes mixed |
| Node (`relink.hpp`) | declared topics, pairs, transports, routes, threads | declarations, `ensure_started`, `publish`, the background threads, destructor | start-up order, late declarations, shutdown | topics announced where they are handled; no call into a destroyed member |
| rlcore server (`cpp/rlcore/relink_rlcore.cpp`) | registrations with times, roles, names, relay groups | dispatch, register, role and name announces, queries, `prune_stale`, relay | no unregister; TTL against the nodes' timing; one socket for all packets | dead nodes forgotten; live ones not; every request handled |
| rlcore client (`rlcore_client.hpp`, `relink.hpp`) | `peers_`, tick, reply queue | initial registration, ticks, full sweeps, retries | late acks, lost acks, blocking retries | all nodes of a topic find each other |
| Topic directory (`topic_directory.hpp`) | names and roles at the server | cutting into packets, encoding, decoding, queries | two limits at once, lost packets, restarts | nothing lost at a packet boundary; nothing listed that is gone |
| Multicast discovery (`multicast_discovery.hpp`, `beacon.hpp`) | table of peers, sockets, two threads | `start`, sender and listener loops, `stop` | loss, loopback, size of the beacon, sockets shared by threads | peers found, once; networks apart; no use after close |
| Relay client and servers (`relink.hpp`, `relay_wire.hpp`, `cpp/rlcore/relink_relay.cpp`, `cpp/rlcore/xdp/relay_xdp.hpp`) | group members with times; the AF_XDP rings | register, keepalive, forward, sweep; poll, read, refill | TTL against keepalive; kernel and loop sharing frames | members stay, gone ones leave; no frame leaks |
| Images (`image.hpp`, `compressed_image.hpp`, `relink.hpp`) | frame in progress | `publish_image`, `publish_compressed_image`, `on_chunk_raw` | loss, reordering, lengths at the limits | whole images only, with their own stamp |
| Command line tool (`cpp/tools/rl_topic.cpp`) | remembered rlcore address, samples | `list`, `info`, `hz`, `bw`, `echo`, `pub` | two invocations, a receive thread beside the main one, signals | the address survives; no arrival is missed; commands end |
| Adaptive bitrate, drop-oldest buffer, message structs, platform layer | none shared, or sequential | | | left to the unit tests |

The application calls the node; the node owns one or several UDP transports
(each with a receive thread that runs the callbacks inline), the shared-memory
rings (one poll thread), the re-registration, relay keepalive, punch and
multicast threads. Nodes interact by datagrams, through rlcore, and through the
shared segments. The Python binding mirrors the C++ one.

## Modules

| Module | Models | Used by |
|---|---|---|
| `ShmQueue` | abstract specification: a bounded FIFO queue | refined by `ShmRing` |
| `ShmRing` | the ring's data path, one action per load, copy or store | `MCShmRing`, `ShmRingProofs` |
| `ShmSegment` | the life of the segment, with crashes and restarts | `MCShmSegment`, `ShmSegmentProofs` |
| `DedupChannel` | abstract specification: a channel that remembers every delivery | refined by `UdpDedup` |
| `UdpDedup` | sequence numbers and the duplicate window of one topic | `MCUdpDedup`, `UdpDedupProofs` |
| `SendBuffer` | threads sending through the one buffer of a transport | `MCSendBuffer`, `ImageReassemblerProofs` |
| `RelinkNode` | one node from configuration to destruction | `MCRelinkNode`, `RelinkNodeProofs` |
| `RlcoreRegistry` | the server's tables and the nodes' discovery threads, in discrete time | `MCRlcoreRegistry`, `RlcoreDirectory` |
| `RlcoreDirectory` | the whole daemon: `RlcoreRegistry`, composed with dispatch, keys, names and queries | `MCRlcoreDirectory`, `RlcoreDirectoryProofs` |
| `Relay` | a forwarding group, its clients and the three servers | `MCRelay`, `RelayProofs` |
| `MulticastDiscovery` | discovery without a server | `MCMulticastDiscovery`, `MulticastDiscoveryProofs` |
| `ImageReassembler` | image chunks over a lossy, reordering network | `MCImageReassembler`, `ImageReassemblerProofs` |
| `RlTopic` | invocations of the command line tool | `MCRlTopic`, `RlcoreDirectoryProofs` |
| `*Proofs` | inductive invariants, lemmas and theorems, see Proofs | |
| `MC*` | values of the constants for TLC | the `.cfg` files |

Operators commented as mutants or faulty variants are wrong versions of the
definition that follows them. No specification uses them; substituting one
shows that a property can tell it from the code.

### ShmRing

`head`, `tail` and `slot` are the shared words. The producer and the consumer
each have a program counter (`ppc`, `cpc`) and the locals of the function they
are in (`p_tail`, `p_next`, `p_msg`; `c_head`, `c_msg`). `TryPushLoadHead` is
everything up to the test for a full ring, then one action per `memcpy`, then
`TryPushStoreTail`. On the other side `PollNext` is an iteration of the poll
thread, and the callback is an interval (`TryPopCallback` to
`TryPopStoreHead`) during which the producer goes on. The stores of `tail` and
`head` are release and the loads of the other side's index acquire, so
the copies are ordered with respect to them and the interleaving semantics of
TLA+ is sound. `accepted` and `delivered` are histories.

### ShmSegment

`name` is what the name in `/dev/shm` refers to; segments outlive their name,
as mappings do. `open` is split where another process can get in between:
`OpenExclusive`, `Truncate`, `Reopen`, `PollMagic`, `CheckOwner`, `Steal`, and
the four steps of `init_as_creator`. `Crash` is possible at each of them, and a
process that is started again has a new pid. `RequestStop` is the unlinking by a
creator that shuts down; it goes on until it ends (`Crash`). A push and a pop
have two steps each.

### UdpDedup

One topic at one receiver. `Publish` draws a number and sends a copy over every
path with that number; `PublishOtherTopics` advances the shared counter;
`Restart` sets it to 0. `Receive` is `recv_and_dispatch` with
`is_recent_duplicate`. `seen`, `valid`, `next` are the window. A copy may
arrive after at most `MaxLag` other deliveries since the first one. The histories
`sent`, `delivered` and `dropped` are the variables of `DedupChannel`.

### SendBuffer

`send_buf` is an array of cells, one for the start byte and the header, one per
payload byte, one for the stop byte. `PublishRaw` draws the number,
`WriteHeader`, `WritePayload` and `WriteStop` are `encode_frame`, `SendTo` reads
what is in the buffer by then. `RecvAndDispatch` is the receiver, with
`decode_frame` as `DecodeOk`.

### RelinkNode

One application thread declares topics, another starts, publishes and destroys.
A declaration (`call`) has the steps the code locks separately: pair, transport,
insertion, handler. `phase` is how far `ensure_started` has come: `Bind`,
`GroupTopics` (which also arms duplicate suppression),
`RegisterGroups` or `StartMulticast`, `StartShared`, `StartDedicated`,
`StartThreads`. `StartThrows` is a socket that cannot be had on the way: the
node is not started and may be started again or destroyed. A background thread is asleep, about to use the transports in
`via`, or done. `Teardown` lists what the destructor does and then which members
go, in the order of the class; `DestructorStep` is the next item, and a join
waits. The data threads are joined inside the destructors of the transports;
these joins are not waits here, since a data thread looks at its flag after
every receive, which times out after 50 ms.

### RlcoreRegistry

A node is `off`, in its initial registration (`start`), asleep, waiting for an
ack, or `dead`. `Wake` is a tick of the thread: role announce, choice of the
topics, first send. `TakeReply` pops the oldest ack of the reply queue
and merges its peers; `TimeOut` sends again with the doubled timeout or gives
up. `HandleRegister`, `HandleRole` and `PruneIdle` are iterations of the
server's loop, each with `prune_stale` first. A node registers its topics as one
group; without multiplexing the code does it once per group, one group after
the other in the same tick, each with timeouts of its own, which makes a tick
longer (`MaxLate`). A peer's LAN candidate stands for
the same peer. Times are ages, which stop growing past the TTL. `Tick` lets a
unit pass, unless a node or a datagram has reached its deadline: a node wakes
no sooner than its interval and at most `MaxLate` late, a datagram arrives (or
is lost) within `MaxDelay`.

### RlcoreDirectory

Extends `RlcoreRegistry` and composes each of its actions with what else the
same handler does. `setting` is how daemon and nodes were started: relay or not,
keys, and what the first bytes of a request look like, since a request starts
with bytes of the node's address (or, sealed, of a random nonce).
`HandleRequest`, `DropRequest` and `ForwardRequest` are the three ways the
dispatch can go. Names travel in `announces`, cut by `Chunk` with both limits
(`AddEntry` is one turn of the loop that cuts).
`rl_topic list` and `info` are the daemon's client here: a query, the replies
under way (`wire`), what was collected (`out`), and as a history what the
daemon knew (`truth`). `Restart` empties the daemon.

### Relay

`group` holds the age of each member's last REGISTER. The stand-alone relay
sweeps after it handled a packet, at most once a second (`swept`), rlcore before
each packet. On the AF_XDP path the kernel passes a packet to the plain
socket or puts it into a UMEM frame (`KernelPass`, `KernelRedirect`); the loop
is `Poll`, then one `RxFrame` per descriptor with its refill, then the release.

### MulticastDiscovery

`stage` is where `start` or `stop` is; `sender` and `listener` are the two
threads, `open` the sockets, `inbox` what waits at the listening one. A beacon
reaches any subset of the nodes that listen on the derived port, the sender
itself included (loopback). `HandleBeacon` is the listener with the node's
callback, `AnswerQuery` its reply to a name query.

### ImageReassembler

A chunk's bytes are where they come from (image and position) and how many they
are, so that a mixed, partial or wrongly sized image is visible. A topic is one
of images or of compressed images, whose chunks carry a stamp (capture time and
quality). The number of chunks is a 16-bit count: `MaxChunks` is its largest
value. One channel per publisher and address; `OnChunk` is `on_chunk_raw`
as a whole, with its early returns, and may take a chunk that overtook up to
`MaxSkip` others.

### RlTopic

An invocation has a main thread (`pc`) and, while it listens, the node's receive
thread, whose `on_msg` is `Sample` or `Echo`. Saving the address has two steps,
the truncation (`OpenConf`) and the write when the stream is closed
(`WriteConf`). `samples` are the arrivals by age, with `Report` filtering and
trimming them; `heard` is the history they are compared with.

## Runs

Passing:

| Run | Shows | Bounds |
|---|---|---|
| `ring` | no slot race, stable zero-copy payload, FIFO exactly once, refinement of `ShmQueue`; accepted messages are delivered while the subscriber polls | 3 slots, 4 accepted messages (the indices wrap), sequence numbers modulo 3 |
| `segment` | at most one initialiser; nobody uses a segment of another geometry; every `open` eventually succeeds unless it meets an orphan (a segment whose creator never stored `magic`) | 3 processes with two geometries, 3 process starts, 2 segments, 2 pushes |
| `dedup` | at most one delivery; while no number is used twice, only duplicates are dropped; refinement of `DedupChannel`, numbers reused or not | two publishers, one restart or burst of other topics, numbers modulo 4, window 3, lag 2 |
| `node` | topics subscribed to before the start are announced where their handler is, unless paired late; duplicate suppression is armed before traffic; joined threads never use what is gone; the destructor returns | 2 topics that may share a pair or have a transport each, and an image topic; one pair, 2 declarations, 4 configurations, one batch of punches |
| `registry` | a node that still looks for a peer is not evicted; roles stay listed; a dead node is not handed out after the TTL; a node does not search for ever while another one is there, so that two find each other | 2 nodes, crashes, sweep every 3 ticks, TTL = 3 intervals, acks later than the timeout, no loss |
| `directory` | `list` and `info` get all the daemon knows unless a packet was lost, and nothing gone for longer than the TTL; names reach the daemon, restarts and losses included | 1 node, 2 topics that do not fit one packet, a sweep every tick, four settings of keys, relay and address |
| `relay` | a live client stays in the group unless too many REGISTERs in a row are lost; a gone one gets nothing; frames are conserved; clients join, and leave | 2 clients, one of them not seen by the XDP hook, 3 kinds of server, 2 UMEM frames, 1 restart |
| `multicast` | networks stay apart; peers are listed once, never the node itself; sockets outlive the threads; nodes find each other; `stop` returns | 2 nodes, one with two port groups of which the first is too large for a beacon; one or two networks and hosts |
| `image` | only whole images are delivered; all of them while the network behaves | 3 images of 0 to 3 chunks, full and not, and one too long by a byte; loss, overtaking by 3 |
| `rl_topic` | the remembered address is forgotten only by a process that dies while saving; no arrival is missed; the commands end | 2 invocations, 8 pairs of command lines, window 2, 4 messages |

The ratios of the code are kept: the TTL of rlcore is `SweepEvery` intervals
(3.0 s and 10 x 0.3 s), the first timeout is shorter than the interval, the
initial one equal to it; the relay's TTL is 3 keepalive periods. The sizes are
the smallest at which indices and numbers wrap, windows and queues overflow, an
owner can die during a takeover, and a second cycle of each protocol happens.
The four configurations of `node` have any two of discovery mode, multiplexing
and relay in every combination. In `registry` only one of the nodes announces roles: the role table does not
influence the rest. Faults on the AF_XDP server are left out of `relay`
(`Faulty`): there the interleaving with the kernel is the question, and lost
or late REGISTERs are handled as in the other two.

Most modules have a type invariant; it is part of the runs of `ShmRing`,
`ShmSegment` and `RlcoreDirectory` (which includes that of `RlcoreRegistry`), and
holds on the instances of the others. Those of `UdpDedup` and `RlTopic` are
theorems.

Runs that end in a counterexample, each about a sentence in the repository
(quoted in `PROJECT.json`):

| Run | What happens |
|---|---|
| `send_buffer` | the application and the re-punch thread send at once; the stop byte of the empty punch frame lands on the first payload byte of the application's frame, which still decodes and is delivered |
| `dispatch` | with the relay merged into rlcore, a registration from an address ending in .35 is taken for a data frame and forwarded to nobody; a sealed one is lost one time in 256 |

### Other limits

The models also show the following, under other constants or with properties
that are stated and do not hold of the code, or have the behaviour as an action:

* Segments: one whose creator died before it stored `magic` is never recovered
  (`OpenSucceeds`). A slow process can steal a segment that was already taken
  over, because `magic` is back at the value it compares with, which makes two
  creators (`OneCreator`). Two publisher processes of one topic, or one that
  stays attached over a takeover, overwrite each other's messages
  (`NoSilentLoss`). An attacher that maps the segment before the creator's
  `ftruncate` is killed when it reads `magic` (`PollFaults`). The Python
  binding's takeover clears `magic` without a compare-exchange, so two openers
  can both win without any delay.
* Duplicate suppression: `OnlyDuplicatesDropped` fails with two publishers of a
  topic, with one that restarts, or when the shared counter makes a full turn
  between two messages of the topic; `AtMostOnce` fails once `MaxLag` reaches
  `WindowSize`.
* Images: two publishers with equal frame ids mix their chunks; a subscriber
  with two addresses is given an image twice, as each copy of a chunk has a
  sequence number of its own. Explicit frame ids are the caller's contract.
* Registration: a topic with a peer is registered again every tenth tick, no
  sooner than the TTL (`relink.hpp:1598`, `relink_rlcore.cpp:66-70`), so a live topic
  flickers out of the table, and a sweep that always falls just after another
  node's eviction never learns of it. So the "late-arriving SECOND peer" of
  `relink.hpp:1596-1599` is not always picked up: with three nodes, nothing lost,
  no crash, `MaxLate` 1, `MaxDelay` 0, a sweep every 2 ticks and TTL 4, TLC finds
  `SecondPeerPickedUp` violated under the fairness below. A node that has no peer
  yet is not affected: `Discovery` also holds with three nodes (sweep every 3
  ticks, TTL 6, 249,751 states). Two nodes that share more topics than fit into one ack
  (`MaxAckPeers`) get no reply at all. Such a node announces its roles no more
  often than every 3.4 s: its five attempts from 100 ms take 3.1 s
  (`relink.hpp:1670`), longer than the TTL of 3.0 s, so that its roles flicker
  (with `MaxAckPeers` 0, three retries and TTL 7, TLC finds `RolesStayListed`
  violated and `SearchingStaysListed` kept: a retry refreshes the topics, not
  the roles).
* Node: the multicast listener is stopped only when its member is destroyed,
  after members its callback uses (`relink.hpp:1318-1321`, `mcast_` at 1408;
  `NoUseAfterDestroy`). A topic declared without a pair and then with one is
  accepted by `register_pair`, although its comment (`relink.hpp:993-996`) wants
  to "fail loudly rather than silently rebinding it to a new port": the handler
  stays on the old transport, and the topic is announced with another one's port
  (`NotSilentlyRebound`; one topic and two declarations are enough).
* Multicast: a group of more than 124 topics is never beaconed, although
  `kMaxBeaconTopics` is 128. The reply to a name query is not cut into packets.
  Peers are keyed by address and port and never expire, so a successor on the
  same port keeps the pid of its predecessor.
* Relay: on the AF_XDP path the frame length is taken for the packet length, so
  a REGISTER padded to the Ethernet minimum would be refused
  (`relink_relay.cpp:201`, `relay_wire.hpp:58`); lengths are not in the model.
* Directory: a name longer than 255 bytes hides its neighbours in the chunk.
  Name and role announces are not sealed. A duplicated role reply lists a peer
  twice.
* Tool: an invocation that reads `conf.bin` between the truncation and the write
  falls back to multicast, and one killed there forgets the address
  (`rl_topic.cpp:299`). On Ctrl-C the locals that `on_msg` captured are gone
  before the node has joined its threads (`LateMessage`). The rate of `hz` is
  the number of samples over the span of one fewer intervals. A text published
  by `pub` whose size is that of exactly one message type is echoed as that type.

### Fairness

* `ShmRing`: both threads keep taking steps (they never block; the poll loop
  sleeps for 200 us at most). Publishing and stopping are up to the application.
* `ShmSegment`: a running process goes on with `open`, and the application
  calls it again when it returned false. Nobody has to start, stop or crash.
* `RelinkNode`: declarations and `ensure_started` go on once begun, threads
  run, and so does the destructor once begun. Nothing has to be called.
* `RlcoreRegistry`: time passes, threads whose wait is over run, a datagram
  under way arrives. The run has no loss: with unlimited loss the requests of two
  nodes could forever arrive more than a TTL apart.
* `RlcoreDirectory`: the same, with strong fairness of time, which the tool's
  queries may interrupt; and the network does not lose every announce of a name
  (strong fairness of handling one), since nodes repeat them for ever.
* `Relay`: the server's loop and the keepalive threads go on; time passes; a
  REGISTER repeated for ever is not lost for ever (strong fairness).
* `MulticastDiscovery`: the threads are scheduled and `stop` waits in `join`; a
  listener is not missed by every beacon of a sender, and what waits at its
  socket is received in the end.
* `ImageReassembler`: the receive thread keeps reading the socket.
* `RlTopic`: main threads run and time passes. Nobody has to send, to turn up,
  or to press Ctrl-C.

Deadlock is not checked where the bounds, or the application, make the
system stop (`CHECK_DEADLOCK FALSE`); the registry, the directory and the relay,
where time always passes, check it.

## Proofs

The theorems hold for every value of the constants that the named assumptions
of the modules allow; where one needs more, its hypothesis is given here and in
its statement. Almost none of the properties is inductive as it stands; what
was added is the interesting part, and was checked with TLC first.

**`ShmRingProofs`**: `TypeCorrect` (in particular both indices stay inside the
ring), `NoSlotRace`, `ZeroCopyIsStable`, `DeliveryIsFifo`, and
`RingImplementsQueue`: every behaviour of the ring is one of `ShmQueue`. The
invariant `IInv` adds what each side knows: its copy of its own index is exact,
its copy of the other index is stale only in the safe direction, the slot
fields it has written or read so far agree with the message it works on, and
the histories agree with the ring element by element. The index arithmetic is
proved once in lemmas about `Wrap` and `CountOf`; the store of `tail` is the
abstract push, the store of `head` the abstract pop, all other steps stutter.

**`ShmSegmentProofs`**: `TypeCorrect`, `OneInitialiserHolds`,
`GeometryAgreesHolds`. One initialiser follows once it is known that a fresh
segment is mapped by nobody and unpublished (`MappingInv`). Agreement on the
geometry needs what a process knows between its comparison of the header and
its use of the ring (`HeaderInv`): the only writer that can meet it there is a
stealer that made the same comparison.

**`UdpDedupProofs`**: `TypeCorrect`; `DeliveredOnce`, if `MaxLag < WindowSize`;
`DropsAreDuplicates`, while no number is used twice; and
`OnePublisherNumbers`: one publisher that owns its counter and does not restart
satisfies that until the counter wraps. `WindowImplementsChannel`: with
`MaxLag < WindowSize`, and whether numbers are reused or not, every behaviour is
one of `DedupChannel`; a copy that is accepted is a `Deliver`, one that is
discarded a `Discard`. The invariant says what the circular window holds: slot
`j` has the number of the `Position(j)`-th delivery, and the positions are
exactly the last `WindowSize` ones.

**`RelinkNodeProofs`**: `DedupArmedFirstHolds`; `AnnouncedWhereHandledHolds`,
which exempts only topics that were paired after they had a transport without a
pair (`LatePaired`; see Other limits); `JoinedThreadsAreSafeHolds`. On
top of the order of the calls (`OrderInv`): a snapshot of the topics is armed
as a whole (`ArmedInv`), the transport a topic was given stays the one it is
given, unless it is paired late, and being paired late is for ever
(`PlaceInv`, `LateStays`), and which threads have ended at each item of the destructor
(`JoinInv`).

**`ImageReassemblerProofs`**: `DeliveredWholeHolds`, if no two nodes publish
images on the topic. A frame id then identifies an image, so that a buffer's
slots hold bytes of one image (`ReassemblyInv`), and as many filled slots as it
has chunks are all of them; that the chunks put together are the image, for
every length and chunk size, is the lemma `ChunksAreTheImage`. The module also
has `AloneIsSafe`, about `SendBuffer`: if no two threads are inside `publish_raw`
at once (`AloneAtTheBuffer`, what a lock would give), handlers get what was
published, byte for byte, with any number of threads. The invariant says which
cells of the buffer are those of the frame being written (`Written`). The
`send_buffer` run shows that the condition is needed.

**`MulticastDiscoveryProofs`**: `SocketsOutliveThreadsHolds`,
`ListedOnceHolds`, and `IsolationHolds`, if all network ids are below the limit
the comment of `derive_multicast_port` gives. `ThreadInv` says which threads may
still run at each stage of `stop`; `HeardInv` and `LearnedInv` trace what was
learned back to a node on the same port, and `PortInjective` tells that two
networks have two ports; `ListInv` relates `table_` and `peers_`.

**`RelayProofs`**: `FramesConservedHolds`: there are as many places in the fill
ring and in unread descriptors as there are frames, and each frame is in one
(`FrameInv`). `GoneAreForgottenHolds`: after the sweep of the current second no
member is expired (`SweptInv`). `KeptAliveHolds`: a running client of which few
enough REGISTERs were lost has a lease that holds or one about to be renewed
(`LeaseInv`). `RelayAssumption` has the relation of the keepalive period and
the TTL (`Period + MaxLate + MaxDelay <= Ttl`; 10 s against 30 s).

**`RlcoreDirectoryProofs`**, about `RlcoreRegistry`:

* `DeadNotHandedOutHolds`: entries go back to datagrams their node sent while it
  ran (`TableInv`), and datagrams are no older than they say (`SenderInv`). The
  property speaks of the acks a step writes (age 0). In an earlier form it
  spoke of every ack that was not there before, and the proof failed: an ack
  that ages in `Tick` is a new element of `net`, and with `MaxDelay` of 2 or
  more it may name a node that went over the bound meanwhile.
* `SearchingStaysListedHolds`, without loss, if the longest wait for one ack, the
  interval, the lateness of the thread and the delay of a datagram are together
  within the TTL (`LongestWait`; 1.6 s and 0.3 s against 3.0 s leave 1.1 s). An
  entry is as old as the last request, or the last request is under way and the
  entry no older than the one before (`SearchInv`). Retries count, so that the
  theorem does not depend on acks: `SearchingListedIfRequestsArrive` is the same
  for behaviours that lose acks and role announces, but no request.
* `RolesStayListedHolds`, without loss, if every ack fits into a datagram
  (`AcksFit`) and `3 * MaxDelay + Interval + MaxLate <= Ttl`. Roles are not
  announced again before the reply was taken, so that the invariant (`RoleInv`)
  follows the request, the ack and the queued reply (`Answered`).

and about `RlcoreDirectory`, with losses, crashes and restarts of the daemon:

* `ChunksFitAndCover`: whatever the list and the limits, the packets are not
  empty, keep both limits and hold the list. The prover cannot instantiate the
  library's induction theorems. A least counterexample serves instead: the
  initial segments of the naturals are finite sets, ordered well by
  strict inclusion (`LeastNumber`, `Induction`, `RecursionExists`).
* `DirectoryTypeCorrect`; `CompleteUnlessLostHolds`: what is neither collected nor
  under way was lost, and every packet decodes (`AnswerInv`);
  `GoneNotListedHolds`: registrations are of nodes with the daemon's key
  (`KeyInv`), and what is in an answer was there lately (`LatelyInv`).
  `PacketAssumption` says that one entry of the greatest length fits into a
  packet (266 of 8192 bytes, and 17); names are within their limit once decoded
  (`NamesInv`).
* `DaemonIsARegistry`: every behaviour of the whole daemon is one of
  `ForgetfulSpec`, the registry to which any datagram may be lost and whose
  entries may go. `HandleRequest` maps to `HandleRegister`; a request that is
  dropped or forwarded, a query, a name announce and a restart map to a step
  that only forgets (`Forgets`), the tool's steps to stutters. Hence
  `DaemonHandsOutLately`: `DeadNotHandedOut` holds of the daemon as it runs.
* `RequestsAreHandledUnlessMistaken`: the property that the `dispatch` run
  refutes holds, without loss, if daemon and nodes are started so that no
  request looks like a frame or a directory packet (`NeverMistaken`).

and about `RlTopic`:

* `ToolTypeCorrect`; `NotForgottenHolds`: if `conf.bin` holds no address, a save
  is under way or was cut short, or nobody has had an address yet; and what is
  being saved is an address (`SaveInv`).
* `EveryArrivalCountedHolds`: the arrivals are kept in their order, and those the
  next report has to count are the last ones of `samples`, in the same order
  (`ArrivalInv`). The filter of a report is a loop over the list; what it keeps
  is proved by induction (`RecentKeeps`, `RecentIsTheEnd`).

Only model-checked:

* liveness, that is everything under fairness (`AcceptedIsDelivered`,
  `OpenSucceedsUnlessOrphaned`, `Discovery`, `EveryImageDelivered`,
  `DestructorReturns`, `Joins`, `Leaves`, `StopReturns`, `NamesAppear`,
  `CommandsEnd`): out of the prover's reach;
* the runs that end in a counterexample.

## Not modelled

* The AES-GCM cipher (what sealing and opening do to a registration is in
  `RlcoreDirectory`), byte layouts no property depends on, JPEG coding.
* Socket options, core pinning, thread priorities, the platform layer, loading
  and attaching the XDP program.
* The adaptive bitrate controller and the drop-oldest buffer: sequential, called
  by no part of the library, covered by unit tests. Standard messages are plain
  structs.
* In the tool: the multicast query and the printing of the fields of a message.
* Examples and benchmarks. The Python binding, apart from its steps on the
  shared-memory ring.
* Pids are not reused in `ShmSegment`; the map from names to topic ids is taken
  to be injective; weak memory is not modelled beyond the argument given for
  `ShmRing`.

## Plan

Done: all modules above, and theorems for every invariant, action property and
refinement the passing runs check. Left, in this order:

1. `KeptAlive`'s argument for the registry, with a bounded number of lost
   requests.
2. Pid reuse and unlinking by name in `ShmSegment`.
3. `Relay` composed with `UdpDedup`, so that the second path's copies are those
   the relay forwards.
