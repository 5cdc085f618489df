------------------------------- MODULE Relay -------------------------------
(***************************************************************************)
(* Relayed delivery: the forwarding group of one topic, kept alive by the  *)
(* nodes' keepalive threads (relink.hpp) and served by one of              *)
(*   "relay"   the standalone relink-relay on a plain socket,              *)
(*   "xdp"     relink-relay with its AF_XDP fast path (relay_xdp.hpp),     *)
(*   "rlcore"  relink-rlcore started with --relay.                         *)
(* Groups of different topics never meet in the code, so one is followed.  *)
(*                                                                         *)
(* Time is discrete and never runs out: a member's last_seen is kept as an *)
(* age, which stops growing once it is past the TTL.  The server drains    *)
(* what has arrived within one unit of time.                               *)
(***************************************************************************)
EXTENDS Integers, Sequences, FiniteSets

CONSTANTS
  Node,        \* client sockets; a restarted process is another Node
  Loopback,    \* nodes whose packets do not pass the NIC's XDP hook on queue 0
  Servers,     \* the servers to choose from
  Ttl,         \* kMemberTtlSeconds, kRelayMemberTtlSec
  Period,      \* the keepalive thread's sleep
  NumFrames,   \* UMEM frames (kNumFrames)
  Batch,       \* frames rx_batch takes at most (64)
  RingSize,    \* kRingSize of the RX ring
  MaxLate,     \* bound: how late a sleeping thread is woken
  MaxDelay,    \* bound: how long a datagram is under way
  MaxRestarts, \* bound: restarts of the server
  Faulty       \* bound: the servers with loss, dying clients and restarts

ASSUME RelayAssumption ==
  /\ Loopback \subseteq Node
  /\ Servers \subseteq {"relay", "xdp", "rlcore"}
  /\ Faulty \subseteq Servers
  /\ Ttl \in Nat \ {0} /\ Period \in Nat \ {0}
  /\ NumFrames \in Nat /\ Batch \in Nat \ {0} /\ RingSize \in Nat \ {0}
  /\ MaxLate \in Nat /\ MaxDelay \in Nat /\ MaxRestarts \in Nat
  /\ Period + MaxLate + MaxDelay <= Ttl

VARIABLES
  server,    \* which server runs
  phase,     \* of a client: "off", "on" (keepalive thread runs), "dead"
  timer,     \* time since the client's last REGISTER
  net,       \* datagrams under way to the server
  group,     \* the topic's members: the age of last_seen, or Absent
  swept,     \* last_sweep = now
  sent,      \* the sockets the packet handled last was forwarded to
  sock,      \* packets waiting at the plain socket (xdp only)
  fill,      \* the fill ring: UMEM frames at the NIC's disposal
  rx,        \* RX ring: the frames not yet released and what is in them
  loop,      \* the poll loop: the position in its batch, the size of the batch
  restarts,
  missed     \* history: REGISTERs of a node lost since one was handled

client == <<phase, timer>>
xdp == <<sock, fill, rx, loop>>
vars == <<server, client, net, group, swept, sent, xdp, restarts, missed>>

Absent == -1
Idle == [i |-> 0, n |-> 0]

\* Losses a member survives: after that many, the next REGISTER still
\* arrives within the TTL of the last one that did.
Tolerated == (Ttl - MaxDelay) \div (Period + MaxLate) - 1

\* Counters stop growing at the first value no property tells apart.
Up(x, max) == IF x < max THEN x + 1 ELSE max

\* init(): the fill ring is seeded with every frame.
SeedFrames == [j \in 1 .. NumFrames |-> j]

Packet(kind, n) == [kind |-> kind, src |-> n, age |-> 0]

Init ==
  /\ server \in Servers
  /\ phase = [n \in Node |-> "off"]
  /\ timer = [n \in Node |-> 0]
  /\ net = {}
  /\ group = [n \in Node |-> Absent]
  /\ swept = TRUE
  /\ sent = {}
  /\ sock = << >> /\ fill = SeedFrames /\ rx = << >>
  /\ loop = Idle
  /\ restarts = 0
  /\ missed = [n \in Node |-> Tolerated + 1]

-----------------------------------------------------------------------------
(* The client. *)

\* ensure_started() registers the topic once and launches the thread.
Start(n) ==
  /\ phase[n] = "off"
  /\ phase' = [phase EXCEPT ![n] = "on"]
  /\ net' = net \cup {Packet("register", n)}
  /\ UNCHANGED <<server, timer, group, swept, sent, xdp, restarts,
                 missed>>

\* start_relay_keepalive_thread(): sleep, then register again.
KeepAlive(n) ==
  /\ phase[n] = "on" /\ timer[n] >= Period
  /\ timer' = [timer EXCEPT ![n] = 0]
  /\ net' = net \cup {Packet("register", n)}
  /\ UNCHANGED <<server, phase, group, swept, sent, xdp, restarts,
                 missed>>

\* Bound: one datagram other than a REGISTER under way or waiting at a time.
Quiet ==
  \A p \in net \cup {sock[j] : j \in 1 .. Len(sock)}
              \cup {rx[j].packet : j \in 1 .. Len(rx)} : p.kind = "register"

\* publish_raw(): the copy for the relay.
PublishRaw(n) ==
  /\ phase[n] = "on" /\ Quiet
  /\ net' = net \cup {Packet("data", n)}
  /\ UNCHANGED <<server, client, group, swept, sent, xdp, restarts, missed>>

\* A datagram for the relay's port without a payload, from anyone.
Stray(n) ==
  /\ server = "xdp" /\ Quiet
  /\ net' = net \cup {Packet("empty", n)}
  /\ UNCHANGED <<server, client, group, swept, sent, xdp, restarts, missed>>

\* The process ends; nothing is sent (there is no unregister).
Die(n) ==
  /\ server \in Faulty
  /\ phase[n] = "on"
  /\ phase' = [phase EXCEPT ![n] = "dead"]
  /\ timer' = [timer EXCEPT ![n] = 0]
  /\ missed' = [missed EXCEPT ![n] = Tolerated + 1]
  /\ UNCHANGED <<server, net, group, swept, sent, xdp, restarts>>

-----------------------------------------------------------------------------
(* The server's handling of one packet. *)

\* Mutant: a member is dropped when its age reaches the TTL.
ExpiredEarly(age) == age >= Ttl

\* remove_if in handle_packet, mit->second in prune_stale.
Expired(age) == age > Ttl

\* Mutant: last_sweep is updated before the comparison, nothing is swept.
SweepNever(g) == g

Sweep(g) == [n \in Node |-> IF g[n] # Absent /\ Expired(g[n]) THEN Absent
                                                              ELSE g[n]]

\* Everyone in the group but the sender.
Forward(g, p) == {n \in Node : g[n] # Absent /\ n # p.src}

\* REGISTER: refresh last_seen, or join.
Join(g, p) == [g EXCEPT ![p.src] = 0]

Apply(g, p) ==
  /\ group' = IF p.kind = "register" THEN Sweep(Join(g, p)) ELSE Sweep(g)
  /\ sent' = IF p.kind = "data" THEN Forward(g, p) ELSE {}
  /\ missed' = IF p.kind = "register" /\ phase[p.src] = "on"
                 THEN [missed EXCEPT ![p.src] = 0] ELSE missed
  /\ swept' = TRUE

\* Mutant: the merged relay forwards before it prunes, as the relay does.
HandleUnpruned(p) == Apply(group, p)

\* handle_packet(): the packet first, then, once per second, the sweep, which
\* in the same second finds nothing.  rlcore prunes before it looks at the
\* packet.
Handle(p) == Apply(IF server = "rlcore" THEN Sweep(group) ELSE group, p)

\* recvfrom() returns a packet: the plain loop, and rlcore's.
Receive(p) ==
  /\ server # "xdp"
  /\ p \in net /\ net' = net \ {p}
  /\ Handle(p)
  /\ UNCHANGED <<server, client, xdp, restarts>>

\* rlcore's receive timeout of one second: prune_stale() without a packet.
ReceiveTimeout ==
  /\ server = "rlcore"
  /\ ~swept
  /\ group' = Sweep(group)
  /\ swept' = TRUE
  /\ sent' = {}
  /\ UNCHANGED <<server, client, net, xdp, restarts, missed>>

-----------------------------------------------------------------------------
(***************************************************************************)
(* The AF_XDP receive path.                                                *)
(***************************************************************************)

\* Time under way is over once a packet has arrived.
Arrived(p) == Packet(p.kind, p.src)

Lost(p) == IF p.kind = "register"
             THEN [missed EXCEPT ![p.src] = Up(@, Tolerated + 1)]
             ELSE missed

\* relay_xdp_prog passes packets of other queues, and loopback never meets
\* it: they wait at the plain socket.
KernelPass(p) ==
  /\ server = "xdp"
  /\ p \in net /\ net' = net \ {p}
  /\ p.src \in Loopback
  /\ sock' = Append(sock, Arrived(p))
  /\ UNCHANGED <<server, client, group, swept, sent, fill, rx, loop,
                 restarts, missed>>

\* bpf_redirect_map: the kernel writes the packet into a frame of the fill
\* ring, or drops it when there is none or the RX ring is full.
KernelRedirect(p) ==
  /\ server = "xdp"
  /\ p \in net /\ net' = net \ {p}
  /\ p.src \notin Loopback
  /\ \/ /\ Len(rx) < RingSize /\ fill # << >>
        /\ fill' = Tail(fill)
        /\ rx' = Append(rx, [frame |-> Head(fill), packet |-> Arrived(p)])
        /\ UNCHANGED missed
     \/ /\ Len(rx) >= RingSize \/ fill = << >>
        /\ missed' = Lost(p)
        /\ UNCHANGED <<fill, rx>>
  /\ UNCHANGED <<server, client, group, swept, sent, sock, loop, restarts>>

\* Mutant: only the AF_XDP socket is polled.
ReadyXskOnly == {s \in {"xsk"} : rx # << >>}

Ready == {s \in {"sock", "xsk"} : IF s = "sock" THEN sock # << >>
                                                ELSE rx # << >>}

\* rx_batch(): how many frames xsk_ring_cons__peek hands out.
RxBatch == IF Len(rx) < Batch THEN Len(rx) ELSE Batch

\* poll(), one packet of the plain socket (n > 0), then rx_batch().
Poll ==
  /\ server = "xdp" /\ loop = Idle
  /\ Ready # {}
  /\ IF "sock" \in Ready /\ Head(sock).kind # "empty"
       THEN Handle(Head(sock))
       ELSE UNCHANGED <<group, swept, sent, missed>>
  /\ sock' = IF "sock" \in Ready THEN Tail(sock) ELSE sock
  /\ loop' = IF "xsk" \in Ready
               THEN [i |-> 1, n |-> RxBatch]
               ELSE Idle
  /\ UNCHANGED <<server, client, net, fill, rx, restarts>>

\* Mutant: refill() is skipped for a frame that was too short.
RefillHandledOnly ==
  IF rx[loop.i].packet.kind = "empty"
    THEN fill ELSE Append(fill, rx[loop.i].frame)

\* refill(): the fill ring holds every frame, so the reserve succeeds.
Refill == Append(fill, rx[loop.i].frame)

\* release_rx(): the consumed descriptors leave the ring.
ReleaseRx == SubSeq(rx, loop.n + 1, Len(rx))

\* rx_frame(): what the NIC wrote into the frame of the current descriptor.
Current == rx[loop.i].packet

\* rx_frame(), handle_packet() unless the frame holds no payload, refill();
\* after the last frame of the batch release_rx().
RxFrame ==
  /\ loop # Idle
  /\ IF Current.kind # "empty"
       THEN Handle(Current)
       ELSE UNCHANGED <<group, swept, sent, missed>>
  /\ fill' = Refill
  /\ IF loop.i < loop.n
       THEN /\ loop' = [loop EXCEPT !.i = @ + 1]
            /\ UNCHANGED rx
       ELSE /\ loop' = Idle
            /\ rx' = ReleaseRx
  /\ UNCHANGED <<server, client, net, sock, restarts>>

-----------------------------------------------------------------------------
(* The environment. *)

\* The server is restarted: groups and queues are gone, frames are seeded.
Restart ==
  /\ server \in Faulty
  /\ restarts < MaxRestarts
  /\ restarts' = restarts + 1
  /\ group' = [n \in Node |-> Absent]
  /\ missed' = [n \in Node |-> Tolerated + 1]
  /\ swept' = TRUE /\ sent' = {}
  /\ sock' = << >> /\ fill' = SeedFrames /\ rx' = << >> /\ loop' = Idle
  /\ UNCHANGED <<server, client, net>>

Lose(p) ==
  /\ server \in Faulty
  /\ p \in net
  /\ net' = net \ {p}
  /\ missed' = Lost(p)
  /\ UNCHANGED <<server, client, group, swept, sent, xdp, restarts>>

Tick ==
  /\ \A n \in Node : phase[n] = "on" => timer[n] < Period + MaxLate
  /\ \A p \in net : p.age < MaxDelay
  /\ loop = Idle /\ sock = << >> /\ rx = << >>
  /\ server = "rlcore" => swept
  /\ timer' = [n \in Node |-> IF phase[n] = "on" THEN timer[n] + 1 ELSE 0]
  /\ net' = {[p EXCEPT !.age = @ + 1] : p \in net}
  /\ group' = [n \in Node |-> IF group[n] = Absent THEN Absent
                                                   ELSE Up(group[n], Ttl + 1)]
  /\ swept' = FALSE
  /\ sent' = {}
  /\ UNCHANGED <<server, phase, xdp, restarts, missed>>

ServerStep == \/ \E p \in net : Receive(p)
              \/ ReceiveTimeout
              \/ Poll
              \/ RxFrame

Next ==
  \/ \E n \in Node : Start(n) \/ KeepAlive(n) \/ PublishRaw(n) \/ Stray(n) \/ Die(n)
  \/ \E p \in net : Receive(p) \/ KernelPass(p) \/ KernelRedirect(p) \/ Lose(p)
  \/ ReceiveTimeout \/ Poll \/ RxFrame
  \/ Restart
  \/ Tick

Spec == Init /\ [][Next]_vars

\* A REGISTER of n gets through if enough of them are sent.
Arrive(n) ==
  \E p \in net : /\ p.src = n /\ p.kind = "register"
                 /\ Receive(p) \/ KernelPass(p) \/ KernelRedirect(p)

\* The server's loop and the clients' threads go on; time passes; a REGISTER
\* repeated for ever is not lost for ever.
FairSpec ==
  /\ Spec
  /\ WF_vars(ServerStep) /\ SF_vars(Tick)
  /\ \A n \in Node : WF_vars(KeepAlive(n)) /\ SF_vars(Arrive(n))

-----------------------------------------------------------------------------
(* Properties. *)

TypeOK ==
  /\ server \in Servers
  /\ phase \in [Node -> {"off", "on", "dead"}]
  /\ timer \in [Node -> 0 .. Period + MaxLate]
  /\ net \subseteq [kind : {"register", "data", "empty"}, src : Node,
                    age : 0 .. MaxDelay]
  /\ group \in [Node -> -1 .. Ttl + 1]
  /\ swept \in BOOLEAN /\ sent \subseteq Node
  /\ Len(fill) <= NumFrames /\ Len(rx) <= RingSize
  /\ loop \in [i : 0 .. Batch, n : 0 .. Batch]
  /\ restarts \in 0 .. MaxRestarts
  /\ missed \in [Node -> 0 .. Tolerated + 1]

\* The keepalive outpaces the TTL "by a comfortable margin": a live node of
\* which no more than Tolerated REGISTERs in a row were lost is in the group
\* whenever a frame is forwarded, however late its thread and its datagrams.
KeptAlive ==
  \A n \in Node :
    phase[n] = "on" /\ missed[n] <= Tolerated
      => Sweep(group)[n] # Absent

\* A frame is forwarded only to sockets that registered within the TTL: a
\* process that ended gets nothing for longer than that.  The standalone
\* relay, which sweeps after it forwards and only when packets arrive, may
\* break this with the first packet of a second, never with a later one.
GoneAreForgotten ==
  [][\A n \in sent' : sent' = sent \/ ~Expired(group[n])
                       \/ (server # "rlcore" /\ ~swept)]_vars

\* Positions in the RX ring the loop has not done with.
Unread == (IF loop = Idle THEN 1 ELSE loop.i) .. Len(rx)

\* relay_xdp.hpp: every UMEM frame is at the NIC's disposal or holds a packet
\* still to be read, and never both: no frame leaks, and none is overwritten
\* before handle_packet() has seen it.
FramesConserved ==
  server = "xdp" =>
    LET held == fill \o [j \in 1 .. Cardinality(Unread) |->
                            rx[Len(rx) + 1 - j].frame]
    IN Len(held) = NumFrames /\ {held[j] : j \in 1 .. Len(held)} = 1 .. NumFrames

\* A running node is, or gets, into the forwarding group: whichever of the
\* two descriptors its packets arrive on, and after a restart of the server.
Joins ==
  \A n \in Node : phase[n] = "on" ~> (group[n] # Absent \/ phase[n] = "dead")

\* A process that ended leaves the group, as long as another one keeps
\* sending to the server (rlcore: in any case).
Leaves ==
  \A n \in Node :
    phase[n] = "dead" ~>
      \/ group[n] = Absent
      \/ server # "rlcore" /\ \A m \in Node : phase[m] # "on"
=============================================================================
