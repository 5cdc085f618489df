--------------------------- MODULE RlcoreRegistry ---------------------------
(***************************************************************************)
(* Peer discovery through rlcore: the registration table of                *)
(* cpp/rlcore/relink_rlcore.cpp, and the node side of it, the initial      *)
(* registration of RelinkNode::ensure_started followed by the              *)
(* re-registration thread of cpp/include/relink/relink.hpp, which talks to *)
(* the server through register_with_rlcore_on_socket and the reply queue   *)
(* of UdpTransport.                                                        *)
(*                                                                         *)
(* Time is discrete.  A node never wakes before its sleep_for() interval   *)
(* is over and may wake up to MaxLate units late (scheduling); a datagram  *)
(* is delivered, or lost, within MaxDelay units.  The server keeps, per    *)
(* (topic, peer), the time of the last request: here its AGE, which stops  *)
(* growing once it is past the TTL.  A node has one group of topics, on    *)
(* one port; with several groups (set_multiplex(false)) the code runs the  *)
(* registrations of a tick one after the other, each on its own socket.    *)
(***************************************************************************)
EXTENDS Integers, Sequences, FiniteSets

CONSTANTS
  Node,         \* node processes; a restarted process is another Node
  Topic,        \* topic ids
  Declares,     \* [Node -> SUBSET Topic]: the topics of a node's group
  Interval,     \* rlcore_reregister_interval_
  SweepEvery,   \* every SweepEvery-th tick registers all topics (10)
  Ttl,          \* kRegistrationTtlSec
  InitTimeout,  \* timeout_ms of the initial registration
  BaseTimeout,  \* timeout_ms of a re-registration's first attempt
  MaxRetries,   \* max_retries of a re-registration
  QueueCap,     \* kMaxQueuedRegisterReplies
  MaxAckPeers,  \* the entries that fit into one RegisterAck
  MaxLate,      \* bound: how late a sleeping thread is woken
  MaxDelay,     \* bound: how long a datagram is under way
  Announcers,   \* the nodes whose role announces the instance includes
  AllowLoss,    \* does the network lose datagrams
  AllowCrash    \* may processes die (or exit: there is no unregister)

ASSUME RegistryAssumption ==
  /\ Declares \in [Node -> SUBSET Topic]
  /\ Interval \in Nat \ {0} /\ SweepEvery \in Nat \ {0} /\ Ttl \in Nat \ {0}
  /\ InitTimeout \in Nat \ {0} /\ BaseTimeout \in Nat \ {0}
  /\ MaxRetries \in Nat \ {0} /\ QueueCap \in Nat \ {0} /\ MaxAckPeers \in Nat
  /\ MaxLate \in Nat /\ MaxDelay \in Nat
  /\ MaxDelay < Interval
  /\ Announcers \subseteq Node
  /\ AllowLoss \in BOOLEAN /\ AllowCrash \in BOOLEAN

VARIABLES
  phase,     \* where a node's discovery thread is
  timer,     \* time since the node's current wait or sleep began
  tick,      \* re-registration ticks, modulo SweepEvery
  attempt,   \* attempt number of the registration under way
  asked,     \* the topics of the registration under way
  peers,     \* peers_: per node and topic, the peers it knows
  replies,   \* register_reply_queue_: acks received and not yet consumed
  lastSeen,  \* the server's table and last_seen: age of each (topic, peer)
  roleSeen,  \* the server's role_last_seen: age of each peer's announce
  net,       \* datagrams under way, each with the time it has been so
  deadFor    \* history: for how long a dead process has been dead

nodeVars == <<phase, timer, tick, attempt, asked, peers, replies>>
serverVars == <<lastSeen, roleSeen>>
vars == <<nodeVars, serverVars, net, deadFor>>

\* No entry for this key in a table of the server.
Absent == -1

Phase == {"off", "start", "sleep", "wait", "dead"}
Running(n) == phase[n] \in {"start", "sleep", "wait"}
Waiting(n) == phase[n] \in {"start", "wait"}

Request(n, topics, k) ==
  [kind |-> "register", node |-> n, topics |-> topics, no |-> k, age |-> 0]
Ack(n, list, k) ==
  [kind |-> "ack", node |-> n, peers |-> list, no |-> k, age |-> 0]
RoleAnnounce(n) == [kind |-> "role", node |-> n, age |-> 0]

Init ==
  /\ phase = [n \in Node |-> "off"]
  /\ timer = [n \in Node |-> 0]
  /\ tick = [n \in Node |-> 0]
  /\ attempt = [n \in Node |-> 0]
  /\ asked = [n \in Node |-> {}]
  /\ peers = [n \in Node |-> [t \in Topic |-> {}]]
  /\ replies = [n \in Node |-> << >>]
  /\ lastSeen = [k \in Topic \X Node |-> Absent]
  /\ roleSeen = [n \in Node |-> Absent]
  /\ net = {}
  /\ deadFor = [n \in Node |-> 0]

-----------------------------------------------------------------------------
(* The node. *)

\* ensure_started(): one attempt, for every topic, on the data socket.
Start(n) ==
  /\ phase[n] = "off"
  /\ phase' = [phase EXCEPT ![n] = "start"]
  /\ timer' = [timer EXCEPT ![n] = 0]
  /\ attempt' = [attempt EXCEPT ![n] = 1]
  /\ asked' = [asked EXCEPT ![n] = Declares[n]]
  /\ net' = net \cup {Request(n, Declares[n], 1)}
  /\ UNCHANGED <<tick, peers, replies, serverVars, deadFor>>

\* The topics of the group without a known peer.
Pending(n) == {t \in Declares[n] : peers[n][t] = {}}

\* Mutant: a topic without a peer waits for the full sweep, like the others.
ToRegisterOnSweep(n, k) == IF k = 0 THEN Declares[n] ELSE {}

\* What a tick registers: everything on a full sweep, otherwise what is
\* pending.
ToRegister(n, k) == IF k = 0 THEN Declares[n] ELSE Pending(n)

\* Mutant: roles are announced on full sweeps only.
RoleDatagramsOnSweep(n, k) ==
  IF n \in Announcers /\ k = 0 THEN {RoleAnnounce(n)} ELSE {}

\* The role announce of a tick, which full sweeps do not gate.
RoleDatagrams(n, k) == IF n \in Announcers THEN {RoleAnnounce(n)} ELSE {}

\* One pass of the thread's loop up to the first send, or up to the next
\* sleep if there is nothing to register.
Wake(n) ==
  /\ phase[n] = "sleep"
  /\ timer[n] >= Interval
  /\ LET k == (tick[n] + 1) % SweepEvery
         reg == ToRegister(n, k)
     IN /\ tick' = [tick EXCEPT ![n] = k]
        /\ phase' = [phase EXCEPT ![n] = IF reg = {} THEN "sleep" ELSE "wait"]
        /\ attempt' = [attempt EXCEPT ![n] = IF reg = {} THEN 0 ELSE 1]
        /\ asked' = [asked EXCEPT ![n] = reg]
        /\ net' = net \cup RoleDatagrams(n, k)
                      \cup (IF reg = {} THEN {} ELSE {Request(n, reg, 1)})
  /\ timer' = [timer EXCEPT ![n] = 0]
  /\ UNCHANGED <<peers, replies, serverVars, deadFor>>

\* The registration is over: the thread goes to sleep for an interval.
FinishRegistration(n) ==
  /\ phase' = [phase EXCEPT ![n] = "sleep"]
  /\ timer' = [timer EXCEPT ![n] = 0]
  /\ attempt' = [attempt EXCEPT ![n] = 0]
  /\ asked' = [asked EXCEPT ![n] = {}]

\* add_if_new for every entry of an ack.
AddPeers(known, list) ==
  [t \in Topic |-> known[t] \cup {p \in Node : <<t, p>> \in list}]

\* get_register_reply() pops the OLDEST reply, whichever request it answers.
TakeReply(n) ==
  /\ Waiting(n)
  /\ replies[n] # << >>
  /\ peers' = [peers EXCEPT ![n] = AddPeers(@, Head(replies[n]))]
  /\ replies' = [replies EXCEPT ![n] = Tail(@)]
  /\ FinishRegistration(n)
  /\ UNCHANGED <<tick, serverVars, net, deadFor>>

\* The wait of attempt k: doubled on every retry.
Backoff(n) ==
  IF phase[n] = "start" THEN InitTimeout ELSE BaseTimeout * 2^(attempt[n] - 1)

\* Mutant: one attempt too many.
RetryLimitPlusOne(n) == IF phase[n] = "start" THEN 1 ELSE MaxRetries + 1

RetryLimit(n) == IF phase[n] = "start" THEN 1 ELSE MaxRetries

\* No reply in time: send the same request again, or give up.
TimeOut(n) ==
  /\ Waiting(n)
  /\ replies[n] = << >>
  /\ timer[n] >= Backoff(n)
  /\ IF attempt[n] < RetryLimit(n)
     THEN /\ net' = net \cup {Request(n, asked[n], attempt[n] + 1)}
          /\ attempt' = [attempt EXCEPT ![n] = @ + 1]
          /\ timer' = [timer EXCEPT ![n] = 0]
          /\ UNCHANGED <<phase, asked>>
     ELSE FinishRegistration(n) /\ UNCHANGED net
  /\ UNCHANGED <<tick, peers, replies, serverVars, deadFor>>

\* recv_and_dispatch(): what is not a data frame goes to the reply queue,
\* unless the queue is full.
Enqueue(queue, list) ==
  IF Len(queue) < QueueCap THEN Append(queue, list) ELSE queue

ReceiveAck(m) ==
  /\ m.kind = "ack"
  /\ net' = net \ {m}
  /\ replies' = [replies EXCEPT ![m.node] =
                   IF Running(m.node) THEN Enqueue(@, m.peers) ELSE @]
  /\ UNCHANGED <<phase, timer, tick, attempt, asked, peers, serverVars, deadFor>>

\* Exit, destruction or crash: the same to the server, which is not told.
Crash(n) ==
  /\ AllowCrash
  /\ Running(n)
  /\ phase' = [phase EXCEPT ![n] = "dead"]
  /\ timer' = [timer EXCEPT ![n] = 0]
  /\ attempt' = [attempt EXCEPT ![n] = 0]
  /\ asked' = [asked EXCEPT ![n] = {}]
  /\ peers' = [peers EXCEPT ![n] = [t \in Topic |-> {}]]
  /\ replies' = [replies EXCEPT ![n] = << >>]
  /\ tick' = [tick EXCEPT ![n] = 0]
  /\ UNCHANGED <<serverVars, net, deadFor>>

-----------------------------------------------------------------------------
(* The server: prune_stale() runs after every recvfrom(), received or timed *)
(* out, and before the datagram is handled.                                 *)

\* Mutant: entries are refreshed and never evicted.
PruneNothing(seen) == [k \in DOMAIN seen |-> seen[k]]

Prune(seen) ==
  [k \in DOMAIN seen |-> IF seen[k] > Ttl THEN Absent ELSE seen[k]]

\* Mutant: an entry that is there keeps its old time.
InsertNoRefresh(seen, n, topics) ==
  [k \in DOMAIN seen |->
     IF k[1] \in topics /\ k[2] = n /\ seen[k] = Absent THEN 0 ELSE seen[k]]

\* table[topic].insert(self) and last_seen = now, for every declared topic.
Insert(seen, n, topics) ==
  [k \in DOMAIN seen |-> IF k[1] \in topics /\ k[2] = n THEN 0 ELSE seen[k]]

\* Every registered peer of the requester's topics but the requester.
PeerList(seen, n, topics) ==
  {k \in DOMAIN seen : k[1] \in topics /\ k[2] # n /\ seen[k] # Absent}

HandleRegister(m) ==
  /\ m.kind = "register"
  /\ lastSeen' = Insert(Prune(lastSeen), m.node, m.topics)
  /\ roleSeen' = Prune(roleSeen)
  /\ LET list == PeerList(lastSeen', m.node, m.topics)
     IN net' = (net \ {m}) \cup
               (IF Cardinality(list) <= MaxAckPeers
                THEN {Ack(m.node, list, m.no)} ELSE {})
  /\ UNCHANGED <<nodeVars, deadFor>>

HandleRole(m) ==
  /\ m.kind = "role"
  /\ lastSeen' = Prune(lastSeen)
  /\ roleSeen' = [Prune(roleSeen) EXCEPT ![m.node] = 0]
  /\ net' = net \ {m}
  /\ UNCHANGED <<nodeVars, deadFor>>

\* The receive timeout, which is there only to prune.
PruneIdle ==
  /\ lastSeen' = Prune(lastSeen)
  /\ roleSeen' = Prune(roleSeen)
  /\ serverVars' # serverVars
  /\ UNCHANGED <<nodeVars, net, deadFor>>

-----------------------------------------------------------------------------
(* The network and time. *)

Lose(m) ==
  /\ AllowLoss
  /\ net' = net \ {m}
  /\ UNCHANGED <<nodeVars, serverVars, deadFor>>

\* The age of a table entry is counted up to the first value past the TTL.
Older(a) == IF a = Absent \/ a > Ttl THEN a ELSE a + 1

\* The longest a node can stay in its phase.
Deadline(n) ==
  IF phase[n] = "sleep" THEN Interval + MaxLate
  ELSE IF replies[n] # << >> THEN 0 ELSE Backoff(n)

Tick ==
  /\ \A m \in net : m.age < MaxDelay
  /\ \A n \in Node : Running(n) => timer[n] < Deadline(n)
  /\ timer' = [n \in Node |-> IF Running(n) THEN timer[n] + 1 ELSE 0]
  /\ net' = {[m EXCEPT !.age = @ + 1] : m \in net}
  /\ lastSeen' = [k \in DOMAIN lastSeen |-> Older(lastSeen[k])]
  /\ roleSeen' = [n \in Node |-> Older(roleSeen[n])]
  /\ deadFor' = [n \in Node |->
       IF phase[n] = "dead" /\ deadFor[n] <= Ttl + MaxDelay
       THEN deadFor[n] + 1 ELSE deadFor[n]]
  /\ UNCHANGED <<phase, tick, attempt, asked, peers, replies>>

Next ==
  \/ \E n \in Node : Start(n) \/ Wake(n) \/ TakeReply(n) \/ TimeOut(n) \/ Crash(n)
  \/ \E m \in net : ReceiveAck(m) \/ HandleRegister(m) \/ HandleRole(m) \/ Lose(m)
  \/ PruneIdle
  \/ Tick

Spec == Init /\ [][Next]_vars

\* The threads and the server keep running, a datagram that is not lost
\* arrives, and time passes.  Nobody has to start, crash or lose anything.
Fairness ==
  /\ WF_vars(Tick)
  /\ \A n \in Node : WF_vars(Wake(n) \/ TakeReply(n) \/ TimeOut(n))
  /\ WF_vars(\E m \in net : ReceiveAck(m) \/ HandleRegister(m) \/ HandleRole(m))

FairSpec == Spec /\ Fairness

-----------------------------------------------------------------------------
(* Properties. *)

Age == {Absent} \cup 0 .. (Ttl + 1)

\* Every variable has its type; the reply queue respects its cap.
TypeOK ==
  /\ phase \in [Node -> Phase]
  /\ timer \in [Node -> Nat]
  /\ tick \in [Node -> 0 .. (SweepEvery - 1)]
  /\ attempt \in [Node -> 0 .. MaxRetries]
  /\ asked \in [Node -> SUBSET Topic]
  /\ peers \in [Node -> [Topic -> SUBSET Node]]
  /\ replies \in [Node -> Seq(SUBSET (Topic \X Node))]
  /\ \A n \in Node : Len(replies[n]) <= QueueCap
  /\ lastSeen \in [Topic \X Node -> Age]
  /\ roleSeen \in [Node -> Age]
  /\ \A m \in net : m.node \in Node /\ m.age \in 0 .. MaxDelay
  /\ deadFor \in [Node -> 0 .. (Ttl + MaxDelay + 1)]

\* A process that died is in no new ack any more once the TTL, and the time
\* its last request may still have been under way, are over
\* (prune_stale, relink_rlcore.cpp:221; "stop treating a dead node's topics
\* as live").
DeadNotHandedOut ==
  [][\A m \in net' \ net : m.kind = "ack" /\ m.age = 0 =>
        \A k \in m.peers : deadFor[k[2]] <= Ttl + MaxDelay]_vars

Evicted(t, n) == lastSeen[<<t, n>>] # Absent /\ lastSeen'[<<t, n>>] = Absent

\* Without datagram loss, the server never drops a live node from a topic for
\* which the node still has no peer: such a topic is registered on every tick
\* (relink.hpp:1655-1663), so it stays within the TTL.
SearchingStaysListed ==
  [][\A n \in Node, t \in Topic :
        Evicted(t, n) /\ Running(n) => peers[n][t] # {}]_vars

\* Without datagram loss, a live node's roles never disappear from the
\* server: they are announced on every tick (relink.hpp:1624-1631).
RolesStayListed ==
  [][\A n \in Node : roleSeen[n] # Absent /\ roleSeen'[n] = Absent
        => ~Running(n)]_vars

\* A node does not go on searching for ever: while another node of the topic
\* keeps running, it learns of a peer, whatever acks arrive late, are taken
\* for another request, or find the other one evicted ("A topic with no peer
\* yet is always retried every tick", relink.hpp:1599-1600).  Of two nodes that
\* are alone on a topic, each finds the other.
Discovery ==
  \A n, p \in Node : \A t \in Declares[n] \cap Declares[p] : n # p =>
    (Running(n) /\ Running(p)
       ~> (peers[n][t] # {} \/ ~Running(n) \/ ~Running(p)))

\* relink.hpp:1596-1599: "only do a full sweep (every 10th tick) so a
\* late-arriving SECOND peer for an already-satisfied topic still eventually
\* gets picked up".  A node p whose first request is sent when n already has
\* another peer becomes known to n in the end.  It does not hold with three
\* nodes: a node with a peer is registered no sooner than the TTL, and n may
\* always ask when p has just been evicted.
SecondPeerPickedUp ==
  \A n, p \in Node : \A t \in Declares[n] \cap Declares[p] : n # p =>
    (/\ phase[p] = "start" /\ Request(p, Declares[p], 1) \in net
     /\ Running(n) /\ peers[n][t] # {}
       ~> (p \in peers[n][t] \/ ~Running(n) \/ ~Running(p)))
=============================================================================
