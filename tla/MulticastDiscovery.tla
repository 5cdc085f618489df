------------------------- MODULE MulticastDiscovery -------------------------
(***************************************************************************)
(* Discovery without a server (multicast_discovery.hpp, beacon.hpp): every *)
(* node beacons its port groups and listens for the beacons of others, on  *)
(* a sender and a listener thread of its own, until stop() joins both and  *)
(* closes their sockets.  Beacons may be lost; a beacon that waits twice   *)
(* at a socket is the same beacon.  The startup burst and the sparse       *)
(* re-announcement differ in the length of the sleep only.                 *)
(***************************************************************************)
EXTENDS Naturals, Sequences, FiniteSets, SequencesExt

CONSTANTS
  Node,             \* one run of a process each
  Settings,         \* what to choose from: the nodes' network_id and ip
  PortGroups,       \* [Node -> sequence of [port, topics]]
  BeaconBuf,        \* bytes of the buffer of send_beacon_once (512)
  kMaxBeaconTopics, \* 128
  MayStop           \* bound: the nodes that are stopped or fail to start

ASSUME MulticastAssumption ==
  /\ \A s \in Settings : s.network_id \in [Node -> 0 .. 65535]
  /\ MayStop \subseteq Node

VARIABLES
  network_id, ip, \* the configuration of each node
  stage,          \* of start() and stop()
  open,           \* the sockets that are open
  sender,         \* step of sender_loop
  listener,       \* step of listener_loop
  packet,         \* what the listener received last
  inbox,          \* what waits at the listening socket
  network_topics, \* network_topics_
  table,          \* table_: <<topic, ip, port>>
  peers,          \* RelinkNode::peers_, filled by the callback
  candidates      \* local_ipc_candidates_: <<topic, process>>

config == <<network_id, ip>>
threads == <<stage, open, sender, listener, packet>>
knowledge == <<network_topics, table, peers, candidates>>
vars == <<config, threads, inbox, knowledge>>

LocalTopics(n) == UNION {g.topics : g \in ToSet(PortGroups[n])}
SelfPorts(n) == {g.port : g \in ToSet(PortGroups[n])}
Topic == UNION {LocalTopics(n) : n \in Node}

\* running_ is set by start(), also when a socket then cannot be set up.
Running(n) == stage[n] \in {"up", "failed"}

kDefaultMulticastPort == 7400
kRange == 65535 - kDefaultMulticastPort

\* Mutant: the offset may be 0, the default network's.
PortNoOffset(id) ==
  IF id = 0 THEN kDefaultMulticastPort
            ELSE kDefaultMulticastPort + (id % kRange)

derive_multicast_port(id) ==
  IF id = 0 THEN kDefaultMulticastPort
            ELSE kDefaultMulticastPort + (id % kRange) + 1

\* With SO_REUSEPORT the kernel delivers a multicast to every socket bound
\* to its port, whichever groups they joined, the sender's own included.
Listeners(n) ==
  {m \in Node : /\ "recv" \in open[m]
                /\ derive_multicast_port(network_id[m])
                     = derive_multicast_port(network_id[n])}

\* The largest beacon fits its buffer exactly when this holds.
Encodes(topics) ==
  /\ Cardinality(topics) <= kMaxBeaconTopics
  /\ 8 + 4 * Cardinality(topics) + 8 <= BeaconBuf

Beacon(n, g) ==
  [kind |-> "beacon", ip |-> ip[n], port |-> g.port, topics |-> g.topics,
   pid |-> n]
Query == [kind |-> "query"]
NoPacket == [kind |-> "none"]

\* Mutant: the loop ends at a group that cannot be encoded.
BeaconsBreak(n) ==
  {Beacon(n, PortGroups[n][i]) :
     i \in {j \in 1 .. Len(PortGroups[n]) :
              \A k \in 1 .. j : Encodes(PortGroups[n][k].topics)}}

\* One beacon per port group; a group that cannot be encoded is skipped.
Beacons(n) ==
  {Beacon(n, g) : g \in {h \in ToSet(PortGroups[n]) : Encodes(h.topics)}}

Init ==
  /\ \E s \in Settings : network_id = s.network_id /\ ip = s.ip
  /\ stage = [n \in Node |-> "new"]
  /\ open = [n \in Node |-> {}]
  /\ sender = [n \in Node |-> "none"]
  /\ listener = [n \in Node |-> "none"]
  /\ packet = [n \in Node |-> NoPacket]
  /\ inbox = [n \in Node |-> {}]
  /\ network_topics = [n \in Node |-> {}]
  /\ table = [n \in Node |-> {}]
  /\ peers = [n \in Node |-> [t \in LocalTopics(n) |-> << >>]]
  /\ candidates = [n \in Node |-> {}]

-----------------------------------------------------------------------------
(* start() and stop(). *)

Start(n) ==
  /\ stage[n] = "new"
  /\ stage' = [stage EXCEPT ![n] = "up"]
  /\ open' = [open EXCEPT ![n] = {"send", "recv"}]
  /\ sender' = [sender EXCEPT ![n] = "send"]
  /\ listener' = [listener EXCEPT ![n] = "recv"]
  /\ UNCHANGED <<packet, inbox, knowledge, config>>

\* setup_send_socket() or setup_recv_socket() throws: running_ is set, no
\* thread was launched, and the sockets made so far are open.
StartThrows(n) ==
  /\ stage[n] = "new" /\ n \in MayStop
  /\ stage' = [stage EXCEPT ![n] = "failed"]
  /\ \E made \in {{}, {"send"}, {"send", "recv"}} :
       open' = [open EXCEPT ![n] = made]
  /\ UNCHANGED <<sender, listener, packet, inbox, knowledge, config>>

Stop(n) ==
  /\ Running(n) /\ n \in MayStop
  /\ stage' = [stage EXCEPT ![n] = "stopping"]
  /\ UNCHANGED <<open, sender, listener, packet, inbox, knowledge, config>>

JoinSender(n) ==
  /\ stage[n] = "stopping"
  /\ sender[n] \in {"none", "done"}
  /\ stage' = [stage EXCEPT ![n] = "sender joined"]
  /\ UNCHANGED <<open, sender, listener, packet, inbox, knowledge, config>>

JoinListener(n) ==
  /\ stage[n] = "sender joined"
  /\ listener[n] \in {"none", "done"}
  /\ stage' = [stage EXCEPT ![n] = "joined"]
  /\ UNCHANGED <<open, sender, listener, packet, inbox, knowledge, config>>

Close(n, from) ==
  /\ stage[n] = from
  /\ stage' = [stage EXCEPT ![n] = "closed"]
  /\ open' = [open EXCEPT ![n] = {}]
  /\ inbox' = [inbox EXCEPT ![n] = {}]
  /\ UNCHANGED <<sender, listener, packet, knowledge, config>>

\* Mutant: the sockets are closed once the sender is gone.
CloseEarly(n) == Close(n, "sender joined")

\* Both sockets are closed once both threads are gone.
CloseSockets(n) == Close(n, "joined")

-----------------------------------------------------------------------------
(* sender_loop(). *)

\* send_beacon_once(); the beacons reach those of the listeners in "to".
SendBeacons(n, to) ==
  /\ sender[n] = "send"
  /\ sender' = [sender EXCEPT ![n] = "sleep"]
  /\ inbox' = [m \in Node |-> IF m \in to THEN inbox[m] \cup Beacons(n)
                                          ELSE inbox[m]]
  /\ UNCHANGED <<stage, open, listener, packet, knowledge, config>>

\* sleep_ms_interruptible() returns, since the time is over or running_ is
\* clear; the check of running_ that follows ends the thread or not.
Wake(n) ==
  /\ sender[n] = "sleep"
  /\ sender' = [sender EXCEPT ![n] = IF Running(n) THEN "send" ELSE "done"]
  /\ UNCHANGED <<stage, open, listener, packet, inbox, knowledge, config>>

-----------------------------------------------------------------------------
(* listener_loop(); the check of running_ belongs to the step before it. *)

Loop(n) ==
  listener' = [listener EXCEPT ![n] = IF Running(n) THEN "recv" ELSE "done"]

Receive(n, p) ==
  /\ listener[n] = "recv" /\ p \in inbox[n]
  /\ listener' = [listener EXCEPT ![n] = "handle"]
  /\ packet' = [packet EXCEPT ![n] = p]
  /\ inbox' = [inbox EXCEPT ![n] = @ \ {p}]
  /\ UNCHANGED <<stage, open, sender, knowledge, config>>

\* Mutant: the socket has no receive timeout.
NeverTimesOut(n) == FALSE

\* recvfrom() gives up after 50 ms with nothing to receive.
TimesOut(n) == inbox[n] = {}

ReceiveTimeout(n) ==
  /\ listener[n] = "recv" /\ TimesOut(n)
  /\ Loop(n)
  /\ UNCHANGED <<stage, open, sender, packet, inbox, knowledge, config>>

\* A name query: the reply, if the names fit into one packet, goes out on
\* send_sock_.
AnswerQuery(n) ==
  /\ listener[n] = "handle" /\ packet[n].kind = "query"
  /\ Loop(n)
  /\ packet' = [packet EXCEPT ![n] = NoPacket]
  /\ UNCHANGED <<stage, open, sender, inbox, knowledge, config>>

\* Our own beacon, which loopback delivers to ourselves too.
IsOwn(n, b) == b.ip = ip[n] /\ b.port \in SelfPorts(n)

\* Only a peer on the same host is a candidate for local IPC.
LocalCandidates(n, b, new) == IF b.ip = ip[n] THEN new \X {b.pid} ELSE {}

\* Mutant: the callback is called for every beacon.
NewTopicsAll(n, b) == b.topics \cap LocalTopics(n)

\* The topics of a beacon for which its address is new in table_.
NewTopics(n, b) ==
  {t \in b.topics \cap LocalTopics(n) : <<t, b.ip, b.port>> \notin table[n]}

\* A beacon: every topic is noted; for the topics declared here the address
\* enters the table, and the callback is called when it is new there.
HandleBeacon(n) ==
  LET b == packet[n]
      new == NewTopics(n, b)
      own == IsOwn(n, b)
  IN
  /\ listener[n] = "handle" /\ b.kind = "beacon"
  /\ Loop(n)
  /\ packet' = [packet EXCEPT ![n] = NoPacket]
  /\ \/ own /\ UNCHANGED knowledge
     \/ /\ ~own
        /\ network_topics' = [network_topics EXCEPT ![n] = @ \cup b.topics]
        /\ table' = [table EXCEPT ![n] = @ \cup
                       {<<t, b.ip, b.port>> : t \in b.topics \cap LocalTopics(n)}]
        /\ peers' = [peers EXCEPT ![n] =
                       [t \in LocalTopics(n) |->
                          IF t \in new THEN Append(@[t], <<b.ip, b.port>>)
                                       ELSE @[t]]]
        /\ candidates' = [candidates EXCEPT ![n] =
                            @ \cup LocalCandidates(n, b, new)]
  /\ UNCHANGED <<stage, open, sender, inbox, config>>

-----------------------------------------------------------------------------
(* The environment: rl_topic asks for names. *)

QueryNames(n) ==
  /\ "recv" \in open[n] /\ n \in MayStop
  /\ inbox' = [inbox EXCEPT ![n] = @ \cup {Query}]
  /\ UNCHANGED <<threads, knowledge, config>>

Sender(n) == Wake(n) \/ \E to \in SUBSET Listeners(n) : SendBeacons(n, to)

Listener(n) ==
  \/ ReceiveTimeout(n) \/ AnswerQuery(n) \/ HandleBeacon(n)
  \/ \E p \in inbox[n] : Receive(n, p)

Stopper(n) == JoinSender(n) \/ JoinListener(n) \/ CloseSockets(n)

Next ==
  \E n \in Node :
    \/ Start(n) \/ StartThrows(n) \/ Stop(n)
    \/ Sender(n) \/ Listener(n) \/ Stopper(n)
    \/ QueryNames(n)

Spec == Init /\ [][Next]_vars

\* The threads are scheduled and stop() waits in join(); a listener is not
\* missed by every beacon of a sender, and what waits at its socket is
\* received in the end.
Fairness ==
  \A n \in Node :
    /\ WF_vars(Sender(n)) /\ WF_vars(Listener(n)) /\ WF_vars(Stopper(n))
    /\ SF_vars(\E to \in SUBSET Listeners(n) :
                 Listeners(n) \ {n} \subseteq to /\ SendBeacons(n, to))
    /\ \A m \in Node \ {n} : \A g \in ToSet(PortGroups[m]) :
         Encodes(g.topics) => SF_vars(Receive(n, Beacon(m, g)))

FairSpec == Spec /\ Fairness

-----------------------------------------------------------------------------
(* Properties. *)

\* What each variable may hold.
TypeOK ==
  /\ stage \in [Node -> {"new", "up", "failed", "stopping", "sender joined",
                         "joined", "closed"}]
  /\ open \in [Node -> SUBSET {"send", "recv"}]
  /\ sender \in [Node -> {"none", "send", "sleep", "done"}]
  /\ listener \in [Node -> {"none", "recv", "handle", "done"}]
  /\ \A n \in Node :
       /\ packet[n].kind \in {"none", "query", "beacon"}
       /\ (packet[n].kind # "none") <=> (listener[n] = "handle")
       /\ network_topics[n] \subseteq Topic
       /\ DOMAIN peers[n] = LocalTopics(n)

\* derive_multicast_port keeps networks apart although the kernel delivers by
\* port alone: nothing a node has learned, neither the topics it lists nor
\* the peers it sends to, comes from a node with another network_id.
Isolation ==
  \A n \in Node :
    LET same == {m \in Node \ {n} : network_id[m] = network_id[n]}
    IN /\ network_topics[n] \subseteq UNION {LocalTopics(m) : m \in same}
       /\ \A e \in table[n] : \E m \in same : e[2] = ip[m] /\ e[3] \in SelfPorts(m)

\* listener_loop and the callback: what peers_ lists for a topic is, each
\* address once, what the table holds, and never the node itself: beacons are
\* repeated for ever, and a node's own come back, one per port group.
ListedOnce ==
  \A n \in Node : \A t \in LocalTopics(n) :
    /\ \A i, j \in 1 .. Len(peers[n][t]) : peers[n][t][i] = peers[n][t][j] => i = j
    /\ ToSet(peers[n][t]) = {<<e[2], e[3]>> : e \in {x \in table[n] : x[1] = t}}
    /\ \A port \in SelfPorts(n) : <<ip[n], port>> \notin ToSet(peers[n][t])

\* stop(): both threads use send_sock_ (the listener answers queries on it),
\* so no socket is closed, and its number free for another file, before both
\* threads are past their last use; none stays open when stop() has returned.
SocketsOutliveThreads ==
  \A n \in Node :
    /\ stage[n] = "closed" => open[n] = {}
    /\ sender[n] = "send" => "send" \in open[n]
    /\ listener[n] = "recv" => "recv" \in open[n]
    /\ packet[n].kind = "query" => "send" \in open[n]

\* Two nodes that keep running in one network find each other for every topic
\* they share, whatever the order they start in and whichever beacons are
\* lost, as long as the group the topic is in fits a beacon.
Discovery ==
  \A n \in Node, m \in Node : \A g \in ToSet(PortGroups[m]) : \A t \in g.topics :
    (n # m /\ t \in LocalTopics(n) /\ Encodes(g.topics))
    => ((<>[](/\ stage[n] = "up" /\ stage[m] = "up"
              /\ network_id[n] = network_id[m]))
        => <>(<<t, ip[m], g.port>> \in table[n]))

\* stop() returns: the sender's sleep and the listener's wait both end.
StopReturns ==
  \A n \in Node : (stage[n] = "stopping") ~> (stage[n] = "closed")
=============================================================================
