---------------------- MODULE MulticastDiscoveryProofs ----------------------
(***************************************************************************)
(* Proofs about MulticastDiscovery, for every set of nodes, every          *)
(* configuration and every list of port groups.                            *)
(*                                                                         *)
(* Two arguments, each with its own inductive invariant.  ThreadInv: which *)
(* threads may still run at each stage of stop().  HeardInv: all that      *)
(* waits at a socket, is being handled, or was learned, is a beacon of a   *)
(* node on the same multicast port; that this is a node of the same        *)
(* network is a fact about derive_multicast_port alone.                    *)
(***************************************************************************)
EXTENDS MulticastDiscovery, TLAPS, SequenceTheorems

\* The nodes whose beacons the kernel delivers to n.
SamePort(n) ==
  {m \in Node : derive_multicast_port(network_id[m])
                  = derive_multicast_port(network_id[n])}

\* A beacon that n may receive.
Heard(n, b) ==
  \E m \in SamePort(n) : \E g \in ToSet(PortGroups[m]) : b = Beacon(m, g)

\* The variables that are updated node by node are functions of the nodes.
FunctionInv ==
  /\ stage = [n \in Node |-> stage[n]]
  /\ open = [n \in Node |-> open[n]]
  /\ sender = [n \in Node |-> sender[n]]
  /\ listener = [n \in Node |-> listener[n]]
  /\ packet = [n \in Node |-> packet[n]]
  /\ inbox = [n \in Node |-> inbox[n]]
  /\ network_topics = [n \in Node |-> network_topics[n]]
  /\ table = [n \in Node |-> table[n]]
  /\ peers = [n \in Node |-> peers[n]]

\* A thread that has not ended keeps stop() from passing its join, and the
\* sockets from being closed; what it handles is what it received.
ThreadInv ==
  \A n \in Node :
    /\ stage[n] \in {"new", "up", "failed", "stopping", "sender joined",
                     "joined", "closed"}
    /\ stage[n] \in {"new", "failed"}
         => sender[n] = "none" /\ listener[n] = "none"
    /\ sender[n] \notin {"none", "done"}
         => stage[n] \in {"up", "stopping"} /\ open[n] = {"send", "recv"}
    /\ listener[n] \notin {"none", "done"}
         => /\ stage[n] \in {"up", "stopping", "sender joined"}
            /\ open[n] = {"send", "recv"}
    /\ stage[n] = "closed" => open[n] = {}
    /\ listener[n] # "handle" => packet[n] = NoPacket

\* Where packets come from.
HeardInv ==
  \A n \in Node :
    /\ \A p \in inbox[n] : p = Query \/ Heard(n, p)
    /\ packet[n] \in {NoPacket, Query} \/ Heard(n, packet[n])

\* Where knowledge comes from: another node on the same port.
LearnedInv ==
  \A n \in Node :
    /\ \A t \in network_topics[n] :
         \E m \in SamePort(n) \ {n} : t \in LocalTopics(m)
    /\ \A e \in table[n] :
         \E m \in SamePort(n) \ {n} : e[2] = ip[m] /\ e[3] \in SelfPorts(m)

\* The table holds triples, and never the node's own address.
Entry(n, e) ==
  /\ e = <<e[1], e[2], e[3]>>
  /\ ~(e[2] = ip[n] /\ e[3] \in SelfPorts(n))

\* peers_ lists for a topic each of its addresses once.
Listed(n, t) ==
  /\ peers[n][t] \in Seq({<<e[2], e[3]>> : e \in table[n]})
  /\ \A i, j \in 1 .. Len(peers[n][t]) : peers[n][t][i] = peers[n][t][j] => i = j
  /\ \A a : (\E i \in 1 .. Len(peers[n][t]) : peers[n][t][i] = a)
              <=> (\E e \in table[n] : e[1] = t /\ a = <<e[2], e[3]>>)

\* The table and the lists agree.
ListInv ==
  \A n \in Node :
    /\ \A e \in table[n] : Entry(n, e)
    /\ peers[n] = [t \in LocalTopics(n) |-> peers[n][t]]
    /\ \A t \in LocalTopics(n) : Listed(n, t)

-----------------------------------------------------------------------------
\* A step of any thread of any node leaves the configuration alone.
LEMMA ConfigNext == [Next]_vars => UNCHANGED config
BY DEF Next, vars, config, Start, StartThrows, Stop, Sender, Listener,
       Stopper, Wake, SendBeacons, ReceiveTimeout, AnswerQuery, HandleBeacon,
       Receive, JoinSender, JoinListener, CloseSockets, Close, QueryNames

-----------------------------------------------------------------------------
\* At the start no thread runs and no socket is open.
LEMMA ThreadInit == Init => FunctionInv /\ ThreadInv
BY DEF Init, FunctionInv, ThreadInv

\* Each step updates one node's entry, or adds to the inboxes.
LEMMA FunctionNext == FunctionInv /\ [Next]_vars => FunctionInv'
<1> SUFFICES ASSUME FunctionInv, [Next]_vars
             PROVE  FunctionInv'
    OBVIOUS
<1> USE DEF FunctionInv, knowledge, config, threads
<1>1. ASSUME NEW n \in Node, Start(n)
      PROVE  FunctionInv'
    BY <1>1 DEF Start
<1>2. ASSUME NEW n \in Node, StartThrows(n)
      PROVE  FunctionInv'
    BY <1>2 DEF StartThrows
<1>3. ASSUME NEW n \in Node, Stop(n)
      PROVE  FunctionInv'
    BY <1>3 DEF Stop, Running
<1>4. ASSUME NEW n \in Node, JoinSender(n)
      PROVE  FunctionInv'
    BY <1>4 DEF JoinSender
<1>5. ASSUME NEW n \in Node, JoinListener(n)
      PROVE  FunctionInv'
    BY <1>5 DEF JoinListener
<1>6. ASSUME NEW n \in Node, CloseSockets(n)
      PROVE  FunctionInv'
    BY <1>6 DEF CloseSockets, Close
<1>7. ASSUME NEW n \in Node, NEW to \in SUBSET Listeners(n),
             SendBeacons(n, to)
      PROVE  FunctionInv'
    BY <1>7 DEF SendBeacons
<1>8. ASSUME NEW n \in Node, Wake(n)
      PROVE  FunctionInv'
    BY <1>8 DEF Wake, Running
<1>9. ASSUME NEW n \in Node, NEW p \in inbox[n], Receive(n, p)
      PROVE  FunctionInv'
    BY <1>9 DEF Receive
<1>10. ASSUME NEW n \in Node, ReceiveTimeout(n)
      PROVE  FunctionInv'
    BY <1>10 DEF ReceiveTimeout, Loop, Running
<1>11. ASSUME NEW n \in Node, AnswerQuery(n)
      PROVE  FunctionInv'
    BY <1>11 DEF AnswerQuery, Loop, Running
<1>12. ASSUME NEW n \in Node, HandleBeacon(n)
      PROVE  FunctionInv'
    BY <1>12 DEF HandleBeacon, Loop, Running
<1>13. ASSUME NEW n \in Node, QueryNames(n)
      PROVE  FunctionInv'
    BY <1>13 DEF QueryNames
<1>14. CASE UNCHANGED vars
    BY <1>14 DEF vars
<1> QED
    BY <1>1, <1>2, <1>3, <1>4, <1>5, <1>6, <1>7, <1>8, <1>9, <1>10, <1>11,
       <1>12, <1>13, <1>14
       DEF Next, Sender, Listener, Stopper

\* stop() waits for the sender and then for the listener, and closes the
\* sockets after both.
LEMMA ThreadNext == FunctionInv /\ ThreadInv /\ [Next]_vars => ThreadInv'
<1> SUFFICES ASSUME FunctionInv, ThreadInv, [Next]_vars
             PROVE  ThreadInv'
    OBVIOUS
<1> USE DEF FunctionInv, ThreadInv, knowledge, config, threads
<1>1. ASSUME NEW n \in Node, Start(n)
      PROVE  ThreadInv'
    BY <1>1 DEF Start
<1>2. ASSUME NEW n \in Node, StartThrows(n)
      PROVE  ThreadInv'
    BY <1>2 DEF StartThrows
<1>3. ASSUME NEW n \in Node, Stop(n)
      PROVE  ThreadInv'
    BY <1>3 DEF Stop, Running
<1>4. ASSUME NEW n \in Node, JoinSender(n)
      PROVE  ThreadInv'
    BY <1>4 DEF JoinSender
<1>5. ASSUME NEW n \in Node, JoinListener(n)
      PROVE  ThreadInv'
    BY <1>5 DEF JoinListener
<1>6. ASSUME NEW n \in Node, CloseSockets(n)
      PROVE  ThreadInv'
    BY <1>6 DEF CloseSockets, Close
<1>7. ASSUME NEW n \in Node, NEW to \in SUBSET Listeners(n),
             SendBeacons(n, to)
      PROVE  ThreadInv'
    BY <1>7 DEF SendBeacons
<1>8. ASSUME NEW n \in Node, Wake(n)
      PROVE  ThreadInv'
    BY <1>8 DEF Wake, Running
<1>9. ASSUME NEW n \in Node, NEW p \in inbox[n], Receive(n, p)
      PROVE  ThreadInv'
    BY <1>9 DEF Receive
<1>10. ASSUME NEW n \in Node, ReceiveTimeout(n)
      PROVE  ThreadInv'
    BY <1>10 DEF ReceiveTimeout, Loop, Running
<1>11. ASSUME NEW n \in Node, AnswerQuery(n)
      PROVE  ThreadInv'
    BY <1>11 DEF AnswerQuery, Loop, Running
<1>12. ASSUME NEW n \in Node, HandleBeacon(n)
      PROVE  ThreadInv'
    BY <1>12 DEF HandleBeacon, Loop, Running
<1>13. ASSUME NEW n \in Node, QueryNames(n)
      PROVE  ThreadInv'
    BY <1>13 DEF QueryNames
<1>14. CASE UNCHANGED vars
    BY <1>14 DEF vars
<1> QED
    BY <1>1, <1>2, <1>3, <1>4, <1>5, <1>6, <1>7, <1>8, <1>9, <1>10, <1>11,
       <1>12, <1>13, <1>14
       DEF Next, Sender, Listener, Stopper

\* No socket is closed before both threads are past their last use of it,
\* and none stays open when stop() has returned.
THEOREM SocketsOutliveThreadsHolds == Spec => []SocketsOutliveThreads
<1>1. FunctionInv /\ ThreadInv => SocketsOutliveThreads
    <2> SUFFICES ASSUME ThreadInv, NEW n \in Node
                 PROVE  /\ stage[n] = "closed" => open[n] = {}
                        /\ sender[n] = "send" => "send" \in open[n]
                        /\ listener[n] = "recv" => "recv" \in open[n]
                        /\ packet[n].kind = "query" => "send" \in open[n]
        BY DEF SocketsOutliveThreads
    <2>1. packet[n] = NoPacket => packet[n].kind = "none"
        BY DEF NoPacket
    <2>2. packet[n].kind = "query" => listener[n] = "handle"
        BY <2>1 DEF ThreadInv
    <2> QED
        BY <2>2 DEF ThreadInv
<1> QED
    BY <1>1, ThreadInit, FunctionNext, ThreadNext, PTL DEF Spec

-----------------------------------------------------------------------------
\* At the start nothing was sent, received or learned.
LEMMA HeardInit == Init => HeardInv /\ LearnedInv
BY DEF Init, HeardInv, LearnedInv

\* What is in the air is a beacon of the node that sent it.
LEMMA SentAreHeard ==
    ASSUME NEW n \in Node, NEW m \in Listeners(n), NEW b \in Beacons(n)
    PROVE  m \in Node /\ Heard(m, b)
BY DEF Listeners, Beacons, Heard, SamePort

\* Every beacon stays with the node it came from.
LEMMA HeardKept ==
    ASSUME UNCHANGED config, NEW n, NEW b, Heard(n, b)
    PROVE  Heard(n, b)'
BY DEF config, Heard, SamePort, Beacon

\* A beacon reaches only sockets bound to the port it was sent to.
LEMMA HeardNext == FunctionInv /\ HeardInv /\ [Next]_vars => HeardInv'
<1> SUFFICES ASSUME FunctionInv, HeardInv, [Next]_vars
             PROVE  HeardInv'
    OBVIOUS
<1>a. \A m, b : Heard(m, b) => Heard(m, b)'
    BY ConfigNext, HeardKept
<1>b. NoPacket' = NoPacket /\ Query' = Query
    BY DEF NoPacket, Query
<1> USE <1>a, <1>b DEF HeardInv, FunctionInv, knowledge, config, threads
<1>1. ASSUME NEW n \in Node, Start(n)
      PROVE  HeardInv'
    BY <1>1 DEF Start
<1>2. ASSUME NEW n \in Node, StartThrows(n)
      PROVE  HeardInv'
    BY <1>2 DEF StartThrows
<1>3. ASSUME NEW n \in Node, Stop(n)
      PROVE  HeardInv'
    BY <1>3 DEF Stop, Running
<1>4. ASSUME NEW n \in Node, JoinSender(n)
      PROVE  HeardInv'
    BY <1>4 DEF JoinSender
<1>5. ASSUME NEW n \in Node, JoinListener(n)
      PROVE  HeardInv'
    BY <1>5 DEF JoinListener
<1>6. ASSUME NEW n \in Node, CloseSockets(n)
      PROVE  HeardInv'
    BY <1>6 DEF CloseSockets, Close
<1>7. ASSUME NEW n \in Node, NEW to \in SUBSET Listeners(n),
             SendBeacons(n, to)
      PROVE  HeardInv'
    <2>1. \A m \in to : \A b \in Beacons(n) : Heard(m, b)
        BY <1>7, SentAreHeard
    <2> QED
        BY <1>7, <2>1 DEF SendBeacons
<1>8. ASSUME NEW n \in Node, Wake(n)
      PROVE  HeardInv'
    BY <1>8 DEF Wake, Running
<1>9. ASSUME NEW n \in Node, NEW p \in inbox[n], Receive(n, p)
      PROVE  HeardInv'
    BY <1>9 DEF Receive
<1>10. ASSUME NEW n \in Node, ReceiveTimeout(n)
      PROVE  HeardInv'
    BY <1>10 DEF ReceiveTimeout, Loop, Running
<1>11. ASSUME NEW n \in Node, AnswerQuery(n)
      PROVE  HeardInv'
    BY <1>11 DEF AnswerQuery, Loop, Running
<1>12. ASSUME NEW n \in Node, HandleBeacon(n)
      PROVE  HeardInv'
    BY <1>12 DEF HandleBeacon, Loop, Running
<1>13. ASSUME NEW n \in Node, QueryNames(n)
      PROVE  HeardInv'
    BY <1>13 DEF QueryNames
<1>14. CASE UNCHANGED vars
    BY <1>14 DEF vars
<1> QED
    BY <1>1, <1>2, <1>3, <1>4, <1>5, <1>6, <1>7, <1>8, <1>9, <1>10, <1>11,
       <1>12, <1>13, <1>14
       DEF Next, Sender, Listener, Stopper

\* The beacon being handled is that of another node on the same port, unless
\* it is our own.
LEMMA HandledIsHeard ==
    ASSUME HeardInv, NEW n \in Node, packet[n].kind = "beacon",
           ~IsOwn(n, packet[n])
    PROVE  \E m \in SamePort(n) \ {n} :
               /\ packet[n].ip = ip[m]
               /\ packet[n].port \in SelfPorts(m)
               /\ packet[n].topics \subseteq LocalTopics(m)
<1>1. packet[n] \notin {NoPacket, Query}
    BY DEF NoPacket, Query
<1>2. PICK m \in SamePort(n) : \E g \in ToSet(PortGroups[m]) :
                                  packet[n] = Beacon(m, g)
    BY <1>1 DEF HeardInv, Heard
<1>3. PICK g \in ToSet(PortGroups[m]) : packet[n] = Beacon(m, g)
    BY <1>2
<1>4. /\ packet[n].ip = ip[m]
      /\ packet[n].port = g.port
      /\ packet[n].topics = g.topics
    BY <1>3 DEF Beacon
<1>5. g.port \in SelfPorts(m) /\ g.topics \subseteq LocalTopics(m)
    BY DEF SelfPorts, LocalTopics
<1>6. m # n
    BY <1>4, <1>5 DEF IsOwn
<1> QED
    BY <1>4, <1>5, <1>6

\* What a node knows it knows from others on its port.
LEMMA LearnedNext ==
    FunctionInv /\ HeardInv /\ LearnedInv /\ [Next]_vars => LearnedInv'
<1> SUFFICES ASSUME FunctionInv, HeardInv, LearnedInv, [Next]_vars
             PROVE  LearnedInv'
    OBVIOUS
<1>a. ip' = ip /\ network_id' = network_id
    BY ConfigNext DEF config
<1>b. \A n \in Node : SamePort(n)' = SamePort(n)
    BY <1>a DEF SamePort
<1>c. ASSUME UNCHANGED <<network_topics, table>> PROVE LearnedInv'
    BY <1>a, <1>b, <1>c DEF LearnedInv
<1> USE DEF knowledge
<1>1. ASSUME NEW n \in Node, Start(n)
      PROVE  LearnedInv'
    BY <1>c, <1>1 DEF Start
<1>2. ASSUME NEW n \in Node, StartThrows(n)
      PROVE  LearnedInv'
    BY <1>c, <1>2 DEF StartThrows
<1>3. ASSUME NEW n \in Node, Stop(n)
      PROVE  LearnedInv'
    BY <1>c, <1>3 DEF Stop, Running
<1>4. ASSUME NEW n \in Node, JoinSender(n)
      PROVE  LearnedInv'
    BY <1>c, <1>4 DEF JoinSender
<1>5. ASSUME NEW n \in Node, JoinListener(n)
      PROVE  LearnedInv'
    BY <1>c, <1>5 DEF JoinListener
<1>6. ASSUME NEW n \in Node, CloseSockets(n)
      PROVE  LearnedInv'
    BY <1>c, <1>6 DEF CloseSockets, Close
<1>7. ASSUME NEW n \in Node, NEW to \in SUBSET Listeners(n),
             SendBeacons(n, to)
      PROVE  LearnedInv'
    BY <1>c, <1>7 DEF SendBeacons
<1>8. ASSUME NEW n \in Node, Wake(n)
      PROVE  LearnedInv'
    BY <1>c, <1>8 DEF Wake, Running
<1>9. ASSUME NEW n \in Node, NEW p \in inbox[n], Receive(n, p)
      PROVE  LearnedInv'
    BY <1>c, <1>9 DEF Receive
<1>10. ASSUME NEW n \in Node, ReceiveTimeout(n)
      PROVE  LearnedInv'
    BY <1>c, <1>10 DEF ReceiveTimeout, Loop, Running
<1>11. ASSUME NEW n \in Node, AnswerQuery(n)
      PROVE  LearnedInv'
    BY <1>c, <1>11 DEF AnswerQuery, Loop, Running
<1>12. ASSUME NEW n \in Node, HandleBeacon(n)
      PROVE  LearnedInv'
    <2> DEFINE b == packet[n]
    <2>1. CASE IsOwn(n, b)
        BY <1>c, <1>12, <2>1 DEF HandleBeacon
    <2>2. CASE ~IsOwn(n, b)
        <3>1. b.kind = "beacon"
            BY <1>12 DEF HandleBeacon
        <3>2. PICK m \in SamePort(n) \ {n} :
                     /\ b.ip = ip[m]
                     /\ b.port \in SelfPorts(m)
                     /\ b.topics \subseteq LocalTopics(m)
            BY <2>2, <3>1, HandledIsHeard
        <3>3. network_topics' = [network_topics EXCEPT ![n] = @ \cup b.topics]
            BY <1>12, <2>2 DEF HandleBeacon
        <3>4. table' = [table EXCEPT ![n] = @ \cup
                 {<<t, b.ip, b.port>> : t \in b.topics \cap LocalTopics(n)}]
            BY <1>12, <2>2 DEF HandleBeacon
        <3> HIDE DEF b
        <3>5. ASSUME NEW k \in Node, NEW t \in network_topics'[k]
              PROVE  \E x \in SamePort(k) \ {k} : t \in LocalTopics(x)
            BY <3>2, <3>3, <3>5 DEF LearnedInv, FunctionInv
        <3>6. ASSUME NEW k \in Node, NEW e \in table'[k]
              PROVE  \E x \in SamePort(k) \ {k} :
                         e[2] = ip[x] /\ e[3] \in SelfPorts(x)
            <4>1. e \in table[k] \/ (k = n /\ \E t : e = <<t, b.ip, b.port>>)
                BY <3>4, <3>6 DEF FunctionInv
            <4> QED
                BY <3>2, <4>1 DEF LearnedInv
        <3> QED
            BY <1>a, <1>b, <3>5, <3>6 DEF LearnedInv
    <2> QED
        BY <2>1, <2>2
<1>13. ASSUME NEW n \in Node, QueryNames(n)
      PROVE  LearnedInv'
    BY <1>c, <1>13 DEF QueryNames
<1>14. CASE UNCHANGED vars
    BY <1>c, <1>14 DEF vars
<1> QED
    BY <1>1, <1>2, <1>3, <1>4, <1>5, <1>6, <1>7, <1>8, <1>9, <1>10, <1>11,
       <1>12, <1>13, <1>14
       DEF Next, Sender, Listener, Stopper

\* The remainder and the offset of derive_multicast_port, for any range.
LEMMA OffsetInjective ==
    ASSUME NEW k \in Nat, k > 1, NEW d \in Nat, NEW a \in 0 .. k, NEW b \in 0 .. k,
           (IF a = 0 THEN d ELSE d + (a % k) + 1)
             = (IF b = 0 THEN d ELSE d + (b % k) + 1)
    PROVE  a = b
<1>1. \A i \in 1 .. k : i % k = IF i = k THEN 0 ELSE i
    BY SMT
<1> QED
    BY <1>1

\* The documented limit is 65535 - kDefaultMulticastPort.
LEMMA RangeType ==
    kDefaultMulticastPort \in Nat /\ kRange \in Nat /\ kRange > 1
<1>1. kDefaultMulticastPort = 7400
    BY DEF kDefaultMulticastPort
<1>2. 65535 - 7400 \in Nat /\ 65535 - 7400 > 1
    BY SMT
<1> QED
    BY <1>1, <1>2 DEF kRange

\* Up to that limit no two network ids share a port, the default network's
\* included.
LEMMA PortInjective ==
    ASSUME NEW a \in 0 .. kRange, NEW b \in 0 .. kRange,
           derive_multicast_port(a) = derive_multicast_port(b)
    PROVE  a = b
BY RangeType, OffsetInjective DEF derive_multicast_port

\* derive_multicast_port keeps networks apart, for every set of nodes, as
\* long as their network ids are below the limit its comment states.
THEOREM IsolationHolds ==
    ASSUME \A s \in Settings : s.network_id \in [Node -> 0 .. kRange]
    PROVE  Spec => []Isolation
<1> DEFINE InRange == network_id \in [Node -> 0 .. kRange]
<1>1. Init => InRange /\ FunctionInv /\ HeardInv /\ LearnedInv
    <2>1. Init => InRange
        BY DEF Init
    <2> QED
        BY <2>1, ThreadInit, HeardInit
<1>2. InRange /\ [Next]_vars => InRange'
    BY ConfigNext DEF config
<1>3. InRange /\ LearnedInv => Isolation
    <2> SUFFICES ASSUME InRange, LearnedInv, NEW n \in Node
                 PROVE  LET same == {m \in Node \ {n} :
                                       network_id[m] = network_id[n]}
                        IN /\ network_topics[n]
                                 \subseteq UNION {LocalTopics(m) : m \in same}
                           /\ \A e \in table[n] : \E m \in same :
                                 e[2] = ip[m] /\ e[3] \in SelfPorts(m)
        BY DEF Isolation
    <2>1. \A m \in SamePort(n) : m \in Node /\ network_id[m] = network_id[n]
        BY PortInjective DEF SamePort
    <2> QED
        BY <2>1 DEF LearnedInv
<1> QED
    BY <1>1, <1>2, <1>3, FunctionNext, HeardNext, LearnedNext, PTL DEF Spec

-----------------------------------------------------------------------------
\* At the start the table and the lists are empty.
LEMMA ListInit == Init => ListInv
<1> SUFFICES ASSUME Init, NEW n \in Node
             PROVE  /\ \A e \in table[n] : Entry(n, e)
                    /\ peers[n] = [t \in LocalTopics(n) |-> peers[n][t]]
                    /\ \A t \in LocalTopics(n) : Listed(n, t)
    BY DEF ListInv
<1>1. table[n] = {} /\ peers[n] = [t \in LocalTopics(n) |-> << >>]
    BY DEF Init
<1>2. \A t \in LocalTopics(n) : Listed(n, t)
    BY <1>1 DEF Listed
<1> QED
    BY <1>1, <1>2

\* A list keeps its type when the set it draws from grows.
LEMMA SeqGrows ==
    ASSUME NEW S, NEW T, S \subseteq T, NEW s \in Seq(S)
    PROVE  s \in Seq(T)
<1>1. s \in [1 .. Len(s) -> T]
    BY LenProperties
<1> QED
    BY <1>1, SeqDef, LenProperties

\* Appending an address that is not in the list keeps it free of repetitions
\* and adds this address only.
LEMMA AppendFresh ==
    ASSUME NEW T, NEW s \in Seq(T), NEW x \in T,
           \A i, j \in 1 .. Len(s) : s[i] = s[j] => i = j,
           \A i \in 1 .. Len(s) : s[i] # x
    PROVE  /\ Append(s, x) \in Seq(T)
           /\ \A i, j \in 1 .. Len(Append(s, x)) :
                Append(s, x)[i] = Append(s, x)[j] => i = j
           /\ \A a : (\E i \in 1 .. Len(Append(s, x)) : Append(s, x)[i] = a)
                     <=> (a = x \/ \E i \in 1 .. Len(s) : s[i] = a)
<1> DEFINE q == Append(s, x)
<1>1. /\ q \in Seq(T)
      /\ Len(s) \in Nat
      /\ Len(q) = Len(s) + 1
      /\ \A i \in 1 .. Len(s) : q[i] = s[i]
      /\ q[Len(s) + 1] = x
    BY AppendProperties, LenProperties
<1> HIDE DEF q
<1>2. \A i \in 1 .. Len(q) : i \in 1 .. Len(s) \/ i = Len(s) + 1
    BY <1>1
<1>3. \A i \in 1 .. Len(s) : i \in 1 .. Len(q)
    BY <1>1
<1>4. Len(s) + 1 \in 1 .. Len(q)
    BY <1>1
<1>5. \A i, j \in 1 .. Len(q) : q[i] = q[j] => i = j
    BY <1>1, <1>2
<1>6. ASSUME NEW a
      PROVE  (\E i \in 1 .. Len(q) : q[i] = a)
                <=> (a = x \/ \E i \in 1 .. Len(s) : s[i] = a)
    BY <1>1, <1>2, <1>3, <1>4
<1> QED
    BY <1>1, <1>5, <1>6 DEF q

\* A node's list depends on its own entries only.
LEMMA ListedKept ==
    ASSUME NEW n, NEW t, Listed(n, t),
           table'[n] = table[n], peers'[n] = peers[n]
    PROVE  Listed(n, t)'
<1> DEFINE F(T, p) ==
              /\ p[t] \in Seq({<<e[2], e[3]>> : e \in T})
              /\ \A i, j \in 1 .. Len(p[t]) : p[t][i] = p[t][j] => i = j
              /\ \A a : (\E i \in 1 .. Len(p[t]) : p[t][i] = a)
                        <=> (\E e \in T : e[1] = t /\ a = <<e[2], e[3]>>)
<1>1. F(table[n], peers[n])
    BY DEF Listed
<1>2. F(table'[n], peers'[n]) => Listed(n, t)'
    BY DEF Listed
<1> HIDE DEF F
<1> QED
    BY <1>1, <1>2

\* A beacon that is not our own enters the table for the topics declared
\* here, and the callback appends its address exactly to the lists that did
\* not have it.
LEMMA NewAddressLists ==
    ASSUME FunctionInv, ListInv, NEW n \in Node, HandleBeacon(n), UNCHANGED config,
           ~IsOwn(n, packet[n])
    PROVE  ListInv'
<1> DEFINE b == packet[n]
           x == <<b.ip, b.port>>
           new == NewTopics(n, b)
           known == b.topics \cap LocalTopics(n)
<1>1. table' = [table EXCEPT ![n] = @ \cup {<<t, b.ip, b.port>> : t \in known}]
    BY DEF HandleBeacon
<1>2. peers' = [peers EXCEPT ![n] =
                  [t \in LocalTopics(n) |->
                     IF t \in new THEN Append(@[t], x) ELSE @[t]]]
    BY DEF HandleBeacon
<1>3. ip' = ip
    BY DEF config
<1>4. ~(b.ip = ip[n] /\ b.port \in SelfPorts(n))
    BY DEF IsOwn
<1>5. new = {t \in known : <<t, b.ip, b.port>> \notin table[n]}
    BY DEF NewTopics
<1> HIDE DEF b, new, known
<1>6. table'[n] = table[n] \cup {<<t, b.ip, b.port>> : t \in known}
    BY <1>1 DEF FunctionInv
<1>7. peers'[n] = [t \in LocalTopics(n) |->
                     IF t \in new THEN Append(peers[n][t], x) ELSE peers[n][t]]
    BY <1>2 DEF FunctionInv
<1>8. \A k \in Node : k # n => table'[k] = table[k] /\ peers'[k] = peers[k]
    BY <1>1, <1>2 DEF FunctionInv
<1>9. ASSUME NEW k \in Node, NEW e \in table'[k]
      PROVE  Entry(k, e)'
    <2>1. CASE e \in table[k]
        BY <1>3, <2>1 DEF ListInv, Entry
    <2>2. CASE e \notin table[k]
        <3>1. PICK t : k = n /\ e = <<t, b.ip, b.port>>
            BY <1>6, <1>8, <1>9, <2>2
        <3>2. e[1] = t /\ e[2] = b.ip /\ e[3] = b.port
            BY <3>1
        <3> QED
            BY <1>3, <1>4, <3>1, <3>2 DEF Entry
    <2> QED
        BY <2>1, <2>2
<1>10. ASSUME NEW t \in LocalTopics(n)
       PROVE  Listed(n, t)'
    <2> DEFINE s == peers[n][t]
               Old == {<<e[2], e[3]>> : e \in table[n]}
               New == {<<e[2], e[3]>> : e \in table'[n]}
               In(T, a) == \E e \in T : e[1] = t /\ a = <<e[2], e[3]>>
    <2>1. Old \subseteq New
        BY <1>6
    <2>2. /\ s \in Seq(Old)
          /\ \A i, j \in 1 .. Len(s) : s[i] = s[j] => i = j
          /\ \A a : (\E i \in 1 .. Len(s) : s[i] = a) <=> In(table[n], a)
        BY DEF ListInv, Listed
    <2>3. s \in Seq(New)
        BY <2>1, <2>2, SeqGrows
    <2>4. SUFFICES /\ peers'[n][t] \in Seq(New)
                   /\ \A i, j \in 1 .. Len(peers'[n][t]) :
                        peers'[n][t][i] = peers'[n][t][j] => i = j
                   /\ \A a : (\E i \in 1 .. Len(peers'[n][t]) : peers'[n][t][i] = a)
                             <=> In(table'[n], a)
        BY DEF Listed
    <2>5. \A e \in table[n] : In(table'[n], <<e[2], e[3]>>) \/ e[1] # t
        BY <1>6
    <2>6. CASE t \in new
        <3>1. /\ <<t, b.ip, b.port>> \in table'[n]
              /\ <<t, b.ip, b.port>> \notin table[n]
            BY <1>5, <1>6, <2>6
        <3>2. x \in New /\ In(table'[n], x)
            <4> DEFINE y == <<t, b.ip, b.port>>
            <4>1. y \in table'[n] /\ y[1] = t /\ x = <<y[2], y[3]>>
                BY <3>1
            <4> QED
                BY <4>1
        <3>3. ~In(table[n], x)
            <4> SUFFICES ASSUME NEW e \in table[n], e[1] = t, x = <<e[2], e[3]>>
                         PROVE  FALSE
                OBVIOUS
            <4>1. e[2] = b.ip /\ e[3] = b.port
                OBVIOUS
            <4>2. e = <<e[1], e[2], e[3]>>
                BY DEF ListInv, Entry
            <4> QED
                BY <3>1, <4>1, <4>2
        <3>4. \A i \in 1 .. Len(s) : s[i] # x
            BY <2>2, <3>3
        <3>5. peers'[n][t] = Append(s, x)
            BY <1>7, <2>6
        <3>6. ASSUME NEW a
              PROVE  (a = x \/ In(table[n], a)) <=> In(table'[n], a)
            <4>1. ASSUME NEW e \in table'[n], e[1] = t, a = <<e[2], e[3]>>
                  PROVE  a = x \/ In(table[n], a)
                <5>1. CASE e \in table[n]
                    BY <4>1, <5>1
                <5>2. CASE e \notin table[n]
                    <6>1. PICK u : e = <<u, b.ip, b.port>>
                        BY <1>6, <5>2
                    <6> QED
                        BY <4>1, <6>1
                <5> QED
                    BY <5>1, <5>2
            <4>2. In(table[n], a) => In(table'[n], a)
                BY <1>6
            <4> QED
                BY <3>2, <4>1, <4>2
        <3> HIDE DEF s, x, In, New, Old
        <3> QED
            BY <2>2, <2>3, <3>2, <3>4, <3>5, <3>6, AppendFresh
    <2>7. CASE t \notin new
        <3>1. peers'[n][t] = s
            BY <1>7, <2>7
        <3>2. t \in known => <<t, b.ip, b.port>> \in table[n]
            BY <1>5, <2>7
        <3>3. ASSUME NEW a
              PROVE  In(table[n], a) <=> In(table'[n], a)
            <4>1. ASSUME NEW e \in table'[n], e[1] = t, a = <<e[2], e[3]>>
                  PROVE  In(table[n], a)
                <5>1. CASE e \in table[n]
                    BY <4>1, <5>1
                <5>2. CASE e \notin table[n]
                    <6>1. PICK u \in known : e = <<u, b.ip, b.port>>
                        BY <1>6, <5>2
                    <6>2. e[1] = u
                        BY <6>1
                    <6> QED
                        BY <3>2, <4>1, <5>2, <6>1, <6>2
                <5> QED
                    BY <5>1, <5>2
            <4> QED
                BY <1>6, <4>1
        <3> HIDE DEF s, In, New, Old
        <3> QED
            BY <2>2, <2>3, <3>1, <3>3
    <2> QED
        BY <2>6, <2>7
<1>11. peers'[n] = [t \in LocalTopics(n) |-> peers'[n][t]]
    BY <1>7
<1>12. ASSUME NEW k \in Node, k # n, NEW t \in LocalTopics(k)
       PROVE  Listed(k, t)'
    BY <1>8, <1>12, ListedKept DEF ListInv
<1>13. \A k \in Node : peers'[k] = [t \in LocalTopics(k) |-> peers'[k][t]]
    BY <1>8, <1>11 DEF ListInv
<1> QED
    BY <1>9, <1>10, <1>12, <1>13 DEF ListInv

\* Nothing that leaves the table and the lists alone disturbs them.
LEMMA ListsKept ==
    ASSUME ListInv, UNCHANGED <<ip, table, peers>>
    PROVE  ListInv'
<1>1. \A n \in Node : \A e \in table[n] : Entry(n, e)'
    BY DEF ListInv, Entry
<1>2. \A n \in Node : \A t \in LocalTopics(n) : Listed(n, t)'
    BY ListedKept DEF ListInv
<1> QED
    BY <1>1, <1>2 DEF ListInv

\* Only the handling of a beacon touches the table and the lists.
LEMMA ListNext == FunctionInv /\ ListInv /\ [Next]_vars => ListInv'
<1> SUFFICES ASSUME FunctionInv, ListInv, [Next]_vars
             PROVE  ListInv'
    OBVIOUS
<1>a. UNCHANGED config /\ ip' = ip
    BY ConfigNext DEF config
<1>b. ASSUME UNCHANGED <<table, peers>> PROVE ListInv'
    BY <1>a, <1>b, ListsKept
<1> USE DEF knowledge
<1>1. ASSUME NEW n \in Node, Start(n)
      PROVE  ListInv'
    BY <1>b, <1>1 DEF Start
<1>2. ASSUME NEW n \in Node, StartThrows(n)
      PROVE  ListInv'
    BY <1>b, <1>2 DEF StartThrows
<1>3. ASSUME NEW n \in Node, Stop(n)
      PROVE  ListInv'
    BY <1>b, <1>3 DEF Stop, Running
<1>4. ASSUME NEW n \in Node, JoinSender(n)
      PROVE  ListInv'
    BY <1>b, <1>4 DEF JoinSender
<1>5. ASSUME NEW n \in Node, JoinListener(n)
      PROVE  ListInv'
    BY <1>b, <1>5 DEF JoinListener
<1>6. ASSUME NEW n \in Node, CloseSockets(n)
      PROVE  ListInv'
    BY <1>b, <1>6 DEF CloseSockets, Close
<1>7. ASSUME NEW n \in Node, NEW to \in SUBSET Listeners(n),
             SendBeacons(n, to)
      PROVE  ListInv'
    BY <1>b, <1>7 DEF SendBeacons
<1>8. ASSUME NEW n \in Node, Wake(n)
      PROVE  ListInv'
    BY <1>b, <1>8 DEF Wake, Running
<1>9. ASSUME NEW n \in Node, NEW p \in inbox[n], Receive(n, p)
      PROVE  ListInv'
    BY <1>b, <1>9 DEF Receive
<1>10. ASSUME NEW n \in Node, ReceiveTimeout(n)
      PROVE  ListInv'
    BY <1>b, <1>10 DEF ReceiveTimeout, Loop, Running
<1>11. ASSUME NEW n \in Node, AnswerQuery(n)
      PROVE  ListInv'
    BY <1>b, <1>11 DEF AnswerQuery, Loop, Running
<1>12. ASSUME NEW n \in Node, HandleBeacon(n)
      PROVE  ListInv'
    <2>1. CASE IsOwn(n, packet[n])
        BY <1>b, <1>12, <2>1 DEF HandleBeacon
    <2> QED
        BY <1>a, <1>12, <2>1, NewAddressLists
<1>13. ASSUME NEW n \in Node, QueryNames(n)
      PROVE  ListInv'
    BY <1>b, <1>13 DEF QueryNames
<1>14. CASE UNCHANGED vars
    BY <1>b, <1>14 DEF vars
<1> QED
    BY <1>1, <1>2, <1>3, <1>4, <1>5, <1>6, <1>7, <1>8, <1>9, <1>10, <1>11,
       <1>12, <1>13, <1>14
       DEF Next, Sender, Listener, Stopper

\* What peers_ lists for a topic is, each address once, what the table holds,
\* and never the node itself.
THEOREM ListedOnceHolds == Spec => []ListedOnce
<1>1. ListInv => ListedOnce
    <2> SUFFICES ASSUME ListInv, NEW n \in Node, NEW t \in LocalTopics(n)
                 PROVE  /\ \A i, j \in 1 .. Len(peers[n][t]) :
                             peers[n][t][i] = peers[n][t][j] => i = j
                        /\ ToSet(peers[n][t])
                             = {<<e[2], e[3]>> : e \in {y \in table[n] : y[1] = t}}
                        /\ \A port \in SelfPorts(n) :
                             <<ip[n], port>> \notin ToSet(peers[n][t])
        BY DEF ListedOnce
    <2>1. Listed(n, t)
        BY DEF ListInv
    <2>2. DOMAIN peers[n][t] = 1 .. Len(peers[n][t])
        BY <2>1, LenProperties DEF Listed
    <2>3. \A a : a \in ToSet(peers[n][t])
                  <=> (\E i \in 1 .. Len(peers[n][t]) : peers[n][t][i] = a)
        BY <2>2 DEF ToSet
    <2>4. \A a : a \in ToSet(peers[n][t])
                  <=> (\E e \in table[n] : e[1] = t /\ a = <<e[2], e[3]>>)
        BY <2>1, <2>3, Zenon DEF Listed
    <2>5. ToSet(peers[n][t])
            = {<<e[2], e[3]>> : e \in {y \in table[n] : y[1] = t}}
        BY <2>4
    <2>6. ASSUME NEW port \in SelfPorts(n), <<ip[n], port>> \in ToSet(peers[n][t])
          PROVE  FALSE
        <3>1. PICK e \in table[n] : <<ip[n], port>> = <<e[2], e[3]>>
            BY <2>4, <2>6
        <3>2. e[2] = ip[n] /\ e[3] = port
            BY <3>1
        <3> QED
            BY <3>2 DEF ListInv, Entry
    <2> QED
        BY <2>1, <2>5, <2>6 DEF Listed
<1> QED
    BY <1>1, ThreadInit, ListInit, FunctionNext, ListNext, PTL DEF Spec
=============================================================================
