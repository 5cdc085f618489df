----------------------- MODULE RlcoreDirectoryProofs -----------------------
(***************************************************************************)
(* Proofs about the rlcore daemon, the registration table of               *)
(* RlcoreRegistry and the directory around it, for every set of nodes and  *)
(* topics, every timing of the nodes and the network, every TTL and every  *)
(* limit of the packets, with losses, crashes and restarts; and about the  *)
(* tool that asks the daemon, the commands of RlTopic.                     *)
(*                                                                         *)
(* There is no unregister message, so what the daemon may still say of a   *)
(* node that died is bounded by ages: a datagram is under way for no       *)
(* longer than MaxDelay, an entry is kept for no longer than the TTL       *)
(* (SenderInv, TableInv).  That it does not forget who is alive is a       *)
(* lease: an entry is as old as the last request, or the last request is   *)
(* under way (SearchInv, RoleInv).  What the tool prints rests on how      *)
(* lists are cut into packets, and what its commands count on how they     *)
(* drop what is too old; both are proved by induction over the list.       *)
(***************************************************************************)
EXTENDS RlcoreDirectory, RlTopic, TLAPS, SequenceTheorems, FiniteSetTheorems,
        WellFoundedInduction

\* What the network may carry.
Datagram ==
  [kind : {"register"}, node : Node, topics : SUBSET Topic, no : Nat, age : 0 .. MaxDelay]
  \cup [kind : {"ack"}, node : Node, peers : SUBSET (Topic \X Node), no : Nat,
        age : 0 .. MaxDelay]
  \cup [kind : {"role"}, node : Node, age : 0 .. MaxDelay]

\* Every variable of the registry has its type: TypeOK with what the datagrams
\* contain.
Shape ==
  /\ TypeOK
  /\ net \subseteq Datagram

\* n was started; if it is dead, no longer than age ago.
SentWithin(n, age) ==
  /\ phase[n] # "off"
  /\ phase[n] = "dead" => deadFor[n] <= age

\* A process that is not dead has not been dead; what it asks for, and what its
\* datagrams under way ask for, it declared; they left it while it ran.
SenderInv ==
  /\ \A n \in Node : /\ phase[n] # "dead" => deadFor[n] = 0
                     /\ asked[n] \subseteq Declares[n]
  /\ \A m \in net : m.kind # "ack" => SentWithin(m.node, m.age)
  /\ \A m \in net : m.kind = "register" => m.topics \subseteq Declares[m.node]

\* An entry of the tables goes back to a datagram its node sent while it ran.
TableInv ==
  /\ \A t \in Topic, n \in Node : lastSeen[<<t, n>>] # Absent =>
       t \in Declares[n] /\ SentWithin(n, lastSeen[<<t, n>>] + MaxDelay)
  /\ \A n \in Node : roleSeen[n] # Absent => SentWithin(n, roleSeen[n] + MaxDelay)

RegistryInv == Shape /\ SenderInv /\ TableInv

\* An entry of a name announce or of the listing: its bytes are those of its
\* name.  An entry of the role directory.
NameEntry == {e \in [id : Topic, name : 0 .. kTopicDirMaxNameLen, bytes : Nat] :
                e.bytes = 5 + e.name}
RoleEntry == [id : Topic, role : SUBSET {"publisher", "subscriber"}, peer : Node,
              bytes : {11}]

\* What is announced, and what the daemon has taken from it, are names within
\* the limits.
NamesInv ==
  /\ topic_names \in [Topic -> 0 .. kTopicDirMaxNameLen]
  /\ \A a \in announces : /\ a.node \in Node
                          /\ a.chunk \in Seq(NameEntry)
                          /\ Len(a.chunk) \in 1 .. kTopicDirMaxEntries

\* The daemon keeps registrations only of nodes that hold its key.
KeyInv ==
  /\ setting \in Settings
  /\ \A t \in Topic, n \in Node :
       lastSeen[<<t, n>>] # Absent => setting.nodeKey[n] = setting.key

\* Between two queries nothing is kept.  During one, every packet under way
\* decodes and is part of the answer, and what is neither collected nor under
\* way was lost.
AnswerInv ==
  /\ tool \in {"idle", "names", "matched", "roles"} /\ missed \in BOOLEAN
  /\ tool \in {"idle", "matched"} => wire = {} /\ out = {} /\ ~missed
  /\ tool = "names" => \A c \in wire : decode_topic_dir_entries(c)
  /\ tool = "roles" => \A c \in wire : decode_role_reply(c)
  /\ \A c \in wire : ToSet(c) \subseteq truth
  /\ out \subseteq truth
  /\ ~missed => \A e \in truth : e \in out \/ \E c \in wire : e \in ToSet(c)

\* The answer names only what was there lately.
LatelyInv ==
  /\ tool = "names" => \A e \in truth : \E n \in Node :
       e.id \in Declares[n] /\ AliveLately(n) /\ setting.nodeKey[n] = setting.key
  /\ tool = "roles" => \A e \in truth : e.peer \in Node /\ AliveLately(e.peer)

DirectoryInv == RegistryInv /\ NamesInv /\ KeyInv /\ AnswerInv /\ LatelyInv

-----------------------------------------------------------------------------
(* The registration table. *)

LEMMA InitRegistry == Init => RegistryInv
<1> SUFFICES ASSUME Init PROVE RegistryInv
  OBVIOUS
<1> USE RegistryAssumption
<1>1. << >> \in Seq(SUBSET (Topic \X Node)) /\ Len(<< >>) = 0
  OBVIOUS
<1>2. TypeOK
  BY <1>1 DEF Init, TypeOK, Phase, Age, Absent
<1>3. Shape /\ SenderInv
  BY <1>2 DEF Init, Shape, SenderInv
<1>4. TableInv
  BY DEF Init, TableInv
<1> QED BY <1>3, <1>4 DEF RegistryInv

\* A node does not come back from the dead: whoever was on its list of senders
\* stays there through any step of the nodes.
LEMMA SentStays ==
  ASSUME Shape, SenderInv, UNCHANGED deadFor,
         \A p \in Node : \/ phase'[p] = phase[p]
                         \/ phase[p] # "dead" /\ phase'[p] # "off",
         NEW n \in Node, NEW age \in Nat, SentWithin(n, age)
  PROVE  SentWithin(n, age)'
<1>1. phase[n] # "dead" => deadFor[n] = 0
  BY DEF SenderInv
<1> QED BY <1>1 DEF SentWithin

\* The tables outlive a step of the nodes.
LEMMA TablesStay ==
  ASSUME Shape, SenderInv, TableInv, UNCHANGED <<serverVars, deadFor>>,
         \A p \in Node : \/ phase'[p] = phase[p]
                         \/ phase[p] # "dead" /\ phase'[p] # "off"
  PROVE  TableInv'
<1>1. ASSUME NEW t \in Topic, NEW n \in Node, lastSeen'[<<t, n>>] # Absent
      PROVE  t \in Declares[n] /\ SentWithin(n, lastSeen[<<t, n>>] + MaxDelay)'
  <2>1. PICK age \in Nat : age = lastSeen[<<t, n>>] + MaxDelay
    BY <1>1, RegistryAssumption DEF Shape, TypeOK, Age, Absent, serverVars
  <2>2. t \in Declares[n] /\ SentWithin(n, age)
    BY <1>1, <2>1 DEF TableInv, serverVars
  <2>3. SentWithin(n, age)'
    BY <2>2, SentStays
  <2> QED BY <2>1, <2>2, <2>3 DEF SentWithin, serverVars
<1>2. ASSUME NEW n \in Node, roleSeen'[n] # Absent
      PROVE  SentWithin(n, roleSeen[n] + MaxDelay)'
  <2>1. PICK age \in Nat : age = roleSeen[n] + MaxDelay
    BY <1>2, RegistryAssumption DEF Shape, TypeOK, Age, Absent, serverVars
  <2>2. SentWithin(n, age)
    BY <1>2, <2>1 DEF TableInv, serverVars
  <2>3. SentWithin(n, age)'
    BY <2>2, SentStays
  <2> QED BY <2>1, <2>3 DEF SentWithin, serverVars
<1> QED BY <1>1, <1>2 DEF TableInv, serverVars, SentWithin

\* What n may send: requests for topics it declared, and role announces.
Sends(n, batch) ==
  /\ batch \subseteq Datagram
  /\ \A d \in batch : /\ d.kind # "ack" /\ d.node = n
                      /\ d.kind = "register" => d.topics \subseteq Declares[n]

\* A step of a node keeps the invariant if it keeps the types.
LEMMA NodeStep ==
  ASSUME RegistryInv, TypeOK', UNCHANGED <<serverVars, deadFor>>,
         NEW n \in Node,
         \/ UNCHANGED phase
         \/ /\ phase[n] # "dead"
            /\ phase' \in [Node -> Phase]
            /\ phase'[n] # "off"
            /\ \A p \in Node \ {n} : phase'[p] = phase[p],
         \A p \in Node : asked'[p] \subseteq Declares[p],
         \/ net' \subseteq net
         \/ /\ phase'[n] \notin {"off", "dead"}
            /\ \E batch : Sends(n, batch) /\ net' = net \cup batch
  PROVE  RegistryInv'
<1>1. Shape /\ SenderInv /\ TableInv
  BY DEF RegistryInv
<1>2. \A p \in Node : \/ phase'[p] = phase[p]
                      \/ phase[p] # "dead" /\ phase'[p] # "off"
  BY <1>1 DEF Shape, TypeOK
<1>3. TableInv'
  BY <1>1, <1>2, TablesStay
<1>4. Shape'
  BY <1>1 DEF Shape, Sends
<1>5. \A p \in Node : phase'[p] # "dead" => deadFor'[p] = 0
  BY <1>1, <1>2 DEF SenderInv, serverVars
<1>6. ASSUME NEW m \in net', m.kind # "ack"
      PROVE  /\ SentWithin(m.node, m.age)'
             /\ m.kind = "register" => m.topics \subseteq Declares[m.node]
  <2>1. m \in Datagram
    BY <1>4 DEF Shape
  <2>2. m.node \in Node /\ m.age \in Nat
    BY <2>1, RegistryAssumption DEF Datagram
  <2>3. CASE m \in net
    <3>1. SentWithin(m.node, m.age)
      BY <1>1, <1>6, <2>3 DEF SenderInv
    <3>2. PICK p \in Node, age \in Nat : p = m.node /\ age = m.age
      BY <2>2
    <3>3. SentWithin(p, age)'
      BY <1>1, <1>2, <3>1, <3>2, SentStays
    <3> QED BY <1>1, <1>6, <2>3, <3>2, <3>3 DEF SenderInv, SentWithin
  <2>4. CASE m \notin net
    <3>1. PICK batch : Sends(n, batch) /\ m \in batch
      BY <2>4
    <3>2. m.node = n /\ phase'[n] \notin {"off", "dead"}
      BY <2>4, <3>1 DEF Sends
    <3> QED BY <1>6, <3>1, <3>2 DEF Sends, SentWithin
  <2> QED BY <2>3, <2>4
<1>7. SenderInv'
  BY <1>5, <1>6 DEF SenderInv
<1> QED BY <1>3, <1>4, <1>7 DEF RegistryInv

LEMMA Requests ==
  ASSUME NEW n \in Node, NEW topics \in SUBSET Topic, topics \subseteq Declares[n],
         NEW k \in Nat
  PROVE  Sends(n, {Request(n, topics, k)})
<1>1. Request(n, topics, k) \in
        [kind : {"register"}, node : Node, topics : SUBSET Topic, no : Nat,
         age : 0 .. MaxDelay]
  BY RegistryAssumption DEF Request
<1> QED BY <1>1 DEF Sends, Datagram, Request

LEMMA Roles ==
  ASSUME NEW n \in Node, NEW k \in Nat
  PROVE  Sends(n, RoleDatagrams(n, k))
<1>1. RoleAnnounce(n) \in [kind : {"role"}, node : Node, age : 0 .. MaxDelay]
  BY RegistryAssumption DEF RoleAnnounce
<1> QED BY <1>1 DEF Sends, Datagram, RoleDatagrams, RoleAnnounce

LEMMA StartKeeps ==
  ASSUME RegistryInv, NEW n \in Node, Start(n)
  PROVE  RegistryInv'
<1> USE RegistryAssumption
<1>1. TypeOK /\ SenderInv /\ net \subseteq Datagram
  BY DEF RegistryInv, Shape
<1>2. Declares[n] \in SUBSET Topic
  OBVIOUS
<1>3. Sends(n, {Request(n, Declares[n], 1)})
  BY <1>2, Requests
<1>4. TypeOK'
  <2>1. phase' \in [Node -> Phase] /\ timer' \in [Node -> Nat]
        /\ attempt' \in [Node -> 0 .. MaxRetries] /\ asked' \in [Node -> SUBSET Topic]
    BY <1>1, <1>2 DEF Start, TypeOK, Phase
  <2>2. \A m \in net' : m.node \in Node /\ m.age \in 0 .. MaxDelay
    BY <1>1 DEF Start, TypeOK, Request
  <2> QED BY <1>1, <2>1, <2>2 DEF Start, TypeOK, serverVars
<1>5. \A p \in Node : asked'[p] \subseteq Declares[p]
  BY <1>1, <1>2 DEF Start, TypeOK, SenderInv
<1>6. phase[n] = "off" /\ phase'[n] = "start"
      /\ \A p \in Node \ {n} : phase'[p] = phase[p]
  BY <1>1 DEF Start, TypeOK
<1>7. UNCHANGED <<serverVars, deadFor>> /\ phase' \in [Node -> Phase]
      /\ net' = net \cup {Request(n, Declares[n], 1)}
  BY <1>4 DEF Start, TypeOK
<1> QED BY <1>3, <1>4, <1>5, <1>6, <1>7, NodeStep

LEMMA WakeKeeps ==
  ASSUME RegistryInv, NEW n \in Node, Wake(n)
  PROVE  RegistryInv'
<1> USE RegistryAssumption
<1>1. TypeOK /\ SenderInv /\ net \subseteq Datagram
  BY DEF RegistryInv, Shape
<1>2. PICK k : k = (tick[n] + 1) % SweepEvery
  OBVIOUS
<1>3. k \in 0 .. (SweepEvery - 1)
  <2>1. tick[n] + 1 \in Nat
    BY <1>1 DEF TypeOK
  <2> QED BY <1>2, <2>1
<1>4. PICK reg : reg = ToRegister(n, k)
  OBVIOUS
<1>5. reg \in SUBSET Topic /\ reg \subseteq Declares[n]
  BY <1>4 DEF ToRegister, Pending
<1>6. /\ tick' = [tick EXCEPT ![n] = k]
      /\ phase' = [phase EXCEPT ![n] = IF reg = {} THEN "sleep" ELSE "wait"]
      /\ attempt' = [attempt EXCEPT ![n] = IF reg = {} THEN 0 ELSE 1]
      /\ asked' = [asked EXCEPT ![n] = reg]
      /\ net' = net \cup RoleDatagrams(n, k)
                  \cup (IF reg = {} THEN {} ELSE {Request(n, reg, 1)})
      /\ timer' = [timer EXCEPT ![n] = 0]
      /\ UNCHANGED <<peers, replies, serverVars, deadFor>>
      /\ phase[n] = "sleep"
  BY <1>2, <1>4 DEF Wake
<1>7. PICK batch : batch = RoleDatagrams(n, k)
                         \cup (IF reg = {} THEN {} ELSE {Request(n, reg, 1)})
  OBVIOUS
<1>8. Sends(n, batch) /\ net' = net \cup batch
  <2>1. Sends(n, RoleDatagrams(n, k)) /\ Sends(n, {Request(n, reg, 1)})
    BY <1>3, <1>5, Roles, Requests
  <2> QED BY <1>6, <1>7, <2>1 DEF Sends
<1>9. phase' \in [Node -> Phase] /\ phase'[n] \in {"sleep", "wait"}
      /\ \A p \in Node \ {n} : phase'[p] = phase[p]
  BY <1>1, <1>6 DEF TypeOK, Phase
<1>10. TypeOK'
  <2>1. /\ tick' \in [Node -> 0 .. (SweepEvery - 1)]
        /\ timer' \in [Node -> Nat]
        /\ attempt' \in [Node -> 0 .. MaxRetries]
        /\ asked' \in [Node -> SUBSET Topic]
    BY <1>1, <1>3, <1>5, <1>6 DEF TypeOK
  <2>2. \A m \in net' : m.node \in Node /\ m.age \in 0 .. MaxDelay
    BY <1>1, <1>8 DEF Sends, Datagram
  <2> QED BY <1>1, <1>6, <1>9, <2>1, <2>2 DEF TypeOK, serverVars
<1>11. \A p \in Node : asked'[p] \subseteq Declares[p]
  BY <1>1, <1>5, <1>6 DEF TypeOK, SenderInv
<1> QED BY <1>6, <1>8, <1>9, <1>10, <1>11, NodeStep

LEMMA TakeReplyKeeps ==
  ASSUME RegistryInv, NEW n \in Node, TakeReply(n)
  PROVE  RegistryInv'
<1> USE RegistryAssumption
<1>1. TypeOK /\ SenderInv /\ net \subseteq Datagram
  BY DEF RegistryInv, Shape
<1>2. /\ phase' = [phase EXCEPT ![n] = "sleep"]
      /\ timer' = [timer EXCEPT ![n] = 0]
      /\ attempt' = [attempt EXCEPT ![n] = 0]
      /\ asked' = [asked EXCEPT ![n] = {}]
      /\ peers' = [peers EXCEPT ![n] = AddPeers(peers[n], Head(replies[n]))]
      /\ replies' = [replies EXCEPT ![n] = Tail(replies[n])]
      /\ UNCHANGED <<tick, serverVars, net, deadFor>>
      /\ phase[n] \in {"start", "wait"} /\ replies[n] # << >>
  BY DEF TakeReply, FinishRegistration, Waiting
<1>3. /\ Tail(replies[n]) \in Seq(SUBSET (Topic \X Node))
      /\ Len(Tail(replies[n])) <= QueueCap
  <2>1. replies[n] \in Seq(SUBSET (Topic \X Node)) /\ Len(replies[n]) <= QueueCap
    BY <1>1 DEF TypeOK
  <2> QED BY <1>2, <2>1
<1>4. AddPeers(peers[n], Head(replies[n])) \in [Topic -> SUBSET Node]
  BY <1>1 DEF AddPeers, TypeOK
<1>5. phase' \in [Node -> Phase] /\ phase'[n] = "sleep"
      /\ \A p \in Node \ {n} : phase'[p] = phase[p]
  BY <1>1, <1>2 DEF TypeOK, Phase
<1>6. TypeOK'
  <2>1. /\ timer' \in [Node -> Nat]
        /\ attempt' \in [Node -> 0 .. MaxRetries]
        /\ asked' \in [Node -> SUBSET Topic]
        /\ peers' \in [Node -> [Topic -> SUBSET Node]]
    BY <1>1, <1>2, <1>4 DEF TypeOK
  <2>2. ASSUME NEW p \in Node
        PROVE  /\ replies'[p] \in Seq(SUBSET (Topic \X Node))
               /\ Len(replies'[p]) <= QueueCap
    <3>1. CASE p = n /\ n \in DOMAIN replies
      BY <1>2, <1>3, <3>1
    <3>2. CASE p # n \/ n \notin DOMAIN replies
      <4>1. replies'[p] = replies[p]
        BY <1>2, <3>2
      <4> QED BY <1>1, <4>1 DEF TypeOK
    <3> QED BY <3>1, <3>2
  <2> QED BY <1>1, <1>2, <1>5, <2>1, <2>2 DEF TypeOK, serverVars
<1>7. \A p \in Node : asked'[p] \subseteq Declares[p]
  BY <1>1, <1>2 DEF TypeOK, SenderInv
<1> QED BY <1>2, <1>5, <1>6, <1>7, NodeStep

LEMMA TimeOutKeeps ==
  ASSUME RegistryInv, NEW n \in Node, TimeOut(n)
  PROVE  RegistryInv'
<1> USE RegistryAssumption
<1>1. TypeOK /\ SenderInv /\ net \subseteq Datagram
  BY DEF RegistryInv, Shape
<1>2. phase[n] \in {"start", "wait"}
      /\ UNCHANGED <<tick, peers, replies, serverVars, deadFor>>
  BY DEF TimeOut, Waiting
<1>3. attempt[n] \in 0 .. MaxRetries /\ asked[n] \in SUBSET Topic
      /\ asked[n] \subseteq Declares[n]
  BY <1>1 DEF TypeOK, SenderInv
<1>4. CASE attempt[n] < RetryLimit(n)
  <2>1. /\ net' = net \cup {Request(n, asked[n], attempt[n] + 1)}
        /\ attempt' = [attempt EXCEPT ![n] = attempt[n] + 1]
        /\ timer' = [timer EXCEPT ![n] = 0]
        /\ UNCHANGED <<phase, asked>>
    BY <1>4 DEF TimeOut
  <2>2. attempt[n] + 1 \in 0 .. MaxRetries
    BY <1>3, <1>4 DEF RetryLimit
  <2>3. PICK batch : batch = {Request(n, asked[n], attempt[n] + 1)}
    OBVIOUS
  <2>4. Sends(n, batch)
    <3>1. PICK topics \in SUBSET Topic, k \in Nat :
            topics = asked[n] /\ k = attempt[n] + 1
      BY <1>3, <2>2
    <3> QED BY <1>3, <2>3, <3>1, Requests
  <2>5. TypeOK'
    <3>1. attempt' \in [Node -> 0 .. MaxRetries] /\ timer' \in [Node -> Nat]
      BY <1>1, <2>1, <2>2 DEF TypeOK
    <3>2. \A m \in net' : m.node \in Node /\ m.age \in 0 .. MaxDelay
      BY <1>1, <2>1, <2>3, <2>4 DEF Sends, Datagram
    <3> QED BY <1>1, <1>2, <2>1, <3>1, <3>2 DEF TypeOK, serverVars
  <2>6. \A p \in Node : asked'[p] \subseteq Declares[p]
    BY <1>1, <2>1 DEF SenderInv
  <2>7. phase'[n] \notin {"off", "dead"} /\ net' = net \cup batch
    BY <1>2, <2>1, <2>3
  <2> QED BY <1>2, <2>1, <2>4, <2>5, <2>6, <2>7, NodeStep
<1>5. CASE ~(attempt[n] < RetryLimit(n))
  <2>1. /\ phase' = [phase EXCEPT ![n] = "sleep"]
        /\ timer' = [timer EXCEPT ![n] = 0]
        /\ attempt' = [attempt EXCEPT ![n] = 0]
        /\ asked' = [asked EXCEPT ![n] = {}]
        /\ UNCHANGED net
    BY <1>5 DEF TimeOut, FinishRegistration
  <2>2. phase' \in [Node -> Phase] /\ phase'[n] = "sleep"
        /\ \A p \in Node \ {n} : phase'[p] = phase[p]
    BY <1>1, <2>1 DEF TypeOK, Phase
  <2>3. TypeOK'
    <3>1. /\ attempt' \in [Node -> 0 .. MaxRetries] /\ timer' \in [Node -> Nat]
          /\ asked' \in [Node -> SUBSET Topic]
      BY <1>1, <2>1 DEF TypeOK
    <3> QED BY <1>1, <1>2, <2>1, <2>2, <3>1 DEF TypeOK, serverVars
  <2>4. \A p \in Node : asked'[p] \subseteq Declares[p]
    BY <1>1, <2>1 DEF TypeOK, SenderInv
  <2> QED BY <1>2, <2>1, <2>2, <2>3, <2>4, NodeStep
<1> QED BY <1>4, <1>5

LEMMA CrashKeeps ==
  ASSUME RegistryInv, NEW n \in Node, Crash(n)
  PROVE  RegistryInv'
<1> USE RegistryAssumption
<1>1. TypeOK /\ SenderInv
  BY DEF RegistryInv, Shape
<1>2. phase[n] \in {"start", "sleep", "wait"} /\ UNCHANGED <<serverVars, net, deadFor>>
      /\ phase' = [phase EXCEPT ![n] = "dead"]
  BY DEF Crash, Running
<1>3. phase' \in [Node -> Phase] /\ phase'[n] = "dead"
      /\ \A p \in Node \ {n} : phase'[p] = phase[p]
  BY <1>1, <1>2 DEF TypeOK, Phase
<1>4. /\ timer' \in [Node -> Nat] /\ tick' \in [Node -> 0 .. (SweepEvery - 1)]
      /\ attempt' \in [Node -> 0 .. MaxRetries]
      /\ asked' \in [Node -> SUBSET Topic]
      /\ peers' \in [Node -> [Topic -> SUBSET Node]]
  BY <1>1 DEF Crash, TypeOK
<1>5. ASSUME NEW p \in Node
      PROVE  /\ replies'[p] \in Seq(SUBSET (Topic \X Node))
             /\ Len(replies'[p]) <= QueueCap
  <2>1. << >> \in Seq(SUBSET (Topic \X Node)) /\ Len(<< >>) = 0
    OBVIOUS
  <2>2. replies[p] \in Seq(SUBSET (Topic \X Node)) /\ Len(replies[p]) <= QueueCap
    BY <1>1 DEF TypeOK
  <2>3. replies'[p] = replies[p] \/ replies'[p] = << >>
    BY DEF Crash
  <2>4. CASE replies'[p] = replies[p]
    BY <2>2, <2>4
  <2>5. CASE replies'[p] = << >>
    BY <2>1, <2>5
  <2> QED BY <2>3, <2>4, <2>5
<1>6. TypeOK'
  <2>1. replies' = [p \in Node |-> replies'[p]]
    BY <1>1 DEF Crash, TypeOK
  <2>2. replies' \in [Node -> Seq(SUBSET (Topic \X Node))]
    BY <1>5, <2>1
  <2> QED BY <1>1, <1>2, <1>3, <1>4, <1>5, <2>2 DEF TypeOK, serverVars
<1>7. \A p \in Node : asked'[p] \subseteq Declares[p]
  BY <1>1 DEF Crash, TypeOK, SenderInv
<1> QED BY <1>2, <1>3, <1>6, <1>7, NodeStep

LEMMA ReceiveAckKeeps ==
  ASSUME RegistryInv, NEW m \in net, ReceiveAck(m)
  PROVE  RegistryInv'
<1> USE RegistryAssumption
<1>1. TypeOK /\ SenderInv /\ m \in Datagram
  BY DEF RegistryInv, Shape
<1>2. m.kind = "ack" /\ net' = net \ {m}
      /\ UNCHANGED <<phase, timer, tick, attempt, asked, peers, serverVars, deadFor>>
  BY DEF ReceiveAck
<1>3. m.node \in Node /\ m.peers \in SUBSET (Topic \X Node)
  BY <1>1, <1>2 DEF Datagram
<1>4. ASSUME NEW p \in Node
      PROVE  /\ replies'[p] \in Seq(SUBSET (Topic \X Node))
             /\ Len(replies'[p]) <= QueueCap
  <2>1. replies'[p] \in {replies[p], Enqueue(replies[p], m.peers)}
    BY <1>3 DEF ReceiveAck
  <2>2. replies[p] \in Seq(SUBSET (Topic \X Node)) /\ Len(replies[p]) <= QueueCap
    BY <1>1 DEF TypeOK
  <2>3. Enqueue(replies[p], m.peers) \in Seq(SUBSET (Topic \X Node))
        /\ Len(Enqueue(replies[p], m.peers)) <= QueueCap
    BY <1>3, <2>2 DEF Enqueue
  <2> QED BY <2>1, <2>2, <2>3
<1>5. TypeOK'
  <2>1. replies' = [p \in Node |-> replies'[p]]
    BY <1>1 DEF ReceiveAck, TypeOK
  <2>2. replies' \in [Node -> Seq(SUBSET (Topic \X Node))]
    BY <1>4, <2>1
  <2> QED BY <1>1, <1>2, <1>4, <2>2 DEF TypeOK, serverVars
<1>6. \A p \in Node : asked'[p] \subseteq Declares[p]
  BY <1>1, <1>2 DEF SenderInv
<1>7. net' \subseteq net
  BY <1>2
<1> QED BY <1>2, <1>3, <1>5, <1>6, <1>7, NodeStep

-----------------------------------------------------------------------------
(* The daemon. *)

\* What only forgets: a loss, prune_stale(), a restart of the daemon.
Forgets ==
  /\ UNCHANGED <<nodeVars, deadFor>>
  /\ net' \subseteq net
  /\ lastSeen' \in [Topic \X Node -> Age] /\ roleSeen' \in [Node -> Age]
  /\ \A t \in Topic, n \in Node : lastSeen'[<<t, n>>] \in {lastSeen[<<t, n>>], Absent}
  /\ \A n \in Node : roleSeen'[n] \in {roleSeen[n], Absent}

LEMMA ForgetsKeeps == RegistryInv /\ Forgets => RegistryInv'
<1> SUFFICES ASSUME RegistryInv, Forgets PROVE RegistryInv'
  OBVIOUS
<1>1. Shape /\ SenderInv /\ TableInv
  BY DEF RegistryInv
<1>2. UNCHANGED <<phase, deadFor, asked>> /\ net' \subseteq net
  BY DEF Forgets, nodeVars
<1>3. Shape'
  BY <1>1 DEF Forgets, nodeVars, Shape, TypeOK
<1>4. SenderInv'
  BY <1>1, <1>2 DEF SenderInv, SentWithin
<1>5. TableInv'
  <2>1. ASSUME NEW t \in Topic, NEW n \in Node, lastSeen'[<<t, n>>] # Absent
        PROVE  t \in Declares[n] /\ SentWithin(n, lastSeen[<<t, n>>] + MaxDelay)'
    <3>1. lastSeen'[<<t, n>>] = lastSeen[<<t, n>>]
      BY <2>1 DEF Forgets
    <3>2. t \in Declares[n] /\ SentWithin(n, lastSeen[<<t, n>>] + MaxDelay)
      BY <1>1, <2>1, <3>1 DEF TableInv
    <3> QED BY <1>2, <3>1, <3>2 DEF SentWithin
  <2>2. ASSUME NEW n \in Node, roleSeen'[n] # Absent
        PROVE  SentWithin(n, roleSeen[n] + MaxDelay)'
    <3>1. roleSeen'[n] = roleSeen[n]
      BY <2>2 DEF Forgets
    <3>2. SentWithin(n, roleSeen[n] + MaxDelay)
      BY <1>1, <2>2, <3>1 DEF TableInv
    <3> QED BY <1>2, <3>1, <3>2 DEF SentWithin
  <2> QED BY <2>1, <2>2 DEF TableInv, SentWithin
<1> QED BY <1>3, <1>4, <1>5 DEF RegistryInv

LEMMA PruneForgets ==
  ASSUME RegistryInv
  PROVE  /\ Prune(lastSeen) \in [Topic \X Node -> Age]
         /\ Prune(roleSeen) \in [Node -> Age]
         /\ \A t \in Topic, n \in Node :
              Prune(lastSeen)[<<t, n>>] \in {lastSeen[<<t, n>>], Absent}
         /\ \A n \in Node : Prune(roleSeen)[n] \in {roleSeen[n], Absent}
         /\ \A t \in Topic, n \in Node :
              Prune(lastSeen)[<<t, n>>] # Absent => lastSeen[<<t, n>>] <= Ttl
         /\ \A n \in Node : Prune(roleSeen)[n] # Absent => roleSeen[n] <= Ttl
<1>1. lastSeen \in [Topic \X Node -> Age] /\ roleSeen \in [Node -> Age]
  BY DEF RegistryInv, Shape, TypeOK
<1>2. Absent \in Age
  BY DEF Age
<1>3. \A a \in Age : a > Ttl \/ a <= Ttl
  BY RegistryAssumption DEF Age, Absent
<1> QED BY <1>1, <1>2, <1>3 DEF Prune

\* A node that died is not in a list the daemon makes once the TTL and the
\* delay of its last datagram are over.
LEMMA ListedWasThere ==
  ASSUME RegistryInv, NEW n \in Node,
         \/ \E t \in Topic : Prune(lastSeen)[<<t, n>>] # Absent
         \/ Prune(roleSeen)[n] # Absent
  PROVE  AliveLately(n)
<1>1. PICK age \in Nat : age <= Ttl /\ SentWithin(n, age + MaxDelay)
  <2>1. CASE \E t \in Topic : Prune(lastSeen)[<<t, n>>] # Absent
    <3>1. PICK t \in Topic : Prune(lastSeen)[<<t, n>>] # Absent
      BY <2>1
    <3>2. lastSeen[<<t, n>>] # Absent /\ lastSeen[<<t, n>>] <= Ttl
      BY <3>1, PruneForgets
    <3>3. lastSeen[<<t, n>>] \in Nat
      BY <3>2 DEF RegistryInv, Shape, TypeOK, Age
    <3> QED BY <3>2, <3>3 DEF RegistryInv, TableInv
  <2>2. CASE Prune(roleSeen)[n] # Absent
    <3>1. roleSeen[n] # Absent /\ roleSeen[n] <= Ttl
      BY <2>2, PruneForgets
    <3>2. roleSeen[n] \in Nat
      BY <3>1 DEF RegistryInv, Shape, TypeOK, Age
    <3> QED BY <3>1, <3>2 DEF RegistryInv, TableInv
  <2> QED BY <2>1, <2>2
<1>2. phase[n] \in Phase /\ deadFor[n] \in Nat
  BY RegistryAssumption DEF RegistryInv, Shape, TypeOK
<1>3. CASE phase[n] = "dead"
  <2>1. deadFor[n] <= age + MaxDelay
    BY <1>1, <1>3 DEF SentWithin
  <2> QED BY <1>1, <1>2, <1>3, <2>1, RegistryAssumption DEF AliveLately
<1>4. CASE phase[n] # "dead"
  BY <1>1, <1>2, <1>4 DEF SentWithin, AliveLately, Running, Phase
<1> QED BY <1>3, <1>4

LEMMA HandleRegisterKeeps ==
  ASSUME RegistryInv, NEW m \in net, HandleRegister(m)
  PROVE  RegistryInv'
<1> USE RegistryAssumption
<1>1. TypeOK /\ SenderInv /\ TableInv /\ net \subseteq Datagram
  BY DEF RegistryInv, Shape
<1>2. /\ m.kind = "register" /\ UNCHANGED <<nodeVars, deadFor>>
      /\ lastSeen' = Insert(Prune(lastSeen), m.node, m.topics)
      /\ roleSeen' = Prune(roleSeen)
  BY DEF HandleRegister
<1>3. /\ m.node \in Node /\ m.age \in 0 .. MaxDelay
      /\ m.topics \in SUBSET Topic /\ m.topics \subseteq Declares[m.node]
      /\ m.no \in Nat /\ SentWithin(m.node, m.age)
  BY <1>1, <1>2 DEF Datagram, SenderInv
<1>4. /\ Prune(lastSeen) \in [Topic \X Node -> Age]
      /\ Prune(roleSeen) \in [Node -> Age]
      /\ \A t \in Topic, n \in Node :
           Prune(lastSeen)[<<t, n>>] \in {lastSeen[<<t, n>>], Absent}
      /\ \A n \in Node : Prune(roleSeen)[n] \in {roleSeen[n], Absent}
  BY PruneForgets
<1>5. /\ lastSeen' \in [Topic \X Node -> Age]
      /\ \A t \in Topic, n \in Node :
           lastSeen'[<<t, n>>] = IF t \in m.topics /\ n = m.node
                                 THEN 0 ELSE Prune(lastSeen)[<<t, n>>]
  <2>1. 0 \in Age
    BY DEF Age
  <2> QED BY <1>2, <1>4, <2>1 DEF Insert
<1>6. PICK list : list = PeerList(lastSeen', m.node, m.topics)
  OBVIOUS
<1>7. list \in SUBSET (Topic \X Node)
  BY <1>5, <1>6 DEF PeerList
<1>8. net' \subseteq (net \ {m}) \cup {Ack(m.node, list, m.no)}
  BY <1>6 DEF HandleRegister
<1>9. Ack(m.node, list, m.no) \in Datagram /\ Ack(m.node, list, m.no).kind = "ack"
  <2>1. Ack(m.node, list, m.no) \in
          [kind : {"ack"}, node : Node, peers : SUBSET (Topic \X Node), no : Nat,
           age : 0 .. MaxDelay]
    BY <1>3, <1>7 DEF Ack
  <2> QED BY <2>1 DEF Datagram
<1>10. net' \subseteq Datagram
  BY <1>1, <1>8, <1>9
<1>11. TypeOK'
  <2>1. \A d \in net' : d.node \in Node /\ d.age \in 0 .. MaxDelay
    BY <1>10 DEF Datagram
  <2> QED BY <1>1, <1>2, <1>4, <1>5, <2>1 DEF TypeOK, nodeVars
<1>12. SenderInv'
  BY <1>1, <1>2, <1>8, <1>9 DEF SenderInv, SentWithin, nodeVars
<1>13. TableInv'
  <2>1. ASSUME NEW t \in Topic, NEW n \in Node, lastSeen'[<<t, n>>] # Absent
        PROVE  t \in Declares[n] /\ SentWithin(n, lastSeen[<<t, n>>] + MaxDelay)'
    <3>1. CASE t \in m.topics /\ n = m.node
      <4>1. lastSeen'[<<t, n>>] = 0
        BY <1>5, <3>1
      <4>2. phase[n] # "off" /\ (phase[n] = "dead" => deadFor[n] <= m.age)
        BY <1>3, <3>1 DEF SentWithin
      <4>3. deadFor[n] \in Nat
        BY <1>1 DEF TypeOK
      <4> QED BY <1>2, <1>3, <3>1, <4>1, <4>2, <4>3 DEF SentWithin, nodeVars
    <3>2. CASE ~(t \in m.topics /\ n = m.node)
      <4>1. lastSeen'[<<t, n>>] = Prune(lastSeen)[<<t, n>>]
        BY <1>5, <3>2
      <4>2. lastSeen'[<<t, n>>] = lastSeen[<<t, n>>]
        BY <1>4, <2>1, <4>1
      <4>3. t \in Declares[n] /\ SentWithin(n, lastSeen[<<t, n>>] + MaxDelay)
        BY <1>1, <2>1, <4>2 DEF TableInv
      <4> QED BY <1>2, <4>2, <4>3 DEF SentWithin, nodeVars
    <3> QED BY <3>1, <3>2
  <2>2. ASSUME NEW n \in Node, roleSeen'[n] # Absent
        PROVE  SentWithin(n, roleSeen[n] + MaxDelay)'
    <3>1. roleSeen'[n] = roleSeen[n]
      BY <1>2, <1>4, <2>2
    <3>2. SentWithin(n, roleSeen[n] + MaxDelay)
      BY <1>1, <2>2, <3>1 DEF TableInv
    <3> QED BY <1>2, <3>1, <3>2 DEF SentWithin, nodeVars
  <2> QED BY <2>1, <2>2 DEF TableInv, SentWithin
<1> QED BY <1>10, <1>11, <1>12, <1>13 DEF RegistryInv, Shape

LEMMA HandleRoleKeeps ==
  ASSUME RegistryInv, NEW m \in net, HandleRole(m)
  PROVE  RegistryInv'
<1> USE RegistryAssumption
<1>1. TypeOK /\ SenderInv /\ TableInv /\ net \subseteq Datagram
  BY DEF RegistryInv, Shape
<1>2. /\ m.kind = "role" /\ UNCHANGED <<nodeVars, deadFor>>
      /\ lastSeen' = Prune(lastSeen)
      /\ roleSeen' = [Prune(roleSeen) EXCEPT ![m.node] = 0]
      /\ net' = net \ {m}
  BY DEF HandleRole
<1>3. m.node \in Node /\ m.age \in 0 .. MaxDelay /\ SentWithin(m.node, m.age)
  BY <1>1, <1>2 DEF Datagram, SenderInv
<1>4. /\ Prune(lastSeen) \in [Topic \X Node -> Age]
      /\ Prune(roleSeen) \in [Node -> Age]
      /\ \A t \in Topic, n \in Node :
           Prune(lastSeen)[<<t, n>>] \in {lastSeen[<<t, n>>], Absent}
      /\ \A n \in Node : Prune(roleSeen)[n] \in {roleSeen[n], Absent}
  BY PruneForgets
<1>5. /\ roleSeen' \in [Node -> Age]
      /\ \A n \in Node : roleSeen'[n] = IF n = m.node THEN 0 ELSE Prune(roleSeen)[n]
  <2>1. 0 \in Age
    BY DEF Age
  <2> QED BY <1>2, <1>4, <2>1
<1>6. Shape'
  BY <1>1, <1>2, <1>4, <1>5 DEF Shape, TypeOK, nodeVars
<1>7. SenderInv'
  BY <1>1, <1>2 DEF SenderInv, SentWithin, nodeVars
<1>8. TableInv'
  <2>1. ASSUME NEW t \in Topic, NEW n \in Node, lastSeen'[<<t, n>>] # Absent
        PROVE  t \in Declares[n] /\ SentWithin(n, lastSeen[<<t, n>>] + MaxDelay)'
    <3>1. lastSeen'[<<t, n>>] = lastSeen[<<t, n>>]
      BY <1>2, <1>4, <2>1
    <3>2. t \in Declares[n] /\ SentWithin(n, lastSeen[<<t, n>>] + MaxDelay)
      BY <1>1, <2>1, <3>1 DEF TableInv
    <3> QED BY <1>2, <3>1, <3>2 DEF SentWithin, nodeVars
  <2>2. ASSUME NEW n \in Node, roleSeen'[n] # Absent
        PROVE  SentWithin(n, roleSeen[n] + MaxDelay)'
    <3>1. CASE n = m.node
      <4>1. roleSeen'[n] = 0
        BY <1>5, <3>1
      <4>2. phase[n] # "off" /\ (phase[n] = "dead" => deadFor[n] <= m.age)
        BY <1>3, <3>1 DEF SentWithin
      <4>3. deadFor[n] \in Nat
        BY <1>1 DEF TypeOK
      <4> QED BY <1>2, <1>3, <4>1, <4>2, <4>3 DEF SentWithin, nodeVars
    <3>2. CASE n # m.node
      <4>1. roleSeen'[n] = roleSeen[n]
        BY <1>4, <1>5, <2>2, <3>2
      <4>2. SentWithin(n, roleSeen[n] + MaxDelay)
        BY <1>1, <2>2, <4>1 DEF TableInv
      <4> QED BY <1>2, <4>1, <4>2 DEF SentWithin, nodeVars
    <3> QED BY <3>1, <3>2
  <2> QED BY <2>1, <2>2 DEF TableInv, SentWithin
<1> QED BY <1>6, <1>7, <1>8 DEF RegistryInv

\* A unit passes for everybody: whoever was dead for at most age now is for at
\* most one more.
LEMMA TickKeeps ==
  ASSUME RegistryInv, Tick
  PROVE  RegistryInv'
<1> USE RegistryAssumption
<1>1. TypeOK /\ SenderInv /\ TableInv /\ net \subseteq Datagram
  BY DEF RegistryInv, Shape
<1>2. /\ UNCHANGED <<phase, tick, attempt, asked, peers, replies>>
      /\ \A m \in net : m.age < MaxDelay
      /\ timer' = [n \in Node |-> IF Running(n) THEN timer[n] + 1 ELSE 0]
      /\ net' = {[m EXCEPT !.age = @ + 1] : m \in net}
      /\ lastSeen' = [k \in DOMAIN lastSeen |-> Older(lastSeen[k])]
      /\ roleSeen' = [n \in Node |-> Older(roleSeen[n])]
      /\ deadFor' = [n \in Node |->
           IF phase[n] = "dead" /\ deadFor[n] <= Ttl + MaxDelay
           THEN deadFor[n] + 1 ELSE deadFor[n]]
  BY DEF Tick
<1>3. \A a \in Age : Older(a) \in Age
  BY DEF Older, Age, Absent
<1>4. /\ lastSeen' \in [Topic \X Node -> Age]
      /\ \A t \in Topic, n \in Node : lastSeen'[<<t, n>>] = Older(lastSeen[<<t, n>>])
      /\ roleSeen' \in [Node -> Age]
      /\ \A n \in Node : roleSeen'[n] = Older(roleSeen[n])
  BY <1>1, <1>2, <1>3 DEF TypeOK
<1>5. /\ deadFor' \in [Node -> 0 .. (Ttl + MaxDelay + 1)]
      /\ \A n \in Node : /\ phase[n] # "dead" => deadFor'[n] = deadFor[n]
                         /\ deadFor'[n] <= deadFor[n] + 1
  <2>1. ASSUME NEW n \in Node
        PROVE  /\ deadFor'[n] \in 0 .. (Ttl + MaxDelay + 1)
               /\ phase[n] # "dead" => deadFor'[n] = deadFor[n]
               /\ deadFor'[n] <= deadFor[n] + 1
    <3>1. deadFor[n] \in 0 .. (Ttl + MaxDelay + 1)
      BY <1>1 DEF TypeOK
    <3>2. deadFor'[n] = IF phase[n] = "dead" /\ deadFor[n] <= Ttl + MaxDelay
                        THEN deadFor[n] + 1 ELSE deadFor[n]
      BY <1>2
    <3> QED BY <3>1, <3>2
  <2> QED BY <1>2, <2>1
<1>6. ASSUME NEW m \in net
      PROVE  /\ [m EXCEPT !.age = @ + 1] \in Datagram
             /\ [m EXCEPT !.age = @ + 1].age = m.age + 1
             /\ [m EXCEPT !.age = @ + 1].node = m.node
             /\ [m EXCEPT !.age = @ + 1].kind = m.kind
             /\ m.kind = "register" => [m EXCEPT !.age = @ + 1].topics = m.topics
  <2>1. m.age + 1 \in 0 .. MaxDelay
    BY <1>1, <1>2 DEF TypeOK
  <2>2. PICK k \in 0 .. MaxDelay : k = m.age + 1
    BY <2>1
  <2>3. [m EXCEPT !.age = @ + 1] = [m EXCEPT !.age = k]
    BY <2>2
  <2>4. m \in Datagram
    BY <1>1
  <2> QED BY <2>2, <2>3, <2>4 DEF Datagram
<1>7. net' \subseteq Datagram
  BY <1>2, <1>6
<1>8. TypeOK'
  <2>1. \A d \in net' : d.node \in Node /\ d.age \in 0 .. MaxDelay
    <3>1. ASSUME NEW d \in Datagram PROVE d.node \in Node /\ d.age \in 0 .. MaxDelay
      BY DEF Datagram
    <3> QED BY <1>7, <3>1
  <2>2. timer' \in [Node -> Nat]
    <3>1. timer \in [Node -> Nat]
      BY <1>1 DEF TypeOK
    <3>2. \A n \in Node : (IF Running(n) THEN timer[n] + 1 ELSE 0) \in Nat
      BY <3>1
    <3>3. timer' = [n \in Node |-> IF Running(n) THEN timer[n] + 1 ELSE 0]
      BY <1>2
    <3> QED BY <3>2, <3>3
  <2> QED BY <1>1, <1>2, <1>4, <1>5, <2>1, <2>2 DEF TypeOK
<1>9. ASSUME NEW n \in Node, NEW age \in Nat, SentWithin(n, age)
      PROVE  SentWithin(n, age + 1)'
  <2>1. deadFor[n] \in Nat /\ deadFor'[n] \in Nat
    BY <1>1, <1>5 DEF TypeOK
  <2> QED BY <1>2, <1>5, <1>9, <2>1 DEF SentWithin
<1>10. SenderInv'
  <2>1. \A n \in Node : /\ phase'[n] # "dead" => deadFor'[n] = 0
                        /\ asked'[n] \subseteq Declares[n]
    BY <1>1, <1>2, <1>5 DEF SenderInv
  <2>2. ASSUME NEW d \in net', d.kind # "ack"
        PROVE  /\ SentWithin(d.node, d.age)'
               /\ d.kind = "register" => d.topics \subseteq Declares[d.node]
    <3>1. PICK m \in net : d = [m EXCEPT !.age = @ + 1]
      BY <1>2
    <3>2. d.age = m.age + 1 /\ d.node = m.node /\ d.kind = m.kind
          /\ (m.kind = "register" => d.topics = m.topics)
      BY <1>6, <3>1
    <3>3. PICK n \in Node, age \in Nat : n = m.node /\ age = m.age
      <4>1. m.node \in Node /\ m.age \in Nat
        BY <1>1 DEF TypeOK
      <4> QED BY <4>1
    <3>4. SentWithin(n, age)
      BY <1>1, <2>2, <3>2, <3>3 DEF SenderInv
    <3>5. SentWithin(n, age + 1)'
      BY <1>9, <3>4
    <3> QED BY <1>1, <2>2, <3>2, <3>3, <3>5 DEF SenderInv, SentWithin
  <2> QED BY <2>1, <2>2 DEF SenderInv
<1>11. ASSUME NEW n \in Node, NEW a \in Age, a # Absent, SentWithin(n, a + MaxDelay)
       PROVE  SentWithin(n, Older(a) + MaxDelay)'
  <2>1. a \in 0 .. (Ttl + 1)
    BY <1>11 DEF Age
  <2>2. CASE a > Ttl
    <3>1. Older(a) = a /\ a = Ttl + 1
      BY <2>1, <2>2 DEF Older
    <3>2. deadFor'[n] <= a + MaxDelay
      BY <1>5, <3>1
    <3> QED BY <1>2, <1>11, <3>1, <3>2 DEF SentWithin
  <2>3. CASE a <= Ttl
    <3>1. Older(a) = a + 1
      BY <1>11, <2>1, <2>3 DEF Older
    <3>2. PICK age \in Nat : age = a + MaxDelay
      BY <2>1
    <3>3. SentWithin(n, age + 1)'
      BY <1>9, <1>11, <3>2
    <3>4. Older(a) + MaxDelay = age + 1
      BY <2>1, <3>1, <3>2
    <3> QED BY <3>3, <3>4 DEF SentWithin
  <2> QED BY <2>1, <2>2, <2>3
<1>12. TableInv'
  <2>1. ASSUME NEW t \in Topic, NEW n \in Node, lastSeen'[<<t, n>>] # Absent
        PROVE  t \in Declares[n] /\ SentWithin(n, lastSeen[<<t, n>>] + MaxDelay)'
    <3>1. PICK a \in Age : a = lastSeen[<<t, n>>] /\ lastSeen'[<<t, n>>] = Older(a)
      BY <1>1, <1>4 DEF TypeOK
    <3>2. a # Absent
      BY <2>1, <3>1 DEF Older
    <3>3. t \in Declares[n] /\ SentWithin(n, a + MaxDelay)
      BY <1>1, <3>1, <3>2 DEF TableInv
    <3>4. SentWithin(n, Older(a) + MaxDelay)'
      BY <1>11, <3>2, <3>3
    <3> QED BY <3>1, <3>3, <3>4 DEF SentWithin
  <2>2. ASSUME NEW n \in Node, roleSeen'[n] # Absent
        PROVE  SentWithin(n, roleSeen[n] + MaxDelay)'
    <3>1. PICK a \in Age : a = roleSeen[n] /\ roleSeen'[n] = Older(a)
      BY <1>1, <1>4 DEF TypeOK
    <3>2. a # Absent
      BY <2>2, <3>1 DEF Older
    <3>3. SentWithin(n, a + MaxDelay)
      BY <1>1, <3>1, <3>2 DEF TableInv
    <3>4. SentWithin(n, Older(a) + MaxDelay)'
      BY <1>11, <3>2, <3>3
    <3> QED BY <3>1, <3>4 DEF SentWithin
  <2> QED BY <2>1, <2>2 DEF TableInv, SentWithin
<1> QED BY <1>7, <1>8, <1>10, <1>12 DEF RegistryInv, Shape

LEMMA NextKeepsRegistry == RegistryInv /\ [Next]_vars => RegistryInv'
<1> SUFFICES ASSUME RegistryInv, [Next]_vars PROVE RegistryInv'
  OBVIOUS
<1>1. ASSUME NEW n \in Node,
             Start(n) \/ Wake(n) \/ TakeReply(n) \/ TimeOut(n) \/ Crash(n)
      PROVE  RegistryInv'
  BY <1>1, StartKeeps, WakeKeeps, TakeReplyKeeps, TimeOutKeeps, CrashKeeps
<1>2. lastSeen \in [Topic \X Node -> Age] /\ roleSeen \in [Node -> Age]
  BY DEF RegistryInv, Shape, TypeOK
<1>3. ASSUME NEW m \in net,
             ReceiveAck(m) \/ HandleRegister(m) \/ HandleRole(m) \/ Lose(m)
      PROVE  RegistryInv'
  <2>1. Lose(m) => Forgets
    BY <1>2 DEF Lose, Forgets, serverVars
  <2> QED BY <1>3, <2>1, ForgetsKeeps, ReceiveAckKeeps, HandleRegisterKeeps,
             HandleRoleKeeps
<1>4. ASSUME PruneIdle PROVE RegistryInv'
  <2>1. Forgets
    BY <1>4, PruneForgets DEF PruneIdle, Forgets
  <2> QED BY <2>1, ForgetsKeeps
<1>5. ASSUME UNCHANGED vars PROVE RegistryInv'
  <2>1. Forgets
    BY <1>2, <1>5 DEF vars, serverVars, Forgets
  <2> QED BY <2>1, ForgetsKeeps
<1> QED BY <1>1, <1>3, <1>4, <1>5, TickKeeps DEF Next

\* The registry's type invariant, with what the datagrams contain.
THEOREM RegistryInvariant == Spec => []RegistryInv
<1> QED BY InitRegistry, NextKeepsRegistry, PTL DEF Spec

\* The acks a step makes name nobody who has been dead for longer than the TTL
\* and the delay.
HandedOutLately ==
  \A m \in net' \ net : m.kind = "ack" /\ m.age = 0 =>
    \A k \in m.peers : deadFor[k[2]] <= Ttl + MaxDelay

LEMMA StepHandsOutLately == RegistryInv /\ [Next]_vars => [HandedOutLately]_vars
<1> SUFFICES ASSUME RegistryInv, Next,
                    NEW d \in net', d \notin net, d.kind = "ack", d.age = 0,
                    NEW k \in d.peers
             PROVE  deadFor[k[2]] <= Ttl + MaxDelay
  BY DEF HandedOutLately
<1> USE RegistryAssumption
<1>1. TypeOK /\ net \subseteq Datagram
  BY DEF RegistryInv, Shape
<1>2. ASSUME NEW m \in net, HandleRegister(m)
      PROVE  deadFor[k[2]] <= Ttl + MaxDelay
  <2>1. PICK list : list = PeerList(lastSeen', m.node, m.topics)
    OBVIOUS
  <2>2. d = Ack(m.node, list, m.no)
    BY <1>2, <2>1 DEF HandleRegister
  <2>3. k \in list
    BY <2>2 DEF Ack
  <2>4. lastSeen' = Insert(Prune(lastSeen), m.node, m.topics)
    BY <1>2 DEF HandleRegister
  <2>5. DOMAIN lastSeen' = Topic \X Node
    BY <1>1, <2>4, PruneForgets DEF Insert
  <2>6. k \in Topic \X Node /\ k[2] # m.node /\ lastSeen'[k] # Absent
    BY <2>1, <2>3, <2>5 DEF PeerList
  <2>7. PICK t \in Topic, n \in Node : k = <<t, n>>
    BY <2>6
  <2>8. Prune(lastSeen)[<<t, n>>] # Absent
    BY <2>4, <2>6, <2>7, PruneForgets DEF Insert
  <2>9. AliveLately(n)
    BY <2>8, ListedWasThere
  <2>10. phase[n] # "dead" => deadFor[n] = 0
    BY DEF RegistryInv, SenderInv
  <2> QED BY <2>7, <2>9, <2>10 DEF AliveLately, Running
<1>3. ASSUME NEW n \in Node,
             Start(n) \/ Wake(n) \/ TakeReply(n) \/ TimeOut(n) \/ Crash(n)
      PROVE  FALSE
  BY <1>3 DEF Start, Wake, TakeReply, TimeOut, Crash, Request, RoleDatagrams,
              RoleAnnounce
<1>4. ASSUME NEW m \in net, ReceiveAck(m) \/ HandleRole(m) \/ Lose(m)
      PROVE  FALSE
  BY <1>4 DEF ReceiveAck, HandleRole, Lose
<1>5. ASSUME PruneIdle PROVE FALSE
  BY <1>5 DEF PruneIdle
<1>6. ASSUME Tick PROVE FALSE
  <2>1. PICK m \in net : d = [m EXCEPT !.age = @ + 1]
    BY <1>6 DEF Tick
  <2>2. m \in Datagram /\ m.age \in 0 .. MaxDelay
    BY <1>1 DEF TypeOK
  <2>3. PICK a : a = m.age + 1
    OBVIOUS
  <2>4. d = [m EXCEPT !.age = a]
    BY <2>1, <2>3
  <2>5. d.age = a
    BY <2>2, <2>4 DEF Datagram
  <2> QED BY <2>2, <2>3, <2>5
<1> QED BY <1>2, <1>3, <1>4, <1>5, <1>6 DEF Next

\* A process that died is in no new ack any more once the TTL, and the time
\* its last request may have been under way, are over: prune_stale() runs
\* before the list is made (relink_rlcore.cpp:221).  For any number of nodes
\* and topics, whatever is lost and however long a datagram is under way.
THEOREM DeadNotHandedOutHolds == Spec => DeadNotHandedOut
<1>1. RegistryInv /\ [Next]_vars => [HandedOutLately]_vars
  BY StepHandsOutLately
<1>2. Spec => []RegistryInv
  BY RegistryInvariant
<1> QED BY <1>1, <1>2, PTL DEF Spec, DeadNotHandedOut, HandedOutLately

-----------------------------------------------------------------------------
(* Who is alive stays listed.  Here the network loses nothing; a node's     *)
(* requests and announces still are under way for up to MaxDelay, and it    *)
(* wakes up to MaxLate late.                                                *)

\* No single wait for an ack is longer than L (1.6 s in the code: five attempts
\* from 100 ms).
LongestWait(L) ==
  /\ L \in Nat
  /\ InitTimeout <= L
  /\ \A k \in 1 .. MaxRetries : BaseTimeout * 2^(k - 1) <= L

\* While it waits a node asks for every topic without a peer, and no wait or
\* sleep is longer than its timeout and the thread's lateness.
WaitInv(L) ==
  \A n \in Node :
    /\ phase[n] = "wait" => attempt[n] >= 1
    /\ Waiting(n) => Pending(n) \subseteq asked[n] /\ timer[n] <= L
    /\ phase[n] = "sleep" => timer[n] <= Interval + MaxLate

\* How long ago, at most, n last sent a request for what it is looking for.
Since(n, L) == IF phase[n] = "sleep" THEN L + timer[n] ELSE timer[n]

\* A request of n for t is under way that will refresh an entry of this age.
Refreshing(n, t, age, L) ==
  \E m \in net : /\ m.kind = "register" /\ m.node = n /\ t \in m.topics
                 /\ age <= L + Interval + MaxLate + m.age

\* The entry of a topic without a peer is as old as the last request, or the
\* last request is under way and the entry as old as the one before.
SearchInv(L) ==
  \A n \in Node, t \in Topic :
    Running(n) /\ peers[n][t] = {} /\ lastSeen[<<t, n>>] # Absent =>
      lastSeen[<<t, n>>] <= Since(n, L) \/ Refreshing(n, t, lastSeen[<<t, n>>], L)

\* The answer to a request of n is in the queue or under way, or the request
\* is; the first request is no younger than age.
Answered(n, age) ==
  \/ replies[n] # << >> /\ age <= 2 * MaxDelay
  \/ \E m \in net : m.kind = "ack" /\ m.node = n /\ age <= MaxDelay + m.age
  \/ \E m \in net : m.kind = "register" /\ m.node = n /\ age <= m.age

\* A role announce of n is under way that will refresh an entry of this age.
Announcing(n, age) ==
  \E m \in net : /\ m.kind = "role" /\ m.node = n
                 /\ age <= 2 * MaxDelay + Interval + MaxLate + m.age

\* A role entry of this age will be refreshed, or was by the last announce.
RoleKept(n, age) ==
  \/ Announcing(n, age)
  \/ phase[n] = "sleep" /\ age <= 2 * MaxDelay + timer[n]
  \/ phase[n] = "wait" /\ Answered(n, age)

\* Roles are announced when the thread wakes, by the nodes that do so, and not
\* again before the registration that follows has been answered.
RoleInv ==
  /\ \A m \in net : m.kind = "role" => m.node \in Announcers /\ phase[m.node] # "start"
  /\ \A n \in Node :
       /\ phase[n] = "sleep" => timer[n] <= Interval + MaxLate
       /\ phase[n] = "wait" => Answered(n, 0)
       /\ roleSeen[n] # Absent => n \in Announcers /\ phase[n] # "start"
       /\ Running(n) /\ roleSeen[n] # Absent => RoleKept(n, roleSeen[n])

LEMMA InitLeases ==
  ASSUME Init, NEW L
  PROVE  WaitInv(L) /\ SearchInv(L) /\ RoleInv
BY DEF Init, WaitInv, SearchInv, RoleInv, Running, Waiting

\* An entry disappears only when it is older than the TTL.
LEMMA OnlyStaleGoes ==
  ASSUME RegistryInv, [Next]_vars, NEW n \in Node
  PROVE  /\ roleSeen[n] # Absent /\ roleSeen'[n] = Absent => roleSeen[n] > Ttl
         /\ \A t \in Topic : lastSeen[<<t, n>>] # Absent /\ lastSeen'[<<t, n>>] = Absent
                               => lastSeen[<<t, n>>] > Ttl
<1> USE RegistryAssumption
<1>1. TypeOK
  BY DEF RegistryInv, Shape
<1>2. lastSeen \in [Topic \X Node -> Age] /\ roleSeen \in [Node -> Age]
  BY <1>1 DEF TypeOK
<1>3. ASSUME NEW p \in Node, Start(p) \/ Wake(p) \/ TakeReply(p) \/ TimeOut(p) \/ Crash(p)
      PROVE  UNCHANGED serverVars
  BY <1>3 DEF Start, Wake, TakeReply, TimeOut, Crash
<1>4. ASSUME NEW m \in net, ReceiveAck(m) \/ Lose(m)
      PROVE  UNCHANGED serverVars
  BY <1>4 DEF ReceiveAck, Lose
<1>5. CASE UNCHANGED serverVars
  BY <1>5 DEF serverVars
<1>6. CASE PruneIdle
  BY <1>2, <1>6 DEF PruneIdle, Prune, Absent
<1>7. ASSUME NEW m \in net, HandleRegister(m) \/ HandleRole(m)
      PROVE  /\ roleSeen[n] # Absent /\ roleSeen'[n] = Absent => roleSeen[n] > Ttl
             /\ \A t \in Topic : lastSeen[<<t, n>>] # Absent /\ lastSeen'[<<t, n>>] = Absent
                                   => lastSeen[<<t, n>>] > Ttl
  <2>1. ASSUME NEW t \in Topic, lastSeen[<<t, n>>] # Absent, lastSeen'[<<t, n>>] = Absent
        PROVE  lastSeen[<<t, n>>] > Ttl
    <3>1. Prune(lastSeen)[<<t, n>>] = Absent
      <4>1. CASE HandleRegister(m)
        <5>1. lastSeen' = Insert(Prune(lastSeen), m.node, m.topics)
          BY <4>1 DEF HandleRegister
        <5>2. <<t, n>> \in DOMAIN Prune(lastSeen)
          BY <1>2 DEF Prune
        <5> QED BY <2>1, <5>1, <5>2 DEF Insert, Absent
      <4>2. CASE HandleRole(m)
        BY <2>1, <4>2 DEF HandleRole
      <4> QED BY <1>7, <4>1, <4>2
    <3> QED BY <1>2, <2>1, <3>1 DEF Prune
  <2>2. ASSUME roleSeen[n] # Absent, roleSeen'[n] = Absent
        PROVE  roleSeen[n] > Ttl
    <3>1. Prune(roleSeen)[n] = Absent
      <4>1. DOMAIN Prune(roleSeen) = Node
        BY <1>2 DEF Prune
      <4> QED BY <1>7, <2>2, <4>1 DEF HandleRegister, HandleRole, Absent
    <3> QED BY <1>2, <2>2, <3>1 DEF Prune
  <2> QED BY <2>1, <2>2
<1>8. CASE Tick
  BY <1>2, <1>8 DEF Tick, Older, Absent, Age
<1>9. CASE UNCHANGED vars
  BY <1>5, <1>9 DEF vars
<1> QED BY <1>3, <1>4, <1>5, <1>6, <1>7, <1>8, <1>9 DEF Next

\* The waits of the nodes.
LEMMA WaitStep ==
  ASSUME NEW L, LongestWait(L), RegistryInv, WaitInv(L), [Next]_vars
  PROVE  WaitInv(L)'
<1> USE RegistryAssumption
<1>1. TypeOK /\ L \in Nat
  BY DEF RegistryInv, Shape, LongestWait
<1>2. ASSUME UNCHANGED nodeVars PROVE WaitInv(L)'
  BY <1>2 DEF nodeVars, WaitInv, Waiting, Pending
<1>3. ASSUME NEW p \in Node, Start(p) \/ Wake(p) \/ TakeReply(p) \/ TimeOut(p) \/ Crash(p),
             NEW n \in Node
      PROVE  /\ phase'[n] = "wait" => attempt'[n] >= 1
             /\ Waiting(n)' => Pending(n)' \subseteq asked'[n] /\ timer'[n] <= L
             /\ phase'[n] = "sleep" => timer'[n] <= Interval + MaxLate
  <2>0. /\ phase[n] = "wait" => attempt[n] >= 1
        /\ Waiting(n) => Pending(n) \subseteq asked[n] /\ timer[n] <= L
        /\ phase[n] = "sleep" => timer[n] <= Interval + MaxLate
    BY DEF WaitInv
  <2>1. CASE n # p
    <3>1. /\ phase'[n] = phase[n] /\ timer'[n] = timer[n] /\ attempt'[n] = attempt[n]
          /\ asked'[n] = asked[n] /\ peers'[n] = peers[n]
      BY <1>1, <1>3, <2>1
         DEF TypeOK, Start, Wake, TakeReply, TimeOut, Crash, FinishRegistration
    <3> QED BY <2>0, <3>1 DEF Waiting, Pending
  <2>2. CASE n = p /\ Start(p)
    BY <1>1, <2>2 DEF TypeOK, Start, Waiting, Pending
  <2>3. CASE n = p /\ Wake(p)
    <3>1. PICK reg : /\ Pending(n) \subseteq reg
                     /\ phase' = [phase EXCEPT ![n] = IF reg = {} THEN "sleep" ELSE "wait"]
                     /\ attempt' = [attempt EXCEPT ![n] = IF reg = {} THEN 0 ELSE 1]
                     /\ asked' = [asked EXCEPT ![n] = reg]
                     /\ timer' = [timer EXCEPT ![n] = 0]
                     /\ UNCHANGED peers
      BY <2>3 DEF Wake, ToRegister, Pending
    <3> QED BY <1>1, <3>1 DEF TypeOK, Waiting, Pending
  <2>4. CASE n = p /\ (TakeReply(p) \/ Crash(p))
    BY <1>1, <2>4 DEF TypeOK, TakeReply, Crash, FinishRegistration, Waiting
  <2>5. CASE n = p /\ TimeOut(p)
    BY <1>1, <2>0, <2>5 DEF TypeOK, TimeOut, FinishRegistration, Waiting, Pending
  <2> QED BY <1>3, <2>1, <2>2, <2>3, <2>4, <2>5
<1>4. ASSUME NEW m \in net, ReceiveAck(m) \/ HandleRegister(m) \/ HandleRole(m) \/ Lose(m)
      PROVE  WaitInv(L)'
  <2>1. UNCHANGED <<phase, timer, attempt, asked, peers>>
    BY <1>4 DEF ReceiveAck, HandleRegister, HandleRole, Lose, nodeVars
  <2> QED BY <2>1 DEF WaitInv, Waiting, Pending
<1>5. ASSUME Tick, NEW n \in Node
      PROVE  /\ phase'[n] = "wait" => attempt'[n] >= 1
             /\ Waiting(n)' => Pending(n)' \subseteq asked'[n] /\ timer'[n] <= L
             /\ phase'[n] = "sleep" => timer'[n] <= Interval + MaxLate
  <2>1. /\ phase[n] = "wait" => attempt[n] >= 1
        /\ Waiting(n) => Pending(n) \subseteq asked[n] /\ timer[n] <= L
        /\ phase[n] = "sleep" => timer[n] <= Interval + MaxLate
    BY DEF WaitInv
  <2>2. /\ UNCHANGED <<phase, attempt, asked, peers>>
        /\ Running(n) => timer[n] < Deadline(n) /\ timer'[n] = timer[n] + 1
    BY <1>5 DEF Tick
  <2>3. timer[n] \in Nat /\ attempt[n] \in 0 .. MaxRetries
    BY <1>1 DEF TypeOK
  <2>4. Waiting(n) => Backoff(n) <= L /\ Backoff(n) \in Int
    <3>1. CASE phase[n] = "start"
      BY <3>1 DEF Backoff, LongestWait
    <3>2. CASE phase[n] = "wait"
      <4>1. attempt[n] \in 1 .. MaxRetries
        BY <2>1, <2>3, <3>2
      <4>2. BaseTimeout * 2^(attempt[n] - 1) <= L
        BY <4>1 DEF LongestWait
      <4>3. attempt[n] - 1 \in Nat
        BY <4>1
      <4> QED BY <3>2, <4>2, <4>3 DEF Backoff
    <3> QED BY <3>1, <3>2 DEF Waiting
  <2>5. Waiting(n) => timer'[n] <= L
    <3>1. Waiting(n) => Running(n) /\ phase[n] # "sleep"
      BY DEF Waiting, Running
    <3> QED BY <1>1, <2>2, <2>3, <2>4, <3>1 DEF Deadline
  <2>6. phase[n] = "sleep" => timer'[n] <= Interval + MaxLate
    BY <2>2, <2>3 DEF Deadline, Running
  <2> QED BY <2>1, <2>2, <2>5, <2>6 DEF Waiting, Pending
<1>6. ASSUME PruneIdle PROVE WaitInv(L)'
  BY <1>2, <1>6 DEF PruneIdle
<1>7. ASSUME UNCHANGED vars PROVE WaitInv(L)'
  BY <1>2, <1>7 DEF vars
<1>8. ASSUME Tick PROVE WaitInv(L)'
  BY <1>5, <1>8 DEF WaitInv
<1>9. ASSUME NEW p \in Node, Start(p) \/ Wake(p) \/ TakeReply(p) \/ TimeOut(p) \/ Crash(p)
      PROVE  WaitInv(L)'
  BY <1>3, <1>9 DEF WaitInv
<1> QED BY <1>4, <1>6, <1>7, <1>8, <1>9 DEF Next

\* No request is lost; roles and acks may be.
RequestsArrive ==
  \A m \in net : m.kind = "register" /\ Lose(m) => HandleRegister(m)

LEMMA SearchStep ==
  ASSUME NEW L, LongestWait(L), RequestsArrive,
         RegistryInv, WaitInv(L), SearchInv(L), [Next]_vars
  PROVE  SearchInv(L)'
<1> USE RegistryAssumption
<1>1. /\ TypeOK /\ net \subseteq Datagram /\ L \in Nat
      /\ lastSeen \in [Topic \X Node -> Age] /\ timer \in [Node -> Nat]
  BY DEF RegistryInv, Shape, TypeOK, LongestWait
<1> SUFFICES ASSUME NEW n \in Node, NEW t \in Topic,
                    Running(n)', peers'[n][t] = {}, lastSeen'[<<t, n>>] # Absent
             PROVE  \/ lastSeen'[<<t, n>>] <= Since(n, L)'
                    \/ Refreshing(n, t, lastSeen[<<t, n>>], L)'
  BY DEF SearchInv
<1>2. Running(n) /\ peers[n][t] = {} /\ lastSeen[<<t, n>>] # Absent =>
        lastSeen[<<t, n>>] <= Since(n, L) \/ Refreshing(n, t, lastSeen[<<t, n>>], L)
  BY DEF SearchInv
<1>3. lastSeen[<<t, n>>] # Absent => t \in Declares[n] /\ phase[n] # "off"
  BY DEF RegistryInv, TableInv, SentWithin
<1>4. /\ Waiting(n) => Pending(n) \subseteq asked[n] /\ timer[n] <= L
      /\ phase[n] = "sleep" => timer[n] <= Interval + MaxLate
  BY DEF WaitInv
<1>5. timer[n] \in Nat /\ lastSeen[<<t, n>>] \in Age
  BY <1>1
\* Nothing the node does brings the entry, or what will refresh it, closer to
\* the TTL.
<1>6. ASSUME NEW p \in Node, Start(p) \/ Wake(p) \/ TakeReply(p) \/ TimeOut(p) \/ Crash(p)
      PROVE  \/ lastSeen'[<<t, n>>] <= Since(n, L)'
             \/ Refreshing(n, t, lastSeen[<<t, n>>], L)'
  <2>1. lastSeen' = lastSeen /\ net \subseteq net'
    BY <1>6 DEF Start, Wake, TakeReply, TimeOut, Crash, serverVars
  <2>2. ASSUME Refreshing(n, t, lastSeen[<<t, n>>], L)
        PROVE  Refreshing(n, t, lastSeen[<<t, n>>], L)'
    BY <2>1, <2>2 DEF Refreshing
  <2>3. lastSeen[<<t, n>>] \in Nat
    BY <1>5, <2>1 DEF Age
  <2>4. CASE n # p
    <3>1. /\ phase'[n] = phase[n] /\ timer'[n] = timer[n] /\ peers'[n] = peers[n]
      BY <1>1, <1>6, <2>4
         DEF TypeOK, Start, Wake, TakeReply, TimeOut, Crash, FinishRegistration
    <3> QED BY <1>2, <2>1, <2>2, <3>1 DEF Since, Running
  <2>5. CASE n = p /\ Start(p)
    BY <1>3, <2>1, <2>5 DEF Start
  <2>6. CASE n = p /\ Wake(p)
    <3>1. PICK reg : /\ Pending(n) \subseteq reg
                     /\ reg # {} => Request(n, reg, 1) \in net'
                     /\ UNCHANGED peers /\ phase[n] = "sleep"
      BY <2>6 DEF Wake, ToRegister, Pending
    <3>2. t \in reg
      BY <1>3, <2>1, <3>1 DEF Pending
    <3>3. Request(n, reg, 1) \in net'
      BY <3>1, <3>2
    <3>4. ASSUME lastSeen[<<t, n>>] <= Since(n, L)
          PROVE  Refreshing(n, t, lastSeen[<<t, n>>], L)'
      <4>1. lastSeen'[<<t, n>>] <= L + Interval + MaxLate + 0
        BY <1>1, <1>4, <1>5, <2>1, <2>3, <3>1, <3>4 DEF Since
      <4> QED BY <3>2, <3>3, <4>1 DEF Refreshing, Request
    <3> QED BY <1>2, <2>1, <2>2, <3>1, <3>4 DEF Running
  <2>7. CASE n = p /\ TakeReply(p)
    <3>1. peers[n][t] = {} /\ Waiting(n) /\ phase'[n] = "sleep" /\ timer'[n] = 0
      <4>1. peers'[n] = AddPeers(peers[n], Head(replies[n]))
        BY <1>1, <2>7 DEF TakeReply, TypeOK
      <4>2. peers[n][t] \subseteq peers'[n][t]
        BY <4>1 DEF AddPeers
      <4> QED BY <1>1, <2>7, <4>2 DEF TakeReply, TypeOK, FinishRegistration
    <3>2. Running(n) /\ phase[n] # "sleep"
      BY <3>1 DEF Running, Waiting
    <3> QED BY <1>1, <1>2, <1>4, <1>5, <2>1, <2>2, <2>3, <3>1, <3>2 DEF Since
  <2>8. CASE n = p /\ TimeOut(p)
    <3>1. UNCHANGED peers /\ Waiting(n)
      BY <2>8 DEF TimeOut
    <3>2. Running(n) /\ phase[n] # "sleep" /\ t \in asked[n]
      BY <1>3, <1>4, <2>1, <3>1 DEF Running, Waiting, Pending
    <3>3. CASE attempt[n] < RetryLimit(n)
      <4>1. Request(n, asked[n], attempt[n] + 1) \in net'
        BY <2>8, <3>3 DEF TimeOut
      <4>2. ASSUME lastSeen[<<t, n>>] <= Since(n, L)
            PROVE  Refreshing(n, t, lastSeen[<<t, n>>], L)'
        <5>1. lastSeen'[<<t, n>>] <= L + Interval + MaxLate + 0
          BY <1>1, <1>4, <1>5, <2>1, <2>3, <3>1, <3>2, <4>2 DEF Since
        <5> QED BY <3>2, <4>1, <5>1 DEF Refreshing, Request
      <4> QED BY <1>2, <2>1, <2>2, <3>1, <3>2, <4>2
    <3>4. CASE ~(attempt[n] < RetryLimit(n))
      <4>1. phase'[n] = "sleep" /\ timer'[n] = 0
        BY <1>1, <2>8, <3>4 DEF TimeOut, TypeOK, FinishRegistration
      <4> QED BY <1>1, <1>2, <1>4, <1>5, <2>1, <2>2, <2>3, <3>1, <3>2, <4>1 DEF Since
    <3> QED BY <3>3, <3>4
  <2>9. CASE n = p /\ Crash(p)
    BY <1>1, <2>9 DEF Crash, TypeOK, Running
  <2> QED BY <1>6, <2>4, <2>5, <2>6, <2>7, <2>8, <2>9
\* A step of the server: the entry is refreshed, or stays, or goes, and only a
\* request that refreshes it is taken off the network.
<1>7. ASSUME UNCHANGED nodeVars,
             lastSeen'[<<t, n>>] \in {0, lastSeen[<<t, n>>], Absent},
             \/ lastSeen'[<<t, n>>] = 0
             \/ \A m \in net : m.kind = "register" /\ m.node = n /\ t \in m.topics
                                 => m \in net'
      PROVE  \/ lastSeen'[<<t, n>>] <= Since(n, L)'
             \/ Refreshing(n, t, lastSeen[<<t, n>>], L)'
  <2>1. UNCHANGED <<phase, timer, peers>>
    BY <1>7 DEF nodeVars
  <2>2. CASE lastSeen'[<<t, n>>] = 0
    BY <1>1, <1>5, <2>1, <2>2 DEF Since
  <2>3. CASE lastSeen'[<<t, n>>] # 0
    <3>1. lastSeen'[<<t, n>>] = lastSeen[<<t, n>>]
      BY <1>7, <2>3
    <3>2. CASE lastSeen[<<t, n>>] <= Since(n, L)
      BY <2>1, <3>1, <3>2 DEF Since
    <3>3. CASE Refreshing(n, t, lastSeen[<<t, n>>], L)
      BY <1>7, <2>3, <3>1, <3>3 DEF Refreshing
    <3> QED BY <1>2, <2>1, <3>1, <3>2, <3>3 DEF Running
  <2> QED BY <2>2, <2>3
<1>8. ASSUME NEW m \in net, ReceiveAck(m) \/ HandleRole(m) \/ (Lose(m) /\ m.kind # "register")
      PROVE  \/ lastSeen'[<<t, n>>] <= Since(n, L)'
             \/ Refreshing(n, t, lastSeen[<<t, n>>], L)'
  <2>1. /\ m.kind # "register" /\ net' = net \ {m}
        /\ UNCHANGED <<phase, timer, peers>>
        /\ lastSeen' = lastSeen \/ lastSeen' = Prune(lastSeen)
    BY <1>8 DEF ReceiveAck, HandleRole, Lose, nodeVars, serverVars
  <2>2. lastSeen'[<<t, n>>] = lastSeen[<<t, n>>]
    BY <2>1, PruneForgets
  <2>3. CASE lastSeen[<<t, n>>] <= Since(n, L)
    BY <2>1, <2>2, <2>3 DEF Since
  <2>4. CASE Refreshing(n, t, lastSeen[<<t, n>>], L)
    BY <2>1, <2>2, <2>4 DEF Refreshing
  <2> QED BY <1>2, <2>1, <2>2, <2>3, <2>4 DEF Running
<1>9. ASSUME NEW m \in net, HandleRegister(m)
      PROVE  \/ lastSeen'[<<t, n>>] <= Since(n, L)'
             \/ Refreshing(n, t, lastSeen[<<t, n>>], L)'
  <2>1. /\ lastSeen' = Insert(Prune(lastSeen), m.node, m.topics)
        /\ net \ {m} \subseteq net' /\ UNCHANGED nodeVars
    BY <1>9 DEF HandleRegister
  <2>2. /\ Prune(lastSeen)[<<t, n>>] \in {lastSeen[<<t, n>>], Absent}
        /\ <<t, n>> \in DOMAIN Prune(lastSeen)
    BY PruneForgets
  <2>3. CASE t \in m.topics /\ m.node = n
    <3>1. lastSeen'[<<t, n>>] = 0
      BY <2>1, <2>2, <2>3 DEF Insert
    <3> QED BY <1>7, <2>1, <3>1
  <2>4. CASE ~(t \in m.topics /\ m.node = n)
    <3>1. lastSeen'[<<t, n>>] = Prune(lastSeen)[<<t, n>>]
      BY <2>1, <2>2, <2>4 DEF Insert
    <3> QED BY <1>7, <2>1, <2>2, <2>4, <3>1
  <2> QED BY <2>3, <2>4
<1>10. ASSUME PruneIdle \/ UNCHANGED vars
       PROVE  \/ lastSeen'[<<t, n>>] <= Since(n, L)'
              \/ Refreshing(n, t, lastSeen[<<t, n>>], L)'
  <2>1. UNCHANGED nodeVars /\ net' = net /\ (lastSeen' = lastSeen \/ lastSeen' = Prune(lastSeen))
    BY <1>10 DEF PruneIdle, vars, serverVars
  <2>2. lastSeen'[<<t, n>>] \in {0, lastSeen[<<t, n>>], Absent}
    BY <2>1, PruneForgets
  <2> QED BY <1>7, <2>1, <2>2
<1>11. ASSUME Tick
       PROVE  \/ lastSeen'[<<t, n>>] <= Since(n, L)'
              \/ Refreshing(n, t, lastSeen[<<t, n>>], L)'
  <2>1. /\ UNCHANGED <<phase, peers>>
        /\ lastSeen'[<<t, n>>] = Older(lastSeen[<<t, n>>])
        /\ net' = {[m EXCEPT !.age = @ + 1] : m \in net}
    BY <1>1, <1>11 DEF Tick
  <2>2. Running(n)
    BY <2>1 DEF Running
  <2>3. timer'[n] = timer[n] + 1
    BY <1>11, <2>2 DEF Tick
  <2>4. PICK age \in Nat : age = lastSeen[<<t, n>>]
    BY <1>5, <2>1 DEF Older, Age
  <2>5. PICK later \in Nat : later = lastSeen'[<<t, n>>] /\ later <= age + 1
    BY <2>1, <2>4 DEF Older
  <2>6. age <= Since(n, L) \/ Refreshing(n, t, age, L)
    BY <1>2, <2>1, <2>2, <2>4 DEF Absent
  <2>7. CASE age <= Since(n, L)
    <3>1. PICK since \in Nat : since = Since(n, L)
      BY <1>1, <1>5 DEF Since
    <3>2. Since(n, L)' = since + 1
      BY <1>1, <1>5, <2>1, <2>3, <3>1 DEF Since
    <3> QED BY <2>5, <2>7, <3>1, <3>2
  <2>8. CASE Refreshing(n, t, age, L)
    <3>1. PICK m \in net : /\ m.kind = "register" /\ m.node = n /\ t \in m.topics
                           /\ age <= L + Interval + MaxLate + m.age
      BY <2>8 DEF Refreshing
    <3>2. PICK a \in Nat : a = m.age
      <4>1. m.age \in 0 .. MaxDelay
        BY <1>1 DEF TypeOK
      <4> QED BY <4>1
    <3>3. PICK d : d = [m EXCEPT !.age = a + 1]
      OBVIOUS
    <3>4. d \in net'
      BY <2>1, <3>2, <3>3
    <3>5. m \in [kind : {"register"}, node : Node, topics : SUBSET Topic, no : Nat,
                 age : 0 .. MaxDelay]
      BY <1>1, <3>1 DEF Datagram
    <3>6. d.kind = "register" /\ d.node = n /\ t \in d.topics /\ d.age = a + 1
      BY <3>1, <3>3, <3>5
    <3>7. later <= L + Interval + MaxLate + (a + 1)
      BY <1>1, <2>5, <3>1, <3>2
    <3> QED BY <2>5, <3>4, <3>6, <3>7 DEF Refreshing
  <2> QED BY <2>6, <2>7, <2>8
<1> QED BY <1>6, <1>8, <1>9, <1>10, <1>11 DEF Next, RequestsArrive

\* What no step does.
KeepsSearching ==
  \A n \in Node, t \in Topic : Evicted(t, n) /\ Running(n) => peers[n][t] # {}

\* While a node has no peer for a topic the server never drops it from that
\* topic (relink.hpp:1655-1663), for every number of nodes and topics and
\* every timing, if no request is lost and the longest wait for an ack, the
\* interval, the lateness of the thread and the delay of a datagram together
\* are within the TTL.  Acks need not be in time, nor be sent or arrive at all:
\* the retries, too, refresh the entry.
THEOREM SearchingListedIfRequestsArrive ==
  ASSUME NEW CONSTANT L, LongestWait(L), L + Interval + MaxLate + MaxDelay <= Ttl
  PROVE  Spec /\ [][RequestsArrive]_vars => SearchingStaysListed
<1> DEFINE Inv == RegistryInv /\ WaitInv(L) /\ SearchInv(L)
<1>1. Init => Inv
  BY InitRegistry, InitLeases
<1>2. Inv /\ [Next]_vars /\ [RequestsArrive]_vars => Inv'
  <2>1. UNCHANGED vars => RequestsArrive
    BY DEF RequestsArrive, vars, Lose
  <2> QED BY <2>1, NextKeepsRegistry, WaitStep, SearchStep
<1>3. Inv /\ [Next]_vars => [KeepsSearching]_vars
  <2> SUFFICES ASSUME Inv, [Next]_vars, NEW n \in Node, NEW t \in Topic,
                      Evicted(t, n), Running(n), peers[n][t] = {}
               PROVE  FALSE
    BY DEF KeepsSearching
  <2> USE RegistryAssumption
  <2>1. lastSeen[<<t, n>>] > Ttl
    BY OnlyStaleGoes DEF Evicted
  <2>2. /\ lastSeen[<<t, n>>] \in Nat /\ timer[n] \in Nat /\ L \in Nat
        /\ \A m \in net : m.age \in 0 .. MaxDelay
    BY DEF RegistryInv, Shape, TypeOK, Age, Evicted, LongestWait
  <2>3. \/ lastSeen[<<t, n>>] <= Since(n, L)
        \/ Refreshing(n, t, lastSeen[<<t, n>>], L)
    BY DEF SearchInv, Evicted
  <2>4. Since(n, L) <= L + Interval + MaxLate
    <3>1. /\ phase[n] = "sleep" => timer[n] <= Interval + MaxLate
          /\ Waiting(n) => timer[n] <= L
      BY DEF WaitInv
    <3> QED BY <2>2, <3>1 DEF Since, Running, Waiting
  <2>5. Since(n, L) \in Nat
    BY <2>2 DEF Since
  <2>6. CASE lastSeen[<<t, n>>] <= Since(n, L)
    BY <2>1, <2>2, <2>4, <2>5, <2>6
  <2>7. CASE Refreshing(n, t, lastSeen[<<t, n>>], L)
    <3>1. PICK m \in net : lastSeen[<<t, n>>] <= L + Interval + MaxLate + m.age
      BY <2>7 DEF Refreshing
    <3> QED BY <2>1, <2>2, <3>1
  <2> QED BY <2>3, <2>6, <2>7
<1> QED BY <1>1, <1>2, <1>3, PTL DEF Spec, SearchingStaysListed, KeepsSearching

\* In particular without any loss.
THEOREM SearchingStaysListedHolds ==
  ASSUME AllowLoss = FALSE,
         NEW CONSTANT L, LongestWait(L), L + Interval + MaxLate + MaxDelay <= Ttl
  PROVE  Spec => SearchingStaysListed
<1>1. RequestsArrive
  BY DEF RequestsArrive, Lose
<1>2. Spec /\ [][RequestsArrive]_vars => SearchingStaysListed
  BY SearchingListedIfRequestsArrive
<1> QED BY <1>1, <1>2, PTL

\* Every ack a request can get fits into one datagram.
AcksFit ==
  \A n \in Node : \A list \in SUBSET (Declares[n] \X Node) :
    Cardinality(list) <= MaxAckPeers

LEMMA AnsweredInTime ==
  ASSUME RegistryInv, NEW n \in Node, NEW age \in Nat, Answered(n, age)
  PROVE  age <= 2 * MaxDelay /\ \A b \in 0 .. age : Answered(n, b)
<1>1. \A m \in net : m.age \in 0 .. MaxDelay
  BY DEF RegistryInv, Shape, TypeOK
<1>2. MaxDelay \in Nat
  BY RegistryAssumption
<1> QED BY <1>1, <1>2 DEF Answered

\* The announces under way.
LEMMA RolesUnderWay ==
  ASSUME AllowLoss = FALSE, RegistryInv, RoleInv, [Next]_vars, NEW m \in net', m.kind = "role"
  PROVE  m.node \in Announcers /\ phase'[m.node] # "start"
<1> USE RegistryAssumption
<1>1. TypeOK /\ net \subseteq Datagram
  BY DEF RegistryInv, Shape
<1>2. \A d \in net : d.kind = "role" =>
        d.node \in Announcers /\ phase[d.node] \notin {"off", "start"}
  BY DEF RoleInv, RegistryInv, SenderInv, SentWithin
<1>3. ASSUME NEW p \in Node, Start(p) \/ Wake(p) \/ TakeReply(p) \/ TimeOut(p) \/ Crash(p)
      PROVE  m.node \in Announcers /\ phase'[m.node] # "start"
  <2>1. CASE m \in net
    <3>1. \A q \in Node : phase[q] \notin {"off", "start"} => phase'[q] # "start"
      BY <1>1, <1>3 DEF TypeOK, Start, Wake, TakeReply, TimeOut, Crash, FinishRegistration
    <3> QED BY <1>2, <2>1, <3>1
  <2>2. CASE m \notin net
    <3>1. Wake(p)
      BY <1>3, <2>2 DEF Start, TakeReply, TimeOut, Crash, Request
    <3>2. m = RoleAnnounce(p) /\ p \in Announcers
      BY <2>2, <3>1 DEF Wake, Request, RoleDatagrams
    <3>3. m.node = p
      BY <3>2 DEF RoleAnnounce
    <3> QED BY <1>1, <3>1, <3>2, <3>3 DEF Wake, TypeOK
  <2> QED BY <2>1, <2>2
<1>4. ASSUME NEW d \in net, ReceiveAck(d) \/ HandleRegister(d) \/ HandleRole(d) \/ Lose(d)
      PROVE  m.node \in Announcers /\ phase'[m.node] # "start"
  <2>1. UNCHANGED phase /\ m \in net
    BY <1>4 DEF ReceiveAck, HandleRegister, HandleRole, Lose, nodeVars, Ack
  <2> QED BY <1>2, <2>1
<1>5. ASSUME PruneIdle \/ UNCHANGED vars
      PROVE  m.node \in Announcers /\ phase'[m.node] # "start"
  <2>1. UNCHANGED <<phase, net>>
    BY <1>5 DEF PruneIdle, vars, nodeVars
  <2> QED BY <1>2, <2>1
<1>6. ASSUME Tick
      PROVE  m.node \in Announcers /\ phase'[m.node] # "start"
  <2>1. UNCHANGED phase /\ \E d \in net : m = [d EXCEPT !.age = @ + 1]
    BY <1>6 DEF Tick
  <2>2. PICK d \in net : m.kind = d.kind /\ m.node = d.node
    BY <1>1, <2>1 DEF Datagram
  <2> QED BY <1>2, <2>1, <2>2
<1> QED BY <1>3, <1>4, <1>5, <1>6 DEF Next

\* What RoleInv says of one node.
RolesOf(n) ==
  /\ phase[n] = "sleep" => timer[n] <= Interval + MaxLate
  /\ phase[n] = "wait" => Answered(n, 0)
  /\ roleSeen[n] # Absent => n \in Announcers /\ phase[n] # "start"
  /\ Running(n) /\ roleSeen[n] # Absent => RoleKept(n, roleSeen[n])

\* A step that leaves the node, its announces and its answers alone.
LEMMA RolesStay ==
  ASSUME RegistryInv, NEW n \in Node, RolesOf(n),
         phase'[n] = phase[n], timer'[n] = timer[n],
         roleSeen'[n] \in {roleSeen[n], Absent},
         \A m \in net : m.kind = "role" /\ m.node = n => m \in net',
         \A age \in Nat : Answered(n, age) => Answered(n, age)'
  PROVE  RolesOf(n)'
<1>1. roleSeen[n] \in Age
  BY DEF RegistryInv, Shape, TypeOK
<1>2. ASSUME roleSeen'[n] # Absent, Running(n)' PROVE RoleKept(n, roleSeen[n])'
  <2>1. roleSeen'[n] = roleSeen[n] /\ roleSeen[n] \in Nat
    BY <1>1, <1>2, RegistryAssumption DEF Age
  <2>2. RoleKept(n, roleSeen[n])
    BY <1>2, <2>1 DEF RolesOf, Running
  <2>3. Announcing(n, roleSeen[n]) => Announcing(n, roleSeen[n])'
    BY <2>1 DEF Announcing
  <2>4. Answered(n, roleSeen[n]) => Answered(n, roleSeen[n])'
    <3>1. PICK age \in Nat : age = roleSeen[n] /\ age = roleSeen'[n]
      BY <2>1
    <3>2. Answered(n, age) => Answered(n, age)'
      OBVIOUS
    <3> QED BY <3>1, <3>2 DEF Answered
  <2> QED BY <2>1, <2>2, <2>3, <2>4 DEF RoleKept
<1>3. phase'[n] = "wait" => Answered(n, 0)'
  BY DEF RolesOf
<1> QED BY <1>2, <1>3 DEF RolesOf

LEMMA NodeKeepsRoles ==
  ASSUME RegistryInv, NEW n \in Node, RolesOf(n), NEW p \in Node,
         Start(p) \/ Wake(p) \/ TakeReply(p) \/ TimeOut(p) \/ Crash(p)
  PROVE  RolesOf(n)'
<1> USE RegistryAssumption
<1>1. /\ TypeOK /\ roleSeen[n] \in Age /\ timer[n] \in Nat
      /\ roleSeen[n] # Absent => phase[n] # "off"
  BY DEF RegistryInv, Shape, TypeOK, TableInv, SentWithin
<1>2. roleSeen' = roleSeen /\ net \subseteq net'
  BY DEF Start, Wake, TakeReply, TimeOut, Crash, serverVars
<1>3. Announcing(n, roleSeen[n]) => Announcing(n, roleSeen[n])'
  BY <1>2 DEF Announcing
<1>4. CASE n # p
  <2>1. phase'[n] = phase[n] /\ timer'[n] = timer[n] /\ replies'[n] = replies[n]
    BY <1>1, <1>4 DEF TypeOK, Start, Wake, TakeReply, TimeOut, Crash, FinishRegistration
  <2>2. \A age \in Nat : Answered(n, age) => Answered(n, age)'
    BY <1>2, <2>1 DEF Answered
  <2> QED BY <1>2, <2>1, <2>2, RolesStay
<1>5. CASE n = p /\ Start(p)
  <2>1. phase'[n] = "start" /\ roleSeen'[n] = Absent
    BY <1>1, <1>2, <1>5 DEF Start, TypeOK
  <2> QED BY <2>1 DEF RolesOf
<1>6. CASE n = p /\ Wake(p)
  <2>1. PICK reg, k : /\ phase' = [phase EXCEPT ![n] = IF reg = {} THEN "sleep" ELSE "wait"]
                      /\ RoleDatagrams(n, k) \subseteq net'
                      /\ reg # {} => Request(n, reg, 1) \in net'
                      /\ timer' = [timer EXCEPT ![n] = 0]
                      /\ phase[n] = "sleep"
    BY <1>6 DEF Wake
  <2>2. phase'[n] = (IF reg = {} THEN "sleep" ELSE "wait") /\ timer'[n] = 0
    BY <1>1, <2>1 DEF TypeOK
  <2>3. phase'[n] = "wait" => Answered(n, 0)'
    <3>1. ASSUME phase'[n] = "wait" PROVE Request(n, reg, 1) \in net'
      BY <2>1, <2>2, <3>1
    <3> QED BY <3>1 DEF Answered, Request
  <2>4. ASSUME roleSeen[n] # Absent PROVE RoleKept(n, roleSeen[n])'
    <3>1. RoleAnnounce(n) \in net'
      BY <2>1, <2>4 DEF RolesOf, RoleDatagrams
    <3>2. roleSeen[n] \in Nat
      BY <1>1, <2>4 DEF Age
    <3>3. CASE roleSeen[n] <= 2 * MaxDelay + timer[n]
      <4>1. roleSeen'[n] <= 2 * MaxDelay + Interval + MaxLate + 0
        BY <1>1, <1>2, <2>1, <3>2, <3>3 DEF RolesOf
      <4> QED BY <3>1, <4>1 DEF RoleKept, Announcing, RoleAnnounce
    <3>4. CASE Announcing(n, roleSeen[n])
      BY <1>3, <3>4 DEF RoleKept
    <3> QED BY <2>1, <2>4, <3>3, <3>4 DEF RolesOf, RoleKept, Running
  <2> QED BY <1>2, <2>2, <2>3, <2>4 DEF RolesOf
\* The registration is over.
<1>7. ASSUME phase'[n] = "sleep", timer'[n] = 0, Waiting(n)
      PROVE  RolesOf(n)'
  <2>1. ASSUME roleSeen[n] # Absent PROVE RoleKept(n, roleSeen[n])'
    <3>1. phase[n] = "wait" /\ Running(n)
      BY <1>7, <2>1 DEF RolesOf, Waiting, Running
    <3>2. roleSeen[n] \in Nat
      BY <1>1, <2>1 DEF Age
    <3>3. CASE Answered(n, roleSeen[n])
      <4>1. roleSeen'[n] <= 2 * MaxDelay + 0
        BY <1>2, <3>2, <3>3, AnsweredInTime
      <4> QED BY <1>7, <4>1 DEF RoleKept
    <3>4. CASE Announcing(n, roleSeen[n])
      BY <1>3, <3>4 DEF RoleKept
    <3> QED BY <2>1, <3>1, <3>3, <3>4 DEF RolesOf, RoleKept
  <2> QED BY <1>2, <1>7, <2>1 DEF RolesOf
<1>8. CASE n = p /\ TakeReply(p)
  <2>1. phase'[n] = "sleep" /\ timer'[n] = 0 /\ Waiting(n)
    BY <1>1, <1>8 DEF TakeReply, FinishRegistration, TypeOK
  <2> QED BY <1>7, <2>1
<1>9. CASE n = p /\ TimeOut(p)
  <2>1. CASE attempt[n] < RetryLimit(n)
    <3>1. /\ phase'[n] = phase[n] /\ timer'[n] = 0 /\ replies' = replies /\ Waiting(n)
      BY <1>1, <1>9, <2>1 DEF TimeOut, TypeOK
    <3>2. phase[n] # "sleep"
      BY <3>1 DEF Waiting
    <3>3. \A age \in Nat : Answered(n, age) => Answered(n, age)'
      BY <1>2, <3>1 DEF Answered
    <3>4. ASSUME roleSeen[n] # Absent PROVE RoleKept(n, roleSeen[n])'
      <4>1. PICK age \in Nat : age = roleSeen[n] /\ age = roleSeen'[n]
        BY <1>1, <1>2, <3>4 DEF Age
      <4>2. CASE Answered(n, age) /\ phase[n] = "wait"
        BY <3>1, <3>3, <4>1, <4>2 DEF RoleKept, Answered
      <4>3. CASE Announcing(n, age)
        BY <1>3, <4>1, <4>3 DEF RoleKept
      <4> QED BY <3>1, <3>2, <3>4, <4>1, <4>2, <4>3 DEF RolesOf, RoleKept, Running, Waiting
    <3>5. phase'[n] = "wait" => Answered(n, 0)'
      BY <3>1, <3>3 DEF RolesOf
    <3> QED BY <1>2, <3>1, <3>2, <3>4, <3>5 DEF RolesOf
  <2>2. CASE ~(attempt[n] < RetryLimit(n))
    <3>1. phase'[n] = "sleep" /\ timer'[n] = 0 /\ Waiting(n)
      BY <1>1, <1>9, <2>2 DEF TimeOut, FinishRegistration, TypeOK
    <3> QED BY <1>7, <3>1
  <2> QED BY <2>1, <2>2
<1>10. CASE n = p /\ Crash(p)
  <2>1. phase'[n] = "dead"
    BY <1>1, <1>10 DEF Crash, TypeOK
  <2> QED BY <1>2, <2>1 DEF RolesOf, Running
<1> QED BY <1>4, <1>5, <1>6, <1>8, <1>9, <1>10

\* The answers stay on their way: a request becomes an ack, an ack a reply in
\* the queue.
LEMMA DatagramKeepsRoles ==
  ASSUME AllowLoss = FALSE, AcksFit, RegistryInv, RoleInv, NEW n \in Node, RolesOf(n),
         NEW m \in net, ReceiveAck(m) \/ HandleRegister(m) \/ HandleRole(m) \/ Lose(m)
  PROVE  RolesOf(n)'
<1> USE RegistryAssumption
<1>1. /\ TypeOK /\ net \subseteq Datagram /\ roleSeen \in [Node -> Age]
      /\ timer[n] \in Nat /\ Prune(roleSeen)[n] \in {roleSeen[n], Absent}
      /\ m.age \in 0 .. MaxDelay
  BY PruneForgets DEF RegistryInv, Shape, TypeOK
<1>2. UNCHANGED <<phase, timer>>
  BY DEF ReceiveAck, HandleRegister, HandleRole, Lose, nodeVars
<1>3. CASE ReceiveAck(m)
  <2>1. /\ m.kind = "ack" /\ net' = net \ {m} /\ roleSeen' = roleSeen
        /\ replies' = [replies EXCEPT ![m.node] =
                         IF Running(m.node) THEN Enqueue(@, m.peers) ELSE @]
    BY <1>3 DEF ReceiveAck, serverVars
  <2>2. CASE Running(n) /\ phase[n] = "wait"
    <3>1. replies[n] \in Seq(SUBSET (Topic \X Node)) /\ Len(replies[n]) <= QueueCap
      BY <1>1 DEF TypeOK
    <3>2. replies[n] # << >> => replies'[n] # << >>
      BY <1>3, <2>1, <3>1 DEF Enqueue
    <3>3. CASE m.node # n
      <4>1. \A age \in Nat : Answered(n, age) => Answered(n, age)'
        BY <2>1, <3>2, <3>3 DEF Answered
      <4> QED BY <1>2, <2>1, <4>1, RolesStay
    <3>4. CASE m.node = n
      <4>1. replies'[n] # << >>
        <5>1. replies'[n] = Enqueue(replies[n], m.peers)
          BY <1>1, <2>1, <2>2, <3>4 DEF TypeOK
        <5>2. Append(replies[n], m.peers) # << >>
          BY <3>1
        <5> QED BY <3>1, <5>1, <5>2 DEF Enqueue
      <4>2. \A age \in Nat : Answered(n, age) => Answered(n, age)'
        BY <4>1, AnsweredInTime DEF Answered
      <4> QED BY <1>2, <2>1, <4>2, RolesStay
    <3> QED BY <3>3, <3>4
  <2>3. CASE phase[n] # "wait"
    <3>1. Announcing(n, roleSeen[n]) => Announcing(n, roleSeen[n])'
      BY <2>1 DEF Announcing
    <3> QED BY <1>2, <2>1, <2>3, <3>1 DEF RolesOf, RoleKept, Running
  <2> QED BY <2>2, <2>3 DEF Running
<1>4. CASE HandleRegister(m)
  <2>1. PICK list : list = PeerList(lastSeen', m.node, m.topics)
    OBVIOUS
  <2>2. /\ m.kind = "register" /\ roleSeen' = Prune(roleSeen) /\ UNCHANGED replies
        /\ net' = (net \ {m}) \cup (IF Cardinality(list) <= MaxAckPeers
                                    THEN {Ack(m.node, list, m.no)} ELSE {})
    BY <1>4, <2>1 DEF HandleRegister, nodeVars
  <2>3. Ack(m.node, list, m.no) \in net'
    <3>1. m.node \in Node /\ m.topics \subseteq Declares[m.node]
      BY <1>1, <2>2 DEF TypeOK, RegistryInv, SenderInv
    <3>2. list \subseteq Declares[m.node] \X Node
      <4>1. DOMAIN lastSeen' = Topic \X Node
        <5>1. lastSeen' = Insert(Prune(lastSeen), m.node, m.topics)
          BY <1>4 DEF HandleRegister
        <5> QED BY <5>1, PruneForgets DEF Insert
      <4> QED BY <2>1, <3>1, <4>1 DEF PeerList
    <3>3. Cardinality(list) <= MaxAckPeers
      BY <3>1, <3>2 DEF AcksFit
    <3> QED BY <2>2, <3>3
  <2>4. ASSUME NEW age \in Nat, Answered(n, age) PROVE Answered(n, age)'
    <3>1. CASE m.node = n /\ age <= m.age
      <4>1. PICK ack : ack = Ack(m.node, list, m.no)
        OBVIOUS
      <4>2. ack \in net' /\ ack.kind = "ack" /\ ack.node = n /\ ack.age = 0
        BY <2>3, <3>1, <4>1 DEF Ack
      <4>3. age <= MaxDelay + ack.age
        BY <1>1, <3>1, <4>2
      <4> QED BY <4>2, <4>3 DEF Answered
    <3>2. CASE ~(m.node = n /\ age <= m.age)
      BY <2>2, <2>4, <3>2 DEF Answered
    <3> QED BY <3>1, <3>2
  <2> QED BY <1>1, <1>2, <2>2, <2>4, RolesStay
<1>5. CASE HandleRole(m)
  <2>1. /\ m.kind = "role" /\ net' = net \ {m} /\ UNCHANGED replies
        /\ roleSeen' = [Prune(roleSeen) EXCEPT ![m.node] = 0]
    BY <1>5 DEF HandleRole, nodeVars
  <2>2. \A age \in Nat : Answered(n, age) => Answered(n, age)'
    BY <2>1 DEF Answered
  <2>3. CASE m.node # n
    <3>1. roleSeen'[n] = Prune(roleSeen)[n]
      BY <2>1, <2>3
    <3> QED BY <1>1, <1>2, <2>1, <2>2, <2>3, <3>1, RolesStay
  <2>4. CASE m.node = n
    <3>1. roleSeen'[n] = 0
      <4>1. DOMAIN Prune(roleSeen) = Node
        BY <1>1 DEF Prune
      <4> QED BY <2>1, <2>4, <4>1
    <3>2. n \in Announcers /\ phase[n] # "start"
      BY <2>1, <2>4 DEF RoleInv
    <3>3. phase'[n] = "wait" => Answered(n, 0)'
      BY <1>2, <2>2 DEF RolesOf
    <3>4. Running(n)' => RoleKept(n, 0)'
      BY <1>1, <1>2, <3>2, <3>3 DEF RoleKept, Running
    <3>5. Running(n)' => RoleKept(n, roleSeen[n])'
      BY <3>1, <3>4 DEF RoleKept, Announcing, Answered
    <3> QED BY <1>2, <3>2, <3>3, <3>5 DEF RolesOf
  <2> QED BY <2>3, <2>4
<1>6. CASE Lose(m)
  BY <1>6 DEF Lose
<1> QED BY <1>3, <1>4, <1>5, <1>6

\* Time brings entries and datagrams forward alike; it does not pass while an
\* answer waits in the queue.
LEMMA TickKeepsRoles ==
  ASSUME RegistryInv, NEW n \in Node, RolesOf(n), Tick
  PROVE  RolesOf(n)'
<1> USE RegistryAssumption
<1>1. /\ TypeOK /\ net \subseteq Datagram /\ roleSeen[n] \in Age /\ timer[n] \in Nat
      /\ \A m \in net : m.age \in 0 .. MaxDelay
  BY DEF RegistryInv, Shape, TypeOK
<1>2. /\ UNCHANGED <<phase, replies>>
      /\ roleSeen'[n] = Older(roleSeen[n])
      /\ net' = {[m EXCEPT !.age = @ + 1] : m \in net}
      /\ Running(n) => timer'[n] = timer[n] + 1 /\ timer[n] < Deadline(n)
  BY DEF Tick
<1>3. ASSUME NEW m \in net
      PROVE  \E d \in net' : /\ d.kind = m.kind /\ d.node = m.node /\ d.age = m.age + 1
  <2>1. PICK a \in Nat : a = m.age
    BY <1>1
  <2>2. PICK d : d = [m EXCEPT !.age = a + 1]
    OBVIOUS
  <2>3. d \in net'
    BY <1>2, <2>1, <2>2
  <2>4. m \in Datagram
    BY <1>1
  <2>5. d.kind = m.kind /\ d.node = m.node /\ d.age = a + 1
    BY <2>2, <2>4 DEF Datagram
  <2> QED BY <2>1, <2>3, <2>5
<1>4. ASSUME NEW age \in Nat, NEW later \in 0 .. (age + 1), phase[n] = "wait", Answered(n, age)
      PROVE  Answered(n, later)'
  <2>1. replies[n] = << >>
    BY <1>1, <1>2, <1>4 DEF Running, Deadline
  <2>2. CASE \E m \in net : m.kind = "ack" /\ m.node = n /\ age <= MaxDelay + m.age
    <3>1. PICK m \in net : m.kind = "ack" /\ m.node = n /\ age <= MaxDelay + m.age
      BY <2>2
    <3>2. PICK d \in net' : d.kind = "ack" /\ d.node = n /\ d.age = m.age + 1
      BY <1>3, <3>1
    <3>3. later <= MaxDelay + d.age
      BY <1>1, <3>1, <3>2
    <3> QED BY <3>2, <3>3 DEF Answered
  <2>3. CASE \E m \in net : m.kind = "register" /\ m.node = n /\ age <= m.age
    <3>1. PICK m \in net : m.kind = "register" /\ m.node = n /\ age <= m.age
      BY <2>3
    <3>2. PICK d \in net' : d.kind = "register" /\ d.node = n /\ d.age = m.age + 1
      BY <1>3, <3>1
    <3>3. later <= d.age
      BY <1>1, <3>1, <3>2
    <3> QED BY <3>2, <3>3 DEF Answered
  <2> QED BY <1>4, <2>1, <2>2, <2>3 DEF Answered
<1>5. phase'[n] = "wait" => Answered(n, 0)'
  BY <1>2, <1>4 DEF RolesOf
<1>6. phase'[n] = "sleep" => timer'[n] <= Interval + MaxLate
  BY <1>1, <1>2 DEF Running, Deadline
<1>7. ASSUME Running(n)', roleSeen'[n] # Absent PROVE RoleKept(n, roleSeen[n])'
  <2>1. Running(n) /\ roleSeen[n] # Absent
    BY <1>2, <1>7 DEF Running, Older
  <2>2. PICK age \in Nat : age = roleSeen[n]
    BY <1>1, <2>1 DEF Age
  <2>3. PICK later \in Nat : later = roleSeen'[n] /\ later <= age + 1
    BY <1>2, <2>2 DEF Older
  <2>4. RoleKept(n, age)
    BY <2>1, <2>2 DEF RolesOf
  <2>5. CASE Announcing(n, age)
    <3>1. PICK m \in net : /\ m.kind = "role" /\ m.node = n
                           /\ age <= 2 * MaxDelay + Interval + MaxLate + m.age
      BY <2>5 DEF Announcing
    <3>2. PICK d \in net' : d.kind = "role" /\ d.node = n /\ d.age = m.age + 1
      BY <1>3, <3>1
    <3>3. later <= 2 * MaxDelay + Interval + MaxLate + d.age
      BY <1>1, <2>3, <3>1, <3>2
    <3> QED BY <2>3, <3>2, <3>3 DEF RoleKept, Announcing
  <2>6. CASE phase[n] = "sleep" /\ age <= 2 * MaxDelay + timer[n]
    <3>1. later <= 2 * MaxDelay + timer'[n]
      BY <1>1, <1>2, <2>1, <2>3, <2>6
    <3> QED BY <1>2, <2>3, <2>6, <3>1 DEF RoleKept
  <2>7. CASE phase[n] = "wait" /\ Answered(n, age)
    <3>1. Answered(n, later)'
      BY <1>4, <2>3, <2>7
    <3> QED BY <1>2, <2>3, <2>7, <3>1 DEF RoleKept, Answered
  <2> QED BY <2>4, <2>5, <2>6, <2>7 DEF RoleKept
<1>8. roleSeen'[n] # Absent => n \in Announcers /\ phase'[n] # "start"
  BY <1>2 DEF Older, RolesOf
<1> QED BY <1>5, <1>6, <1>7, <1>8 DEF RolesOf

LEMMA RoleStep ==
  ASSUME AllowLoss = FALSE, AcksFit, RegistryInv, RoleInv, [Next]_vars
  PROVE  RoleInv'
<1>1. \A n \in Node : RolesOf(n)
  BY DEF RoleInv, RolesOf
<1>2. ASSUME NEW n \in Node PROVE RolesOf(n)'
  <2>1. RolesOf(n) /\ Prune(roleSeen)[n] \in {roleSeen[n], Absent}
    BY <1>1, PruneForgets
  <2>2. ASSUME PruneIdle \/ UNCHANGED vars PROVE RolesOf(n)'
    <3>1. /\ UNCHANGED <<phase, timer, replies, net>>
          /\ roleSeen' = roleSeen \/ roleSeen' = Prune(roleSeen)
      BY <2>2 DEF PruneIdle, vars, nodeVars, serverVars
    <3>2. \A age \in Nat : Answered(n, age) => Answered(n, age)'
      BY <3>1 DEF Answered
    <3> QED BY <2>1, <3>1, <3>2, RolesStay
  <2> QED BY <2>1, <2>2, NodeKeepsRoles, DatagramKeepsRoles, TickKeepsRoles DEF Next
<1>3. \A m \in net' : m.kind = "role" => m.node \in Announcers /\ phase'[m.node] # "start"
  BY RolesUnderWay
<1> QED BY <1>2, <1>3 DEF RoleInv, RolesOf

KeepsRoles ==
  \A n \in Node : roleSeen[n] # Absent /\ roleSeen'[n] = Absent => ~Running(n)

\* The roles of a live node do not disappear from the server
\* (relink.hpp:1624-1631), for every number of nodes and topics and every
\* timing, if nothing is lost and an exchange with the server, the interval,
\* the lateness of the thread and the delay of a datagram together are within
\* the TTL.  Acks have to fit: the thread announces nothing while it waits, and
\* for an ack that never comes it waits for longer than the TTL (3.1 s).
THEOREM RolesStayListedHolds ==
  ASSUME AllowLoss = FALSE, AcksFit,
         2 * MaxDelay + Interval + MaxLate + MaxDelay <= Ttl
  PROVE  Spec => RolesStayListed
<1> DEFINE Inv == RegistryInv /\ RoleInv
<1>1. Init => Inv
  BY InitRegistry, InitLeases
<1>2. Inv /\ [Next]_vars => Inv'
  BY NextKeepsRegistry, RoleStep
<1>3. Inv /\ [Next]_vars => [KeepsRoles]_vars
  <2> SUFFICES ASSUME Inv, [Next]_vars, NEW n \in Node,
                      roleSeen[n] # Absent, roleSeen'[n] = Absent, Running(n)
               PROVE  FALSE
    BY DEF KeepsRoles
  <2> USE RegistryAssumption
  <2>1. PICK age \in Nat : age = roleSeen[n] /\ age > Ttl
    <3>1. roleSeen[n] > Ttl
      BY OnlyStaleGoes
    <3>2. roleSeen[n] \in Age
      BY DEF RegistryInv, Shape, TypeOK
    <3> QED BY <3>1, <3>2 DEF Age
  <2>2. /\ timer[n] \in Nat /\ \A m \in net : m.age \in 0 .. MaxDelay
        /\ phase[n] = "sleep" => timer[n] <= Interval + MaxLate
        /\ RoleKept(n, age)
    BY <2>1 DEF RegistryInv, Shape, TypeOK, RoleInv
  <2>3. CASE Announcing(n, age)
    BY <2>1, <2>2, <2>3 DEF Announcing
  <2>4. CASE phase[n] = "sleep" /\ age <= 2 * MaxDelay + timer[n]
    BY <2>1, <2>2, <2>4
  <2>5. CASE Answered(n, age)
    BY <2>1, <2>5, AnsweredInTime
  <2> QED BY <2>2, <2>3, <2>4, <2>5 DEF RoleKept
<1> QED BY <1>1, <1>2, <1>3, PTL DEF Spec, RolesStayListed, KeepsRoles

-----------------------------------------------------------------------------
(* Induction over the natural numbers, for the recursive functions below:  *)
(* the intervals 0 .. n are ordered by strict inclusion, which is well     *)
(* founded, so that a counterexample would have a least one.               *)

LEMMA LeastNumber ==
  ASSUME NEW T \in SUBSET Nat, T # {}
  PROVE  \E x \in T : \A y \in T : x <= y
<1> DEFINE below == {0 .. n : n \in T}
<1>1. below \in SUBSET FiniteSubsetsOf(Nat) /\ below # {}
  <2>1. ASSUME NEW n \in T PROVE 0 .. n \in FiniteSubsetsOf(Nat)
    BY FS_Interval DEF FiniteSubsetsOf
  <2> QED BY <2>1
<1>2. PICK b \in below :
        \A c \in below : ~(<<c, b>> \in StrictSubsetOrdering(Nat))
  <2>1. IsWellFoundedOn(StrictSubsetOrdering(Nat), FiniteSubsetsOf(Nat))
    BY FS_StrictSubsetOrderingWellFounded
  <2> HIDE DEF below
  <2> QED BY <1>1, <2>1, WFMin
<1>3. PICK x \in T : b = 0 .. x
  BY <1>2
<1>4. ASSUME NEW y \in T, y < x PROVE FALSE
  <2>1. x \in 0 .. x /\ x \notin 0 .. y /\ 0 .. y \subseteq 0 .. x
    BY <1>4
  <2>2. 0 .. y \in below /\ <<0 .. y, 0 .. x>> \in StrictSubsetOrdering(Nat)
    BY <2>1 DEF StrictSubsetOrdering
  <2> QED BY <1>2, <1>3, <2>2
<1> QED BY <1>4

LEMMA Induction ==
  ASSUME NEW T \in SUBSET Nat, 0 \in T, \A n \in T : n + 1 \in T
  PROVE  T = Nat
<1> SUFFICES ASSUME Nat \ T # {} PROVE FALSE
  OBVIOUS
<1>1. PICK x \in Nat \ T : \A y \in Nat \ T : x <= y
  BY LeastNumber
<1>2. x - 1 \in T
  BY <1>1
<1> QED BY <1>1, <1>2

\* f is base at 0, and G makes each value from the one before.
Follows(f, base, G, n) ==
  f[0] = base /\ \A i \in 1 .. n : f[i] = G[<<f[i - 1], i>>]

StepFunctions(S, n) == [S \X (1 .. n) -> S]

\* Such a function exists.
LEMMA RecursionExists ==
  ASSUME NEW S, NEW base \in S, NEW n \in Nat, NEW G \in StepFunctions(S, n)
  PROVE  \E f \in [0 .. n -> S] : Follows(f, base, G, n)
<1> USE DEF StepFunctions
<1> DEFINE IsUpTo(f, m) ==
             f[0] = base /\ \A i \in 1 .. m : f[i] = G[<<f[i - 1], i>>]
           T == {m \in Nat : m <= n => \E f \in [0 .. n -> S] : IsUpTo(f, m)}
<1>1. 0 \in T
  <2>1. [i \in 0 .. n |-> base] \in [0 .. n -> S]
    OBVIOUS
  <2>2. IsUpTo([i \in 0 .. n |-> base], 0)
    OBVIOUS
  <2> QED BY <2>1, <2>2
<1>2. ASSUME NEW m \in T PROVE m + 1 \in T
  <2> SUFFICES ASSUME m + 1 <= n
               PROVE  \E f \in [0 .. n -> S] : IsUpTo(f, m + 1)
    OBVIOUS
  <2>1. PICK f \in [0 .. n -> S] : IsUpTo(f, m)
    OBVIOUS
  <2>2. PICK v \in S : v = G[<<f[m], m + 1>>]
    OBVIOUS
  <2>3. PICK g \in [0 .. n -> S] : g = [f EXCEPT ![m + 1] = v]
    OBVIOUS
  <2>4. g[m + 1] = v /\ \A i \in 0 .. m : g[i] = f[i]
    BY <2>3
  <2>5. ASSUME NEW i \in 1 .. (m + 1) PROVE g[i] = G[<<g[i - 1], i>>]
    <3>1. CASE i = m + 1
      <4>1. i - 1 = m /\ m \in 0 .. m
        BY <3>1
      <4>2. g[i - 1] = f[m]
        BY <2>4, <4>1
      <4> QED BY <2>2, <2>4, <3>1, <4>2
    <3>2. CASE i <= m
      <4>1. i \in 1 .. m /\ i - 1 \in 0 .. m /\ i \in 0 .. m
        BY <3>2
      <4> QED BY <2>1, <2>4, <4>1
    <3> QED BY <3>1, <3>2
  <2> QED BY <2>1, <2>4, <2>5
<1>3. n \in T
  <2>1. T \in SUBSET Nat
    OBVIOUS
  <2> HIDE DEF T
  <2>2. T = Nat
    BY <1>1, <1>2, <2>1, Induction
  <2> QED BY <2>2
<1> QED BY <1>3 DEF Follows

-----------------------------------------------------------------------------
(* Cutting a list into packets. *)

\* The entries of any of the packets: what matters is their length.
Sized(E) == \A e \in E : e.bytes \in Nat

\* PacketLen adds up the entries.
LEMMA PacketLenSteps ==
  ASSUME NEW E, Sized(E), NEW c \in Seq(E)
  PROVE  \E off \in [0 .. Len(c) -> Nat] :
           /\ off[0] = kHeaderLen
           /\ \A i \in 1 .. Len(c) : off[i] = off[i - 1] + c[i].bytes
           /\ PacketLen(c) = off[Len(c)]
<1>1. PICK n \in Nat : n = Len(c)
  OBVIOUS
<1>2. \A i \in 1 .. n : c[i].bytes \in Nat
  BY <1>1 DEF Sized
<1>3. PICK G : G = [x \in Nat \X (1 .. n) |-> x[1] + c[x[2]].bytes]
  OBVIOUS
<1>4. G \in [Nat \X (1 .. n) -> Nat]
  BY <1>2, <1>3
<1>5. kHeaderLen \in Nat
  BY DEF kHeaderLen
<1>6. PICK f \in [0 .. n -> Nat] : Follows(f, kHeaderLen, G, n)
  <2>1. G \in StepFunctions(Nat, n)
    BY <1>4 DEF StepFunctions
  <2> QED BY <1>5, <2>1, RecursionExists
<1>7. \A i \in 1 .. n : f[i] = f[i - 1] + c[i].bytes
  <2>1. ASSUME NEW i \in 1 .. n PROVE f[i] = f[i - 1] + c[i].bytes
    <3>1. f[i - 1] \in Nat
      BY <1>6
    <3> QED BY <1>3, <1>6, <3>1 DEF Follows
  <2> QED BY <2>1
<1> DEFINE P(g) == g = [i \in 0 .. Len(c) |->
                          IF i = 0 THEN kHeaderLen ELSE g[i - 1] + c[i].bytes]
<1>8. P(f)
  BY <1>1, <1>6, <1>7 DEF Follows
<1>9. P(CHOOSE g : P(g))
  <2> HIDE DEF P
  <2> QED BY <1>8
<1>10. PICK g : P(g) /\ PacketLen(c) = g[Len(c)]
  BY <1>9 DEF PacketLen
<1>11. g[0] = kHeaderLen /\ \A i \in 1 .. n : g[i] = g[i - 1] + c[i].bytes
  BY <1>1, <1>10
<1>12. g \in [0 .. n -> Nat]
  <2> DEFINE T == {i \in Nat : i <= n => g[i] \in Nat}
  <2>1. 0 \in T
    BY <1>5, <1>11
  <2>2. ASSUME NEW i \in T PROVE i + 1 \in T
    <3>1. CASE i + 1 <= n
      <4>1. g[i] \in Nat /\ c[i + 1].bytes \in Nat
        BY <1>2, <3>1
      <4>2. g[i + 1] = g[i] + c[i + 1].bytes
        BY <1>11, <3>1
      <4> QED BY <4>1, <4>2
    <3> QED BY <3>1
  <2>3. T \in SUBSET Nat
    OBVIOUS
  <2>4. T = Nat
    <3> HIDE DEF T
    <3> QED BY <2>1, <2>2, <2>3, Induction
  <2> QED BY <1>1, <1>10, <2>4
<1> QED BY <1>1, <1>10, <1>11, <1>12

LEMMA PacketLenAppend ==
  ASSUME NEW E, Sized(E), NEW c \in Seq(E), NEW e \in E
  PROVE  /\ PacketLen(<<e>>) = kHeaderLen + e.bytes
         /\ PacketLen(Append(c, e)) = PacketLen(c) + e.bytes
         /\ PacketLen(c) \in Nat
<1>1. PICK n \in Nat : n = Len(c)
  OBVIOUS
<1>2. PICK d \in Seq(E) : d = Append(c, e)
  <2>1. Append(c, e) \in Seq(E)
    OBVIOUS
  <2> QED BY <2>1
<1>3. Len(d) = n + 1 /\ d[n + 1] = e /\ \A i \in 1 .. n : d[i] = c[i]
  BY <1>1, <1>2
<1>4. PICK f \in [0 .. n -> Nat] :
        /\ f[0] = kHeaderLen
        /\ \A i \in 1 .. n : f[i] = f[i - 1] + c[i].bytes
        /\ PacketLen(c) = f[n]
  BY <1>1, PacketLenSteps
<1>5. PICK g \in [0 .. (n + 1) -> Nat] :
        /\ g[0] = kHeaderLen
        /\ \A i \in 1 .. (n + 1) : g[i] = g[i - 1] + d[i].bytes
        /\ PacketLen(d) = g[n + 1]
  BY <1>3, PacketLenSteps
<1>6. g[n] = f[n]
  <2> DEFINE T == {i \in Nat : i <= n => g[i] = f[i]}
  <2>1. 0 \in T
    BY <1>4, <1>5
  <2>2. ASSUME NEW i \in T PROVE i + 1 \in T
    <3>1. CASE i + 1 <= n
      <4>1. g[i] = f[i] /\ d[i + 1] = c[i + 1]
        BY <1>3, <3>1
      <4>2. g[i + 1] = g[i] + d[i + 1].bytes /\ f[i + 1] = f[i] + c[i + 1].bytes
        <5>1. i + 1 \in 1 .. n /\ i + 1 \in 1 .. (n + 1) /\ (i + 1) - 1 = i
          BY <3>1
        <5> QED BY <1>4, <1>5, <5>1
      <4> QED BY <4>1, <4>2
    <3> QED BY <3>1
  <2>3. T \in SUBSET Nat
    OBVIOUS
  <2>4. T = Nat
    <3> HIDE DEF T
    <3> QED BY <2>1, <2>2, <2>3, Induction
  <2>5. n \in T
    BY <2>4
  <2> QED BY <2>5
<1>7. PacketLen(d) = PacketLen(c) + e.bytes
  BY <1>3, <1>4, <1>5, <1>6
<1>8. PacketLen(<<e>>) = kHeaderLen + e.bytes
  <2>1. <<e>> \in Seq(E) /\ Len(<<e>>) = 1 /\ <<e>>[1] = e
    OBVIOUS
  <2>2. PICK h \in [0 .. 1 -> Nat] :
          /\ h[0] = kHeaderLen
          /\ \A i \in 1 .. 1 : h[i] = h[i - 1] + <<e>>[i].bytes
          /\ PacketLen(<<e>>) = h[1]
    BY <2>1, PacketLenSteps
  <2> QED BY <2>1, <2>2
<1> QED BY <1>2, <1>4, <1>7, <1>8

\* Every entry fits into a packet by itself.
Small(E, maxPacket) == \A e \in E : kHeaderLen + e.bytes <= maxPacket

\* What a list of chunks contains; and that a receiver accepts all of them.
Contents(chunks) == UNION {ToSet(chunks[j]) : j \in 1 .. Len(chunks)}

Fits(E, chunks, maxEntries, maxPacket) ==
  \A j \in 1 .. Len(chunks) :
    /\ Len(chunks[j]) \in 1 .. maxEntries
    /\ Small(E, maxPacket) => PacketLen(chunks[j]) <= maxPacket

\* One entry: the chunks go on fitting, and the entry is in one of them.
LEMMA AddEntryFits ==
  ASSUME NEW E, Sized(E), NEW k \in Nat \ {0}, NEW p \in Nat,
         NEW chunks \in Seq(Seq(E)), Fits(E, chunks, k, p),
         NEW e \in E
  PROVE  /\ AddEntry(chunks, e, k, p) \in Seq(Seq(E))
         /\ Fits(E, AddEntry(chunks, e, k, p), k, p)
         /\ Contents(AddEntry(chunks, e, k, p)) = Contents(chunks) \cup {e}
<1>1. PICK n \in Nat : n = Len(chunks)
  OBVIOUS
<1>2. PICK r : r = AddEntry(chunks, e, k, p)
  OBVIOUS
<1>3. CASE chunks = << >> \/ Full(Last(chunks), e, k, p)
  <2>1. r = Append(chunks, <<e>>)
    BY <1>2, <1>3 DEF AddEntry
  <2>2. <<e>> \in Seq(E) /\ Len(<<e>>) = 1
    OBVIOUS
  <2>3. /\ r \in Seq(Seq(E)) /\ Len(r) = n + 1
        /\ r[n + 1] = <<e>> /\ \A j \in 1 .. n : r[j] = chunks[j]
    BY <1>1, <2>1, <2>2
  <2>4. Small(E, p) => PacketLen(<<e>>) <= p
    <3>1. << >> \in Seq(E)
      OBVIOUS
    <3>2. PacketLen(<<e>>) = kHeaderLen + e.bytes
      BY <3>1, PacketLenAppend
    <3> QED BY <3>2 DEF Small
  <2>5. \A j \in 1 .. (n + 1) : j \in 1 .. n \/ j = n + 1
    OBVIOUS
  <2>6. Fits(E, r, k, p)
    <3>1. ASSUME NEW j \in 1 .. (n + 1)
          PROVE  Len(r[j]) \in 1 .. k /\ (Small(E, p) => PacketLen(r[j]) <= p)
      <4>1. CASE j = n + 1
        <5>1. r[j] = <<e>> /\ 1 \in 1 .. k
          BY <2>3, <4>1
        <5> QED BY <2>2, <2>4, <5>1
      <4>2. CASE j \in 1 .. n
        BY <1>1, <2>3, <4>2 DEF Fits
      <4> QED BY <2>5, <4>1, <4>2
    <3> QED BY <2>3, <3>1 DEF Fits
  <2>7. Contents(r) = Contents(chunks) \cup {e}
    <3>1. ToSet(<<e>>) = {e}
      <4>1. DOMAIN <<e>> = {1} /\ <<e>>[1] = e
        OBVIOUS
      <4> QED BY <4>1 DEF ToSet
    <3>2. n + 1 \in 1 .. (n + 1) /\ 1 .. n \subseteq 1 .. (n + 1)
      OBVIOUS
    <3> QED BY <1>1, <2>3, <2>5, <3>1, <3>2 DEF Contents
  <2> QED BY <1>2, <2>3, <2>6, <2>7
<1>4. CASE ~(chunks = << >> \/ Full(Last(chunks), e, k, p))
  <2>1. n \in 1 .. n
    BY <1>1, <1>4
  <2>2. PICK c \in Seq(E) : c = chunks[n]
    BY <1>1, <2>1
  <2>3. Len(c) < k /\ PacketLen(c) + e.bytes <= p
    <3>1. PacketLen(c) \in Nat
      BY PacketLenAppend
    <3>2. Len(c) \in Nat /\ e.bytes \in Nat
      BY DEF Sized
    <3> QED BY <1>1, <1>4, <2>2, <3>1, <3>2 DEF Full, Last
  <2>4. PICK d \in Seq(E) : d = Append(c, e)
    <3>1. Append(c, e) \in Seq(E)
      OBVIOUS
    <3> QED BY <3>1
  <2>5. Len(d) \in 1 .. k /\ PacketLen(d) <= p
    <3>1. Len(d) = Len(c) + 1
      BY <2>4
    <3>2. PacketLen(d) = PacketLen(c) + e.bytes
      BY <2>4, PacketLenAppend
    <3> QED BY <2>3, <3>1, <3>2
  <2>6. r = [chunks EXCEPT ![n] = d]
    BY <1>1, <1>2, <1>4, <2>2, <2>4 DEF AddEntry
  <2>7. /\ r \in Seq(Seq(E)) /\ Len(r) = n
        /\ r[n] = d /\ \A j \in 1 .. n : j # n => r[j] = chunks[j]
    <3>1. n \in 1 .. Len(chunks)
      BY <1>1, <2>1
    <3> QED BY <1>1, <2>1, <2>6, <3>1, ExceptSeq
  <2>8. Fits(E, r, k, p)
    <3>1. ASSUME NEW j \in 1 .. n
          PROVE  Len(r[j]) \in 1 .. k /\ (Small(E, p) => PacketLen(r[j]) <= p)
      <4>1. CASE j = n
        BY <2>5, <2>7, <4>1
      <4>2. CASE j # n
        BY <1>1, <2>7, <4>2 DEF Fits
      <4> QED BY <4>1, <4>2
    <3> QED BY <2>7, <3>1 DEF Fits
  <2>9. Contents(r) = Contents(chunks) \cup {e}
    <3>1. ToSet(r[n]) = ToSet(chunks[n]) \cup {e}
      <4>1. ToSet(d) = ToSet(c) \cup {e}
        <5>1. PICK m \in Nat : m = Len(c)
          OBVIOUS
        <5>2. /\ DOMAIN d = 1 .. (m + 1) /\ DOMAIN c = 1 .. m
              /\ d[m + 1] = e /\ \A i \in 1 .. m : d[i] = c[i]
          BY <2>4, <5>1
        <5>3. \A i \in 1 .. (m + 1) : i \in 1 .. m \/ i = m + 1
          OBVIOUS
        <5>4. m + 1 \in 1 .. (m + 1) /\ 1 .. m \subseteq 1 .. (m + 1)
          OBVIOUS
        <5> QED BY <5>2, <5>3, <5>4 DEF ToSet
      <4> QED BY <2>2, <2>7, <4>1
    <3>2. Contents(chunks) = UNION {ToSet(chunks[j]) : j \in 1 .. n}
          /\ Contents(r) = UNION {ToSet(r[j]) : j \in 1 .. n}
      BY <1>1, <2>7 DEF Contents
    <3>3. \A j \in 1 .. n : j # n => ToSet(r[j]) = ToSet(chunks[j])
      BY <2>7
    <3>4. \A x : x \in Contents(r) <=> \E j \in 1 .. n : x \in ToSet(r[j])
      BY <3>2
    <3>5. \A x : x \in Contents(chunks) <=> \E j \in 1 .. n : x \in ToSet(chunks[j])
      BY <3>2
    <3>6. \A x : x \in Contents(r) <=> x \in Contents(chunks) \/ x = e
      BY <2>1, <3>1, <3>3, <3>4, <3>5
    <3> QED BY <3>6
  <2> QED BY <1>2, <2>7, <2>8, <2>9
<1> QED BY <1>3, <1>4

\* The heart of topic_directory.hpp's chunk_topic_dir_entries() and its two
\* siblings (topic_directory.hpp:111-143, 228-246, 293-311): the chunks
\* together have exactly the entries of the list, no chunk is empty or over
\* the limit of entries, and none is over the limit of bytes if every entry
\* fits into a packet by itself, for lists of any length and any limits.
THEOREM ChunksFitAndCover ==
  ASSUME NEW E, Sized(E), NEW k \in Nat \ {0}, NEW p \in Nat,
         NEW s \in Seq(E)
  PROVE  /\ \A c \in Chunk(s, k, p) : /\ c \in Seq(E)
                                      /\ Len(c) \in 1 .. k
                                      /\ Small(E, p) => PacketLen(c) <= p
         /\ UNION {ToSet(c) : c \in Chunk(s, k, p)} = ToSet(s)
<1>1. PICK n \in Nat : n = Len(s)
  OBVIOUS
<1> DEFINE P(g) == g = [i \in 0 .. Len(s) |->
                          IF i = 0 THEN << >> ELSE AddEntry(g[i - 1], s[i], k, p)]
           Good == {c \in Seq(Seq(E)) : Fits(E, c, k, p)}
<1>2. << >> \in Good /\ Contents(<< >>) = {}
  BY DEF Fits, Contents
<1>3. \A i \in 1 .. n : s[i] \in E
  BY <1>1
<1>4. \A c \in Good, i \in 1 .. n :
        /\ AddEntry(c, s[i], k, p) \in Good
        /\ Contents(AddEntry(c, s[i], k, p)) = Contents(c) \cup {s[i]}
  <2>1. ASSUME NEW c \in Good, NEW i \in 1 .. n
        PROVE  /\ AddEntry(c, s[i], k, p) \in Good
               /\ Contents(AddEntry(c, s[i], k, p)) = Contents(c) \cup {s[i]}
    <3>1. c \in Seq(Seq(E)) /\ Fits(E, c, k, p)
      OBVIOUS
    <3>2. PICK e \in E : e = s[i]
      BY <1>3
    <3>3. /\ AddEntry(c, e, k, p) \in Seq(Seq(E))
          /\ Fits(E, AddEntry(c, e, k, p), k, p)
          /\ Contents(AddEntry(c, e, k, p)) = Contents(c) \cup {e}
      BY <3>1, AddEntryFits
    <3> QED BY <3>2, <3>3
  <2> QED BY <2>1
<1> HIDE DEF Good
<1>5. \E f : P(f)
  <2>1. PICK G : G = [x \in Good \X (1 .. n) |-> AddEntry(x[1], s[x[2]], k, p)]
    OBVIOUS
  <2>2. G \in StepFunctions(Good, n)
    BY <1>4, <2>1 DEF StepFunctions
  <2>3. PICK f \in [0 .. n -> Good] : Follows(f, << >>, G, n)
    BY <1>2, <2>2, RecursionExists
  <2>4. ASSUME NEW i \in 1 .. n PROVE f[i] = AddEntry(f[i - 1], s[i], k, p)
    <3>1. f[i - 1] \in Good
      BY <2>3
    <3> QED BY <2>1, <2>3, <3>1 DEF Follows
  <2>5. P(f)
    BY <1>1, <2>3, <2>4 DEF Follows
  <2> QED BY <2>5
<1>6. PICK g : P(g) /\ Chunk(s, k, p) = ToSet(g[n])
  <2>1. P(CHOOSE g : P(g))
    <3> HIDE DEF P
    <3> QED BY <1>5
  <2> QED BY <1>1, <2>1 DEF Chunk
<1>7. g[0] = << >> /\ \A i \in 1 .. n : g[i] = AddEntry(g[i - 1], s[i], k, p)
  BY <1>1, <1>6
<1>8. g[n] \in Good /\ Contents(g[n]) = {s[j] : j \in 1 .. n}
  <2> DEFINE T == {i \in Nat : i <= n => /\ g[i] \in Good
                                         /\ Contents(g[i]) = {s[j] : j \in 1 .. i}}
  <2>1. 0 \in T
    BY <1>2, <1>7
  <2>2. ASSUME NEW i \in T PROVE i + 1 \in T
    <3> SUFFICES ASSUME i + 1 <= n
                 PROVE  /\ g[i + 1] \in Good
                        /\ Contents(g[i + 1]) = {s[j] : j \in 1 .. (i + 1)}
      OBVIOUS
    <3>1. g[i] \in Good /\ Contents(g[i]) = {s[j] : j \in 1 .. i}
      OBVIOUS
    <3>2. i + 1 \in 1 .. n /\ (i + 1) - 1 = i
      OBVIOUS
    <3>3. g[i + 1] = AddEntry(g[i], s[i + 1], k, p)
      BY <1>7, <3>2
    <3>4. g[i + 1] \in Good /\ Contents(g[i + 1]) = Contents(g[i]) \cup {s[i + 1]}
      BY <1>4, <3>1, <3>2, <3>3
    <3>5. \A j \in 1 .. (i + 1) : j \in 1 .. i \/ j = i + 1
      OBVIOUS
    <3>6. i + 1 \in 1 .. (i + 1) /\ 1 .. i \subseteq 1 .. (i + 1)
      OBVIOUS
    <3> QED BY <3>1, <3>4, <3>5, <3>6
  <2>3. T \in SUBSET Nat
    OBVIOUS
  <2>4. T = Nat
    <3> HIDE DEF T
    <3> QED BY <2>1, <2>2, <2>3, Induction
  <2>5. n \in T
    BY <2>4
  <2> QED BY <2>5
<1>9. PICK chunks \in Seq(Seq(E)) : chunks = g[n] /\ Fits(E, chunks, k, p)
  BY <1>8 DEF Good
<1>10. DOMAIN chunks = 1 .. Len(chunks) /\ DOMAIN s = 1 .. n
  BY <1>1
<1>11. \A c : c \in Chunk(s, k, p) <=> \E j \in 1 .. Len(chunks) : c = chunks[j]
  BY <1>6, <1>9, <1>10 DEF ToSet
<1>12. UNION {ToSet(c) : c \in Chunk(s, k, p)} = Contents(chunks)
  BY <1>11 DEF Contents
<1>13. ToSet(s) = {s[j] : j \in 1 .. n}
  BY <1>10 DEF ToSet
<1>14. \A c \in Chunk(s, k, p) :
         c \in Seq(E) /\ Len(c) \in 1 .. k /\ (Small(E, p) => PacketLen(c) <= p)
  <2>1. ASSUME NEW c \in Chunk(s, k, p)
        PROVE  c \in Seq(E) /\ Len(c) \in 1 .. k /\ (Small(E, p) => PacketLen(c) <= p)
    <3>1. PICK j \in 1 .. Len(chunks) : c = chunks[j]
      BY <1>11
    <3>2. chunks[j] \in Seq(E)
      OBVIOUS
    <3> QED BY <1>9, <3>1, <3>2 DEF Fits
  <2> QED BY <2>1
<1> QED BY <1>8, <1>9, <1>12, <1>13, <1>14

-----------------------------------------------------------------------------
(* The lists that are cut. *)

LEMMA OrderedMembers ==
  ASSUME NEW S
  PROVE  Ordered(S) \in Seq(S \cap Topic)
<1>1. PICK n \in Nat : n = Len(TopicOrder) /\ \A i \in 1 .. n : TopicOrder[i] \in Topic
  BY DirectoryAssumption
<1>2. PICK R : R = Seq(S \cap Topic)
  OBVIOUS
<1> DEFINE Pick(v, i) == IF TopicOrder[i] \in S THEN Append(v, TopicOrder[i]) ELSE v
           P(g) == g = [i \in 0 .. Len(TopicOrder) |->
                          IF i = 0 THEN << >> ELSE Pick(g[i - 1], i)]
<1>3. << >> \in R
  BY <1>2
<1>4. ASSUME NEW v \in R, NEW i \in 1 .. n PROVE Pick(v, i) \in R
  BY <1>1, <1>2
<1>5. PICK g : P(g) /\ Ordered(S) = g[n]
  <2>1. PICK G : G = [x \in R \X (1 .. n) |-> Pick(x[1], x[2])]
    OBVIOUS
  <2>2. G \in StepFunctions(R, n)
    <3> HIDE DEF Pick
    <3> QED BY <1>4, <2>1 DEF StepFunctions
  <2>3. PICK f \in [0 .. n -> R] : Follows(f, << >>, G, n)
    BY <1>3, <2>2, RecursionExists
  <2>4. ASSUME NEW i \in 1 .. n PROVE f[i] = Pick(f[i - 1], i)
    <3>1. f[i - 1] \in R
      BY <2>3
    <3> HIDE DEF Pick
    <3> QED BY <2>1, <2>3, <3>1 DEF Follows
  <2>5. P(f)
    <3> HIDE DEF Pick
    <3> QED BY <1>1, <2>3, <2>4 DEF Follows
  <2>6. P(CHOOSE g : P(g))
    <3> HIDE DEF P
    <3> QED BY <2>5
  <2> QED BY <1>1, <2>6 DEF Ordered
<1>6. g[0] = << >> /\ \A i \in 1 .. n : g[i] = Pick(g[i - 1], i)
  <2> HIDE DEF Pick
  <2> QED BY <1>1, <1>5
<1>7. g[n] \in R
  <2> DEFINE T == {i \in Nat : i <= n => g[i] \in R}
  <2> HIDE DEF Pick
  <2>1. 0 \in T
    BY <1>3, <1>6
  <2>2. ASSUME NEW i \in T PROVE i + 1 \in T
    <3>1. CASE i + 1 <= n
      <4>1. i + 1 \in 1 .. n /\ (i + 1) - 1 = i /\ g[i] \in R
        BY <3>1
      <4>2. g[i + 1] = Pick(g[i], i + 1)
        BY <1>6, <4>1
      <4> QED BY <1>4, <4>1, <4>2
    <3> QED BY <3>1
  <2>3. T \in SUBSET Nat
    OBVIOUS
  <2>4. T = Nat
    <3> HIDE DEF T
    <3> QED BY <2>1, <2>2, <2>3, Induction
  <2>5. n \in T
    BY <2>4
  <2> QED BY <2>5
<1> QED BY <1>2, <1>5, <1>7

\* The values of a function on a finite set are finitely many.
LEMMA FiniteImage ==
  ASSUME NEW S, IsFiniteSet(S), NEW f, DOMAIN f = S, NEW T, T = {f[x] : x \in S},
         f = [x \in S |-> f[x]]
  PROVE  IsFiniteSet(T)
<1>1. f \in Surjection(S, T)
  BY DEF Surjection
<1> QED BY <1>1, FS_Surjection

LEMMA FiniteToSet ==
  ASSUME NEW E, NEW s \in Seq(E)
  PROVE  IsFiniteSet(ToSet(s))
<1>1. PICK n \in Nat : n = Len(s)
  OBVIOUS
<1>2. DOMAIN s = 1 .. n /\ s = [i \in 1 .. n |-> s[i]]
  BY <1>1
<1>3. IsFiniteSet(1 .. n)
  BY FS_Interval
<1>4. ToSet(s) = {s[i] : i \in 1 .. n}
  BY <1>2 DEF ToSet
<1> QED BY <1>2, <1>3, <1>4, FiniteImage

\* SetToSeq lists a finite set.
LEMMA SetToSeqLists ==
  ASSUME NEW S, IsFiniteSet(S)
  PROVE  SetToSeq(S) \in Seq(S) /\ ToSet(SetToSeq(S)) = S
<1>1. PICK n \in Nat : n = Cardinality(S) /\ ExistsBijection(1 .. n, S)
  BY FS_CardinalityType
<1>2. PICK b \in Bijection(1 .. n, S) : TRUE
  BY <1>1 DEF ExistsBijection
<1> DEFINE P(f) == f \in [1 .. n -> S] /\ IsInjective(f)
<1>3. P(b)
  BY <1>2 DEF Bijection, Injection, IsInjective
<1>4. P(CHOOSE f : P(f))
  <2> HIDE DEF P
  <2> QED BY <1>3
<1>5. PICK f : P(f) /\ SetToSeq(S) = f
  BY <1>1, <1>4 DEF SetToSeq
<1>6. f \in Injection(1 .. n, S)
  BY <1>5 DEF Injection, IsInjective
<1>7. Cardinality(1 .. n) = n
  BY FS_Interval
<1>8. f \in Surjection(1 .. n, S)
  BY <1>1, <1>6, <1>7, FS_Injection
<1>9. f \in Seq(S) /\ DOMAIN f = 1 .. n
  BY <1>5
<1>10. ToSet(f) = S
  BY <1>8, <1>9 DEF ToSet, Surjection
<1> QED BY <1>5, <1>9, <1>10

LEMMA EntriesFit ==
  /\ Sized(NameEntry) /\ Small(NameEntry, kTopicDirMaxPacket)
  /\ Sized(RoleEntry) /\ Small(RoleEntry, kRoleMaxPacket)
BY DirectoryAssumption, PacketAssumption
   DEF Sized, Small, NameEntry, RoleEntry, kHeaderLen

\* The listing: one entry for each live topic, and none for another.
LEMMA NameTableListed ==
  ASSUME NamesInv
  PROVE  /\ NameTable \in Seq(NameEntry)
         /\ \A e \in ToSet(NameTable) : e.id \in Listed
<1>1. PICK o : o = Ordered(Listed)
  OBVIOUS
<1>2. o \in Seq(Listed \cap Topic)
  BY <1>1, OrderedMembers
<1>3. PICK n \in Nat : n = Len(o) /\ DOMAIN o = 1 .. n
  BY <1>2
<1>4. \A i \in 1 .. n : o[i] \in Listed /\ o[i] \in Topic
  BY <1>2, <1>3
<1>5. NameTable = [i \in 1 .. n |-> Entry(o[i], topic_names[o[i]])]
  BY <1>1, <1>3 DEF NameTable
<1>6. ASSUME NEW i \in 1 .. n
      PROVE  /\ Entry(o[i], topic_names[o[i]]) \in NameEntry
             /\ Entry(o[i], topic_names[o[i]]).id \in Listed
  <2>1. topic_names[o[i]] \in 0 .. kTopicDirMaxNameLen
    BY <1>4 DEF NamesInv
  <2>2. 5 + topic_names[o[i]] \in Nat
    BY <2>1, DirectoryAssumption
  <2> QED BY <1>4, <2>1, <2>2 DEF Entry, NameEntry
<1>7. NameTable \in Seq(NameEntry) /\ DOMAIN NameTable = 1 .. n
  BY <1>5, <1>6
<1>8. \A e \in ToSet(NameTable) : e.id \in Listed
  BY <1>5, <1>6, <1>7 DEF ToSet
<1> QED BY <1>7, <1>8

\* A node's announces are within the limits, whatever its names are.
LEMMA AnnouncesFit ==
  ASSUME NEW n \in Node, NEW a \in NameAnnounces(n)
  PROVE  /\ a.node \in Node
         /\ a.chunk \in Seq(NameEntry)
         /\ Len(a.chunk) \in 1 .. kTopicDirMaxEntries
<1> DEFINE E == {e \in [id : Topic, name : Nat, bytes : Nat] : e.bytes = 5 + e.name}
<1>1. PICK o : o = Ordered(NamedTopics(n))
  OBVIOUS
<1>2. o \in Seq(NamedTopics(n) \cap Topic)
  BY <1>1, OrderedMembers
<1>3. PICK len \in Nat : len = Len(o) /\ DOMAIN o = 1 .. len
  BY <1>2
<1>4. PICK s : s = [i \in DOMAIN o |-> Entry(o[i], NameLen[o[i]])]
  OBVIOUS
<1>5. s \in Seq(E)
  <2>1. ASSUME NEW i \in 1 .. len PROVE Entry(o[i], NameLen[o[i]]) \in E
    <3>1. o[i] \in Topic
      BY <1>2, <1>3
    <3>2. NameLen[o[i]] \in Nat
      BY <3>1, DirectoryAssumption
    <3> QED BY <3>1, <3>2 DEF Entry
  <2> QED BY <1>3, <1>4, <2>1
<1>6. PICK c \in chunk_topic_dir_entries(s) :
        encode_topic_dir_announce(c) /\ a = [node |-> n, chunk |-> c]
  BY <1>1, <1>4 DEF NameAnnounces
<1>7. Sized(E)
  BY DEF Sized
<1>8. c \in Seq(E) /\ Len(c) \in 1 .. kTopicDirMaxEntries
  <2> HIDE DEF E
  <2>1. c \in Chunk(s, kTopicDirMaxEntries, kTopicDirMaxPacket)
    BY <1>6 DEF chunk_topic_dir_entries
  <2> QED BY <1>5, <1>7, <2>1, ChunksFitAndCover, DirectoryAssumption
<1>9. c \in Seq(NameEntry)
  <2>1. PICK k \in Nat : k = Len(c) /\ DOMAIN c = 1 .. k
    BY <1>8
  <2>2. ASSUME NEW i \in 1 .. k PROVE c[i] \in NameEntry
    <3>1. c[i] \in E
      BY <1>8, <2>1
    <3>2. c[i].name <= kTopicDirMaxNameLen
      BY <1>6, <2>1 DEF encode_topic_dir_announce, ToSet
    <3> QED BY <3>1, <3>2, DirectoryAssumption DEF NameEntry
  <2> QED BY <1>8, <2>1, <2>2
<1> QED BY <1>6, <1>8, <1>9

LEMMA RoleTableLists ==
  /\ RoleTable \subseteq RoleEntry
  /\ IsFiniteSet(RoleTable)
  /\ \A e \in RoleTable : Prune(roleSeen)[e.peer] # Absent
<1> DEFINE Listing(n) == {RolePeerEntry(e.id, e.role, n) : e \in ToSet(RoleEntries(n))}
           There == {p \in Node : Prune(roleSeen)[p] # Absent}
<1>1. RoleTable = UNION {Listing(n) : n \in There}
  BY DEF RoleTable
<1>2. ASSUME NEW n \in Node
      PROVE  /\ IsFiniteSet(Listing(n))
             /\ \A x \in Listing(n) : x \in RoleEntry /\ x.peer = n
  <2>1. PICK o : o = Ordered({t \in Declares[n] : Role(n, t) # {}})
    OBVIOUS
  <2>2. o \in Seq({t \in Declares[n] : Role(n, t) # {}} \cap Topic)
    BY <2>1, OrderedMembers
  <2>3. PICK len \in Nat : len = Len(o) /\ DOMAIN o = 1 .. len
    BY <2>2
  <2>4. RoleEntries(n) = [i \in 1 .. len |-> RoleAnnounceEntry(o[i], Role(n, o[i]))]
    BY <2>1, <2>3 DEF RoleEntries
  <2>5. \A i \in 1 .. len : o[i] \in Topic
    BY <2>2, <2>3
  <2>6. ASSUME NEW e \in ToSet(RoleEntries(n))
        PROVE  e.id \in Topic /\ e.role \in SUBSET {"publisher", "subscriber"}
    <3>1. PICK i \in 1 .. len : e = RoleAnnounceEntry(o[i], Role(n, o[i]))
      BY <2>4 DEF ToSet
    <3> QED BY <2>5, <3>1 DEF RoleAnnounceEntry, Role
  <2>7. \A x \in Listing(n) : x \in RoleEntry /\ x.peer = n
    BY <2>6 DEF RolePeerEntry, RoleEntry
  <2>8. IsFiniteSet(ToSet(RoleEntries(n)))
    <3>1. PICK E : E = {RoleAnnounceEntry(o[i], Role(n, o[i])) : i \in 1 .. len}
      OBVIOUS
    <3>2. RoleEntries(n) \in Seq(E)
      BY <2>4, <3>1
    <3> QED BY <3>2, FiniteToSet
  <2>9. PICK f : f = [e \in ToSet(RoleEntries(n)) |-> RolePeerEntry(e.id, e.role, n)]
    OBVIOUS
  <2>10. /\ DOMAIN f = ToSet(RoleEntries(n)) /\ f = [e \in DOMAIN f |-> f[e]]
         /\ Listing(n) = {f[e] : e \in DOMAIN f}
    BY <2>9
  <2>11. IsFiniteSet(Listing(n))
    <3> HIDE DEF Listing
    <3> QED BY <2>8, <2>10, FiniteImage
  <2> QED BY <2>7, <2>11
<1>3. IsFiniteSet(RoleTable)
  <2> HIDE DEF Listing
  <2>1. There \in SUBSET Node
    OBVIOUS
  <2>2. IsFiniteSet(There)
    BY <2>1, FS_Subset, DirectoryAssumption
  <2>3. PICK f : f = [n \in There |-> Listing(n)]
    OBVIOUS
  <2>4. PICK L : L = {Listing(n) : n \in There}
    OBVIOUS
  <2>5. DOMAIN f = There /\ f = [n \in There |-> f[n]] /\ L = {f[n] : n \in There}
    BY <2>3, <2>4
  <2> HIDE DEF There
  <2>6. IsFiniteSet(L)
    BY <2>2, <2>5, FiniteImage
  <2>7. \A T \in L : IsFiniteSet(T)
    BY <1>2, <2>1, <2>4
  <2>8. RoleTable = UNION L
    BY <1>1, <2>4
  <2> QED BY <2>6, <2>7, <2>8, FS_UNION
<1>4. ASSUME NEW x \in RoleTable
      PROVE  x \in RoleEntry /\ Prune(roleSeen)[x.peer] # Absent
  <2>1. PICK n \in There : x \in Listing(n)
    <3> HIDE DEF Listing
    <3> QED BY <1>1
  <2>2. n \in Node /\ Prune(roleSeen)[n] # Absent
    OBVIOUS
  <2> HIDE DEF Listing
  <2> QED BY <1>2, <2>1, <2>2
<1> QED BY <1>3, <1>4

\* What is on the wire when a query is answered: every packet decodes, and
\* together they are the answer.
LEMMA RepliesAreTheAnswer ==
  ASSUME NEW E, Sized(E), NEW k \in Nat \ {0}, NEW p \in Nat, kHeaderLen <= p,
         Small(E, p), NEW s \in Seq(E)
  PROVE  /\ \A c \in Replies(Chunk(s, k, p)) : Len(c) <= k /\ PacketLen(c) <= p
         /\ UNION {ToSet(c) : c \in Replies(Chunk(s, k, p))} = ToSet(s)
<1>1. /\ \A c \in Chunk(s, k, p) : Len(c) <= k /\ PacketLen(c) <= p
      /\ UNION {ToSet(c) : c \in Chunk(s, k, p)} = ToSet(s)
  <2>1. \A c \in Chunk(s, k, p) : Len(c) \in 1 .. k /\ PacketLen(c) <= p
    BY ChunksFitAndCover
  <2>2. UNION {ToSet(c) : c \in Chunk(s, k, p)} = ToSet(s)
    BY ChunksFitAndCover
  <2> QED BY <2>1, <2>2
<1>2. CASE Chunk(s, k, p) = {}
  <2>1. Replies(Chunk(s, k, p)) = {<< >>}
    BY <1>2 DEF Replies
  <2>2. << >> \in Seq(E) /\ Len(<< >>) = 0 /\ ToSet(<< >>) = {}
    BY DEF ToSet
  <2>3. PacketLen(<< >>) = kHeaderLen
    BY <2>2, PacketLenSteps
  <2>4. ToSet(s) = {}
    BY <1>1, <1>2
  <2> QED BY <2>1, <2>2, <2>3, <2>4
<1>3. CASE Chunk(s, k, p) # {}
  <2>1. Replies(Chunk(s, k, p)) = Chunk(s, k, p)
    BY <1>3 DEF Replies
  <2> QED BY <1>1, <2>1
<1> QED BY <1>2, <1>3

-----------------------------------------------------------------------------
(* The directory. *)

\* Nobody comes back from the dead, and no time passes.
NodesGoOn ==
  /\ UNCHANGED deadFor
  /\ \A p \in Node : \/ phase'[p] = phase[p]
                     \/ phase[p] # "dead" /\ phase'[p] # "off"

\* The registrations of a step are the ones before, or fewer.
TableShrinks ==
  \A t \in Topic, n \in Node : lastSeen'[<<t, n>>] \in {lastSeen[<<t, n>>], Absent}

LEMMA LatelyStays ==
  ASSUME RegistryInv, RegistryInv', LatelyInv, NodesGoOn, UNCHANGED <<setting, tool, truth>>
  PROVE  LatelyInv'
<1>1. ASSUME NEW n \in Node, AliveLately(n) PROVE AliveLately(n)'
  <2>1. phase[n] # "dead" => deadFor[n] = 0
    BY DEF RegistryInv, SenderInv
  <2>2. phase'[n] \in Phase
    BY DEF RegistryInv, Shape, TypeOK
  <2>3. 0 <= Ttl + MaxDelay
    BY RegistryAssumption
  <2> QED BY <1>1, <2>1, <2>2, <2>3 DEF NodesGoOn, AliveLately, Running, Phase
<1> QED BY <1>1 DEF LatelyInv

LEMMA KeysStay ==
  ASSUME KeyInv, TableShrinks, UNCHANGED setting
  PROVE  KeyInv'
BY DEF KeyInv, TableShrinks

\* A step of the registry alone.
LEMMA DirectoryStays ==
  ASSUME DirectoryInv, RegistryInv', NodesGoOn, TableShrinks, UNCHANGED dirVars
  PROVE  DirectoryInv'
<1>1. RegistryInv /\ NamesInv /\ KeyInv /\ AnswerInv /\ LatelyInv
  BY DEF DirectoryInv
<1>2. UNCHANGED <<setting, topic_names, announces, tool, wire, out, truth, missed>>
  BY DEF dirVars, toolVars
<1>3. NamesInv'
  BY <1>1, <1>2 DEF NamesInv
<1>4. KeyInv'
  BY <1>1, <1>2, KeysStay
<1>5. AnswerInv'
  BY <1>1, <1>2 DEF AnswerInv, decode_topic_dir_entries, decode_role_reply
<1>6. LatelyInv'
  BY <1>1, <1>2, LatelyStays
<1> QED BY <1>3, <1>4, <1>5, <1>6 DEF DirectoryInv

LEMMA InitDirectory == DirectoryInit => DirectoryInv
<1> SUFFICES ASSUME DirectoryInit PROVE DirectoryInv
  OBVIOUS
<1>1. RegistryInv
  BY InitRegistry DEF DirectoryInit
<1>2. NamesInv
  BY DirectoryAssumption DEF DirectoryInit, NamesInv
<1>3. KeyInv
  BY DEF DirectoryInit, Init, KeyInv
<1>4. AnswerInv /\ LatelyInv
  BY DEF DirectoryInit, AnswerInv, LatelyInv
<1> QED BY <1>1, <1>2, <1>3, <1>4 DEF DirectoryInv

\* What the nodes do, with the names they announce.
LEMMA NodeActionsKeep ==
  ASSUME DirectoryInv, NEW n \in Node, NodeStarts(n) \/ NodeWakes(n) \/ NodeGoesOn(n)
  PROVE  DirectoryInv'
<1>1. RegistryInv /\ NamesInv /\ KeyInv /\ AnswerInv /\ LatelyInv
  BY DEF DirectoryInv
<1>2. phase \in [Node -> Phase]
  BY <1>1 DEF RegistryInv, Shape, TypeOK
<1>3. RegistryInv'
  BY <1>1, StartKeeps, WakeKeeps, TakeReplyKeeps, TimeOutKeeps, CrashKeeps
     DEF NodeStarts, NodeWakes, NodeGoesOn
<1>4. /\ NodesGoOn /\ UNCHANGED <<serverVars>>
  BY <1>2 DEF NodeStarts, NodeWakes, NodeGoesOn, Start, Wake, TakeReply, TimeOut,
              Crash, Waiting, Running, FinishRegistration, NodesGoOn
<1>5. TableShrinks
  BY <1>4 DEF serverVars, TableShrinks
<1>6. CASE NodeGoesOn(n)
  <2>1. UNCHANGED dirVars
    BY <1>6 DEF NodeGoesOn
  <2> QED BY <1>3, <1>4, <1>5, <2>1, DirectoryStays
<1>7. CASE NodeStarts(n) \/ NodeWakes(n)
  <2>1. /\ UNCHANGED <<setting, topic_names, tool, wire, out, truth, missed>>
        /\ announces' \subseteq announces \cup NameAnnounces(n)
    BY <1>7 DEF NodeStarts, NodeWakes, toolVars, announce_topic_names_to_rlcore
  <2>2. NamesInv'
    BY <1>1, <2>1, AnnouncesFit DEF NamesInv
  <2>3. KeyInv'
    BY <1>1, <1>5, <2>1, KeysStay
  <2>4. AnswerInv'
    BY <1>1, <2>1 DEF AnswerInv, decode_topic_dir_entries, decode_role_reply
  <2>5. LatelyInv'
    BY <1>1, <1>3, <1>4, <2>1, LatelyStays
  <2> QED BY <1>3, <2>2, <2>3, <2>4, <2>5 DEF DirectoryInv
<1> QED BY <1>6, <1>7

\* A request that opens comes from a node with the daemon's key.
LEMMA OpensMeansKey ==
  ASSUME KeyInv, NEW n \in Node, Opens(n)
  PROVE  setting.nodeKey[n] = setting.key
BY DEF Opens, decode_register_request, aes256gcm_open

LEMMA ForgetsStays ==
  ASSUME DirectoryInv, Forgets
  PROVE  RegistryInv' /\ NodesGoOn /\ TableShrinks
<1>1. RegistryInv
  BY DEF DirectoryInv
<1>2. RegistryInv'
  BY <1>1, ForgetsKeeps
<1> QED BY <1>2 DEF Forgets, nodeVars, NodesGoOn, TableShrinks

\* prune_stale() before anything else.
LEMMA DaemonForgets ==
  ASSUME DirectoryInv, Daemon, UNCHANGED <<nodeVars, deadFor>>, net' \subseteq net
  PROVE  Forgets
<1>1. RegistryInv
  BY DEF DirectoryInv
<1> QED BY <1>1, PruneForgets DEF Daemon, Forgets

LEMMA DatagramActionsKeep ==
  ASSUME DirectoryInv, NEW m \in net,
         \/ NodeReceives(m) \/ HandleRequest(m) \/ DropRequest(m)
         \/ ForwardRequest(m) \/ HandleRoles(m) \/ LoseRegistration(m)
  PROVE  DirectoryInv'
<1>1. RegistryInv /\ NamesInv /\ KeyInv /\ AnswerInv /\ LatelyInv
  BY DEF DirectoryInv
<1>2. /\ lastSeen \in [Topic \X Node -> Age] /\ roleSeen \in [Node -> Age]
      /\ net \subseteq Datagram
  BY <1>1 DEF RegistryInv, Shape, TypeOK
<1>3. CASE NodeReceives(m)
  <2>1. RegistryInv'
    BY <1>1, <1>3, ReceiveAckKeeps DEF NodeReceives
  <2>2. NodesGoOn /\ TableShrinks /\ UNCHANGED dirVars
    BY <1>3 DEF NodeReceives, ReceiveAck, NodesGoOn, TableShrinks, serverVars
  <2> QED BY <2>1, <2>2, DirectoryStays
<1>4. CASE DropRequest(m) \/ ForwardRequest(m)
  <2>1. Ignore(m)
    BY <1>4 DEF DropRequest, ForwardRequest
  <2>2. net' \subseteq net /\ UNCHANGED <<nodeVars, deadFor>> /\ Daemon
        /\ UNCHANGED dirVars
    BY <2>1 DEF Ignore
  <2>3. Forgets
    BY <2>2, DaemonForgets
  <2> QED BY <2>2, <2>3, ForgetsStays, DirectoryStays
<1>5. CASE LoseRegistration(m)
  <2>1. Forgets /\ UNCHANGED dirVars
    BY <1>2, <1>5 DEF LoseRegistration, Lose, Forgets, serverVars
  <2> QED BY <2>1, ForgetsStays, DirectoryStays
<1>6. CASE HandleRoles(m)
  <2>1. RegistryInv'
    BY <1>1, <1>6, HandleRoleKeeps DEF HandleRoles
  <2>2. NodesGoOn /\ UNCHANGED dirVars
    BY <1>6 DEF HandleRoles, HandleRole, NodesGoOn, nodeVars
  <2>3. TableShrinks
    BY <1>1, <1>6, PruneForgets DEF HandleRoles, HandleRole, TableShrinks
  <2> QED BY <2>1, <2>2, <2>3, DirectoryStays
<1>7. CASE HandleRequest(m)
  <2>1. HandleRegister(m) /\ Opens(m.node) /\ UNCHANGED dirVars
    BY <1>7 DEF HandleRequest
  <2>2. RegistryInv'
    BY <1>1, <2>1, HandleRegisterKeeps
  <2>3. /\ NodesGoOn
        /\ UNCHANGED <<setting, topic_names, announces, tool, wire, out, truth, missed>>
    BY <2>1 DEF HandleRegister, NodesGoOn, nodeVars, dirVars, toolVars
  <2>4. m.node \in Node
    BY <1>1 DEF RegistryInv, Shape, TypeOK
  <2>5. setting.nodeKey[m.node] = setting.key
    BY <1>1, <2>1, <2>4, OpensMeansKey
  <2>6. KeyInv'
    <3>1. ASSUME NEW t \in Topic, NEW n \in Node, lastSeen'[<<t, n>>] # Absent
          PROVE  setting.nodeKey[n] = setting.key
      <4>1. CASE n = m.node
        BY <2>5, <4>1
      <4>2. CASE n # m.node
        <5>1. lastSeen'[<<t, n>>] = Prune(lastSeen)[<<t, n>>]
          <6>1. /\ DOMAIN Prune(lastSeen) = Topic \X Node
                /\ <<t, n>>[2] = n
            BY <1>1, PruneForgets
          <6>2. lastSeen' = Insert(Prune(lastSeen), m.node, m.topics)
            BY <2>1 DEF HandleRegister
          <6> QED BY <4>2, <6>1, <6>2 DEF Insert
        <5>2. lastSeen[<<t, n>>] # Absent
          BY <1>1, <3>1, <5>1, PruneForgets
        <5> QED BY <1>1, <5>2 DEF KeyInv
      <4> QED BY <4>1, <4>2
    <3> QED BY <1>1, <2>3, <3>1 DEF KeyInv
  <2>7. NamesInv'
    BY <1>1, <2>3 DEF NamesInv
  <2>8. AnswerInv'
    BY <1>1, <2>3 DEF AnswerInv, decode_topic_dir_entries, decode_role_reply
  <2>9. LatelyInv'
    BY <1>1, <2>2, <2>3, LatelyStays
  <2> QED BY <2>2, <2>6, <2>7, <2>8, <2>9 DEF DirectoryInv
<1> QED BY <1>3, <1>4, <1>5, <1>6, <1>7

\* Names arrive, or are lost on the way.
LEMMA AnnounceActionsKeep ==
  ASSUME DirectoryInv, NEW a \in announces, HandleNames(a) \/ LoseAnnounce(a)
  PROVE  DirectoryInv'
<1>1. RegistryInv /\ NamesInv /\ KeyInv /\ AnswerInv /\ LatelyInv
  BY DEF DirectoryInv
<1>2. lastSeen \in [Topic \X Node -> Age] /\ roleSeen \in [Node -> Age]
  BY <1>1 DEF RegistryInv, Shape, TypeOK
<1>3. Forgets
  <2>1. CASE HandleNames(a)
    <3>1. Daemon /\ UNCHANGED <<nodeVars, deadFor>> /\ net' \subseteq net
      BY <2>1 DEF HandleNames
    <3> QED BY <3>1, DaemonForgets
  <2>2. CASE LoseAnnounce(a)
    BY <1>2, <2>2 DEF LoseAnnounce, vars, serverVars, Forgets
  <2> QED BY <2>1, <2>2
<1>4. RegistryInv' /\ NodesGoOn /\ TableShrinks
  BY <1>3, ForgetsStays
<1>5. UNCHANGED <<setting, tool, wire, out, truth, missed>> /\ announces' \subseteq announces
  BY DEF HandleNames, LoseAnnounce, toolVars
<1>6. topic_names' \in [Topic -> 0 .. kTopicDirMaxNameLen]
  <2>1. CASE topic_names' = topic_names
    BY <1>1, <2>1 DEF NamesInv
  <2>2. CASE topic_names' # topic_names
    <3>1. topic_names' = [t \in Topic |->
             IF \E e \in ToSet(a.chunk) : e.id = t
             THEN (CHOOSE e \in ToSet(a.chunk) : e.id = t).name
             ELSE topic_names[t]]
      BY <2>2 DEF HandleNames, LoseAnnounce
    <3>2. \A e \in ToSet(a.chunk) : e.name \in 0 .. kTopicDirMaxNameLen
      <4>1. a.chunk \in Seq(NameEntry)
        BY <1>1 DEF NamesInv
      <4>2. \A i \in DOMAIN a.chunk : a.chunk[i] \in NameEntry
        BY <4>1
      <4> QED BY <4>2 DEF ToSet, NameEntry
    <3>3. \A t \in Topic : topic_names[t] \in 0 .. kTopicDirMaxNameLen
      BY <1>1 DEF NamesInv
    <3>4. ASSUME NEW t \in Topic, \E e \in ToSet(a.chunk) : e.id = t
          PROVE  (CHOOSE e \in ToSet(a.chunk) : e.id = t).name \in 0 .. kTopicDirMaxNameLen
      <4>1. (CHOOSE e \in ToSet(a.chunk) : e.id = t) \in ToSet(a.chunk)
        BY <3>4
      <4> QED BY <3>2, <4>1
    <3> QED BY <3>1, <3>3, <3>4
  <2> QED BY <2>1, <2>2
<1>7. NamesInv'
  BY <1>1, <1>5, <1>6 DEF NamesInv
<1>8. KeyInv'
  BY <1>1, <1>4, <1>5, KeysStay
<1>9. AnswerInv'
  BY <1>1, <1>5 DEF AnswerInv, decode_topic_dir_entries, decode_role_reply
<1>10. LatelyInv'
  BY <1>1, <1>4, <1>5, LatelyStays
<1> QED BY <1>4, <1>7, <1>8, <1>9, <1>10 DEF DirectoryInv

\* A topic or a role that is in the answer is of a node that was there lately.
LEMMA ListedLately ==
  ASSUME DirectoryInv
  PROVE  /\ \A t \in Listed : \E n \in Node :
              t \in Declares[n] /\ AliveLately(n) /\ setting.nodeKey[n] = setting.key
         /\ \A e \in RoleTable : e.peer \in Node /\ AliveLately(e.peer)
<1>1. RegistryInv /\ KeyInv
  BY DEF DirectoryInv
<1>2. DOMAIN lastSeen = Topic \X Node
  BY <1>1 DEF RegistryInv, Shape, TypeOK
<1>3. ASSUME NEW t \in Listed
      PROVE  \E n \in Node :
               t \in Declares[n] /\ AliveLately(n) /\ setting.nodeKey[n] = setting.key
  <2>1. PICK k \in Topic \X Node : k[1] = t /\ Prune(lastSeen)[k] # Absent
    BY <1>2 DEF Listed, LiveTopics
  <2>2. PICK n \in Node : k = <<t, n>> /\ t \in Topic
    BY <2>1
  <2>3. Prune(lastSeen)[<<t, n>>] # Absent
    BY <2>1, <2>2
  <2>4. lastSeen[<<t, n>>] # Absent
    BY <1>1, <2>2, <2>3, PruneForgets
  <2>5. t \in Declares[n]
    BY <1>1, <2>2, <2>4 DEF RegistryInv, TableInv
  <2>6. setting.nodeKey[n] = setting.key
    BY <1>1, <2>2, <2>4 DEF KeyInv
  <2>7. AliveLately(n)
    BY <1>1, <2>2, <2>3, ListedWasThere
  <2> QED BY <2>5, <2>6, <2>7
<1>4. ASSUME NEW e \in RoleTable PROVE e.peer \in Node /\ AliveLately(e.peer)
  <2>1. e.peer \in Node
    BY RoleTableLists DEF RoleEntry
  <2>2. Prune(roleSeen)[e.peer] # Absent
    BY RoleTableLists
  <2> QED BY <1>1, <2>1, <2>2, ListedWasThere
<1> QED BY <1>3, <1>4

\* A query is answered: the replies that can be encoded are all of them, and
\* all of them decode.
LEMMA QueryActionsKeep ==
  ASSUME DirectoryInv, HandleNameQuery \/ HandleRoleQuery
  PROVE  DirectoryInv'
<1>1. RegistryInv /\ NamesInv /\ KeyInv /\ AnswerInv /\ LatelyInv
  BY DEF DirectoryInv
<1>2. /\ Daemon
      /\ UNCHANGED <<nodeVars, net, deadFor, setting, topic_names, announces, out, missed>>
  BY DEF HandleNameQuery, HandleRoleQuery
<1>3. Forgets
  BY <1>2, DaemonForgets
<1>4. RegistryInv' /\ NodesGoOn /\ TableShrinks
  BY <1>3, ForgetsStays
<1>5. NamesInv'
  BY <1>1, <1>2 DEF NamesInv
<1>6. KeyInv'
  BY <1>1, <1>2, <1>4, KeysStay
<1>7. out' = {} /\ missed' = FALSE
  BY <1>1, <1>2 DEF HandleNameQuery, HandleRoleQuery, AnswerInv
<1>8. \A n \in Node : AliveLately(n) => AliveLately(n)'
  BY <1>2 DEF AliveLately, Running, nodeVars
<1>9. CASE HandleNameQuery
  <2>1. /\ tool' = "names"
        /\ wire' = {c \in Replies(Chunk(NameTable, kTopicDirMaxEntries, kTopicDirMaxPacket)) :
                      Len(c) <= kTopicDirMaxEntries}
        /\ truth' = ToSet(NameTable)
    BY <1>9 DEF HandleNameQuery, chunk_topic_dir_entries, encode_topic_dir_reply
  <2>2. NameTable \in Seq(NameEntry) /\ \A e \in ToSet(NameTable) : e.id \in Listed
    BY <1>1, NameTableListed
  <2>3. kHeaderLen \in Nat /\ kHeaderLen <= kTopicDirMaxPacket
    BY PacketAssumption, DirectoryAssumption DEF kHeaderLen
  <2>4. PICK W : W = Replies(Chunk(NameTable, kTopicDirMaxEntries, kTopicDirMaxPacket))
    OBVIOUS
  <2>5. /\ \A c \in W : Len(c) <= kTopicDirMaxEntries /\ PacketLen(c) <= kTopicDirMaxPacket
        /\ UNION {ToSet(c) : c \in W} = truth'
    BY <2>1, <2>2, <2>3, <2>4, RepliesAreTheAnswer, EntriesFit, DirectoryAssumption
  <2>6. wire' = W
    BY <2>1, <2>4, <2>5
  <2>7. AnswerInv'
    BY <1>7, <2>1, <2>5, <2>6 DEF AnswerInv, decode_topic_dir_entries
  <2>8. LatelyInv'
    BY <1>2, <1>8, <2>1, <2>2, ListedLately DEF LatelyInv
  <2> QED BY <1>4, <1>5, <1>6, <2>7, <2>8 DEF DirectoryInv
<1>10. CASE HandleRoleQuery
  <2>1. PICK s : s = SetToSeq(RoleTable)
    OBVIOUS
  <2>2. /\ tool' = "roles"
        /\ wire' = {c \in Replies(Chunk(s, kRoleMaxEntries, kRoleMaxPacket)) :
                      Len(c) <= kRoleMaxEntries}
        /\ truth' = RoleTable
    BY <1>10, <2>1 DEF HandleRoleQuery, chunk_role_peer_entries, encode_role_reply
  <2>3. s \in Seq(RoleTable) /\ ToSet(s) = RoleTable
    BY <2>1, SetToSeqLists, RoleTableLists
  <2>4. s \in Seq(RoleEntry)
    BY <2>3, RoleTableLists
  <2>5. kHeaderLen \in Nat /\ kHeaderLen <= kRoleMaxPacket
    BY PacketAssumption, DirectoryAssumption DEF kHeaderLen
  <2>6. PICK W : W = Replies(Chunk(s, kRoleMaxEntries, kRoleMaxPacket))
    OBVIOUS
  <2>7. /\ \A c \in W : Len(c) <= kRoleMaxEntries /\ PacketLen(c) <= kRoleMaxPacket
        /\ UNION {ToSet(c) : c \in W} = truth'
    BY <2>2, <2>3, <2>4, <2>5, <2>6, RepliesAreTheAnswer, EntriesFit, DirectoryAssumption
  <2>8. wire' = W
    BY <2>2, <2>6, <2>7
  <2>9. AnswerInv'
    BY <1>7, <2>2, <2>7, <2>8 DEF AnswerInv, decode_role_reply
  <2>10. LatelyInv'
    BY <1>2, <1>8, <2>2, ListedLately DEF LatelyInv
  <2> QED BY <1>4, <1>5, <1>6, <2>9, <2>10 DEF DirectoryInv
<1> QED BY <1>9, <1>10

\* The tool's own steps leave the daemon and the nodes alone.
LEMMA ToolActionsKeep ==
  ASSUME DirectoryInv, Tool
  PROVE  DirectoryInv'
<1>1. RegistryInv /\ NamesInv /\ KeyInv /\ AnswerInv /\ LatelyInv
  BY DEF DirectoryInv
<1>2. UNCHANGED <<vars, setting, topic_names, announces>>
  BY DEF Tool, CollectReply, LoseReply, ToolPrints, Match, QuietThen
<1>3. UNCHANGED <<phase, deadFor, lastSeen>>
  BY <1>2 DEF vars, nodeVars, serverVars
<1>4. RegistryInv'
  <2>1. [Next]_vars
    BY <1>2
  <2> QED BY <1>1, <2>1, NextKeepsRegistry
<1>5. NamesInv' /\ KeyInv'
  BY <1>1, <1>2, <1>3 DEF NamesInv, KeyInv
<1>6. CASE \E c \in wire : CollectReply(c) \/ LoseReply(c)
  <2>1. PICK c \in wire : CollectReply(c) \/ LoseReply(c)
    BY <1>6
  <2>2. UNCHANGED <<tool, truth>> /\ wire' = wire \ {c}
    BY <2>1 DEF CollectReply, LoseReply
  <2>3. tool = "names" \/ tool = "roles"
    BY <1>1 DEF AnswerInv
  <2>4. ToSet(c) \subseteq truth
    BY <1>1 DEF AnswerInv
  <2>5. CASE CollectReply(c)
    <3>1. out' = out \cup ToSet(c) /\ missed' = missed
      BY <1>1, <2>3, <2>5 DEF CollectReply, AnswerInv
    <3> QED BY <1>1, <2>2, <2>3, <2>4, <3>1, <1>4, <1>5, <1>2, <1>3
         DEF AnswerInv, decode_topic_dir_entries, decode_role_reply, DirectoryInv,
             LatelyInv, AliveLately, Running
  <2>6. CASE LoseReply(c)
    <3>1. out' = out /\ missed' = TRUE
      BY <2>6 DEF LoseReply
    <3> QED BY <1>1, <2>2, <2>3, <2>4, <3>1, <1>4, <1>5, <1>2, <1>3
         DEF AnswerInv, decode_topic_dir_entries, decode_role_reply, DirectoryInv,
             LatelyInv, AliveLately, Running
  <2> QED BY <2>1, <2>5, <2>6
<1>7. CASE ToolPrints \/ \E t \in Topic, numeric \in BOOLEAN : Match(t, numeric)
  <2>1. /\ tool' \in {"idle", "matched"} /\ wire' = {}
        /\ out' = {} /\ truth' = {} /\ missed' = FALSE
    BY <1>7 DEF ToolPrints, Match, QuietThen
  <2>2. AnswerInv' /\ LatelyInv'
    BY <2>1 DEF AnswerInv, LatelyInv
  <2> QED BY <1>4, <1>5, <2>2 DEF DirectoryInv
<1> QED BY <1>6, <1>7 DEF Tool

\* The daemon is idle or restarted, or time passes.
LEMMA OtherActionsKeep ==
  ASSUME DirectoryInv, Idle \/ Restart \/ TimePasses \/ UNCHANGED allVars
  PROVE  DirectoryInv'
<1>1. RegistryInv /\ NamesInv /\ KeyInv /\ AnswerInv /\ LatelyInv
  BY DEF DirectoryInv
<1>2. lastSeen \in [Topic \X Node -> Age] /\ roleSeen \in [Node -> Age]
  BY <1>1 DEF RegistryInv, Shape, TypeOK
<1>3. CASE Idle
  <2>1. Forgets /\ UNCHANGED dirVars
    BY <1>1, <1>3, PruneForgets DEF Idle, PruneIdle, Forgets
  <2> QED BY <2>1, ForgetsStays, DirectoryStays
<1>4. CASE UNCHANGED allVars
  <2>1. Forgets /\ UNCHANGED dirVars
    BY <1>2, <1>4 DEF allVars, vars, serverVars, Forgets
  <2> QED BY <2>1, ForgetsStays, DirectoryStays
<1>5. CASE Restart
  <2>1. /\ lastSeen' = [k \in Topic \X Node |-> Absent]
        /\ roleSeen' = [n \in Node |-> Absent]
        /\ topic_names' = [t \in Topic |-> 0]
        /\ UNCHANGED <<nodeVars, net, deadFor>>
        /\ UNCHANGED <<setting, announces, tool, wire, out, truth, missed>>
    BY <1>2, <1>5 DEF Restart, toolVars
  <2>2. Absent \in Age
    BY DEF Age
  <2>3. Forgets
    BY <2>1, <2>2 DEF Forgets
  <2>4. RegistryInv' /\ NodesGoOn /\ TableShrinks
    BY <2>3, ForgetsStays
  <2>5. NamesInv'
    BY <1>1, <2>1, DirectoryAssumption DEF NamesInv
  <2>6. KeyInv'
    BY <1>1, <2>1, <2>4, KeysStay
  <2>7. AnswerInv'
    BY <1>1, <2>1 DEF AnswerInv, decode_topic_dir_entries, decode_role_reply
  <2>8. LatelyInv'
    BY <1>1, <2>1, <2>4, LatelyStays
  <2> QED BY <2>4, <2>5, <2>6, <2>7, <2>8 DEF DirectoryInv
<1>6. CASE TimePasses
  <2>1. /\ Tick /\ tool \in {"idle", "matched"}
        /\ UNCHANGED <<setting, topic_names, announces, tool, wire, out, truth, missed>>
    BY <1>6 DEF TimePasses, dirVars, toolVars
  <2>2. RegistryInv'
    BY <1>1, <2>1, TickKeeps
  <2>3. NamesInv'
    BY <1>1, <2>1 DEF NamesInv
  <2>4. \A t \in Topic, n \in Node : lastSeen[<<t, n>>] = Absent => lastSeen'[<<t, n>>] = Absent
    BY <1>2, <2>1 DEF Tick, Older
  <2>5. KeyInv'
    BY <1>1, <2>1, <2>4 DEF KeyInv
  <2>6. AnswerInv' /\ LatelyInv'
    BY <1>1, <2>1 DEF AnswerInv, LatelyInv, decode_topic_dir_entries, decode_role_reply
  <2> QED BY <2>2, <2>3, <2>5, <2>6 DEF DirectoryInv
<1> QED BY <1>3, <1>4, <1>5, <1>6

LEMMA NextKeepsDirectory == DirectoryInv /\ [DirectoryNext]_allVars => DirectoryInv'
<1> SUFFICES ASSUME DirectoryInv, [DirectoryNext]_allVars PROVE DirectoryInv'
  OBVIOUS
<1> QED BY NodeActionsKeep, DatagramActionsKeep, AnnounceActionsKeep, QueryActionsKeep,
           ToolActionsKeep, OtherActionsKeep DEF DirectoryNext

\* The inductive invariant of the daemon with its nodes and the tool.
THEOREM DirectoryInvariant == DirectorySpec => []DirectoryInv
<1> QED BY InitDirectory, NextKeepsDirectory, PTL DEF DirectorySpec

\* Every variable of the daemon, the nodes and the tool has its type, and no
\* name announce is sent that is empty or longer than the entry limit
\* (chunk_topic_dir_entries, topic_directory.hpp:111-143).
THEOREM DirectoryTypeCorrect == DirectorySpec => []DirectoryTypeOK
<1>1. DirectoryInv => DirectoryTypeOK
  BY DirectoryAssumption
     DEF DirectoryInv, RegistryInv, Shape, NamesInv, KeyInv, AnswerInv, DirectoryTypeOK
<1> QED BY <1>1, DirectoryInvariant, PTL

\* Unless a reply is lost, `rl_topic list` and `rl_topic info` print exactly
\* what the daemon knew when it answered, however many topics, names and roles
\* there are: the limits the daemon cuts its answer by are the ones the tool's
\* decoder accepts (topic_directory.hpp:111-143, relink_rlcore.cpp:309-330).
THEOREM CompleteUnlessLostHolds == DirectorySpec => []CompleteUnlessLost
<1>1. DirectoryInv => CompleteUnlessLost
  BY DEF DirectoryInv, AnswerInv, CompleteUnlessLost
<1> QED BY <1>1, DirectoryInvariant, PTL

\* What they print is of processes that are alive, or died no longer ago than
\* the TTL and the network's delay, and of topics only a process with the
\* daemon's key registers: also while requests are lost or late, and through
\* restarts of the daemon (prune_stale, relink_rlcore.cpp:240-247, 413).
THEOREM GoneNotListedHolds == DirectorySpec => []GoneNotListed
<1>1. DirectoryInv => GoneNotListed
  BY DEF DirectoryInv, AnswerInv, LatelyInv, GoneNotListed
<1> QED BY <1>1, DirectoryInvariant, PTL
-----------------------------------------------------------------------------
(* The whole daemon, with the dispatch by first bytes, sealed requests,     *)
(* names, roles, queries and restarts, as an implementation of the registry: *)
(* to the table all of that is a registration step, or a loss.              *)

\* The registry of a daemon that may be restarted, and to which any datagram
\* may be lost, whatever AllowLoss says.
ForgetfulSpec == Init /\ [][Next \/ Forgets]_vars

LEMMA ForgetfulInvariant == ForgetfulSpec => []RegistryInv
<1>1. RegistryInv /\ [Next \/ Forgets]_vars => RegistryInv'
  BY NextKeepsRegistry, ForgetsKeeps
<1> QED BY <1>1, InitRegistry, PTL DEF ForgetfulSpec

\* A step of the daemon, the nodes or the tool is one of the registry.
LEMMA DirectoryStep ==
  DirectoryInv /\ [DirectoryNext]_allVars => [Next \/ Forgets]_vars
<1> SUFFICES ASSUME DirectoryInv, [DirectoryNext]_allVars PROVE [Next \/ Forgets]_vars
  OBVIOUS
<1>1. ASSUME NEW n \in Node, NodeStarts(n) \/ NodeWakes(n) \/ NodeGoesOn(n)
      PROVE  Next
  BY <1>1 DEF NodeStarts, NodeWakes, NodeGoesOn, Next
<1>2. ASSUME NEW m \in net,
             NodeReceives(m) \/ HandleRequest(m) \/ HandleRoles(m) \/ LoseRegistration(m)
      PROVE  Next
  BY <1>2 DEF NodeReceives, HandleRequest, HandleRoles, LoseRegistration, Next
<1>3. ASSUME NEW m \in net, DropRequest(m) \/ ForwardRequest(m)
      PROVE  Forgets
  <2>1. Daemon /\ UNCHANGED <<nodeVars, deadFor>> /\ net' \subseteq net
    BY <1>3 DEF DropRequest, ForwardRequest, Ignore
  <2> QED BY <2>1, DaemonForgets
<1>4. ASSUME NEW a \in announces, HandleNames(a) PROVE Forgets
  <2>1. Daemon /\ UNCHANGED <<nodeVars, deadFor>> /\ net' \subseteq net
    BY <1>4 DEF HandleNames
  <2> QED BY <2>1, DaemonForgets
<1>5. ASSUME HandleNameQuery \/ HandleRoleQuery PROVE Forgets
  <2>1. Daemon /\ UNCHANGED <<nodeVars, deadFor>> /\ net' \subseteq net
    BY <1>5 DEF HandleNameQuery, HandleRoleQuery
  <2> QED BY <2>1, DaemonForgets
<1>6. ASSUME Restart PROVE Forgets
  <2>1. Absent \in Age
    BY DEF Age
  <2>2. lastSeen \in [Topic \X Node -> Age]
    BY DEF DirectoryInv, RegistryInv, Shape, TypeOK
  <2> QED BY <1>6, <2>1, <2>2 DEF Restart, Forgets
<1>7. ASSUME Tool \/ (\E a \in announces : LoseAnnounce(a)) \/ UNCHANGED allVars
      PROVE  UNCHANGED vars
  BY <1>7 DEF Tool, CollectReply, LoseReply, ToolPrints, Match, QuietThen, LoseAnnounce,
              allVars
<1>8. ASSUME Idle \/ TimePasses PROVE Next
  BY <1>8 DEF Idle, TimePasses, Next
<1> QED BY <1>1, <1>2, <1>3, <1>4, <1>5, <1>6, <1>7, <1>8 DEF DirectoryNext

\* Init is a conjunct of DirectoryInit, and every step maps to a step of the
\* registry, a loss of entries or datagrams, or a stutter: nothing around the
\* table adds an entry, refreshes one or makes an ack (relink_rlcore.cpp).
THEOREM DaemonIsARegistry == DirectorySpec => ForgetfulSpec
<1>1. DirectoryInit => Init
  BY DEF DirectoryInit
<1> QED BY <1>1, DirectoryStep, DirectoryInvariant, PTL DEF DirectorySpec, ForgetfulSpec

\* A registry that forgets still does not hand out the dead.
LEMMA ForgetfulHandsOutLately == ForgetfulSpec => DeadNotHandedOut
<1>1. RegistryInv /\ [Next \/ Forgets]_vars => [HandedOutLately]_vars
  <2>1. Forgets => HandedOutLately
    BY DEF Forgets, HandedOutLately
  <2> QED BY <2>1, StepHandsOutLately
<1> QED BY <1>1, ForgetfulInvariant, PTL
        DEF ForgetfulSpec, DeadNotHandedOut, HandedOutLately

\* DeadNotHandedOut is true of the daemon as it runs, also with restarts, with
\* requests it cannot open, takes for a frame or for a directory packet.
THEOREM DaemonHandsOutLately == DirectorySpec => DeadNotHandedOut
<1> QED BY DaemonIsARegistry, ForgetfulHandsOutLately

\* With setting s, no request of n can look like anything else: it is not
\* sealed and starts with the bytes of n's address, which are not those of a
\* directory packet, and of a frame only if the daemon does not relay; or it is
\* sealed and the daemon does not relay.
NeverMistaken(s, n) ==
  IF s.nodeKey[n] = NoKey
  THEN s.prefix[n] = "request" \/ (s.prefix[n] = "frame" /\ ~s.relay)
  ELSE ~s.relay

\* The step that takes a request off the socket refreshes its entries.
HandledWhenTaken ==
  \A m \in net : m.kind = "register" /\ m \notin net' /\ Opens(m.node)
    /\ [m EXCEPT !.age = @ + 1] \notin net' =>
      \A t \in m.topics : lastSeen'[<<t, m.node>>] = 0

LEMMA OnlyRequests ==
  ASSUME NEW n \in Node, NeverMistaken(setting, n), NEW look \in Looks(n),
         setting.relay \in BOOLEAN
  PROVE  Path(look) = "request"
<1>1. CASE setting.nodeKey[n] = NoKey
  BY <1>1 DEF NeverMistaken, Looks, encode_register_request, Path,
              topic_dir_packet_kind, role_packet_kind
<1>2. CASE setting.nodeKey[n] # NoKey
  BY <1>2 DEF NeverMistaken, Looks, aes256gcm_seal, Path,
              topic_dir_packet_kind, role_packet_kind
<1> QED BY <1>1, <1>2

LEMMA StepHandlesRequests ==
  ASSUME AllowLoss = FALSE, \A n \in Node : NeverMistaken(setting, n),
         DirectoryInv, DirectoryNext
  PROVE  HandledWhenTaken
<1> SUFFICES ASSUME NEW m \in net, m.kind = "register", m \notin net', Opens(m.node),
                    [m EXCEPT !.age = @ + 1] \notin net', NEW t \in m.topics
             PROVE  lastSeen'[<<t, m.node>>] = 0
  BY DEF HandledWhenTaken
<1>1. /\ RegistryInv /\ m.node \in Node /\ t \in Topic
      /\ setting.relay \in BOOLEAN
  BY DirectoryAssumption DEF DirectoryInv, KeyInv, RegistryInv, Shape, Datagram
<1>2. \A look \in Looks(m.node) : Path(look) = "request"
  BY <1>1, OnlyRequests
<1>3. CASE HandleRequest(m)
  <2>1. lastSeen' = Insert(Prune(lastSeen), m.node, m.topics)
    BY <1>3 DEF HandleRequest, HandleRegister
  <2>2. DOMAIN Prune(lastSeen) = Topic \X Node
    BY <1>1, PruneForgets
  <2> QED BY <1>1, <2>1, <2>2 DEF Insert
<1>4. ASSUME DropRequest(m) \/ ForwardRequest(m) PROVE FALSE
  <2>1. \A look \in Looks(m.node) : Path(look) # "directory" /\ Path(look) # "frame"
    BY <1>2
  <2> QED BY <1>4, <2>1 DEF DropRequest, ForwardRequest
<1>5. ASSUME NEW d \in net, d # m,
             \/ NodeReceives(d) \/ HandleRequest(d) \/ DropRequest(d)
             \/ ForwardRequest(d) \/ HandleRoles(d)
      PROVE  FALSE
  BY <1>5 DEF NodeReceives, ReceiveAck, HandleRequest, HandleRegister, DropRequest,
              ForwardRequest, Ignore, HandleRoles, HandleRole
<1>6. ASSUME NodeReceives(m) \/ HandleRoles(m) PROVE FALSE
  BY <1>6 DEF NodeReceives, ReceiveAck, HandleRoles, HandleRole
<1>7. ASSUME NEW d \in net, LoseRegistration(d) PROVE FALSE
  BY <1>7 DEF LoseRegistration, Lose
<1>8. ASSUME NEW n \in Node, NodeStarts(n) \/ NodeWakes(n) \/ NodeGoesOn(n)
      PROVE  FALSE
  BY <1>8 DEF NodeStarts, NodeWakes, NodeGoesOn, Start, Wake, TakeReply, TimeOut, Crash
<1>9. ASSUME NEW a \in announces, HandleNames(a) \/ LoseAnnounce(a) PROVE FALSE
  BY <1>9 DEF HandleNames, LoseAnnounce, vars
<1>10. ASSUME HandleNameQuery \/ HandleRoleQuery \/ Idle \/ Restart PROVE FALSE
  BY <1>10 DEF HandleNameQuery, HandleRoleQuery, Idle, PruneIdle, Restart
<1>11. ASSUME Tool PROVE FALSE
  BY <1>11 DEF Tool, CollectReply, LoseReply, ToolPrints, Match, QuietThen, vars
<1>12. ASSUME TimePasses PROVE FALSE
  BY <1>12 DEF TimePasses, Tick
<1> QED BY <1>3, <1>4, <1>5, <1>6, <1>7, <1>8, <1>9, <1>10, <1>11, <1>12
        DEF DirectoryNext

\* The dispatch of the daemon is as relink_rlcore.cpp:380-386 says it is, the
\* relay "never steals traffic that path would otherwise have handled", for
\* every daemon and node that is started so that no request can be mistaken;
\* the dispatch run shows that the condition is needed.
THEOREM RequestsAreHandledUnlessMistaken ==
  ASSUME AllowLoss = FALSE,
         \A s \in Settings, n \in Node : NeverMistaken(s, n)
  PROVE  DirectorySpec => RequestsAreHandled
<1>1. DirectoryInv /\ [DirectoryNext]_allVars => [HandledWhenTaken]_allVars
  <2> SUFFICES ASSUME DirectoryInv, DirectoryNext PROVE HandledWhenTaken
    OBVIOUS
  <2>1. setting \in Settings
    BY DEF DirectoryInv, KeyInv
  <2> QED BY <2>1, StepHandlesRequests
<1> QED BY <1>1, DirectoryInvariant, PTL
        DEF DirectorySpec, RequestsAreHandled, HandledWhenTaken


-----------------------------------------------------------------------------
(* The command line tool: the remembered address. *)

\* Ages, counted up to the first one that no report includes.
SampleAge == 0 .. (ReportEvery + 1)
RecentAge == 0 .. ReportEvery

\* Every variable of the tool has its type, ToolTypeOK with the variables known
\* to be functions; pub has published no more than it was asked to, and before
\* the last message less than that.
ToolShape ==
  /\ args \in CommandLines
  /\ pc \in [Proc -> Pc]
  /\ Address(conf) \/ conf \in {NoFile, Empty}
  /\ DOMAIN using = Proc
  /\ found \in [Proc -> BOOLEAN] /\ g_stop \in [Proc -> BOOLEAN]
  /\ waited \in [Proc -> 0 .. Timeout]
  /\ printed \in [Proc -> 0 .. MaxMessages]
  /\ samples \in [Proc -> Seq(SampleAge)]
  /\ heard \in [Proc -> Seq(RecentAge)]
  /\ sent \in [Proc -> Nat]
  /\ \A p \in Proc :
       /\ sent[p] <= Repeats(p)
       /\ pc[p] \in {"main", "saving", "ready", "waiting", "publishing"} =>
            sent[p] < Repeats(p)

\* What is about to be saved is the address on the command line.  If conf.bin
\* holds no address, a save is under way or was cut short, or else nobody has
\* ever had an address.
SaveInv ==
  /\ \A p \in Proc : pc[p] = "saving" => Address(using[p]) /\ using[p] = args[p].addr
  /\ \/ Address(conf)
     \/ torn
     \/ \E p \in Proc : pc[p] = "saving"
     \/ \A p \in Proc : ~Address(using[p])

\* The last k of h are the last k of s.
Aligned(h, s, k) ==
  /\ k <= Len(h) /\ k <= Len(s)
  /\ \A i \in 0 .. (k - 1) : h[Len(h) - i] = s[Len(s) - i]

OldestFirst(h) == \A i, j \in 1 .. Len(h) : i <= j => h[j] <= h[i]

\* How many of the messages heard a command c has to count.
Due(c, h) == IF c = "hz" /\ Len(h) > Window THEN Window ELSE Len(h)

\* The arrivals are kept in their order, and those that count are the last ones
\* of the samples.
Counted(c, h, s) ==
  /\ OldestFirst(h)
  /\ c \in {"hz", "bw"} => Aligned(h, s, Due(c, h))

ArrivalInv == \A p \in Proc : Counted(args[p].command, heard[p], samples[p])

ToolInv == ToolShape /\ SaveInv /\ ArrivalInv

LEMMA ToolNumbers ==
  /\ Window \in Nat /\ Window >= 1
  /\ ReportEvery \in Nat /\ Timeout \in Nat /\ MaxMessages \in Nat
<1>1. Window \in Nat \ {0} /\ ReportEvery \in Nat /\ Timeout \in Nat /\ MaxMessages \in Nat
  BY ToolAssumption
<1> QED BY <1>1

LEMMA ToolInitInv == ToolInit => ToolInv
<1> SUFFICES ASSUME ToolInit PROVE ToolInv
  OBVIOUS
<1> USE DEF ToolInit
<1>1. ToolShape
  <2>1. \A p \in Proc : Repeats(p) \in Nat \ {0}
    <3>1. ASSUME NEW p \in Proc PROVE Repeats(p) \in Nat \ {0}
      <4>1. args[p].repeat \in Nat
        BY ToolAssumption
      <4> QED BY <4>1 DEF Repeats
    <3> QED BY <3>1
  <2>2. Address(conf) \/ conf \in {NoFile, Empty}
    BY ToolAssumption
  <2>3. /\ waited \in [Proc -> 0 .. Timeout] /\ printed \in [Proc -> 0 .. MaxMessages]
        /\ samples \in [Proc -> Seq(SampleAge)]
        /\ heard \in [Proc -> Seq(RecentAge)]
    <3>1. 0 \in 0 .. Timeout /\ 0 \in 0 .. MaxMessages
      BY ToolNumbers
    <3>2. << >> \in Seq(SampleAge) /\ << >> \in Seq(RecentAge)
      OBVIOUS
    <3> QED BY <3>1, <3>2
  <2>4. \A p \in Proc : sent[p] < Repeats(p) /\ sent[p] <= Repeats(p)
    BY <2>1
  <2> QED BY <2>2, <2>3, <2>4 DEF ToolShape, Pc
<1>2. SaveInv
  BY DEF SaveInv, Address
<1>3. ArrivalInv
  <2>1. ASSUME NEW p \in Proc, NEW c PROVE Counted(c, heard[p], samples[p])
    <3>1. heard[p] = << >> /\ samples[p] = << >> /\ Window \in Nat
      BY ToolNumbers
    <3>2. Due(c, heard[p]) = 0
      BY <3>1 DEF Due
    <3> QED BY <3>1, <3>2 DEF Counted, OldestFirst, Aligned
  <2> QED BY <2>1 DEF ArrivalInv
<1> QED BY <1>1, <1>2, <1>3 DEF ToolInv


-----------------------------------------------------------------------------
(* The remembered address, action by action. *)

LEMMA SaveStep ==
  ASSUME ToolShape, SaveInv, [ToolNext]_commandVars
  PROVE  SaveInv'
<1> USE DEF ToolShape, Goto, confVars, pubVars, subVars
<1> DEFINE Quiet == /\ UNCHANGED confVars /\ UNCHANGED args
                    /\ \A p \in Proc : pc'[p] = "saving" <=> pc[p] = "saving"
<1>1. ASSUME Quiet PROVE SaveInv'
  BY <1>1 DEF SaveInv, Address
<1>2. ASSUME NEW p \in Proc, OpenConf(p) PROVE SaveInv'
  <2> USE <1>2 DEF OpenConf
  <2>1. /\ args' = args /\ torn' = torn
        /\ using' = [using EXCEPT ![p] = args[p].addr]
        /\ args[p].addr \in {NotGiven, BadAddress} \/ Address(args[p].addr)
    BY ToolAssumption
  <2>2. CASE opens_file(args[p].addr)
    <3>1. Address(args[p].addr) /\ pc' = [pc EXCEPT ![p] = "saving"]
      BY <2>1, <2>2 DEF opens_file
    <3>2. pc'[p] = "saving" /\ using'[p] = args[p].addr
      BY <2>1, <3>1
    <3>3. \A q \in Proc \ {p} : pc'[q] = pc[q] /\ using'[q] = using[q]
      BY <2>1, <3>1
    <3>4. \A q \in Proc : pc'[q] = "saving" =>
            (Address(using[q]))' /\ using'[q] = args'[q].addr
      BY <2>1, <3>1, <3>2, <3>3 DEF SaveInv, Address
    <3> QED BY <3>2, <3>4 DEF SaveInv
  <2>3. CASE ~opens_file(args[p].addr)
    <3>1. /\ args[p].addr = BadAddress /\ conf' = conf
          /\ pc' = [pc EXCEPT ![p] = "ready"]
      BY <2>3 DEF opens_file
    <3>2. pc'[p] = "ready" /\ using'[p] = BadAddress /\ pc[p] = "main"
      BY <2>1, <3>1
    <3>3. \A q \in Proc \ {p} : pc'[q] = pc[q] /\ using'[q] = using[q]
      BY <2>1, <3>1
    <3> QED BY <2>1, <3>1, <3>2, <3>3 DEF SaveInv, Address
  <2> QED BY <2>2, <2>3
<1>3. ASSUME NEW p \in Proc, WriteConf(p) PROVE SaveInv'
  <2>1. /\ pc[p] = "saving" /\ pc' = [pc EXCEPT ![p] = "ready"]
        /\ using' = using /\ args' = args
    BY <1>3 DEF WriteConf
  <2>2. Address(using[p]) /\ using[p] = args[p].addr
    BY <2>1 DEF SaveInv
  <2>3. conf' = using[p]
    BY <1>3, <2>2, ToolAssumption DEF WriteConf, conf_bytes
  <2>4. (Address(conf))'
    BY <2>2, <2>3 DEF Address
  <2>5. \A q \in Proc : pc'[q] = "saving" => pc[q] = "saving"
    BY <2>1
  <2> QED BY <2>1, <2>4, <2>5 DEF SaveInv, Address
<1>4. ASSUME NEW p \in Proc, LoadConf(p) PROVE SaveInv'
  <2>1. /\ pc[p] = "main" /\ pc' = [pc EXCEPT ![p] = "ready"] /\ args' = args
        /\ using' = [using EXCEPT ![p] = IF Address(conf) THEN conf ELSE Multicast]
        /\ conf' = conf /\ torn' = torn
    BY <1>4 DEF LoadConf
  <2>2. \A q \in Proc \ {p} : pc'[q] = pc[q] /\ using'[q] = using[q]
    BY <2>1
  <2>3. pc'[p] = "ready" /\ (~Address(conf) => using'[p] = Multicast)
    BY <2>1
  <2> QED BY <2>1, <2>2, <2>3 DEF SaveInv, Address
<1>5. ASSUME NEW p \in Proc, Kill(p) PROVE SaveInv'
  <2>1. /\ pc' = [pc EXCEPT ![p] = "killed"] /\ args' = args
        /\ conf' = conf /\ using' = using
        /\ torn' = (torn \/ pc[p] = "saving")
    BY <1>5 DEF Kill
  <2>2. \A q \in Proc \ {p} : pc'[q] = pc[q]
    BY <2>1
  <2>3. pc'[p] = "killed"
    BY <2>1
  <2> QED BY <2>1, <2>2, <2>3 DEF SaveInv, Address
<1>6. ASSUME NEW p \in Proc,
             Begin(p) \/ StopWaiting(p) \/ Publish(p) \/ LeaveLoop(p) \/ Return(p)
             \/ IpcFails(p) \/ FindPeer(p) \/ Sample(p) \/ Report(p) \/ OnSigint(p)
             \/ LateMessage(p) \/ \E size \in Sizes, text \in BOOLEAN : Echo(p, size, text)
      PROVE  Quiet
  <2>1. CASE Begin(p)
    <3>1. FirstStep(p) # "saving"
      BY ToolAssumption DEF FirstStep, Command
    <3> QED BY <2>1, <3>1 DEF Begin
  <2>2. CASE StopWaiting(p) \/ Publish(p) \/ LeaveLoop(p) \/ Return(p)
    BY <2>2 DEF StopWaiting, Publish, LeaveLoop, Return
  <2>3. CASE IpcFails(p) \/ FindPeer(p) \/ Sample(p) \/ Report(p)
    BY <2>3 DEF IpcFails, FindPeer, Sample, Report
  <2>4. CASE OnSigint(p) \/ LateMessage(p)
    BY <2>4 DEF OnSigint, LateMessage
  <2>5. CASE \E size \in Sizes, text \in BOOLEAN : Echo(p, size, text)
    BY <2>5 DEF Echo
  <2> QED BY <1>6, <2>1, <2>2, <2>3, <2>4, <2>5
<1>7. ASSUME UnitPasses PROVE Quiet
  BY <1>7 DEF UnitPasses
<1>8. CASE UNCHANGED commandVars
  BY <1>1, <1>8 DEF commandVars
<1> QED BY <1>1, <1>2, <1>3, <1>4, <1>5, <1>6, <1>7, <1>8 DEF ToolNext, Step

\* Nobody has an address while conf.bin has none, unless a save is under way
\* or was cut short.
LEMMA SaveInvSuffices == SaveInv => NotForgotten
BY DEF SaveInv, NotForgotten

-----------------------------------------------------------------------------
(* Types. *)

LEMMA RepeatsPositive ==
  ASSUME NEW p \in Proc, args \in CommandLines
  PROVE  Repeats(p) \in Nat /\ Repeats(p) >= 1
<1>1. args[p].repeat \in Nat
  BY ToolAssumption
<1> QED BY <1>1 DEF Repeats

\* What the recursion of recent is, in steps.
LEMMA RecentSteps ==
  ASSUME NEW A \in SUBSET Int, NEW ages \in Seq(A)
  PROVE  \E kept \in [0 .. Len(ages) -> Seq({a \in A : a <= ReportEvery})] :
           /\ kept[0] = << >>
           /\ \A i \in 1 .. Len(ages) :
                kept[i] = IF ages[i] <= ReportEvery
                          THEN Append(kept[i - 1], ages[i]) ELSE kept[i - 1]
           /\ recent(ages) = kept[Len(ages)]
<1>1. PICK n \in Nat : n = Len(ages) /\ \A i \in 1 .. n : ages[i] \in A
  OBVIOUS
<1>2. PICK R : R = Seq({a \in A : a <= ReportEvery})
  OBVIOUS
<1> DEFINE Keep(v, i) == IF ages[i] <= ReportEvery THEN Append(v, ages[i]) ELSE v
           P(g) == g = [i \in 0 .. Len(ages) |->
                          IF i = 0 THEN << >> ELSE Keep(g[i - 1], i)]
<1>3. << >> \in R
  BY <1>2
<1>4. ASSUME NEW v \in R, NEW i \in 1 .. n PROVE Keep(v, i) \in R
  BY <1>1, <1>2
<1>5. \E f \in [0 .. n -> R] : P(f)
  <2> HIDE DEF Keep
  <2>1. PICK G : G = [x \in R \X (1 .. n) |-> Keep(x[1], x[2])]
    OBVIOUS
  <2>2. G \in StepFunctions(R, n)
    BY <1>4, <2>1 DEF StepFunctions
  <2>3. PICK f \in [0 .. n -> R] : Follows(f, << >>, G, n)
    BY <1>3, <2>2, RecursionExists
  <2>4. ASSUME NEW i \in 1 .. n PROVE f[i] = Keep(f[i - 1], i)
    <3>1. f[i - 1] \in R
      BY <2>3
    <3> QED BY <2>1, <2>3, <3>1 DEF Follows
  <2>5. P(f)
    BY <1>1, <2>3, <2>4 DEF Follows
  <2> QED BY <2>5
<1>6. PICK g : P(g) /\ recent(ages) = g[n]
  <2>1. P(CHOOSE g : P(g))
    <3> HIDE DEF P
    <3> QED BY <1>5
  <2> QED BY <1>1, <2>1 DEF recent
<1>7. g[0] = << >> /\ \A i \in 1 .. n : g[i] = Keep(g[i - 1], i)
  <2> HIDE DEF Keep
  <2> QED BY <1>1, <1>6
<1>8. \A i \in 0 .. n : g[i] \in R
  <2> DEFINE T == {i \in Nat : i <= n => g[i] \in R}
  <2> HIDE DEF Keep
  <2>1. 0 \in T
    BY <1>3, <1>7
  <2>2. ASSUME NEW i \in T PROVE i + 1 \in T
    <3>1. CASE i + 1 <= n
      <4>1. i + 1 \in 1 .. n /\ (i + 1) - 1 = i /\ g[i] \in R
        BY <3>1
      <4>2. g[i + 1] = Keep(g[i], i + 1)
        BY <1>7, <4>1
      <4> QED BY <1>4, <4>1, <4>2
    <3> QED BY <3>1
  <2>3. T \in SUBSET Nat
    OBVIOUS
  <2>4. T = Nat
    <3> HIDE DEF T
    <3> QED BY <2>1, <2>2, <2>3, Induction
  <2> QED BY <2>4
<1>9. g \in [0 .. n -> R]
  <2>1. DOMAIN g = 0 .. n /\ g = [i \in 0 .. n |-> g[i]]
    <3> HIDE DEF Keep
    <3> QED BY <1>1, <1>6
  <2> QED BY <1>8, <2>1
<1> QED BY <1>1, <1>2, <1>6, <1>7, <1>9

\* The messages at the end that are recent are still at the end.
LEMMA RecentKeeps ==
  ASSUME NEW A \in SUBSET Int, NEW ages \in Seq(A), NEW k \in 0 .. Len(ages),
         \A i \in 0 .. (k - 1) : ages[Len(ages) - i] <= ReportEvery
  PROVE  /\ recent(ages) \in Seq({a \in A : a <= ReportEvery})
         /\ Aligned(ages, recent(ages), k)
<1>1. PICK n \in Nat : n = Len(ages) /\ \A i \in 1 .. n : ages[i] \in A
  OBVIOUS
<1>2. PICK R : R = Seq({a \in A : a <= ReportEvery})
  OBVIOUS
<1>3. PICK kept \in [0 .. n -> R] :
        /\ kept[0] = << >>
        /\ \A i \in 1 .. n : kept[i] = IF ages[i] <= ReportEvery
                                       THEN Append(kept[i - 1], ages[i]) ELSE kept[i - 1]
        /\ recent(ages) = kept[n]
  BY <1>1, <1>2, RecentSteps
\* from is where the last k begin
<1>4. PICK from \in 0 .. n : from = n - k
  BY <1>1
<1>5. \A i \in 1 .. n : i > from => ages[i] <= ReportEvery
  <2>1. ASSUME NEW i \in 1 .. n, i > from PROVE ages[i] <= ReportEvery
    <3>1. n - i \in 0 .. (k - 1) /\ n - (n - i) = i
      BY <1>4, <2>1
    <3> QED BY <1>1, <3>1
  <2> QED BY <2>1
<1> DEFINE Good(i) == /\ i - from <= Len(kept[i])
                      /\ \A j \in 0 .. (i - from - 1) : kept[i][Len(kept[i]) - j] = ages[i - j]
           T == {m \in Nat : from + m <= n => Good(from + m)}
<1>6. 0 \in T
  <2>1. kept[from] \in R
    BY <1>3
  <2>2. Len(kept[from]) \in Nat
    BY <1>2, <2>1
  <2> QED BY <2>2
<1>7. ASSUME NEW m \in T PROVE m + 1 \in T
  <2> SUFFICES ASSUME from + (m + 1) <= n PROVE Good(from + (m + 1))
    OBVIOUS
  <2>1. PICK i \in 1 .. n : i = from + m + 1 /\ i - 1 = from + m /\ i - 1 \in 0 .. n
    OBVIOUS
  <2>2. Good(i - 1)
    BY <2>1
  <2>3. PICK v \in R : v = kept[i - 1]
    BY <2>1
  <2>4. PICK a \in {b \in A : b <= ReportEvery} : a = ages[i]
    <3>1. m \in Nat /\ i > from
      BY <2>1
    <3> QED BY <1>1, <1>5, <3>1
  <2>5. kept[i] = Append(v, a)
    BY <1>3, <2>3, <2>4
  <2>6. /\ Len(Append(v, a)) = Len(v) + 1 /\ Len(v) \in Nat
        /\ Append(v, a)[Len(v) + 1] = a
        /\ \A l \in 1 .. Len(v) : Append(v, a)[l] = v[l]
    BY <1>2
  <2>7. Len(kept[i]) = Len(v) + 1
    BY <2>5, <2>6
  <2>8. m <= Len(v) /\ \A j \in 0 .. (m - 1) : v[Len(v) - j] = ages[i - 1 - j]
    BY <2>1, <2>2, <2>3
  <2>9. ASSUME NEW j \in 0 .. m PROVE kept[i][Len(kept[i]) - j] = ages[i - j]
    <3>1. CASE j = 0
      BY <2>4, <2>5, <2>6, <2>7, <3>1
    <3>2. CASE j > 0
      <4>1. j - 1 \in 0 .. (m - 1) /\ Len(v) - (j - 1) \in 1 .. Len(v)
        BY <2>6, <2>8, <3>2
      <4>2. v[Len(v) - (j - 1)] = ages[i - 1 - (j - 1)]
        BY <2>8, <4>1
      <4>3. i - 1 - (j - 1) = i - j /\ Len(v) - (j - 1) = Len(kept[i]) - j
        BY <2>6, <2>7
      <4>4. kept[i][Len(v) - (j - 1)] = v[Len(v) - (j - 1)]
        BY <2>5, <2>6, <4>1
      <4> QED BY <4>2, <4>3, <4>4
    <3> QED BY <3>1, <3>2
  <2>10. i - from = m + 1 /\ i - from - 1 = m
    BY <2>1
  <2>11. Good(i)
    BY <2>6, <2>7, <2>8, <2>9, <2>10
  <2> QED BY <2>1, <2>11
<1>8. T = Nat
  <2>1. T \in SUBSET Nat
    OBVIOUS
  <2> HIDE DEF T
  <2> QED BY <1>6, <1>7, <2>1, Induction
<1>9. Good(n)
  <2>1. k \in Nat /\ from + k = n
    BY <1>1, <1>4
  <2>2. k \in T
    <3> HIDE DEF T
    <3> QED BY <1>8, <2>1
  <2>3. Good(from + k)
    <3> HIDE DEF Good
    <3> QED BY <2>1, <2>2
  <2> QED BY <2>1, <2>3
<1>10. n - from = k
  BY <1>1, <1>4
<1>11. recent(ages) \in R
  BY <1>3
<1> QED BY <1>1, <1>2, <1>3, <1>9, <1>10, <1>11 DEF Aligned

\* If the ages do not increase, nothing but the end is left.
LEMMA RecentIsTheEnd ==
  ASSUME NEW A \in SUBSET Int, NEW ages \in Seq(A), OldestFirst(ages)
  PROVE  /\ recent(ages) \in Seq({a \in A : a <= ReportEvery})
         /\ Aligned(ages, recent(ages), Len(recent(ages)))
<1>1. PICK n \in Nat : n = Len(ages) /\ \A i \in 1 .. n : ages[i] \in A
  OBVIOUS
<1>2. PICK R : R = Seq({a \in A : a <= ReportEvery})
  OBVIOUS
<1>3. PICK kept \in [0 .. n -> R] :
        /\ kept[0] = << >>
        /\ \A i \in 1 .. n : kept[i] = IF ages[i] <= ReportEvery
                                       THEN Append(kept[i - 1], ages[i]) ELSE kept[i - 1]
        /\ recent(ages) = kept[n]
  BY <1>1, <1>2, RecentSteps
<1> DEFINE Good(i) == /\ Len(kept[i]) <= i
                      /\ \A j \in 0 .. (Len(kept[i]) - 1) :
                           kept[i][Len(kept[i]) - j] = ages[i - j]
           T == {i \in Nat : i <= n => Good(i)}
<1>4. 0 \in T
  <2>1. Len(kept[0]) = 0
    BY <1>3
  <2> QED BY <2>1
<1>5. ASSUME NEW m \in T PROVE m + 1 \in T
  <2> SUFFICES ASSUME m + 1 <= n PROVE Good(m + 1)
    <3> HIDE DEF Good
    <3> QED OBVIOUS
  <2>1. PICK i \in 1 .. n : i = m + 1 /\ i - 1 = m /\ i - 1 \in 0 .. n
    OBVIOUS
  <2>2. Good(m)
    BY <2>1
  <2>3. PICK v \in R : v = kept[m]
    BY <2>1
  <2>4. Len(v) \in Nat /\ Len(v) <= m
    BY <1>2, <2>2, <2>3
  <2>5. \A j \in 0 .. (Len(v) - 1) : v[Len(v) - j] = ages[m - j]
    BY <2>2, <2>3
  <2>6. CASE ages[i] <= ReportEvery
    <3>1. PICK a \in {b \in A : b <= ReportEvery} : a = ages[i]
      BY <1>1, <2>6
    <3>2. kept[i] = Append(v, a)
      BY <1>3, <2>1, <2>3, <2>6, <3>1
    <3>3. /\ Len(Append(v, a)) = Len(v) + 1
          /\ Append(v, a)[Len(v) + 1] = a
          /\ \A l \in 1 .. Len(v) : Append(v, a)[l] = v[l]
      BY <1>2
    <3>4. Len(kept[i]) = Len(v) + 1
      BY <3>2, <3>3
    <3>5. ASSUME NEW j \in 0 .. Len(v) PROVE kept[i][Len(kept[i]) - j] = ages[i - j]
      <4>1. CASE j = 0
        BY <2>4, <3>1, <3>2, <3>3, <3>4, <4>1
      <4>2. CASE j > 0
        <5>1. j - 1 \in 0 .. (Len(v) - 1) /\ Len(v) - (j - 1) \in 1 .. Len(v)
          BY <2>4, <4>2
        <5>2. v[Len(v) - (j - 1)] = ages[m - (j - 1)]
          BY <2>5, <5>1
        <5>3. m - (j - 1) = i - j /\ Len(v) - (j - 1) = Len(kept[i]) - j
          BY <2>1, <2>4, <3>4
        <5>4. kept[i][Len(v) - (j - 1)] = v[Len(v) - (j - 1)]
          BY <3>2, <3>3, <5>1
        <5> QED BY <5>2, <5>3, <5>4
      <4> QED BY <4>1, <4>2
    <3>6. Good(i)
      BY <2>1, <2>4, <3>4, <3>5
    <3> QED BY <2>1, <3>6
  <2>7. CASE ~(ages[i] <= ReportEvery)
    <3>1. kept[i] = v
      BY <1>3, <2>1, <2>3, <2>7
    \* a message kept so far would be no older than this one
    <3>2. Len(v) = 0
      <4> SUFFICES ASSUME Len(v) > 0 PROVE FALSE
        BY <2>4
      <4>1. /\ v[Len(v)] = ages[m] /\ m <= i
            /\ m \in 1 .. Len(ages) /\ i \in 1 .. Len(ages)
        <5>1. 0 \in 0 .. (Len(v) - 1) /\ Len(v) - 0 = Len(v) /\ m - 0 = m /\ m \in Nat
          BY <2>1, <2>4
        <5>2. v[Len(v)] = ages[m]
          BY <2>5, <5>1
        <5> QED BY <1>1, <2>1, <2>4, <5>1, <5>2
      <4>2. ages[i] <= ages[m]
        BY <4>1 DEF OldestFirst
      <4>3. v[Len(v)] <= ReportEvery
        <5>1. PICK l \in 1 .. Len(v) : l = Len(v)
          BY <2>4
        <5>2. PICK B : B = {b \in A : b <= ReportEvery}
          OBVIOUS
        <5>3. v \in Seq(B)
          BY <1>2, <5>2
        <5>4. v[l] \in B
          BY <5>3
        <5> QED BY <5>1, <5>2, <5>4
      <4>4. ages[i] \in Int /\ ages[m] \in Int /\ ReportEvery \in Int
        <5>1. ages[i] \in A /\ ages[m] \in A
          BY <1>1, <4>1
        <5>2. ReportEvery \in Int
          BY ToolNumbers
        <5> QED BY <5>1, <5>2
      <4> QED BY <2>7, <4>1, <4>2, <4>3, <4>4
    <3>3. Good(i)
      BY <2>1, <3>1, <3>2
    <3> QED BY <2>1, <3>3
  <2> QED BY <2>6, <2>7
<1>6. T = Nat
  <2>1. T \in SUBSET Nat
    OBVIOUS
  <2> HIDE DEF T
  <2> QED BY <1>4, <1>5, <2>1, Induction
<1>7. Good(n)
  <2>1. n \in T
    <3> HIDE DEF T
    <3> QED BY <1>6
  <2> HIDE DEF Good
  <2> QED BY <2>1
<1>8. recent(ages) \in R
  BY <1>3
<1> QED BY <1>1, <1>2, <1>3, <1>7, <1>8 DEF Aligned

-----------------------------------------------------------------------------
(* The end of a sequence: what keeps two of them aligned. *)

LEMMA AlignedLess ==
  ASSUME NEW h \in Seq(Int), NEW s \in Seq(Int), NEW k \in Nat, Aligned(h, s, k),
         NEW m \in 0 .. k
  PROVE  Aligned(h, s, m)
BY DEF Aligned

LEMMA AlignedAlong ==
  ASSUME NEW h \in Seq(Int), NEW s \in Seq(Int), NEW t \in Seq(Int), NEW k \in Nat,
         Aligned(h, s, k), Aligned(s, t, k)
  PROVE  Aligned(h, t, k)
BY DEF Aligned

LEMMA AlignedBack ==
  ASSUME NEW h \in Seq(Int), NEW s \in Seq(Int), NEW k \in Nat, Aligned(h, s, k)
  PROVE  Aligned(s, h, k)
BY DEF Aligned

LEMMA AlignedAppend ==
  ASSUME NEW h \in Seq(Int), NEW s \in Seq(Int), NEW k \in Nat, Aligned(h, s, k),
         NEW a \in Int
  PROVE  Aligned(Append(h, a), Append(s, a), k + 1)
<1>1. PICK x : x = Append(h, a)
  OBVIOUS
<1>2. PICK y : y = Append(s, a)
  OBVIOUS
<1>3. PICK m \in Nat, n \in Nat : m = Len(h) /\ n = Len(s)
  OBVIOUS
<1>4. /\ Len(x) = m + 1 /\ x[m + 1] = a
      /\ \A i \in 1 .. m : x[i] = h[i]
  BY <1>1, <1>3
<1>5. /\ Len(y) = n + 1 /\ y[n + 1] = a
      /\ \A i \in 1 .. n : y[i] = s[i]
  BY <1>2, <1>3
<1>6. k <= m /\ k <= n /\ \A i \in 0 .. (k - 1) : h[m - i] = s[n - i]
  BY <1>3 DEF Aligned
<1>7. ASSUME NEW i \in 0 .. k PROVE x[m + 1 - i] = y[n + 1 - i]
  <2>1. CASE i = 0
    BY <1>4, <1>5, <2>1
  <2>2. CASE i > 0
    <3>1. PICK j \in 0 .. (k - 1) : j = i - 1
      BY <2>2
    <3>2. m - j \in 1 .. m /\ n - j \in 1 .. n
      BY <1>6
    <3>3. m + 1 - i = m - j /\ n + 1 - i = n - j
      BY <3>1
    <3>4. x[m - j] = h[m - j] /\ y[n - j] = s[n - j]
      BY <1>4, <1>5, <3>2
    <3> QED BY <1>6, <3>3, <3>4
  <2> QED BY <2>1, <2>2
<1>8. Aligned(x, y, k + 1)
  BY <1>4, <1>5, <1>6, <1>7 DEF Aligned
<1> QED BY <1>1, <1>2, <1>8

\* The ages of a sequence one unit later.
LEMMA AgedSteps ==
  ASSUME NEW s \in Seq(SampleAge)
  PROVE  /\ Aged(s) \in Seq(SampleAge) /\ Len(Aged(s)) = Len(s)
         /\ \A i \in 1 .. Len(s) :
              Aged(s)[i] = IF s[i] > ReportEvery THEN s[i] ELSE s[i] + 1
<1>1. DOMAIN s = 1 .. Len(s) /\ Len(s) \in Nat
  OBVIOUS
<1>2. \A i \in 1 .. Len(s) : s[i] \in SampleAge
  OBVIOUS
<1>3. Aged(s) \in [1 .. Len(s) -> SampleAge]
  <2>1. \A a \in SampleAge : (IF a > ReportEvery THEN a ELSE a + 1) \in SampleAge
    BY ToolNumbers DEF SampleAge
  <2> QED BY <1>1, <1>2, <2>1 DEF Aged
<1>4. Aged(s) \in Seq(SampleAge)
  BY <1>1, <1>3
<1>5. Len(Aged(s)) = Len(s)
  BY <1>1, <1>3, <1>4
<1> QED BY <1>1, <1>4, <1>5 DEF Aged

LEMMA AlignedAged ==
  ASSUME NEW h \in Seq(SampleAge), NEW s \in Seq(SampleAge),
         NEW k \in Nat, Aligned(h, s, k)
  PROVE  Aligned(Aged(h), Aged(s), k)
<1>1. /\ Len(Aged(h)) = Len(h) /\ Len(Aged(s)) = Len(s)
      /\ \A i \in 1 .. Len(h) : Aged(h)[i] = IF h[i] > ReportEvery THEN h[i] ELSE h[i] + 1
      /\ \A i \in 1 .. Len(s) : Aged(s)[i] = IF s[i] > ReportEvery THEN s[i] ELSE s[i] + 1
  BY AgedSteps
<1>2. k <= Len(h) /\ k <= Len(s) /\ Len(h) \in Nat /\ Len(s) \in Nat
  BY DEF Aligned
<1>3. ASSUME NEW i \in 0 .. (k - 1) PROVE Aged(h)[Len(h) - i] = Aged(s)[Len(s) - i]
  <2>1. Len(h) - i \in 1 .. Len(h) /\ Len(s) - i \in 1 .. Len(s)
    BY <1>2
  <2>2. h[Len(h) - i] = s[Len(s) - i]
    BY DEF Aligned
  <2> QED BY <1>1, <2>1, <2>2
<1> QED BY <1>1, <1>2, <1>3 DEF Aligned

LEMMA OldestFirstAged ==
  ASSUME NEW h \in Seq(SampleAge), OldestFirst(h)
  PROVE  OldestFirst(Aged(h))
<1>1. /\ Len(Aged(h)) = Len(h) /\ Len(h) \in Nat
      /\ \A i \in 1 .. Len(h) : Aged(h)[i] = IF h[i] > ReportEvery THEN h[i] ELSE h[i] + 1
  BY AgedSteps
<1>2. ASSUME NEW i \in 1 .. Len(h), NEW j \in 1 .. Len(h), i <= j
      PROVE  Aged(h)[j] <= Aged(h)[i]
  <2>1. h[j] <= h[i] /\ h[i] \in SampleAge /\ h[j] \in SampleAge
    BY <1>1, <1>2 DEF OldestFirst
  <2>2. h[i] \in Int /\ h[j] \in Int
    BY <2>1, ToolNumbers DEF SampleAge
  <2> QED BY <1>1, <2>1, <2>2, ToolNumbers
<1> QED BY <1>1, <1>2 DEF OldestFirst

\* Cutting off the front.
LEMMA AlignedNewest ==
  ASSUME NEW s \in Seq(Int), NEW k \in Nat, NEW m \in 0 .. k, m <= Len(s), k >= 1
  PROVE  Newest(s, k) \in Seq(Int) /\ Aligned(s, Newest(s, k), m)
<1>1. CASE Len(s) <= k
  BY <1>1 DEF Newest, Aligned
<1>2. CASE Len(s) > k
  <2>1. PICK n \in Nat : n = Len(s) /\ n > k
    BY <1>2
  <2>2. PICK t : t = SubSeq(s, n - k + 1, n)
    OBVIOUS
  <2>3. t \in Seq(Int) /\ Len(t) = k /\ \A i \in 1 .. k : t[i] = s[n - k + i]
    <3>1. PICK f \in Int : f = n - k + 1
      <4>1. n - k + 1 \in Int
        OBVIOUS
      <4> QED BY <4>1
    <3>2. \A i \in f .. n : s[i] \in Int
      BY <2>1, <3>1
    <3>3. /\ t \in Seq(Int) /\ Len(t) = IF f <= n THEN n - f + 1 ELSE 0
          /\ \A i \in 1 .. (n - f + 1) : t[i] = s[f + i - 1]
      BY <2>2, <3>1, <3>2, SubSeqProperties
    <3>4. f <= n /\ n - f + 1 = k
      BY <2>1, <3>1
    <3>5. ASSUME NEW i \in 1 .. k PROVE t[i] = s[n - k + i]
      <4>1. f + i - 1 = n - k + i
        BY <3>1
      <4> QED BY <3>3, <3>4, <4>1
    <3> QED BY <3>3, <3>4, <3>5
  <2>4. ASSUME NEW i \in 0 .. (m - 1) PROVE s[n - i] = t[k - i]
    <3>1. k - i \in 1 .. k /\ n - k + (k - i) = n - i
      BY <2>1
    <3> QED BY <2>3, <3>1
  <2>5. Newest(s, k) = t
    BY <2>1, <2>2 DEF Newest
  <2>6. m <= Len(s) /\ m <= Len(t)
    BY <2>3
  <2>7. \A i \in 0 .. (m - 1) : s[Len(s) - i] = t[Len(t) - i]
    BY <2>1, <2>3, <2>4
  <2> QED BY <2>3, <2>5, <2>6, <2>7 DEF Aligned
<1> QED BY <1>1, <1>2

\* The ages are numbers.
LEMMA AgeFacts ==
  /\ SampleAge \in SUBSET Int /\ RecentAge \in SUBSET Int /\ RecentAge \subseteq SampleAge
  /\ {a \in SampleAge : a <= ReportEvery} = RecentAge
  /\ 0 \in RecentAge
BY ToolNumbers DEF SampleAge, RecentAge

LEMMA SeqAges ==
  /\ \A s : s \in Seq(RecentAge) => s \in Seq(SampleAge)
  /\ \A s : s \in Seq(SampleAge) => s \in Seq(Int)
<1>1. Seq(RecentAge) \subseteq Seq(SampleAge) /\ Seq(SampleAge) \subseteq Seq(Int)
  BY AgeFacts, SeqMonotonic
<1> QED BY <1>1

LEMMA DueBounds ==
  ASSUME NEW c, NEW h \in Seq(Int)
  PROVE  /\ Due(c, h) \in 0 .. Len(h)
         /\ c = "hz" => Due(c, h) <= Window
BY ToolNumbers DEF Due

\* A message arrives.
LEMMA SampleCounts ==
  ASSUME NEW c, NEW h \in Seq(RecentAge), NEW s \in Seq(SampleAge), Counted(c, h, s)
  PROVE  /\ Append(h, 0) \in Seq(RecentAge) /\ Append(s, 0) \in Seq(SampleAge)
         /\ Counted(c, Append(h, 0), Append(s, 0))
<1>1. h \in Seq(Int) /\ s \in Seq(Int) /\ 0 \in RecentAge /\ 0 \in SampleAge
  BY AgeFacts, SeqAges
<1>2. Append(h, 0) \in Seq(RecentAge) /\ Append(s, 0) \in Seq(SampleAge)
  BY <1>1
<1>3. PICK x \in Seq(Int) : x = Append(h, 0)
  <2>1. Append(h, 0) \in Seq(Int)
    BY <1>1
  <2> QED BY <2>1
<1>4. PICK y \in Seq(Int) : y = Append(s, 0)
  <2>1. Append(s, 0) \in Seq(Int)
    BY <1>1
  <2> QED BY <2>1
<1>5. PICK m \in Nat : m = Len(h)
  OBVIOUS
<1>6. Len(x) = m + 1 /\ x[m + 1] = 0 /\ \A i \in 1 .. m : x[i] = h[i]
  BY <1>1, <1>3, <1>5
<1>7. OldestFirst(x)
  <2>1. ASSUME NEW i \in 1 .. (m + 1), NEW j \in 1 .. (m + 1), i <= j PROVE x[j] <= x[i]
    <3>1. CASE j <= m
      <4>1. i \in 1 .. m /\ j \in 1 .. m
        BY <2>1, <3>1
      <4> QED BY <1>5, <1>6, <2>1, <4>1 DEF Counted, OldestFirst
    <3>2. CASE j = m + 1 /\ i <= m
      <4>1. PICK l \in 1 .. m : l = i
        BY <3>2
      <4>2. h[l] \in RecentAge
        BY <1>5
      <4> QED BY <1>6, <3>2, <4>1, <4>2 DEF RecentAge
    <3>3. CASE j = m + 1 /\ i = m + 1
      BY <1>6, <3>3
    <3> QED BY <3>1, <3>2, <3>3
  <2> QED BY <1>6, <2>1 DEF OldestFirst
<1>8. ASSUME c \in {"hz", "bw"} PROVE Aligned(x, y, Due(c, x))
  <2>1. PICK k \in 0 .. m : k = Due(c, h)
    BY <1>1, <1>5, DueBounds
  <2>2. Aligned(h, s, k)
    BY <1>8, <2>1 DEF Counted
  <2>3. Aligned(x, y, k + 1)
    BY <1>1, <1>3, <1>4, <2>2, AlignedAppend
  <2>4. Due(c, x) \in 0 .. (k + 1)
    BY <1>5, <1>6, <2>1, ToolNumbers DEF Due
  <2> QED BY <2>3, <2>4, AlignedLess
<1> QED BY <1>2, <1>3, <1>4, <1>7, <1>8 DEF Counted

\* A report: nothing that is not too old is lost, nor is anything of the newest
\* Window.
LEMMA ReportCounts ==
  ASSUME NEW p, NEW h \in Seq(RecentAge), NEW s \in Seq(SampleAge),
         args[p].command \in {"hz", "bw"}, Counted(args[p].command, h, s)
  PROVE  /\ trim(p, recent(s)) \in Seq(SampleAge)
         /\ Counted(args[p].command, h, trim(p, recent(s)))
<1>1. PICK c : c = args[p].command /\ c \in {"hz", "bw"}
  OBVIOUS
<1>2. h \in Seq(Int) /\ s \in Seq(Int)
  BY SeqAges
<1>3. PICK k \in Nat : k = Due(c, h) /\ k <= Len(h) /\ (c = "hz" => k <= Window)
  BY <1>2, DueBounds
<1>4. Aligned(h, s, k)
  BY <1>1, <1>3 DEF Counted
<1>5. PICK m \in Nat, n \in Nat : m = Len(h) /\ n = Len(s)
  OBVIOUS
<1>6. k <= m /\ k <= n /\ \A i \in 0 .. (k - 1) : h[m - i] = s[n - i]
  BY <1>4, <1>5 DEF Aligned
<1>7. \A i \in 0 .. (k - 1) : s[n - i] <= ReportEvery
  <2>1. ASSUME NEW i \in 0 .. (k - 1) PROVE s[n - i] <= ReportEvery
    <3>1. m - i \in 1 .. m
      BY <1>6
    <3>2. h[m - i] \in RecentAge
      BY <1>5, <3>1
    <3>3. h[m - i] <= ReportEvery
      BY <3>2 DEF RecentAge
    <3> QED BY <1>6, <3>3
  <2> QED BY <2>1
<1>8. PICK r \in Seq(RecentAge) : r = recent(s) /\ Aligned(s, r, k)
  <2>1. k \in 0 .. Len(s)
    BY <1>5, <1>6
  <2> QED BY <1>5, <1>7, <2>1, AgeFacts, RecentKeeps
<1>9. r \in Seq(Int) /\ r \in Seq(SampleAge)
  BY SeqAges
<1>10. Aligned(h, r, k) /\ k <= Len(r)
  BY <1>2, <1>4, <1>8, <1>9, AlignedAlong DEF Aligned
<1>11. CASE c = "hz"
  <2>1. PICK t : t = Newest(r, Window)
    OBVIOUS
  <2>2. k \in 0 .. Window
    BY <1>3, <1>11
  <2>3. Window \in Nat /\ Window >= 1
    BY ToolNumbers
  <2>4. t \in Seq(Int) /\ Aligned(r, t, k)
    BY <1>9, <1>10, <2>1, <2>2, <2>3, AlignedNewest
  <2>5. Aligned(h, t, k)
    BY <1>2, <1>9, <1>10, <2>4, AlignedAlong
  <2>6. t \in Seq(SampleAge)
    <3>1. PICK l \in Nat : l = Len(r) /\ \A i \in 1 .. l : r[i] \in SampleAge
      BY <1>9
    <3>2. CASE l > Window
      <4>1. PICK f \in Int : f = l - Window + 1
        <5>1. l - Window + 1 \in Int
          BY <2>3
        <5> QED BY <5>1
      <4>2. \A i \in f .. l : r[i] \in SampleAge
        BY <2>3, <3>1, <3>2, <4>1
      <4>3. SubSeq(r, f, l) \in Seq(SampleAge)
        BY <4>2, SubSeqProperties
      <4> QED BY <2>1, <3>1, <3>2, <4>1, <4>3 DEF Newest
    <3>3. CASE ~(l > Window)
      BY <1>9, <2>1, <3>1, <3>3 DEF Newest
    <3> QED BY <3>2, <3>3
  <2>7. trim(p, recent(s)) = t
    BY <1>1, <1>8, <1>11, <2>1 DEF trim
  <2> QED BY <1>1, <1>3, <2>5, <2>6, <2>7 DEF Counted
<1>12. CASE c = "bw"
  <2>1. trim(p, recent(s)) = r
    BY <1>1, <1>8, <1>12 DEF trim
  <2> QED BY <1>1, <1>3, <1>9, <1>10, <2>1 DEF Counted
<1> QED BY <1>1, <1>11, <1>12

\* A unit passes: what is still due was due before.
LEMMA UnitCounts ==
  ASSUME NEW c, NEW h \in Seq(RecentAge), NEW s \in Seq(SampleAge), Counted(c, h, s)
  PROVE  /\ recent(Aged(h)) \in Seq(RecentAge) /\ Aged(s) \in Seq(SampleAge)
         /\ Counted(c, recent(Aged(h)), Aged(s))
<1>1. h \in Seq(SampleAge) /\ h \in Seq(Int) /\ s \in Seq(Int)
  BY SeqAges
<1>2. PICK x \in Seq(SampleAge) : x = Aged(h) /\ Len(x) = Len(h)
  BY <1>1, AgedSteps
<1>3. PICK y \in Seq(SampleAge) : y = Aged(s)
  BY AgedSteps
<1>4. OldestFirst(x)
  BY <1>1, <1>2, OldestFirstAged DEF Counted
<1>5. PICK r \in Seq(RecentAge) : r = recent(x) /\ Aligned(x, r, Len(r))
  BY <1>4, AgeFacts, RecentIsTheEnd
<1>6. x \in Seq(Int) /\ y \in Seq(Int) /\ r \in Seq(Int)
  BY SeqAges
<1>7. PICK m \in Nat, n \in Nat : m = Len(r) /\ n = Len(x)
  OBVIOUS
<1>8. m <= n /\ \A i \in 0 .. (m - 1) : x[n - i] = r[m - i]
  BY <1>5, <1>7 DEF Aligned
<1>9. OldestFirst(r)
  <2>1. ASSUME NEW i \in 1 .. m, NEW j \in 1 .. m, i <= j PROVE r[j] <= r[i]
    <3>1. ASSUME NEW l \in 1 .. m PROVE n - m + l \in 1 .. n /\ r[l] = x[n - m + l]
      <4>1. PICK d \in 0 .. (m - 1) : d = m - l
        <5>1. m - l \in 0 .. (m - 1)
          OBVIOUS
        <5> QED BY <5>1
      <4>2. n - d = n - m + l /\ m - d = l
        BY <4>1
      <4>3. n - m + l \in 1 .. n
        BY <1>8
      <4>4. x[n - d] = r[m - d]
        BY <1>8
      <4> QED BY <4>2, <4>3, <4>4
    <3>2. n - m + i <= n - m + j
      BY <2>1
    <3>3. x[n - m + j] <= x[n - m + i]
      BY <1>4, <1>7, <3>1, <3>2 DEF OldestFirst
    <3> QED BY <3>1, <3>3
  <2> QED BY <1>7, <2>1 DEF OldestFirst
<1>10. ASSUME c \in {"hz", "bw"} PROVE Aligned(r, y, Due(c, r))
  <2>1. PICK k \in 0 .. Len(h) : k = Due(c, h)
    BY <1>1, DueBounds
  <2>2. Aligned(h, s, k)
    BY <1>10, <2>1 DEF Counted
  <2>3. Aligned(x, y, k)
    BY <1>1, <1>2, <1>3, <2>2, AlignedAged
  <2>4. PICK d \in Nat : d = Due(c, r) /\ d <= k /\ d <= m
    <3>1. Due(c, r) \in 0 .. k /\ Due(c, r) <= m
      BY <1>2, <1>7, <1>8, <2>1, ToolNumbers DEF Due
    <3> QED BY <3>1
  <2>5. Aligned(x, r, d) /\ Aligned(x, y, d)
    BY <1>5, <1>6, <1>7, <2>3, <2>4, AlignedLess
  <2>6. Aligned(r, x, d)
    BY <1>6, <2>5, AlignedBack
  <2>7. Aligned(r, y, d)
    BY <1>6, <2>5, <2>6, AlignedAlong
  <2> QED BY <2>4, <2>7
<1> QED BY <1>2, <1>3, <1>5, <1>9, <1>10 DEF Counted

-----------------------------------------------------------------------------
(* The arrivals, action by action. *)

\* Only an arrival, a report and time touch what is kept.
LEMMA ArrivalStep ==
  ASSUME ToolShape, ArrivalInv, [ToolNext]_commandVars
  PROVE  /\ ArrivalInv'
         /\ samples' \in [Proc -> Seq(SampleAge)] /\ heard' \in [Proc -> Seq(RecentAge)]
<1> USE DEF confVars, pubVars, subVars
<1>1. /\ samples \in [Proc -> Seq(SampleAge)] /\ heard \in [Proc -> Seq(RecentAge)]
      /\ \A p \in Proc : Counted(args[p].command, heard[p], samples[p])
  BY DEF ToolShape, ArrivalInv
<1>2. ASSUME UNCHANGED <<args, samples, heard>>
      PROVE  /\ ArrivalInv'
             /\ samples' \in [Proc -> Seq(SampleAge)] /\ heard' \in [Proc -> Seq(RecentAge)]
  BY <1>1, <1>2 DEF ArrivalInv
<1>3. ASSUME NEW p \in Proc,
             OpenConf(p) \/ WriteConf(p) \/ LoadConf(p) \/ Begin(p) \/ StopWaiting(p)
             \/ Publish(p) \/ LeaveLoop(p) \/ Return(p) \/ Kill(p) \/ IpcFails(p)
             \/ FindPeer(p) \/ OnSigint(p) \/ LateMessage(p)
             \/ \E size \in Sizes, text \in BOOLEAN : Echo(p, size, text)
      PROVE  UNCHANGED <<args, samples, heard>>
  BY <1>3 DEF OpenConf, WriteConf, LoadConf, Begin, StopWaiting, Publish, LeaveLoop, Return,
              Kill, IpcFails, FindPeer, OnSigint, LateMessage, Echo
<1>4. ASSUME NEW p \in Proc, Sample(p)
      PROVE  /\ ArrivalInv'
             /\ samples' \in [Proc -> Seq(SampleAge)] /\ heard' \in [Proc -> Seq(RecentAge)]
  <2>1. PICK h \in Seq(RecentAge), s \in Seq(SampleAge) : h = heard[p] /\ s = samples[p]
    BY <1>1
  <2>2. PICK c : c = args[p].command
    OBVIOUS
  <2>3. /\ samples' = [samples EXCEPT ![p] = Append(s, 0)]
        /\ heard' = [heard EXCEPT ![p] = Append(h, 0)]
        /\ args' = args
    BY <1>4, <2>1 DEF Sample
  <2>4. /\ Append(h, 0) \in Seq(RecentAge) /\ Append(s, 0) \in Seq(SampleAge)
        /\ Counted(c, Append(h, 0), Append(s, 0))
    <3>1. Counted(c, h, s)
      BY <1>1, <2>1, <2>2
    <3> QED BY <3>1, SampleCounts
  <2>5. samples'[p] = Append(s, 0) /\ heard'[p] = Append(h, 0)
    BY <1>1, <2>3
  <2>6. \A q \in Proc \ {p} : samples'[q] = samples[q] /\ heard'[q] = heard[q]
    BY <1>1, <2>3
  <2>7. ASSUME NEW q \in Proc PROVE Counted(args'[q].command, heard'[q], samples'[q])
    BY <1>1, <2>2, <2>3, <2>4, <2>5, <2>6
  <2>8. samples' \in [Proc -> Seq(SampleAge)] /\ heard' \in [Proc -> Seq(RecentAge)]
    BY <1>1, <2>3, <2>4
  <2> QED BY <2>7, <2>8 DEF ArrivalInv
<1>5. ASSUME NEW p \in Proc, Report(p)
      PROVE  /\ ArrivalInv'
             /\ samples' \in [Proc -> Seq(SampleAge)] /\ heard' \in [Proc -> Seq(RecentAge)]
  <2>1. PICK h \in Seq(RecentAge), s \in Seq(SampleAge) : h = heard[p] /\ s = samples[p]
    BY <1>1
  <2>2. PICK t : t = trim(p, recent(s))
    OBVIOUS
  <2>3. /\ args[p].command \in {"hz", "bw"}
        /\ samples' = [samples EXCEPT ![p] = t]
        /\ heard' = heard /\ args' = args
    BY <1>5, <2>1, <2>2 DEF Report
  <2>4. t \in Seq(SampleAge) /\ Counted(args[p].command, h, t)
    <3>1. Counted(args[p].command, h, s)
      BY <1>1, <2>1
    <3> QED BY <2>2, <2>3, <3>1, ReportCounts
  <2>5. samples'[p] = t /\ \A q \in Proc \ {p} : samples'[q] = samples[q]
    BY <1>1, <2>3
  <2>6. ASSUME NEW q \in Proc PROVE Counted(args'[q].command, heard'[q], samples'[q])
    BY <1>1, <2>1, <2>3, <2>4, <2>5
  <2>7. samples' \in [Proc -> Seq(SampleAge)] /\ heard' \in [Proc -> Seq(RecentAge)]
    BY <1>1, <2>3, <2>4
  <2> QED BY <2>6, <2>7 DEF ArrivalInv
<1>6. ASSUME UnitPasses
      PROVE  /\ ArrivalInv'
             /\ samples' \in [Proc -> Seq(SampleAge)] /\ heard' \in [Proc -> Seq(RecentAge)]
  <2>1. /\ samples' = [p \in Proc |-> Aged(samples[p])]
        /\ heard' = [p \in Proc |-> recent(Aged(heard[p]))]
        /\ args' = args
    BY <1>6 DEF UnitPasses
  <2>2. ASSUME NEW p \in Proc
        PROVE  /\ recent(Aged(heard[p])) \in Seq(RecentAge) /\ Aged(samples[p]) \in Seq(SampleAge)
               /\ Counted(args[p].command, recent(Aged(heard[p])), Aged(samples[p]))
    <3>1. PICK h \in Seq(RecentAge), s \in Seq(SampleAge) : h = heard[p] /\ s = samples[p]
      BY <1>1
    <3>2. PICK c : c = args[p].command
      OBVIOUS
    <3>3. Counted(c, h, s)
      BY <1>1, <3>1, <3>2
    <3>4. /\ recent(Aged(h)) \in Seq(RecentAge) /\ Aged(s) \in Seq(SampleAge)
          /\ Counted(c, recent(Aged(h)), Aged(s))
      BY <3>3, UnitCounts
    <3> QED BY <3>1, <3>2, <3>4
  <2>3. samples' \in [Proc -> Seq(SampleAge)] /\ heard' \in [Proc -> Seq(RecentAge)]
    BY <2>1, <2>2
  <2>4. ASSUME NEW p \in Proc PROVE Counted(args'[p].command, heard'[p], samples'[p])
    BY <2>1, <2>2
  <2> QED BY <2>3, <2>4 DEF ArrivalInv
<1>7. CASE UNCHANGED commandVars
  BY <1>2, <1>7 DEF commandVars
<1> QED BY <1>2, <1>3, <1>4, <1>5, <1>6, <1>7 DEF ToolNext, Step

\* What is aligned is a suffix.
LEMMA AlignedIsSuffix ==
  ASSUME NEW h \in Seq(Int), NEW s \in Seq(Int), Aligned(h, s, Len(h))
  PROVE  IsSuffix(h, s)
<1>1. PICK m \in Nat, n \in Nat : m = Len(h) /\ n = Len(s)
  OBVIOUS
<1>2. m <= n /\ \A i \in 0 .. (m - 1) : h[m - i] = s[n - i]
  BY <1>1 DEF Aligned
<1>3. PICK x : x = Reverse(h)
  OBVIOUS
<1>4. PICK y : y = Reverse(s)
  OBVIOUS
<1>5. x \in Seq(Int) /\ Len(x) = m /\ \A i \in 1 .. m : x[i] = h[m - i + 1]
  <2>1. x = [i \in 1 .. m |-> h[m - i + 1]]
    BY <1>1, <1>3 DEF Reverse
  <2>2. \A i \in 1 .. m : m - i + 1 \in 1 .. m
    OBVIOUS
  <2>3. \A i \in 1 .. m : h[m - i + 1] \in Int
    BY <1>1, <2>2
  <2>4. x \in [1 .. m -> Int]
    BY <2>1, <2>3
  <2> QED BY <2>1, <2>4
<1>6. y \in Seq(Int) /\ Len(y) = n /\ \A i \in 1 .. n : y[i] = s[n - i + 1]
  <2>1. y = [i \in 1 .. n |-> s[n - i + 1]]
    BY <1>1, <1>4 DEF Reverse
  <2>2. \A i \in 1 .. n : n - i + 1 \in 1 .. n
    OBVIOUS
  <2>3. \A i \in 1 .. n : s[n - i + 1] \in Int
    BY <1>1, <2>2
  <2>4. y \in [1 .. n -> Int]
    BY <2>1, <2>3
  <2> QED BY <2>1, <2>4
<1>7. ASSUME NEW i \in 1 .. m PROVE x[i] = y[i]
  <2>1. PICK d \in 0 .. (m - 1) : d = i - 1
    <3>1. i - 1 \in 0 .. (m - 1)
      OBVIOUS
    <3> QED BY <3>1
  <2>2. m - i + 1 = m - d /\ n - i + 1 = n - d /\ i \in 1 .. n
    BY <1>2, <2>1
  <2>3. h[m - d] = s[n - d]
    BY <1>2
  <2> QED BY <1>5, <1>6, <2>2, <2>3
<1>8. SubSeq(x, 1, m) = SubSeq(y, 1, m)
  <2>1. PICK a : a = SubSeq(x, 1, m)
    OBVIOUS
  <2>2. PICK b : b = SubSeq(y, 1, m)
    OBVIOUS
  <2>3. a \in Seq(Int) /\ Len(a) = m /\ \A i \in 1 .. m : a[i] = x[i]
    BY <1>5, <2>1
  <2>4. b \in Seq(Int) /\ Len(b) = m /\ \A i \in 1 .. m : b[i] = y[i]
    BY <1>2, <1>6, <2>2
  <2>5. a = b
    BY <1>7, <2>3, <2>4, SeqEqual
  <2> QED BY <2>1, <2>2, <2>5
<1> QED BY <1>2, <1>3, <1>4, <1>5, <1>6, <1>8 DEF IsSuffix, IsPrefix

LEMMA ArrivalInvSuffices == ToolShape /\ ArrivalInv => EveryArrivalCounted
<1> SUFFICES ASSUME ToolShape, ArrivalInv, NEW p \in Proc, args[p].command \in {"hz", "bw"}
             PROVE  IsSuffix(IF args[p].command = "hz" THEN Newest(heard[p], Window)
                             ELSE heard[p], samples[p])
  BY DEF EveryArrivalCounted
<1>1. PICK h \in Seq(RecentAge), s \in Seq(SampleAge) : h = heard[p] /\ s = samples[p]
  BY DEF ToolShape
<1>2. h \in Seq(Int) /\ s \in Seq(Int)
  BY SeqAges
<1>3. PICK c : c = args[p].command
  OBVIOUS
<1>4. PICK k \in Nat : k = Due(c, h) /\ k <= Len(h)
  BY <1>2, DueBounds
<1>5. Aligned(h, s, k)
  BY <1>1, <1>3, <1>4 DEF ArrivalInv, Counted
<1>6. CASE c = "hz"
  <2>1. PICK t : t = Newest(h, Window)
    OBVIOUS
  <2>2. t \in Seq(Int) /\ Aligned(h, t, k) /\ Window \in Nat
    <3>1. k \in 0 .. Window
      BY <1>2, <1>4, <1>6, DueBounds
    <3> QED BY <1>2, <1>4, <2>1, <3>1, AlignedNewest, ToolNumbers
  <2>3. Len(t) = k
    <3>1. PICK l \in Nat : l = Len(h)
      OBVIOUS
    <3>2. CASE l > Window
      <4>1. PICK f \in Int : f = l - Window + 1
        <5>1. l - Window + 1 \in Int
          BY <2>2
        <5> QED BY <5>1
      <4>2. \A i \in f .. l : h[i] \in Int
        BY <1>2, <2>2, <3>1, <3>2, <4>1
      <4>3. Len(SubSeq(h, f, l)) = IF f <= l THEN l - f + 1 ELSE 0
        BY <4>2, SubSeqProperties
      <4>4. f <= l /\ l - f + 1 = Window
        BY <2>2, <4>1, ToolNumbers
      <4>5. t = SubSeq(h, f, l)
        BY <2>1, <3>1, <3>2, <4>1 DEF Newest
      <4> QED BY <1>4, <1>6, <3>1, <3>2, <4>3, <4>4, <4>5 DEF Due
    <3>3. CASE ~(l > Window)
      BY <1>4, <1>6, <2>1, <3>1, <3>3 DEF Due, Newest
    <3> QED BY <3>2, <3>3
  <2>4. Aligned(t, s, Len(t))
    BY <1>2, <1>5, <2>2, <2>3, AlignedBack, AlignedAlong
  <2>5. IsSuffix(t, s)
    BY <1>2, <2>2, <2>4, AlignedIsSuffix
  <2> QED BY <1>1, <1>3, <1>6, <2>1, <2>5
<1>7. CASE c # "hz"
  <2>1. k = Len(h)
    BY <1>4, <1>7 DEF Due
  <2>2. IsSuffix(h, s)
    BY <1>2, <1>5, <2>1, AlignedIsSuffix
  <2> QED BY <1>1, <1>3, <1>7, <2>2
<1> QED BY <1>6, <1>7

-----------------------------------------------------------------------------
(* The types, action by action. *)

\* A message of pub goes to whoever is there; the last one ends it.
LEMMA PublishTypes ==
  ASSUME ToolShape, NEW p \in Proc, Publish(p)
  PROVE  /\ sent' \in [Proc -> Nat] /\ pc' \in [Proc -> Pc]
         /\ \A q \in Proc :
              /\ sent'[q] <= Repeats(q)
              /\ pc'[q] \in {"main", "saving", "ready", "waiting", "publishing"} =>
                   sent'[q] < Repeats(q)
<1> USE DEF ToolShape
<1>1. PICK n \in Nat, k \in Nat : n = sent[p] /\ k = Repeats(p) /\ n < k
  <2>1. sent[p] \in Nat /\ Repeats(p) \in Nat
    BY RepeatsPositive
  <2>2. sent[p] < Repeats(p)
    BY DEF Publish
  <2> QED BY <2>1, <2>2
<1>2. /\ sent' = [sent EXCEPT ![p] = n + 1]
      /\ pc' = [pc EXCEPT ![p] = IF n + 1 < k THEN "publishing" ELSE "done"]
  BY <1>1 DEF Publish, Goto
<1>3. sent' \in [Proc -> Nat]
  BY <1>2
<1>4. pc' \in [Proc -> Pc]
  BY <1>2 DEF Pc
<1>5. \A q \in Proc \ {p} : sent'[q] = sent[q] /\ pc'[q] = pc[q]
  BY <1>2
<1>6. sent'[p] = n + 1 /\ pc'[p] = IF n + 1 < k THEN "publishing" ELSE "done"
  BY <1>2
<1>7. /\ sent'[p] <= k
      /\ pc'[p] \in {"main", "saving", "ready", "waiting", "publishing"} => sent'[p] < k
  BY <1>1, <1>6
<1> QED BY <1>1, <1>3, <1>4, <1>5, <1>7

\* Steps of the others' kind: the place in the program moves forward, pub's
\* counter stays.
Moves ==
  /\ sent' = sent /\ args' = args /\ pc' \in [Proc -> Pc]
  /\ \A q \in Proc :
       pc'[q] \in {"main", "saving", "ready", "waiting", "publishing"} =>
         pc[q] \in {"main", "saving", "ready", "waiting", "publishing"}

LEMMA MovesSuffices ==
  ASSUME ToolShape, Moves
  PROVE  /\ sent' \in [Proc -> Nat] /\ pc' \in [Proc -> Pc]
         /\ \A q \in Proc :
              /\ sent'[q] <= Repeats(q)
              /\ pc'[q] \in {"main", "saving", "ready", "waiting", "publishing"} =>
                   sent'[q] < Repeats(q)
BY DEF ToolShape, Moves

LEMMA ToolShapeStep ==
  ASSUME ToolShape, SaveInv, ArrivalInv, [ToolNext]_commandVars
  PROVE  ToolShape'
<1> USE DEF ToolShape, Goto, confVars, pubVars, subVars
<1> DEFINE Others == /\ Address(conf') \/ conf' \in {NoFile, Empty}
                     /\ DOMAIN using' = Proc
                     /\ found' \in [Proc -> BOOLEAN] /\ g_stop' \in [Proc -> BOOLEAN]
                     /\ waited' \in [Proc -> 0 .. Timeout]
                     /\ printed' \in [Proc -> 0 .. MaxMessages]
           Counts == /\ sent' \in [Proc -> Nat] /\ pc' \in [Proc -> Pc]
                     /\ \A q \in Proc :
                          /\ sent'[q] <= Repeats(q)
                          /\ pc'[q] \in {"main", "saving", "ready", "waiting", "publishing"} =>
                               sent'[q] < Repeats(q)
<1>1. /\ samples' \in [Proc -> Seq(SampleAge)] /\ heard' \in [Proc -> Seq(RecentAge)]
  BY ArrivalStep
<1>2. args' = args
  BY DEF ToolNext, Step, OpenConf, WriteConf, LoadConf, Begin, StopWaiting, Publish,
         LeaveLoop, Return, Kill, IpcFails, FindPeer, Sample, Report, OnSigint,
         LateMessage, Echo, UnitPasses, commandVars
<1>3. ASSUME Others, Counts PROVE ToolShape'
  <2>1. \A q \in Proc : Repeats(q)' = Repeats(q)
    BY <1>2 DEF Repeats
  <2>2. (Address(conf) \/ conf \in {NoFile, Empty})'
    BY <1>3 DEF Address
  <2> QED BY <1>1, <1>2, <1>3, <2>1, <2>2
<1>4. ASSUME NEW p \in Proc, OpenConf(p) \/ WriteConf(p) \/ LoadConf(p) PROVE Others /\ Moves
  <2>1. CASE OpenConf(p)
    BY <2>1 DEF OpenConf, Moves, Pc
  <2>2. CASE WriteConf(p)
    <3>1. Address(conf') \/ conf' \in {NoFile, Empty}
      <4>1. Address(using[p]) /\ using[p] = args[p].addr
        BY <2>2 DEF WriteConf, SaveInv
      <4>2. conf' = using[p]
        BY <2>2, <4>1, ToolAssumption DEF WriteConf, conf_bytes
      <4> QED BY <4>1, <4>2
    <3> QED BY <2>2, <3>1 DEF WriteConf, Moves, Pc
  <2>3. CASE LoadConf(p)
    BY <2>3 DEF LoadConf, Moves, Pc
  <2> QED BY <1>4, <2>1, <2>2, <2>3
<1>5. ASSUME NEW p \in Proc, Begin(p) \/ IpcFails(p) \/ Kill(p) PROVE Others /\ Moves
  <2>1. FirstStep(p) \in Pc
    BY ToolAssumption DEF FirstStep, Command, Pc
  <2> QED BY <1>5, <2>1 DEF Begin, IpcFails, Kill, Moves, Pc
<1>6. ASSUME NEW p \in Proc, FindPeer(p) \/ StopWaiting(p) \/ LeaveLoop(p) \/ Return(p)
      PROVE  Others /\ Moves
  BY <1>6 DEF FindPeer, StopWaiting, LeaveLoop, Return, Moves, Pc
<1>7. ASSUME NEW p \in Proc, Sample(p) \/ Report(p) \/ OnSigint(p) \/ LateMessage(p)
      PROVE  Others /\ Moves
  BY <1>7 DEF Sample, Report, OnSigint, LateMessage, Moves, Pc
<1>8. ASSUME NEW p \in Proc, NEW size \in Sizes, NEW text \in BOOLEAN, Echo(p, size, text)
      PROVE  Others /\ Moves
  <2>1. printed' \in [Proc -> 0 .. MaxMessages]
    <3>1. printed[p] \in 0 .. MaxMessages /\ printed[p] < MaxMessages
      BY <1>8 DEF Echo
    <3>2. printed[p] + 1 \in 0 .. MaxMessages
      BY <3>1, ToolNumbers
    <3> QED BY <1>8, <3>2 DEF Echo
  <2> QED BY <1>8, <2>1 DEF Echo, Moves, Pc
<1>9. ASSUME UnitPasses PROVE Others /\ Moves
  <2>1. \A p \in Proc : (IF pc[p] = "waiting" /\ waited[p] < Timeout
                         THEN waited[p] + 1 ELSE waited[p]) \in 0 .. Timeout
    BY ToolNumbers
  <2>2. waited' \in [Proc -> 0 .. Timeout]
    BY <1>9, <2>1 DEF UnitPasses
  <2> QED BY <1>9, <2>2 DEF UnitPasses, Moves
<1>10. ASSUME NEW p \in Proc, Publish(p) PROVE Others /\ Counts
  BY <1>10, PublishTypes DEF Publish
<1>11. ASSUME UNCHANGED commandVars PROVE Others /\ Moves
  BY <1>11 DEF commandVars, Moves
<1>12. Moves => Counts
  BY MovesSuffices
<1> HIDE DEF Others, Counts
<1> QED BY <1>3, <1>4, <1>5, <1>6, <1>7, <1>8, <1>9, <1>10, <1>11, <1>12 DEF ToolNext, Step

-----------------------------------------------------------------------------
(* Theorems about the tool. *)

LEMMA ToolInvAlways == ToolSpec => []ToolInv
<1>1. ToolInv /\ [ToolNext]_commandVars => ToolInv'
  BY ToolShapeStep, SaveStep, ArrivalStep DEF ToolInv
<1> QED BY <1>1, ToolInitInv, PTL DEF ToolSpec

\* Every variable of the tool keeps its type, for every number of invocations,
\* every command line and every limit; pub publishes no more than it was asked.
THEOREM ToolTypeCorrect == ToolSpec => []ToolTypeOK
<1>1. ToolInv => ToolTypeOK
  <2> SUFFICES ASSUME ToolShape PROVE ToolTypeOK
    BY DEF ToolInv
  <2> USE DEF ToolShape
  <2>1. ASSUME NEW p \in Proc PROVE sent[p] \in 0 .. Repeats(p)
    <3>1. sent[p] \in Nat /\ Repeats(p) \in Nat /\ sent[p] <= Repeats(p)
      BY RepeatsPositive
    <3> QED BY <3>1
  <2>2. /\ samples \in [Proc -> Seq(0 .. (ReportEvery + 1))]
        /\ heard \in [Proc -> Seq(0 .. ReportEvery)]
    BY DEF SampleAge, RecentAge
  <2> QED BY <2>1, <2>2 DEF ToolTypeOK
<1> QED BY <1>1, ToolInvAlways, PTL

\* However many invocations open, write and read conf.bin at once, an address
\* one of them saved or used is found by the next, unless a process died in the
\* middle of a save (rl_topic.cpp:288-301).
THEOREM NotForgottenHolds == ToolSpec => []NotForgotten
<1>1. ToolInv => NotForgotten
  BY SaveInvSuffices DEF ToolInv
<1> QED BY <1>1, ToolInvAlways, PTL

\* For every window and report period: hz and bw never lose an arrival that the
\* report they are about to print has to count, however reports and arrivals
\* interleave (rl_topic.cpp:545-583).
THEOREM EveryArrivalCountedHolds == ToolSpec => []EveryArrivalCounted
<1>1. ToolInv => EveryArrivalCounted
  BY ArrivalInvSuffices DEF ToolInv
<1> QED BY <1>1, ToolInvAlways, PTL
=============================================================================
