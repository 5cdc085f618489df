-------------------------- MODULE RlcoreDirectory --------------------------
(***************************************************************************)
(* The whole of the rlcore daemon (cpp/rlcore/relink_rlcore.cpp): the      *)
(* registration table of RlcoreRegistry, and around it the dispatch of a   *)
(* datagram by its first bytes, sealed registrations, the merged relay,    *)
(* the directory of topic names and roles of topic_directory.hpp, and the  *)
(* queries of `rl_topic list` and `rl_topic info`                          *)
(* (cpp/tools/rl_topic.cpp).                                               *)
(*                                                                         *)
(* A node's names travel in announces cut into chunks, its roles in the    *)
(* role announce of RlcoreRegistry.  Directory datagrams arrive or are     *)
(* lost within the time unit they were sent in, and a query is asked and   *)
(* collected within one.                                                   *)
(***************************************************************************)
EXTENDS RlcoreRegistry, SequencesExt

CONSTANTS
  TopicOrder,           \* the topics in the order of their ids
  NameLen,              \* [Topic -> Nat]: a name's length, 0 for a bare id
  Publishes,            \* [Node -> SUBSET Topic]: advertised_topics_
  Subscribes,           \* [Node -> SUBSET Topic]: subscribed_topics_
  kTopicDirMaxEntries, kTopicDirMaxPacket, kTopicDirMaxNameLen,
  kRoleMaxEntries, kRoleMaxPacket,
  Settings,             \* how daemon and nodes may have been started
  NoKey                 \* no --encrypt-key, no setEncryptKey

\* relay: --relay or --nat.  key: the daemon's key.  nodeKey: the nodes'.
\* prefix: what a packet that starts with the bytes of a node's address looks
\* like (a frame: the address ends in .35; a directory packet: its magic).
Look == {"request", "frame", "directory"}

ASSUME DirectoryAssumption ==
  /\ IsFiniteSet(Node)
  /\ TopicOrder \in Seq(Topic)
  /\ \A t \in Topic : \E i \in DOMAIN TopicOrder : TopicOrder[i] = t
  /\ NameLen \in [Topic -> Nat]
  /\ \A n \in Node : Publishes[n] \cup Subscribes[n] \subseteq Declares[n]
  /\ kTopicDirMaxEntries \in Nat \ {0} /\ kRoleMaxEntries \in Nat \ {0}
  /\ kTopicDirMaxNameLen \in Nat
  /\ kTopicDirMaxPacket \in Nat /\ kRoleMaxPacket \in Nat
  /\ \A s \in Settings : /\ s.relay \in BOOLEAN
                         /\ s.prefix \in [Node -> Look]
                         /\ DOMAIN s.nodeKey = Node

VARIABLES
  setting,      \* the command lines, never changed
  topic_names,  \* the daemon's topic_names: [Topic -> length], 0 for none
  announces,    \* name announces under way
  tool,         \* where the list or info command is
  wire,         \* the replies to the tool's query under way
  out,          \* what the tool has collected
  truth,        \* history: what the daemon knew when it answered
  missed        \* history: was a reply to this query lost

toolVars == <<tool, wire, out, truth, missed>>
dirVars == <<setting, topic_names, announces, toolVars>>
allVars == <<vars, dirVars>>

-----------------------------------------------------------------------------
(* The packets of topic_directory.hpp: a header of magic and count, then    *)
(* the entries.                                                             *)

kHeaderLen == 6

\* Every entry with its length in bytes.  TopicDirEntry: topic id, length
\* byte, name (here the name's length, 0 for none).  RoleAnnounceEntry: topic
\* id and role.  RolePeerEntry: ip and port as well.
Entry(t, len) == [id |-> t, name |-> len, bytes |-> 5 + len]
RoleAnnounceEntry(t, role) == [id |-> t, role |-> role, bytes |-> 5]
RolePeerEntry(t, role, n) == [id |-> t, role |-> role, peer |-> n, bytes |-> 11]

\* The longest entry of each kind fits into a packet of its own.
ASSUME PacketAssumption ==
  /\ kHeaderLen + 5 + kTopicDirMaxNameLen <= kTopicDirMaxPacket
  /\ kHeaderLen + 11 <= kRoleMaxPacket

\* The bytes of a packet with these entries.
PacketLen(entries) ==
  LET off[i \in 0 .. Len(entries)] ==
        IF i = 0 THEN kHeaderLen ELSE off[i - 1] + entries[i].bytes
  IN off[Len(entries)]

\* Mutant: chunks are cut by the number of entries alone.
FullByCount(chunk, e, maxEntries, maxPacket) == Len(chunk) >= maxEntries

\* No room for e: the entry cap or the byte cap, whichever comes first.
Full(chunk, e, maxEntries, maxPacket) ==
  \/ Len(chunk) >= maxEntries
  \/ PacketLen(chunk) + e.bytes > maxPacket

\* e goes into the last chunk, or starts a new one.
AddEntry(chunks, e, maxEntries, maxPacket) ==
  IF chunks = << >> \/ Full(Last(chunks), e, maxEntries, maxPacket)
  THEN Append(chunks, <<e>>)
  ELSE [chunks EXCEPT ![Len(chunks)] = Append(@, e)]

\* Cut a list into packets, entry by entry.
Chunk(entries, maxEntries, maxPacket) ==
  LET chunks[i \in 0 .. Len(entries)] ==
        IF i = 0 THEN << >>
        ELSE AddEntry(chunks[i - 1], entries[i], maxEntries, maxPacket)
  IN ToSet(chunks[Len(entries)])

chunk_topic_dir_entries(entries) == Chunk(entries, kTopicDirMaxEntries, kTopicDirMaxPacket)
chunk_role_announce_entries(entries) == Chunk(entries, kRoleMaxEntries, kRoleMaxPacket)
chunk_role_peer_entries(entries) == Chunk(entries, kRoleMaxEntries, kRoleMaxPacket)

\* An announce has the packet limit for a buffer; a reply has room for any
\* datagram, and the daemon has no name it could not decode.
encode_topic_dir_announce(chunk) ==
  /\ Len(chunk) <= kTopicDirMaxEntries
  /\ \A e \in ToSet(chunk) : e.name <= kTopicDirMaxNameLen
  /\ PacketLen(chunk) <= kTopicDirMaxPacket

encode_topic_dir_reply(chunk) == Len(chunk) <= kTopicDirMaxEntries
encode_role_reply(chunk) == Len(chunk) <= kRoleMaxEntries

\* The receiver's side of the same limits.
decode_topic_dir_entries(chunk) ==
  /\ PacketLen(chunk) <= kTopicDirMaxPacket
  /\ Len(chunk) <= kTopicDirMaxEntries

encode_role_announce(entries) ==
  /\ Len(entries) <= kRoleMaxEntries
  /\ PacketLen(entries) <= kRoleMaxPacket

decode_role_announce(entries) ==
  /\ PacketLen(entries) <= kRoleMaxPacket
  /\ Len(entries) <= kRoleMaxEntries

decode_role_reply(chunk) ==
  /\ PacketLen(chunk) <= kRoleMaxPacket
  /\ Len(chunk) <= kRoleMaxEntries

\* The members of S, in the order of a std::map keyed by topic id.
Ordered(S) ==
  LET upTo[i \in 0 .. Len(TopicOrder)] ==
        IF i = 0 THEN << >>
        ELSE IF TopicOrder[i] \in S THEN Append(upTo[i - 1], TopicOrder[i])
        ELSE upTo[i - 1]
  IN upTo[Len(TopicOrder)]

-----------------------------------------------------------------------------
(* The nodes: what they do in RlcoreRegistry, and their name announces.     *)

\* topic_names_: the declared topics that were given by name.
NamedTopics(n) == {t \in Declares[n] : NameLen[t] > 0}

\* The announces of one call: a chunk that cannot be encoded is left out.
NameAnnounces(n) ==
  LET entries == [i \in DOMAIN Ordered(NamedTopics(n)) |->
                    LET t == Ordered(NamedTopics(n))[i] IN Entry(t, NameLen[t])]
  IN {[node |-> n, chunk |-> c] :
        c \in {d \in chunk_topic_dir_entries(entries) : encode_topic_dir_announce(d)}}

\* Mutant: names are announced when the node starts and never again.
announce_once(n, starting) == IF starting THEN NameAnnounces(n) ELSE {}

\* Called once at start-up and on every tick.
announce_topic_names_to_rlcore(n, starting) == NameAnnounces(n)

Role(n, t) == (IF t \in Publishes[n] THEN {"publisher"} ELSE {}) \cup
              (IF t \in Subscribes[n] THEN {"subscriber"} ELSE {})

\* The entries of the role announce that RlcoreRegistry sends on every tick.
RoleEntries(n) ==
  LET used == Ordered({t \in Declares[n] : Role(n, t) # {}})
  IN [i \in DOMAIN used |-> RoleAnnounceEntry(used[i], Role(n, used[i]))]

\* RlcoreRegistry sends them as one datagram, which the daemon decodes.
ASSUME RolesFitOneAnnounce ==
  \A n \in Announcers :
    /\ Cardinality(chunk_role_announce_entries(RoleEntries(n))) = 1
    /\ encode_role_announce(RoleEntries(n)) /\ decode_role_announce(RoleEntries(n))

NodeStarts(n) ==
  /\ Start(n)
  /\ announces' = announces \cup announce_topic_names_to_rlcore(n, TRUE)
  /\ UNCHANGED <<setting, topic_names, toolVars>>

NodeWakes(n) ==
  /\ Wake(n)
  /\ announces' = announces \cup announce_topic_names_to_rlcore(n, FALSE)
  /\ UNCHANGED <<setting, topic_names, toolVars>>

NodeGoesOn(n) ==
  /\ TakeReply(n) \/ TimeOut(n) \/ Crash(n)
  /\ UNCHANGED dirVars

NodeReceives(m) == ReceiveAck(m) /\ UNCHANGED dirVars

-----------------------------------------------------------------------------
(* The daemon: one datagram, or a receive timeout, per step, and            *)
(* prune_stale() before anything else.                                      *)

Daemon == /\ lastSeen' = Prune(lastSeen)
          /\ roleSeen' = Prune(roleSeen)

\* A request starts with the node's address, a sealed one with a random
\* nonce, which no directory packet's magic is expected of.
encode_register_request(n) == {setting.prefix[n]}
aes256gcm_seal(n) == {"request", "frame"}

\* What the dispatcher may take a node's request for.
Looks(n) ==
  IF setting.nodeKey[n] = NoKey THEN encode_register_request(n) ELSE aes256gcm_seal(n)

\* The tag only matches under the key that sealed.
aes256gcm_open(n) == setting.nodeKey[n] = setting.key

\* The length has to match the count, which a sealed request does not do.
decode_register_request(n) == setting.nodeKey[n] = NoKey

\* With a key only what opens is decoded, without one everything is.
Opens(n) == IF setting.key = NoKey THEN decode_register_request(n) ELSE aes256gcm_open(n)

\* The first four bytes say that this is a directory packet.
topic_dir_packet_kind(look) == look = "directory"
role_packet_kind(look) == look = "directory"

\* The path a packet takes: directory packets first, frames only with --relay.
Path(look) ==
  IF topic_dir_packet_kind(look) \/ role_packet_kind(look) THEN "directory"
  ELSE IF setting.relay THEN look ELSE "request"

Ignore(m) ==
  /\ net' = net \ {m}
  /\ Daemon
  /\ UNCHANGED <<nodeVars, deadFor, dirVars>>

\* --relay: what starts like a data frame is forwarded as one, to the group of
\* the "topic" its next four bytes name (address, port and count: nobody's).
ForwardRequest(m) ==
  /\ m.kind = "register"
  /\ \E look \in Looks(m.node) : Path(look) = "frame"
  /\ Ignore(m)

HandleRequest(m) ==
  /\ \E look \in Looks(m.node) : Path(look) = "request"
  /\ Opens(m.node)
  /\ HandleRegister(m)
  /\ UNCHANGED dirVars

\* It does not open, or has the magic of a directory packet and does not decode.
DropRequest(m) ==
  /\ m.kind = "register"
  /\ \E look \in Looks(m.node) :
       \/ Path(look) = "directory"
       \/ Path(look) = "request" /\ ~Opens(m.node)
  /\ Ignore(m)

HandleRoles(m) == HandleRole(m) /\ UNCHANGED dirVars

HandleNames(a) ==
  /\ announces' = announces \ {a}
  /\ topic_names' =
       IF decode_topic_dir_entries(a.chunk)
       THEN [t \in Topic |-> IF \E e \in ToSet(a.chunk) : e.id = t
                             THEN (CHOOSE e \in ToSet(a.chunk) : e.id = t).name
                             ELSE topic_names[t]]
       ELSE topic_names
  /\ Daemon
  /\ UNCHANGED <<nodeVars, net, deadFor, setting, toolVars>>

LiveTopics == {k[1] : k \in {j \in DOMAIN lastSeen : Prune(lastSeen)[j] # Absent}}

\* Mutant: the names rlcore has ever heard of are listed as well.
ListedOrNamed == LiveTopics \cup {t \in Topic : topic_names[t] > 0}

\* Every topic with a live registration, named or not, and no other.
Listed == LiveTopics

\* The name directory as one reply would carry it.
NameTable == [i \in DOMAIN Ordered(Listed) |->
                Entry(Ordered(Listed)[i], topic_names[Ordered(Listed)[i]])]

\* role_table: the roles of the nodes whose announce has not expired.
RoleTable ==
  UNION {{RolePeerEntry(e.id, e.role, n) : e \in ToSet(RoleEntries(n))} :
           n \in {p \in Node : Prune(roleSeen)[p] # Absent}}

\* An empty list is still answered, with one empty packet.
Replies(chunks) == IF chunks = {} THEN {<< >>} ELSE chunks

\* The query of collect_names() arrives.  (If it is lost the tool prints that
\* nobody answered.)
HandleNameQuery ==
  /\ tool = "idle"
  /\ tool' = "names"
  /\ wire' = {c \in Replies(chunk_topic_dir_entries(NameTable)) : encode_topic_dir_reply(c)}
  /\ truth' = ToSet(NameTable)
  /\ Daemon
  /\ UNCHANGED <<nodeVars, net, deadFor, setting, topic_names, announces, out, missed>>

\* The query of query_rlcore_roles() arrives.
HandleRoleQuery ==
  /\ tool = "matched"
  /\ tool' = "roles"
  /\ wire' = {c \in Replies(chunk_role_peer_entries(SetToSeq(RoleTable))) : encode_role_reply(c)}
  /\ truth' = RoleTable
  /\ Daemon
  /\ UNCHANGED <<nodeVars, net, deadFor, setting, topic_names, announces, out, missed>>

Idle == PruneIdle /\ UNCHANGED dirVars

\* The daemon is stopped and started again: it keeps nothing.
Restart ==
  /\ lastSeen' = [k \in DOMAIN lastSeen |-> Absent]
  /\ roleSeen' = [n \in Node |-> Absent]
  /\ topic_names' = [t \in Topic |-> 0]
  /\ UNCHANGED <<nodeVars, net, deadFor, setting, announces, toolVars>>

-----------------------------------------------------------------------------
(* rl_topic list and rl_topic info, one invocation after the other. *)

\* A reply that decodes is added to what was collected.
CollectReply(chunk) ==
  /\ wire' = wire \ {chunk}
  /\ out' = out \cup
       (IF \/ tool = "roles" /\ decode_role_reply(chunk)
           \/ tool = "names" /\ decode_topic_dir_entries(chunk)
        THEN ToSet(chunk) ELSE {})
  /\ UNCHANGED <<vars, setting, topic_names, announces, tool, truth, missed>>

\* The receive timeout: the query is over.
QuietThen(next) ==
  /\ wire = {}
  /\ tool' = next
  /\ out' = {} /\ truth' = {} /\ missed' = FALSE
  /\ UNCHANGED <<vars, setting, topic_names, announces, wire>>

\* list prints the names; info prints the roles it asked for last.
ToolPrints == tool \in {"names", "roles"} /\ QuietThen("idle")

\* info goes on to the roles if its topic is a number, which is always
\* accepted, or a name among the answers; otherwise it exits.
Match(t, numeric) ==
  /\ tool = "names"
  /\ numeric \/ \E e \in out : e.id = t /\ e.name > 0
  /\ QuietThen("matched")

-----------------------------------------------------------------------------
(* The network and time. *)

LoseRegistration(m) == Lose(m) /\ UNCHANGED dirVars

LoseAnnounce(a) ==
  /\ AllowLoss
  /\ announces' = announces \ {a}
  /\ UNCHANGED <<vars, setting, topic_names, toolVars>>

LoseReply(chunk) ==
  /\ AllowLoss
  /\ wire' = wire \ {chunk}
  /\ missed' = TRUE
  /\ UNCHANGED <<vars, setting, topic_names, announces, tool, out, truth>>

TimePasses ==
  /\ announces = {}
  /\ tool \in {"idle", "matched"}
  /\ Tick
  /\ UNCHANGED dirVars

-----------------------------------------------------------------------------
DirectoryInit ==
  /\ Init
  /\ setting \in Settings
  /\ topic_names = [t \in Topic |-> 0]
  /\ announces = {}
  /\ tool = "idle"
  /\ wire = {} /\ out = {} /\ truth = {} /\ missed = FALSE

Tool ==
  \/ \E c \in wire : CollectReply(c) \/ LoseReply(c)
  \/ ToolPrints
  \/ \E t \in Topic, numeric \in BOOLEAN : Match(t, numeric)

DirectoryNext ==
  \/ \E n \in Node : NodeStarts(n) \/ NodeWakes(n) \/ NodeGoesOn(n)
  \/ \E m \in net : \/ NodeReceives(m) \/ HandleRequest(m) \/ DropRequest(m)
                    \/ ForwardRequest(m) \/ HandleRoles(m) \/ LoseRegistration(m)
  \/ \E a \in announces : HandleNames(a) \/ LoseAnnounce(a)
  \/ HandleNameQuery \/ HandleRoleQuery \/ Idle \/ Restart
  \/ Tool
  \/ TimePasses

DirectorySpec == DirectoryInit /\ [][DirectoryNext]_allVars

\* Threads, daemon and time go on, however often the tool asks.  The
\* network does not lose every announce of a name for ever.
DirectoryFairness ==
  /\ SF_allVars(TimePasses)
  /\ \A n \in Node : WF_allVars(NodeWakes(n) \/ (TakeReply(n) /\ UNCHANGED dirVars)
                                          \/ (TimeOut(n) /\ UNCHANGED dirVars))
  /\ WF_allVars(\E m \in net : NodeReceives(m) \/ HandleRequest(m) \/ DropRequest(m)
                                \/ ForwardRequest(m) \/ HandleRoles(m))
  /\ WF_allVars(\E a \in announces : HandleNames(a))
  /\ \A t \in Topic : SF_allVars(\E a \in announces :
        (\E e \in ToSet(a.chunk) : e.id = t) /\ HandleNames(a))
  /\ WF_allVars((\E c \in wire : CollectReply(c)) \/ ToolPrints)

FairDirectorySpec == DirectorySpec /\ DirectoryFairness

-----------------------------------------------------------------------------
(* Properties. *)

\* Every variable has its type, in the registry and around it.
DirectoryTypeOK ==
  /\ TypeOK
  /\ setting \in Settings
  /\ topic_names \in [Topic -> Nat]
  /\ \A a \in announces : a.node \in Node /\ Len(a.chunk) \in 1 .. kTopicDirMaxEntries
  /\ tool \in {"idle", "names", "matched", "roles"}
  /\ tool \in {"idle", "matched"} => wire = {}
  /\ missed \in BOOLEAN

\* When the tool stops waiting and nothing of its query was lost, it has
\* exactly what the daemon knew when it answered: no chunk of the answer is
\* refused by the receiver (topic_directory.hpp:111-143).
CompleteUnlessLost ==
  tool \in {"names", "roles"} /\ wire = {} /\ ~missed => out = truth

\* A process that takes part, or took part a TTL ago.
AliveLately(n) ==
  Running(n) \/ (phase[n] = "dead" /\ deadFor[n] <= Ttl + MaxDelay)

\* A topic is listed only if a process that declared it, and holds the
\* daemon's key, is alive or was within the TTL: neither a name alone nor a
\* request under another key puts it there (relink_rlcore.cpp:309-314, 413).
\* Nor does info show a publisher or subscriber that has been gone for longer
\* (relink_rlcore.cpp:240-247).
GoneNotListed ==
  /\ tool = "names" =>
       \A e \in out : \E n \in Node :
         e.id \in Declares[n] /\ AliveLately(n) /\ setting.nodeKey[n] = setting.key
  /\ tool = "roles" => \A e \in out : AliveLately(e.peer)

\* A node's names get to the daemon, and get there again after the daemon was
\* restarted, however many announces are lost on the way
\* (relink.hpp:1501-1516).
NamesAppear ==
  \A n \in Node : \A t \in NamedTopics(n) :
    Running(n) ~> (topic_names[t] = NameLen[t] \/ ~Running(n))

\* A request that opens under the daemon's key is handled as one: the step
\* that takes it off the socket, if nothing is lost, refreshes its sender's
\* entries (relink_rlcore.cpp:380-386, the relay "never steals traffic that
\* path would otherwise have handled").
RequestsAreHandled ==
  [][\A m \in net : m.kind = "register" /\ m \notin net' /\ Opens(m.node)
       /\ [m EXCEPT !.age = @ + 1] \notin net' =>
         \A t \in m.topics : lastSeen'[<<t, m.node>>] = 0]_allVars
=============================================================================
