----------------------------- MODULE RelinkNode -----------------------------
(***************************************************************************)
(* The life of one node, class RelinkNode of relink.hpp: its configuration,*)
(* the declaration of topics and their assignment to UDP transports,       *)
(* ensure_started with the threads it launches, publishing, and the        *)
(* destructor with the destruction of the members that follows it.         *)
(*                                                                         *)
(* One application thread declares topics (each region the code locks on   *)
(* its own is a step); another starts the node, publishes and at the end   *)
(* destroys it.  The node's own threads run between any two of those       *)
(* steps.  A peer is only known or not, per topic; what peers answer is    *)
(* nondeterministic.  Members are told apart by their lifetimes: the       *)
(* shared transport, the dedicated transports, topic_route_, the           *)
(* state behind state_mutex_, the local-IPC state.                         *)
(***************************************************************************)
EXTENDS Naturals, Sequences, FiniteSets

CONSTANTS
  Topic,      \* topics the application may declare
  Image,      \* those of type ImageChunk or CompressedImageChunk
  PairId,     \* pair ids the application may choose
  NoPair,     \* declared with pair = false
  Configs,    \* configurations the application may choose
  MaxCalls,   \* bound: declarations made
  Batches     \* bound: the punch_threads_ the re-registration thread may start

ASSUME NodeAssumption ==
  /\ Image \subseteq Topic
  /\ NoPair \notin PairId
  /\ Configs \subseteq [mode : {"RlCore", "Multicast"}, multiplex : BOOLEAN,
                        relay : BOOLEAN, repunch : BOOLEAN]
  /\ MaxCalls \in Nat
  /\ Batches \cap {"repunch", "reregister", "keepalive", "initial_punch",
                   "shm_poll", "listener"} = {}

VARIABLES
  mode, multiplex, relay_enabled, repunch_enabled, \* configuration
  call,          \* the declaration under way: its step and arguments
  ncalls,        \* declarations begun
  pair_id,       \* topic_pair_id_
  transports,    \* keys of topic_transports_
  declared, subscribed, \* declared_topics_, subscribed_topics_
  handlers,      \* (transport, topic) pairs of the transports' handlers_
  phase,         \* how far ensure_started has come
  topic_route,   \* topic_route_, which is also what is registered or beaconed
  early,         \* history: the topics subscribed to when topic_route_ was made
  dedup,         \* transports with enable_relay_dedup()
  running,       \* transports whose data thread runs
  known,         \* topics with an entry in peers_
  pc, via,       \* each background thread: its step, the transports it will use
  stopped,       \* threads whose stop flag is set
  dpos           \* steps of the destruction done

config == <<mode, multiplex, relay_enabled, repunch_enabled>>
decl == <<call, ncalls, pair_id, transports, declared, subscribed, handlers>>
start == <<phase, topic_route, early, dedup>>
threads == <<running, known, pc, via, stopped>>
vars == <<config, decl, start, threads, dpos>>

\* The transports: transport_, and the members of topic_transports_ under
\* their group keys.
Shared == <<"shared">>
Key(t, p) == IF p = NoPair THEN <<"topic", t>> ELSE <<"pair", p>>

\* transport_for(): the transport a topic uses.
TransportFor(t) ==
  IF multiplex \/ t \in Image THEN Shared ELSE Key(t, pair_id[t])

Thread == {"repunch", "reregister", "keepalive", "initial_punch", "shm_poll",
           "listener"} \cup Batches

Init ==
  /\ mode = "None" /\ multiplex = TRUE
  /\ relay_enabled = FALSE /\ repunch_enabled = FALSE
  /\ call = [step |-> "idle"] /\ ncalls = 0
  /\ pair_id = [t \in Topic |-> NoPair]
  /\ transports = {} /\ declared = {} /\ subscribed = {} /\ handlers = {}
  /\ phase = "new" /\ topic_route = << >> /\ early = {} /\ dedup = {}
  /\ running = {} /\ known = {}
  /\ pc = [th \in Thread |-> "none"]
  /\ via = [th \in Thread |-> {}]
  /\ stopped = {}
  /\ dpos = 0

-----------------------------------------------------------------------------
(***************************************************************************)
(* Configuration: select_mode, set_multiplex, set_relay or                 *)
(* set_rlcore.setRelay, enable_nat_repunch, before any topic is declared   *)
(* (ensure_started turns re-punching on in rlcore mode anyway).  A second  *)
(* discovery mode throws, and changes nothing.                             *)
(***************************************************************************)
Configure(c) ==
  /\ mode = "None"
  /\ mode' = c.mode
  /\ multiplex' = c.multiplex
  /\ relay_enabled' = c.relay
  /\ repunch_enabled' = (c.repunch \/ c.mode = "RlCore")
  /\ UNCHANGED <<decl, start, threads, dpos>>

-----------------------------------------------------------------------------
(***************************************************************************)
(* advertise, subscribe and their _raw and _image forms.                   *)
(***************************************************************************)

\* Does register_pair() throw?  It refuses another pair, and leaving one.
RegisterPairThrows(t, p) == pair_id[t] # NoPair /\ p # pair_id[t]

\* register_pair(), which image topics skip.
RegisterPair(t, role, p) ==
  /\ call.step = "idle" /\ ncalls < MaxCalls /\ dpos = 0
  /\ mode # "None"
  /\ t \in Image => p = NoPair
  /\ ~RegisterPairThrows(t, p)
  /\ pair_id' = [pair_id EXCEPT ![t] = p]
  /\ call' = [step |-> "transport", topic |-> t, role |-> role]
  /\ ncalls' = ncalls + 1
  /\ UNCHANGED <<transports, declared, subscribed, handlers>>
  /\ UNCHANGED <<config, start, threads, dpos>>

\* transport_for(): look the transport up, or create and bind it.
Lookup ==
  /\ call.step = "transport"
  /\ LET k == TransportFor(call.topic)
     IN /\ transports' = transports \cup ({k} \ {Shared})
        /\ call' = [step |-> "insert", topic |-> call.topic,
                    role |-> call.role, key |-> k]
  /\ UNCHANGED <<ncalls, pair_id, declared, subscribed, handlers>>
  /\ UNCHANGED <<config, start, threads, dpos>>

\* declared_topics_ and the role, under state_mutex_.
Insert ==
  /\ call.step = "insert"
  /\ declared' = declared \cup {call.topic}
  /\ \/ /\ call.role = "advertise"
        /\ call' = [step |-> "idle"]
        /\ UNCHANGED subscribed
     \/ /\ call.role = "subscribe"
        /\ call' = [call EXCEPT !.step = "handler"]
        /\ subscribed' = subscribed \cup {call.topic}
  /\ UNCHANGED <<ncalls, pair_id, transports, handlers>>
  /\ UNCHANGED <<config, start, threads, dpos>>

\* set_topic_handler(), under the transport's own lock.
SetTopicHandler ==
  /\ call.step = "handler"
  /\ handlers' = handlers \cup {<<call.key, call.topic>>}
  /\ call' = [step |-> "idle"]
  /\ UNCHANGED <<ncalls, pair_id, transports, declared, subscribed>>
  /\ UNCHANGED <<config, start, threads, dpos>>

\* subscribe_local_ipc(): the topic is declared, the poll thread started once.
SubscribeLocalIpc(t) ==
  /\ call.step = "idle" /\ ncalls < MaxCalls /\ dpos = 0
  /\ mode # "None"
  /\ ncalls' = ncalls + 1
  /\ declared' = declared \cup {t}
  /\ pc' = IF pc["shm_poll"] = "none" THEN [pc EXCEPT !["shm_poll"] = "sleep"] ELSE pc
  /\ UNCHANGED <<call, pair_id, transports, subscribed, handlers>>
  /\ UNCHANGED <<config, start, running, known, via, stopped, dpos>>

-----------------------------------------------------------------------------
(***************************************************************************)
(* ensure_started, by the first publish, spin or spin_once.                *)
(***************************************************************************)

\* The node has a discovery mode; transport_.bind().
Bind ==
  /\ phase = "new" /\ dpos = 0
  /\ mode # "None"
  /\ phase' = "bound"
  /\ UNCHANGED <<topic_route, early, dedup>>
  /\ UNCHANGED <<config, decl, threads, dpos>>

\* Mutant: one group per topic, pairs forgotten.
GroupOfTopic(t) ==
  IF ~multiplex /\ Key(t, NoPair) \in transports THEN Key(t, NoPair) ELSE Shared

\* The group of a declared topic: its dedicated transport if there is one,
\* otherwise transport_.
GroupOf(t) ==
  IF ~multiplex /\ Key(t, pair_id[t]) \in transports
  THEN Key(t, pair_id[t]) ELSE Shared

\* Mutant: duplicate suppression is armed for transport_ alone.
DedupShared(groups) ==
  IF relay_enabled \/ mode = "RlCore" THEN {Shared} ELSE {}

\* enable_relay_dedup() for every group, before any data thread runs.
DedupGroups(groups) ==
  IF relay_enabled \/ mode = "RlCore" THEN groups ELSE {}

\* The snapshot of the declared topics, under state_mutex_.  A start that was
\* given up before has left its routes; every topic gets its route again.
GroupTopics ==
  /\ phase = "bound"
  /\ phase' = "grouped"
  /\ topic_route' = [t \in declared |-> GroupOf(t)]
  /\ dedup' = dedup \cup DedupGroups({GroupOf(t) : t \in declared})
  /\ early' = subscribed
  /\ UNCHANGED <<config, decl, threads, dpos>>

\* One registration attempt per group; some topics turn out to have peers.
RegisterGroups(found) ==
  /\ phase = "grouped" /\ mode = "RlCore"
  /\ found \subseteq DOMAIN topic_route
  /\ phase' = "discovered"
  /\ known' = known \cup found
  /\ via' = [via EXCEPT !["initial_punch"] = {topic_route[t] : t \in found}]
  /\ UNCHANGED <<topic_route, early, dedup, running, pc, stopped>>
  /\ UNCHANGED <<config, decl, dpos>>

\* mcast_ is created; its callback may run from here on.
StartMulticast ==
  /\ phase = "grouped" /\ mode = "Multicast"
  /\ phase' = "discovered"
  /\ pc' = [pc EXCEPT !["listener"] = "sleep"]
  /\ UNCHANGED <<topic_route, early, dedup, running, known, via, stopped>>
  /\ UNCHANGED <<config, decl, dpos>>

\* The socket of detect_local_ip_for_peer() or MulticastDiscovery::start()
\* throws out of ensure_started, with started_ still FALSE: the application
\* may try again, or destroy the node.
StartThrows ==
  /\ phase = "grouped"
  /\ phase' = "new"
  /\ UNCHANGED <<topic_route, early, dedup>>
  /\ UNCHANGED <<config, decl, threads, dpos>>

StartShared ==
  /\ phase = "discovered"
  /\ phase' = "shared"
  /\ running' = {Shared}
  /\ UNCHANGED <<topic_route, early, dedup, known, pc, via, stopped>>
  /\ UNCHANGED <<config, decl, dpos>>

\* Every dedicated transport there is by now, late ones included.
StartDedicated ==
  /\ phase = "shared"
  /\ phase' = "data"
  /\ running' = running \cup transports
  /\ UNCHANGED <<topic_route, early, dedup, known, pc, via, stopped>>
  /\ UNCHANGED <<config, decl, dpos>>

\* The punch burst, the re-punch, re-registration and relay threads.
StartThreads ==
  /\ phase = "data"
  /\ phase' = "started"
  /\ pc' = [pc EXCEPT
       !["initial_punch"] = IF via["initial_punch"] # {} THEN "work" ELSE @,
       !["repunch"] = IF repunch_enabled THEN "sleep" ELSE @,
       !["reregister"] = IF mode = "RlCore" THEN "sleep" ELSE @,
       !["keepalive"] = IF relay_enabled THEN "sleep" ELSE @]
  /\ UNCHANGED <<topic_route, early, dedup, running, known, via, stopped>>
  /\ UNCHANGED <<config, decl, dpos>>

\* publish() once the node is started: a topic first published now gets a
\* transport, which nothing starts.
Publish(t) ==
  /\ phase = "started" /\ dpos = 0
  /\ declared' = declared \cup {t}
  /\ transports' = transports \cup ({TransportFor(t)} \ {Shared})
  /\ UNCHANGED <<call, ncalls, pair_id, subscribed, handlers>>
  /\ UNCHANGED <<config, start, threads, dpos>>

-----------------------------------------------------------------------------
(***************************************************************************)
(* The node's threads.  Each tests its flag when it wakes.                 *)
(***************************************************************************)
Exit(th) ==
  /\ pc[th] = "sleep" /\ th \in stopped
  /\ pc' = [pc EXCEPT ![th] = "done"]
  /\ UNCHANGED <<running, known, via, stopped>>
  /\ UNCHANGED <<config, decl, start, dpos>>

\* The route of a topic, transport_ when it has none.
Route(t) == IF t \in DOMAIN topic_route THEN topic_route[t] ELSE Shared

\* What a thread that wakes takes with it, under the lock: the re-punch thread
\* the transports of all known peers, the re-registration thread those of all
\* groups, the multicast listener that of the topic it heard of.  (A round of
\* the keepalive or of the shm poll thread leaves nothing behind: Touches.)
Groups == {topic_route[u] : u \in DOMAIN topic_route}
Targets(th, t) ==
  CASE th = "repunch" -> {Route(u) : u \in known}
    [] th = "reregister" -> Groups
    [] th = "listener" -> {Route(t)}

\* The listener passes on the topics that were declared when it was made (its
\* local_topics_), and has added the peer to peers_ before it looks the route up.
Wake(th, t) ==
  /\ pc[th] = "sleep" /\ th \notin stopped
  /\ th = "listener" => t \in DOMAIN topic_route
  /\ pc' = [pc EXCEPT ![th] = "work"]
  /\ via' = [via EXCEPT ![th] = Targets(th, t)]
  /\ known' = IF th = "listener" THEN known \cup {t} ELSE known
  /\ UNCHANGED <<running, stopped>>
  /\ UNCHANGED <<config, decl, start, dpos>>

\* Done with the transports: back to sleep, or out.
Finish(th) ==
  /\ pc[th] = "work"
  /\ pc' = [pc EXCEPT ![th] =
             IF th \in {"initial_punch"} \cup Batches THEN "done" ELSE "sleep"]
  /\ via' = [via EXCEPT ![th] = {}]
  /\ UNCHANGED <<running, known, stopped>>
  /\ UNCHANGED <<config, decl, start, dpos>>

\* The re-registration thread learns of peers and starts a thread that
\* punches them.
PunchNewPeers(b, t) ==
  /\ pc["reregister"] = "work"
  /\ t \in DOMAIN topic_route /\ t \notin known
  /\ pc[b] = "none"
  /\ known' = known \cup {t}
  /\ pc' = [pc EXCEPT ![b] = "work"]
  /\ via' = [via EXCEPT ![b] = {topic_route[t]}]
  /\ UNCHANGED <<running, stopped>>
  /\ UNCHANGED <<config, decl, start, dpos>>

-----------------------------------------------------------------------------
(***************************************************************************)
(* ~RelinkNode and the destruction of the members, in reverse order of     *)
(* their declaration.                                                      *)
(***************************************************************************)

\* Mutant: the punch threads are joined before the thread that starts them.
TeardownBatchesFirst ==
  << <<"stop", "repunch">>, <<"join", "repunch">>, <<"join", "punch_threads">>,
     <<"stop", "reregister">>, <<"join", "reregister">>,
     <<"stop", "keepalive">>, <<"join", "keepalive">>,
     <<"join", "initial_punch">>, <<"stop", "shm_poll">>, <<"join", "shm_poll">>,
     <<"destroy", "threads">>, <<"destroy", "topic_route">>,
     <<"destroy", "topic_transports">>,
     <<"stop", "listener">>, <<"join", "listener">>,
     <<"destroy", "transport">>, <<"destroy", "state">>, <<"destroy", "shm">> >>

\* Mutant: the poll thread of local IPC is forgotten.
TeardownNoShmStop ==
  << <<"stop", "repunch">>, <<"join", "repunch">>,
     <<"stop", "reregister">>, <<"join", "reregister">>,
     <<"stop", "keepalive">>, <<"join", "keepalive">>,
     <<"join", "initial_punch">>, <<"join", "punch_threads">>,
     <<"join", "shm_poll">>,
     <<"destroy", "threads">>, <<"destroy", "topic_route">>,
     <<"destroy", "topic_transports">>,
     <<"stop", "listener">>, <<"join", "listener">>,
     <<"destroy", "transport">>, <<"destroy", "state">>, <<"destroy", "shm">> >>

Teardown ==
  << <<"stop", "repunch">>, <<"join", "repunch">>,
     <<"stop", "reregister">>, <<"join", "reregister">>,
     <<"stop", "keepalive">>, <<"join", "keepalive">>,
     <<"join", "initial_punch">>, <<"join", "punch_threads">>,
     <<"stop", "shm_poll">>, <<"join", "shm_poll">>,
     <<"destroy", "threads">>, <<"destroy", "topic_route">>,
     <<"destroy", "topic_transports">>,
     <<"stop", "listener">>, <<"join", "listener">>,
     <<"destroy", "transport">>, <<"destroy", "state">>, <<"destroy", "shm">> >>

Joined(name) == IF name = "punch_threads" THEN Batches ELSE {name}
Ended(th) == pc[th] \in {"none", "done"}

\* Nobody else is inside the node when it is destroyed.
DestructorStep ==
  /\ call.step = "idle" /\ phase \in {"new", "started"}
  /\ dpos < Len(Teardown)
  /\ LET op == Teardown[dpos + 1][1]
         what == Teardown[dpos + 1][2]
     IN /\ op = "join" => \A th \in Joined(what) : Ended(th)
        /\ stopped' = IF op = "stop" THEN stopped \cup {what} ELSE stopped
        /\ running' = CASE what = "topic_transports" -> running \cap {Shared}
                        [] what = "transport" -> {}
                        [] OTHER -> running
  /\ dpos' = dpos + 1
  /\ UNCHANGED <<known, pc, via>>
  /\ UNCHANGED <<config, decl, start>>

-----------------------------------------------------------------------------
DeclareStep == Lookup \/ Insert \/ SetTopicHandler

StartStep ==
  \/ GroupTopics
  \/ \E found \in SUBSET Topic : RegisterGroups(found)
  \/ StartMulticast
  \/ StartShared
  \/ StartDedicated
  \/ StartThreads

ThreadStep(th) == Exit(th) \/ Finish(th)

Next ==
  \/ \E c \in Configs : Configure(c)
  \/ \E t \in Topic, role \in {"advertise", "subscribe"}, p \in PairId \cup {NoPair} :
       RegisterPair(t, role, p)
  \/ DeclareStep
  \/ \E t \in Topic : SubscribeLocalIpc(t) \/ Publish(t)
  \/ Bind
  \/ StartStep
  \/ StartThrows
  \/ \E th \in Thread : ThreadStep(th)
  \/ \E th \in {"repunch", "reregister", "listener"}, t \in Topic : Wake(th, t)
  \/ \E b \in Batches, t \in Topic : PunchNewPeers(b, t)
  \/ DestructorStep

Spec == Init /\ [][Next]_vars

(***************************************************************************)
(* Calls that were begun go on, threads go on running, and the destructor  *)
(* does once it has begun (dpos > 0).  Nothing has to be called.           *)
(***************************************************************************)
FairSpec ==
  /\ Spec
  /\ WF_vars(DeclareStep)
  /\ WF_vars(StartStep)
  /\ \A th \in Thread : WF_vars(ThreadStep(th))
  /\ WF_vars(dpos > 0 /\ DestructorStep)

-----------------------------------------------------------------------------
(***************************************************************************)
(* Properties.                                                             *)
(***************************************************************************)
TransportKey == {Shared} \cup {Key(t, p) : t \in Topic, p \in PairId \cup {NoPair}}

\* What each variable may hold.
TypeOK ==
  /\ mode \in {"None", "RlCore", "Multicast"}
  /\ call.step \in {"idle", "transport", "insert", "handler"}
  /\ pair_id \in [Topic -> PairId \cup {NoPair}]
  /\ transports \subseteq TransportKey \ {Shared}
  /\ subscribed \subseteq declared /\ declared \subseteq Topic
  /\ handlers \subseteq TransportKey \X Topic
  /\ DOMAIN topic_route \subseteq declared
  /\ \A t \in DOMAIN topic_route : topic_route[t] \in {Shared} \cup transports
  /\ dedup \cup running \subseteq {Shared} \cup transports
  /\ pc \in [Thread -> {"none", "sleep", "work", "done"}]
  /\ \A th \in Thread : via[th] \subseteq {Shared} \cup transports
  /\ dpos \in 0 .. Len(Teardown)

\* Paired once it already had a transport of its own.  register_pair() lets
\* it happen: topic_pair_id_ has no entry to compare the pair with.
LatePaired(t) == pair_id[t] # NoPair /\ Key(t, NoPair) \in transports

(***************************************************************************)
(* A topic subscribed to before the node started is announced with the     *)
(* port of the transport that has its handler, whatever pairs, images and  *)
(* local-IPC topics were declared with it, and that transport's data       *)
(* thread runs once the node is started; unless the topic was paired after *)
(* it had been declared without a pair (relink.hpp:967-1016).              *)
(***************************************************************************)
AnnouncedWhereHandled ==
  \A k \in TransportKey, t \in early :
    <<k, t>> \in handlers /\ ~LatePaired(t) =>
      /\ topic_route[t] = k
      /\ phase = "started" /\ dpos = 0 => k \in running

(***************************************************************************)
(* relink.hpp:993-996: register_pair() is to "fail loudly rather than      *)
(* silently rebinding [a topic] to a new port out from under a caller who  *)
(* may already be relying on the earlier port".  A handler set before the  *)
(* node started is on the port its topic is announced with, paired late or *)
(* not.  It does not hold: a topic declared without a pair has no entry in *)
(* topic_pair_id_ that a later pair could be refused for.                  *)
(***************************************************************************)
NotSilentlyRebound ==
  \A k \in TransportKey, t \in early :
    <<k, t>> \in handlers => topic_route[t] = k

(***************************************************************************)
(* "Dedup MUST be armed before transport_.start()": no transport that is   *)
(* announced takes traffic without duplicate suppression while there may   *)
(* be a second path.                                                       *)
(***************************************************************************)
DedupArmedFirst ==
  mode = "RlCore" \/ relay_enabled =>
    \A t \in DOMAIN topic_route : topic_route[t] \in running => topic_route[t] \in dedup

\* The members of the node, and those a thread's next step touches.
Destroyed == {Teardown[i][2] : i \in {j \in 1 .. dpos : Teardown[j][1] = "destroy"}}
Member(k) == IF k = Shared THEN "transport" ELSE "topic_transports"
Touches(th) ==
  CASE pc[th] = "work" -> {Member(k) : k \in via[th]}
    [] pc[th] = "sleep" /\ th \notin stopped ->
         CASE th = "shm_poll" -> {"shm"}
           [] th = "keepalive" -> {Member(k) : k \in Groups}
           [] OTHER -> {"state", "topic_route"}
    [] OTHER -> {}

(***************************************************************************)
(* The threads the destructor joins never use a member that is gone, and   *)
(* none of them is left to std::terminate when its std::thread object      *)
(* goes, threads started during the destruction included.                  *)
(***************************************************************************)
JoinedThreadsAreSafe ==
  \A th \in Thread \ {"listener"} :
    /\ Touches(th) \cap Destroyed = {}
    /\ "threads" \in Destroyed => Ended(th)

(***************************************************************************)
(* relink.hpp:1321: a thread that could "still be running nat_punch() [..] *)
(* after this RelinkNode is destroyed" would be "a use-after-free".  No    *)
(* thread of the node uses a member that is gone, the multicast listener   *)
(* included.                                                               *)
(***************************************************************************)
NoUseAfterDestroy == \A th \in Thread : Touches(th) \cap Destroyed = {}

(***************************************************************************)
(* The destructor, once begun, returns: every thread it joins ends.        *)
(***************************************************************************)
DestructorReturns == dpos > 0 ~> dpos = Len(Teardown)
=============================================================================
