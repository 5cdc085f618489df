-------------------------- MODULE RelinkNodeProofs --------------------------
(***************************************************************************)
(* Proofs about RelinkNode, for every set of topics, images and pair ids,  *)
(* every number of declarations and of punch threads.                      *)
(*                                                                         *)
(* Three arguments on top of the variables' types (Shape) and of the order *)
(* of the calls (OrderInv).  ArmedInv: what is announced is armed.         *)
(* PlaceInv: the transport a topic was given when it was subscribed to is  *)
(* the one it is still given later, so its route leads to its handler.     *)
(* JoinInv: which threads have ended at each step of the destructor.       *)
(***************************************************************************)
EXTENDS RelinkNode, TLAPS

Phases == {"new", "bound", "grouped", "discovered", "shared", "data",
           "started"}

\* The declaration under way: nothing, before its transport_for(), after it.
Calls ==
  {[step |-> "idle"]}
    \cup [step : {"transport"}, topic : Topic,
          role : {"advertise", "subscribe"}]
    \cup [step : {"insert", "handler"}, topic : Topic,
          role : {"advertise", "subscribe"}, key : TransportKey]

\* What the variables may hold.
Shape ==
  /\ call \in Calls
  /\ pair_id \in [Topic -> PairId \cup {NoPair}]
  /\ subscribed \subseteq declared /\ declared \subseteq Topic
  /\ phase \in Phases
  /\ pc \in [Thread -> {"none", "sleep", "work", "done"}]
  /\ dpos \in 0 .. Len(Teardown)

\* Nothing is declared, routed or started before there is a discovery mode,
\* and the destructor meets no call under way.
OrderInv ==
  /\ mode = "None" =>
       /\ phase = "new" /\ call.step = "idle"
       /\ subscribed = {} /\ handlers = {}
       /\ topic_route = << >> /\ early = {}
  /\ dpos > 0 => phase \in {"new", "started"} /\ call.step = "idle"

\* What is announced is armed, running or not.
ArmedInv ==
  mode = "RlCore" \/ relay_enabled =>
    \A t \in DOMAIN topic_route : topic_route[t] \in dedup

\* The transport of a topic exists.
Placed(t) == TransportFor(t) \in {Shared} \cup transports

\* An image topic has no pair and no transport of its own; a topic that was
\* subscribed to has its transport, its handler is there and nowhere else,
\* and its route leads there, unless it was paired late; after the data
\* threads were started, one runs for every route.
PlaceInv ==
  /\ \A t \in Image : pair_id[t] = NoPair /\ Key(t, NoPair) \notin transports
  /\ call.step \in {"insert", "handler"} =>
       /\ call.key = TransportFor(call.topic) /\ Placed(call.topic)
       /\ call.step = "handler" => call.topic \in subscribed
  /\ \A t \in subscribed : ~LatePaired(t) => Placed(t)
  /\ \A h \in handlers :
       /\ h[2] \in subscribed
       /\ ~LatePaired(h[2]) => h = <<TransportFor(h[2]), h[2]>>
  /\ \A t \in early : /\ t \in subscribed /\ t \in DOMAIN topic_route
                      /\ topic_route[t] \in {Shared} \cup transports
                      /\ ~LatePaired(t) => topic_route[t] = TransportFor(t)
  /\ phase \in {"shared", "data", "started"} /\ dpos = 0 => Shared \in running
  /\ phase \in {"data", "started"} /\ dpos = 0 =>
       \A t \in early : topic_route[t] \in running

\* Which threads have ended once the destructor is past joining them.
JoinInv ==
  /\ dpos >= 2 => Ended("repunch")
  /\ dpos >= 4 => Ended("reregister")
  /\ dpos >= 6 => Ended("keepalive")
  /\ dpos >= 7 => Ended("initial_punch")
  /\ dpos >= 8 => \A b \in Batches : Ended(b)
  /\ dpos >= 10 => Ended("shm_poll")
-----------------------------------------------------------------------------
(* The destructor's steps. *)

\* Where the threads are joined, and that nothing is destroyed before.
LEMMA TeardownOrder ==
    /\ Len(Teardown) = 18
    /\ Teardown[2] = <<"join", "repunch">>
    /\ Teardown[4] = <<"join", "reregister">>
    /\ Teardown[6] = <<"join", "keepalive">>
    /\ Teardown[7] = <<"join", "initial_punch">>
    /\ Teardown[8] = <<"join", "punch_threads">>
    /\ Teardown[10] = <<"join", "shm_poll">>
    /\ \A j \in 1 .. 10 : Teardown[j][1] # "destroy"
BY DEF Teardown

\* While a thread that was joined is not there, its end stays.
LEMMA ThreadTypes ==
    /\ {"repunch", "reregister", "keepalive", "initial_punch", "shm_poll",
        "listener"} \cup Batches = Thread
    /\ \A b \in Batches : b \notin {"repunch", "reregister", "keepalive",
                                    "initial_punch", "shm_poll", "listener"}
BY NodeAssumption DEF Thread

-----------------------------------------------------------------------------
LEMMA ShapeInit == Init => Shape
BY TeardownOrder DEF Init, Shape, Calls, Phases

\* Every step keeps the types.
LEMMA ShapeNext == Shape /\ [Next]_vars => Shape'
<1> SUFFICES ASSUME Shape, [Next]_vars
             PROVE  Shape'
    OBVIOUS
<1>0. Len(Teardown) = 18
    BY TeardownOrder
<1> USE DEF config, decl, start, threads
<1>1. ASSUME NEW c \in Configs, Configure(c)
      PROVE  Shape'
    BY <1>1 DEF Configure, Shape
<1>2. ASSUME NEW t \in Topic, NEW role \in {"advertise", "subscribe"},
             NEW p \in PairId \cup {NoPair}, RegisterPair(t, role, p)
      PROVE  Shape'
    BY <1>2 DEF RegisterPair, Shape, Calls
<1>3. CASE Lookup
    <2>1. call.topic \in Topic /\ call.role \in {"advertise", "subscribe"}
        BY <1>3 DEF Lookup, Shape, Calls
    <2>2. TransportFor(call.topic) \in TransportKey
        BY <2>1 DEF TransportFor, TransportKey, Shape
    <2>3. call' \in Calls
        BY <1>3, <2>1, <2>2 DEF Lookup, Calls
    <2> QED
        BY <1>3, <2>3 DEF Lookup, Shape
<1>4. CASE Insert
    <2>1. call \in [step : {"insert", "handler"}, topic : Topic,
                    role : {"advertise", "subscribe"}, key : TransportKey]
        BY <1>4 DEF Insert, Shape, Calls
    <2>2. call' \in Calls
        BY <1>4, <2>1 DEF Insert, Calls
    <2> QED
        BY <1>4, <2>1, <2>2 DEF Insert, Shape
<1>5. CASE SetTopicHandler
    BY <1>5 DEF SetTopicHandler, Shape, Calls
<1>6. ASSUME NEW t \in Topic, SubscribeLocalIpc(t)
      PROVE  Shape'
    BY <1>6 DEF SubscribeLocalIpc, Shape
<1>7. ASSUME NEW t \in Topic, Publish(t)
      PROVE  Shape'
    BY <1>7 DEF Publish, Shape
<1>8. CASE Bind
    BY <1>8 DEF Bind, Shape, Phases
<1>9. CASE GroupTopics
    BY <1>9 DEF GroupTopics, Shape, Phases
<1>10. ASSUME NEW found \in SUBSET Topic, RegisterGroups(found)
      PROVE  Shape'
    BY <1>10 DEF RegisterGroups, Shape, Phases
<1>11. CASE StartMulticast
    BY <1>11 DEF StartMulticast, Shape, Phases
<1>12. CASE StartShared
    BY <1>12 DEF StartShared, Shape, Phases
<1>13. CASE StartDedicated
    BY <1>13 DEF StartDedicated, Shape, Phases
<1>14. CASE StartThreads
    BY <1>14 DEF StartThreads, Shape, Phases
<1>15. ASSUME NEW th \in Thread, Exit(th)
      PROVE  Shape'
    BY <1>15 DEF Exit, Shape
<1>16. ASSUME NEW th \in Thread, Finish(th)
      PROVE  Shape'
    BY <1>16 DEF Finish, Shape
<1>17. ASSUME NEW th \in {"repunch", "reregister", "listener"}, NEW t \in Topic,
             Wake(th, t)
      PROVE  Shape'
    BY <1>17 DEF Wake, Shape
<1>18. ASSUME NEW b \in Batches, NEW t \in Topic, PunchNewPeers(b, t)
      PROVE  Shape'
    BY <1>18 DEF PunchNewPeers, Shape
<1>19. CASE DestructorStep
    BY <1>0, <1>19 DEF DestructorStep, Shape
<1>20. CASE UNCHANGED vars
    BY <1>20 DEF vars, Shape
<1>21. CASE StartThrows
    BY <1>21 DEF StartThrows, Shape, Phases
<1> QED
    BY <1>1, <1>2, <1>3, <1>4, <1>5, <1>6, <1>7, <1>8, <1>9, <1>10, <1>11,
       <1>12, <1>13, <1>14, <1>15, <1>16, <1>17, <1>18, <1>19, <1>20, <1>21
       DEF Next, DeclareStep, StartStep, ThreadStep

LEMMA OrderInit == Init => OrderInv
BY DEF Init, OrderInv

\* A step only begins what the calls before it allow.
LEMMA OrderNext == Shape /\ OrderInv /\ [Next]_vars => OrderInv'
<1> SUFFICES ASSUME Shape, OrderInv, [Next]_vars
             PROVE  OrderInv'
    OBVIOUS
<1>0. /\ dpos \in Nat /\ phase \in Phases
      /\ \A c \in Configs : c.mode \in {"RlCore", "Multicast"}
    BY NodeAssumption DEF Shape
<1> USE DEF config, decl, start, threads
<1>1. ASSUME NEW c \in Configs, Configure(c)
      PROVE  OrderInv'
    BY <1>0, <1>1 DEF Configure, OrderInv
<1>2. ASSUME NEW t \in Topic, NEW role \in {"advertise", "subscribe"},
             NEW p \in PairId \cup {NoPair}, RegisterPair(t, role, p)
      PROVE  OrderInv'
    BY <1>0, <1>2 DEF RegisterPair, OrderInv
<1>3. CASE Lookup
    BY <1>0, <1>3 DEF Lookup, OrderInv
<1>4. CASE Insert
    BY <1>0, <1>4 DEF Insert, OrderInv
<1>5. CASE SetTopicHandler
    BY <1>0, <1>5 DEF SetTopicHandler, OrderInv
<1>6. ASSUME NEW t \in Topic, SubscribeLocalIpc(t)
      PROVE  OrderInv'
    BY <1>0, <1>6 DEF SubscribeLocalIpc, OrderInv, Phases
<1>7. ASSUME NEW t \in Topic, Publish(t)
      PROVE  OrderInv'
    BY <1>0, <1>7 DEF Publish, OrderInv, Phases
<1>8. CASE Bind
    BY <1>0, <1>8 DEF Bind, OrderInv, Phases
<1>9. CASE GroupTopics
    BY <1>0, <1>9 DEF GroupTopics, OrderInv, Phases
<1>10. ASSUME NEW found \in SUBSET Topic, RegisterGroups(found)
      PROVE  OrderInv'
    BY <1>0, <1>10 DEF RegisterGroups, OrderInv, Phases
<1>11. CASE StartMulticast
    BY <1>0, <1>11 DEF StartMulticast, OrderInv, Phases
<1>12. CASE StartShared
    BY <1>0, <1>12 DEF StartShared, OrderInv, Phases
<1>13. CASE StartDedicated
    BY <1>0, <1>13 DEF StartDedicated, OrderInv, Phases
<1>14. CASE StartThreads
    BY <1>0, <1>14 DEF StartThreads, OrderInv, Phases
<1>15. ASSUME NEW th \in Thread, Exit(th)
      PROVE  OrderInv'
    BY <1>0, <1>15 DEF Exit, OrderInv
<1>16. ASSUME NEW th \in Thread, Finish(th)
      PROVE  OrderInv'
    BY <1>0, <1>16 DEF Finish, OrderInv
<1>17. ASSUME NEW th \in {"repunch", "reregister", "listener"}, NEW t \in Topic,
             Wake(th, t)
      PROVE  OrderInv'
    BY <1>0, <1>17 DEF Wake, OrderInv
<1>18. ASSUME NEW b \in Batches, NEW t \in Topic, PunchNewPeers(b, t)
      PROVE  OrderInv'
    BY <1>0, <1>18 DEF PunchNewPeers, OrderInv
<1>19. CASE DestructorStep
    BY <1>0, <1>19 DEF DestructorStep, OrderInv
<1>20. CASE UNCHANGED vars
    BY <1>20 DEF vars, OrderInv
<1>21. CASE StartThrows
    BY <1>0, <1>21 DEF StartThrows, OrderInv, Phases
<1> QED
    BY <1>1, <1>2, <1>3, <1>4, <1>5, <1>6, <1>7, <1>8, <1>9, <1>10, <1>11,
       <1>12, <1>13, <1>14, <1>15, <1>16, <1>17, <1>18, <1>19, <1>20, <1>21
       DEF Next, DeclareStep, StartStep, ThreadStep

-----------------------------------------------------------------------------
(* Duplicate suppression. *)

LEMMA ArmedInit == Init => ArmedInv
BY DEF Init, ArmedInv

\* The snapshot routes and arms the same transports, and what is armed stays.
LEMMA ArmedNext == OrderInv /\ ArmedInv /\ [Next]_vars => ArmedInv'
<1> SUFFICES ASSUME OrderInv, ArmedInv, [Next]_vars
             PROVE  ArmedInv'
    OBVIOUS
<1> USE DEF config, decl, start, threads
<1>1. ASSUME NEW c \in Configs, Configure(c)
      PROVE  ArmedInv'
    <2>1. topic_route' = << >>
        BY <1>1 DEF Configure, OrderInv
    <2> QED
        BY <2>1 DEF ArmedInv
<1>2. ASSUME NEW t \in Topic, NEW role \in {"advertise", "subscribe"},
             NEW p \in PairId \cup {NoPair}, RegisterPair(t, role, p)
      PROVE  ArmedInv'
    BY <1>2 DEF RegisterPair, ArmedInv
<1>3. CASE Lookup
    BY <1>3 DEF Lookup, ArmedInv
<1>4. CASE Insert
    BY <1>4 DEF Insert, ArmedInv
<1>5. CASE SetTopicHandler
    BY <1>5 DEF SetTopicHandler, ArmedInv
<1>6. ASSUME NEW t \in Topic, SubscribeLocalIpc(t)
      PROVE  ArmedInv'
    BY <1>6 DEF SubscribeLocalIpc, ArmedInv
<1>7. ASSUME NEW t \in Topic, Publish(t)
      PROVE  ArmedInv'
    BY <1>7 DEF Publish, ArmedInv
<1>8. CASE Bind
    BY <1>8 DEF Bind, ArmedInv
<1>9. CASE GroupTopics
    <2>1. \A t \in DOMAIN topic_route' :
             topic_route'[t] \in {GroupOf(u) : u \in declared}
        BY <1>9 DEF GroupTopics
    <2>2. mode' = "RlCore" \/ relay_enabled'
             => {GroupOf(u) : u \in declared} \subseteq dedup'
        BY <1>9 DEF GroupTopics, DedupGroups
    <2> QED
        BY <2>1, <2>2 DEF ArmedInv
<1>10. ASSUME NEW found \in SUBSET Topic, RegisterGroups(found)
      PROVE  ArmedInv'
    BY <1>10 DEF RegisterGroups, ArmedInv
<1>11. CASE StartMulticast
    BY <1>11 DEF StartMulticast, ArmedInv
<1>12. CASE StartShared
    BY <1>12 DEF StartShared, ArmedInv
<1>13. CASE StartDedicated
    BY <1>13 DEF StartDedicated, ArmedInv
<1>14. CASE StartThreads
    BY <1>14 DEF StartThreads, ArmedInv
<1>15. ASSUME NEW th \in Thread, Exit(th)
      PROVE  ArmedInv'
    BY <1>15 DEF Exit, ArmedInv
<1>16. ASSUME NEW th \in Thread, Finish(th)
      PROVE  ArmedInv'
    BY <1>16 DEF Finish, ArmedInv
<1>17. ASSUME NEW th \in {"repunch", "reregister", "listener"}, NEW t \in Topic,
             Wake(th, t)
      PROVE  ArmedInv'
    BY <1>17 DEF Wake, ArmedInv
<1>18. ASSUME NEW b \in Batches, NEW t \in Topic, PunchNewPeers(b, t)
      PROVE  ArmedInv'
    BY <1>18 DEF PunchNewPeers, ArmedInv
<1>19. CASE DestructorStep
    BY <1>19 DEF DestructorStep, ArmedInv
<1>20. CASE UNCHANGED vars
    BY <1>20 DEF vars, ArmedInv
<1>21. CASE StartThrows
    BY <1>21 DEF StartThrows, ArmedInv
<1> QED
    BY <1>1, <1>2, <1>3, <1>4, <1>5, <1>6, <1>7, <1>8, <1>9, <1>10, <1>11,
       <1>12, <1>13, <1>14, <1>15, <1>16, <1>17, <1>18, <1>19, <1>20, <1>21
       DEF Next, DeclareStep, StartStep, ThreadStep

\* No transport that is announced takes traffic without duplicate suppression
\* while there may be a second path: it is armed with the snapshot of the
\* topics, before anything runs.
THEOREM DedupArmedFirstHolds == Spec => []DedupArmedFirst
<1>1. ArmedInv => DedupArmedFirst
    BY DEF ArmedInv, DedupArmedFirst
<1> QED
    BY <1>1, ShapeInit, ShapeNext, OrderInit, OrderNext, ArmedInit, ArmedNext,
       PTL
       DEF Spec

-----------------------------------------------------------------------------
(* Where a topic is announced and handled. *)

\* Only the topic itself can have its dedicated unpaired transport.
LEMMA KeyOfTopic ==
    ASSUME NEW t, NEW u, NEW q, Key(u, q) = Key(t, NoPair)
    PROVE  u = t
BY DEF Key

\* A new transport is not an image topic's.
LEMMA ImagesShared ==
    ASSUME PlaceInv, NEW u \in Topic, NEW t \in Image,
           Key(t, NoPair) \in transports \cup ({TransportFor(u)} \ {Shared})
    PROVE  FALSE
<1>1. Key(t, NoPair) \notin transports
    BY DEF PlaceInv
<1>2. TransportFor(u) = Key(t, NoPair) /\ TransportFor(u) # Shared
    BY <1>1
<1>3. u \notin Image /\ Key(u, pair_id[u]) = Key(t, NoPair)
    BY <1>2 DEF TransportFor
<1> QED
    BY <1>3, KeyOfTopic

\* A step that only adds transports, and leaves declarations under way,
\* subscriptions, handlers and routes alone.
LEMMA PlaceGrows ==
    ASSUME PlaceInv,
           UNCHANGED <<multiplex, call, pair_id, subscribed, handlers, early,
                       topic_route>>,
           transports \subseteq transports',
           \A t \in Image : Key(t, NoPair) \notin transports',
           phase' \in {"shared", "data", "started"} /\ dpos' = 0
             => Shared \in running',
           phase' \in {"data", "started"} /\ dpos' = 0
             => \A t \in early : topic_route[t] \in running'
    PROVE  PlaceInv'
<1>1. \A t : TransportFor(t)' = TransportFor(t)
    BY DEF TransportFor
<1>2. \A t : Placed(t) => Placed(t)'
    BY <1>1 DEF Placed
<1>3. \A t : LatePaired(t) => LatePaired(t)'
    BY DEF LatePaired
<1> QED
    BY <1>1, <1>2, <1>3 DEF PlaceInv

\* The route of a topic that was subscribed to is the transport it was given,
\* unless it was paired late: the snapshot finds the dedicated one, and none
\* for an image.
LEMMA GroupIsTransport ==
    ASSUME PlaceInv, NEW t \in subscribed, ~LatePaired(t)
    PROVE  GroupOf(t) = TransportFor(t)
<1>1. CASE multiplex
    BY <1>1 DEF GroupOf, TransportFor
<1>2. CASE ~multiplex /\ t \in Image
    <2>1. Key(t, pair_id[t]) \notin transports
        BY <1>2 DEF PlaceInv
    <2> QED
        BY <1>2, <2>1 DEF GroupOf, TransportFor
<1>3. CASE ~multiplex /\ t \notin Image
    <2>1. TransportFor(t) = Key(t, pair_id[t]) /\ Placed(t)
        BY <1>3 DEF TransportFor, PlaceInv
    <2>2. Key(t, pair_id[t]) # Shared
        BY DEF Key, Shared
    <2>3. Key(t, pair_id[t]) \in transports
        BY <2>1, <2>2 DEF Placed
    <2> QED
        BY <1>3, <2>1, <2>3 DEF GroupOf
<1> QED
    BY <1>1, <1>2, <1>3

LEMMA PlaceInit == Init => PlaceInv
BY NodeAssumption DEF Init, PlaceInv

\* A topic that was paired late remains one: register_pair() refuses to give
\* the pair up.
LEMMA LateStays ==
    ASSUME Shape, NEW t \in Topic, NEW role \in {"advertise", "subscribe"},
           NEW p \in PairId \cup {NoPair}, RegisterPair(t, role, p),
           NEW u \in Topic, LatePaired(u)
    PROVE  LatePaired(u)'
<1>1. pair_id'[u] = pair_id[u]
    BY DEF RegisterPair, RegisterPairThrows, LatePaired, Shape
<1> QED
    BY <1>1 DEF RegisterPair, LatePaired

\* A topic that has its transport keeps it, unless it is now paired late:
\* register_pair() refuses another pair.
LEMMA PairIsKept ==
    ASSUME Shape, NEW t \in Topic, NEW role \in {"advertise", "subscribe"},
           NEW p \in PairId \cup {NoPair}, RegisterPair(t, role, p),
           NEW u \in Topic, Placed(u), ~LatePaired(u)'
    PROVE  TransportFor(u)' = TransportFor(u)
<1>1. multiplex' = multiplex
    BY DEF RegisterPair, config
<1>2. CASE multiplex \/ u \in Image
    BY <1>1, <1>2 DEF TransportFor
<1>3. CASE ~(multiplex \/ u \in Image)
    <2>1. Key(u, pair_id[u]) \in transports
        BY <1>3 DEF Placed, TransportFor, Key, Shared
    <2>2. CASE u # t
        <3>1. pair_id'[u] = pair_id[u]
            BY <2>2 DEF RegisterPair, Shape
        <3> QED
            BY <1>1, <3>1 DEF TransportFor
    <2>3. CASE u = t
        <3>0. pair_id'[t] = p /\ transports' = transports
            BY DEF RegisterPair, Shape
        <3>1. p = pair_id[t]
            BY <2>1, <2>3, <3>0 DEF RegisterPair, RegisterPairThrows, LatePaired
        <3>2. pair_id'[u] = pair_id[u]
            BY <2>3, <3>1 DEF RegisterPair, Shape
        <3> QED
            BY <1>1, <3>2 DEF TransportFor
    <2> QED
        BY <2>2, <2>3
<1> QED
    BY <1>2, <1>3

\* Every step keeps topics, handlers and routes together.
LEMMA PlaceNext == Shape /\ OrderInv /\ PlaceInv /\ [Next]_vars => PlaceInv'
<1> SUFFICES ASSUME Shape, OrderInv, PlaceInv, [Next]_vars
             PROVE  PlaceInv'
    OBVIOUS
<1>0. /\ dpos \in Nat /\ Image \subseteq Topic /\ phase \in Phases
      /\ subscribed \subseteq Topic
    BY NodeAssumption DEF Shape
<1>a. ASSUME UNCHANGED <<config, decl, start, running>>,
             dpos' = 0 => dpos = 0
      PROVE  PlaceInv'
    <2>1. /\ \A t \in Image : Key(t, NoPair) \notin transports
          /\ phase \in {"shared", "data", "started"} /\ dpos = 0
               => Shared \in running
          /\ phase \in {"data", "started"} /\ dpos = 0
               => \A t \in early : topic_route[t] \in running
        BY DEF PlaceInv
    <2> QED
        BY <1>a, <2>1, PlaceGrows DEF config, decl, start
<1> USE DEF config, decl, start, threads
<1>1. ASSUME NEW c \in Configs, Configure(c)
      PROVE  PlaceInv'
    <2>1. /\ UNCHANGED <<call, pair_id, transports, subscribed, handlers, early,
                         phase>>
          /\ phase = "new" /\ call.step = "idle"
          /\ subscribed = {} /\ handlers = {} /\ early = {}
        BY <1>1 DEF Configure, OrderInv
    <2> QED
        BY <2>1 DEF PlaceInv
<1>2. ASSUME NEW t \in Topic, NEW role \in {"advertise", "subscribe"},
             NEW p \in PairId \cup {NoPair}, RegisterPair(t, role, p)
      PROVE  PlaceInv'
    <2>1. /\ UNCHANGED <<transports, subscribed, handlers, start, running, dpos>>
          /\ call'.step = "transport"
          /\ t \in Image => p = NoPair
          /\ pair_id' = [pair_id EXCEPT ![t] = p]
        BY <1>2 DEF RegisterPair
    <2>2. \A u \in Image : pair_id'[u] = NoPair
        BY <1>0, <2>1 DEF PlaceInv, Shape
    <2>3. ASSUME NEW u \in subscribed, ~LatePaired(u)'
          PROVE  /\ ~LatePaired(u) /\ Placed(u)'
                 /\ TransportFor(u)' = TransportFor(u)
        <3>1. u \in Topic /\ ~LatePaired(u)
            BY <1>0, <1>2, <2>3, LateStays
        <3>2. Placed(u)
            BY <2>3, <3>1 DEF PlaceInv
        <3>3. TransportFor(u)' = TransportFor(u)
            BY <1>2, <2>3, <3>1, <3>2, PairIsKept
        <3> QED
            BY <2>1, <3>1, <3>2, <3>3 DEF Placed
    <2>4. ASSUME NEW h \in handlers
          PROVE  /\ h[2] \in subscribed
                 /\ ~LatePaired(h[2])' => h = <<TransportFor(h[2])', h[2]>>
        BY <2>3 DEF PlaceInv
    <2>5. ASSUME NEW u \in early
          PROVE  ~LatePaired(u)' => topic_route[u] = TransportFor(u)'
        BY <2>3 DEF PlaceInv
    <2> QED
        BY <2>1, <2>2, <2>3, <2>4, <2>5 DEF PlaceInv
<1>3. CASE Lookup
    <2>1. /\ UNCHANGED <<multiplex, pair_id, subscribed, handlers, start, running,
                         dpos>>
          /\ transports' = transports \cup ({TransportFor(call.topic)} \ {Shared})
          /\ call'.step = "insert" /\ call'.topic = call.topic
          /\ call'.key = TransportFor(call.topic)
          /\ call.topic \in Topic
        BY <1>3 DEF Lookup, Shape, Calls
    <2>2. \A u : TransportFor(u)' = TransportFor(u)
        BY <2>1 DEF TransportFor
    <2>3. \A u : Placed(u) => Placed(u)'
        BY <2>1, <2>2 DEF Placed
    <2>4. Placed(call.topic)'
        BY <2>1, <2>2 DEF Placed
    <2>5. \A u \in Image : Key(u, NoPair) \notin transports'
        BY <2>1, ImagesShared
    <2>6. /\ call'.key = TransportFor(call.topic)'
          /\ Placed(call.topic)'
        BY <2>1, <2>2, <2>4 DEF Placed, TransportFor
    <2>7. call'.step # "handler"
        BY <2>1
    <2>8. \A u : LatePaired(u) => LatePaired(u)'
        BY <2>1 DEF LatePaired
    <2> QED
        BY <2>1, <2>2, <2>3, <2>5, <2>6, <2>7, <2>8 DEF PlaceInv
<1>4. CASE Insert
    <2>1. /\ UNCHANGED <<multiplex, pair_id, transports, handlers, start, running,
                         dpos>>
          /\ call \in [step : {"insert", "handler"}, topic : Topic,
                       role : {"advertise", "subscribe"}, key : TransportKey]
          /\ call.step = "insert"
        BY <1>4 DEF Insert, Shape, Calls
    <2>2. \A u : TransportFor(u)' = TransportFor(u)
        BY <2>1 DEF TransportFor
    <2>3. \A u : /\ Placed(u)' <=> Placed(u)
                 /\ LatePaired(u)' <=> LatePaired(u)
        BY <2>1, <2>2 DEF Placed, LatePaired
    <2>4. /\ call.key = TransportFor(call.topic) /\ Placed(call.topic)
        BY <2>1 DEF PlaceInv
    <2>5. CASE call'.step = "idle" /\ subscribed' = subscribed
        BY <2>1, <2>2, <2>3, <2>5 DEF PlaceInv
    <2>6. CASE /\ call' = [call EXCEPT !.step = "handler"]
               /\ subscribed' = subscribed \cup {call.topic}
        <3>1. call'.topic = call.topic /\ call'.key = call.key
            BY <2>1, <2>6
        <3>2. /\ call'.key = TransportFor(call.topic)'
              /\ Placed(call.topic)'
              /\ call'.topic \in subscribed'
            BY <2>1, <2>4, <2>6, <3>1 DEF TransportFor, Placed
        <3>3. \A u \in subscribed' : ~LatePaired(u)' => Placed(u)'
            BY <2>3, <2>4, <2>6 DEF PlaceInv
        <3> QED
            BY <2>1, <2>2, <2>3, <2>6, <3>2, <3>3 DEF PlaceInv
    <2> QED
        BY <1>4, <2>5, <2>6 DEF Insert
<1>5. CASE SetTopicHandler
    <2>1. /\ UNCHANGED <<multiplex, pair_id, transports, subscribed, start, running,
                         dpos>>
          /\ handlers' = handlers \cup {<<call.key, call.topic>>}
          /\ call'.step = "idle"
        BY <1>5 DEF SetTopicHandler
    <2>2. \A u : TransportFor(u)' = TransportFor(u)
        BY <2>1 DEF TransportFor
    <2>3. \A u : /\ Placed(u)' <=> Placed(u)
                 /\ LatePaired(u)' <=> LatePaired(u)
        BY <2>1, <2>2 DEF Placed, LatePaired
    <2>4. call.key = TransportFor(call.topic) /\ call.topic \in subscribed
        BY <1>5 DEF SetTopicHandler, PlaceInv
    <2>5. ASSUME NEW h \in handlers'
          PROVE  /\ h[2] \in subscribed'
                 /\ ~LatePaired(h[2])' => h = <<TransportFor(h[2])', h[2]>>
        BY <2>1, <2>2, <2>3, <2>4 DEF PlaceInv
    <2> QED
        BY <2>1, <2>2, <2>3, <2>5 DEF PlaceInv
<1>6. ASSUME NEW t \in Topic, SubscribeLocalIpc(t)
      PROVE  PlaceInv'
    <2>1. /\ UNCHANGED <<config, transports, call, pair_id, subscribed, handlers,
                         start, running, dpos>>
        BY <1>6 DEF SubscribeLocalIpc
    <2>2. /\ \A u \in Image : Key(u, NoPair) \notin transports
          /\ phase \in {"shared", "data", "started"} /\ dpos = 0
               => Shared \in running
          /\ phase \in {"data", "started"} /\ dpos = 0
               => \A u \in early : topic_route[u] \in running
        BY DEF PlaceInv
    <2> QED
        BY <2>1, <2>2, PlaceGrows
<1>7. ASSUME NEW t \in Topic, Publish(t)
      PROVE  PlaceInv'
    <2>1. /\ UNCHANGED <<config, call, pair_id, subscribed, handlers, start,
                         running, dpos>>
          /\ transports' = transports \cup ({TransportFor(t)} \ {Shared})
        BY <1>7 DEF Publish
    <2>2. \A u \in Image : Key(u, NoPair) \notin transports'
        BY <2>1, ImagesShared
    <2>3. /\ phase \in {"shared", "data", "started"} /\ dpos = 0
               => Shared \in running
          /\ phase \in {"data", "started"} /\ dpos = 0
               => \A u \in early : topic_route[u] \in running
        BY DEF PlaceInv
    <2> QED
        BY <2>1, <2>2, <2>3, PlaceGrows
<1>8. CASE Bind
    <2>1. /\ UNCHANGED <<config, decl, early, topic_route, dpos>>
          /\ \A u \in Image : Key(u, NoPair) \notin transports
        BY <1>8 DEF Bind, PlaceInv
    <2>2. /\ phase' \in {"shared", "data", "started"} /\ dpos' = 0
               => Shared \in running'
          /\ phase' \in {"data", "started"} /\ dpos' = 0
               => \A u \in early : topic_route[u] \in running'
        BY <1>8 DEF Bind, PlaceInv
    <2> QED
        BY <2>1, <2>2, PlaceGrows
<1>9. CASE GroupTopics
    <2>1. /\ UNCHANGED <<config, decl, running, dpos>>
          /\ phase' = "grouped" /\ early' = subscribed
          /\ topic_route' = [u \in declared |-> GroupOf(u)]
        BY <1>9 DEF GroupTopics
    <2>2. \A u : TransportFor(u)' = TransportFor(u)
        BY <2>1 DEF TransportFor
    <2>3. \A u : /\ Placed(u)' <=> Placed(u)
                 /\ LatePaired(u)' <=> LatePaired(u)
        BY <2>1, <2>2 DEF Placed, LatePaired
    <2>4. ASSUME NEW u \in early'
          PROVE  /\ u \in subscribed /\ u \in DOMAIN topic_route'
                 /\ topic_route'[u] \in {Shared} \cup transports
                 /\ ~LatePaired(u) => topic_route'[u] = TransportFor(u)
        <3>1. u \in subscribed /\ u \in declared
            BY <2>1 DEF Shape
        <3>2. topic_route'[u] = GroupOf(u)
            BY <2>1, <3>1
        <3>3. GroupOf(u) \in {Shared} \cup transports
            BY DEF GroupOf
        <3> QED
            BY <2>1, <3>1, <3>2, <3>3, GroupIsTransport
    <2> QED
        BY <2>1, <2>2, <2>3, <2>4 DEF PlaceInv
<1>10. ASSUME NEW found \in SUBSET Topic, RegisterGroups(found)
      PROVE  PlaceInv'
    <2>1. /\ UNCHANGED <<config, decl, early, topic_route, dpos>>
          /\ \A u \in Image : Key(u, NoPair) \notin transports
        BY <1>10 DEF RegisterGroups, PlaceInv
    <2>2. /\ phase' \in {"shared", "data", "started"} /\ dpos' = 0
               => Shared \in running'
          /\ phase' \in {"data", "started"} /\ dpos' = 0
               => \A u \in early : topic_route[u] \in running'
        BY <1>10 DEF RegisterGroups, PlaceInv
    <2> QED
        BY <2>1, <2>2, PlaceGrows
<1>11. CASE StartMulticast
    <2>1. /\ UNCHANGED <<config, decl, early, topic_route, dpos>>
          /\ \A u \in Image : Key(u, NoPair) \notin transports
        BY <1>11 DEF StartMulticast, PlaceInv
    <2>2. /\ phase' \in {"shared", "data", "started"} /\ dpos' = 0
               => Shared \in running'
          /\ phase' \in {"data", "started"} /\ dpos' = 0
               => \A u \in early : topic_route[u] \in running'
        BY <1>11 DEF StartMulticast, PlaceInv
    <2> QED
        BY <2>1, <2>2, PlaceGrows
<1>12. CASE StartShared
    <2>1. /\ UNCHANGED <<config, decl, early, topic_route, dpos>>
          /\ \A u \in Image : Key(u, NoPair) \notin transports
        BY <1>12 DEF StartShared, PlaceInv
    <2>2. /\ phase' \in {"shared", "data", "started"} /\ dpos' = 0
               => Shared \in running'
          /\ phase' \in {"data", "started"} /\ dpos' = 0
               => \A u \in early : topic_route[u] \in running'
        BY <1>12 DEF StartShared, PlaceInv
    <2> QED
        BY <2>1, <2>2, PlaceGrows
<1>13. CASE StartDedicated
    <2>1. /\ UNCHANGED <<config, decl, early, topic_route, dpos>>
          /\ phase = "shared" /\ running' = running \cup transports
          /\ \A u \in Image : Key(u, NoPair) \notin transports
        BY <1>13 DEF StartDedicated, PlaceInv
    <2>2. dpos = 0 => Shared \in running
        BY <2>1 DEF PlaceInv
    <2>3. \A u \in early : topic_route[u] \in {Shared} \cup transports
        BY DEF PlaceInv
    <2> QED
        BY <2>1, <2>2, <2>3, PlaceGrows
<1>14. CASE StartThreads
    <2>1. /\ UNCHANGED <<config, decl, early, topic_route, dpos>>
          /\ \A u \in Image : Key(u, NoPair) \notin transports
        BY <1>14 DEF StartThreads, PlaceInv
    <2>2. /\ phase' \in {"shared", "data", "started"} /\ dpos' = 0
               => Shared \in running'
          /\ phase' \in {"data", "started"} /\ dpos' = 0
               => \A u \in early : topic_route[u] \in running'
        BY <1>14 DEF StartThreads, PlaceInv
    <2> QED
        BY <2>1, <2>2, PlaceGrows
<1>15. ASSUME NEW th \in Thread, Exit(th)
      PROVE  PlaceInv'
    BY <1>a, <1>15 DEF Exit
<1>16. ASSUME NEW th \in Thread, Finish(th)
      PROVE  PlaceInv'
    BY <1>a, <1>16 DEF Finish
<1>17. ASSUME NEW th \in {"repunch", "reregister", "listener"}, NEW t \in Topic,
             Wake(th, t)
      PROVE  PlaceInv'
    BY <1>a, <1>17 DEF Wake
<1>18. ASSUME NEW b \in Batches, NEW t \in Topic, PunchNewPeers(b, t)
      PROVE  PlaceInv'
    BY <1>a, <1>18 DEF PunchNewPeers
<1>19. CASE DestructorStep
    <2>1. UNCHANGED <<config, decl, start>> /\ dpos' # 0
        BY <1>0, <1>19 DEF DestructorStep
    <2>2. \A u \in Image : Key(u, NoPair) \notin transports
        BY DEF PlaceInv
    <2> QED
        BY <2>1, <2>2, PlaceGrows
<1>20. CASE UNCHANGED vars
    BY <1>a, <1>20 DEF vars
<1>21. CASE StartThrows
    <2>1. /\ UNCHANGED <<config, decl, early, topic_route, dpos>>
          /\ phase' = "new"
          /\ \A u \in Image : Key(u, NoPair) \notin transports
        BY <1>21 DEF StartThrows, PlaceInv
    <2> QED
        BY <2>1, PlaceGrows
<1> QED
    BY <1>1, <1>2, <1>3, <1>4, <1>5, <1>6, <1>7, <1>8, <1>9, <1>10, <1>11,
       <1>12, <1>13, <1>14, <1>15, <1>16, <1>17, <1>18, <1>19, <1>20, <1>21
       DEF Next, DeclareStep, StartStep, ThreadStep

\* A topic subscribed to before the node started, and not paired after it had
\* been declared without a pair, is announced with the port of the transport
\* that has its handler, and that transport's data thread runs.
THEOREM AnnouncedWhereHandledHolds == Spec => []AnnouncedWhereHandled
<1>1. PlaceInv => AnnouncedWhereHandled
    <2> SUFFICES ASSUME PlaceInv, NEW k \in TransportKey, NEW t \in early,
                        <<k, t>> \in handlers, ~LatePaired(t)
                 PROVE  /\ topic_route[t] = k
                        /\ phase = "started" /\ dpos = 0 => k \in running
        BY DEF AnnouncedWhereHandled
    <2>1. k = TransportFor(t)
        BY DEF PlaceInv
    <2>2. topic_route[t] = k
        BY <2>1 DEF PlaceInv
    <2> QED
        BY <2>2 DEF PlaceInv
<1>2. Shape /\ OrderInv /\ PlaceInv /\ [Next]_vars => PlaceInv'
    BY PlaceNext
<1> QED
    BY <1>1, <1>2, ShapeInit, ShapeNext, OrderInit, OrderNext, PlaceInit, PTL
       DEF Spec

-----------------------------------------------------------------------------
(* The destructor. *)

LEMMA JoinInit == Init => JoinInv
BY DEF Init, JoinInv

\* A thread that has been joined does not start again: the one thread that
\* starts others has been joined before them.
LEMMA JoinNext == Shape /\ OrderInv /\ JoinInv /\ [Next]_vars => JoinInv'
<1> SUFFICES ASSUME Shape, OrderInv, JoinInv, [Next]_vars
             PROVE  JoinInv'
    OBVIOUS
<1>0. dpos \in Nat /\ pc \in [Thread -> {"none", "sleep", "work", "done"}]
    BY DEF Shape
<1>a. ASSUME UNCHANGED <<pc, dpos>> PROVE JoinInv'
    BY <1>a DEF JoinInv, Ended
<1>b. ASSUME dpos' = dpos, dpos = 0 PROVE JoinInv'
    BY <1>b DEF JoinInv
<1>c. ASSUME NEW th \in Thread, dpos' = dpos, ~Ended(th),
             \A u \in Thread : u # th => pc'[u] = pc[u]
      PROVE  JoinInv'
    <2>1. \A u \in Thread : Ended(u) => Ended(u)'
        BY <1>c DEF Ended
    <2> QED
        BY <1>0, <1>c, <2>1, ThreadTypes DEF JoinInv
<1> USE DEF config, decl, start, threads
<1>1. ASSUME NEW c \in Configs, Configure(c)
      PROVE  JoinInv'
    BY <1>a, <1>1 DEF Configure
<1>2. ASSUME NEW t \in Topic, NEW role \in {"advertise", "subscribe"},
             NEW p \in PairId \cup {NoPair}, RegisterPair(t, role, p)
      PROVE  JoinInv'
    BY <1>a, <1>2 DEF RegisterPair
<1>3. CASE Lookup
    BY <1>a, <1>3 DEF Lookup
<1>4. CASE Insert
    BY <1>a, <1>4 DEF Insert
<1>5. CASE SetTopicHandler
    BY <1>a, <1>5 DEF SetTopicHandler
<1>6. ASSUME NEW t \in Topic, SubscribeLocalIpc(t)
      PROVE  JoinInv'
    BY <1>b, <1>6 DEF SubscribeLocalIpc
<1>7. ASSUME NEW t \in Topic, Publish(t)
      PROVE  JoinInv'
    BY <1>a, <1>7 DEF Publish
<1>8. CASE Bind
    BY <1>a, <1>8 DEF Bind
<1>9. CASE GroupTopics
    BY <1>a, <1>9 DEF GroupTopics
<1>10. ASSUME NEW found \in SUBSET Topic, RegisterGroups(found)
      PROVE  JoinInv'
    BY <1>a, <1>10 DEF RegisterGroups
<1>11. CASE StartMulticast
    BY <1>0, <1>b, <1>11 DEF StartMulticast, OrderInv
<1>12. CASE StartShared
    BY <1>a, <1>12 DEF StartShared
<1>13. CASE StartDedicated
    BY <1>a, <1>13 DEF StartDedicated
<1>14. CASE StartThreads
    BY <1>0, <1>b, <1>14 DEF StartThreads, OrderInv
<1>15. ASSUME NEW th \in Thread, Exit(th)
      PROVE  JoinInv'
    <2>1. /\ ~Ended(th) /\ dpos' = dpos
          /\ \A u \in Thread : u # th => pc'[u] = pc[u]
        BY <1>0, <1>15 DEF Exit, Ended
    <2> QED
        BY <1>c, <2>1
<1>16. ASSUME NEW th \in Thread, Finish(th)
      PROVE  JoinInv'
    <2>1. /\ ~Ended(th) /\ dpos' = dpos
          /\ \A u \in Thread : u # th => pc'[u] = pc[u]
        BY <1>0, <1>16 DEF Finish, Ended
    <2> QED
        BY <1>c, <2>1
<1>17. ASSUME NEW th \in {"repunch", "reregister", "listener"}, NEW t \in Topic,
             Wake(th, t)
      PROVE  JoinInv'
    <2>1. /\ ~Ended(th) /\ dpos' = dpos
          /\ \A u \in Thread : u # th => pc'[u] = pc[u]
        BY <1>0, <1>17 DEF Wake, Ended
    <2> QED
        BY <1>c, <2>1, ThreadTypes
<1>18. ASSUME NEW b \in Batches, NEW t \in Topic, PunchNewPeers(b, t)
      PROVE  JoinInv'
    <2>1. /\ ~Ended("reregister") /\ dpos' = dpos /\ b \in Thread
          /\ \A u \in Thread : u # b => pc'[u] = pc[u]
        BY <1>0, <1>18, ThreadTypes DEF PunchNewPeers, Ended
    <2>2. ~(dpos >= 4)
        BY <2>1 DEF JoinInv
    <2>3. ~(dpos' >= 4) /\ ~(dpos' >= 6) /\ ~(dpos' >= 7) /\ ~(dpos' >= 8)
          /\ ~(dpos' >= 10)
        BY <1>0, <2>1, <2>2
    <2>4. Ended("repunch") => Ended("repunch")'
        BY <2>1, ThreadTypes DEF Ended
    <2> QED
        BY <2>1, <2>3, <2>4 DEF JoinInv
<1>19. CASE DestructorStep
    <2>1. dpos' = dpos + 1 /\ pc' = pc
        BY <1>19 DEF DestructorStep
    <2>2. \A th : Ended(th)' <=> Ended(th)
        BY <2>1 DEF Ended
    <2>3. Teardown[dpos + 1][1] = "join"
            => \A th \in Joined(Teardown[dpos + 1][2]) : Ended(th)
        BY <1>19 DEF DestructorStep
    <2>4. /\ dpos + 1 = 2 => Ended("repunch")
          /\ dpos + 1 = 4 => Ended("reregister")
          /\ dpos + 1 = 6 => Ended("keepalive")
          /\ dpos + 1 = 7 => Ended("initial_punch")
          /\ dpos + 1 = 8 => \A b \in Batches : Ended(b)
          /\ dpos + 1 = 10 => Ended("shm_poll")
        BY <2>3, TeardownOrder DEF Joined
    <2>5. /\ dpos' >= 2 => dpos >= 2 \/ dpos + 1 = 2
          /\ dpos' >= 4 => dpos >= 4 \/ dpos + 1 = 4
          /\ dpos' >= 6 => dpos >= 6 \/ dpos + 1 = 6
          /\ dpos' >= 7 => dpos >= 7 \/ dpos + 1 = 7
          /\ dpos' >= 8 => dpos >= 8 \/ dpos + 1 = 8
          /\ dpos' >= 10 => dpos >= 10 \/ dpos + 1 = 10
        BY <1>0, <2>1
    <2> QED
        BY <2>2, <2>4, <2>5 DEF JoinInv
<1>20. CASE UNCHANGED vars
    BY <1>a, <1>20 DEF vars
<1>21. CASE StartThrows
    BY <1>a, <1>21 DEF StartThrows
<1> QED
    BY <1>1, <1>2, <1>3, <1>4, <1>5, <1>6, <1>7, <1>8, <1>9, <1>10, <1>11,
       <1>12, <1>13, <1>14, <1>15, <1>16, <1>17, <1>18, <1>19, <1>20, <1>21
       DEF Next, DeclareStep, StartStep, ThreadStep

\* The threads the destructor joins never use a member that is gone: nothing
\* is destroyed before the last of them has ended, threads started during the
\* destruction included.
THEOREM JoinedThreadsAreSafeHolds == Spec => []JoinedThreadsAreSafe
<1>1. Shape /\ JoinInv => JoinedThreadsAreSafe
    <2> SUFFICES ASSUME Shape, JoinInv, NEW th \in Thread \ {"listener"}
                 PROVE  /\ Touches(th) \cap Destroyed = {}
                        /\ "threads" \in Destroyed => Ended(th)
        BY DEF JoinedThreadsAreSafe
    <2>0. dpos \in Nat
        BY DEF Shape
    <2>1. CASE dpos >= 10
        <3>1. Ended(th)
            BY <2>0, <2>1, ThreadTypes DEF JoinInv
        <3>2. Touches(th) = {}
            BY <3>1 DEF Touches, Ended
        <3> QED
            BY <3>1, <3>2
    <2>2. CASE ~(dpos >= 10)
        <3>1. \A j \in 1 .. dpos : j \in 1 .. 10
            BY <2>0, <2>2
        <3>2. Destroyed = {}
            BY <3>1, TeardownOrder DEF Destroyed
        <3> QED
            BY <3>2
    <2> QED
        BY <2>1, <2>2
<1> QED
    BY <1>1, ShapeInit, ShapeNext, OrderInit, OrderNext, JoinInit, JoinNext,
       PTL
       DEF Spec
=============================================================================
