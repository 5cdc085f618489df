---------------------------- MODULE RelayProofs ----------------------------
(***************************************************************************)
(* Proofs about Relay, for every set of nodes, every TTL, period and delay *)
(* that satisfy RelayAssumption, and every number of UMEM frames.          *)
(*                                                                         *)
(* Three arguments on top of the variables' types (Shape).  FrameInv: each *)
(* UMEM frame is somewhere, and there are as many places as frames.        *)
(* SweptInv: after the sweep of the current second no member is expired.   *)
(* LeaseInv: how old last_seen can be, from the REGISTERs that were lost   *)
(* and those still under way.                                              *)
(***************************************************************************)
EXTENDS Relay, TLAPS, SequenceTheorems, FiniteSetTheorems

Frame == 1 .. NumFrames
Datagram == [kind : {"register", "data", "empty"}, src : Node,
             age : 0 .. MaxDelay]
Descriptor == [frame : Frame, packet : Datagram]

\* What each variable may hold; the loop is inside the RX ring.
Shape ==
  /\ server \in {"relay", "xdp", "rlcore"}
  /\ phase \in [Node -> {"off", "on", "dead"}]
  /\ timer \in [Node -> 0 .. Period + MaxLate]
  /\ net \subseteq Datagram /\ IsFiniteSet(net)
  /\ group \in [Node -> -1 .. Ttl + 1]
  /\ swept \in BOOLEAN
  /\ sock \in Seq(Datagram) /\ rx \in Seq(Descriptor) /\ fill \in Seq(Frame)
  /\ loop \in [i : Nat, n : Nat]
  /\ loop # Idle => 1 <= loop.i /\ loop.i <= loop.n /\ loop.n <= Len(rx)
  /\ missed \in [Node -> 0 .. Tolerated + 1]

\* The first descriptor the loop has not done with.
First == IF loop = Idle THEN 1 ELSE loop.i

\* There are as many frames in the fill ring and in unread descriptors as
\* there are frames, and every frame is there.
FrameInv ==
  /\ Len(fill) + (Len(rx) + 1 - First) = NumFrames
  /\ \A f \in Frame : \/ \E j \in 1 .. Len(fill) : fill[j] = f
                      \/ \E j \in First .. Len(rx) : rx[j].frame = f

\* The sweep of this second has been done, nobody is expired.
SweptInv == swept => \A n \in Node : ~Expired(group[n])

\* The longest time between two REGISTERs of one node.
Gap == Period + MaxLate

\* REGISTERs of n under way.
Registers(n) == {p \in net : p.kind = "register" /\ p.src = n}

\* Those sent more than a units of time ago.
Older(n, a) == {p \in Registers(n) : p.age > a}

\* A REGISTER of n has arrived and will be handled before time passes.
Pending(n) ==
  \/ \E j \in 1 .. Len(sock) : sock[j] = Packet("register", n)
  \/ \E j \in First .. Len(rx) : rx[j].packet = Packet("register", n)

\* Since the last REGISTER of n that was handled, the ones sent more than a
\* units of time ago are lost or still under way, and one was sent at least
\* every Gap; the same up to the last one sent.
Lease(n) ==
  /\ \A a \in 0 .. MaxDelay :
       group[n] <= a + (missed[n] + 1 + Cardinality(Older(n, a))) * Gap
  /\ group[n] <= timer[n] + (missed[n] + Cardinality(Registers(n))) * Gap

\* A node that does not run has no REGISTER to lose; those of a running one
\* are at least as old as the last it sent.
ClientInv ==
  \A n \in Node :
    /\ phase[n] # "on" => missed[n] = Tolerated + 1 /\ timer[n] = 0
    /\ phase[n] = "on" => \A p \in Registers(n) : p.age >= timer[n]

\* A running node of which few enough REGISTERs were lost has a lease that
\* holds, or one about to be renewed.
LeaseInv ==
  \A n \in Node :
    phase[n] = "on" /\ missed[n] <= Tolerated
      => group[n] \in 0 .. Ttl /\ (Pending(n) \/ Lease(n))

-----------------------------------------------------------------------------
\* Products of naturals, for the provers.
LEMMA Product ==
    ASSUME NEW x \in Nat, NEW y \in Nat, NEW z \in Nat, x <= y
    PROVE  /\ x * z \in Nat /\ x * z <= y * z
           /\ (x + 1) * z = x * z + z
BY SMT

\* The longest lease a node may have, and the losses it survives, fit into
\* the TTL.
LEMMA LeaseFits ==
    /\ Gap \in Nat /\ Gap > 0 /\ Tolerated \in Nat
    /\ MaxDelay + (Tolerated + 1) * Gap <= Ttl
<1>1. Gap \in Nat /\ Gap > 0 /\ Gap + MaxDelay <= Ttl
    BY RelayAssumption DEF Gap
<1> DEFINE x == Ttl - MaxDelay
<1>2. x \in Nat /\ x >= Gap
    BY <1>1, RelayAssumption
<1>3. Tolerated = (x \div Gap) - 1
    BY DEF Tolerated, Gap
<1> HIDE DEF x
<1>4. x \div Gap \in Nat /\ (x \div Gap) * Gap <= x
    BY <1>1, <1>2, SMT
<1>5. x \div Gap >= 1
    BY <1>1, <1>2, SMT
<1>6. Tolerated \in Nat /\ (Tolerated + 1) * Gap <= x
    BY <1>3, <1>4, <1>5
<1> QED
    BY <1>1, <1>6, RelayAssumption DEF x

-----------------------------------------------------------------------------
\* A group is a function of the nodes to ages.
Ages == [Node -> -1 .. Ttl + 1]

\* The sweep leaves a group, with nobody expired in it.
LEMMA SweepType ==
    ASSUME NEW g \in Ages
    PROVE  /\ Sweep(g) \in Ages
           /\ \A n \in Node : /\ ~Expired(Sweep(g)[n])
                              /\ ~Expired(g[n]) => Sweep(g)[n] = g[n]
BY RelayAssumption DEF Sweep, Expired, Absent, Ages

\* handle_packet() renews the sender of a REGISTER, drops the expired and
\* leaves everybody else alone.
LEMMA HandleEffect ==
    ASSUME Shape, NEW p \in Datagram, Handle(p)
    PROVE  /\ group' \in Ages /\ swept' = TRUE
           /\ missed' \in [Node -> 0 .. Tolerated + 1]
           /\ \A n \in Node : ~Expired(group'[n])
           /\ p.kind = "register" => group'[p.src] = 0
           /\ \A n \in Node : ~Expired(group[n])
                => group'[n] = group[n] \/ (p.kind = "register" /\ n = p.src)
           /\ \A n \in Node : missed'[n] =
                IF p.kind = "register" /\ n = p.src /\ phase[n] = "on"
                  THEN 0 ELSE missed[n]
<1> DEFINE g == IF server = "rlcore" THEN Sweep(group) ELSE group
           h == IF p.kind = "register" THEN Join(g, p) ELSE g
<1>1. group \in Ages /\ p.src \in Node
    BY DEF Shape, Ages, Datagram
<1>2. g \in Ages /\ \A n \in Node : ~Expired(group[n]) => g[n] = group[n]
    BY <1>1, SweepType
<1>3. /\ h \in Ages
      /\ p.kind = "register" => h[p.src] = 0
      /\ \A n \in Node : h[n] = g[n] \/ (p.kind = "register" /\ n = p.src)
    BY <1>1, <1>2, RelayAssumption DEF Join, Ages
<1>4. /\ group' = Sweep(h) /\ swept' = TRUE
      /\ missed' = IF p.kind = "register" /\ phase[p.src] = "on"
                     THEN [missed EXCEPT ![p.src] = 0] ELSE missed
    BY DEF Handle, Apply
<1> HIDE DEF g, h
<1>5. /\ group' \in Ages
      /\ \A n \in Node : ~Expired(group'[n])
      /\ \A n \in Node : ~Expired(h[n]) => group'[n] = h[n]
    BY <1>3, <1>4, SweepType
<1>6. ~Expired(0)
    BY RelayAssumption DEF Expired
<1>7. missed' \in [Node -> 0 .. Tolerated + 1]
    BY <1>1, <1>4, LeaseFits DEF Shape
<1>8. \A n \in Node : missed'[n] =
          IF p.kind = "register" /\ n = p.src /\ phase[n] = "on"
            THEN 0 ELSE missed[n]
    BY <1>1, <1>4 DEF Shape
<1>9. p.kind = "register" => group'[p.src] = 0
    BY <1>1, <1>3, <1>5, <1>6
<1>10. \A n \in Node : ~Expired(group[n])
          => group'[n] = group[n] \/ (p.kind = "register" /\ n = p.src)
    BY <1>2, <1>3, <1>5
<1> QED
    BY <1>4, <1>5, <1>7, <1>8, <1>9, <1>10

-----------------------------------------------------------------------------
\* At the start the queues are empty and every frame is in the fill ring.
LEMMA ShapeInit == Init => Shape
<1> SUFFICES ASSUME Init PROVE Shape
    OBVIOUS
<1>1. SeedFrames \in Seq(Frame)
    BY RelayAssumption DEF SeedFrames, Frame
<1>2. IsFiniteSet(net)
    BY FS_EmptySet DEF Init
<1> QED
    BY <1>1, <1>2, LeaseFits, RelayAssumption
       DEF Init, Shape, Absent, Idle

\* A new datagram joins those under way.
LEMMA NetGrows ==
    ASSUME Shape, NEW kind \in {"register", "data", "empty"}, NEW n \in Node
    PROVE  /\ Packet(kind, n) \in Datagram
           /\ net \cup {Packet(kind, n)} \subseteq Datagram
           /\ IsFiniteSet(net \cup {Packet(kind, n)})
<1>1. Packet(kind, n) \in Datagram
    BY RelayAssumption DEF Packet, Datagram
<1> QED
    BY <1>1, FS_AddElement DEF Shape

\* A datagram leaves those under way.
LEMMA NetShrinks ==
    ASSUME Shape, NEW p \in net
    PROVE  /\ p \in Datagram
           /\ net \ {p} \subseteq Datagram /\ IsFiniteSet(net \ {p})
BY FS_RemoveElement DEF Shape

\* A loss is counted up to the first count no property tells apart.
LEMMA LostEffect ==
    ASSUME Shape, NEW p \in Datagram
    PROVE  /\ Lost(p) \in [Node -> 0 .. Tolerated + 1]
           /\ \A n \in Node :
                Lost(p)[n] = IF p.kind = "register" /\ n = p.src
                                /\ missed[n] <= Tolerated
                               THEN missed[n] + 1 ELSE missed[n]
BY LeaseFits DEF Lost, Up, Shape, Datagram

\* A datagram under way, one unit of time later.
Aged(p) == [p EXCEPT !.age = @ + 1]

LEMMA AgedType ==
    ASSUME NEW p \in Datagram, p.age < MaxDelay
    PROVE  /\ Aged(p) \in Datagram
           /\ Aged(p).kind = p.kind /\ Aged(p).src = p.src
           /\ Aged(p).age = p.age + 1
BY RelayAssumption DEF Aged, Datagram

\* A unit of time makes no two datagrams one.
LEMMA AgedInjective ==
    ASSUME NEW p \in Datagram, NEW q \in Datagram,
           p.age < MaxDelay, q.age < MaxDelay, Aged(p) = Aged(q)
    PROVE  p = q
<1>1. p.kind = q.kind /\ p.src = q.src /\ p.age + 1 = q.age + 1
    BY AgedType
<1>2. p.age \in Int /\ q.age \in Int
    BY DEF Datagram
<1>3. p.age = q.age
    BY <1>1, <1>2
<1>4. /\ p = [kind |-> p.kind, src |-> p.src, age |-> p.age]
      /\ q = [kind |-> q.kind, src |-> q.src, age |-> q.age]
    BY DEF Datagram
<1> QED
    BY <1>1, <1>3, <1>4

\* A unit of time makes every datagram under way one unit older.
LEMMA NetAges ==
    ASSUME Shape, Tick
    PROVE  /\ \A p \in net : p \in Datagram /\ p.age < MaxDelay
           /\ net' = {Aged(p) : p \in net}
           /\ net' \subseteq Datagram /\ IsFiniteSet(net')
<1>1. \A p \in net : p \in Datagram /\ p.age < MaxDelay
    BY DEF Shape, Tick
<1>2. net' = {Aged(p) : p \in net}
    BY DEF Tick, Aged
<1>3. \A p \in net : Aged(p) \in Datagram
    BY <1>1, AgedType
<1> DEFINE f == [q \in net' |-> CHOOSE p \in net : Aged(p) = q]
<1>4. \A q \in net' : f[q] \in net /\ Aged(f[q]) = q
    BY <1>2
<1>5. f \in Injection(net', net)
    BY <1>4 DEF Injection, IsInjective
<1>6. IsFiniteSet(net')
    BY <1>5, FS_Injection DEF Shape
<1> QED
    BY <1>1, <1>2, <1>3, <1>6

\* The loop reads a descriptor of the RX ring.
LEMMA CurrentType ==
    ASSUME Shape, RxFrame
    PROVE  Current \in Datagram
<1>1. loop.i \in 1 .. Len(rx)
    BY LenProperties DEF RxFrame, Shape
<1>2. rx[loop.i] \in Descriptor
    BY <1>1, ElementOfSeq DEF Shape
<1> QED
    BY <1>2 DEF Current, Descriptor

\* Every step keeps the types, and the loop inside the RX ring.
LEMMA ShapeNext == Shape /\ [Next]_vars => Shape'
<1> SUFFICES ASSUME Shape, [Next]_vars
             PROVE  Shape'
    OBVIOUS
<1> USE DEF client, xdp
<1>1. ASSUME NEW n \in Node, Start(n)
      PROVE  Shape'
    <2>1. net' \subseteq Datagram /\ IsFiniteSet(net')
        BY <1>1, NetGrows DEF Start
    <2> QED
        BY <1>1, <2>1, RelayAssumption DEF Start, Shape
<1>2. ASSUME NEW n \in Node, KeepAlive(n)
      PROVE  Shape'
    <2>1. net' \subseteq Datagram /\ IsFiniteSet(net')
        BY <1>2, NetGrows DEF KeepAlive
    <2> QED
        BY <1>2, <2>1, RelayAssumption DEF KeepAlive, Shape
<1>3. ASSUME NEW n \in Node, PublishRaw(n)
      PROVE  Shape'
    <2>1. net' \subseteq Datagram /\ IsFiniteSet(net')
        BY <1>3, NetGrows DEF PublishRaw
    <2> QED
        BY <1>3, <2>1, RelayAssumption DEF PublishRaw, Shape
<1>4. ASSUME NEW n \in Node, Stray(n)
      PROVE  Shape'
    <2>1. net' \subseteq Datagram /\ IsFiniteSet(net')
        BY <1>4, NetGrows DEF Stray
    <2> QED
        BY <1>4, <2>1, RelayAssumption DEF Stray, Shape
<1>5. ASSUME NEW n \in Node, Die(n)
      PROVE  Shape'
    BY <1>5, LeaseFits, RelayAssumption DEF Die, Shape
<1>6. ASSUME NEW p \in net, Receive(p)
      PROVE  Shape'
    <2>1. net' \subseteq Datagram /\ IsFiniteSet(net') /\ p \in Datagram
        BY <1>6, NetShrinks DEF Receive
    <2>2. /\ group' \in Ages /\ swept' = TRUE
          /\ missed' \in [Node -> 0 .. Tolerated + 1]
        BY <1>6, <2>1, HandleEffect DEF Receive
    <2> QED
        BY <1>6, <2>1, <2>2 DEF Receive, Shape, Ages
<1>7. ASSUME NEW p \in net, KernelPass(p)
      PROVE  Shape'
    <2>1. net' \subseteq Datagram /\ IsFiniteSet(net') /\ p \in Datagram
        BY <1>7, NetShrinks DEF KernelPass
    <2>2. Arrived(p) \in Datagram
        BY <2>1, NetGrows DEF Arrived, Datagram
    <2>3. sock' \in Seq(Datagram)
        BY <1>7, <2>2, AppendProperties DEF KernelPass, Shape
    <2> QED
        BY <1>7, <2>1, <2>3 DEF KernelPass, Shape
<1>8. ASSUME NEW p \in net, KernelRedirect(p)
      PROVE  Shape'
    <2>1. net' \subseteq Datagram /\ IsFiniteSet(net') /\ p \in Datagram
        BY <1>8, NetShrinks DEF KernelRedirect
    <2>2. Arrived(p) \in Datagram
        BY <2>1, NetGrows DEF Arrived, Datagram
    <2>3. CASE fill # << >> /\ fill' = Tail(fill) /\ missed' = missed
               /\ rx' = Append(rx, [frame |-> Head(fill), packet |-> Arrived(p)])
        <3>1. Head(fill) \in Frame /\ Tail(fill) \in Seq(Frame)
            BY <2>3, HeadTailProperties DEF Shape
        <3>2. [frame |-> Head(fill), packet |-> Arrived(p)] \in Descriptor
            BY <2>2, <3>1 DEF Descriptor
        <3>3. rx' \in Seq(Descriptor) /\ Len(rx') = Len(rx) + 1
            BY <2>3, <3>2, AppendProperties DEF Shape
        <3>4. Len(rx) \in Nat
            BY LenProperties DEF Shape
        <3> QED
            BY <1>8, <2>1, <2>3, <3>1, <3>3, <3>4 DEF KernelRedirect, Shape
    <2>4. CASE missed' = Lost(p) /\ UNCHANGED <<fill, rx>>
        BY <1>8, <2>1, <2>4, LostEffect DEF KernelRedirect, Shape
    <2> QED
        BY <1>8, <2>3, <2>4 DEF KernelRedirect
<1>9. ASSUME NEW p \in net, Lose(p)
      PROVE  Shape'
    <2>1. net' \subseteq Datagram /\ IsFiniteSet(net') /\ p \in Datagram
        BY <1>9, NetShrinks DEF Lose
    <2> QED
        BY <1>9, <2>1, LostEffect DEF Lose, Shape
<1>10. CASE ReceiveTimeout
    BY <1>10, SweepType DEF ReceiveTimeout, Shape, Ages
<1>11. CASE Poll
    <2>1. /\ group' \in Ages /\ swept' \in BOOLEAN
          /\ missed' \in [Node -> 0 .. Tolerated + 1]
        <3>1. CASE "sock" \in Ready /\ Head(sock).kind # "empty"
            <4>1. Head(sock) \in Datagram
                BY <3>1, HeadTailProperties DEF Ready, Shape
            <4> QED
                BY <1>11, <3>1, <4>1, HandleEffect DEF Poll
        <3>2. CASE ~("sock" \in Ready /\ Head(sock).kind # "empty")
            BY <1>11, <3>2 DEF Poll, Shape, Ages
        <3> QED
            BY <3>1, <3>2
    <2>2. sock' \in Seq(Datagram)
        <3>1. "sock" \in Ready => Tail(sock) \in Seq(Datagram)
            BY HeadTailProperties DEF Ready, Shape
        <3> QED
            BY <1>11, <3>1 DEF Poll, Shape
    <2>3. /\ loop' \in [i : Nat, n : Nat]
          /\ loop' # Idle => 1 <= loop'.i /\ loop'.i <= loop'.n /\ loop'.n <= Len(rx)
        <3>1. CASE "xsk" \in Ready
            <4>1. Len(rx) \in Nat /\ Len(rx) # 0
                BY <3>1, EmptySeq, LenProperties DEF Ready, Shape
            <4>2. RxBatch \in 1 .. Len(rx)
                BY <4>1, RelayAssumption DEF RxBatch
            <4>3. loop' = [i |-> 1, n |-> RxBatch]
                BY <1>11, <3>1 DEF Poll
            <4> QED
                BY <4>1, <4>2, <4>3
        <3>2. CASE "xsk" \notin Ready
            BY <1>11, <3>2 DEF Poll, Idle
        <3> QED
            BY <3>1, <3>2
    <2> QED
        BY <1>11, <2>1, <2>2, <2>3 DEF Poll, Shape, Ages
<1>12. CASE RxFrame
    <2>1. /\ Len(rx) \in Nat /\ loop.i \in Nat /\ loop.n \in Nat
          /\ 1 <= loop.i /\ loop.i <= loop.n /\ loop.n <= Len(rx)
        BY <1>12, LenProperties DEF RxFrame, Shape
    <2>2. rx[loop.i] \in Descriptor
        BY <2>1, ElementOfSeq DEF Shape
    <2>3. /\ group' \in Ages /\ swept' \in BOOLEAN
          /\ missed' \in [Node -> 0 .. Tolerated + 1]
        <3>1. CASE Current.kind # "empty"
            <4>1. Current \in Datagram
                BY <2>2 DEF Current, Descriptor
            <4> QED
                BY <1>12, <3>1, <4>1, HandleEffect DEF RxFrame
        <3>2. CASE Current.kind = "empty"
            BY <1>12, <3>2 DEF RxFrame, Shape, Ages
        <3> QED
            BY <3>1, <3>2
    <2>4. fill' \in Seq(Frame)
        BY <1>12, <2>2, AppendProperties DEF RxFrame, Refill, Shape, Descriptor
    <2>5. /\ rx' \in Seq(Descriptor)
          /\ loop' \in [i : Nat, n : Nat]
          /\ loop' # Idle => 1 <= loop'.i /\ loop'.i <= loop'.n /\ loop'.n <= Len(rx')
        <3>1. CASE loop.i < loop.n
            <4>1. loop' = [loop EXCEPT !.i = @ + 1] /\ rx' = rx
                BY <1>12, <3>1 DEF RxFrame
            <4>2. loop \in [i : Nat, n : Nat] /\ rx \in Seq(Descriptor)
                BY DEF Shape
            <4>3. /\ loop' \in [i : Nat, n : Nat]
                  /\ loop'.i = loop.i + 1 /\ loop'.n = loop.n
                BY <4>1, <4>2
            <4> QED
                BY <2>1, <3>1, <4>1, <4>2, <4>3
        <3>2. CASE ~(loop.i < loop.n)
            <4>1. loop' = Idle /\ rx' = SubSeq(rx, loop.n + 1, Len(rx))
                BY <1>12, <3>2 DEF RxFrame, ReleaseRx
            <4>2. rx' \in Seq(Descriptor)
                BY <2>1, <4>1, SubSeqProperties DEF Shape
            <4> QED
                BY <4>1, <4>2 DEF Idle
        <3> QED
            BY <3>1, <3>2
    <2> QED
        BY <1>12, <2>3, <2>4, <2>5 DEF RxFrame, Shape, Ages
<1>13. CASE Restart
    <2>1. SeedFrames \in Seq(Frame)
        BY RelayAssumption DEF SeedFrames, Frame
    <2> QED
        BY <1>13, <2>1, LeaseFits, RelayAssumption DEF Restart, Shape, Absent, Idle
<1>14. CASE Tick
    <2>1. timer' \in [Node -> 0 .. Period + MaxLate]
        <3>1. \A n \in Node : phase[n] = "on"
                                => timer[n] + 1 \in 0 .. Period + MaxLate
            <4>1. \A n \in Node : phase[n] = "on" => timer[n] < Period + MaxLate
                BY <1>14 DEF Tick
            <4>2. \A n \in Node : timer[n] \in 0 .. Period + MaxLate
                BY DEF Shape
            <4>3. Period + MaxLate \in Nat
                BY RelayAssumption
            <4> QED
                BY <4>1, <4>2, <4>3
        <3>2. 0 \in 0 .. Period + MaxLate
            BY RelayAssumption
        <3>3. timer' = [n \in Node |-> IF phase[n] = "on" THEN timer[n] + 1 ELSE 0]
            BY <1>14 DEF Tick
        <3> QED
            BY <3>1, <3>2, <3>3
    <2>2. group' \in [Node -> -1 .. Ttl + 1]
        <3>1. \A n \in Node : group[n] \in -1 .. Ttl + 1
            BY DEF Shape
        <3>2. \A n \in Node : group[n] # Absent
                                => Up(group[n], Ttl + 1) \in -1 .. Ttl + 1
            BY <3>1, RelayAssumption DEF Up, Absent
        <3>3. Absent \in -1 .. Ttl + 1
            BY RelayAssumption DEF Absent
        <3>4. group' = [n \in Node |-> IF group[n] = Absent THEN Absent
                                         ELSE Up(group[n], Ttl + 1)]
            BY <1>14 DEF Tick
        <3> QED
            BY <3>2, <3>3, <3>4
    <2> QED
        BY <1>14, <2>1, <2>2, NetAges DEF Tick, Shape
<1>15. CASE UNCHANGED vars
    BY <1>15 DEF vars, Shape
<1> QED
    BY <1>1, <1>2, <1>3, <1>4, <1>5, <1>6, <1>7, <1>8, <1>9, <1>10, <1>11,
       <1>12, <1>13, <1>14, <1>15
       DEF Next

-----------------------------------------------------------------------------
\* A restart, like the first start, puts every frame into the fill ring.
LEMMA FrameSeeded ==
    ASSUME fill = SeedFrames, rx = << >>, loop = Idle
    PROVE  FrameInv
<1>1. /\ Len(fill) = NumFrames /\ Len(rx) = 0 /\ First = 1
      /\ \A j \in Frame : fill[j] = j
    BY RelayAssumption DEF SeedFrames, First, Frame
<1>2. \A f \in Frame : f \in 1 .. Len(fill)
    BY <1>1 DEF Frame
<1> QED
    BY <1>1, <1>2, RelayAssumption DEF FrameInv

\* The kernel moves a frame from the fill ring to the end of the RX ring.
LEMMA RedirectFrames ==
    ASSUME Shape, FrameInv, fill # << >>, NEW d \in Datagram,
           fill' = Tail(fill), loop' = loop,
           rx' = Append(rx, [frame |-> Head(fill), packet |-> d])
    PROVE  FrameInv'
<1>1. /\ Head(fill) = fill[1] /\ Len(fill') = Len(fill) - 1
      /\ Len(fill) \in Nat \ {0} /\ Head(fill) \in Frame
      /\ \A j \in 1 .. Len(fill') : fill'[j] = fill[j + 1]
    BY HeadTailProperties, EmptySeq DEF Shape
<1> DEFINE e == [frame |-> Head(fill), packet |-> d]
<1>2. e \in Descriptor
    BY <1>1 DEF Descriptor
<1> HIDE DEF e
<1>3. /\ Len(rx) \in Nat /\ Len(rx') = Len(rx) + 1
      /\ \A j \in 1 .. Len(rx) : rx'[j] = rx[j]
      /\ rx'[Len(rx) + 1] = e
    BY <1>2, AppendProperties, LenProperties DEF Shape, e
<1>4. First' = First /\ First \in Nat /\ First >= 1 /\ First <= Len(rx) + 1
    BY <1>3 DEF First, Shape
<1>5. ASSUME NEW f \in Frame
      PROVE  \/ \E j \in 1 .. Len(fill') : fill'[j] = f
             \/ \E j \in First' .. Len(rx') : rx'[j].frame = f
    <2>1. ASSUME NEW j \in 1 .. Len(fill), fill[j] = f
          PROVE  \/ \E k \in 1 .. Len(fill') : fill'[k] = f
                 \/ \E k \in First' .. Len(rx') : rx'[k].frame = f
        <3>1. CASE j = 1
            <4>1. rx'[Len(rx) + 1].frame = f
                BY <1>1, <1>3, <2>1, <3>1 DEF e
            <4>2. Len(rx) + 1 \in First' .. Len(rx')
                BY <1>3, <1>4
            <4> QED
                BY <4>1, <4>2
        <3>2. CASE j # 1
            <4>1. j - 1 \in 1 .. Len(fill') /\ fill'[j - 1] = fill[j - 1 + 1]
                BY <1>1, <3>2
            <4>2. j - 1 + 1 = j
                BY <1>1
            <4> QED
                BY <2>1, <4>1, <4>2
        <3> QED
            BY <3>1, <3>2
    <2>2. ASSUME NEW j \in First .. Len(rx), rx[j].frame = f
          PROVE  \E k \in First' .. Len(rx') : rx'[k].frame = f
        <3>1. j \in First' .. Len(rx') /\ rx'[j] = rx[j]
            BY <1>3, <1>4
        <3> QED
            BY <2>2, <3>1
    <2> QED
        BY <2>1, <2>2 DEF FrameInv
<1>6. Len(fill') + (Len(rx') + 1 - First') = NumFrames
    BY <1>1, <1>3, <1>4 DEF FrameInv
<1> QED
    BY <1>5, <1>6 DEF FrameInv

\* The loop moves on by one descriptor, and drops d of them: none, or its
\* whole batch.
LEMMA RxAdvance ==
    ASSUME Shape, RxFrame
    PROVE  \E d \in Nat : /\ Len(rx') \in Nat /\ Len(rx') = Len(rx) - d
                          /\ First' = loop.i + 1 - d
                          /\ \A j \in loop.i + 1 .. Len(rx) : rx'[j - d] = rx[j]
<1>a. /\ Len(rx) \in Nat /\ loop.i \in Nat /\ loop.n \in Nat
      /\ 1 <= loop.i /\ loop.i <= loop.n /\ loop.n <= Len(rx)
      /\ First = loop.i
    BY LenProperties DEF RxFrame, Shape, First
<1>1. CASE loop.i < loop.n
    <2>1. rx' = rx /\ loop' = [loop EXCEPT !.i = @ + 1]
        BY <1>1 DEF RxFrame
    <2>2. loop'.i = loop.i + 1 /\ loop' # Idle
        BY <1>a, <2>1 DEF Shape, Idle
    <2>3. First' = loop.i + 1
        BY <2>2 DEF First
    <2>4. \A j \in loop.i + 1 .. Len(rx) : rx'[j - 0] = rx[j]
        BY <1>a, <2>1
    <2>5. /\ Len(rx') \in Nat /\ Len(rx') = Len(rx) - 0
          /\ First' = loop.i + 1 - 0
        BY <1>a, <2>1, <2>3
    <2>6. 0 \in Nat
        OBVIOUS
    <2> QED
        BY <2>4, <2>5, <2>6
<1>2. CASE ~(loop.i < loop.n)
    <2>1. loop' = Idle /\ rx' = SubSeq(rx, loop.n + 1, Len(rx))
        BY <1>2 DEF RxFrame, ReleaseRx
    <2>2. loop.i = loop.n
        BY <1>a, <1>2
    <2>3. \A j \in loop.n + 1 .. Len(rx) : rx[j] \in Descriptor
        BY <1>a, ElementOfSeq DEF Shape
    <2>4. /\ Len(rx') = Len(rx) - loop.n
          /\ \A j \in 1 .. Len(rx) - loop.n : rx'[j] = rx[loop.n + j]
        <3>1. loop.n + 1 \in Int /\ Len(rx) \in Int
            BY <1>a
        <3>2. /\ Len(rx') = IF loop.n + 1 <= Len(rx)
                              THEN Len(rx) - (loop.n + 1) + 1 ELSE 0
              /\ \A j \in 1 .. Len(rx) - (loop.n + 1) + 1 :
                     rx'[j] = rx[loop.n + 1 + j - 1]
            BY <2>1, <2>3, <3>1, SubSeqProperties
        <3>3. Len(rx) - (loop.n + 1) + 1 = Len(rx) - loop.n
            BY <1>a
        <3>4. \A j \in 1 .. Len(rx) - loop.n : loop.n + 1 + j - 1 = loop.n + j
            BY <1>a
        <3> QED
            BY <1>a, <3>2, <3>3, <3>4
    <2>5. First' = loop.i + 1 - loop.n
        BY <1>a, <2>1, <2>2 DEF First
    <2>6. \A j \in loop.i + 1 .. Len(rx) : rx'[j - loop.n] = rx[j]
        <3> SUFFICES ASSUME NEW j \in loop.i + 1 .. Len(rx)
                     PROVE  rx'[j - loop.n] = rx[j]
            OBVIOUS
        <3>1. j - loop.n \in 1 .. Len(rx) - loop.n /\ loop.n + (j - loop.n) = j
            BY <1>a, <2>2
        <3> QED
            BY <2>4, <3>1
    <2>7. Len(rx') \in Nat
        BY <1>a, <2>4
    <2> QED
        BY <1>a, <2>4, <2>5, <2>6, <2>7
<1> QED
    BY <1>1, <1>2

\* The loop hands the frame it is done with back to the NIC, read or too
\* short, and drops its descriptor at once or with its batch.
LEMMA RefillFrames ==
    ASSUME Shape, FrameInv, RxFrame
    PROVE  FrameInv'
<1>1. /\ Len(rx) \in Nat /\ loop.i \in Nat /\ loop.n \in Nat
      /\ 1 <= loop.i /\ loop.i <= loop.n /\ loop.n <= Len(rx)
      /\ First = loop.i
    BY LenProperties DEF RxFrame, Shape, First
<1>2. rx[loop.i] \in Descriptor
    BY <1>1, ElementOfSeq DEF Shape
<1>3. /\ Len(fill) \in Nat /\ Len(fill') = Len(fill) + 1
      /\ \A j \in 1 .. Len(fill) : fill'[j] = fill[j]
      /\ fill'[Len(fill) + 1] = rx[loop.i].frame
    <2>1. rx[loop.i].frame \in Frame
        BY <1>2 DEF Descriptor
    <2>2. fill \in Seq(Frame) /\ fill' = Append(fill, rx[loop.i].frame)
        BY DEF Shape, RxFrame, Refill
    <2> QED
        BY <2>1, <2>2, AppendProperties, LenProperties
<1>4. PICK d \in Nat : /\ Len(rx') \in Nat /\ Len(rx') = Len(rx) - d
                       /\ First' = loop.i + 1 - d
                       /\ \A j \in loop.i + 1 .. Len(rx) : rx'[j - d] = rx[j]
    BY RxAdvance
<1>5. ASSUME NEW f \in Frame
      PROVE  \/ \E j \in 1 .. Len(fill') : fill'[j] = f
             \/ \E j \in First' .. Len(rx') : rx'[j].frame = f
    <2>1. ASSUME NEW j \in 1 .. Len(fill), fill[j] = f
          PROVE  \E k \in 1 .. Len(fill') : fill'[k] = f
        BY <1>3, <2>1
    <2>2. ASSUME NEW j \in First .. Len(rx), rx[j].frame = f
          PROVE  \/ \E k \in 1 .. Len(fill') : fill'[k] = f
                 \/ \E k \in First' .. Len(rx') : rx'[k].frame = f
        <3>1. CASE j = loop.i
            BY <1>3, <2>2, <3>1
        <3>2. CASE j # loop.i
            <4>1. j \in loop.i + 1 .. Len(rx)
                BY <1>1, <3>2
            <4>2. j - d \in First' .. Len(rx')
                BY <1>1, <1>4, <4>1
            <4> QED
                BY <1>4, <2>2, <4>1, <4>2
        <3> QED
            BY <3>1, <3>2
    <2> QED
        BY <2>1, <2>2 DEF FrameInv
<1>6. Len(fill') + (Len(rx') + 1 - First') = NumFrames
    <2>1. /\ Len(fill) \in Nat /\ Len(rx) \in Nat /\ loop.i \in Nat /\ d \in Nat
          /\ Len(fill) + (Len(rx) + 1 - loop.i) = NumFrames
        BY <1>1, <1>3 DEF FrameInv
    <2>2. /\ Len(fill') = Len(fill) + 1 /\ Len(rx') = Len(rx) - d
          /\ First' = loop.i + 1 - d
        BY <1>3, <1>4
    <2>3. (Len(fill) + 1) + ((Len(rx) - d) + 1 - (loop.i + 1 - d)) = NumFrames
        BY <2>1, SMTT(20)
    <2> QED
        BY <2>2, <2>3, Zenon
<1> QED
    BY <1>5, <1>6 DEF FrameInv

\* Frames change hands only between the kernel, the loop and the fill ring.
LEMMA FrameNext == Shape /\ FrameInv /\ [Next]_vars => FrameInv'
<1> SUFFICES ASSUME Shape, FrameInv, [Next]_vars
             PROVE  FrameInv'
    OBVIOUS
<1>a. ASSUME UNCHANGED <<fill, rx, loop>> PROVE FrameInv'
    BY <1>a DEF FrameInv, First
<1> USE DEF xdp
<1>1. ASSUME NEW n \in Node, Start(n)
      PROVE  FrameInv'
    BY <1>a, <1>1 DEF Start
<1>2. ASSUME NEW n \in Node, KeepAlive(n)
      PROVE  FrameInv'
    BY <1>a, <1>2 DEF KeepAlive
<1>3. ASSUME NEW n \in Node, PublishRaw(n)
      PROVE  FrameInv'
    BY <1>a, <1>3 DEF PublishRaw
<1>4. ASSUME NEW n \in Node, Stray(n)
      PROVE  FrameInv'
    BY <1>a, <1>4 DEF Stray
<1>5. ASSUME NEW n \in Node, Die(n)
      PROVE  FrameInv'
    BY <1>a, <1>5 DEF Die
<1>6. ASSUME NEW p \in net, Receive(p)
      PROVE  FrameInv'
    BY <1>a, <1>6 DEF Receive
<1>7. ASSUME NEW p \in net, KernelPass(p)
      PROVE  FrameInv'
    BY <1>a, <1>7 DEF KernelPass
<1>8. ASSUME NEW p \in net, KernelRedirect(p)
      PROVE  FrameInv'
    <2>1. Arrived(p) \in Datagram
        BY NetGrows, NetShrinks DEF Arrived, Datagram
    <2> QED
        BY <1>a, <1>8, <2>1, RedirectFrames DEF KernelRedirect
<1>9. ASSUME NEW p \in net, Lose(p)
      PROVE  FrameInv'
    BY <1>a, <1>9 DEF Lose
<1>10. CASE ReceiveTimeout
    BY <1>a, <1>10 DEF ReceiveTimeout
<1>11. CASE Poll
    <2>1. CASE "xsk" \in Ready
        <3>1. /\ loop = Idle /\ UNCHANGED <<fill, rx>>
              /\ loop' = [i |-> 1, n |-> RxBatch]
            BY <1>11, <2>1 DEF Poll
        <3>2. First = 1 /\ First' = 1
            BY <3>1 DEF First
        <3> QED
            BY <3>1, <3>2 DEF FrameInv
    <2>2. CASE "xsk" \notin Ready
        BY <1>a, <1>11, <2>2 DEF Poll
    <2> QED
        BY <2>1, <2>2
<1>12. CASE RxFrame
    BY <1>12, RefillFrames
<1>13. CASE Restart
    <2>1. fill' = SeedFrames' /\ rx' = << >> /\ loop' = Idle'
        BY <1>13 DEF Restart, SeedFrames, Idle
    <2>2. /\ Len(fill') = NumFrames /\ Len(rx') = 0 /\ First' = 1
          /\ \A j \in Frame : fill'[j] = j
        BY <2>1, RelayAssumption DEF SeedFrames, First, Frame
    <2>3. \A f \in Frame : f \in 1 .. Len(fill')
        BY <2>2 DEF Frame
    <2> QED
        BY <2>2, <2>3, RelayAssumption DEF FrameInv
<1>14. CASE Tick
    BY <1>a, <1>14 DEF Tick
<1>15. CASE UNCHANGED vars
    BY <1>a, <1>15 DEF vars
<1> QED
    BY <1>1, <1>2, <1>3, <1>4, <1>5, <1>6, <1>7, <1>8, <1>9, <1>10, <1>11,
       <1>12, <1>13, <1>14, <1>15
       DEF Next

\* No UMEM frame leaks, and none is in two places.
THEOREM FramesConservedHolds == Spec => []FramesConserved
<1>1. Shape /\ FrameInv => FramesConserved
    <2> SUFFICES ASSUME Shape, FrameInv
                 PROVE  LET held == fill \o [j \in 1 .. Cardinality(Unread) |->
                                                rx[Len(rx) + 1 - j].frame]
                        IN /\ Len(held) = NumFrames
                           /\ {held[j] : j \in 1 .. Len(held)} = 1 .. NumFrames
        BY DEF FramesConserved
    <2> DEFINE k == Len(rx) + 1 - First
               tl == [j \in 1 .. k |-> rx[Len(rx) + 1 - j].frame]
               held == fill \o tl
    <2>1. Len(rx) \in Nat /\ First \in Nat /\ 1 <= First /\ First <= Len(rx) + 1
        BY LenProperties DEF Shape, First
    <2>2. Cardinality(Unread) = k /\ k \in Nat
        <3>1. Unread = First .. Len(rx)
            BY DEF Unread, First
        <3>2. First \in Int /\ Len(rx) \in Int
            BY <2>1
        <3>3. Cardinality(First .. Len(rx))
                = IF First > Len(rx) THEN 0 ELSE Len(rx) - First + 1
            BY <3>2, FS_Interval
        <3>4. k = IF First > Len(rx) THEN 0 ELSE Len(rx) - First + 1
            BY <2>1
        <3>5. k \in Nat
            BY <2>1
        <3> QED
            BY <3>1, <3>3, <3>4, <3>5
    <2>3. \A j \in 1 .. k : /\ Len(rx) + 1 - j \in First .. Len(rx)
                            /\ Len(rx) + 1 - j \in 1 .. Len(rx)
        BY <2>1
    <2>4. \A j \in 1 .. Len(rx) : rx[j].frame \in Frame
        <3>1. \A j \in 1 .. Len(rx) : rx[j] \in Descriptor
            BY ElementOfSeq DEF Shape
        <3> QED
            BY <3>1 DEF Descriptor
    <2>5. tl \in Seq(Frame) /\ Len(tl) = k
        <3>1. tl \in [1 .. k -> Frame]
            BY <2>3, <2>4
        <3> HIDE DEF tl, k
        <3>2. tl \in Seq(Frame)
            BY <2>2, <3>1, SeqDef
        <3> QED
            BY <2>2, <3>1, <3>2, LenProperties
    <2> HIDE DEF k
    <2>6. /\ held \in Seq(Frame) /\ Len(held) = Len(fill) + k
          /\ Len(fill) \in Nat
          /\ \A j \in 1 .. Len(fill) : held[j] = fill[j]
          /\ \A j \in Len(fill) + 1 .. Len(fill) + k : held[j] = tl[j - Len(fill)]
        <3> HIDE DEF tl
        <3>1. fill \in Seq(Frame) /\ Len(fill) \in Nat
            BY LenProperties DEF Shape
        <3>2. /\ held \in Seq(Frame) /\ Len(held) = Len(fill) + Len(tl)
              /\ \A j \in 1 .. Len(fill) + Len(tl) :
                   held[j] = IF j <= Len(fill) THEN fill[j] ELSE tl[j - Len(fill)]
            BY <2>5, <3>1, ConcatProperties
        <3> HIDE DEF held
        <3> QED
            BY <2>2, <2>5, <3>1, <3>2
    <2>7. Len(held) = NumFrames
        BY <2>6 DEF FrameInv, k
    <2>8. ASSUME NEW f \in Frame
          PROVE  \E j \in 1 .. Len(held) : held[j] = f
        <3>1. CASE \E j \in 1 .. Len(fill) : fill[j] = f
            <4> HIDE DEF held
            <4> QED
                BY <2>2, <2>6, <3>1
        <3>2. ASSUME NEW j \in First .. Len(rx), rx[j].frame = f
              PROVE  \E i \in 1 .. Len(held) : held[i] = f
            <4> DEFINE i == Len(rx) + 1 - j
            <4>1. i \in 1 .. k /\ Len(rx) + 1 - i = j
                BY <2>1 DEF k
            <4>2. tl[i] = f
                BY <3>2, <4>1
            <4> HIDE DEF i, held, tl
            <4>3. /\ Len(fill) + i \in Len(fill) + 1 .. Len(fill) + k
                  /\ Len(fill) + i \in 1 .. Len(held)
                  /\ (Len(fill) + i) - Len(fill) = i
                BY <2>2, <2>6, <4>1
            <4> QED
                BY <2>6, <4>2, <4>3
        <3> QED
            BY <3>1, <3>2 DEF FrameInv
    <2>9. {held[j] : j \in 1 .. Len(held)} = 1 .. NumFrames
        <3> HIDE DEF held
        <3>1. \A j \in 1 .. Len(held) : held[j] \in Frame
            BY <2>6, ElementOfSeq
        <3> QED
            BY <2>8, <3>1 DEF Frame
    <2> QED
        BY <2>2, <2>7, <2>9
<1>2. Init => FrameInv
    BY FrameSeeded DEF Init
<1> QED
    BY <1>1, <1>2, ShapeInit, ShapeNext, FrameNext, PTL DEF Spec

-----------------------------------------------------------------------------
\* At the start, and after a restart, the group is empty.
LEMMA SweptInit == Init => SweptInv
BY RelayAssumption DEF Init, SweptInv, Expired, Absent

\* Whoever sweeps leaves nobody expired, and only time makes one so.
LEMMA SweptNext == Shape /\ SweptInv /\ [Next]_vars => SweptInv'
<1> SUFFICES ASSUME Shape, SweptInv, [Next]_vars
             PROVE  SweptInv'
    OBVIOUS
<1>a. ASSUME UNCHANGED <<swept, group>> PROVE SweptInv'
    BY <1>a DEF SweptInv, Expired
<1>b. ASSUME NEW p \in Datagram, Handle(p) PROVE SweptInv'
    BY <1>b, HandleEffect DEF SweptInv, Expired
<1> USE DEF client, xdp
<1>1. ASSUME NEW n \in Node, Start(n)
      PROVE  SweptInv'
    BY <1>a, <1>1 DEF Start
<1>2. ASSUME NEW n \in Node, KeepAlive(n)
      PROVE  SweptInv'
    BY <1>a, <1>2 DEF KeepAlive
<1>3. ASSUME NEW n \in Node, PublishRaw(n)
      PROVE  SweptInv'
    BY <1>a, <1>3 DEF PublishRaw
<1>4. ASSUME NEW n \in Node, Stray(n)
      PROVE  SweptInv'
    BY <1>a, <1>4 DEF Stray
<1>5. ASSUME NEW n \in Node, Die(n)
      PROVE  SweptInv'
    BY <1>a, <1>5 DEF Die
<1>6. ASSUME NEW p \in net, Receive(p)
      PROVE  SweptInv'
    BY <1>b, <1>6, NetShrinks DEF Receive
<1>7. ASSUME NEW p \in net, KernelPass(p)
      PROVE  SweptInv'
    BY <1>a, <1>7 DEF KernelPass
<1>8. ASSUME NEW p \in net, KernelRedirect(p)
      PROVE  SweptInv'
    BY <1>a, <1>8 DEF KernelRedirect
<1>9. ASSUME NEW p \in net, Lose(p)
      PROVE  SweptInv'
    BY <1>a, <1>9 DEF Lose
<1>10. CASE ReceiveTimeout
    <2>1. group' = Sweep(group) /\ group \in Ages
        BY <1>10 DEF ReceiveTimeout, Shape, Ages
    <2>2. \A n \in Node : ~Expired(group'[n])
        BY <2>1, SweepType
    <2> QED
        BY <2>2 DEF SweptInv, Expired
<1>11. CASE Poll
    <2>1. CASE "sock" \in Ready /\ Head(sock).kind # "empty"
        <3>1. Head(sock) \in Datagram
            BY <2>1, HeadTailProperties DEF Ready, Shape
        <3> QED
            BY <1>b, <1>11, <2>1, <3>1 DEF Poll
    <2>2. CASE ~("sock" \in Ready /\ Head(sock).kind # "empty")
        BY <1>a, <1>11, <2>2 DEF Poll
    <2> QED
        BY <2>1, <2>2
<1>12. CASE RxFrame
    <2>1. CASE Current.kind # "empty"
        <3>1. Current \in Datagram
            BY <1>12, CurrentType
        <3> QED
            BY <1>b, <1>12, <2>1, <3>1 DEF RxFrame
    <2>2. CASE Current.kind = "empty"
        BY <1>a, <1>12, <2>2 DEF RxFrame
    <2> QED
        BY <2>1, <2>2
<1>13. CASE Restart
    BY <1>13, RelayAssumption DEF Restart, SweptInv, Expired, Absent
<1>14. CASE Tick
    BY <1>14 DEF Tick, SweptInv
<1>15. CASE UNCHANGED vars
    BY <1>a, <1>15 DEF vars
<1> QED
    BY <1>1, <1>2, <1>3, <1>4, <1>5, <1>6, <1>7, <1>8, <1>9, <1>10, <1>11,
       <1>12, <1>13, <1>14, <1>15
       DEF Next

\* A forwarding step sends to members that registered within the TTL, unless
\* a server that sweeps after it forwards has not swept in this second.
LEMMA ForwardFresh ==
    ASSUME Shape, SweptInv, NEW p \in Datagram, Handle(p), NEW n \in sent'
    PROVE  ~Expired(group[n]) \/ (server # "rlcore" /\ ~swept)
<1> DEFINE g == IF server = "rlcore" THEN Sweep(group) ELSE group
<1>1. n \in Forward(g, p)
    BY DEF Handle, Apply
<1>2. n \in Node /\ g[n] # Absent
    BY <1>1 DEF Forward
<1>3. CASE server = "rlcore"
    BY <1>2, <1>3 DEF Sweep
<1>4. CASE server # "rlcore"
    BY <1>2, <1>4 DEF SweptInv, Shape
<1> QED
    BY <1>3, <1>4

\* A step forwards to nobody, to whom the step before did, or to members
\* that have not expired.
Fresh ==
  \A n \in sent' : sent' = sent \/ ~Expired(group[n])
                     \/ (server # "rlcore" /\ ~swept)

LEMMA FreshNext == Shape /\ SweptInv /\ [Next]_vars => [Fresh]_vars
<1> SUFFICES ASSUME Shape, SweptInv, [Next]_vars
             PROVE  [Fresh]_vars
    OBVIOUS
<1>a. ASSUME sent' = sent PROVE Fresh
    BY <1>a DEF Fresh
<1>b. ASSUME sent' = {} PROVE Fresh
    BY <1>b DEF Fresh
<1>c. ASSUME NEW p \in Datagram, Handle(p) PROVE Fresh
    BY <1>c, ForwardFresh DEF Fresh
<1>1. ASSUME NEW p \in net, Receive(p) PROVE Fresh
    BY <1>c, <1>1, NetShrinks DEF Receive
<1>2. CASE Poll
    <2>1. CASE "sock" \in Ready /\ Head(sock).kind # "empty"
        <3>1. Head(sock) \in Datagram
            BY <2>1, HeadTailProperties DEF Ready, Shape
        <3> QED
            BY <1>c, <1>2, <2>1, <3>1 DEF Poll
    <2>2. CASE ~("sock" \in Ready /\ Head(sock).kind # "empty")
        BY <1>a, <1>2, <2>2 DEF Poll
    <2> QED
        BY <2>1, <2>2
<1>3. CASE RxFrame
    <2>1. CASE Current.kind # "empty"
        <3>1. Current \in Datagram
            BY <1>3, CurrentType
        <3> QED
            BY <1>c, <1>3, <2>1, <3>1 DEF RxFrame
    <2>2. CASE Current.kind = "empty"
        BY <1>a, <1>3, <2>2 DEF RxFrame
    <2> QED
        BY <2>1, <2>2
<1>4. CASE ReceiveTimeout \/ Restart \/ Tick
    BY <1>b, <1>4 DEF ReceiveTimeout, Restart, Tick
<1>5. ASSUME NEW n \in Node,
             Start(n) \/ KeepAlive(n) \/ PublishRaw(n) \/ Stray(n) \/ Die(n)
      PROVE  Fresh
    BY <1>a, <1>5 DEF Start, KeepAlive, PublishRaw, Stray, Die
<1>6. ASSUME NEW p \in net, KernelPass(p) \/ KernelRedirect(p) \/ Lose(p)
      PROVE  Fresh
    BY <1>a, <1>6 DEF KernelPass, KernelRedirect, Lose
<1> QED
    BY <1>1, <1>2, <1>3, <1>4, <1>5, <1>6 DEF Next

\* A frame is forwarded only to sockets that registered within the TTL.
THEOREM GoneAreForgottenHolds == Spec => GoneAreForgotten
BY ShapeInit, ShapeNext, SweptInit, SweptNext, FreshNext, PTL
   DEF Spec, GoneAreForgotten, Fresh

-----------------------------------------------------------------------------
\* Every running node of which REGISTERs are counted keeps what is known of
\* its clients' side: only a running node sends, and time ages all alike.
LEMMA ClientInit == Init => ClientInv
BY DEF Init, ClientInv, Registers

LEMMA ClientNext == Shape /\ ClientInv /\ [Next]_vars => ClientInv'
<1> SUFFICES ASSUME Shape, ClientInv, [Next]_vars
             PROVE  ClientInv'
    OBVIOUS
<1>a. ASSUME UNCHANGED <<phase, timer>>,
             \A n \in Node : phase[n] # "on" => missed'[n] = missed[n],
             \A p \in net' : p \in net \/ p.kind # "register"
      PROVE  ClientInv'
    BY <1>a DEF ClientInv, Registers
<1>b. ASSUME NEW p \in Datagram, Handle(p)
      PROVE  \A n \in Node : phase[n] # "on" => missed'[n] = missed[n]
    BY <1>b, HandleEffect
<1>c. ASSUME NEW p \in Datagram, missed' = Lost(p)
      PROVE  \A n \in Node : phase[n] # "on" => missed'[n] = missed[n]
    BY <1>c, LostEffect, LeaseFits DEF ClientInv
<1> USE DEF client, xdp
<1>1. ASSUME NEW n \in Node, Start(n)
      PROVE  ClientInv'
    <2>1. /\ \A m \in Node : phase'[m] = "on" <=> (phase[m] = "on" \/ m = n)
          /\ timer' = timer /\ missed' = missed /\ timer[n] = 0
        BY <1>1 DEF Start, Shape, ClientInv
    <2>2. \A q \in net' : q \in net \/ q = Packet("register", n)
        BY <1>1 DEF Start
    <2>3. ASSUME NEW m \in Node, phase'[m] = "on", NEW q \in net',
                 q.kind = "register", q.src = m
          PROVE  q.age >= timer'[m]
        <3>1. q.age \in Nat /\ (q \in net => q \in Datagram)
            BY <2>2, RelayAssumption DEF Shape, Datagram, Packet
        <3>2. CASE m = n
            BY <2>1, <3>1, <3>2
        <3>3. CASE m # n
            BY <2>1, <2>2, <2>3, <3>3 DEF ClientInv, Registers, Packet
        <3> QED
            BY <3>2, <3>3
    <2> QED
        BY <2>1, <2>3 DEF ClientInv, Registers
<1>2. ASSUME NEW n \in Node, KeepAlive(n)
      PROVE  ClientInv'
    <2>1. /\ phase' = phase /\ missed' = missed /\ phase[n] = "on"
          /\ timer'[n] = 0 /\ \A m \in Node : m # n => timer'[m] = timer[m]
        BY <1>2 DEF KeepAlive, Shape
    <2>2. \A q \in net' : q \in net \/ q = Packet("register", n)
        BY <1>2 DEF KeepAlive
    <2>3. ASSUME NEW m \in Node, phase'[m] = "on", NEW q \in net',
                 q.kind = "register", q.src = m
          PROVE  q.age >= timer'[m]
        <3>1. q.age \in Nat
            BY <2>2, RelayAssumption DEF Shape, Datagram, Packet
        <3>2. CASE m = n
            BY <2>1, <3>1, <3>2
        <3>3. CASE m # n
            BY <2>1, <2>2, <2>3, <3>3 DEF ClientInv, Registers, Packet
        <3> QED
            BY <3>2, <3>3
    <2> QED
        BY <2>1, <2>3 DEF ClientInv, Registers
<1>3. ASSUME NEW n \in Node, PublishRaw(n)
      PROVE  ClientInv'
    BY <1>a, <1>3 DEF PublishRaw, Packet
<1>4. ASSUME NEW n \in Node, Stray(n)
      PROVE  ClientInv'
    BY <1>a, <1>4 DEF Stray, Packet
<1>5. ASSUME NEW n \in Node, Die(n)
      PROVE  ClientInv'
    <2>1. /\ phase'[n] = "dead" /\ timer'[n] = 0 /\ missed'[n] = Tolerated + 1
          /\ \A m \in Node : m # n => /\ phase'[m] = phase[m]
                                      /\ timer'[m] = timer[m]
                                      /\ missed'[m] = missed[m]
          /\ net' = net
        BY <1>5 DEF Die, Shape
    <2> QED
        BY <2>1 DEF ClientInv, Registers
<1>6. ASSUME NEW p \in net, Receive(p)
      PROVE  ClientInv'
    BY <1>a, <1>b, <1>6, NetShrinks DEF Receive
<1>7. ASSUME NEW p \in net, KernelPass(p)
      PROVE  ClientInv'
    BY <1>a, <1>7 DEF KernelPass
<1>8. ASSUME NEW p \in net, KernelRedirect(p)
      PROVE  ClientInv'
    <2>1. missed' = missed \/ missed' = Lost(p)
        BY <1>8 DEF KernelRedirect
    <2> QED
        BY <1>a, <1>c, <1>8, <2>1, NetShrinks DEF KernelRedirect
<1>9. ASSUME NEW p \in net, Lose(p)
      PROVE  ClientInv'
    BY <1>a, <1>c, <1>9, NetShrinks DEF Lose
<1>10. CASE ReceiveTimeout
    BY <1>a, <1>10 DEF ReceiveTimeout
<1>11. CASE Poll
    <2>1. CASE "sock" \in Ready /\ Head(sock).kind # "empty"
        <3>1. Head(sock) \in Datagram
            BY <2>1, HeadTailProperties DEF Ready, Shape
        <3> QED
            BY <1>a, <1>b, <1>11, <2>1, <3>1 DEF Poll
    <2>2. CASE ~("sock" \in Ready /\ Head(sock).kind # "empty")
        BY <1>a, <1>11, <2>2 DEF Poll
    <2> QED
        BY <2>1, <2>2
<1>12. CASE RxFrame
    <2>1. CASE Current.kind # "empty"
        <3>1. Current \in Datagram
            BY <1>12, CurrentType
        <3> QED
            BY <1>a, <1>b, <1>12, <2>1, <3>1 DEF RxFrame
    <2>2. CASE Current.kind = "empty"
        BY <1>a, <1>12, <2>2 DEF RxFrame
    <2> QED
        BY <2>1, <2>2
<1>13. CASE Restart
    <2>1. UNCHANGED <<phase, timer, net>> /\ \A m \in Node : missed'[m] = Tolerated + 1
        BY <1>13 DEF Restart
    <2> QED
        BY <2>1 DEF ClientInv, Registers
<1>14. CASE Tick
    <2>1. /\ phase' = phase /\ missed' = missed
          /\ \A m \in Node : timer'[m] = IF phase[m] = "on" THEN timer[m] + 1 ELSE 0
        BY <1>14 DEF Tick
    <2>2. ASSUME NEW m \in Node, phase[m] = "on", NEW q \in Registers(m)'
          PROVE  q.age >= timer'[m]
        <3>1. PICK r \in net : q = Aged(r)
            BY <1>14, NetAges DEF Registers
        <3>2. /\ r \in Datagram /\ q.kind = r.kind /\ q.src = r.src
              /\ q.age = r.age + 1
            BY <1>14, <3>1, NetAges, AgedType
        <3>3. r.age >= timer[m]
            BY <2>2, <3>1, <3>2 DEF ClientInv, Registers
        <3>4. r.age \in Nat /\ timer[m] \in Nat
            BY <3>2, RelayAssumption DEF Datagram, Shape
        <3> QED
            BY <2>1, <2>2, <3>2, <3>3, <3>4
    <2> QED
        BY <2>1, <2>2 DEF ClientInv
<1>15. CASE UNCHANGED vars
    BY <1>a, <1>15 DEF vars
<1> QED
    BY <1>1, <1>2, <1>3, <1>4, <1>5, <1>6, <1>7, <1>8, <1>9, <1>10, <1>11,
       <1>12, <1>13, <1>14, <1>15
       DEF Next

-----------------------------------------------------------------------------
\* REGISTERs under way can be counted, before a step and after it.
LEMMA Counts ==
    ASSUME Shape, NEW n \in Node
    PROVE  /\ IsFiniteSet(Registers(n)) /\ Cardinality(Registers(n)) \in Nat
           /\ \A a \in 0 .. MaxDelay : /\ IsFiniteSet(Older(n, a))
                                       /\ Cardinality(Older(n, a)) \in Nat
<1>1. \A S \in SUBSET net : IsFiniteSet(S) /\ Cardinality(S) \in Nat
    BY FS_Subset, FS_CardinalityType DEF Shape
<1> QED
    BY <1>1 DEF Registers, Older

LEMMA CountsNext ==
    ASSUME Shape', NEW n \in Node
    PROVE  /\ IsFiniteSet(Registers(n)')
           /\ Cardinality(Registers(n)') \in Nat
           /\ \A a \in 0 .. MaxDelay : /\ IsFiniteSet(Older(n, a)')
                                       /\ Cardinality(Older(n, a)') \in Nat
<1>1. \A S \in SUBSET net' : IsFiniteSet(S) /\ Cardinality(S) \in Nat
    BY FS_Subset, FS_CardinalityType DEF Shape
<1> QED
    BY <1>1 DEF Registers, Older

\* Losses and REGISTERs under way together only grow: the lease is kept.
LEMMA LeaseKept ==
    ASSUME Shape, Shape', NEW n \in Node, Lease(n),
           group'[n] = group[n], timer'[n] = timer[n],
           missed'[n] + Cardinality(Registers(n)')
             >= missed[n] + Cardinality(Registers(n)),
           \A a \in 0 .. MaxDelay :
             missed'[n] + Cardinality(Older(n, a)')
               >= missed[n] + Cardinality(Older(n, a))
    PROVE  Lease(n)'
<1>a. /\ group[n] \in Int /\ timer[n] \in Nat /\ missed[n] \in Nat
      /\ missed'[n] \in Nat
    BY RelayAssumption, LeaseFits DEF Shape
<1>1. ASSUME NEW a \in 0 .. MaxDelay
      PROVE  group'[n]
               <= a + (missed'[n] + 1 + Cardinality(Older(n, a)')) * Gap
    <2> DEFINE x == missed[n] + 1 + Cardinality(Older(n, a))
               y == missed'[n] + 1 + Cardinality(Older(n, a)')
    <2>1. x \in Nat /\ y \in Nat /\ x <= y
        BY <1>a, Counts, CountsNext
    <2>2. group[n] <= a + x * Gap
        BY DEF Lease
    <2> HIDE DEF x, y
    <2>3. x * Gap \in Nat /\ y * Gap \in Nat /\ x * Gap <= y * Gap
        BY <2>1, Product, LeaseFits
    <2>4. group[n] <= a + y * Gap
        BY <1>a, <2>2, <2>3, RelayAssumption
    <2> QED
        BY <2>4 DEF y
<1>2. group'[n]
        <= timer'[n] + (missed'[n] + Cardinality(Registers(n)')) * Gap
    <2> DEFINE x == missed[n] + Cardinality(Registers(n))
               y == missed'[n] + Cardinality(Registers(n)')
    <2>1. x \in Nat /\ y \in Nat /\ x <= y
        BY <1>a, Counts, CountsNext
    <2>2. group[n] <= timer[n] + x * Gap
        BY DEF Lease
    <2> HIDE DEF x, y
    <2>3. x * Gap \in Nat /\ y * Gap \in Nat /\ x * Gap <= y * Gap
        BY <2>1, Product, LeaseFits
    <2>4. group[n] <= timer[n] + y * Gap
        BY <1>a, <2>2, <2>3
    <2> QED
        BY <2>4 DEF y
<1> QED
    BY <1>1, <1>2 DEF Lease

\* A REGISTER that was handled starts a lease.
LEMMA LeaseRenewed ==
    ASSUME Shape', NEW n \in Node, group'[n] = 0
    PROVE  Lease(n)'
<1>a. timer'[n] \in Nat /\ missed'[n] \in Nat
    BY RelayAssumption, LeaseFits DEF Shape
<1>1. \A x \in Nat : x * Gap \in Nat
    BY Product, LeaseFits
<1>2. ASSUME NEW a \in 0 .. MaxDelay
      PROVE  0 <= a + (missed'[n] + 1 + Cardinality(Older(n, a)')) * Gap
    <2>1. missed'[n] + 1 + Cardinality(Older(n, a)') \in Nat
        BY <1>a, CountsNext
    <2>2. (missed'[n] + 1 + Cardinality(Older(n, a)')) * Gap \in Nat
        BY <1>1, <2>1
    <2> QED
        BY <2>2, RelayAssumption
<1>3. 0 <= timer'[n] + (missed'[n] + Cardinality(Registers(n)')) * Gap
    <2>1. missed'[n] + Cardinality(Registers(n)') \in Nat
        BY <1>a, CountsNext
    <2>2. (missed'[n] + Cardinality(Registers(n)')) * Gap \in Nat
        BY <1>1, <2>1
    <2> QED
        BY <1>a, <2>2
<1> QED
    BY <1>2, <1>3 DEF Lease

\* A lost REGISTER is no longer under way, but counted.
LEMMA LeaseLost ==
    ASSUME Shape, Shape', NEW n \in Node, Lease(n), NEW p \in net,
           net' = net \ {p}, missed' = Lost(p), missed'[n] <= Tolerated,
           group'[n] = group[n], timer'[n] = timer[n]
    PROVE  Lease(n)'
<1>a. missed[n] \in 0 .. Tolerated + 1 /\ Tolerated \in Nat /\ p \in Datagram
    BY LeaseFits, NetShrinks DEF Shape
<1>1. CASE p.kind = "register" /\ p.src = n
    <2>1. missed'[n] = missed[n] + 1
        BY <1>a, <1>1, LostEffect
    <2>2. Registers(n)' = Registers(n) \ {p}
        BY DEF Registers
    <2>3. \A a : Older(n, a)' = Older(n, a) \ {p}
        BY <2>2 DEF Older
    <2>4. Cardinality(Registers(n)') >= Cardinality(Registers(n)) - 1
        <3>1. IsFiniteSet(Registers(n)) /\ Cardinality(Registers(n)) \in Nat
            BY Counts
        <3>2. Cardinality(Registers(n) \ {p}) = Cardinality(Registers(n)) - 1
            BY <1>1, <3>1, FS_RemoveElement DEF Registers
        <3> QED
            BY <2>2, <3>1, <3>2
    <2>5. ASSUME NEW a \in 0 .. MaxDelay
          PROVE  missed'[n] + Cardinality(Older(n, a)')
                   >= missed[n] + Cardinality(Older(n, a))
        <3>1. /\ IsFiniteSet(Older(n, a)) /\ Cardinality(Older(n, a)) \in Nat
            BY Counts
        <3>2. Cardinality(Older(n, a) \ {p})
                = IF p \in Older(n, a) THEN Cardinality(Older(n, a)) - 1
                                       ELSE Cardinality(Older(n, a))
            BY <3>1, FS_RemoveElement
        <3>3. Older(n, a)' = Older(n, a) \ {p}
            BY <2>3
        <3>4. Cardinality(Older(n, a) \ {p}) >= Cardinality(Older(n, a)) - 1
            BY <3>1, <3>2
        <3> DEFINE x == Cardinality(Older(n, a))
                   y == Cardinality(Older(n, a)')
        <3>5. x \in Nat /\ y \in Nat /\ y >= x - 1
            BY <3>1, <3>3, <3>4, CountsNext
        <3> HIDE DEF x, y
        <3>6. missed'[n] + y >= missed[n] + x
            BY <1>a, <2>1, <3>5
        <3> QED
            BY <3>6 DEF x, y
    <2>6. missed'[n] + Cardinality(Registers(n)')
            >= missed[n] + Cardinality(Registers(n))
        BY <1>a, <2>1, <2>4, Counts, CountsNext
    <2> QED
        BY <2>5, <2>6, LeaseKept
<1>2. CASE ~(p.kind = "register" /\ p.src = n)
    <2>1. missed'[n] = missed[n]
        BY <1>a, <1>2, LostEffect
    <2>2. Registers(n)' = Registers(n)
        BY <1>2 DEF Registers
    <2>3. \A a : Older(n, a)' = Older(n, a)
        BY <2>2 DEF Older
    <2> QED
        BY <1>a, <2>1, <2>2, <2>3, Counts, LeaseKept
<1> QED
    BY <1>1, <1>2

\* The keepalive thread sends a REGISTER no later than a Gap after the last.
LEMMA LeaseSent ==
    ASSUME Shape, Shape', ClientInv, NEW n \in Node, Lease(n), KeepAlive(n)
    PROVE  Lease(n)'
<1> DEFINE p == Packet("register", n)
<1>a. /\ group[n] \in Int /\ timer[n] \in 0 .. Gap /\ missed[n] \in Nat
      /\ group' = group /\ missed' = missed /\ timer'[n] = 0
      /\ phase[n] = "on" /\ timer[n] >= Period
    BY RelayAssumption, LeaseFits DEF Shape, KeepAlive, Gap
<1>1. p \notin net
    BY <1>a, RelayAssumption DEF ClientInv, Registers, Packet
<1>2. /\ p.kind = "register" /\ p.src = n /\ p.age = 0
      /\ net' = net \cup {p}
    BY DEF Packet, KeepAlive
<1>3. Registers(n)' = Registers(n) \cup {p} /\ p \notin Registers(n)
    BY <1>1, <1>2 DEF Registers
<1>4. Cardinality(Registers(n)') = Cardinality(Registers(n)) + 1
    BY <1>3, Counts, FS_AddElement
<1>5. \A a \in 0 .. MaxDelay : Older(n, a)' = Older(n, a)
    BY <1>2, <1>3 DEF Older
<1>6. ASSUME NEW a \in 0 .. MaxDelay
      PROVE  group'[n]
               <= a + (missed'[n] + 1 + Cardinality(Older(n, a)')) * Gap
    BY <1>a, <1>5 DEF Lease
<1>7. group'[n]
        <= timer'[n] + (missed'[n] + Cardinality(Registers(n)')) * Gap
    <2> DEFINE x == missed[n] + Cardinality(Registers(n))
    <2>1. x \in Nat /\ group[n] <= timer[n] + x * Gap
        BY <1>a, Counts DEF Lease
    <2>2. missed'[n] + Cardinality(Registers(n)') = x + 1
        BY <1>a, <1>4, Counts
    <2> HIDE DEF x
    <2>3. x * Gap \in Nat /\ (x + 1) * Gap = x * Gap + Gap
        BY <2>1, Product, LeaseFits
    <2>4. group[n] <= (x + 1) * Gap
        BY <1>a, <2>1, <2>3, LeaseFits
    <2>5. group[n] <= 0 + (x + 1) * Gap
        BY <2>4, <2>3, LeaseFits
    <2> QED
        BY <1>a, <2>2, <2>5
<1> QED
    BY <1>6, <1>7 DEF Lease

\* A unit of time makes as many datagrams older as there are.
LEMMA AgedCount ==
    ASSUME Shape, Tick, NEW S \in SUBSET net, NEW T \in SUBSET net',
           \A p \in S : Aged(p) \in T
    PROVE  Cardinality(S) <= Cardinality(T)
<1>1. IsFiniteSet(T)
    BY NetAges, FS_Subset
<1> DEFINE f == [p \in S |-> Aged(p)]
<1>2. \A p \in S, q \in S : f[p] = f[q] => p = q
    BY NetAges, AgedInjective
<1>3. f \in Injection(S, T)
    BY <1>2 DEF Injection, IsInjective
<1> QED
    BY <1>1, <1>3, FS_Injection

\* As time passes, the lease does not: a REGISTER sent more than a units of
\* time ago was, before, sent more than a - 1 units ago.
LEMMA LeaseTick ==
    ASSUME Shape, Shape', NEW n \in Node, Lease(n), Tick,
           phase[n] = "on", group[n] \in 0 .. Ttl, missed[n] <= Tolerated
    PROVE  group'[n] \in 0 .. Ttl /\ Lease(n)'
<1>a. /\ timer[n] \in Nat /\ timer[n] + 1 <= Gap /\ timer'[n] = timer[n] + 1
      /\ missed[n] \in Nat /\ missed'[n] = missed[n]
    BY RelayAssumption, LeaseFits DEF Shape, Tick, Gap
<1>b. group'[n] = group[n] + 1
    BY RelayAssumption DEF Tick, Up, Absent
<1>c. \A q \in Registers(n) : /\ Aged(q) \in Registers(n)'
                              /\ Aged(q).age = q.age + 1 /\ q.age \in Nat
    BY NetAges, AgedType, RelayAssumption DEF Registers, Datagram
<1>1. Cardinality(Registers(n)) <= Cardinality(Registers(n)')
    <2>1. Registers(n) \in SUBSET net /\ Registers(n)' \in SUBSET net'
        BY DEF Registers
    <2> QED
        BY <1>c, <2>1, AgedCount
<1>2. ASSUME NEW a \in 1 .. MaxDelay
      PROVE  Cardinality(Older(n, a - 1)) <= Cardinality(Older(n, a)')
    <2>1. /\ Older(n, a - 1) \in SUBSET net /\ Older(n, a)' \in SUBSET net'
        BY DEF Older, Registers
    <2>2. \A q \in Older(n, a - 1) : Aged(q) \in Older(n, a)'
        BY <1>c, RelayAssumption DEF Older
    <2> QED
        BY <2>1, <2>2, AgedCount
<1>3. Cardinality(Registers(n)) <= Cardinality(Older(n, 0)')
    <2>1. Registers(n) \in SUBSET net /\ Older(n, 0)' \in SUBSET net'
        BY DEF Older, Registers
    <2>2. \A q \in Registers(n) : Aged(q) \in Older(n, 0)'
        BY <1>c, RelayAssumption DEF Older
    <2> QED
        BY <2>1, <2>2, AgedCount
<1>4. group'[n]
        <= timer'[n] + (missed'[n] + Cardinality(Registers(n)')) * Gap
    <2> DEFINE x == missed[n] + Cardinality(Registers(n))
               y == missed'[n] + Cardinality(Registers(n)')
    <2>1. x \in Nat /\ y \in Nat /\ x <= y
        BY <1>a, <1>1, Counts, CountsNext
    <2>2. group[n] <= timer[n] + x * Gap
        BY DEF Lease
    <2> HIDE DEF x, y
    <2>3. x * Gap \in Nat /\ y * Gap \in Nat /\ x * Gap <= y * Gap
        BY <2>1, Product, LeaseFits
    <2>4. group[n] + 1 <= timer[n] + 1 + y * Gap
        BY <1>a, <2>2, <2>3
    <2> QED
        BY <1>a, <1>b, <2>4 DEF y
<1>5. group'[n] <= 0 + (missed'[n] + 1 + Cardinality(Older(n, 0)')) * Gap
    <2> DEFINE x == missed[n] + Cardinality(Registers(n))
               y == missed'[n] + 1 + Cardinality(Older(n, 0)')
    <2>1. x \in Nat /\ y \in Nat /\ x + 1 <= y
        BY <1>a, <1>3, Counts, CountsNext, RelayAssumption
    <2>2. group[n] <= timer[n] + x * Gap
        BY DEF Lease
    <2> HIDE DEF x, y
    <2>3. /\ x * Gap \in Nat /\ (x + 1) * Gap = x * Gap + Gap
        BY <2>1, Product, LeaseFits
    <2>4. y * Gap \in Nat /\ (x + 1) * Gap \in Nat /\ (x + 1) * Gap <= y * Gap
        BY <2>1, Product, LeaseFits
    <2>5. group[n] + 1 <= y * Gap
        BY <1>a, <2>2, <2>3, <2>4, LeaseFits
    <2> QED
        BY <1>b, <2>4, <2>5 DEF y
<1>6. ASSUME NEW a \in 1 .. MaxDelay
      PROVE  group'[n]
               <= a + (missed'[n] + 1 + Cardinality(Older(n, a)')) * Gap
    <2>0. a - 1 \in 0 .. MaxDelay /\ a \in 0 .. MaxDelay
        BY RelayAssumption
    <2> DEFINE x == missed[n] + 1 + Cardinality(Older(n, a - 1))
               y == missed'[n] + 1 + Cardinality(Older(n, a)')
    <2>1. x \in Nat /\ y \in Nat /\ x <= y
        BY <1>a, <1>2, <2>0, Counts, CountsNext
    <2>2. group[n] <= (a - 1) + x * Gap
        BY <2>0 DEF Lease
    <2> HIDE DEF x, y
    <2>3. x * Gap \in Nat /\ y * Gap \in Nat /\ x * Gap <= y * Gap
        BY <2>1, Product, LeaseFits
    <2>4. group[n] + 1 <= a + y * Gap
        BY <2>2, <2>3, RelayAssumption
    <2> QED
        BY <1>b, <2>4 DEF y
<1>7. Lease(n)'
    <2>1. \A a \in 0 .. MaxDelay : a = 0 \/ a \in 1 .. MaxDelay
        BY RelayAssumption
    <2>2. \A a \in 0 .. MaxDelay :
            group'[n]
              <= a + (missed'[n] + 1 + Cardinality(Older(n, a)')) * Gap
        BY <1>5, <1>6, <2>1
    <2> QED
        BY <1>4, <2>2 DEF Lease
<1>8. group'[n] <= Ttl
    <2>0. \A q \in net' : q.age \in 0 .. MaxDelay
        BY DEF Shape, Datagram
    <2>1. Older(n, MaxDelay)' = {} /\ MaxDelay \in 0 .. MaxDelay
        BY <2>0, RelayAssumption DEF Older, Registers
    <2>2. Cardinality(Older(n, MaxDelay)') = 0
        BY <2>1, FS_EmptySet
    <2>3. group'[n]
            <= MaxDelay
                 + (missed'[n] + 1 + Cardinality(Older(n, MaxDelay)')) * Gap
        BY <1>7, <2>1 DEF Lease
    <2>4. missed'[n] + 1 + Cardinality(Older(n, MaxDelay)') = missed[n] + 1
        BY <1>a, <2>2
    <2>5. /\ (missed[n] + 1) * Gap \in Nat /\ (Tolerated + 1) * Gap \in Nat
          /\ (missed[n] + 1) * Gap <= (Tolerated + 1) * Gap
        BY <1>a, Product, LeaseFits
    <2> QED
        BY <1>b, <2>3, <2>4, <2>5, LeaseFits, RelayAssumption
<1> QED
    BY <1>7, <1>8, <1>b, RelayAssumption

-----------------------------------------------------------------------------
\* What waits at the server is still there after another packet has arrived.
LEMMA PendingStays ==
    ASSUME Shape, NEW n \in Node, Pending(n), loop' = loop,
           \/ sock' = sock
           \/ \E d \in Datagram : sock' = Append(sock, d),
           \/ rx' = rx
           \/ \E e \in Descriptor : rx' = Append(rx, e)
    PROVE  Pending(n)'
<1>1. /\ Len(sock) \in Nat /\ Len(sock') \in Nat /\ Len(sock) <= Len(sock')
      /\ \A j \in 1 .. Len(sock) : sock'[j] = sock[j]
    BY AppendProperties, LenProperties DEF Shape
<1>2. /\ Len(rx) \in Nat /\ Len(rx') \in Nat /\ Len(rx) <= Len(rx')
      /\ \A j \in 1 .. Len(rx) : rx'[j] = rx[j]
    BY AppendProperties, LenProperties DEF Shape
<1>3. First' = First /\ First \in Nat /\ First >= 1
    BY DEF First, Shape
<1>4. CASE \E j \in 1 .. Len(sock) : sock[j] = Packet("register", n)
    <2>1. PICK j \in 1 .. Len(sock) : sock[j] = Packet("register", n)
        BY <1>4
    <2>2. j \in 1 .. Len(sock') /\ sock'[j] = Packet("register", n)'
        BY <1>1, <2>1 DEF Packet
    <2> QED
        BY <2>2 DEF Pending
<1>5. CASE \E j \in First .. Len(rx) : rx[j].packet = Packet("register", n)
    <2>1. PICK j \in First .. Len(rx) : rx[j].packet = Packet("register", n)
        BY <1>5
    <2>2. j \in First' .. Len(rx') /\ rx'[j].packet = Packet("register", n)'
        BY <1>2, <1>3, <2>1 DEF Packet
    <2> QED
        BY <2>2 DEF Pending
<1> QED
    BY <1>4, <1>5 DEF Pending

\* A REGISTER that arrives is pending.
LEMMA PendingArrives ==
    ASSUME Shape, NEW p \in net, p.kind = "register",
           \/ sock' = Append(sock, Arrived(p))
           \/ /\ rx' = Append(rx, [frame |-> Head(fill), packet |-> Arrived(p)])
              /\ fill # << >> /\ loop' = loop
    PROVE  Pending(p.src)'
<1>1. /\ p.src \in Node /\ Arrived(p) = Packet("register", p.src)
      /\ Arrived(p) \in Datagram
    BY NetShrinks, NetGrows DEF Arrived, Datagram
<1>2. CASE sock' = Append(sock, Arrived(p))
    <2>1. /\ Len(sock) \in Nat /\ Len(sock') = Len(sock) + 1
          /\ sock'[Len(sock) + 1] = Arrived(p)
        BY <1>1, <1>2, AppendProperties, LenProperties DEF Shape
    <2>2. Len(sock) + 1 \in 1 .. Len(sock')
        BY <2>1
    <2> QED
        BY <1>1, <2>1, <2>2 DEF Pending, Packet
<1>3. CASE /\ rx' = Append(rx, [frame |-> Head(fill), packet |-> Arrived(p)])
           /\ fill # << >> /\ loop' = loop
    <2> DEFINE e == [frame |-> Head(fill), packet |-> Arrived(p)]
    <2>1. e \in Descriptor
        BY <1>1, <1>3, HeadTailProperties DEF Shape, Descriptor
    <2>2. e.packet = Packet("register", p.src)
        BY <1>1
    <2> HIDE DEF e
    <2>3. /\ Len(rx) \in Nat /\ Len(rx') = Len(rx) + 1
          /\ rx'[Len(rx) + 1] = e
        BY <1>3, <2>1, AppendProperties, LenProperties DEF Shape, e
    <2>4. First' \in Nat /\ First' <= Len(rx) + 1
        BY <1>3, <2>3 DEF First, Shape
    <2>5. Len(rx) + 1 \in First' .. Len(rx')
        BY <2>3, <2>4
    <2> QED
        BY <2>2, <2>3, <2>5 DEF Pending, Packet
<1> QED
    BY <1>2, <1>3

\* The poll loop handles the packet at the head of the plain socket; what is
\* behind it stays.
LEMMA PendingPoll ==
    ASSUME Shape, NEW n \in Node, Pending(n), Poll
    PROVE  \/ Pending(n)'
           \/ /\ sock # << >> /\ Head(sock) \in Datagram
              /\ Head(sock).kind = "register" /\ Head(sock).src = n
<1>1. /\ Len(sock) \in Nat /\ Len(rx) \in Nat /\ rx' = rx
      /\ loop = Idle
    BY LenProperties DEF Shape, Poll
<1>2. First = 1 /\ First' = 1
    BY <1>1 DEF First, Poll, Idle
<1>3. CASE \E j \in First .. Len(rx) : rx[j].packet = Packet("register", n)
    BY <1>1, <1>2, <1>3 DEF Pending, Packet
<1>4. CASE \E j \in 1 .. Len(sock) : sock[j] = Packet("register", n)
    <2>1. PICK j \in 1 .. Len(sock) : sock[j] = Packet("register", n)
        BY <1>4
    <2>2. sock # << >>
        BY <1>1, <2>1, EmptySeq
    <2>3. /\ Head(sock) = sock[1] /\ Head(sock) \in Datagram
          /\ Tail(sock) \in Seq(Datagram) /\ Len(Tail(sock)) = Len(sock) - 1
          /\ \A k \in 1 .. Len(Tail(sock)) : Tail(sock)[k] = sock[k + 1]
        BY <2>2, HeadTailProperties DEF Shape
    <2>4. sock' = Tail(sock)
        BY <2>2 DEF Poll, Ready
    <2>5. CASE j = 1
        <3>1. Head(sock).kind = "register" /\ Head(sock).src = n
            BY <2>1, <2>3, <2>5 DEF Packet
        <3> QED
            BY <2>2, <2>3, <3>1
    <2>6. CASE j # 1
        <3>1. /\ j - 1 \in 1 .. Len(sock') /\ j - 1 + 1 = j
            BY <1>1, <2>3, <2>4, <2>6
        <3>2. sock'[j - 1] = Packet("register", n)
            BY <2>1, <2>3, <2>4, <3>1
        <3> QED
            BY <3>1, <3>2 DEF Pending, Packet
    <2> QED
        BY <2>5, <2>6
<1> QED
    BY <1>3, <1>4 DEF Pending

\* The loop handles the packet of the current descriptor; the others stay.
LEMMA PendingRxFrame ==
    ASSUME Shape, NEW n \in Node, Pending(n), RxFrame
    PROVE  \/ Pending(n)'
           \/ Current.kind = "register" /\ Current.src = n
<1>1. /\ Len(rx) \in Nat /\ loop.i \in Nat /\ First = loop.i
    BY LenProperties DEF RxFrame, Shape, First
<1>2. CASE \E j \in 1 .. Len(sock) : sock[j] = Packet("register", n)
    BY <1>2 DEF RxFrame, Pending, Packet
<1>3. CASE \E j \in First .. Len(rx) : rx[j].packet = Packet("register", n)
    <2>1. PICK j \in First .. Len(rx) : rx[j].packet = Packet("register", n)
        BY <1>3
    <2>2. CASE j = loop.i
        BY <2>1, <2>2 DEF Current, Packet
    <2>3. CASE j # loop.i
        <3>1. PICK d \in Nat :
                /\ Len(rx') \in Nat /\ Len(rx') = Len(rx) - d
                /\ First' = loop.i + 1 - d
                /\ \A k \in loop.i + 1 .. Len(rx) : rx'[k - d] = rx[k]
            BY RxAdvance
        <3>2. j \in loop.i + 1 .. Len(rx)
            BY <1>1, <2>3
        <3>3. j - d \in First' .. Len(rx')
            BY <1>1, <3>1, <3>2
        <3>4. rx'[j - d].packet = Packet("register", n)
            BY <2>1, <3>1, <3>2
        <3> QED
            BY <3>3, <3>4 DEF Pending, Packet
    <2> QED
        BY <2>2, <2>3
<1> QED
    BY <1>2, <1>3 DEF Pending

-----------------------------------------------------------------------------
\* At the start no REGISTER of a running node is counted.
LEMMA LeaseInit == Init => LeaseInv
BY DEF Init, LeaseInv

\* Every step keeps the lease, renews it or has its renewal pending.
LEMMA LeaseNext ==
    Shape /\ Shape' /\ ClientInv /\ LeaseInv /\ [Next]_vars => LeaseInv'
<1> SUFFICES ASSUME Shape, Shape', ClientInv, LeaseInv, [Next]_vars,
                    NEW m \in Node, phase'[m] = "on", missed'[m] <= Tolerated
             PROVE  group'[m] \in 0 .. Ttl /\ (Pending(m)' \/ Lease(m)')
    BY DEF LeaseInv
<1> DEFINE Kept == group'[m] \in 0 .. Ttl /\ (Pending(m)' \/ Lease(m)')
<1> HIDE DEF Kept
<1>0. Ttl \in Nat /\ Tolerated \in Nat /\ missed[m] \in 0 .. Tolerated + 1
    BY LeaseFits, RelayAssumption DEF Shape
\* The node itself, its losses and its REGISTERs are not concerned.
<1>a. ASSUME phase[m] = "on", missed'[m] = missed[m], group'[m] = group[m],
             timer'[m] = timer[m], Registers(m)' = Registers(m),
             Pending(m) => Pending(m)'
      PROVE  Kept
    <2>1. group[m] \in 0 .. Ttl /\ (Pending(m) \/ Lease(m))
        BY <1>a DEF LeaseInv
    <2>2. \A a : Older(m, a)' = Older(m, a)
        BY <1>a DEF Older
    <2>3. Lease(m) => Lease(m)'
        BY <1>0, <1>a, <2>2, Counts, LeaseKept
    <2> QED
        BY <1>a, <2>1, <2>3 DEF Kept
\* A REGISTER of the node is handled.
<1>b. ASSUME group'[m] = 0 PROVE Kept
    BY <1>0, <1>b, LeaseRenewed DEF Kept
\* A packet is handled: a REGISTER of the node, or none of its business.
<1>c. ASSUME NEW p \in Datagram, Handle(p), phase[m] = "on",
             timer' = timer,
             ~(p.kind = "register" /\ p.src = m)
               => /\ Registers(m)' = Registers(m)
                  /\ Pending(m) => Pending(m)'
      PROVE  Kept
    <2>1. CASE p.kind = "register" /\ p.src = m
        BY <1>b, <1>c, <2>1, HandleEffect
    <2>2. CASE ~(p.kind = "register" /\ p.src = m)
        <3>1. missed'[m] = missed[m]
            BY <1>c, <2>2, HandleEffect
        <3>2. group[m] \in 0 .. Ttl
            BY <1>c, <3>1 DEF LeaseInv
        <3>3. ~Expired(group[m])
            BY <1>0, <3>2 DEF Expired
        <3>4. group'[m] = group[m]
            BY <1>c, <2>2, <3>3, HandleEffect
        <3> QED
            BY <1>a, <1>c, <2>2, <3>1, <3>4
    <2> QED
        BY <2>1, <2>2
\* A datagram is lost.
<1>d. ASSUME NEW p \in net, net' = net \ {p}, missed' = Lost(p),
             UNCHANGED <<phase, timer, group, sock, rx, loop>>
      PROVE  Kept
    <2>1. missed[m] <= Tolerated
        BY <1>0, <1>d, LostEffect, NetShrinks
    <2>2. group[m] \in 0 .. Ttl /\ (Pending(m) \/ Lease(m))
        BY <1>d, <2>1 DEF LeaseInv
    <2>3. Pending(m) => Pending(m)'
        BY <1>d DEF Pending, First, Packet
    <2>4. Lease(m) => Lease(m)'
        BY <1>d, LeaseLost
    <2> QED
        BY <1>d, <2>2, <2>3, <2>4 DEF Kept
<1>e. ASSUME UNCHANGED <<sock, rx, loop>>
      PROVE  Pending(m) => Pending(m)'
    BY <1>e DEF Pending, First, Packet
<1> USE DEF client, xdp
<1>1. ASSUME NEW n \in Node, Start(n)
      PROVE  Kept
    <2>1. m # n
        BY <1>0, <1>1 DEF Start, ClientInv
    <2>2. phase[m] = "on" /\ Registers(m)' = Registers(m)
        BY <1>1, <2>1 DEF Start, Shape, Registers, Packet
    <2> QED
        BY <1>a, <1>e, <1>1, <2>2 DEF Start
<1>2. ASSUME NEW n \in Node, KeepAlive(n)
      PROVE  Kept
    <2>1. phase[m] = "on" /\ missed' = missed /\ group' = group
        BY <1>2 DEF KeepAlive
    <2>2. CASE m = n
        <3>1. group[m] \in 0 .. Ttl /\ (Pending(m) \/ Lease(m))
            BY <2>1 DEF LeaseInv
        <3>2. Lease(m) => Lease(m)'
            BY <1>2, <2>2, LeaseSent
        <3>3. Pending(m) => Pending(m)'
            BY <1>e, <1>2 DEF KeepAlive
        <3> QED
            BY <2>1, <3>1, <3>2, <3>3 DEF Kept
    <2>3. CASE m # n
        <3>1. Registers(m)' = Registers(m) /\ timer'[m] = timer[m]
            BY <1>2, <2>3 DEF KeepAlive, Registers, Packet, Shape
        <3> QED
            BY <1>a, <1>e, <1>2, <2>1, <3>1 DEF KeepAlive
    <2> QED
        BY <2>2, <2>3
<1>3. ASSUME NEW n \in Node, PublishRaw(n)
      PROVE  Kept
    <2>1. Registers(m)' = Registers(m)
        BY <1>3 DEF PublishRaw, Registers, Packet
    <2> QED
        BY <1>a, <1>e, <1>3, <2>1 DEF PublishRaw
<1>4. ASSUME NEW n \in Node, Stray(n)
      PROVE  Kept
    <2>1. Registers(m)' = Registers(m)
        BY <1>4 DEF Stray, Registers, Packet
    <2> QED
        BY <1>a, <1>e, <1>4, <2>1 DEF Stray
<1>5. ASSUME NEW n \in Node, Die(n)
      PROVE  Kept
    <2>1. m # n /\ phase[m] = "on"
        BY <1>5 DEF Die, Shape
    <2>2. /\ missed'[m] = missed[m] /\ timer'[m] = timer[m]
          /\ Registers(m)' = Registers(m)
        BY <1>5, <2>1 DEF Die, Shape, Registers
    <2> QED
        BY <1>a, <1>e, <1>5, <2>1, <2>2 DEF Die
<1>6. ASSUME NEW p \in net, Receive(p)
      PROVE  Kept
    <2>1. ~(p.kind = "register" /\ p.src = m)
            => Registers(m)' = Registers(m)
        BY <1>6 DEF Receive, Registers
    <2>2. Handle(p) /\ phase[m] = "on" /\ timer' = timer /\ p \in Datagram
        BY <1>6, NetShrinks DEF Receive
    <2>3. Pending(m) => Pending(m)'
        BY <1>e, <1>6 DEF Receive
    <2> QED
        BY <1>c, <2>1, <2>2, <2>3
<1>7. ASSUME NEW p \in net, KernelPass(p)
      PROVE  Kept
    <2>1. /\ UNCHANGED <<phase, timer, group, missed, rx, loop>>
          /\ sock' = Append(sock, Arrived(p)) /\ net' = net \ {p}
        BY <1>7 DEF KernelPass
    <2>2. Arrived(p) \in Datagram
        BY NetShrinks, NetGrows DEF Arrived, Datagram
    <2>3. Pending(m) => Pending(m)'
        BY <2>1, <2>2, PendingStays
    <2>4. CASE p.kind = "register" /\ p.src = m
        <3>1. Pending(m)'
            BY <2>1, <2>4, PendingArrives
        <3> QED
            BY <2>1, <3>1 DEF Kept, LeaseInv
    <2>5. CASE ~(p.kind = "register" /\ p.src = m)
        <3>1. Registers(m)' = Registers(m)
            BY <2>1, <2>5 DEF Registers
        <3> QED
            BY <1>a, <2>1, <2>3, <3>1
    <2> QED
        BY <2>4, <2>5
<1>8. ASSUME NEW p \in net, KernelRedirect(p)
      PROVE  Kept
    <2>1. UNCHANGED <<phase, timer, group, sock, loop>> /\ net' = net \ {p}
        BY <1>8 DEF KernelRedirect
    <2>2. CASE rx' = rx /\ missed' = Lost(p)
        BY <1>d, <2>1, <2>2
    <2>3. CASE /\ fill # << >> /\ missed' = missed
               /\ rx' = Append(rx, [frame |-> Head(fill),
                                    packet |-> Arrived(p)])
        <3>1. [frame |-> Head(fill), packet |-> Arrived(p)] \in Descriptor
            BY <2>3, NetShrinks, NetGrows, HeadTailProperties
               DEF Arrived, Datagram, Descriptor, Shape
        <3>2. Pending(m) => Pending(m)'
            BY <2>1, <2>3, <3>1, PendingStays
        <3>3. CASE p.kind = "register" /\ p.src = m
            <4>1. Pending(m)'
                BY <2>1, <2>3, <3>3, PendingArrives
            <4> QED
                BY <2>1, <2>3, <4>1 DEF Kept, LeaseInv
        <3>4. CASE ~(p.kind = "register" /\ p.src = m)
            <4>1. Registers(m)' = Registers(m)
                BY <2>1, <3>4 DEF Registers
            <4> QED
                BY <1>a, <2>1, <2>3, <3>2, <4>1
        <3> QED
            BY <3>3, <3>4
    <2> QED
        BY <1>8, <2>2, <2>3 DEF KernelRedirect
<1>9. ASSUME NEW p \in net, Lose(p)
      PROVE  Kept
    BY <1>d, <1>9 DEF Lose
<1>10. ASSUME ReceiveTimeout PROVE Kept
    <2>1. /\ UNCHANGED <<phase, timer, net, missed, sock, rx, loop>>
          /\ group' = Sweep(group) /\ group \in Ages
        BY <1>10 DEF ReceiveTimeout, Shape, Ages
    <2>2. ~Expired(group[m])
        BY <1>0, <2>1 DEF LeaseInv, Expired
    <2>3. group'[m] = group[m]
        BY <2>1, <2>2, SweepType
    <2>4. Registers(m)' = Registers(m)
        BY <2>1 DEF Registers
    <2> QED
        BY <1>a, <1>e, <2>1, <2>3, <2>4
<1>11. ASSUME Poll PROVE Kept
    <2>1. UNCHANGED <<phase, timer, net>> /\ phase[m] = "on"
        BY <1>11 DEF Poll
    <2>2. Registers(m)' = Registers(m)
        BY <2>1 DEF Registers
    <2>3. CASE "sock" \in Ready /\ Head(sock).kind # "empty"
        <3>1. Head(sock) \in Datagram
            BY <2>3, HeadTailProperties DEF Ready, Shape
        <3>2. Handle(Head(sock))
            BY <1>11, <2>3 DEF Poll
        <3>3. ~(Head(sock).kind = "register" /\ Head(sock).src = m)
                => (Pending(m) => Pending(m)')
            BY <1>11, PendingPoll
        <3> QED
            BY <1>c, <2>1, <2>2, <3>1, <3>2, <3>3
    <2>4. CASE ~("sock" \in Ready /\ Head(sock).kind # "empty")
        <3>1. UNCHANGED <<group, missed>>
            BY <1>11, <2>4 DEF Poll
        <3>2. sock # << >> => Head(sock).kind # "register"
            BY <2>4 DEF Ready
        <3>3. Pending(m) => Pending(m)'
            BY <1>11, <3>2, PendingPoll
        <3> QED
            BY <1>a, <2>1, <2>2, <3>1, <3>3
    <2> QED
        BY <2>3, <2>4
<1>12. ASSUME RxFrame PROVE Kept
    <2>1. UNCHANGED <<phase, timer, net>> /\ phase[m] = "on"
        BY <1>12 DEF RxFrame
    <2>2. Registers(m)' = Registers(m)
        BY <2>1 DEF Registers
    <2>3. ~(Current.kind = "register" /\ Current.src = m)
            => (Pending(m) => Pending(m)')
        BY <1>12, PendingRxFrame
    <2>4. CASE Current.kind # "empty"
        <3>1. Current \in Datagram /\ Handle(Current)
            BY <1>12, <2>4, CurrentType DEF RxFrame
        <3> QED
            BY <1>c, <2>1, <2>2, <2>3, <3>1
    <2>5. CASE Current.kind = "empty"
        <3>1. UNCHANGED <<group, missed>>
            BY <1>12, <2>5 DEF RxFrame
        <3> QED
            BY <1>a, <2>1, <2>2, <2>3, <2>5, <3>1
    <2> QED
        BY <2>4, <2>5
<1>13. ASSUME Restart PROVE Kept
    <2>1. missed'[m] = Tolerated + 1
        BY <1>13 DEF Restart
    <2> QED
        BY <1>0, <2>1
<1>14. ASSUME Tick PROVE Kept
    <2>1. phase[m] = "on" /\ missed' = missed
          /\ sock = << >> /\ rx = << >> /\ loop = Idle
        BY <1>14 DEF Tick
    <2>2. ~Pending(m)
        BY <2>1, EmptySeq DEF Pending, First
    <2>3. group[m] \in 0 .. Ttl /\ Lease(m)
        BY <2>1, <2>2 DEF LeaseInv
    <2> QED
        BY <1>14, <2>1, <2>3, LeaseTick DEF Kept
<1>15. ASSUME UNCHANGED vars PROVE Kept
    BY <1>a, <1>e, <1>15 DEF vars, Registers
<1> QED
    BY <1>1, <1>2, <1>3, <1>4, <1>5, <1>6, <1>7, <1>8, <1>9, <1>10, <1>11,
       <1>12, <1>13, <1>14, <1>15
       DEF Next, Kept

\* A running node of which no more than Tolerated REGISTERs in a row were
\* lost is in the group whenever a frame is forwarded, however late its
\* thread and its datagrams.
THEOREM KeptAliveHolds == Spec => []KeptAlive
<1>1. Shape /\ LeaseInv => KeptAlive
    <2> SUFFICES ASSUME Shape, LeaseInv, NEW n \in Node,
                        phase[n] = "on", missed[n] <= Tolerated
                 PROVE  Sweep(group)[n] # Absent
        BY DEF KeptAlive
    <2>1. group \in Ages /\ group[n] \in 0 .. Ttl
        BY DEF Shape, Ages, LeaseInv
    <2>2. ~Expired(group[n])
        BY <2>1, RelayAssumption DEF Expired
    <2> QED
        BY <2>1, <2>2, SweepType DEF Absent
<1> QED
    BY <1>1, ShapeInit, ShapeNext, ClientInit, ClientNext, LeaseInit,
       LeaseNext, PTL
       DEF Spec
=============================================================================
