--------------------------- MODULE UdpDedupProofs ---------------------------
(***************************************************************************)
(* Proofs about UdpDedup for every window size, counter width, set of      *)
(* paths and any number of publishers.                                     *)
(*                                                                         *)
(* The invariant says what the circular window holds: slot j has the       *)
(* number of the Position(j)-th delivered message, and the positions of    *)
(* the slots are exactly the last WindowSize deliveries.  A late copy of a *)
(* message delivered fewer than WindowSize deliveries ago is therefore     *)
(* found, and a hit is a message that was delivered.                       *)
(***************************************************************************)
EXTENDS UdpDedup, TLAPS, SequenceTheorems

Slots == 0 .. WindowSize - 1

\* Which delivery slot j of the window remembers; below 1 when none.
PositionAt(j, nxt, n) ==
    IF j < nxt THEN (n - nxt) + j + 1 ELSE ((n - WindowSize) - nxt) + j + 1
Position(j) == PositionAt(j, next, Len(delivered))

WindowInv ==
    \A j \in Slots :
        /\ valid[j] <=> Position(j) >= 1
        /\ Position(j) >= 1 => seen[j] = sent[delivered[Position(j)]].seq

IInv == TypeOK /\ WindowInv

-----------------------------------------------------------------------------
\* The slots remember the last WindowSize deliveries, and no others.
LEMMA WindowCovers ==
    ASSUME NEW nxt \in Slots, NEW n \in Nat
    PROVE  /\ \A j \in Slots : PositionAt(j, nxt, n) \in Int
                               /\ PositionAt(j, nxt, n) <= n
           /\ \A k \in 1 .. n : n - k < WindowSize
                => \E j \in Slots : PositionAt(j, nxt, n) = k
<1>1. \A j \in Slots : PositionAt(j, nxt, n) \in Int
                       /\ PositionAt(j, nxt, n) <= n
    BY WindowAssumption, SMT DEF Slots, PositionAt
<1>2. ASSUME NEW k \in 1 .. n, n - k < WindowSize
      PROVE  \E j \in Slots : PositionAt(j, nxt, n) = k
    <2> DEFINE j == IF k > n - nxt THEN (k - n) + nxt - 1
                                   ELSE (k - n) + WindowSize + nxt - 1
    <2>1. j \in Slots
        BY <1>2, WindowAssumption, SMT DEF Slots
    <2>2. PositionAt(j, nxt, n) = k
        BY <1>2, WindowAssumption, SMT DEF Slots, PositionAt
    <2> QED
        BY <2>1, <2>2
<1> QED
    BY <1>1, <1>2

\* Accepting one more message moves the window by one.
LEMMA WindowMoves ==
    ASSUME NEW nxt \in Slots, NEW n \in Nat
    PROVE  LET nn == (nxt + 1) % WindowSize
           IN  /\ nn \in Slots
               /\ PositionAt(nxt, nn, n + 1) = n + 1
               /\ \A j \in Slots : j # nxt =>
                     PositionAt(j, nn, n + 1) = PositionAt(j, nxt, n)
<1> DEFINE nn == (nxt + 1) % WindowSize
<1>1. nn = IF nxt + 1 = WindowSize THEN 0 ELSE nxt + 1
    BY WindowAssumption, SMT DEF Slots
<1> HIDE DEF nn
<1>2. /\ nn \in Slots
      /\ PositionAt(nxt, nn, n + 1) = n + 1
      /\ \A j \in Slots : j # nxt =>
            PositionAt(j, nn, n + 1) = PositionAt(j, nxt, n)
    BY <1>1, WindowAssumption, SMT DEF Slots, PositionAt
<1> QED
    BY <1>2 DEF nn

-----------------------------------------------------------------------------
Sent == [src : Publishers, seq : 0 .. SeqMod - 1]

\* The initial window is empty.
LEMMA InitIInv == Init => IInv
<1> SUFFICES ASSUME Init PROVE IInv
    OBVIOUS
<1>1. TypeOK
    BY WindowAssumption, SeqModAssumption, BoundAssumption DEF Init, TypeOK
<1>2. WindowInv
    BY WindowAssumption DEF Init, WindowInv, Slots, Position, PositionAt
<1> QED
    BY <1>1, <1>2 DEF IInv

\* The counter stays a counter.
LEMMA CounterStays ==
    ASSUME NEW x \in 0 .. SeqMod - 1, NEW n \in Nat
    PROVE  (x + n) % SeqMod \in 0 .. SeqMod - 1
<1>1. x + n \in Nat /\ SeqMod \in Nat /\ SeqMod > 0
    BY SeqModAssumption
<1> QED
    BY <1>1, SMT

\* Publishing changes no message already sent and no part of the window.
LEMMA PublishKeepsIInv ==
    ASSUME IInv, NEW p \in Publishers, Publish(p)
    PROVE  IInv'
<1> DEFINE m == [src |-> p, seq |-> seq_counter[p]]
<1>1. /\ sent \in Seq(Sent) /\ m \in Sent
      /\ seq_counter \in [Publishers -> 0 .. SeqMod - 1]
    BY DEF IInv, TypeOK, Sent
<1>2. /\ sent' \in Seq(Sent)
      /\ Len(sent') = Len(sent) + 1
      /\ \A i \in 1 .. Len(sent) : sent'[i] = sent[i]
    BY <1>1, AppendProperties DEF Publish
<1>3. Len(sent) \in Nat /\ 1 .. Len(sent) \subseteq 1 .. Len(sent')
    BY <1>1, <1>2
<1>4. seq_counter' \in [Publishers -> 0 .. SeqMod - 1]
    <2>1. (seq_counter[p] + 1) % SeqMod \in 0 .. SeqMod - 1
        BY <1>1, CounterStays
    <2> QED
        BY <1>1, <2>1 DEF Publish
<1>5. net' \subseteq (1 .. Len(sent')) \X Paths
    <2>1. net \subseteq (1 .. Len(sent)) \X Paths
        BY DEF IInv, TypeOK
    <2>2. Len(sent') \in 1 .. Len(sent')
        BY <1>1, <1>2
    <2> QED
        BY <1>3, <2>1, <2>2 DEF Publish
<1>6. /\ delivered' = delivered /\ delivered \in Seq(1 .. Len(sent))
      /\ dropped' = dropped /\ UNCHANGED <<seen, valid, next, events>>
    BY DEF IInv, TypeOK, Publish, window
<1>7. delivered' \in Seq(1 .. Len(sent'))
    <2>1. \A k \in 1 .. Len(delivered) : delivered[k] \in 1 .. Len(sent')
        BY <1>3, <1>6
    <2> QED
        BY <1>6, <2>1, SeqDef
<1>8. TypeOK'
    BY <1>2, <1>3, <1>4, <1>5, <1>6, <1>7 DEF IInv, TypeOK, Sent
<1>9. WindowInv'
    <2>1. ASSUME NEW j \in Slots, Position(j) >= 1
          PROVE  sent'[delivered[Position(j)]] = sent[delivered[Position(j)]]
        <3>1. Len(delivered) \in Nat /\ next \in Slots
            BY <1>6 DEF IInv, TypeOK, Slots
        <3>2. Position(j) \in 1 .. Len(delivered)
            BY <2>1, <3>1, WindowCovers DEF Position
        <3>3. delivered[Position(j)] \in 1 .. Len(sent)
            BY <1>6, <3>2
        <3> QED
            BY <1>2, <3>3
    <2>2. ASSUME NEW j \in Slots
          PROVE  Position(j)' = Position(j)
        BY <1>6 DEF Position, PositionAt
    <2> QED
        BY <1>6, <2>1, <2>2 DEF IInv, WindowInv
<1> QED
    BY <1>8, <1>9 DEF IInv

\* Steps that touch neither the histories nor the window.
LEMMA QuietKeepsIInv ==
    ASSUME IInv, UNCHANGED <<sent, window, delivered>>,
           seq_counter' \in [Publishers -> 0 .. SeqMod - 1],
           net' \subseteq net, dropped' \subseteq 1 .. Len(sent),
           events' \in 0 .. MaxEvents
    PROVE  IInv'
<1>1. TypeOK'
    BY DEF IInv, TypeOK, window
<1>2. WindowInv'
    BY DEF IInv, WindowInv, Position, PositionAt, window
<1> QED
    BY <1>1, <1>2 DEF IInv

\* Accepting a copy remembers its number in place of the oldest.
LEMMA AcceptKeepsIInv ==
    ASSUME IInv, NEW m \in 1 .. Len(sent),
           Remember(sent[m].seq), delivered' = Append(delivered, m),
           net' \subseteq net,
           UNCHANGED <<seq_counter, sent, dropped, events>>
    PROVE  IInv'
<1> DEFINE n == Len(delivered)
<1>0. /\ delivered \in Seq(1 .. Len(sent)) /\ next \in Slots
      /\ sent \in Seq(Sent)
      /\ seen \in [Slots -> 0 .. SeqMod - 1]
      /\ valid \in [Slots -> BOOLEAN]
    BY DEF IInv, TypeOK, Slots, Sent
<1>1. /\ delivered \in Seq(1 .. Len(sent)) /\ n \in Nat /\ next \in Slots
      /\ sent \in Seq(Sent) /\ sent[m].seq \in 0 .. SeqMod - 1
      /\ seen \in [Slots -> 0 .. SeqMod - 1]
      /\ valid \in [Slots -> BOOLEAN]
    <2>1. sent[m] \in Sent
        BY <1>0
    <2>2. sent[m].seq \in 0 .. SeqMod - 1
        BY <2>1 DEF Sent
    <2> QED
        BY <1>0, <2>2
<1>2. /\ delivered' \in Seq(1 .. Len(sent))
      /\ Len(delivered') = n + 1
      /\ delivered'[n + 1] = m
      /\ \A k \in 1 .. n : delivered'[k] = delivered[k]
    BY <1>1, AppendProperties
<1>3. /\ next' \in Slots
      /\ PositionAt(next, next', n + 1) = n + 1
      /\ \A j \in Slots : j # next =>
            PositionAt(j, next', n + 1) = PositionAt(j, next, n)
    BY <1>1, WindowMoves DEF Remember
<1>4. TypeOK'
    <2>1. /\ seen' \in [Slots -> 0 .. SeqMod - 1]
          /\ valid' \in [Slots -> BOOLEAN]
        BY <1>1 DEF Remember
    <2>2. /\ UNCHANGED <<seq_counter, sent, dropped, events>>
          /\ net' \subseteq (1 .. Len(sent)) \X Paths
        BY DEF IInv, TypeOK
    <2> QED
        BY <1>2, <1>3, <2>1, <2>2 DEF IInv, TypeOK, Slots
<1>5. ASSUME NEW j \in Slots
      PROVE  /\ valid'[j] <=> Position(j)' >= 1
             /\ Position(j)' >= 1 => seen'[j] = sent'[delivered'[Position(j)']].seq
    <2>1. Position(j)' = PositionAt(j, next', n + 1)
        BY <1>2 DEF Position, PositionAt
    <2>2. CASE j = next
        <3>1. Position(j)' = n + 1 /\ Position(j)' >= 1
            BY <1>1, <1>3, <2>1, <2>2
        <3>2. valid'[j] /\ seen'[j] = sent[m].seq
            BY <1>1, <2>2 DEF Remember
        <3> QED
            BY <1>2, <3>1, <3>2
    <2>3. CASE j # next
        <3>1. Position(j)' = Position(j)
            BY <1>3, <2>1, <2>3 DEF Position
        <3>2. valid'[j] = valid[j] /\ seen'[j] = seen[j]
            BY <1>1, <2>3 DEF Remember
        <3>3. /\ valid[j] <=> Position(j) >= 1
              /\ Position(j) >= 1 => seen[j] = sent[delivered[Position(j)]].seq
            BY DEF IInv, WindowInv
        <3>4. Position(j) >= 1 => delivered'[Position(j)] = delivered[Position(j)]
            BY <1>1, <1>2, WindowCovers DEF Position
        <3> QED
            BY <3>1, <3>2, <3>3, <3>4
    <2> QED
        BY <2>2, <2>3
<1>6. WindowInv'
    BY <1>5 DEF WindowInv
<1> QED
    BY <1>4, <1>6 DEF IInv

\* Every step of a publisher, the network or the receiver keeps the invariant.
LEMMA NextKeepsIInv == IInv /\ [Next]_vars => IInv'
<1> SUFFICES ASSUME IInv, [Next]_vars
             PROVE  IInv'
    OBVIOUS
<1>0. /\ seq_counter \in [Publishers -> 0 .. SeqMod - 1]
      /\ dropped \subseteq 1 .. Len(sent)
      /\ events \in 0 .. MaxEvents
    BY DEF IInv, TypeOK
<1>1. ASSUME NEW p \in Publishers, Publish(p)
      PROVE  IInv'
    BY <1>1, PublishKeepsIInv
<1>2. ASSUME NEW p \in Publishers, NEW n \in Bursts, PublishOtherTopics(p, n)
      PROVE  IInv'
    <2>1. (seq_counter[p] + n) % SeqMod \in 0 .. SeqMod - 1
        BY <1>0, BurstAssumption, CounterStays
    <2>2. seq_counter' \in [Publishers -> 0 .. SeqMod - 1]
        BY <1>0, <1>2, <2>1 DEF PublishOtherTopics
    <2>3. events' \in 0 .. MaxEvents
        BY <1>0, <1>2, BoundAssumption DEF PublishOtherTopics
    <2> QED
        BY <1>0, <1>2, <2>2, <2>3, QuietKeepsIInv DEF PublishOtherTopics
<1>3. ASSUME NEW p \in Publishers, Restart(p)
      PROVE  IInv'
    <2>1. seq_counter' \in [Publishers -> 0 .. SeqMod - 1]
        BY <1>0, <1>3, SeqModAssumption DEF Restart
    <2>2. events' \in 0 .. MaxEvents
        BY <1>0, <1>3, BoundAssumption DEF Restart
    <2> QED
        BY <1>0, <1>3, <2>1, <2>2, QuietKeepsIInv DEF Restart
<1>4. ASSUME NEW m \in 1 .. Len(sent), NEW path \in Paths, Receive(m, path)
      PROVE  IInv'
    <2>1. CASE IsRecentDuplicate(sent[m].seq)
        <3>1. dropped' \subseteq 1 .. Len(sent)
            BY <1>0, <1>4, <2>1 DEF Receive
        <3> QED
            BY <1>0, <1>4, <2>1, <3>1, QuietKeepsIInv DEF Receive
    <2>2. CASE ~IsRecentDuplicate(sent[m].seq)
        BY <1>4, <2>2, AcceptKeepsIInv DEF Receive
    <2> QED
        BY <2>1, <2>2
<1>5. ASSUME NEW m \in 1 .. Len(sent), NEW path \in Paths, Lose(m, path)
      PROVE  IInv'
    BY <1>0, <1>5, QuietKeepsIInv DEF Lose
<1>6. CASE UNCHANGED vars
    BY <1>0, <1>6, QuietKeepsIInv DEF vars, window
<1> QED
    BY <1>1, <1>2, <1>3, <1>4, <1>5, <1>6 DEF Next

\* The inductive invariant holds in every reachable state.
LEMMA IInvAlways == Spec => []IInv
BY InitIInv, NextKeepsIInv, PTL DEF Spec

\* Type correctness of the publishers, the network and the window.
THEOREM TypeCorrect == Spec => []TypeOK
<1>1. IInv => TypeOK
    BY DEF IInv
<1> QED
    BY <1>1, IInvAlways, PTL

-----------------------------------------------------------------------------
\* What a copy is accepted or discarded for.

LEMMA AcceptedIsNew ==
    ASSUME IInv, MaxLag < WindowSize, NEW m \in 1 .. Len(sent),
           OnTime(m), ~IsRecentDuplicate(sent[m].seq)
    PROVE  \A k \in 1 .. Len(delivered) : delivered[k] # m
<1> DEFINE n == Len(delivered)
<1>1. /\ delivered \in Seq(1 .. Len(sent)) /\ n \in Nat
      /\ next \in Slots
    BY DEF IInv, TypeOK, Slots
<1> SUFFICES ASSUME NEW k \in 1 .. n, delivered[k] = m PROVE FALSE
    OBVIOUS
<1>2. n - k < WindowSize
    BY <1>1, WindowAssumption, BoundAssumption DEF OnTime
<1>3. PICK j \in Slots : PositionAt(j, next, n) = k
    BY <1>1, <1>2, WindowCovers
<1>4. Position(j) = k /\ Position(j) >= 1
    BY <1>3 DEF Position
<1>5. valid[j] /\ seen[j] = sent[m].seq
    BY <1>4 DEF IInv, WindowInv
<1> QED
    BY <1>5 DEF IsRecentDuplicate, Slots

LEMMA HitWasDelivered ==
    ASSUME IInv, NEW seq, IsRecentDuplicate(seq)
    PROVE  \E k \in 1 .. Len(delivered) :
              delivered[k] \in 1 .. Len(sent) /\ sent[delivered[k]].seq = seq
<1>1. PICK j \in Slots : valid[j] /\ seen[j] = seq
    BY DEF IsRecentDuplicate, Slots
<1>2. Position(j) >= 1 /\ seen[j] = sent[delivered[Position(j)]].seq
    BY <1>1 DEF IInv, WindowInv
<1>3. delivered \in Seq(1 .. Len(sent)) /\ Len(delivered) \in Nat /\ next \in Slots
    BY DEF IInv, TypeOK, Slots
<1>4. Position(j) \in 1 .. Len(delivered)
    BY <1>2, <1>3, WindowCovers DEF Position
<1>5. delivered[Position(j)] \in 1 .. Len(sent)
    BY <1>3, <1>4
<1> QED
    BY <1>1, <1>2, <1>4, <1>5

\* A message is delivered once, for any number of publishers, restarts and
\* counter wraps, as long as its copies arrive within one window of it.
THEOREM DeliveredOnce ==
    ASSUME MaxLag < WindowSize
    PROVE  Spec => []AtMostOnce
<1>1. Init => AtMostOnce
    BY DEF Init, AtMostOnce
<1>2. ASSUME IInv, AtMostOnce, [Next]_vars
      PROVE  AtMostOnce'
    <2>1. CASE UNCHANGED delivered
        BY <1>2, <2>1 DEF AtMostOnce
    <2>2. ASSUME NEW m \in 1 .. Len(sent), NEW path \in Paths,
                 Receive(m, path), ~IsRecentDuplicate(sent[m].seq)
          PROVE  AtMostOnce'
        <3> DEFINE n == Len(delivered)
        <3>1. delivered \in Seq(1 .. Len(sent)) /\ n \in Nat
            BY <1>2 DEF IInv, TypeOK
        <3>2. delivered' = Append(delivered, m) /\ OnTime(m)
            BY <2>2 DEF Receive
        <3>3. \A k \in 1 .. n : delivered[k] # m
            BY <1>2, <2>2, <3>2, AcceptedIsNew
        <3>4. /\ Len(delivered') = n + 1
              /\ delivered'[n + 1] = m
              /\ \A k \in 1 .. n : delivered'[k] = delivered[k]
            BY <3>1, <3>2, AppendProperties
        <3>5. ASSUME NEW i \in 1 .. n + 1, NEW j \in 1 .. n + 1,
                     delivered'[i] = delivered'[j]
              PROVE  i = j
            <4>1. \A k \in 1 .. n + 1 : k \in 1 .. n \/ k = n + 1
                BY <3>1
            <4>2. CASE i \in 1 .. n /\ j \in 1 .. n
                BY <1>2, <3>4, <3>5, <4>2 DEF AtMostOnce
            <4> QED
                BY <3>3, <3>4, <3>5, <4>1, <4>2
        <3> QED
            BY <3>4, <3>5 DEF AtMostOnce
    <2>3. ASSUME NEW m \in 1 .. Len(sent), NEW path \in Paths,
                 Receive(m, path), IsRecentDuplicate(sent[m].seq)
          PROVE  UNCHANGED delivered
        BY <2>3 DEF Receive
    <2> QED
        BY <1>2, <2>1, <2>2, <2>3
           DEF Next, vars, Publish, PublishOtherTopics, Restart, Lose
<1> QED
    BY <1>1, <1>2, IInvAlways, PTL DEF Spec

\* As long as no number is used for two messages, a dropped copy is always a
\* copy of a delivered message.
THEOREM DropsAreDuplicates == Spec => []UniqueNumbersAreSafe
<1>1. Init => UniqueNumbersAreSafe
    BY DEF Init, OnlyDuplicatesDropped, UniqueNumbersAreSafe
<1>2. ASSUME IInv, NumbersNotReused, OnlyDuplicatesDropped, [Next]_vars
      PROVE  OnlyDuplicatesDropped'
    <2>1. CASE UNCHANGED <<delivered, dropped>>
        BY <1>2, <2>1 DEF OnlyDuplicatesDropped
    <2>2. ASSUME NEW m \in 1 .. Len(sent), NEW path \in Paths,
                 Receive(m, path), ~IsRecentDuplicate(sent[m].seq)
          PROVE  OnlyDuplicatesDropped'
        <3>1. delivered' = Append(delivered, m) /\ dropped' = dropped
            BY <2>2 DEF Receive
        <3>2. delivered \in Seq(1 .. Len(sent))
            BY <1>2 DEF IInv, TypeOK
        <3>3. /\ \A k \in 1 .. Len(delivered) : delivered'[k] = delivered[k]
              /\ 1 .. Len(delivered) \subseteq 1 .. Len(delivered')
            BY <3>1, <3>2, AppendProperties
        <3> QED
            BY <1>2, <3>1, <3>3 DEF OnlyDuplicatesDropped
    <2>3. ASSUME NEW m \in 1 .. Len(sent), NEW path \in Paths,
                 Receive(m, path), IsRecentDuplicate(sent[m].seq)
          PROVE  OnlyDuplicatesDropped'
        <3>1. delivered' = delivered /\ dropped' = dropped \cup {m}
            BY <2>3 DEF Receive
        <3>2. PICK k \in 1 .. Len(delivered) :
                 delivered[k] \in 1 .. Len(sent) /\ sent[delivered[k]].seq = sent[m].seq
            BY <1>2, <2>3, HitWasDelivered
        <3>3. delivered[k] = m
            BY <1>2, <3>2 DEF NumbersNotReused
        <3> QED
            BY <1>2, <3>1, <3>2, <3>3 DEF OnlyDuplicatesDropped
    <2> QED
        BY <1>2, <2>1, <2>2, <2>3
           DEF Next, vars, Publish, PublishOtherTopics, Restart, Lose
\* Numbers once reused stay reused: the history of sent messages only grows.
<1>3. ASSUME IInv, [Next]_vars, NumbersNotReused'
      PROVE  NumbersNotReused
    <2>1. CASE sent' = sent
        BY <1>3, <2>1 DEF NumbersNotReused
    <2>2. ASSUME NEW p \in Publishers, Publish(p)
          PROVE  NumbersNotReused
        <3>1. sent \in Seq([src : Publishers, seq : 0 .. SeqMod - 1])
              /\ seq_counter[p] \in 0 .. SeqMod - 1
            BY <1>3 DEF IInv, TypeOK
        <3>2. sent' = Append(sent, [src |-> p, seq |-> seq_counter[p]])
            BY <2>2 DEF Publish
        <3>3. /\ 1 .. Len(sent) \subseteq 1 .. Len(sent')
              /\ \A k \in 1 .. Len(sent) : sent'[k] = sent[k]
            BY <3>1, <3>2
        <3> QED
            BY <1>3, <3>3 DEF NumbersNotReused
    <2> QED
        BY <1>3, <2>1, <2>2
           DEF Next, vars, Receive, PublishOtherTopics, Restart, Lose
<1>4. IInv /\ UniqueNumbersAreSafe /\ [Next]_vars => UniqueNumbersAreSafe'
    BY <1>2, <1>3 DEF UniqueNumbersAreSafe
<1> QED
    BY <1>1, <1>4, IInvAlways, PTL DEF Spec

\* One publisher that is not restarted and whose topic has the counter for
\* itself uses no number twice before the counter wraps.
THEOREM OnePublisherNumbers ==
    ASSUME NEW p, Publishers = {p}, Restarting = {}, Bursts = {},
           MaxPublish <= SeqMod
    PROVE  Spec => []NumbersNotReused
<1> DEFINE Counted ==
        /\ Len(sent) <= MaxPublish
        /\ Len(sent) < SeqMod => seq_counter[p] = Len(sent)
        /\ \A i \in 1 .. Len(sent) : sent[i].seq = i - 1
<1>1. Init => Counted
    BY SeqModAssumption, BoundAssumption DEF Init
<1>2. ASSUME IInv, Counted, [Next]_vars
      PROVE  Counted'
    <2>1. CASE UNCHANGED <<sent, seq_counter>>
        BY <1>2, <2>1
    <2>2. CASE Publish(p)
        <3>1. /\ sent \in Seq(Sent) /\ Len(sent) \in Nat
              /\ seq_counter \in [Publishers -> 0 .. SeqMod - 1]
            BY <1>2 DEF IInv, TypeOK, Sent
        <3>2. Len(sent) < MaxPublish /\ Len(sent) < SeqMod
            BY <2>2, <3>1, SeqModAssumption, BoundAssumption DEF Publish
        <3>3. [src |-> p, seq |-> seq_counter[p]] \in Sent
            BY <3>1 DEF Sent
        <3>4. /\ Len(sent') = Len(sent) + 1
              /\ sent'[Len(sent) + 1] = [src |-> p, seq |-> seq_counter[p]]
              /\ \A i \in 1 .. Len(sent) : sent'[i] = sent[i]
            BY <2>2, <3>1, <3>3, AppendProperties DEF Publish
        <3>5. sent'[Len(sent) + 1].seq = Len(sent)
            BY <1>2, <3>2, <3>4
        <3>6. seq_counter'[p] = (Len(sent) + 1) % SeqMod
            BY <1>2, <2>2, <3>1, <3>2 DEF Publish
        <3>7. Len(sent') < SeqMod => seq_counter'[p] = Len(sent')
            BY <3>1, <3>4, <3>6, SeqModAssumption
        <3>8. ASSUME NEW i \in 1 .. Len(sent')
              PROVE  sent'[i].seq = i - 1
            <4>1. i \in 1 .. Len(sent) \/ i = Len(sent) + 1
                BY <3>1, <3>4
            <4> QED
                BY <1>2, <3>1, <3>4, <3>5, <4>1
        <3> QED
            BY <3>1, <3>2, <3>4, <3>7, <3>8, BoundAssumption
    <2> QED
        BY <1>2, <2>1, <2>2
           DEF Next, vars, PublishOtherTopics, Restart, Lose, Receive
<1>3. ASSUME IInv, Counted
      PROVE  NumbersNotReused
    BY <1>3 DEF NumbersNotReused
<1> HIDE DEF Counted
<1> QED
    BY <1>1, <1>2, <1>3, IInvAlways, PTL DEF Spec

-----------------------------------------------------------------------------
(* The refinement of DedupChannel.  Its variables are the histories. *)

LEMMA PublishIsPublish ==
    ASSUME IInv, NEW p \in Publishers, Publish(p)
    PROVE  Channel!Next
<1>1. [src |-> p, seq |-> seq_counter[p]] \in [src : Publishers, seq : 0 .. SeqMod - 1]
    BY DEF IInv, TypeOK
<1>2. Channel!Publish([src |-> p, seq |-> seq_counter[p]])
    BY DEF Publish, Channel!Publish
<1> QED
    BY <1>1, <1>2 DEF Channel!Next

LEMMA ReceiveDeliversOrDiscards ==
    ASSUME IInv, MaxLag < WindowSize,
           NEW m \in 1 .. Len(sent), NEW path \in Paths, Receive(m, path)
    PROVE  Channel!Deliver(m) \/ Channel!Discard(m)
<1>1. CASE IsRecentDuplicate(sent[m].seq)
    <2>1. \E k \in 1 .. Len(delivered) : sent[delivered[k]].seq = sent[m].seq
        BY <1>1, HitWasDelivered
    <2> QED
        BY <1>1, <2>1 DEF Receive, Channel!Discard
<1>2. CASE ~IsRecentDuplicate(sent[m].seq)
    <2>1. \A k \in 1 .. Len(delivered) : delivered[k] # m
        BY <1>2, AcceptedIsNew DEF Receive
    <2> QED
        BY <1>2, <2>1 DEF Receive, Channel!Deliver
<1> QED
    BY <1>1, <1>2

\* If a copy is overtaken by fewer deliveries than the window holds, the
\* transport implements a channel that remembers every delivery, for every
\* window and counter width, with any number of publishers, restarts and turns
\* of the counter (is_recent_duplicate, udp_transport.hpp:402-410).
THEOREM WindowImplementsChannel ==
    ASSUME MaxLag < WindowSize
    PROVE  Spec => ImplementsChannel
<1>1. Init => Channel!Init
    BY DEF Init, Channel!Init
<1>2. IInv /\ [Next]_vars => [Channel!Next]_Channel!vars
    <2> SUFFICES ASSUME IInv, [Next]_vars
                 PROVE  Channel!Next \/ UNCHANGED <<sent, delivered, dropped>>
        BY DEF Channel!vars
    <2>1. ASSUME NEW m \in 1 .. Len(sent), NEW path \in Paths, Receive(m, path)
          PROVE  Channel!Next
        BY <2>1, ReceiveDeliversOrDiscards DEF Channel!Next
    <2>2. CASE UNCHANGED vars
        BY <2>2 DEF vars
    <2> QED
        BY <2>1, <2>2, PublishIsPublish DEF Next, PublishOtherTopics, Restart, Lose, window
<1> QED
    BY <1>1, <1>2, IInvAlways, PTL DEF Spec, ImplementsChannel, Channel!Spec
=============================================================================
