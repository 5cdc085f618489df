------------------------------ MODULE UdpDedup ------------------------------
(***************************************************************************)
(* One topic, from publish to the subscriber's callback, when a message    *)
(* travels on several paths at once: RelinkNode::publish draws one seq_num *)
(* and sends a copy to every known address of the peer (public and LAN)    *)
(* and to the relay; the receiving UdpTransport drops a copy whose seq_num *)
(* is in its window of recently accepted ones.  Datagrams are lost and     *)
(* reordered, and a path may lag behind the other.                         *)
(***************************************************************************)
EXTENDS Integers, Sequences, FiniteSets

CONSTANTS
    Publishers,   \* nodes publishing the topic, each with its own counter
    Paths,        \* ways a copy can take: public address, LAN address, relay
    WindowSize,   \* SeqWindow::kSize, 8 in the code
    SeqMod,       \* 2^16: seq_counter_ is a uint16_t
    Bursts,       \* numbers of messages sent in a row on other topics
    MaxLag,       \* how many newer messages may be accepted between the
                  \* copies of one; a later copy counts as lost
    Restarting,   \* publishers whose process may be restarted
    MaxPublish,   \* bound: messages published on the topic
    MaxInFlight,  \* bound: copies on their way at a time
    MaxEvents     \* bound: restarts and bursts on other topics

ASSUME WindowAssumption == WindowSize \in Nat \ {0}
ASSUME SeqModAssumption == SeqMod \in Nat \ {0}
ASSUME BurstAssumption == Bursts \subseteq Nat
ASSUME BoundAssumption ==
    MaxLag \in Nat /\ MaxPublish \in Nat /\ MaxInFlight \in Nat /\ MaxEvents \in Nat

VARIABLES
    seq_counter,  \* each publisher's UdpTransport::seq_counter_
    sent,         \* history: source and seq_num of every message published
    net,          \* copies on their way: <<message number, path>>
    seen, valid, next,   \* the receiver's SeqWindow for the topic
    delivered,    \* history: message numbers in the order of the callbacks
    dropped,      \* history: message numbers with a copy judged duplicate
    events

window == <<seen, valid, next>>
vars == <<seq_counter, sent, net, seen, valid, next, delivered, dropped, events>>

Init ==
    /\ seq_counter = [p \in Publishers |-> 0]
    /\ sent = <<>>
    /\ net = {}
    /\ seen = [j \in 0 .. WindowSize - 1 |-> 0]
    /\ valid = [j \in 0 .. WindowSize - 1 |-> FALSE]
    /\ next = 0
    /\ delivered = <<>>
    /\ dropped = {}
    /\ events = 0

-----------------------------------------------------------------------------
(***************************************************************************)
(* Faulty variants, substituted one at a time to show a property detects   *)
(* them.                                                                   *)
(***************************************************************************)
IsRecentDuplicateLastOnly(seq) ==
    \E j \in 0 .. WindowSize - 1 :
        valid[j] /\ seen[j] = seq /\ j = (next + WindowSize - 1) % WindowSize

IsRecentDuplicateUnset(seq) == \E j \in 0 .. WindowSize - 1 : seen[j] = seq

RememberNoWrap(seq) ==
    /\ seen' = [seen EXCEPT ![next] = seq]
    /\ valid' = [valid EXCEPT ![next] = TRUE]
    /\ next' = next + 1

-----------------------------------------------------------------------------
(***************************************************************************)
(* publish: one number for all copies.                                     *)
(***************************************************************************)
Publish(p) ==
    /\ Len(sent) < MaxPublish
    /\ Cardinality(net) + Cardinality(Paths) <= MaxInFlight
    /\ sent' = Append(sent, [src |-> p, seq |-> seq_counter[p]])
    /\ seq_counter' = [seq_counter EXCEPT ![p] = (@ + 1) % SeqMod]
    /\ net' = net \cup {<<Len(sent'), path>> : path \in Paths}
    /\ UNCHANGED <<window, delivered, dropped, events>>

\* The counter belongs to the transport: other topics draw from it too.
PublishOtherTopics(p, n) ==
    /\ events < MaxEvents
    /\ events' = events + 1
    /\ seq_counter' = [seq_counter EXCEPT ![p] = (@ + n) % SeqMod]
    /\ UNCHANGED <<sent, net, window, delivered, dropped>>

\* The publishing process ends and is started again: its counter is zero.
Restart(p) ==
    /\ p \in Restarting
    /\ events < MaxEvents
    /\ events' = events + 1
    /\ seq_counter' = [seq_counter EXCEPT ![p] = 0]
    /\ UNCHANGED <<sent, net, window, delivered, dropped>>

-----------------------------------------------------------------------------
(***************************************************************************)
(* recv_and_dispatch.                                                      *)
(***************************************************************************)
IsRecentDuplicate(seq) ==
    \E j \in 0 .. WindowSize - 1 : valid[j] /\ seen[j] = seq

Remember(seq) ==
    /\ seen' = [seen EXCEPT ![next] = seq]
    /\ valid' = [valid EXCEPT ![next] = TRUE]
    /\ next' = (next + 1) % WindowSize

\* How many messages were accepted after message m was.
OnTime(m) ==
    \A k \in 1 .. Len(delivered) :
        delivered[k] = m => Len(delivered) - k <= MaxLag

Receive(m, path) ==
    LET seq == sent[m].seq
    IN  /\ <<m, path>> \in net
        /\ OnTime(m)
        /\ net' = net \ {<<m, path>>}
        /\ \/ /\ IsRecentDuplicate(seq)
              /\ dropped' = dropped \cup {m}
              /\ UNCHANGED <<window, delivered>>
           \/ /\ ~IsRecentDuplicate(seq)
              /\ Remember(seq)
              /\ delivered' = Append(delivered, m)
              /\ UNCHANGED dropped
        /\ UNCHANGED <<seq_counter, sent, events>>

\* The network loses a copy.
Lose(m, path) ==
    /\ <<m, path>> \in net
    /\ net' = net \ {<<m, path>>}
    /\ UNCHANGED <<seq_counter, sent, window, delivered, dropped, events>>

-----------------------------------------------------------------------------
Next ==
    \/ \E p \in Publishers :
          \/ Publish(p)
          \/ \E n \in Bursts : PublishOtherTopics(p, n)
          \/ Restart(p)
    \/ \E m \in 1 .. Len(sent), path \in Paths :
          Receive(m, path) \/ Lose(m, path)

Spec == Init /\ [][Next]_vars

-----------------------------------------------------------------------------
(***************************************************************************)
(* Properties.                                                             *)
(***************************************************************************)

\* What each variable may hold.
TypeOK ==
    /\ seq_counter \in [Publishers -> 0 .. SeqMod - 1]
    /\ sent \in Seq([src : Publishers, seq : 0 .. SeqMod - 1])
    /\ net \subseteq (1 .. Len(sent)) \X Paths
    /\ seen \in [0 .. WindowSize - 1 -> 0 .. SeqMod - 1]
    /\ valid \in [0 .. WindowSize - 1 -> BOOLEAN]
    /\ next \in 0 .. WindowSize - 1
    /\ delivered \in Seq(1 .. Len(sent))
    /\ dropped \subseteq 1 .. Len(sent)
    /\ events \in 0 .. MaxEvents

(***************************************************************************)
(* The copies of one message collapse "back into one delivery": no message *)
(* reaches the callback twice, whatever path was faster and however the    *)
(* copies interleave with newer messages.                                  *)
(***************************************************************************)
AtMostOnce ==
    \A i, j \in 1 .. Len(delivered) : delivered[i] = delivered[j] => i = j

(***************************************************************************)
(* A matching number is "a safe duplicate signal": a copy is dropped only  *)
(* if the same message, and not another with its number, was delivered.    *)
(***************************************************************************)
OnlyDuplicatesDropped ==
    \A m \in dropped : \E k \in 1 .. Len(delivered) : delivered[k] = m

(***************************************************************************)
(* What enable_relay_dedup's comment takes for granted: "assigned once ... *)
(* and never reused for a different payload".                              *)
(***************************************************************************)
NumbersNotReused ==
    \A i, j \in 1 .. Len(sent) : sent[i].seq = sent[j].seq => i = j

(***************************************************************************)
(* As long as that is so, the signal is safe: with several publishers too, *)
(* and whatever the window held before, nothing but a second copy of a     *)
(* delivered message is dropped.                                           *)
(***************************************************************************)
UniqueNumbersAreSafe == NumbersNotReused => OnlyDuplicatesDropped

(***************************************************************************)
(* Whether or not numbers are reused, the window of is_recent_duplicate    *)
(* (udp_transport.hpp:402-410) does what a memory of all deliveries would: *)
(* no second delivery, and no discarded copy without the number of a       *)
(* delivered message.                                                      *)
(***************************************************************************)
Channel == INSTANCE DedupChannel WITH
    Message <- [src : Publishers, seq : 0 .. SeqMod - 1]

ImplementsChannel == Channel!Spec
=============================================================================
