---------------------------- MODULE DedupChannel ----------------------------
(***************************************************************************)
(* What sending one message over several paths promises publisher and      *)
(* subscriber of a topic: no message reaches the subscriber twice, and a   *)
(* copy is discarded only for a message with its number that did.          *)
(* Messages may be lost and arrive in any order.  UdpDedup shows that a    *)
(* window of the last few numbers is enough of a memory for that.          *)
(***************************************************************************)
EXTENDS Naturals, Sequences

CONSTANT Message    \* what can be published, with the number it is given

VARIABLES
    sent,       \* the messages published, in order
    delivered,  \* the indices of those the subscriber was given, in order
    dropped     \* the indices of those with a discarded copy

vars == <<sent, delivered, dropped>>

Init ==
    /\ sent = <<>>
    /\ delivered = <<>>
    /\ dropped = {}

Publish(msg) ==
    /\ sent' = Append(sent, msg)
    /\ UNCHANGED <<delivered, dropped>>

Deliver(m) ==
    /\ \A k \in 1 .. Len(delivered) : delivered[k] # m
    /\ delivered' = Append(delivered, m)
    /\ UNCHANGED <<sent, dropped>>

Discard(m) ==
    /\ \E k \in 1 .. Len(delivered) : sent[delivered[k]].seq = sent[m].seq
    /\ dropped' = dropped \cup {m}
    /\ UNCHANGED <<sent, delivered>>

Next ==
    \/ \E msg \in Message : Publish(msg)
    \/ \E m \in 1 .. Len(sent) : Deliver(m) \/ Discard(m)

Spec == Init /\ [][Next]_vars
=============================================================================
