------------------------------ MODULE ShmQueue ------------------------------
(***************************************************************************)
(* What one shared-memory ring promises its two users: a bounded FIFO      *)
(* queue.  A push takes effect at one instant and is refused only when     *)
(* the queue is full; a pop removes the oldest message and delivers it,    *)
(* whole and once.  ShmRing shows that the lock-free code implements it.   *)
(***************************************************************************)
EXTENDS Naturals, Sequences

CONSTANTS
    Bound,      \* messages the ring can hold: capacity - 1, one slot stays free
    Message     \* the messages that can be pushed

VARIABLES
    queue,      \* pushed and not yet popped, oldest first
    delivered   \* every message popped so far, in order

vars == <<queue, delivered>>

Init ==
    /\ queue = <<>>
    /\ delivered = <<>>

Push(m) ==
    /\ Len(queue) < Bound
    /\ queue' = Append(queue, m)
    /\ UNCHANGED delivered

Pop ==
    /\ queue # <<>>
    /\ delivered' = Append(delivered, Head(queue))
    /\ queue' = Tail(queue)

Next ==
    \/ \E m \in Message : Push(m)
    \/ Pop

Spec == Init /\ [][Next]_vars
=============================================================================
