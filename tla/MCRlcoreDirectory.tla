------------------------- MODULE MCRlcoreDirectory -------------------------
(***************************************************************************)
(* RlcoreDirectory for one node with two topics.  Two names do not fit     *)
(* into one packet, and neither do two entries of the role directory.      *)
(***************************************************************************)
EXTENDS RlcoreDirectory

CONSTANTS n1, t1, t2, k1

All == [n \in Node |-> Topic]
First == [n \in Node |-> {t1}]
ByNumber == <<t1, t2>>
BothNamed == [t \in Topic |-> 3]

Started(relay, key, nodeKey, look) ==
  [relay |-> relay, key |-> key,
   nodeKey |-> [n \in Node |-> nodeKey], prefix |-> [n \in Node |-> look]]

\* No keys; a daemon with a key and the relay, and nodes with that key; a
\* daemon with a key and nodes without; nodes at an address that reads like
\* the magic of a directory packet.
PlainAndKeyed == {Started(FALSE, NoKey, NoKey, "frame"),
                  Started(TRUE, k1, k1, "request"),
                  Started(FALSE, k1, NoKey, "request"),
                  Started(FALSE, NoKey, NoKey, "directory")}

\* A daemon with the relay, no keys, and a node at an address ending in .35.
RelayAt35 == {Started(TRUE, NoKey, NoKey, "frame")}
=============================================================================
