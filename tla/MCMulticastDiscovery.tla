------------------------ MODULE MCMulticastDiscovery ------------------------
(* n1 is a demultiplexed node whose first group is too large for a beacon;  *)
(* the two network ids have neighbouring ports.                             *)
EXTENDS MulticastDiscovery

CONSTANTS n1, n2, t1, t2, t3

MCPortGroups ==
  (n1 :> <<[port |-> 1, topics |-> {t2, t3}], [port |-> 2, topics |-> {t1}]>>)
  @@ (n2 :> <<[port |-> 3, topics |-> {t1}]>>)

Setting(net1, net2, ip1, ip2) ==
  [network_id |-> (n1 :> net1) @@ (n2 :> net2), ip |-> (n1 :> ip1) @@ (n2 :> ip2)]
MCSettings ==
  {Setting(0, 0, "A", "A"), Setting(0, 0, "A", "B"), Setting(0, 58135, "A", "A")}
=============================================================================
