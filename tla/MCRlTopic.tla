----------------------------- MODULE MCRlTopic -----------------------------
(* Two invocations of rl_topic, in two terminals. *)
EXTENDS RlTopic

CONSTANTS p1, p2

A1 == [ip |-> 1, port |-> 8445]
A2 == [ip |-> 2, port |-> 9000]

Plain == [command |-> "list", addr |-> NotGiven, ipc |-> FALSE, relay |-> FALSE,
          payload |-> TRUE, count |-> 0, repeat |-> 0, type |-> ""]

list(addr) == [Plain EXCEPT !.addr = addr]
pub(addr, n) == [Plain EXCEPT !.command = "pub", !.addr = addr, !.repeat = n]
echo(n, type) == [Plain EXCEPT !.command = "echo", !.count = n, !.type = type]

\* Two that remember an address, a bad address next to one that needs what is
\* remembered, and the commands that listen next to one that saves.
Pairs == {<<pub(A1, 2), list(A2)>>,
          <<list(BadAddress), [pub(NotGiven, 0) EXCEPT !.relay = TRUE]>>,
          <<[Plain EXCEPT !.command = "hz"], list(A2)>>,
          <<[Plain EXCEPT !.command = "bw"], [pub(NotGiven, 0) EXCEPT !.ipc = TRUE]>>,
          <<echo(2, ""), list(A1)>>,
          <<echo(0, "Float32"), pub(A1, 1)>>,
          <<echo(0, "unknown"), [Plain EXCEPT !.ipc = TRUE]>>,
          <<[pub(A1, 0) EXCEPT !.payload = FALSE], list(NotGiven)>>}

Terminals == {[p \in Proc |-> IF p = p1 THEN pair[1] ELSE pair[2]] : pair \in Pairs}

AtFirst == {NoFile, A2}

\* Two types of one size, one of a size of its own.
SomeTypes == [Float32 |-> 4, Int32 |-> 4, Float64 |-> 8]
=============================================================================
