------------------------------ MODULE RlTopic ------------------------------
(***************************************************************************)
(* The rl_topic command line tool (cpp/tools/rl_topic.cpp): the address    *)
(* of rlcore that invocations share through ~/.cache/relink/conf.bin, and  *)
(* the commands that run a node of their own, hz, bw, echo and pub.  What  *)
(* list and info ask the daemon is in RlcoreDirectory.                     *)
(*                                                                         *)
(* Each invocation is a process with a main thread and, once it has        *)
(* subscribed, the node's receive thread, which calls the command's        *)
(* on_msg.  Discovery and the messages of the topic come from outside.     *)
(***************************************************************************)
EXTENDS Integers, Sequences, FiniteSets, SequencesExt

CONSTANTS
  Proc,          \* invocations
  CommandLines,  \* the command lines that may be given: a set of [Proc -> args]
  Remembered,    \* what conf.bin may hold at first
  NotGiven,      \* no --rlcore-ip
  NoFile, Empty, \* conf.bin: not there; opened and not yet written
  Multicast,     \* the address of an invocation that found none
  BadAddress,    \* an --rlcore-ip that is no IPv4 address
  TypeSize,      \* [built-in message type -> size], msg_schema.hpp
  Sizes,         \* the payload sizes that occur
  Window,        \* hz --window
  ReportEvery,   \* --report-every
  Timeout,       \* --timeout
  MaxMessages    \* bound: messages printed, kept, or heard in ReportEvery

\* An address has an ip and a port, which belong together.
Address(v) == v \notin {NotGiven, NoFile, Empty, Multicast, BadAddress}

Command == {"list", "hz", "bw", "echo", "pub"}

ASSUME ToolAssumption ==
  /\ Window \in Nat \ {0} /\ ReportEvery \in Nat /\ Timeout \in Nat
  /\ MaxMessages \in Nat
  /\ \A line \in CommandLines : \A p \in Proc : LET a == line[p] IN
       /\ a.command \in Command
       /\ a.ipc \in BOOLEAN /\ a.relay \in BOOLEAN /\ a.payload \in BOOLEAN
       /\ a.addr \in {NotGiven, BadAddress} \/ Address(a.addr)
       /\ Address(a.addr) => a.addr = [ip |-> a.addr.ip, port |-> a.addr.port]
       /\ a.count \in Nat /\ a.repeat \in Nat
       /\ a.type \in DOMAIN TypeSize \cup {"", "unknown"}
  /\ \A v \in Remembered : v = NoFile \/ Address(v)

VARIABLES
  args,      \* the command lines
  conf,      \* the content of conf.bin
  pc,        \* where a process's main thread is
  using,     \* a.rlcore_ip and a.rlcore_port
  waited,    \* pub: for how long it has been waiting for a peer
  found,     \* pub: has the node learnt of a peer
  sent,      \* pub: messages published
  samples,   \* hz, bw: arrivals, the ages of the messages kept
  printed,   \* echo: messages printed
  shown,     \* echo: size of the last message and the type it was printed as
  g_stop,    \* the flag of the SIGINT handler
  heard,     \* history: the ages of the messages of the last ReportEvery
  torn       \* history: did a process die between opening and writing conf.bin

commandVars == <<args, conf, pc, using, waited, found, sent, samples, printed,
                 shown, g_stop, heard, torn>>

\* Everything but the named variables of one process's command.
confVars == <<conf, using, torn>>
pubVars == <<waited, found, sent>>
subVars == <<samples, printed, shown, g_stop, heard>>

Pc == {"main", "saving", "ready", "waiting", "publishing", "listening",
       "leaving", "done", "killed"}

NotShown == [size |-> 0, as |-> "nothing"]

ToolInit ==
  /\ args \in CommandLines
  /\ conf \in Remembered
  /\ pc = [p \in Proc |-> "main"]
  /\ using = [p \in Proc |-> NotGiven]
  /\ waited = [p \in Proc |-> 0]
  /\ found = [p \in Proc |-> FALSE]
  /\ sent = [p \in Proc |-> 0]
  /\ samples = [p \in Proc |-> << >>]
  /\ printed = [p \in Proc |-> 0]
  /\ shown = [p \in Proc |-> NotShown]
  /\ g_stop = [p \in Proc |-> FALSE]
  /\ heard = [p \in Proc |-> << >>]
  /\ torn = FALSE

Goto(p, label) == pc' = [pc EXCEPT ![p] = label]

-----------------------------------------------------------------------------
(* main: the remembered address. *)

\* Mutant: the file is opened before the address is looked at.
opens_file_always(a) == TRUE

\* save_conf gives up on what inet_pton does not accept.
opens_file(a) == a # BadAddress

\* save_conf: the file is truncated when it is opened ...
OpenConf(p) ==
  /\ pc[p] = "main" /\ args[p].addr # NotGiven
  /\ using' = [using EXCEPT ![p] = args[p].addr]
  /\ IF opens_file(args[p].addr)
     THEN conf' = Empty /\ Goto(p, "saving")
     ELSE UNCHANGED conf /\ Goto(p, "ready")
  /\ UNCHANGED <<args, pubVars, subVars, torn>>

\* The six bytes of the file: ip and port.
conf_bytes(a) == [ip |-> a.ip, port |-> a.port]

\* ... and written in one go when the stream is destroyed.
WriteConf(p) ==
  /\ pc[p] = "saving"
  /\ conf' = IF Address(using[p]) THEN conf_bytes(using[p]) ELSE conf
  /\ torn' = FALSE
  /\ Goto(p, "ready")
  /\ UNCHANGED <<args, using, pubVars, subVars>>

\* load_conf: a missing or short file means multicast.
LoadConf(p) ==
  /\ pc[p] = "main" /\ args[p].addr = NotGiven
  /\ using' = [using EXCEPT ![p] = IF Address(conf) THEN conf ELSE Multicast]
  /\ Goto(p, "ready")
  /\ UNCHANGED <<args, conf, pubVars, subVars, torn>>

\* The signal before its handler is installed, or any other death.
Kill(p) ==
  /\ pc[p] \notin {"done", "killed"}
  /\ torn' = (torn \/ pc[p] = "saving")
  /\ Goto(p, "killed")
  /\ UNCHANGED <<args, conf, using, pubVars, subVars>>

-----------------------------------------------------------------------------
(* The commands. *)

find_type_by_name(name) == {t \in DOMAIN TypeSize : t = name}

\* What makes a command exit with an error before it starts: list with --ipc,
\* configure_node's --relay without rlcore, an unknown --type, nothing to pub.
Refused(p) ==
  \/ args[p].ipc /\ args[p].command = "list"
  \/ args[p].relay /\ ~args[p].ipc /\ using[p] = Multicast
  \/ args[p].command = "echo" /\ args[p].type # "" /\ find_type_by_name(args[p].type) = {}
  \/ args[p].command = "pub" /\ ~args[p].payload

\* pub --ipc has nobody to wait for.
FirstStep(p) ==
  CASE args[p].command \in {"hz", "bw", "echo"} -> "listening"
    [] args[p].command = "pub" /\ ~args[p].ipc  -> "waiting"
    [] args[p].command = "pub" /\ args[p].ipc   -> "publishing"
    [] args[p].command = "list"                 -> "done"

Begin(p) ==
  /\ pc[p] = "ready"
  /\ Goto(p, IF Refused(p) THEN "done" ELSE FirstStep(p))
  /\ UNCHANGED <<args, confVars, pubVars, subVars>>

\* advertise_local_ipc() may fail.
IpcFails(p) ==
  /\ pc[p] = "ready" /\ ~Refused(p)
  /\ args[p].command = "pub" /\ args[p].ipc
  /\ Goto(p, "done")
  /\ UNCHANGED <<args, confVars, pubVars, subVars>>

\* spin_once() and the node's threads: a peer turns up.
FindPeer(p) ==
  /\ pc[p] = "waiting" /\ ~found[p]
  /\ found' = [found EXCEPT ![p] = TRUE]
  /\ UNCHANGED <<args, confVars, pc, waited, sent, subVars>>

\* Mutant: pub waits for a peer, however long it takes.
waited_long_enough_if_found(p) == found[p]

\* The condition of pub's loop, and the break in it.
waited_long_enough(p) == found[p] \/ waited[p] >= Timeout

StopWaiting(p) ==
  /\ pc[p] = "waiting" /\ waited_long_enough(p)
  /\ Goto(p, "publishing")
  /\ UNCHANGED <<args, confVars, pubVars, subVars>>

Repeats(p) == IF args[p].repeat > 0 THEN args[p].repeat ELSE 1

Publish(p) ==
  /\ pc[p] = "publishing"
  /\ sent' = [sent EXCEPT ![p] = @ + 1]
  /\ Goto(p, IF sent[p] + 1 < Repeats(p) THEN "publishing" ELSE "done")
  /\ UNCHANGED <<args, confVars, waited, found, subVars>>

\* hz and bw: on_msg, under the mutex.
Sample(p) ==
  /\ pc[p] = "listening" /\ args[p].command \in {"hz", "bw"}
  /\ Len(samples[p]) < MaxMessages /\ Len(heard[p]) < MaxMessages
  /\ samples' = [samples EXCEPT ![p] = Append(@, 0)]
  /\ heard' = [heard EXCEPT ![p] = Append(@, 0)]
  /\ UNCHANGED <<args, confVars, pc, pubVars, printed, shown, g_stop>>

Newest(s, k) == IF Len(s) > k THEN SubSeq(s, Len(s) - k + 1, Len(s)) ELSE s

\* Mutant: the window keeps the oldest samples.
trim_newest(p, s) == IF args[p].command = "hz" /\ Len(s) > Window THEN SubSeq(s, 1, Window) ELSE s

\* hz keeps the newest Window samples, bw all of them.
trim(p, s) == IF args[p].command = "hz" THEN Newest(s, Window) ELSE s

\* recent: what is no older than the cutoff, in the order of arrival.
recent(ages) ==
  LET kept[i \in 0 .. Len(ages)] ==
        IF i = 0 THEN << >>
        ELSE IF ages[i] <= ReportEvery THEN Append(kept[i - 1], ages[i])
        ELSE kept[i - 1]
  IN kept[Len(ages)]

\* The samples of the last ReportEvery units, under the mutex too; once more
\* when the flag is set during the sleep.
Report(p) ==
  /\ pc[p] = "listening" /\ args[p].command \in {"hz", "bw"}
  /\ samples' = [samples EXCEPT ![p] = trim(p, recent(@))]
  /\ UNCHANGED <<args, confVars, pc, pubVars, printed, shown, g_stop, heard>>

find_types_by_size(size) == {t \in DOMAIN TypeSize : TypeSize[t] = size}

\* echo: the declared type if the size is right, otherwise raw bytes; without
\* --type the only type of that size, then text, then raw bytes.
Format(p, size, text) ==
  IF args[p].type # ""
  THEN IF size = TypeSize[args[p].type] THEN args[p].type ELSE "hex"
  ELSE IF Cardinality(find_types_by_size(size)) = 1
       THEN CHOOSE t \in find_types_by_size(size) : TRUE
       ELSE IF text THEN "text" ELSE "hex"

\* echo: on_msg, which ends the process at the last message of --count.
Echo(p, size, text) ==
  /\ pc[p] = "listening" /\ args[p].command = "echo"
  /\ printed[p] < MaxMessages
  /\ printed' = [printed EXCEPT ![p] = @ + 1]
  /\ shown' = [shown EXCEPT ![p] = [size |-> size, as |-> Format(p, size, text)]]
  /\ IF args[p].count > 0 /\ printed[p] + 1 >= args[p].count
     THEN Goto(p, "done") ELSE UNCHANGED pc
  /\ UNCHANGED <<args, confVars, pubVars, samples, g_stop, heard>>

OnSigint(p) ==
  /\ pc[p] = "listening" /\ ~g_stop[p]
  /\ g_stop' = [g_stop EXCEPT ![p] = TRUE]
  /\ UNCHANGED <<args, confVars, pc, pubVars, samples, printed, shown, heard>>

sees_stop(p) == g_stop[p]

\* The loop ends and the command's locals, which on_msg refers to, are gone;
\* the node, declared before them, is still there.
LeaveLoop(p) ==
  /\ pc[p] = "listening" /\ sees_stop(p)
  /\ Goto(p, "leaving")
  /\ UNCHANGED <<args, confVars, pubVars, subVars>>

\* A message in between is undefined behaviour: here nothing, or a crash.
LateMessage(p) ==
  /\ pc[p] = "leaving"
  /\ Goto(p, "killed")
  /\ UNCHANGED <<args, confVars, pubVars, subVars>>

\* The node's destructor joins its threads and main returns.
Return(p) ==
  /\ pc[p] = "leaving"
  /\ Goto(p, "done")
  /\ UNCHANGED <<args, confVars, pubVars, subVars>>

\* Ages are counted up to the first one that no report includes.
Aged(ages) == [i \in DOMAIN ages |-> IF ages[i] > ReportEvery THEN ages[i] ELSE ages[i] + 1]

UnitPasses ==
  /\ waited' = [p \in Proc |->
       IF pc[p] = "waiting" /\ waited[p] < Timeout THEN waited[p] + 1 ELSE waited[p]]
  /\ samples' = [p \in Proc |-> Aged(samples[p])]
  /\ heard' = [p \in Proc |-> recent(Aged(heard[p]))]
  /\ UNCHANGED <<args, confVars, pc, found, sent, printed, shown, g_stop>>

Step(p) ==
  \/ OpenConf(p) \/ WriteConf(p) \/ LoadConf(p) \/ Begin(p)
  \/ StopWaiting(p) \/ Publish(p) \/ LeaveLoop(p) \/ Return(p)

ToolNext ==
  \/ \E p \in Proc : \/ Step(p) \/ Kill(p) \/ IpcFails(p) \/ FindPeer(p) \/ Sample(p) \/ Report(p)
                     \/ OnSigint(p) \/ LateMessage(p)
                     \/ \E size \in Sizes, text \in BOOLEAN : Echo(p, size, text)
  \/ UnitPasses

\* A main thread runs until it waits for something, and time passes.  Nobody
\* has to send, to turn up, or to press Ctrl-C.
ToolSpec ==
  /\ ToolInit /\ [][ToolNext]_commandVars
  /\ WF_commandVars(UnitPasses) /\ \A p \in Proc : WF_commandVars(Step(p))

-----------------------------------------------------------------------------
(* Properties. *)

\* Every variable has its type.
ToolTypeOK ==
  /\ args \in CommandLines
  /\ pc \in [Proc -> Pc]
  /\ Address(conf) \/ conf \in {NoFile, Empty}
  /\ \A p \in Proc : /\ found[p] \in BOOLEAN /\ g_stop[p] \in BOOLEAN
                     /\ sent[p] \in 0 .. Repeats(p)
                     /\ printed[p] \in 0 .. MaxMessages
                     /\ waited[p] \in 0 .. Timeout
                     /\ samples[p] \in Seq(0 .. (ReportEvery + 1))
                     /\ heard[p] \in Seq(0 .. ReportEvery)

\* An address, once remembered, is there for the next invocation, except while
\* a save is under way or after a process died in the middle of one; a bad
\* --rlcore-ip does not erase it (rl_topic.cpp:288-301).
NotForgotten ==
  /\ \E p \in Proc : pc[p] \in {"ready", "waiting", "publishing", "listening", "done"}
                       /\ Address(using[p])
  /\ ~torn /\ \A p \in Proc : pc[p] # "saving"
  => Address(conf)

\* Main thread and receive thread share the samples: whenever hz or bw looks,
\* every message of the last ReportEvery units is there, up to the newest
\* Window of them for hz (rl_topic.cpp:551-583).
EveryArrivalCounted ==
  \A p \in Proc : args[p].command \in {"hz", "bw"} =>
    IsSuffix(IF args[p].command = "hz" THEN Newest(heard[p], Window) ELSE heard[p],
             samples[p])

\* Every command ends.  pub does not hang: with or without a peer it ends, and
\* if it was not killed it has published what it was asked to; Ctrl-C ends hz,
\* bw and echo, messages or not (rl_topic.cpp:542, 567, 765-798).
CommandsEnd ==
  \A p \in Proc :
    /\ pc[p] = "waiting"
         ~> (pc[p] = "killed" \/ (pc[p] = "done" /\ sent[p] = Repeats(p)))
    /\ g_stop[p] ~> pc[p] \in {"done", "killed"}
=============================================================================
