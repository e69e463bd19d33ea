---------------------------- MODULE RunTraffic ----------------------------
(***************************************************************************)
(* run_traffic.py on the host and traffic_agent.py in the clients: every   *)
(* client of a test runs a listener, the sources among them a sender, and  *)
(* the report counts the sequence numbers that are missing in the logs.    *)
(*                                                                         *)
(* The tool is run several times on the same clients and may be killed at  *)
(* any point.  What runs in a client does not end with it.                 *)
(***************************************************************************)
EXTENDS Integers, Sequences, FiniteSets, FiniteSetsExt

CONSTANTS Client,
          Tests       \* the first run, the second, ...: its flows
                      \* <<source, destination, vlan>>, and in `total` the packets
                      \* per flow, int(duration / interval)

MaxRuns == Len(Tests)   \* bound
Flow == UNION {Tests[i].flows : i \in 1..MaxRuns}

ASSUME TrafficAssumption ==
  /\ IsFiniteSet(Client)
  /\ Tests \in Seq([flows : SUBSET Flow, total : Nat \ {0}])
  /\ \A i \in 1..MaxRuns : Tests[i].flows # {}
  /\ \A f \in Flow : f[1] \in Client /\ f[2] \in Client /\ f = <<f[1], f[2], f[3]>>

\* What the sender of run `run` sends.  The destination address says both which
\* client and which VLAN.
Packet == [run : 1..MaxRuns, flow : Flow, seq : Nat]

VARIABLES
  pc,        \* where the tool is
  todo,      \* clients the current loop has still to deal with; `pending` while it waits
  run,       \* number of the current run
  flows,     \* active_flows_uni for all VLANs
  received,  \* received_logs
  listener,  \* per client: "off", "starting", "bound", "saving"
  ready,     \* clients that have the READY_FILE
  records,   \* per client: raw_records
  log,       \* per client: packets in traffic_agent_recv.json, {} if it is not there
  targets,   \* per client: flows in traffic_targets.txt
  sender,    \* per client: the sender that runs there
  wire,      \* packets sent, neither lost nor read from the socket yet
  dropped,   \* packets of this run that the network or the sending socket dropped
  doubts,    \* clients at which something else went wrong in this run
  unclean    \* clients that have files of an earlier run that were not removed

tool    == <<pc, todo, run, flows, received>>
agents  == <<listener, ready, records, log>>
sources == <<targets, sender>>
network == <<wire, dropped>>
faults  == <<doubts, unclean>>
vars    == <<tool, agents, sources, network, faults>>

\* A sender that has ended, or none.
Ended == [run |-> 0, flows |-> {}, seq |-> 0]

MutFinished(s) == s.flows = {} \/ s.seq > Tests[s.run].total

\* Its file is empty or missing (sys.exit), or its loop is done.
Finished(s) == s.flows = {} \/ s.seq >= Tests[s.run].total

Sources == {f[1] : f \in flows}
Active == {f[1] : f \in flows} \cup {f[2] : f \in flows}

Init ==
  /\ pc = "idle" /\ todo = {} /\ run = 0 /\ flows = {}
  /\ received = [c \in Client |-> {}]
  /\ listener = [c \in Client |-> "off"] /\ ready = {}
  /\ records = [c \in Client |-> {}] /\ log = [c \in Client |-> {}]
  /\ targets = [c \in Client |-> {}] /\ sender = [c \in Client |-> Ended]
  /\ wire = {} /\ dropped = {} /\ doubts = {} /\ unclean = {}
-----------------------------------------------------------------------------
(* What goes on in the clients and between them, whoever started it.       *)

\* A new listener takes the port, then says so; it listens all the same if it cannot.
Bind(c) ==
  /\ listener[c] = "starting"
  /\ listener' = [listener EXCEPT ![c] = "bound"]
  /\ records' = [records EXCEPT ![c] = {}]
  /\ ready' \in {ready \cup {c}, ready}
  /\ UNCHANGED <<tool, log, sources, network, faults>>

\* One round of a sender: the next sequence number to every target.  Some packets
\* are refused by the socket, which is not tried again, or lost by the network.
SendRound(c) ==
  LET s == sender[c]
      round == {[run |-> s.run, flow |-> f, seq |-> s.seq] : f \in s.flows}
  IN /\ ~Finished(s)
     /\ \E lost \in SUBSET round :
          /\ wire' = wire \cup (round \ lost)
          /\ dropped' = IF s.run = run THEN dropped \cup lost ELSE dropped
     /\ sender' = [sender EXCEPT ![c].seq = @ + 1]
     /\ UNCHANGED <<tool, agents, targets, faults>>

\* A packet comes to a client and is read, if a listener is there to read it.
Receive(p) ==
  LET c == p.flow[2] IN
  /\ p \in wire
  /\ wire' = wire \ {p}
  /\ records' = IF listener[c] = "bound" THEN [records EXCEPT ![c] = @ \cup {p}] ELSE records
  /\ UNCHANGED <<tool, listener, ready, log, sources, dropped, faults>>

\* A listener that was stopped writes its log, or fails to.
Save(c) ==
  /\ listener[c] = "saving"
  /\ listener' = [listener EXCEPT ![c] = "off"]
  /\ \/ log' = [log EXCEPT ![c] = records[c]]
     \/ log' = log
  /\ UNCHANGED <<tool, ready, records, sources, network, faults>>

Clients ==
  \/ \E c \in Client : Bind(c) \/ SendRound(c) \/ Save(c)
  \/ \E p \in wire : Receive(p)
-----------------------------------------------------------------------------
(* The tool.  Its loops go over sets of clients, in no particular order.    *)

\* Done with client c: the next one, or the next loop, over the clients `then`.
Step(here, c, next, then) ==
  /\ pc = here /\ c \in todo
  /\ IF todo = {c} THEN pc' = next /\ todo' = then
                   ELSE pc' = pc /\ todo' = todo \ {c}
  /\ UNCHANGED <<run, flows>>

\* Menu entries and VLANs to flows, both directions of an entry unless
\* --unidirectional.
FlowsOf(pairs, unidirectional, vlans) ==
  {<<p[1], p[2], v>> : p \in pairs, v \in vlans}
    \cup IF unidirectional THEN {} ELSE {<<p[2], p[1], v>> : p \in pairs, v \in vlans}

\* A run as far as the agents are copied.  Those that are refused, cancelled in the
\* menu or fail before that leave nothing.
Start ==
  /\ pc \in {"idle", "done"} /\ run < MaxRuns
  /\ run' = run + 1 /\ flows' = Tests[run'].flows
  /\ pc' = "clean" /\ todo' = Active'
  /\ received' = [c \in Client |-> {}]
  /\ dropped' = {} /\ doubts' = {} /\ unclean' = {}
  /\ UNCHANGED <<agents, sources, wire>>

MutClean(c) ==
  /\ Step("clean", c, "listen", Active)
  /\ listener' = [listener EXCEPT ![c] = "off"]
  /\ sender' = [sender EXCEPT ![c] = Ended]
  /\ wire' = {p \in wire : p.flow[1] # c}
  /\ records' = [records EXCEPT ![c] = {}]
  /\ ready' = ready \ {c}
  /\ UNCHANGED <<log, received, targets, dropped, faults>>

\* Kill what runs in client c, which frees the port and leaves its packets to the
\* network for at most as long as a listener takes to start; then remove its files.
\* Nothing can write them in between.  Neither result is looked at: the files may
\* stay, if there are any; the kill is taken to reach the client.
Clean(c) ==
  /\ Step("clean", c, "listen", Active)
  /\ listener' = [listener EXCEPT ![c] = "off"]
  /\ sender' = [sender EXCEPT ![c] = Ended]
  /\ wire' = {p \in wire : p.flow[1] # c}
  /\ records' = [records EXCEPT ![c] = {}]
  /\ \/ /\ ready' = ready \ {c} /\ log' = [log EXCEPT ![c] = {}]
        /\ UNCHANGED faults
     \/ /\ c \in ready \/ log[c] # {}
        /\ doubts' = doubts \cup {c} /\ unclean' = unclean \cup {c}
        /\ UNCHANGED <<ready, log>>
  /\ UNCHANGED <<received, targets, dropped>>

\* docker exec -d, its result unseen: a listener that does not come up stays here.
Listen(c) ==
  /\ Step("listen", c, "wait", Active)
  /\ listener' = [listener EXCEPT ![c] = "starting"]
  /\ UNCHANGED <<received, ready, records, log, sources, network, faults>>

MutFoundReady(c) ==
  /\ Step("wait", c, "targets", Sources)
  /\ UNCHANGED <<received, agents, sources, network, faults>>

\* The wait for the listeners: c has its ready file.
FoundReady(c) ==
  /\ c \in ready
  /\ Step("wait", c, "targets", Sources)
  /\ UNCHANGED <<received, agents, sources, network, faults>>

\* Ten seconds are over: a warning, and on without the rest.
WaitTimeout ==
  /\ pc = "wait"
  /\ pc' = "targets" /\ todo' = Sources
  /\ doubts' = doubts \cup todo
  /\ UNCHANGED <<run, flows, received, agents, sources, network, unclean>>

\* The target file of c.  If this fails unseen, that of an earlier run stays.
WriteTargets(c) ==
  /\ Step("targets", c, "send", {})
  /\ \/ /\ targets' = [targets EXCEPT ![c] = {f \in flows : f[1] = c}]
        /\ UNCHANGED doubts
     \/ /\ doubts' = doubts \cup {c}
        /\ UNCHANGED targets
  /\ UNCHANGED <<received, agents, sender, network, unclean>>

\* The senders run at the same time, each with a thread that waits for it.
StartSender(c) ==
  /\ pc = "send" /\ c \in Sources /\ sender[c].run # run
  /\ sender' = [sender EXCEPT ![c] = [run |-> run, flows |-> targets[c], seq |-> 0]]
  /\ UNCHANGED <<tool, agents, targets, network, faults>>

\* All threads are back.  After duration + 10 s a thread gives up on docker exec; the
\* sender, should it have started, is not stopped.
JoinSenders ==
  /\ pc = "send"
  /\ pc' = "stop" /\ todo' = Active
  /\ doubts' = doubts \cup {c \in Sources : sender[c].run # run \/ ~Finished(sender[c])}
  /\ UNCHANGED <<run, flows, received, agents, sources, network, unclean>>

\* SIGINT for the listener of c, half a second after the last sender.  What has not
\* been read by then never will be.  The signal may go astray, unseen.
StopListener(c) ==
  /\ Step("stop", c, "collect", Active)
  /\ \/ listener' = [listener EXCEPT ![c] = IF @ = "bound" THEN "saving" ELSE "off"]
     \/ listener' = listener
  /\ doubts' = IF \E p \in wire : p.flow[2] = c THEN doubts \cup {c} ELSE doubts
  /\ UNCHANGED <<received, ready, records, log, sources, network, unclean>>

\* The log of c, one second later.  It counts as empty if it is missing, half
\* written or cannot be fetched.
Collect(c) ==
  /\ Step("collect", c, "done", {})
  /\ \E fetched \in {log[c], {}} :
       /\ received' = [received EXCEPT ![c] = fetched]
       /\ doubts' = IF fetched # records[c] THEN doubts \cup {c} ELSE doubts
  /\ UNCHANGED <<agents, sources, network, unclean>>

\* The tool is killed, or fails.
Interrupt ==
  /\ pc \notin {"idle", "done"}
  /\ pc' = "idle" /\ todo' = {}
  /\ flows' = {} /\ received' = [c \in Client |-> {}]
  /\ dropped' = {} /\ doubts' = {} /\ unclean' = {}
  /\ UNCHANGED <<run, agents, sources, wire>>

Tool ==
  \/ Start
  \/ \E c \in Client :
       \/ Clean(c) \/ Listen(c) \/ FoundReady(c) \/ WriteTargets(c)
       \/ StartSender(c) \/ StopListener(c) \/ Collect(c)
  \/ WaitTimeout \/ JoinSenders \/ Interrupt

Next == Tool \/ Clients

Spec == Init /\ [][Next]_vars
-----------------------------------------------------------------------------
(* The report.                                                             *)

\* total_packets_expected.
Total == Tests[run].total

\* received_index: sequence numbers that count for a flow.  The source address
\* stands for source and VLAN.
Received(f) == {p.seq : p \in {q \in received[f[2]] : q.flow[1] = f[1] /\ q.flow[3] = f[3]}}

LostCount(f) == Total - Cardinality(Received(f))

Larger(a, b) == IF a > b THEN a ELSE b

\* One sequence number: an outage begins, goes on or ends.
Scan(s, seq, seqs) ==
  IF seq \notin seqs
  THEN IF s.in THEN s ELSE [s EXCEPT !.in = TRUE, !.start = seq]
  ELSE IF s.in THEN [s EXCEPT !.in = FALSE, !.max = Larger(@, seq - s.start)] ELSE s

\* The loop over them: its state when n of them are dealt with.
Scans(seqs, total) ==
  LET Loop[n \in 0..total] ==
        IF n = 0 THEN [in |-> FALSE, start |-> 0, max |-> 0] ELSE Scan(Loop[n - 1], n - 1, seqs)
  IN Loop

\* What is left open at the end is an outage too.
MaxOutage(seqs, total) ==
  LET end == Scans(seqs, total)[total]
  IN IF end.in THEN Larger(end.max, total - end.start) ELSE end.max

\* The outage of a flow, in packets.
Outage(f) == IF LostCount(f) > 0 THEN MaxOutage(Received(f), Total) ELSE 0
-----------------------------------------------------------------------------
(* Properties.                                                             *)

\* Types.  A sender never goes beyond its last packet.
TypeOK ==
  /\ pc \in {"idle", "clean", "listen", "wait", "targets", "send", "stop", "collect", "done"}
  /\ todo \subseteq Client /\ run \in 0..MaxRuns /\ flows \subseteq Flow
  /\ listener \in [Client -> {"off", "starting", "bound", "saving"}]
  /\ ready \subseteq Client /\ wire \cup dropped \subseteq Packet
  /\ \A c \in Client :
       /\ records[c] \cup log[c] \cup received[c] \subseteq Packet
       /\ targets[c] \subseteq Flow
       /\ sender[c].run \in 0..MaxRuns /\ sender[c].flows \subseteq Flow
       /\ sender[c].run = 0 \/ sender[c].seq \in 0..Tests[sender[c].run].total
  /\ unclean \subseteq doubts /\ doubts \subseteq Client

\* Whatever is counted for a flow was sent for it in this run: no log, sender or
\* listener that an earlier run left behind hides a loss, whichever clients that run
\* had and wherever it was killed; but for a log that could not be removed.
CountsOnlyThisRun ==
  pc = "done" => \A f \in flows : f[2] \notin unclean => \A p \in received[f[2]] :
    p.flow[1] = f[1] /\ p.flow[3] = f[3] => p.run = run

\* The longest run of sequence numbers in a set.
LongestGap(missing) ==
  Max({0} \cup {(r[2] - r[1]) + 1 : r \in {q \in missing \X missing : q[1]..q[2] \subseteq missing}})

\* No phantom losses: what is reported for a flow, as count and as outage, is what
\* the network or the sending socket dropped, unless something went wrong at the
\* client it comes from or the one it goes to.  This is what the wait for the
\* listeners to bind is for (Guard #3).
NoPhantomLoss ==
  pc = "done" => \A f \in flows :
    {f[1], f[2]} \cap doubts = {} =>
      LET missing == {p.seq : p \in {q \in dropped : q.flow = f}} IN
      LostCount(f) = Cardinality(missing) /\ Outage(f) = LongestGap(missing)
=============================================================================
