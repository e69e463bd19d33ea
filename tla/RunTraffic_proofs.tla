-------------------------- MODULE RunTraffic_proofs --------------------------
(***************************************************************************)
(* The safety properties of RunTraffic, proved for any clients, any        *)
(* sequence of runs over them and any number of packets, whatever fails    *)
(* unseen but for the kill at the beginning of a run, and wherever a run   *)
(* is killed.                                                              *)
(***************************************************************************)
EXTENDS RunTraffic, FiniteSetTheorems, TLAPS

\* The types of the functions, domains included.
DataInv ==
  /\ listener \in [Client -> {"off", "starting", "bound", "saving"}]
  /\ received \in [Client -> SUBSET Packet]
  /\ records \in [Client -> SUBSET Packet]
  /\ log \in [Client -> SUBSET Packet]
  /\ targets \in [Client -> SUBSET Flow]
  /\ sender \in [Client -> [run : 0..MaxRuns, flows : SUBSET Flow, seq : Nat]]

\* Packets are read where they are sent to, and sent where they come from.
RouteInv ==
  \A c \in Client :
    /\ \A p \in records[c] \cup log[c] \cup received[c] : p.flow[2] = c
    /\ \A f \in targets[c] \cup sender[c].flows : f[1] = c

\* Phases of a run: before any packet of it, and after all clients are cleaned.
Early   == {"clean", "listen", "wait", "targets"}
Sending == {"send", "stop", "collect", "done"}
Later   == (Early \cup Sending) \ {"clean"}

RunInv ==
  /\ todo \subseteq Active
  /\ pc = "targets" => todo \subseteq Sources
  /\ pc \in Early \cup Sending => run # 0 /\ flows = Tests[run].flows
  /\ \A p \in dropped : p.run = run
  /\ \A c \in Client : sender[c].run <= run /\ (sender[c].run = 0 => sender[c].flows = {})
  /\ pc \in Early => dropped = {} /\ \A c \in Client : sender[c].run # run
  /\ pc = "clean" => \A c \in Client : received[c] = {}

\* Clients of this run that nothing of an earlier run is left in.
Cleaned == IF pc = "clean" THEN Active \ todo ELSE IF pc \in Later THEN Active ELSE {}

\* What comes from a cleaned client is of this run.
FreshAt(c) ==
  c \in Cleaned =>
    /\ sender[c].run \in {0, run}
    /\ \A p \in wire : p.flow[1] = c => p.run = run /\ sender[c].run = run

FreshInv == \A c \in Client : FreshAt(c)

\* What was read at a client of this run was sent in this run, unless it comes
\* from a client that this run has nothing to do with.  So it is with its log, if
\* that of an earlier run was removed.
LogAt(c) ==
  /\ pc = "clean" /\ c \in Active \ todo =>
       records[c] = {} /\ (c \notin unclean => log[c] = {})
  /\ pc \in Later /\ c \in Active =>
       /\ \A p \in records[c] : p.flow[1] \in Active => p.run = run
       /\ c \notin unclean =>
            \A p \in log[c] \cup received[c] : p.flow[1] \in Active => p.run = run

LogInv == \A c \in Client : LogAt(c)

\* A tuple of variables, no fact about them: what goes wrong leaves a trace in it.
USE DEF faults

\* A listener that says so is bound, but for a ready file of an earlier run; one
\* that nothing went wrong with is bound until it is stopped.
ListenerAt(c) ==
  /\ \/ pc = "clean" /\ c \in Active \ todo
     \/ pc = "listen" /\ c \in todo
     => listener[c] = "off" /\ (c \notin unclean => c \notin ready)
  /\ pc \in {"listen", "wait"} /\ c \in Active \ unclean /\ c \in ready => listener[c] = "bound"
  /\ c \in Active \ doubts =>
       /\ \/ pc = "wait" /\ c \notin todo
          \/ pc \in {"targets", "send"}
          \/ pc = "stop" /\ c \in todo
          => listener[c] = "bound"
       /\ pc \in {"stop", "collect", "done"} => listener[c] # "starting"

ListenerInv == \A c \in Client : ListenerAt(c)

\* A source that nothing went wrong with sends to its targets, and has sent it all
\* when the listeners are stopped.
Own(c) == {f \in flows : f[1] = c}

SourceAt(c) ==
  c \in Sources \ doubts =>
    /\ pc = "send" \/ (pc = "targets" /\ c \notin todo) => targets[c] = Own(c)
    /\ pc \in Sending /\ sender[c].run = run => sender[c].flows = Own(c)
    /\ pc \in Sending \ {"send"} => sender[c].run = run /\ Finished(sender[c])

SourceInv == \A c \in Client : SourceAt(c)

Pkt(f, n)    == [run |-> run, flow |-> f, seq |-> n]
IsSent(f, n) == sender[f[1]].run = run /\ n < sender[f[1]].seq

IsStopped(c)   == pc \in {"collect", "done"} \/ (pc = "stop" /\ c \notin todo)
IsCollected(c) == pc = "done" \/ (pc = "collect" /\ c \notin todo)

\* Where a packet of a flow is that nothing went wrong with: what was sent is on
\* its way, dropped or read, and what is read is collected.
PacketAt(f, n) ==
  /\ Pkt(f, n) \in wire \cup dropped \cup records[f[2]] <=> IsSent(f, n)
  /\ Pkt(f, n) \in dropped => Pkt(f, n) \notin wire \cup records[f[2]]
  /\ IsStopped(f[2]) => Pkt(f, n) \notin wire
  /\ IsCollected(f[2]) => (Pkt(f, n) \in received[f[2]] <=> Pkt(f, n) \in records[f[2]])

DeliveryInv ==
  pc \in Later => \A f \in flows : {f[1], f[2]} \cap doubts = {} => \A n \in Nat : PacketAt(f, n)

\* The inductive invariant.
IInv ==
  /\ TypeOK /\ DataInv /\ RouteInv /\ RunInv /\ FreshInv /\ LogInv
  /\ ListenerInv /\ SourceInv /\ DeliveryInv
-----------------------------------------------------------------------------
(* The initial state, and the beginning and the early end of a run.        *)

\* What the assumption says of runs and flows.
LEMMA RunsFacts ==
  /\ MaxRuns \in Nat
  /\ \A i \in 1..MaxRuns : /\ Tests[i].flows \subseteq Flow /\ Tests[i].total \in Nat \ {0}
  /\ \A f \in Flow : f[1] \in Client /\ f[2] \in Client /\ f = <<f[1], f[2], f[3]>>
<1> DEFINE S == [flows : SUBSET Flow, total : Nat \ {0}]
<1>1. MaxRuns = Len(Tests) /\ Tests \in Seq(S)
  BY TrafficAssumption DEF MaxRuns
<1> HIDE DEF S
<1>2. MaxRuns \in Nat /\ \A i \in 1..MaxRuns : Tests[i] \in S
  BY <1>1
<1> QED
  BY <1>2, TrafficAssumption DEF S

\* Before the first run the invariant holds.
LEMMA InitIInv == Init => IInv
<1> SUFFICES ASSUME Init PROVE IInv
  OBVIOUS
<1> USE RunsFacts DEF Init, Ended
<1>1. Active = {} /\ Cleaned = {}
  BY DEF Active, Cleaned, Later, Early, Sending
<1>2. TypeOK /\ DataInv
  BY DEF TypeOK, DataInv
<1>3. RouteInv /\ RunInv
  BY DEF RouteInv, RunInv, Early, Sending
<1>4. FreshInv /\ LogInv /\ ListenerInv /\ SourceInv /\ DeliveryInv
  BY <1>1 DEF FreshInv, FreshAt, LogInv, LogAt, ListenerInv, ListenerAt, SourceInv, SourceAt,
              Sources, DeliveryInv, Later, Early, Sending
<1> QED
  BY <1>2, <1>3, <1>4 DEF IInv

\* A run begins, on whatever earlier ones left.
LEMMA StartStep ==
  ASSUME IInv, Start
  PROVE  IInv'
<1>1. /\ run' = run + 1 /\ run < MaxRuns /\ flows' = Tests[run'].flows
      /\ pc' = "clean" /\ todo' = Active' /\ received' = [c \in Client |-> {}]
      /\ dropped' = {} /\ doubts' = {} /\ unclean' = {}
      /\ UNCHANGED <<listener, ready, records, log, targets, sender, wire>>
  BY DEF Start, agents, sources
<1>2. run \in Nat /\ run' \in 1..MaxRuns /\ flows' \subseteq Flow
  <2>1. run \in 0..MaxRuns /\ MaxRuns \in Nat
    BY RunsFacts DEF IInv, TypeOK
  <2>2. run' \in 1..MaxRuns
    BY <1>1, <2>1
  <2> QED
    BY <1>1, <2>1, <2>2, RunsFacts
<1>3. Cleaned' = {} /\ Active' \subseteq Client
  BY <1>1, <1>2, RunsFacts DEF Cleaned, Active
<1>4. DataInv' /\ TypeOK'
  <2>1. DataInv'
    BY <1>1 DEF IInv, DataInv
  <2> QED
    BY <1>1, <1>2, <1>3, <2>1 DEF IInv, TypeOK, DataInv
<1>5. RouteInv'
  BY <1>1 DEF IInv, RouteInv
<1>6. RunInv'
  <2>1. \A c \in Client : sender[c].run <= run /\ sender[c].run \in Nat
    BY RunsFacts DEF IInv, RunInv, DataInv
  <2>2. \A c \in Client : sender[c].run <= run' /\ sender[c].run # run'
    BY <1>1, <1>2, <2>1
  <2> QED
    BY <1>1, <1>2, <2>2 DEF IInv, RunInv, Early, Sending
<1>7. FreshInv' /\ LogInv' /\ ListenerInv' /\ SourceInv' /\ DeliveryInv'
  BY <1>1, <1>3 DEF FreshInv, FreshAt, LogInv, LogAt, ListenerInv, ListenerAt, SourceInv, SourceAt,
              DeliveryInv, Later, Early, Sending
<1> QED
  BY <1>4, <1>5, <1>6, <1>7 DEF IInv

\* A run is killed: what it started in the clients goes on.
LEMMA InterruptStep ==
  ASSUME IInv, Interrupt
  PROVE  IInv'
<1>1. /\ pc' = "idle" /\ todo' = {} /\ flows' = {} /\ received' = [c \in Client |-> {}]
      /\ dropped' = {} /\ doubts' = {} /\ unclean' = {}
      /\ UNCHANGED <<run, listener, ready, records, log, targets, sender, wire>>
  BY DEF Interrupt, agents, sources
<1>2. Active' = {} /\ Cleaned' = {}
  BY <1>1 DEF Active, Cleaned, Later, Early, Sending
<1>3. DataInv' /\ TypeOK'
  <2>1. DataInv'
    BY <1>1 DEF IInv, DataInv
  <2> QED
    BY <1>1, <2>1 DEF IInv, TypeOK, DataInv
<1>4. RouteInv' /\ RunInv'
  BY <1>1, <1>2 DEF IInv, RouteInv, RunInv, Early, Sending
<1>5. FreshInv' /\ LogInv' /\ ListenerInv' /\ SourceInv' /\ DeliveryInv'
  BY <1>1, <1>2 DEF FreshInv, FreshAt, LogInv, LogAt, ListenerInv, ListenerAt, SourceInv, SourceAt,
              Sources, DeliveryInv, Later, Early, Sending
<1> QED
  BY <1>3, <1>4, <1>5 DEF IInv
-----------------------------------------------------------------------------
(* The loops of the tool.                                                  *)

\* One step of a loop.
LEMMA StepFacts ==
  ASSUME NEW here, NEW c, NEW next, NEW then, Step(here, c, next, then)
  PROVE  /\ pc = here /\ c \in todo /\ UNCHANGED <<run, flows, Sources, Active>>
         /\ \A k : Own(k)' = Own(k)
         /\ \A f, n : Pkt(f, n)' = Pkt(f, n)
         /\ \/ todo = {c} /\ pc' = next /\ todo' = then
            \/ todo # {c} /\ pc' = here /\ todo' = todo \ {c}
BY DEF Step, Sources, Active, Own, Pkt

\* A client is cleaned.
LEMMA CleanStep ==
  ASSUME IInv, NEW c \in Client, Clean(c)
  PROVE  IInv'
<1>1. /\ pc = "clean" /\ c \in todo /\ UNCHANGED <<run, flows, Sources, Active>>
      /\ \/ todo = {c} /\ pc' = "listen" /\ todo' = Active
         \/ todo # {c} /\ pc' = "clean" /\ todo' = todo \ {c}
      /\ \A f, n : Pkt(f, n)' = Pkt(f, n)
      /\ todo \subseteq Active /\ Sources \subseteq Active
  BY StepFacts DEF Clean, IInv, RunInv, Sources, Active
<1>2. /\ listener' = [listener EXCEPT ![c] = "off"]
      /\ sender' = [sender EXCEPT ![c] = Ended]
      /\ wire' = {p \in wire : p.flow[1] # c}
      /\ records' = [records EXCEPT ![c] = {}]
      /\ \/ /\ ready' = ready \ {c} /\ log' = [log EXCEPT ![c] = {}]
            /\ UNCHANGED <<doubts, unclean>>
         \/ /\ doubts' = doubts \cup {c} /\ unclean' = unclean \cup {c}
            /\ UNCHANGED <<ready, log>>
      /\ UNCHANGED <<received, targets, dropped>>
  BY DEF Clean
<1>3. DataInv /\ Ended \in [run : 0..MaxRuns, flows : SUBSET Flow, seq : Nat]
  BY RunsFacts DEF IInv, Ended
<1>4. /\ listener'[c] = "off" /\ sender'[c] = Ended /\ records'[c] = {}
      /\ log'[c] \in {log[c], {}} /\ ready' \in {ready, ready \ {c}}
      /\ c \notin unclean' => log'[c] = {} /\ c \notin ready'
      /\ unclean \subseteq unclean'
      /\ \A k \in Client : k # c =>
           /\ listener'[k] = listener[k] /\ sender'[k] = sender[k]
           /\ log'[k] = log[k] /\ records'[k] = records[k]
  BY <1>2, <1>3 DEF DataInv
<1>5. DataInv'
  BY <1>2, <1>3 DEF DataInv
<1>6. TypeOK'
  <2>1. todo' \subseteq Client /\ flows \subseteq Flow
    BY <1>1, RunsFacts DEF IInv, TypeOK, Active
  <2> QED
    BY <1>1, <1>2, <1>4, <1>5, <2>1 DEF IInv, TypeOK, DataInv, Ended
<1>7. RouteInv'
  BY <1>2, <1>4 DEF IInv, RouteInv, Ended
<1>8. RunInv'
  <2>1. run # 0 /\ run \in Nat
    BY <1>1, RunsFacts DEF IInv, RunInv, TypeOK, Early
  <2> QED
    BY <1>1, <1>2, <1>4, <2>1 DEF IInv, RunInv, Early, Sending, Ended
<1>9. /\ Cleaned' = Cleaned \cup {c}
      /\ \A k \in Cleaned' : k = c \/ (k # c /\ k \in Active \ todo /\ k \in Cleaned)
  BY <1>1 DEF Cleaned, Later, Early, Sending
<1>10. FreshInv'
  BY <1>1, <1>2, <1>4, <1>9 DEF IInv, FreshInv, FreshAt, Ended
<1>11. LogInv'
  <2> SUFFICES ASSUME NEW k \in Client PROVE LogAt(k)'
    BY DEF LogInv
  <2>1. CASE k \in Cleaned'
    <3>1. records'[k] = {} /\ received'[k] = {} /\ (k \notin unclean' => log'[k] = {})
      BY <1>1, <1>2, <1>4, <1>9, <2>1 DEF IInv, LogInv, LogAt, RunInv
    <3>2. /\ \A p : p \notin records'[k]
          /\ k \notin unclean' => \A p : p \notin log'[k] /\ p \notin received'[k]
      BY <3>1
    <3>3. pc' = "clean" /\ k \in Active' \ todo' =>
            records'[k] = {} /\ (k \notin unclean' => log'[k] = {})
      BY <3>1
    <3> QED
      BY <3>2, <3>3 DEF LogAt
  <2>2. CASE k \notin Cleaned'
    BY <1>1, <2>2 DEF LogAt, Cleaned, Later, Early, Sending
  <2> QED
    BY <2>1, <2>2
<1>12. ListenerInv'
  <2>1. \A k \in Client : k \in Cleaned' =>
          listener'[k] = "off" /\ (k \notin unclean' => k \notin ready')
    BY <1>1, <1>2, <1>4, <1>9 DEF IInv, ListenerInv, ListenerAt
  <2> QED
    BY <1>1, <2>1 DEF ListenerInv, ListenerAt, Cleaned, Later, Early, Sending
<1>13. SourceInv'
  BY <1>1 DEF SourceInv, SourceAt, Sending
<1>14. DeliveryInv'
  <2> SUFFICES ASSUME pc' = "listen", NEW f \in flows, NEW n \in Nat PROVE PacketAt(f, n)'
    BY <1>1 DEF DeliveryInv, Later, Early, Sending
  <2>1. f[1] \in Active /\ f[2] \in Active /\ f[1] \in Client /\ f[2] \in Client
    BY RunsFacts DEF Active, IInv, TypeOK
  <2>2. sender'[f[1]].run # run /\ records'[f[2]] = {} /\ dropped = {}
    BY <1>1, <1>8, <1>4, <2>1 DEF IInv, RunInv, LogInv, LogAt, Early
  <2>3. Pkt(f, n) \notin wire'
    BY <1>1, <1>10, <2>1, <2>2 DEF FreshInv, FreshAt, Cleaned, Later, Early, Pkt
  <2> QED
    BY <1>1, <1>2, <2>2, <2>3 DEF PacketAt, IsSent, IsStopped, IsCollected
<1> QED
  BY <1>5, <1>6, <1>7, <1>8, <1>10, <1>11, <1>12, <1>13, <1>14 DEF IInv

\* A listener is started.
LEMMA ListenStep ==
  ASSUME IInv, NEW c \in Client, Listen(c)
  PROVE  IInv'
<1>1. /\ pc = "listen" /\ c \in todo /\ UNCHANGED <<run, flows, Sources, Active>>
      /\ \/ todo = {c} /\ pc' = "wait" /\ todo' = Active
         \/ todo # {c} /\ pc' = "listen" /\ todo' = todo \ {c}
      /\ \A f, n : Pkt(f, n)' = Pkt(f, n)
      /\ todo \subseteq Active
  BY StepFacts DEF Listen, IInv, RunInv
<1>2. /\ listener' = [listener EXCEPT ![c] = "starting"]
      /\ UNCHANGED <<received, ready, records, log, targets, sender, wire, dropped, doubts, unclean>>
  BY DEF Listen, sources, network
<1>3. /\ listener' \in [Client -> {"off", "starting", "bound", "saving"}]
      /\ listener'[c] = "starting"
      /\ \A k \in Client : k # c => listener'[k] = listener[k]
  BY <1>2 DEF IInv, DataInv
<1>4. DataInv' /\ RouteInv'
  BY <1>1, <1>2, <1>3 DEF IInv, DataInv, RouteInv
<1>5. TypeOK'
  <2>1. todo' \subseteq Client
    BY <1>1, RunsFacts DEF IInv, TypeOK, Active
  <2> QED
    BY <1>1, <1>2, <1>3, <2>1 DEF IInv, TypeOK
<1>6. RunInv'
  BY <1>1, <1>2 DEF IInv, RunInv, Early, Sending
<1>7. FreshInv' /\ LogInv'
  BY <1>1, <1>2 DEF IInv, FreshInv, FreshAt, Cleaned, LogInv, LogAt, Later, Early, Sending
<1>8. ListenerInv'
  BY <1>1, <1>2, <1>3 DEF IInv, ListenerInv, ListenerAt
<1>9. SourceInv'
  BY <1>1 DEF SourceInv, SourceAt, Sending
<1>10. DeliveryInv'
  BY <1>1, <1>2 DEF IInv, DeliveryInv, PacketAt, IsSent, IsStopped, IsCollected, Later, Early
<1> QED
  BY <1>4, <1>5, <1>6, <1>7, <1>8, <1>9, <1>10 DEF IInv

\* A listener has said that it is there, or the wait for all is over.
LEMMA WaitStep ==
  ASSUME IInv, (\E c \in Client : FoundReady(c)) \/ WaitTimeout
  PROVE  IInv'
<1> DEFINE Looked ==
             /\ pc = "wait" /\ UNCHANGED <<run, flows, Sources, Active>>
             /\ UNCHANGED <<received, listener, ready, records, log, targets, sender, wire, dropped>>
             /\ \/ pc' = "targets" /\ todo' = Sources
                \/ pc' = "wait" /\ todo' \subseteq todo
             /\ doubts \subseteq doubts' /\ doubts' \subseteq doubts \cup todo
             /\ unclean' = unclean
             /\ \A c \in Client : c \in todo \ doubts' /\ (pc' = "targets" \/ c \notin todo')
                                  => c \in ready
<1>1. Looked
  <2>1. ASSUME NEW c \in Client, FoundReady(c) PROVE Looked
    BY <2>1, StepFacts DEF FoundReady, agents, sources, network
  <2>2. CASE WaitTimeout
    BY <2>2 DEF WaitTimeout, agents, sources, network, Sources, Active
  <2> QED
    BY <2>1, <2>2
<1>2. todo \subseteq Active /\ Sources \subseteq Active /\ (\A f, n : Pkt(f, n)' = Pkt(f, n))
  BY <1>1 DEF IInv, RunInv, Sources, Active, Pkt
<1>3. DataInv' /\ RouteInv'
  BY <1>1 DEF IInv, DataInv, RouteInv
<1>4. TypeOK'
  <2>1. Sources \subseteq Client
    BY RunsFacts DEF IInv, TypeOK, Sources
  <2> QED
    BY <1>1, <2>1 DEF IInv, TypeOK
<1>5. RunInv'
  BY <1>1, <1>2 DEF IInv, RunInv, Early, Sending
<1>6. FreshInv' /\ LogInv'
  BY <1>1 DEF IInv, FreshInv, FreshAt, Cleaned, LogInv, LogAt, Later, Early, Sending
<1>7. ListenerInv'
  <2>1. unclean \subseteq doubts
    BY DEF IInv, TypeOK
  <2>2. ASSUME NEW k \in Client PROVE ListenerAt(k)'
    <3>1. ListenerAt(k)
      BY DEF IInv, ListenerInv
    <3>2. k \in ready /\ k \in Active \ doubts' => listener[k] = "bound"
      BY <1>1, <2>1, <3>1 DEF ListenerAt
    <3> QED
      BY <1>1, <1>2, <3>1, <3>2 DEF ListenerAt
  <2> QED
    BY <2>2 DEF ListenerInv
<1>8. SourceInv'
  BY <1>1 DEF SourceInv, SourceAt, Sending
<1>9. DeliveryInv'
  BY <1>1, <1>2 DEF IInv, DeliveryInv, PacketAt, IsSent, IsStopped, IsCollected, Later, Early
<1> QED
  BY <1>3, <1>4, <1>5, <1>6, <1>7, <1>8, <1>9 DEF IInv

\* A file of targets is written, or it is in doubt what it says.
LEMMA WriteTargetsStep ==
  ASSUME IInv, NEW c \in Client, WriteTargets(c)
  PROVE  IInv'
<1>1. /\ pc = "targets" /\ c \in todo /\ UNCHANGED <<run, flows, Sources, Active>>
      /\ \/ todo = {c} /\ pc' = "send" /\ todo' = {}
         \/ todo # {c} /\ pc' = "targets" /\ todo' = todo \ {c}
      /\ todo \subseteq Sources /\ todo \subseteq Active
  BY StepFacts DEF WriteTargets, IInv, RunInv
<1>2. /\ \A k : Own(k)' = Own(k)
      /\ \A f, n : Pkt(f, n)' = Pkt(f, n)
  BY StepFacts DEF WriteTargets
<1>3. /\ \/ targets' = [targets EXCEPT ![c] = Own(c)] /\ doubts' = doubts
         \/ targets' = targets /\ doubts' = doubts \cup {c}
      /\ UNCHANGED <<received, listener, ready, records, log, sender, wire, dropped, unclean>>
  BY DEF WriteTargets, agents, network, Own
<1>4. /\ targets' \in [Client -> SUBSET Flow] /\ doubts \subseteq doubts' /\ doubts' \subseteq doubts \cup {c}
      /\ c \notin doubts' => targets'[c] = Own(c)
      /\ \A k \in Client : targets'[k] = targets[k] \/ (k = c /\ targets'[k] = Own(c))
  <2>1. Own(c) \subseteq Flow /\ targets \in [Client -> SUBSET Flow]
    BY DEF IInv, TypeOK, DataInv, Own
  <2> QED
    BY <1>3, <2>1
<1>5. DataInv'
  BY <1>3, <1>4 DEF IInv, DataInv
<1>6. RouteInv'
  BY <1>3, <1>4 DEF IInv, RouteInv, Own
<1>7. TypeOK'
  BY <1>1, <1>3, <1>4 DEF IInv, TypeOK
<1>8. RunInv'
  BY <1>1, <1>3 DEF IInv, RunInv, Early, Sending
<1>9. FreshInv' /\ LogInv'
  BY <1>1, <1>3 DEF IInv, FreshInv, FreshAt, Cleaned, LogInv, LogAt, Later, Early, Sending
<1>10. ListenerInv'
  BY <1>1, <1>3, <1>4 DEF IInv, ListenerInv, ListenerAt
<1>11. SourceInv'
  <2>1. \A k \in Client : sender[k].run # run
    BY <1>1 DEF IInv, RunInv, Early
  <2>2. ASSUME NEW k \in Sources \ doubts', pc' = "send" \/ k \notin todo', k \in Client
        PROVE  targets'[k] = Own(k)
    BY <1>1, <1>3, <1>4, <2>2 DEF IInv, SourceInv, SourceAt
  <2> QED
    BY <1>1, <1>2, <1>3, <2>1, <2>2 DEF SourceInv, SourceAt, Sending
<1>12. DeliveryInv'
  BY <1>1, <1>2, <1>3, <1>4 DEF IInv, DeliveryInv, PacketAt, IsSent, IsStopped, IsCollected, Later, Early
<1> QED
  BY <1>5, <1>6, <1>7, <1>8, <1>9, <1>10, <1>11, <1>12 DEF IInv

\* A sender starts, with whatever its file of targets says.
LEMMA StartSenderStep ==
  ASSUME IInv, NEW c \in Client, StartSender(c)
  PROVE  IInv'
<1>1. /\ pc = "send" /\ c \in Sources /\ sender[c].run # run
      /\ UNCHANGED <<pc, todo, run, flows, received, Sources, Active, Cleaned>>
      /\ UNCHANGED <<listener, ready, records, log, targets, wire, dropped, doubts, unclean>>
      /\ \A k : Own(k)' = Own(k)
      /\ \A f, n : Pkt(f, n)' = Pkt(f, n)
  BY DEF StartSender, tool, agents, network, Sources, Active, Cleaned, Own, Pkt
<1>2. /\ sender' = [sender EXCEPT ![c] = [run |-> run, flows |-> targets[c], seq |-> 0]]
      /\ sender \in [Client -> [run : 0..MaxRuns, flows : SUBSET Flow, seq : Nat]]
      /\ run \in 0..MaxRuns /\ run # 0 /\ targets[c] \subseteq Flow
  BY <1>1 DEF StartSender, IInv, DataInv, TypeOK, RunInv, Sending
<1>3. /\ sender'[c] = [run |-> run, flows |-> targets[c], seq |-> 0]
      /\ sender' \in [Client -> [run : 0..MaxRuns, flows : SUBSET Flow, seq : Nat]]
      /\ \A k \in Client : k # c => sender'[k] = sender[k]
  BY <1>2
<1>4. DataInv' /\ RouteInv'
  <2>1. DataInv'
    BY <1>1, <1>3 DEF IInv, DataInv
  <2>2. RouteInv'
    BY <1>1, <1>3 DEF IInv, RouteInv
  <2> QED
    BY <2>1, <2>2
<1>5. TypeOK'
  <2>1. Tests[run].total \in Nat \ {0}
    BY <1>2, RunsFacts
  <2>2. 0 \in 0..Tests[run].total
    BY <2>1
  <2> QED
    BY <1>1, <1>2, <1>3, <2>2 DEF IInv, TypeOK
<1>6. RunInv'
  <2>1. run <= run
    BY <1>2, RunsFacts
  <2> QED
    BY <1>1, <1>2, <1>3, <2>1 DEF IInv, RunInv, Early, Sending
<1>7. \A p \in wire : p.flow[1] # c
  BY <1>1 DEF IInv, FreshInv, FreshAt, Cleaned, Later, Early, Sending, Sources, Active
<1>8. FreshInv' /\ LogInv' /\ ListenerInv'
  <2>1. FreshInv'
    BY <1>1, <1>3, <1>7 DEF IInv, FreshInv, FreshAt
  <2> QED
    BY <1>1, <2>1 DEF IInv, LogInv, LogAt, ListenerInv, ListenerAt
<1>9. SourceInv'
  BY <1>1, <1>3 DEF IInv, SourceInv, SourceAt, Sending
<1>10. DeliveryInv'
  <2> SUFFICES ASSUME NEW f \in flows, NEW n \in Nat, {f[1], f[2]} \cap doubts = {}
               PROVE  PacketAt(f, n)'
    BY <1>1 DEF DeliveryInv
  <2>1. PacketAt(f, n) /\ f[1] \in Client
    BY <1>1, RunsFacts DEF IInv, DeliveryInv, Later, Early, Sending, TypeOK
  <2>2. IsSent(f, n)' <=> IsSent(f, n)
    <3>1. CASE f[1] = c
      BY <1>1, <1>3, <3>1 DEF IsSent
    <3>2. CASE f[1] # c
      BY <1>1, <1>3, <2>1, <3>2 DEF IsSent
    <3> QED
      BY <3>1, <3>2
  <2> QED
    BY <1>1, <2>1, <2>2 DEF PacketAt, IsStopped, IsCollected
<1> QED
  BY <1>4, <1>5, <1>6, <1>8, <1>9, <1>10 DEF IInv

\* The wait for the senders is over.
LEMMA JoinSendersStep ==
  ASSUME IInv, JoinSenders
  PROVE  IInv'
<1>1. /\ pc = "send" /\ pc' = "stop" /\ todo' = Active
      /\ doubts' = doubts \cup {c \in Sources : sender[c].run # run \/ ~Finished(sender[c])}
      /\ UNCHANGED <<run, flows, received, Sources, Active>>
      /\ UNCHANGED <<listener, ready, records, log, targets, sender, wire, dropped, unclean>>
      /\ \A k : Own(k)' = Own(k)
      /\ \A f, n : Pkt(f, n)' = Pkt(f, n)
      /\ \A s : Finished(s)' = Finished(s)
  BY DEF JoinSenders, agents, sources, network, Sources, Active, Own, Pkt, Finished
<1>2. Active \subseteq Client /\ Sources \subseteq Client
  BY RunsFacts DEF IInv, TypeOK, Active, Sources
<1>3. DataInv' /\ RouteInv'
  BY <1>1 DEF IInv, DataInv, RouteInv
<1>4. TypeOK'
  BY <1>1, <1>2 DEF IInv, TypeOK
<1>5. RunInv'
  BY <1>1 DEF IInv, RunInv, Early, Sending
<1>6. FreshInv' /\ LogInv'
  BY <1>1 DEF IInv, FreshInv, FreshAt, Cleaned, LogInv, LogAt, Later, Early, Sending
<1>7. ListenerInv'
  BY <1>1 DEF IInv, ListenerInv, ListenerAt
<1>8. SourceInv'
  BY <1>1 DEF IInv, SourceInv, SourceAt, Sending
<1>9. DeliveryInv'
  <2> SUFFICES ASSUME NEW f \in flows, NEW n \in Nat, {f[1], f[2]} \cap doubts = {}
               PROVE  PacketAt(f, n)'
    BY <1>1 DEF DeliveryInv
  <2>1. PacketAt(f, n) /\ f[2] \in Active
    BY <1>1 DEF IInv, DeliveryInv, Later, Early, Sending, Active
  <2> QED
    BY <1>1, <2>1 DEF PacketAt, IsSent, IsStopped, IsCollected
<1> QED
  BY <1>3, <1>4, <1>5, <1>6, <1>7, <1>8, <1>9 DEF IInv

\* A listener is stopped; a packet of a flow that nothing went wrong with is not
\* on its way to it any more.
LEMMA StopListenerStep ==
  ASSUME IInv, NEW c \in Client, StopListener(c)
  PROVE  IInv'
<1>1. /\ pc = "stop" /\ c \in todo /\ UNCHANGED <<run, flows, Sources, Active>>
      /\ \/ todo = {c} /\ pc' = "collect" /\ todo' = Active
         \/ todo # {c} /\ pc' = "stop" /\ todo' = todo \ {c}
      /\ \A k : Own(k)' = Own(k)
      /\ \A f, n : Pkt(f, n)' = Pkt(f, n)
      /\ \A s : Finished(s)' = Finished(s)
      /\ todo \subseteq Active /\ Active \subseteq Client
  BY StepFacts, RunsFacts DEF StopListener, IInv, RunInv, Finished, TypeOK, Active
<1>2. /\ \/ listener' = [listener EXCEPT ![c] = IF @ = "bound" THEN "saving" ELSE "off"]
         \/ listener' = listener
      /\ doubts' = IF \E p \in wire : p.flow[2] = c THEN doubts \cup {c} ELSE doubts
      /\ UNCHANGED <<received, ready, records, log, targets, sender, wire, dropped, unclean>>
  BY DEF StopListener, sources, network
<1>3. /\ listener' \in [Client -> {"off", "starting", "bound", "saving"}]
      /\ \A k \in Client : k # c => listener'[k] = listener[k]
      /\ listener'[c] = "starting" => listener[c] = "starting"
      /\ doubts \subseteq doubts' /\ doubts' \subseteq doubts \cup {c}
      /\ c \notin doubts' => \A p \in wire : p.flow[2] # c
  BY <1>2 DEF IInv, DataInv
<1>4. DataInv' /\ RouteInv'
  <2>1. DataInv'
    BY <1>2, <1>3 DEF IInv, DataInv
  <2>2. RouteInv'
    BY <1>2, <1>3 DEF IInv, RouteInv
  <2> QED
    BY <2>1, <2>2
<1>5. TypeOK'
  BY <1>1, <1>2, <1>3 DEF IInv, TypeOK
<1>6. RunInv'
  BY <1>1, <1>2 DEF IInv, RunInv, Early, Sending
<1>7. FreshInv' /\ LogInv'
  BY <1>1, <1>2 DEF IInv, FreshInv, FreshAt, Cleaned, LogInv, LogAt, Later, Early, Sending
<1>8. ListenerInv'
  BY <1>1, <1>3 DEF IInv, ListenerInv, ListenerAt
<1>9. SourceInv'
  BY <1>1, <1>2, <1>3 DEF IInv, SourceInv, SourceAt, Sending
<1>10. DeliveryInv'
  <2> SUFFICES ASSUME NEW f \in flows, NEW n \in Nat, {f[1], f[2]} \cap doubts' = {}
               PROVE  PacketAt(f, n)'
    BY <1>1 DEF DeliveryInv
  <2>1. PacketAt(f, n) /\ f[2] \in Active /\ {f[1], f[2]} \cap doubts = {}
    BY <1>1, <1>3 DEF IInv, DeliveryInv, Later, Early, Sending, Active
  <2>2. f[2] = c => Pkt(f, n) \notin wire
    BY <1>3 DEF Pkt
  <2> QED
    BY <1>1, <1>2, <2>1, <2>2 DEF PacketAt, IsSent, IsStopped, IsCollected
<1> QED
  BY <1>4, <1>5, <1>6, <1>7, <1>8, <1>9, <1>10 DEF IInv

\* A log is collected; it is all the listener has read, if nothing went wrong.
LEMMA CollectStep ==
  ASSUME IInv, NEW c \in Client, Collect(c)
  PROVE  IInv'
<1>1. /\ pc = "collect" /\ c \in todo /\ UNCHANGED <<run, flows, Sources, Active>>
      /\ \/ todo = {c} /\ pc' = "done" /\ todo' = {}
         \/ todo # {c} /\ pc' = "collect" /\ todo' = todo \ {c}
      /\ \A k : Own(k)' = Own(k)
      /\ \A f, n : Pkt(f, n)' = Pkt(f, n)
      /\ \A s : Finished(s)' = Finished(s)
      /\ todo \subseteq Active /\ Active \subseteq Client
  BY StepFacts, RunsFacts DEF Collect, IInv, RunInv, Finished, TypeOK, Active
<1> DEFINE fetched == received'[c]
<1>2. /\ received' = [received EXCEPT ![c] = fetched] /\ fetched \in {log[c], {}}
      /\ doubts' = IF fetched # records[c] THEN doubts \cup {c} ELSE doubts
      /\ UNCHANGED <<listener, ready, records, log, targets, sender, wire, dropped, unclean>>
  BY DEF Collect, agents, sources, network, IInv, DataInv
<1> HIDE DEF fetched
<1>3. /\ received' \in [Client -> SUBSET Packet] /\ received'[c] = fetched
      /\ \A k \in Client : k # c => received'[k] = received[k]
      /\ doubts \subseteq doubts' /\ doubts' \subseteq doubts \cup {c}
      /\ c \notin doubts' => fetched = records[c]
  BY <1>2 DEF fetched, IInv, DataInv
<1>4. DataInv' /\ RouteInv'
  BY <1>2, <1>3 DEF IInv, DataInv, RouteInv
<1>5. TypeOK'
  BY <1>1, <1>2, <1>3, <1>4 DEF IInv, TypeOK, DataInv
<1>6. RunInv'
  BY <1>1, <1>2 DEF IInv, RunInv, Early, Sending
<1>7. FreshInv' /\ LogInv'
  <2>1. FreshInv'
    BY <1>1, <1>2 DEF IInv, FreshInv, FreshAt, Cleaned, Later, Early, Sending
  <2>2. LogInv'
    BY <1>1, <1>2, <1>3 DEF IInv, LogInv, LogAt, Later, Early, Sending
  <2> QED
    BY <2>1, <2>2
<1>8. ListenerInv'
  BY <1>1, <1>2, <1>3 DEF IInv, ListenerInv, ListenerAt
<1>9. SourceInv'
  BY <1>1, <1>2, <1>3 DEF IInv, SourceInv, SourceAt, Sending
<1>10. DeliveryInv'
  <2> SUFFICES ASSUME NEW f \in flows, NEW n \in Nat, {f[1], f[2]} \cap doubts' = {}
               PROVE  PacketAt(f, n)'
    BY <1>1 DEF DeliveryInv
  <2>1. PacketAt(f, n) /\ f[2] \in Active /\ {f[1], f[2]} \cap doubts = {}
    BY <1>1, <1>3 DEF IInv, DeliveryInv, Later, Early, Sending, Active
  <2> QED
    BY <1>1, <1>2, <1>3, <2>1 DEF PacketAt, IsSent, IsStopped, IsCollected
<1> QED
  BY <1>4, <1>5, <1>6, <1>7, <1>8, <1>9, <1>10 DEF IInv
-----------------------------------------------------------------------------
(* The clients.                                                            *)

\* Nothing of the tool changes.
LEMMA ToolFacts ==
  ASSUME UNCHANGED tool
  PROVE  /\ UNCHANGED <<pc, todo, run, flows, received, Sources, Active, Cleaned>>
         /\ \A k : Own(k)' = Own(k)
         /\ \A f, n : Pkt(f, n)' = Pkt(f, n)
         /\ \A s : Finished(s)' = Finished(s)
         /\ \A k : IsStopped(k)' = IsStopped(k) /\ IsCollected(k)' = IsCollected(k)
BY DEF tool, Sources, Active, Cleaned, Own, Pkt, Finished, IsStopped, IsCollected

\* A listener takes its port and begins with no records.
LEMMA BindStep ==
  ASSUME IInv, NEW c \in Client, Bind(c)
  PROVE  IInv'
<1>1. /\ listener[c] = "starting"
      /\ listener' = [listener EXCEPT ![c] = "bound"]
      /\ records' = [records EXCEPT ![c] = {}]
      /\ ready' \in {ready \cup {c}, ready}
      /\ UNCHANGED tool /\ UNCHANGED <<log, targets, sender, wire, dropped, doubts, unclean>>
  BY DEF Bind, sources, network
<1>2. /\ UNCHANGED <<pc, todo, run, flows, received, Sources, Active, Cleaned>>
      /\ \A k : Own(k)' = Own(k)
      /\ \A f, n : Pkt(f, n)' = Pkt(f, n)
      /\ \A s : Finished(s)' = Finished(s)
      /\ \A k : IsStopped(k)' = IsStopped(k) /\ IsCollected(k)' = IsCollected(k)
  BY <1>1, ToolFacts
<1>3. /\ listener' \in [Client -> {"off", "starting", "bound", "saving"}]
      /\ records' \in [Client -> SUBSET Packet]
      /\ listener'[c] = "bound" /\ records'[c] = {}
      /\ \A k \in Client : k # c => listener'[k] = listener[k] /\ records'[k] = records[k]
  BY <1>1 DEF IInv, DataInv
<1>4. DataInv' /\ RouteInv'
  BY <1>1, <1>2, <1>3 DEF IInv, DataInv, RouteInv
<1>5. TypeOK'
  BY <1>1, <1>2, <1>3 DEF IInv, TypeOK
<1>6. RunInv' /\ FreshInv'
  BY <1>1, <1>2 DEF IInv, RunInv, FreshInv, FreshAt
<1>7. LogInv'
  BY <1>1, <1>2, <1>3 DEF IInv, LogInv, LogAt
<1>8. ListenerInv'
  BY <1>1, <1>2, <1>3 DEF IInv, ListenerInv, ListenerAt
<1>9. SourceInv'
  BY <1>1, <1>2 DEF IInv, SourceInv, SourceAt
<1>10. DeliveryInv'
  <2> SUFFICES ASSUME pc \in Later, NEW f \in flows, NEW n \in Nat, {f[1], f[2]} \cap doubts = {}
               PROVE  PacketAt(f, n)'
    BY <1>1, <1>2 DEF DeliveryInv
  <2>1. /\ PacketAt(f, n) /\ f[1] \in Client /\ f[2] \in Client
        /\ f[1] \in Active /\ f[2] \in Active \ doubts
    BY RunsFacts DEF IInv, DeliveryInv, TypeOK, Active
  <2>2. IsSent(f, n)' = IsSent(f, n)
    BY <1>1, <1>2 DEF IsSent
  <2>3. CASE f[2] # c
    BY <1>1, <1>2, <1>3, <2>1, <2>2, <2>3 DEF PacketAt
  <2>4. CASE f[2] = c
    <3>1. pc \in {"listen", "wait"}
      BY <1>1, <2>1, <2>4 DEF IInv, ListenerInv, ListenerAt, Later, Early, Sending
    <3>2. ~IsSent(f, n) /\ ~IsCollected(f[2])
      BY <2>1, <3>1 DEF IsSent, IsCollected, IInv, RunInv, Early
    <3> QED
      BY <1>1, <1>2, <1>3, <2>1, <2>2, <2>4, <3>2 DEF PacketAt
  <2> QED
    BY <2>3, <2>4
<1> QED
  BY <1>4, <1>5, <1>6, <1>7, <1>8, <1>9, <1>10 DEF IInv

\* A listener that was stopped writes its log.
LEMMA SaveStep ==
  ASSUME IInv, NEW c \in Client, Save(c)
  PROVE  IInv'
<1>1. /\ listener[c] = "saving"
      /\ listener' = [listener EXCEPT ![c] = "off"]
      /\ log' = [log EXCEPT ![c] = records[c]] \/ log' = log
      /\ UNCHANGED tool /\ UNCHANGED <<ready, records, targets, sender, wire, dropped, doubts, unclean>>
  BY DEF Save, sources, network
<1>2. /\ UNCHANGED <<pc, todo, run, flows, received, Sources, Active, Cleaned>>
      /\ \A k : Own(k)' = Own(k)
      /\ \A f, n : Pkt(f, n)' = Pkt(f, n)
      /\ \A s : Finished(s)' = Finished(s)
      /\ \A k : IsStopped(k)' = IsStopped(k) /\ IsCollected(k)' = IsCollected(k)
  BY <1>1, ToolFacts
<1>3. /\ listener' \in [Client -> {"off", "starting", "bound", "saving"}]
      /\ log' \in [Client -> SUBSET Packet]
      /\ listener'[c] = "off"
      /\ \A k \in Client : k # c => listener'[k] = listener[k]
      /\ \A k \in Client : log'[k] = log[k] \/ log'[k] = records[k]
  BY <1>1 DEF IInv, DataInv
<1>4. DataInv' /\ RouteInv'
  BY <1>1, <1>2, <1>3 DEF IInv, DataInv, RouteInv
<1>5. TypeOK'
  BY <1>1, <1>2, <1>3, <1>4 DEF IInv, TypeOK, DataInv
<1>6. RunInv' /\ FreshInv'
  BY <1>1, <1>2 DEF IInv, RunInv, FreshInv, FreshAt
<1>7. LogInv'
  BY <1>1, <1>2, <1>3 DEF IInv, LogInv, LogAt
<1>8. ListenerInv'
  BY <1>1, <1>2, <1>3 DEF IInv, ListenerInv, ListenerAt
<1>9. SourceInv'
  BY <1>1, <1>2 DEF IInv, SourceInv, SourceAt
<1>10. DeliveryInv'
  BY <1>1, <1>2 DEF IInv, DeliveryInv, PacketAt, IsSent
<1> QED
  BY <1>4, <1>5, <1>6, <1>7, <1>8, <1>9, <1>10 DEF IInv

\* A packet comes in, and is lost only if it belongs to no flow that nothing
\* went wrong with.
LEMMA ReceiveStep ==
  ASSUME IInv, NEW p \in wire, Receive(p)
  PROVE  IInv'
<1> DEFINE c == p.flow[2]
<1>1. /\ wire' = wire \ {p}
      /\ records' = IF listener[c] = "bound" THEN [records EXCEPT ![c] = @ \cup {p}] ELSE records
      /\ UNCHANGED tool /\ UNCHANGED <<listener, ready, log, targets, sender, dropped, doubts, unclean>>
  BY DEF Receive, sources
<1>2. /\ UNCHANGED <<pc, todo, run, flows, received, Sources, Active, Cleaned>>
      /\ \A k : Own(k)' = Own(k)
      /\ \A f, n : Pkt(f, n)' = Pkt(f, n)
      /\ \A s : Finished(s)' = Finished(s)
      /\ \A k : IsStopped(k)' = IsStopped(k) /\ IsCollected(k)' = IsCollected(k)
  BY <1>1, ToolFacts
<1>3. p \in Packet /\ p.flow \in Flow /\ c \in Client
  BY RunsFacts DEF IInv, TypeOK, Packet
<1> HIDE DEF c
<1>4. /\ records' \in [Client -> SUBSET Packet]
      /\ \A k \in Client : k # c \/ listener[c] # "bound" => records'[k] = records[k]
      /\ listener[c] = "bound" => records'[c] = records[c] \cup {p}
  BY <1>1, <1>3 DEF IInv, DataInv
<1>5. \A k \in Client : \A q \in records'[k] : q \in records[k] \/ (q = p /\ k = c /\ listener[c] = "bound")
  BY <1>4
<1>6. DataInv'
  BY <1>1, <1>2, <1>4 DEF IInv, DataInv
<1>7. RouteInv'
  BY <1>1, <1>2, <1>5 DEF IInv, RouteInv, c
<1>8. TypeOK'
  BY <1>1, <1>2, <1>6 DEF IInv, TypeOK, DataInv
<1>9. RunInv' /\ FreshInv'
  BY <1>1, <1>2 DEF IInv, RunInv, FreshInv, FreshAt
<1>10. LogInv'
  <2>1. ASSUME NEW k \in Client, pc = "clean", k \in Active \ todo
        PROVE  records'[k] = {} /\ (k \notin unclean => log[k] = {})
    <3>1. listener[k] = "off" /\ records[k] = {} /\ (k \notin unclean => log[k] = {})
      BY <2>1 DEF IInv, ListenerInv, ListenerAt, LogInv, LogAt
    <3> QED
      BY <1>4, <3>1
  <2>2. ASSUME pc \in Later, p.flow[1] \in Active PROVE p.run = run
    BY <1>3, <2>2, RunsFacts DEF IInv, FreshInv, FreshAt, Cleaned, Later
  <2>3. ASSUME NEW k \in Client, pc \in Later, k \in Active,
               NEW q \in records'[k] \cup IF k \in unclean THEN {} ELSE log[k] \cup received[k],
               q.flow[1] \in Active
        PROVE  q.run = run
    BY <1>5, <2>2, <2>3 DEF IInv, LogInv, LogAt
  <2> QED
    BY <1>1, <1>2, <2>1, <2>3 DEF LogInv, LogAt
<1>11. ListenerInv' /\ SourceInv'
  BY <1>1, <1>2 DEF IInv, ListenerInv, ListenerAt, SourceInv, SourceAt
<1>12. DeliveryInv'
  <2> SUFFICES ASSUME pc \in Later, NEW f \in flows, NEW n \in Nat, {f[1], f[2]} \cap doubts = {}
               PROVE  PacketAt(f, n)'
    BY <1>1, <1>2 DEF DeliveryInv
  <2>1. PacketAt(f, n) /\ f[2] \in Client /\ f[2] \in Active \ doubts
    BY RunsFacts DEF IInv, DeliveryInv, TypeOK, Active
  <2>2. IsSent(f, n)' = IsSent(f, n)
    BY <1>1, <1>2 DEF IsSent
  <2>3. CASE Pkt(f, n) # p
    <3>1. Pkt(f, n) \in records'[f[2]] <=> Pkt(f, n) \in records[f[2]]
      BY <1>3, <1>4, <2>1, <2>3
    <3> QED
      BY <1>1, <1>2, <2>1, <2>2, <2>3, <3>1 DEF PacketAt
  <2>4. CASE Pkt(f, n) = p
    <3>1. f[2] = c /\ ~IsStopped(c) /\ IsSent(f, n)
      BY <2>1, <2>4 DEF PacketAt, Pkt, c
    <3>2. pc \in {"send", "stop"}
      <4>1. f[1] \in Client
        BY RunsFacts DEF IInv, TypeOK
      <4> QED
        BY <3>1, <4>1 DEF IsStopped, IsSent, IInv, RunInv, Later, Early, Sending
    <3>3. listener[c] = "bound"
      BY <1>3, <2>1, <3>1, <3>2 DEF IInv, ListenerInv, ListenerAt, IsStopped
    <3>4. ~IsCollected(f[2])
      BY <3>2 DEF IsCollected
    <3> QED
      BY <1>1, <1>2, <1>4, <2>1, <2>2, <2>4, <3>1, <3>3, <3>4 DEF PacketAt
  <2> QED
    BY <2>3, <2>4
<1> QED
  BY <1>6, <1>7, <1>8, <1>9, <1>10, <1>11, <1>12 DEF IInv

\* One packet to every target; each is sent or dropped.
LEMMA SendRoundStep ==
  ASSUME IInv, NEW c \in Client, SendRound(c)
  PROVE  IInv'
<1> DEFINE s == sender[c]
           round == {[run |-> s.run, flow |-> f, seq |-> s.seq] : f \in s.flows}
<1>1. /\ ~Finished(s)
      /\ sender' = [sender EXCEPT ![c].seq = @ + 1]
      /\ UNCHANGED tool /\ UNCHANGED <<listener, ready, records, log, targets, doubts, unclean>>
  BY DEF SendRound, agents
<1>2. PICK lost \in SUBSET round :
        /\ wire' = wire \cup (round \ lost)
        /\ dropped' = IF s.run = run THEN dropped \cup lost ELSE dropped
  BY DEF SendRound
<1>3. /\ UNCHANGED <<pc, todo, run, flows, received, Sources, Active, Cleaned>>
      /\ \A k : Own(k)' = Own(k)
      /\ \A f, n : Pkt(f, n)' = Pkt(f, n)
      /\ \A x : Finished(x)' = Finished(x)
      /\ \A k : IsStopped(k)' = IsStopped(k) /\ IsCollected(k)' = IsCollected(k)
  BY <1>1, ToolFacts
<1>4. /\ s \in [run : 0..MaxRuns, flows : SUBSET Flow, seq : Nat]
      /\ sender \in [Client -> [run : 0..MaxRuns, flows : SUBSET Flow, seq : Nat]]
      /\ s.run <= run /\ s.run # 0 /\ s.run \in 1..MaxRuns /\ run \in Nat
  <2>1. /\ s \in [run : 0..MaxRuns, flows : SUBSET Flow, seq : Nat]
        /\ sender \in [Client -> [run : 0..MaxRuns, flows : SUBSET Flow, seq : Nat]]
    BY DEF IInv, DataInv
  <2>2. s.run <= run /\ s.run # 0 /\ run \in 0..MaxRuns
    BY <1>1 DEF IInv, RunInv, TypeOK, Finished
  <2> QED
    BY <2>1, <2>2, RunsFacts
<1>5. /\ s.seq \in Nat /\ Tests[s.run].total \in Nat \ {0}
      /\ s.seq < Tests[s.run].total /\ s.seq + 1 \in 0..Tests[s.run].total
  <2>1. s.seq \in Nat /\ Tests[s.run].total \in Nat \ {0} /\ ~(s.seq >= Tests[s.run].total)
    BY <1>1, <1>4, RunsFacts DEF Finished
  <2> QED
    BY <2>1
<1> DEFINE r == [s EXCEPT !.seq = s.seq + 1]
<1>6. sender' = [sender EXCEPT ![c] = r]
  BY <1>1, <1>4
<1>7. /\ r \in [run : 0..MaxRuns, flows : SUBSET Flow, seq : Nat]
      /\ r.run = s.run /\ r.flows = s.flows /\ r.seq = s.seq + 1
  BY <1>4, <1>5
<1>8. \A f \in s.flows : f[1] = c
  BY DEF IInv, RouteInv
<1>9. /\ round \subseteq Packet
      /\ \A p \in round : p.run = s.run /\ p.flow \in s.flows /\ p.flow[1] = c
  BY <1>4, <1>5, <1>8 DEF Packet
<1> HIDE DEF r, s
<1>10. /\ sender' \in [Client -> [run : 0..MaxRuns, flows : SUBSET Flow, seq : Nat]]
       /\ sender'[c] = r /\ \A k \in Client : k # c => sender'[k] = sender[k]
  BY <1>4, <1>6, <1>7
<1>11. /\ \A k \in Client : sender'[k].run = sender[k].run /\ sender'[k].flows = sender[k].flows
       /\ s = sender[c]
  BY <1>7, <1>10 DEF s
<1>12. DataInv' /\ RouteInv'
  BY <1>1, <1>3, <1>10, <1>11 DEF IInv, DataInv, RouteInv
<1>13. wire' \cup dropped' \subseteq Packet
  BY <1>2, <1>9 DEF IInv, TypeOK
<1> HIDE DEF round
<1>14. TypeOK'
  <2>1. \A k \in Client : sender'[k].run = 0 \/ sender'[k].seq \in 0..Tests[sender'[k].run].total
    BY <1>5, <1>7, <1>10 DEF IInv, TypeOK
  <2> QED
    BY <1>1, <1>3, <1>11, <1>13, <2>1 DEF IInv, TypeOK
<1>15. RunInv'
  <2>1. \A p \in dropped' : p.run = run
    BY <1>2, <1>9 DEF IInv, RunInv
  <2>2. pc \in Early => dropped' = {}
    BY <1>2, <1>11 DEF IInv, RunInv
  <2> QED
    BY <1>1, <1>3, <1>11, <2>1, <2>2 DEF IInv, RunInv
<1>16. FreshInv'
  <2>1. ASSUME NEW k \in Client, k \in Cleaned, NEW p \in wire', p.flow[1] = k
        PROVE  p.run = run /\ sender[k].run = run
    <3>1. CASE p \in wire
      BY <2>1, <3>1 DEF IInv, FreshInv, FreshAt
    <3>2. CASE p \in round
      <4>1. k = c /\ p.run = s.run
        BY <1>9, <2>1, <3>2
      <4> QED
        BY <1>4, <1>11, <2>1, <4>1 DEF IInv, FreshInv, FreshAt
    <3> QED
      BY <1>2, <2>1, <3>1, <3>2
  <2> QED
    BY <1>3, <1>11, <2>1 DEF IInv, FreshInv, FreshAt
<1>17. LogInv' /\ ListenerInv'
  BY <1>1, <1>3 DEF IInv, LogInv, LogAt, ListenerInv, ListenerAt
<1>18. ASSUME c \in Sources \ doubts, pc \in Sending
       PROVE  pc = "send" /\ (s.run = run => s.flows = Own(c))
  BY <1>1, <1>11, <1>18 DEF IInv, SourceInv, SourceAt
<1>19. SourceInv'
  <2>1. ASSUME NEW k \in Client, k \in Sources \ doubts PROVE SourceAt(k)'
    <3>1. SourceAt(k)
      BY DEF IInv, SourceInv
    <3>2. CASE k = c
      BY <1>1, <1>3, <1>11, <1>18, <2>1, <3>1, <3>2 DEF SourceAt
    <3>3. CASE k # c
      BY <1>1, <1>3, <1>10, <2>1, <3>1, <3>3 DEF SourceAt
    <3> QED
      BY <3>2, <3>3
  <2> QED
    BY <1>1, <1>3, <2>1 DEF SourceInv, SourceAt
<1>20. DeliveryInv'
  <2> SUFFICES ASSUME pc \in Later, NEW f \in flows, NEW n \in Nat, {f[1], f[2]} \cap doubts = {}
               PROVE  PacketAt(f, n)'
    BY <1>1, <1>3 DEF DeliveryInv
  <2>1. /\ PacketAt(f, n) /\ f[1] \in Client /\ f[2] \in Client /\ f[1] \in Sources
    BY RunsFacts DEF IInv, DeliveryInv, TypeOK, Sources
  <2>2. Pkt(f, n) \in round <=> f[1] = c /\ s.run = run /\ n = s.seq
    <3>1. ASSUME Pkt(f, n) \in round PROVE f[1] = c /\ s.run = run /\ n = s.seq
      BY <1>8, <3>1 DEF round, Pkt, s
    <3>2. ASSUME f[1] = c, s.run = run, n = s.seq PROVE Pkt(f, n) \in round
      <4>1. pc \in Sending
        BY <1>11, <3>2 DEF IInv, RunInv, Later, Early
      <4>2. f \in s.flows
        BY <1>18, <2>1, <3>2, <4>1 DEF Own
      <4> QED
        BY <3>2, <4>2 DEF round, Pkt
    <3> QED
      BY <3>1, <3>2
  <2>3. IsSent(f, n)' <=> IsSent(f, n) \/ Pkt(f, n) \in round
    <3>1. CASE f[1] = c
      <4>1. IsSent(f, n) <=> s.run = run /\ n < s.seq
        BY <1>11, <3>1 DEF IsSent
      <4>2. IsSent(f, n)' <=> s.run = run /\ n < s.seq + 1
        BY <1>3, <1>7, <1>10, <3>1 DEF IsSent
      <4>3. n < s.seq + 1 <=> n < s.seq \/ n = s.seq
        BY <1>5
      <4> QED
        BY <2>2, <3>1, <4>1, <4>2, <4>3
    <3>2. CASE f[1] # c
      BY <1>3, <1>10, <2>1, <2>2, <3>2 DEF IsSent
    <3> QED
      BY <3>1, <3>2
  <2>4. Pkt(f, n) \in round => ~IsSent(f, n) /\ ~IsStopped(f[2])
    <3> SUFFICES ASSUME Pkt(f, n) \in round PROVE ~IsSent(f, n) /\ ~IsStopped(f[2])
      OBVIOUS
    <3>1. f[1] = c /\ s.run = run /\ n = s.seq
      BY <2>2
    <3>2. ~IsSent(f, n)
      BY <1>5, <1>11, <3>1 DEF IsSent
    <3>3. ~IsStopped(f[2])
      BY <1>18, <2>1, <3>1 DEF IsStopped, Sending
    <3> QED
      BY <3>2, <3>3
  <2>5. Pkt(f, n) \in wire' <=> Pkt(f, n) \in wire \/ Pkt(f, n) \in round \ lost
    BY <1>2
  <2>6. Pkt(f, n) \in dropped' <=> Pkt(f, n) \in dropped \/ Pkt(f, n) \in round \cap lost
    BY <1>2, <2>2
  <2> QED
    BY <1>1, <1>3, <2>1, <2>3, <2>4, <2>5, <2>6 DEF PacketAt
<1> QED
  BY <1>12, <1>14, <1>15, <1>16, <1>17, <1>19, <1>20 DEF IInv
-----------------------------------------------------------------------------
(* The invariant.                                                          *)

\* Every step keeps the invariant.
LEMMA NextIInv == IInv /\ [Next]_vars => IInv'
<1> SUFFICES ASSUME IInv, [Next]_vars PROVE IInv'
  OBVIOUS
<1>1. ASSUME NEW c \in Client, Clean(c) \/ Listen(c) \/ WriteTargets(c) PROVE IInv'
  BY <1>1, CleanStep, ListenStep, WriteTargetsStep
<1>2. ASSUME NEW c \in Client, StartSender(c) \/ StopListener(c) \/ Collect(c) PROVE IInv'
  BY <1>2, StartSenderStep, StopListenerStep, CollectStep
<1>3. CASE (\E c \in Client : FoundReady(c)) \/ WaitTimeout
  BY <1>3, WaitStep
<1>4. CASE Start \/ JoinSenders \/ Interrupt
  BY <1>4, StartStep, JoinSendersStep, InterruptStep
<1>5. ASSUME NEW c \in Client, Bind(c) \/ SendRound(c) \/ Save(c) PROVE IInv'
  BY <1>5, BindStep, SendRoundStep, SaveStep
<1>6. ASSUME NEW p \in wire, Receive(p) PROVE IInv'
  BY <1>6, ReceiveStep
<1>7. CASE UNCHANGED vars
  <2>1. /\ UNCHANGED <<pc, todo, run, flows, received, Sources, Active, Cleaned>>
        /\ UNCHANGED <<listener, ready, records, log, targets, sender, wire, dropped, doubts, unclean>>
        /\ \A k : Own(k)' = Own(k)
        /\ \A f, n : Pkt(f, n)' = Pkt(f, n)
        /\ \A s : Finished(s)' = Finished(s)
        /\ \A k : IsStopped(k)' = IsStopped(k) /\ IsCollected(k)' = IsCollected(k)
    BY <1>7, ToolFacts DEF vars, tool, agents, sources, network
  <2>2. TypeOK' /\ DataInv' /\ RouteInv' /\ RunInv' /\ FreshInv' /\ LogInv'
    BY <2>1 DEF IInv, TypeOK, DataInv, RouteInv, RunInv, FreshInv, FreshAt, LogInv, LogAt
  <2>3. ListenerInv' /\ SourceInv' /\ DeliveryInv'
    BY <2>1 DEF IInv, ListenerInv, ListenerAt, SourceInv, SourceAt, DeliveryInv, PacketAt, IsSent
  <2> QED
    BY <2>2, <2>3 DEF IInv
<1> QED
  BY <1>1, <1>2, <1>3, <1>4, <1>5, <1>6, <1>7 DEF Next, Tool, Clients

\* The invariant holds in every run of the tool.
THEOREM Invariance == Spec => []IInv
BY InitIInv, NextIInv, PTL DEF Spec

\* The variables keep their types, and a sender stays within its packets.
THEOREM TypeCorrect == Spec => []TypeOK
<1>1. IInv => TypeOK
  BY DEF IInv
<1> QED
  BY <1>1, Invariance, PTL

\* What the report counts for a flow was sent in this run.
THEOREM CountedIsOfThisRun == Spec => []CountsOnlyThisRun
<1>1. IInv => CountsOnlyThisRun
  <2> SUFFICES ASSUME IInv, pc = "done", NEW f \in flows, f[2] \notin unclean,
                      NEW p \in received[f[2]], p.flow[1] = f[1]
               PROVE  p.run = run
    BY DEF CountsOnlyThisRun
  <2>1. f[1] \in Active /\ f[2] \in Active /\ f[2] \in Client
    BY RunsFacts DEF Active, IInv, TypeOK
  <2> QED
    BY <2>1 DEF IInv, LogInv, LogAt, Later, Early, Sending
<1> QED
  BY <1>1, Invariance, PTL
-----------------------------------------------------------------------------
(* The report.  Its loop is a recursion over the sequence numbers: what it *)
(* computes is shown by induction.  The principle is stated for a set of   *)
(* numbers, and follows from there being no injection of a finite set into *)
(* a smaller one.                                                          *)

\* A set that has 0, and with each number the next one, has all numbers.
LEMMA SetInduction ==
  ASSUME NEW G, 0 \in G, \A n \in Nat : n \in G => n + 1 \in G
  PROVE  \A n \in Nat : n \in G
<1> SUFFICES ASSUME NEW x \in Nat, x \notin G PROVE FALSE
  OBVIOUS
<1> DEFINE H == (0..x) \cap G
           T == H \ {0}
           f == [n \in H |-> n + 1]
<1>1. IsFiniteSet(H) /\ Cardinality(H) \in Nat
  <2>1. IsFiniteSet(0..x)
    BY FS_Interval
  <2> QED
    BY <2>1, FS_Intersection, FS_CardinalityType
<1>2. 0 \in H
  OBVIOUS
<1>3. f \in [H -> T]
  <2> SUFFICES ASSUME NEW n \in H PROVE n + 1 \in T
    OBVIOUS
  <2>1. n \in Nat /\ n <= x /\ n # x /\ n \in G
    OBVIOUS
  <2>2. n + 1 \in 0..x /\ n + 1 \in G /\ n + 1 # 0
    BY <2>1
  <2> QED
    BY <2>2
<1>4. \A m, n \in H : m # n => f[m] # f[n]
  OBVIOUS
<1> HIDE DEF H, f
<1>5. IsFiniteSet(T) /\ Cardinality(T) < Cardinality(H)
  <2>1. IsFiniteSet(T) /\ Cardinality(T) = Cardinality(H) - 1
    BY <1>1, <1>2, FS_RemoveElement
  <2> HIDE DEF T
  <2> QED
    BY <1>1, <2>1
<1> HIDE DEF T
<1> QED
  BY <1>1, <1>3, <1>4, <1>5, FS_PigeonHole

\* The recursion has a solution.
LEMMA ScansFacts ==
  ASSUME NEW seqs, NEW total \in Nat
  PROVE  /\ Scans(seqs, total)[0] = [in |-> FALSE, start |-> 0, max |-> 0]
         /\ \A n \in 0..total :
              n + 1 \in 0..total =>
                Scans(seqs, total)[n + 1] = Scan(Scans(seqs, total)[n], n, seqs)
<1> DEFINE Before == [in |-> FALSE, start |-> 0, max |-> 0]
           State(f, n) == IF n = 0 THEN Before ELSE Scan(f[n - 1], n - 1, seqs)
           P(f, k) == f = [n \in 0..k |-> State(f, n)]
           G == {k \in Nat : \E f : P(f, k)}
<1> HIDE DEF Before
<1>1. 0 \in G
  <2> DEFINE f == [n \in 0..0 |-> Before]
  <2>1. P(f, 0)
    OBVIOUS
  <2> QED
    BY <2>1
<1>2. ASSUME NEW k \in Nat, k \in G PROVE k + 1 \in G
  <2>1. PICK f : P(f, k)
    BY <1>2
  <2> DEFINE g == [n \in 0..(k + 1) |-> IF n = k + 1 THEN Scan(f[k], k, seqs) ELSE f[n]]
  <2>2. ASSUME NEW n \in 0..(k + 1) PROVE g[n] = State(g, n)
    <3>1. CASE n = k + 1
      <4>1. g[n] = Scan(f[k], k, seqs) /\ n # 0 /\ n - 1 = k /\ g[k] = f[k]
        BY <3>1
      <4> QED
        BY <4>1
    <3>2. CASE n \in 0..k
      <4>1. g[n] = f[n] /\ f[n] = State(f, n)
        BY <2>1, <3>2
      <4>2. n # 0 => n - 1 \in 0..k /\ n - 1 # k + 1 /\ n - 1 \in 0..(k + 1)
        BY <3>2
      <4>3. n # 0 => g[n - 1] = f[n - 1]
        BY <4>2
      <4> QED
        BY <4>1, <4>3
    <3> QED
      BY <3>1, <3>2
  <2>3. P(g, k + 1)
    BY <2>2
  <2>4. \E h : P(h, k + 1)
    BY <2>3
  <2> QED
    BY <2>4
<1>3. \E f : P(f, total)
  <2> HIDE DEF P
  <2>1. \A n \in Nat : n \in G
    BY <1>1, <1>2, SetInduction
  <2> QED
    BY <2>1
<1>4. Scans(seqs, total) = CHOOSE f : P(f, total)
  BY DEF Scans, Before
<1>5. P(CHOOSE f : P(f, total), total)
  <2> HIDE DEF P
  <2> QED
    BY <1>3
<1>6. \A n \in 0..total : Scans(seqs, total)[n] = State(Scans(seqs, total), n)
  BY <1>4, <1>5
<1>7. 0 \in 0..total /\ \A n \in 0..total : n + 1 # 0 /\ (n + 1) - 1 = n
  OBVIOUS
<1> QED
  BY <1>6, <1>7 DEF Before

\* None of the numbers from a to b was received.
Gap(a, b, seqs) == \A k \in a..b : k \notin seqs

\* What the loop knows when n sequence numbers are dealt with: where the outage
\* began that it is in, and the longest of the others.
ScanInv(s, n, seqs) ==
  /\ s \in [in : BOOLEAN, start : Nat, max : Nat]
  /\ s.in => s.start < n /\ Gap(s.start, n - 1, seqs) /\ (s.start = 0 \/ s.start - 1 \in seqs)
  /\ ~s.in => n = 0 \/ n - 1 \in seqs
  /\ s.max # 0 => \E a, b \in Nat : a <= b /\ b < n /\ Gap(a, b, seqs) /\ s.max = (b - a) + 1
  /\ \A a, b \in Nat :
       a <= b /\ b < n /\ Gap(a, b, seqs) => (b - a) + 1 <= s.max \/ (s.in /\ s.start <= a)

\* One round of the loop.
LEMMA ScanStep ==
  ASSUME NEW seqs, NEW n \in Nat, NEW s, ScanInv(s, n, seqs)
  PROVE  ScanInv(Scan(s, n, seqs), n + 1, seqs)
<1> DEFINE t == Scan(s, n, seqs)
<1>1. s \in [in : BOOLEAN, start : Nat, max : Nat]
  BY DEF ScanInv
<1>2. \A a, b \in Nat : a <= b /\ b < n + 1 => b < n \/ (b = n /\ n \in a..b)
  OBVIOUS
<1>3. n \in Nat /\ n < n + 1 /\ (n + 1) - 1 = n /\ n + 1 \in Nat /\ \A b \in Nat : b < n => b < n + 1
  OBVIOUS
<1>4. CASE n \notin seqs /\ s.in
  <2>1. t = s
    BY <1>4 DEF Scan
  <2>2. Gap(s.start, n, seqs)
    <3>1. \A k \in s.start..n : k \in s.start..(n - 1) \/ k = n
      BY <1>1
    <3> QED
      BY <1>4, <3>1 DEF ScanInv, Gap
  <2>3. ASSUME NEW a \in Nat, NEW b \in Nat, a <= b, b < n + 1, Gap(a, b, seqs)
        PROVE  (b - a) + 1 <= s.max \/ s.start <= a
    <3>1. CASE b < n
      BY <1>4, <2>3, <3>1 DEF ScanInv
    <3>2. CASE b = n
      <4> SUFFICES ASSUME ~(s.start <= a) PROVE FALSE
        OBVIOUS
      <4>1. s.start # 0 /\ s.start < n /\ s.start - 1 \in a..b
        BY <1>1, <1>4, <3>2 DEF ScanInv
      <4> QED
        BY <1>4, <2>3, <4>1 DEF ScanInv, Gap
    <3> QED
      BY <1>2, <2>3, <3>1, <3>2
  <2>4. s.start < n + 1
    BY <1>1, <1>4, <1>3 DEF ScanInv
  <2>5. s.max # 0 => \E a, b \in Nat : a <= b /\ b < n + 1 /\ Gap(a, b, seqs) /\ s.max = (b - a) + 1
    BY <1>3 DEF ScanInv
  <2> QED
    BY <1>1, <1>3, <1>4, <2>1, <2>2, <2>3, <2>4, <2>5 DEF ScanInv
<1>5. CASE n \notin seqs /\ ~s.in
  <2>1. t = [s EXCEPT !.in = TRUE, !.start = n]
    BY <1>5 DEF Scan
  <2>2. t \in [in : BOOLEAN, start : Nat, max : Nat] /\ t.in = TRUE /\ t.start = n /\ t.max = s.max
    BY <1>1, <2>1
  <2>3. Gap(n, n, seqs) /\ (n = 0 \/ n - 1 \in seqs)
    BY <1>5 DEF ScanInv, Gap
  <2>4. ASSUME NEW a \in Nat, NEW b \in Nat, a <= b, b < n + 1, Gap(a, b, seqs)
        PROVE  (b - a) + 1 <= s.max \/ n <= a
    <3>1. CASE b < n
      BY <1>5, <2>4, <3>1 DEF ScanInv
    <3>2. CASE b = n
      <4> SUFFICES ASSUME ~(n <= a) PROVE FALSE
        OBVIOUS
      <4>1. n # 0 /\ n - 1 \in a..b
        BY <3>2
      <4> QED
        BY <2>3, <2>4, <4>1 DEF Gap
    <3> QED
      BY <1>2, <2>4, <3>1, <3>2
  <2>5. s.max # 0 => \E a, b \in Nat : a <= b /\ b < n + 1 /\ Gap(a, b, seqs) /\ s.max = (b - a) + 1
    BY <1>3 DEF ScanInv
  <2> HIDE DEF t
  <2>6. ScanInv(t, n + 1, seqs)
    BY <1>3, <2>2, <2>3, <2>4, <2>5 DEF ScanInv
  <2> QED
    BY <2>6 DEF t
<1>6. CASE n \in seqs /\ s.in
  <2> DEFINE m == Larger(s.max, n - s.start)
  <2>1. t = [s EXCEPT !.in = FALSE, !.max = m]
    BY <1>6 DEF Scan
  <2>2. s.start < n /\ n - s.start \in Nat /\ m \in Nat /\ s.max <= m /\ n - s.start <= m
        /\ (m = s.max \/ m = n - s.start)
    <3>1. s.start < n /\ s.start \in Nat /\ s.max \in Nat
      BY <1>1, <1>6 DEF ScanInv
    <3>2. n - s.start \in Nat
      BY <3>1
    <3>3. \A x, y \in Nat : Larger(x, y) \in {x, y} /\ x <= Larger(x, y) /\ y <= Larger(x, y)
      BY DEF Larger
    <3> QED
      BY <3>1, <3>2, <3>3
  <2> HIDE DEF m
  <2>3. t \in [in : BOOLEAN, start : Nat, max : Nat] /\ t.in = FALSE /\ t.max = m
    BY <1>1, <2>1, <2>2
  <2>4. ASSUME NEW a \in Nat, NEW b \in Nat, a <= b, b < n + 1, Gap(a, b, seqs)
        PROVE  (b - a) + 1 <= m
    <3>1. b < n
      BY <1>2, <1>6, <2>4 DEF Gap
    <3>2. (b - a) + 1 <= s.max \/ s.start <= a
      BY <1>6, <2>4, <3>1 DEF ScanInv
    <3> QED
      BY <1>1, <2>2, <3>1, <3>2
  <2>5. m # 0 => \E a, b \in Nat : a <= b /\ b < n + 1 /\ Gap(a, b, seqs) /\ m = (b - a) + 1
    <3>1. CASE m = s.max
      BY <1>3, <3>1 DEF ScanInv
    <3>2. CASE m = n - s.start
      <4>1. /\ n - 1 \in Nat /\ s.start \in Nat /\ s.start <= n - 1 /\ n - 1 < n + 1
            /\ Gap(s.start, n - 1, seqs) /\ m = ((n - 1) - s.start) + 1
        BY <1>1, <1>6, <2>2, <3>2 DEF ScanInv
      <4> QED
        BY <4>1
    <3> QED
      BY <2>2, <3>1, <3>2
  <2> HIDE DEF t
  <2>6. ScanInv(t, n + 1, seqs)
    BY <1>3, <1>6, <2>3, <2>4, <2>5 DEF ScanInv
  <2> QED
    BY <2>6 DEF t
<1>7. CASE n \in seqs /\ ~s.in
  <2>1. t = s
    BY <1>7 DEF Scan
  <2>2. ASSUME NEW a \in Nat, NEW b \in Nat, a <= b, b < n + 1, Gap(a, b, seqs)
        PROVE  (b - a) + 1 <= s.max
    <3>1. b < n
      BY <1>2, <1>7, <2>2 DEF Gap
    <3> QED
      BY <1>7, <2>2, <3>1 DEF ScanInv
  <2>3. s.max # 0 => \E a, b \in Nat : a <= b /\ b < n + 1 /\ Gap(a, b, seqs) /\ s.max = (b - a) + 1
    BY <1>3 DEF ScanInv
  <2> QED
    BY <1>1, <1>3, <1>7, <2>1, <2>2, <2>3 DEF ScanInv
<1> QED
  BY <1>1, <1>4, <1>5, <1>6, <1>7

\* The whole loop.
LEMMA ScansInv ==
  ASSUME NEW seqs, NEW total \in Nat
  PROVE  ScanInv(Scans(seqs, total)[total], total, seqs)
<1> DEFINE G == {n \in Nat : n \in 0..total => ScanInv(Scans(seqs, total)[n], n, seqs)}
<1>1. 0 \in G
  <2> DEFINE s == [in |-> FALSE, start |-> 0, max |-> 0]
  <2>1. s \in [in : BOOLEAN, start : Nat, max : Nat] /\ s.in = FALSE /\ s.max = 0
    OBVIOUS
  <2>2. \A b \in Nat : ~(b < 0)
    OBVIOUS
  <2> HIDE DEF s
  <2>3. ScanInv(s, 0, seqs)
    BY <2>1, <2>2 DEF ScanInv
  <2>4. Scans(seqs, total)[0] = s
    BY ScansFacts DEF s
  <2> QED
    BY <2>3, <2>4
<1>2. ASSUME NEW n \in Nat, n \in G, n + 1 \in 0..total
      PROVE  ScanInv(Scans(seqs, total)[n + 1], n + 1, seqs)
  <2>1. n \in 0..total
    BY <1>2
  <2>2. Scans(seqs, total)[n + 1] = Scan(Scans(seqs, total)[n], n, seqs)
    BY <1>2, <2>1, ScansFacts
  <2> QED
    BY <1>2, <2>1, <2>2, ScanStep
<1>3. \A n \in Nat : n \in G => n + 1 \in G
  BY <1>2
<1>4. \A n \in Nat : n \in G
  <2> HIDE DEF G
  <2> QED
    BY <1>1, <1>3, SetInduction
<1> QED
  BY <1>4

\* The loop of the report computes the longest run of missing sequence numbers.
LEMMA OutageFacts ==
  ASSUME NEW seqs, NEW total \in Nat
  PROVE  MaxOutage(seqs, total) = LongestGap((0..(total - 1)) \ seqs)
<1> DEFINE end     == Scans(seqs, total)[total]
           m       == MaxOutage(seqs, total)
           missing == (0..(total - 1)) \ seqs
           Gaps    == {q \in missing \X missing : q[1]..q[2] \subseteq missing}
           S       == {0} \cup {(r[2] - r[1]) + 1 : r \in Gaps}
<1>1. ScanInv(end, total, seqs)
  BY ScansInv
<1>2. m = IF end.in THEN Larger(end.max, total - end.start) ELSE end.max
  BY DEF MaxOutage
<1> HIDE DEF end, m
<1>3. end.in \in BOOLEAN /\ end.start \in Nat /\ end.max \in Nat
  BY <1>1 DEF ScanInv
<1>4. \A a, b \in Nat : a <= b /\ b < total /\ Gap(a, b, seqs) => <<a, b>> \in Gaps
  <2> SUFFICES ASSUME NEW a \in Nat, NEW b \in Nat, a <= b, b < total, Gap(a, b, seqs)
               PROVE  <<a, b>> \in Gaps
    OBVIOUS
  <2>1. \A k \in a..b : k \in 0..(total - 1)
    OBVIOUS
  <2>2. a..b \subseteq missing /\ a \in a..b /\ b \in a..b
    BY <2>1 DEF Gap
  <2> QED
    BY <2>2
<1>5. ASSUME NEW r \in Gaps, r[1] <= r[2]
      PROVE  r[1] \in Nat /\ r[2] \in Nat /\ r[2] < total /\ Gap(r[1], r[2], seqs)
  BY <1>5 DEF Gap
<1>6. m \in S
  <2>1. ASSUME NEW a \in Nat, NEW b \in Nat, a <= b, b < total, Gap(a, b, seqs)
        PROVE  (b - a) + 1 \in S
    <3>1. <<a, b>> \in Gaps /\ <<a, b>>[1] = a /\ <<a, b>>[2] = b
      BY <1>4, <2>1
    <3> HIDE DEF Gaps
    <3> QED
      BY <3>1
  <2> HIDE DEF S
  <2>2. end.max \in S
    <3>1. 0 \in S
      BY DEF S
    <3> QED
      BY <1>1, <2>1, <3>1 DEF ScanInv
  <2>3. end.in => total - end.start \in S
    <3> SUFFICES ASSUME end.in PROVE total - end.start \in S
      OBVIOUS
    <3>1. end.start < total /\ Gap(end.start, total - 1, seqs)
      BY <1>1 DEF ScanInv
    <3>2. total - 1 \in Nat /\ end.start <= total - 1 /\ total - 1 < total
          /\ ((total - 1) - end.start) + 1 = total - end.start
      BY <1>3, <3>1
    <3>3. ((total - 1) - end.start) + 1 \in S
      BY <1>3, <2>1, <3>1, <3>2
    <3> QED
      BY <3>2, <3>3
  <2> QED
    BY <1>2, <1>3, <2>2, <2>3 DEF Larger
<1>7. m \in Nat /\ end.max <= m /\ (end.in => total - end.start <= m)
  <2>1. CASE end.in
    <3>1. end.start < total
      BY <1>1, <2>1 DEF ScanInv
    <3>2. total - end.start \in Nat
      BY <1>3, <3>1
    <3>3. \A x, y \in Nat : Larger(x, y) \in Nat /\ x <= Larger(x, y) /\ y <= Larger(x, y)
      BY DEF Larger
    <3> QED
      BY <1>2, <1>3, <2>1, <3>2, <3>3
  <2>2. CASE ~end.in
    BY <1>2, <1>3, <2>2
  <2> QED
    BY <2>1, <2>2
<1>8. ASSUME NEW y \in S PROVE m >= y /\ y \in Int
  <2>1. CASE y = 0
    BY <1>7, <2>1
  <2>2. ASSUME NEW r \in Gaps, y = (r[2] - r[1]) + 1 PROVE m >= y /\ y \in Int
    <3>1. r[1] \in Nat /\ r[2] \in Nat
      OBVIOUS
    <3>2. CASE r[1] <= r[2]
      <4>1. r[2] < total /\ Gap(r[1], r[2], seqs)
        BY <1>5, <3>2
      <4>2. y <= end.max \/ (end.in /\ end.start <= r[1])
        BY <1>1, <2>2, <3>1, <3>2, <4>1 DEF ScanInv
      <4> QED
        BY <1>3, <1>7, <2>2, <3>1, <4>1, <4>2
    <3>3. CASE ~(r[1] <= r[2])
      BY <1>7, <2>2, <3>1, <3>3
    <3> QED
      BY <3>2, <3>3
  <2> QED
    BY <2>1, <2>2
<1>9. Max(S) = m
  <2> HIDE DEF S
  <2>1. \E x \in S : \A y \in S : x >= y
    BY <1>6, <1>8
  <2>2. Max(S) \in S /\ \A y \in S : Max(S) >= y
    BY <2>1 DEF Max
  <2>3. Max(S) >= m /\ m >= Max(S) /\ Max(S) \in Int /\ m \in Int
    BY <1>6, <1>8, <2>2
  <2> QED
    BY <2>3
<1> QED
  BY <1>9 DEF LongestGap, m

\* What is counted for a flow that nothing went wrong with is what was not
\* dropped of it.
LEMMA ReceivedFacts ==
  ASSUME IInv, pc = "done", NEW f \in flows, {f[1], f[2]} \cap doubts = {}
  PROVE  LET missing == {p.seq : p \in {q \in dropped : q.flow = f}}
         IN  /\ missing \subseteq 0..(Total - 1) /\ Total \in Nat
             /\ Received(f) = (0..(Total - 1)) \ missing
<1> DEFINE missing == {p.seq : p \in {q \in dropped : q.flow = f}}
           c == f[1]
           d == f[2]
<1>1. /\ c \in Client /\ d \in Client /\ f \in Flow /\ f = <<f[1], f[2], f[3]>>
      /\ c \in Sources /\ c \in Active /\ d \in Active
  BY RunsFacts DEF IInv, TypeOK, Sources, Active
<1>2. sender[c].run = run /\ run \in 1..MaxRuns /\ sender[c].seq = Total /\ Total \in Nat
  <2>1. sender[c].run = run /\ Finished(sender[c]) /\ sender[c].flows = Own(c)
    BY <1>1 DEF IInv, SourceInv, SourceAt, Sending
  <2>2. run \in 1..MaxRuns
    <3>1. run # 0 /\ run \in 0..MaxRuns
      BY DEF IInv, RunInv, TypeOK, Sending
    <3> QED
      BY <3>1, RunsFacts
  <2>3. sender[c].seq >= Total
    BY <2>1 DEF Finished, Own, Total
  <2>4. sender[c].seq \in 0..Total /\ Total \in Nat
    BY <1>1, <2>1, <2>2, RunsFacts DEF IInv, TypeOK, Total
  <2> QED
    BY <2>1, <2>2, <2>3, <2>4
<1>3. ASSUME NEW n \in Nat
      PROVE  /\ Pkt(f, n) \in dropped \cup received[d] => n \in 0..(Total - 1)
             /\ n \in 0..(Total - 1) => (Pkt(f, n) \in received[d] <=> Pkt(f, n) \notin dropped)
  <2>1. PacketAt(f, n)
    BY DEF IInv, DeliveryInv, Later, Early, Sending
  <2>2. IsStopped(d) /\ IsCollected(d)
    BY DEF IsStopped, IsCollected
  <2>3. IsSent(f, n) <=> n \in 0..(Total - 1)
    BY <1>2 DEF IsSent
  <2> QED
    BY <2>1, <2>2, <2>3 DEF PacketAt
<1>4. ASSUME NEW p \in Packet, p.run = run, p.flow = f PROVE p = Pkt(f, p.seq) /\ p.seq \in Nat
  BY <1>4 DEF Packet, Pkt
<1>5. \A n : n \in missing <=> n \in Nat /\ Pkt(f, n) \in dropped
  <2>1. \A p \in dropped : p \in Packet /\ p.run = run
    BY DEF IInv, TypeOK, RunInv
  <2>2. \A n : Pkt(f, n).flow = f /\ Pkt(f, n).seq = n
    BY DEF Pkt
  <2> QED
    BY <1>4, <2>1, <2>2
<1>6. \A n : n \in Received(f) <=> n \in Nat /\ Pkt(f, n) \in received[d]
  <2>1. ASSUME NEW p \in received[d], p.flow[1] = f[1], p.flow[3] = f[3]
        PROVE  p \in Packet /\ p.run = run /\ p.flow = f
    <3>1. p \in Packet /\ p.flow \in Flow /\ p.flow[2] = d
      BY <1>1 DEF IInv, DataInv, RouteInv, Packet
    <3>2. p.run = run
      <4>1. d \notin unclean
        BY DEF IInv, TypeOK
      <4> QED
        BY <1>1, <2>1, <4>1 DEF IInv, LogInv, LogAt, Later, Early, Sending
    <3>3. p.flow = <<p.flow[1], p.flow[2], p.flow[3]>>
      BY <3>1, RunsFacts
    <3> QED
      BY <1>1, <2>1, <3>1, <3>2, <3>3
  <2>2. \A n : Pkt(f, n).flow = f /\ Pkt(f, n).seq = n
    BY DEF Pkt
  <2> QED
    BY <1>4, <2>1, <2>2 DEF Received
<1>7. missing \subseteq 0..(Total - 1)
  BY <1>3, <1>5
<1>8. Received(f) = (0..(Total - 1)) \ missing
  <2> HIDE DEF missing, d
  <2>1. \A n \in 0..(Total - 1) : n \in Nat
    BY <1>2
  <2> QED
    BY <1>3, <1>5, <1>6, <2>1
<1> QED
  BY <1>2, <1>7, <1>8

\* What the report says of a flow that nothing went wrong with, the number of
\* lost packets and the longest outage, is what was dropped of it.
THEOREM NoPhantoms == Spec => []NoPhantomLoss
<1>1. IInv => NoPhantomLoss
  <2> SUFFICES ASSUME IInv, pc = "done", NEW f \in flows, {f[1], f[2]} \cap doubts = {}
               PROVE  LET missing == {p.seq : p \in {q \in dropped : q.flow = f}}
                      IN  LostCount(f) = Cardinality(missing) /\ Outage(f) = LongestGap(missing)
    BY DEF NoPhantomLoss
  <2> DEFINE missing == {p.seq : p \in {q \in dropped : q.flow = f}}
             all == 0..(Total - 1)
  <2>1. missing \subseteq all /\ Total \in Nat /\ Received(f) = all \ missing
    BY ReceivedFacts
  <2> HIDE DEF missing
  <2>2. IsFiniteSet(all) /\ Cardinality(all) = Total
    BY <2>1, FS_Interval
  <2>3. IsFiniteSet(missing) /\ Cardinality(missing) \in Nat
    BY <2>1, <2>2, FS_Subset, FS_CardinalityType
  <2> HIDE DEF all
  <2>4. LostCount(f) = Cardinality(missing)
    <3>1. Cardinality(all \ missing) = Total - Cardinality(all \cap missing) /\ all \cap missing = missing
      BY <2>1, <2>2, FS_Difference
    <3>2. \A m, n \in Nat : m - (m - n) = n
      OBVIOUS
    <3> QED
      BY <2>1, <2>3, <3>1, <3>2 DEF LostCount
  <2>5. Outage(f) = LongestGap(missing)
    <3>1. CASE LostCount(f) > 0
      <4>1. MaxOutage(Received(f), Total) = LongestGap(all \ Received(f))
        BY <2>1, OutageFacts DEF all
      <4>2. all \ Received(f) = missing
        BY <2>1
      <4> QED
        BY <3>1, <4>1, <4>2 DEF Outage
    <3>2. CASE ~(LostCount(f) > 0)
      <4>1. missing = {} /\ Outage(f) = 0
        BY <2>3, <2>4, <3>2, FS_EmptySet DEF Outage
      <4>2. {0} \cup {(r[2] - r[1]) + 1 : r \in {q \in missing \X missing : q[1]..q[2] \subseteq missing}} = {0}
        BY <4>1
      <4>3. Max({0}) = 0
        BY DEF Max
      <4> QED
        BY <4>1, <4>2, <4>3 DEF LongestGap
    <3> QED
      BY <3>1, <3>2
  <2> QED
    BY <2>4, <2>5 DEF missing
<1> QED
  BY <1>1, Invariance, PTL
=============================================================================
