------------------------------ MODULE DynSubif ------------------------------
(***************************************************************************)
(* The single-homed event handler dyn_subif_custom.py on one leaf, with    *)
(* the SR Linux event manager that runs it and the part of the running     *)
(* configuration it owns.                                                  *)
(*                                                                         *)
(* The event manager is external.  It hands the handler a snapshot of      *)
(* active VLANs, options and persistent-data (Invoke), and later commits   *)
(* the returned actions in one transaction and stores the returned         *)
(* persistent-data (Commit).  The active VLANs and the options go on       *)
(* changing in between, so everything the response says may be stale when  *)
(* it is applied.                                                          *)
(***************************************************************************)
EXTENDS HandlerResponse

CONSTANT Excludable   \* VLANs an operator may list in exclude-vlans

ASSUME ExcludableAssumption == Excludable \subseteq Vlan

VARIABLES
  reported,   \* interfaces the event system reports a path for
  active,     \* active VLANs: a set of <<interface, vlan>>
  excluded,   \* the exclude-vlans option
  event,      \* an invocation is due because paths or options changed
  timer,      \* an invocation is due because of reinvoke-with-delay
  running,    \* the handler has answered, its actions are not committed yet
  response,   \* that answer
  persist,    \* persistent-data
  sub,        \* interface <i> subinterface <v>
  bind,       \* network-instance VLAN-<v> interface <i>.<v>
  ni,         \* network-instance VLAN-<v> (mac-vrf with bgp-vpn, bgp-evpn)
  vxlan       \* tunnel-interface vxlan0 vxlan-interface <v>

env    == <<reported, active, excluded>>
config == <<sub, bind, ni, vxlan>>
vars   == <<env, event, timer, running, response, persist, config>>

Init ==
  /\ reported = {} /\ active = {} /\ excluded = {}
  /\ event = FALSE /\ timer = FALSE
  /\ running = FALSE /\ response = NoResponse
  /\ persist = NoPersist
  /\ sub = {} /\ bind = {} /\ ni = {} /\ vxlan = {}
-----------------------------------------------------------------------------
(* The environment: traffic, the retention timer, the operator.            *)

\* A tagged frame makes a VLAN active on an interface.
Learn(p) ==
  /\ p \in Subif \ active
  /\ active' = active \cup {p}
  /\ reported' = reported \cup {p[1]}
  /\ event' = TRUE
  /\ UNCHANGED <<excluded, timer, running, response, persist, config>>

\* The retention timer of an idle VLAN expires.
AgeOut(p) ==
  /\ p \in active
  /\ active' = active \ {p}
  /\ event' = TRUE
  /\ UNCHANGED <<reported, excluded, timer, running, response, persist, config>>

\* The interface is no longer among the reported paths.
Unreport(i) ==
  /\ i \in reported
  /\ reported' = reported \ {i}
  /\ active' = {p \in active : p[1] # i}
  /\ event' = TRUE
  /\ UNCHANGED <<excluded, timer, running, response, persist, config>>

\* The operator changes the exclude-vlans option.
SetExclusions(e) ==
  /\ e # excluded
  /\ excluded' = e
  /\ event' = TRUE
  /\ UNCHANGED <<reported, active, timer, running, response, persist, config>>

\* The node reboots.  The configuration save of the handler is commented
\* out, so what it configured is lost with persistent-data and the learned
\* VLANs; exclude-vlans is startup configuration.
Reboot ==
  /\ reported' = {} /\ active' = {}
  /\ event' = FALSE /\ timer' = FALSE
  /\ running' = FALSE /\ response' = NoResponse
  /\ persist' = NoPersist
  /\ sub' = {} /\ bind' = {} /\ ni' = {} /\ vxlan' = {}
  /\ UNCHANGED excluded
-----------------------------------------------------------------------------
(* One invocation of event_handler_main: HandlerResponse says what it       *)
(* answers.                                                                *)

Invoke ==
  /\ ~running
  /\ running' = TRUE
  /\ LET d == Desired(active, excluded)
     IN  \E B \in Batches(persist.subif, d, reported) :
            response' = Handle(persist, d, B)
  /\ UNCHANGED <<env, persist, config>>

InvokeOnEvent == event /\ Invoke /\ event' = FALSE /\ UNCHANGED timer

InvokeOnTimer == timer /\ Invoke /\ timer' = FALSE /\ UNCHANGED event
-----------------------------------------------------------------------------
(* The transaction.                                                        *)

\* The candidate configuration: the sets and deletes of the response in the
\* order of the action list.  Deleting a network-instance deletes its
\* interface bindings with it.
CandidateSub   == (sub \cup response.adds) \ response.removes
CandidateBind  == {p \in (bind \cup response.adds) \ response.removes :
                     p[2] \notin response.delete}
MutCandidateVxlan == vxlan \cup response.create

CandidateNi    == (ni \cup response.create) \ response.delete
CandidateVxlan == (vxlan \cup response.create) \ response.delete

\* The references a commit validates: a binding needs its MAC-VRF, a MAC-VRF
\* needs the vxlan-interface it names.
Resolves(binds, nis, vxlans) == Vlans(binds) \subseteq nis /\ nis \subseteq vxlans

\* The event manager applies the actions, stores persistent-data and arms
\* the timer if the handler asked to be reinvoked.
Commit ==
  /\ running
  /\ Resolves(CandidateBind, CandidateNi, CandidateVxlan)
  /\ sub' = CandidateSub
  /\ bind' = CandidateBind
  /\ ni' = CandidateNi
  /\ vxlan' = CandidateVxlan
  /\ persist' = response.persist
  /\ timer' = (timer \/ response.reinvoke)
  /\ running' = FALSE
  /\ response' = NoResponse
  /\ UNCHANGED <<env, event>>
-----------------------------------------------------------------------------
Environment ==
  \/ \E p \in Subif : Learn(p) \/ AgeOut(p)
  \/ \E i \in Iface : Unreport(i)
  \/ \E e \in SUBSET Excludable : SetExclusions(e)

Next ==
  \/ Environment
  \/ Reboot
  \/ InvokeOnEvent
  \/ InvokeOnTimer
  \/ Commit

Spec == Init /\ [][Next]_vars

\* The event manager runs what is due and finishes what it runs; traffic and
\* the operator owe nothing.
Fairness == WF_vars(InvokeOnEvent) /\ WF_vars(InvokeOnTimer) /\ WF_vars(Commit)

FairSpec == Spec /\ Fairness
-----------------------------------------------------------------------------
(* Properties.                                                             *)

\* What traffic and operator ask for.
Wanted == {p \in active : p[2] \notin excluded}

\* Every variable keeps its type; persistent-data and responses included.
TypeOK ==
  /\ reported \subseteq Iface
  /\ active \subseteq Subif
  /\ excluded \subseteq Vlan
  /\ event \in BOOLEAN /\ timer \in BOOLEAN /\ running \in BOOLEAN
  /\ response \in Response
  /\ persist \in Persist
  /\ sub \subseteq Subif /\ bind \subseteq Subif
  /\ ni \subseteq Vlan /\ vxlan \subseteq Vlan

\* A subinterface never exists without its binding, its MAC-VRF and its
\* VXLAN interface, and a MAC-VRF goes with the last subinterface that uses
\* it, whatever the interfaces that share a VLAN do and however the work is
\* cut into batches.
ServiceIntegrity == bind = sub /\ ni = Vlans(sub) /\ vxlan = ni

\* persistent-data says exactly what is configured.  The handler reads no
\* configuration, so any difference would last for ever.
NoDrift == persist.subif = sub /\ persist.ni = ni

\* Whatever changed since the snapshot, the transaction of a pending response
\* resolves all its references.
CommitResolves == running => Resolves(CandidateBind, CandidateNi, CandidateVxlan)

\* The handler asks to be reinvoked exactly when its batch left work undone.
ReinvokeExact ==
  running => (response.reinvoke <=> response.persist.subif # response.desired)

\* With nothing due and nothing in flight, the configuration is what the
\* active VLANs and the exclusions ask for: no change is ever forgotten.
SettledIsSynced ==
  ~event /\ ~timer /\ ~running => sub = Wanted

\* One transaction adds and removes at most BatchSize subinterfaces.
BatchBound ==
  [][~Reboot => Cardinality((sub' \ sub) \cup (sub \ sub')) <= BatchSize]_vars

\* When the work fits one invocation, a MAC-VRF whose VLAN is still wanted
\* somewhere is not torn down and rebuilt, even if the VLAN moves from its
\* only interface to another one.
MoveKeepsService ==
  [][Commit /\ ~response.reinvoke => ni \cap Vlans(response.desired) \subseteq ni']_vars

\* The handler implements the abstract service: each of its steps is a step
\* of VlanService or changes nothing VlanService speaks of, and the event
\* manager's fairness gives the service its progress: once active VLANs and
\* exclusions stay as they are, batch after batch brings the configuration to
\* what they ask for.
Service == INSTANCE VlanService WITH
             wanted <- Wanted, round <- running, target <- response.desired,
             served <- sub, service <- ni

ImplementsService == Service!Spec

\* Its safety part: every step of the handler is a step of the service.
ImplementsSafely == Service!Init /\ [][Service!Next]_(Service!vars)
=============================================================================
