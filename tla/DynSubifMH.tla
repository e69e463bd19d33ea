----------------------------- MODULE DynSubifMH -----------------------------
(***************************************************************************)
(* The multi-homing event handler dyn_subif_mh_custom.py on one leaf.  It  *)
(* binds dynamic subinterfaces into MAC-VRFs somebody else provisions, so  *)
(* unlike the single-homed handler's, its transaction can fail: one active *)
(* VLAN without a MAC-VRF rejects the whole batch, and the instance goes   *)
(* down (cfg-action-failed) with its persistent-data as it was.  The next  *)
(* change of its paths or options runs it again.                           *)
(***************************************************************************)
EXTENDS Batching

CONSTANT Excludable   \* VLANs an operator may list in exclude-vlans

ASSUME ExcludableAssumption == Excludable \subseteq Vlan

VARIABLES
  reported, active, excluded,   \* input, as in DynSubif
  event, timer, running, response,
  down,       \* oper-state down: the last transaction was rejected
  persist,    \* persistent-data "interface"
  sub,        \* interface <lag> subinterface <v>
  bind,       \* network-instance VLAN-<v> interface <lag>.<v>
  ni,         \* pre-provisioned network-instances VLAN-<v>
  disciplined \* the operator provisions before use and deletes after it

env     == <<reported, active, excluded>>
handler == <<timer, running, response, down, persist>>
vars    == <<env, event, handler, sub, bind, ni>>   \* what may change

Response == [desired : SUBSET Subif, adds : SUBSET Subif, removes : SUBSET Subif,
             reinvoke : BOOLEAN, persist : SUBSET Subif]

NoResponse == [desired |-> {}, adds |-> {}, removes |-> {},
               reinvoke |-> FALSE, persist |-> {}]

Init ==
  /\ reported = {} /\ active = {} /\ excluded = {}
  /\ event = FALSE /\ timer = FALSE
  /\ running = FALSE /\ response = NoResponse /\ down = FALSE
  /\ persist = {}
  /\ sub = {} /\ bind = {} /\ ni = {}
  /\ disciplined \in BOOLEAN
-----------------------------------------------------------------------------
(* The environment.                                                        *)

\* A VLAN becomes active: a tagged frame on the LAG, or an AD-per-EVI route
\* of the other leaf of the Ethernet Segment.
Learn(p) ==
  /\ p \in Subif \ active
  /\ active' = active \cup {p}
  /\ reported' = reported \cup {p[1]}
  /\ event' = TRUE
  /\ UNCHANGED <<excluded, handler, sub, bind, ni>>

\* The retention timer expires or is cleared, the route is withdrawn.
AgeOut(p) ==
  /\ p \in active
  /\ active' = active \ {p}
  /\ event' = TRUE
  /\ UNCHANGED <<reported, excluded, handler, sub, bind, ni>>

Unreport(i) ==
  /\ i \in reported
  /\ reported' = reported \ {i}
  /\ active' = {p \in active : p[1] # i}
  /\ event' = TRUE
  /\ UNCHANGED <<excluded, handler, sub, bind, ni>>

SetExclusions(e) ==
  /\ e # excluded
  /\ excluded' = e
  /\ event' = TRUE
  /\ UNCHANGED <<reported, active, handler, sub, bind, ni>>

\* The operator provisions the MAC-VRF of a VLAN.  Nothing tells the handler.
Provision(v) ==
  /\ v \notin ni
  /\ ni' = ni \cup {v}
  /\ UNCHANGED <<env, event, handler, sub, bind>>

\* The operator deletes it, and with it the bindings it holds.
Deprovision(v) ==
  /\ v \in ni
  /\ ni' = ni \ {v}
  /\ bind' = {p \in bind : p[2] # v}
  /\ UNCHANGED <<env, event, handler, sub>>
-----------------------------------------------------------------------------
(* The handler and its transaction.                                        *)

MutHandleNoReinvoke(prev, d, B) ==
  [desired  |-> d,
   adds     |-> B \cap d,
   removes  |-> B \ d,
   reinvoke |-> FALSE,
   persist  |-> Result(prev, d, B)]

\* event_handler_main: subinterfaces and bindings only, never a MAC-VRF.
Handle(prev, d, B) ==
  [desired  |-> d,
   adds     |-> B \cap d,
   removes  |-> B \ d,
   reinvoke |-> NeedsReinvoke(prev, d),
   persist  |-> Result(prev, d, B)]

Invoke ==
  /\ ~running
  /\ running' = TRUE
  /\ LET d == Desired(active, excluded)
     IN  \E B \in Batches(persist, d, reported) : response' = Handle(persist, d, B)
  /\ UNCHANGED <<env, down, persist, sub, bind, ni>>

InvokeOnEvent == event /\ Invoke /\ event' = FALSE /\ UNCHANGED timer

InvokeOnTimer == timer /\ Invoke /\ timer' = FALSE /\ UNCHANGED event

MutCandidateSub == sub \cup response.adds

CandidateSub == (sub \cup response.adds) \ response.removes

MutCandidateBind == bind \cup response.adds

CandidateBind == (bind \cup response.adds) \ response.removes

\* Every binding needs its MAC-VRF.
Resolves(binds) == Vlans(binds) \subseteq ni

Commit ==
  /\ running
  /\ Resolves(CandidateBind)
  /\ sub' = CandidateSub
  /\ bind' = CandidateBind
  /\ persist' = response.persist
  /\ timer' = (timer \/ response.reinvoke)
  /\ running' = FALSE /\ response' = NoResponse /\ down' = FALSE
  /\ UNCHANGED <<env, event, ni>>

\* The whole transaction is rejected: no action of it, the reinvoke request
\* included, takes effect.
Reject ==
  /\ running
  /\ ~Resolves(CandidateBind)
  /\ running' = FALSE /\ response' = NoResponse /\ down' = TRUE
  /\ UNCHANGED <<env, event, timer, persist, sub, bind, ni>>
-----------------------------------------------------------------------------
\* A VLAN a handler run may still bind.  measure_setup_rate.py clears the
\* retention timers and gives the handler time before it deletes MAC-VRFs.
InUse == Vlans(active) \cup Vlans(sub) \cup Vlans(response.adds)

\* The discipline the documentation asks for: MAC-VRFs are provisioned before
\* the VLAN is active anywhere, and deleted only when nothing uses it.  An
\* operator without it provisions and deletes them at any moment.
Environment ==
  \/ \E p \in Subif : AgeOut(p) \/ ((disciplined => p[2] \in ni) /\ Learn(p))
  \/ \E i \in Iface : Unreport(i)
  \/ \E e \in SUBSET Excludable : SetExclusions(e)
  \/ \E v \in Vlan : Provision(v) \/ ((disciplined => v \notin InUse) /\ Deprovision(v))

HandlerStep == InvokeOnEvent \/ InvokeOnTimer \/ Commit \/ Reject

Next == (Environment \/ HandlerStep) /\ UNCHANGED disciplined

\* The event manager runs what is due and finishes what it runs.
Fairness == WF_vars(InvokeOnEvent) /\ WF_vars(InvokeOnTimer)
            /\ WF_vars(Commit) /\ WF_vars(Reject)

Spec == Init /\ [][Next]_<<vars, disciplined>> /\ Fairness
-----------------------------------------------------------------------------
(* Properties.                                                             *)

Wanted == {p \in active : p[2] \notin excluded}

TypeOK ==
  /\ reported \subseteq Iface /\ active \subseteq Subif /\ excluded \subseteq Vlan
  /\ event \in BOOLEAN /\ timer \in BOOLEAN /\ running \in BOOLEAN /\ down \in BOOLEAN
  /\ response \in Response
  /\ persist \subseteq Subif
  /\ sub \subseteq Subif /\ bind \subseteq sub /\ ni \subseteq Vlan
  /\ disciplined \in BOOLEAN

\* persistent-data and subinterfaces agree whatever is rejected and whatever
\* the operator deletes: a rejected batch stays a pending difference.
NoDrift == persist = sub

\* With nothing due, either the instance is down or every wanted subinterface
\* and no other one exists: an accepted transaction forgets nothing.
SettledUnlessDown ==
  ~event /\ ~timer /\ ~running /\ ~down => sub = Wanted

\* Once input and MAC-VRFs stay as they are, the subinterfaces reach what is
\* wanted, or the instance stays down: one rejected batch is enough to leave
\* everything behind it undone until something changes.
ConvergesOrStaysDown ==
  <>[][UNCHANGED <<env, ni>>]_vars => <>[](sub = Wanted) \/ <>[]down

\* Under the documented discipline no transaction is rejected, however the
\* operator's steps fall between an invocation and its commit, and no
\* subinterface is left outside its MAC-VRF.  With ConvergesOrStaysDown that
\* makes every stable input end in what it asks for, bound.
DisciplineSuffices ==
  disciplined =>
    /\ ~down /\ (running => Resolves(CandidateBind))
    /\ bind = sub /\ Vlans(sub) \subseteq ni
=============================================================================
