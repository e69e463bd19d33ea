-------------------------- MODULE DynSubifMH_proofs --------------------------
(***************************************************************************)
(* The safety properties of DynSubifMH, proved for every set of interfaces *)
(* and VLANs and every batch size; DisciplineSuffices for every way the    *)
(* steps of a disciplined operator fall between those of the handler.      *)
(***************************************************************************)
EXTENDS DynSubifMH, FiniteSetTheorems, TLAPS

\* The response in flight takes persistent-data some way towards the snapshot
\* it was computed from, and all the way unless a reinvoke was requested.
Planned(B) ==
  /\ B \subseteq Pending(persist, response.desired)
  /\ response.adds = B \cap response.desired
  /\ response.removes = B \ response.desired
  /\ response.persist = Result(persist, response.desired, B)
  /\ response.reinvoke <=> B # Pending(persist, response.desired)

PlanInv == running => \E B \in SUBSET Subif : Planned(B)

\* Without a new event, the snapshot is still what is wanted.
FreshInv == running /\ ~event => response.desired = Wanted

\* What the discipline keeps up: whatever is active, configured or about to be
\* configured has its MAC-VRF.  It is this that no step between an invocation
\* and its commit can take away, since Deprovision looks at the response too.
DisciplineInv ==
  disciplined => ~down /\ bind = sub /\ InUse \subseteq ni

\* The inductive invariant.
IInv ==
  /\ TypeOK
  /\ NoDrift
  /\ PlanInv
  /\ FreshInv
  /\ SettledUnlessDown
  /\ DisciplineInv
-----------------------------------------------------------------------------
(* The operators of Batching.                                              *)

\* The subinterfaces of a node are finitely many.
LEMMA SubifFinite == IsFiniteSet(Subif)
  BY FS_Product, BatchingAssumption DEF Subif

\* What is wanted is a set of subinterfaces.
LEMMA DesiredType ==
  ASSUME NEW A \in SUBSET Subif, NEW E
  PROVE  Desired(A, E) \in SUBSET Subif
  BY DEF Desired

\* A batch is part of the difference and at most BatchSize changes; it is the
\* whole difference exactly when no reinvoke is needed.
LEMMA BatchFacts ==
  ASSUME NEW P \in SUBSET Subif, NEW D \in SUBSET Subif, NEW R,
         NEW B \in Batches(P, D, R)
  PROVE  /\ B \subseteq Pending(P, D)
         /\ B \in SUBSET Subif
         /\ Cardinality(B) <= BatchSize
         /\ NeedsReinvoke(P, D) <=> B # Pending(P, D)
         /\ NeedsReinvoke(P, D) => Cardinality(B) = BatchSize
<1>1. Pending(P, D) \in SUBSET Subif
  BY DEF Pending
<1>2. IsFiniteSet(Pending(P, D))
  BY <1>1, SubifFinite, FS_Subset
<1>3. Cardinality(Pending(P, D)) \in Nat
  BY <1>2, FS_CardinalityType
<1>4. BatchSize \in Nat
  BY BatchingAssumption
<1>5. CASE NeedsReinvoke(P, D)
  <2>1. Cardinality(Pending(P, D)) > BatchSize
    BY <1>5 DEF NeedsReinvoke
  <2>2. B \in SUBSET Pending(P, D) /\ Cardinality(B) = BatchSize
    BY <1>5 DEF Batches
  <2>3. B # Pending(P, D)
    BY <2>1, <2>2, <1>4
  <2> QED
    BY <1>1, <1>4, <1>5, <2>2, <2>3
<1>6. CASE ~NeedsReinvoke(P, D)
  <2>1. B = Pending(P, D)
    BY <1>6 DEF Batches
  <2>2. Cardinality(Pending(P, D)) <= BatchSize
    BY <1>6, <1>3, <1>4 DEF NeedsReinvoke
  <2> QED
    BY <1>1, <1>6, <2>1, <2>2
<1> QED
  BY <1>5, <1>6
-----------------------------------------------------------------------------
(* One lemma per step or kind of step.                                     *)

\* The transaction in flight makes the subinterfaces those of the new
\* persistent-data, and a disciplined operator's MAC-VRFs are there for it.
LEMMA CandidateIsPlanned ==
  ASSUME IInv, running
  PROVE  /\ CandidateSub = response.persist
         /\ response.persist \in SUBSET Subif
         /\ CandidateBind \subseteq CandidateSub
         /\ ~response.reinvoke => response.persist = response.desired
         /\ disciplined => /\ CandidateBind = CandidateSub
                           /\ Vlans(CandidateSub) \subseteq InUse
                           /\ Resolves(CandidateBind)
<1>1. PICK B \in SUBSET Subif : Planned(B)
  BY DEF IInv, PlanInv
<1>2. /\ persist = sub /\ persist \in SUBSET Subif /\ bind \subseteq sub
      /\ response.desired \in SUBSET Subif
  BY DEF IInv, TypeOK, NoDrift, Response
<1>3. CandidateSub = response.persist
  BY <1>1, <1>2 DEF Planned, CandidateSub, Result, Pending
<1>4. response.persist \in SUBSET Subif
  BY <1>1, <1>2 DEF Planned, Result
<1>5. CandidateBind \subseteq CandidateSub
  BY <1>2 DEF CandidateBind, CandidateSub
<1>6. ~response.reinvoke => response.persist = response.desired
  BY <1>1, <1>2 DEF Planned, Result, Pending
<1>7. ASSUME disciplined
      PROVE  /\ CandidateBind = CandidateSub
             /\ Vlans(CandidateSub) \subseteq InUse
             /\ Resolves(CandidateBind)
  <2>1. bind = sub /\ InUse \subseteq ni
    BY <1>7 DEF IInv, DisciplineInv
  <2>2. CandidateBind = CandidateSub
    BY <2>1 DEF CandidateBind, CandidateSub
  <2>3. Vlans(CandidateSub) \subseteq InUse
    BY DEF CandidateSub, InUse, Vlans
  <2> QED
    BY <2>1, <2>2, <2>3 DEF Resolves
<1> QED
  BY <1>3, <1>4, <1>5, <1>6, <1>7

\* The initial states satisfy the invariant.
LEMMA InitIInv == Init => IInv
<1> SUFFICES ASSUME Init PROVE IInv
  OBVIOUS
<1>1. Vlans({}) = {}
  BY DEF Vlans
<1>2. TypeOK
  BY DEF Init, TypeOK, NoResponse, Response
<1>3. NoDrift /\ PlanInv /\ FreshInv /\ SettledUnlessDown
  BY DEF Init, NoDrift, PlanInv, FreshInv, SettledUnlessDown, Wanted
<1>4. DisciplineInv
  BY <1>1 DEF Init, DisciplineInv, InUse, NoResponse
<1> QED
  BY <1>2, <1>3, <1>4 DEF IInv

\* A change of the input is announced by an event; what was planned stays
\* planned.  A disciplined operator's MAC-VRFs cover what is active now.
LEMMA InputIInv ==
  ASSUME IInv,
         reported' \subseteq Iface, active' \subseteq Subif, excluded' \subseteq Vlan,
         disciplined => Vlans(active') \subseteq ni,
         event' = TRUE,
         UNCHANGED <<handler, sub, bind, ni, disciplined>>
  PROVE  IInv'
<1>1. UNCHANGED <<timer, running, response, down, persist>>
  BY DEF handler
<1>2. TypeOK'
  BY <1>1 DEF IInv, TypeOK
<1>3. NoDrift' /\ PlanInv' /\ FreshInv' /\ SettledUnlessDown'
  BY <1>1 DEF IInv, NoDrift, PlanInv, Planned, FreshInv, SettledUnlessDown
<1>4. DisciplineInv'
  BY <1>1 DEF IInv, DisciplineInv, InUse
<1> QED
  BY <1>2, <1>3, <1>4 DEF IInv

\* Provisioning and deleting MAC-VRFs touches bindings only; a disciplined
\* operator's deletions touch not even these.
LEMMA OperatorIInv ==
  ASSUME IInv,
         ni' \subseteq Vlan, bind' \subseteq bind,
         disciplined => bind' = bind /\ InUse \subseteq ni',
         UNCHANGED <<env, event, handler, sub, disciplined>>
  PROVE  IInv'
<1>1. UNCHANGED <<reported, active, excluded, timer, running, response, down, persist>>
  BY DEF env, handler
<1>2. TypeOK'
  BY <1>1 DEF IInv, TypeOK
<1>3. Wanted' = Wanted /\ InUse' = InUse
  BY <1>1 DEF Wanted, InUse
<1>4. NoDrift' /\ PlanInv' /\ FreshInv' /\ SettledUnlessDown'
  BY <1>1, <1>3 DEF IInv, NoDrift, PlanInv, Planned, FreshInv, SettledUnlessDown
<1>5. DisciplineInv'
  BY <1>1, <1>3 DEF IInv, DisciplineInv
<1> QED
  BY <1>2, <1>4, <1>5 DEF IInv

\* An invocation plans a batch for what is wanted now, and adds nothing that
\* is not active.
LEMMA InvokeIInv ==
  ASSUME IInv, Invoke,
         \/ event /\ event' = FALSE /\ timer' = timer
         \/ timer' = FALSE /\ event' = event,
         UNCHANGED disciplined
  PROVE  IInv'
<1> DEFINE D == Desired(active, excluded)
<1>1. /\ ~running /\ running' = TRUE
      /\ UNCHANGED <<reported, active, excluded, down, persist, sub, bind, ni>>
  BY DEF Invoke, env
<1>2. PICK B \in Batches(persist, D, reported) : response' = Handle(persist, D, B)
  BY DEF Invoke
<1>3. persist \in SUBSET Subif /\ D \in SUBSET Subif
  BY DesiredType DEF IInv, TypeOK
<1>4. /\ B \subseteq Pending(persist, D)
      /\ B \in SUBSET Subif
      /\ NeedsReinvoke(persist, D) <=> B # Pending(persist, D)
  BY <1>2, <1>3, BatchFacts
<1>5. /\ response'.desired = D
      /\ response'.adds = B \cap D
      /\ response'.removes = B \ D
      /\ response'.persist = Result(persist, D, B)
      /\ response'.reinvoke = NeedsReinvoke(persist, D)
  BY <1>2 DEF Handle
<1>6. TypeOK'
  <2>1. Result(persist, D, B) \in SUBSET Subif /\ NeedsReinvoke(persist, D) \in BOOLEAN
    BY <1>3, <1>4 DEF Result, NeedsReinvoke
  <2>2. response' \in Response
    BY <1>2, <1>3, <1>4, <2>1 DEF Handle, Response
  <2> QED
    BY <1>1, <2>2 DEF IInv, TypeOK
<1>7. NoDrift' /\ SettledUnlessDown'
  BY <1>1 DEF IInv, NoDrift, SettledUnlessDown
<1>8. PlanInv'
  <2>1. Planned(B)'
    BY <1>1, <1>4, <1>5 DEF Planned
  <2> QED
    BY <1>4, <2>1 DEF PlanInv
<1>9. FreshInv'
  <2>1. Wanted' = D
    BY <1>1 DEF Wanted, Desired
  <2> QED
    BY <1>5, <2>1 DEF FreshInv
<1>10. DisciplineInv'
  <2>1. Vlans(response'.adds) \subseteq Vlans(active)
    BY <1>5 DEF Vlans, Desired
  <2>2. InUse' \subseteq InUse
    BY <1>1, <2>1 DEF InUse
  <2> QED
    BY <1>1, <2>2 DEF IInv, DisciplineInv
<1> QED
  BY <1>6, <1>7, <1>8, <1>9, <1>10 DEF IInv

\* An accepted transaction brings subinterfaces and persistent-data together
\* again, and settles them if nothing has changed and nothing is left to do.
LEMMA CommitIInv ==
  ASSUME IInv, Commit, UNCHANGED disciplined
  PROVE  IInv'
<1>1. /\ running /\ ~running' /\ ~down'
      /\ running' \in BOOLEAN /\ down' \in BOOLEAN
      /\ sub' = CandidateSub /\ bind' = CandidateBind
      /\ persist' = response.persist /\ response' = NoResponse
      /\ timer' = (timer \/ response.reinvoke)
      /\ UNCHANGED <<reported, active, excluded, event, ni>>
  BY DEF Commit, env
<1>2. TypeOK'
  <2>1. timer' \in BOOLEAN
    BY <1>1 DEF IInv, TypeOK, Response
  <2>2. response' \in Response
    BY <1>1 DEF NoResponse, Response
  <2>3. persist' \subseteq Subif /\ sub' \subseteq Subif /\ bind' \subseteq sub'
    BY <1>1, CandidateIsPlanned
  <2> QED
    BY <1>1, <2>1, <2>2, <2>3 DEF IInv, TypeOK
<1>3. NoDrift' /\ PlanInv' /\ FreshInv'
  BY <1>1, CandidateIsPlanned DEF NoDrift, PlanInv, FreshInv
<1>4. SettledUnlessDown'
  <2> SUFFICES ASSUME ~event', ~timer' PROVE sub' = Wanted'
    BY DEF SettledUnlessDown
  <2>1. Wanted' = Wanted /\ response.desired = Wanted
    BY <1>1 DEF Wanted, IInv, FreshInv
  <2>2. ~response.reinvoke
    BY <1>1
  <2> QED
    BY <1>1, <2>1, <2>2, CandidateIsPlanned
<1>5. DisciplineInv'
  <2> SUFFICES ASSUME disciplined PROVE bind' = sub' /\ InUse' \subseteq ni'
    BY <1>1 DEF DisciplineInv
  <2>1. bind' = sub' /\ Vlans(sub') \subseteq InUse
    BY <1>1, CandidateIsPlanned
  <2>2. Vlans(response'.adds) = {}
    BY <1>1 DEF NoResponse, Vlans
  <2>3. InUse' \subseteq InUse
    BY <1>1, <2>1, <2>2 DEF InUse
  <2> QED
    BY <1>1, <2>1, <2>3 DEF IInv, DisciplineInv
<1> QED
  BY <1>2, <1>3, <1>4, <1>5 DEF IInv

\* A rejected one leaves everything as it was; it does not happen under the
\* discipline.
LEMMA RejectIInv ==
  ASSUME IInv, Reject, UNCHANGED disciplined
  PROVE  IInv'
<1>1. /\ running /\ ~running' /\ down'
      /\ running' \in BOOLEAN /\ down' \in BOOLEAN
      /\ response' = NoResponse
      /\ UNCHANGED <<reported, active, excluded, event, timer, persist, sub, bind, ni>>
  BY DEF Reject, env
<1>2. TypeOK'
  BY <1>1 DEF IInv, TypeOK, NoResponse, Response
<1>3. NoDrift' /\ PlanInv' /\ FreshInv' /\ SettledUnlessDown'
  BY <1>1 DEF IInv, NoDrift, PlanInv, FreshInv, SettledUnlessDown
<1>4. ~disciplined
  BY <1>1, CandidateIsPlanned DEF Reject
<1> QED
  BY <1>2, <1>3, <1>4 DEF IInv, DisciplineInv

\* Every step preserves the invariant.
LEMMA NextIInv == IInv /\ [Next]_<<vars, disciplined>> => IInv'
<1> SUFFICES ASSUME IInv, [Next]_<<vars, disciplined>> PROVE IInv'
  OBVIOUS
<1>0. /\ reported \subseteq Iface /\ active \subseteq Subif /\ excluded \subseteq Vlan
      /\ ni \subseteq Vlan
      /\ disciplined => bind = sub /\ InUse \subseteq ni /\ Vlans(active) \subseteq ni
  BY DEF IInv, TypeOK, DisciplineInv, InUse
<1>1. ASSUME NEW p \in Subif, disciplined => p[2] \in ni, Learn(p), UNCHANGED disciplined
      PROVE  IInv'
  <2>1. p[1] \in Iface
    BY DEF Subif
  <2>2. active' = active \cup {p} /\ reported' = reported \cup {p[1]}
        /\ UNCHANGED <<excluded, handler, sub, bind, ni>> /\ event' = TRUE
    BY <1>1 DEF Learn
  <2>3. disciplined => Vlans(active') \subseteq ni
    BY <1>0, <1>1, <2>2 DEF Vlans
  <2> QED
    BY <1>0, <1>1, <2>1, <2>2, <2>3, InputIInv
<1>2. ASSUME NEW p \in Subif, AgeOut(p), UNCHANGED disciplined PROVE IInv'
  <2>1. disciplined => Vlans(active') \subseteq ni
    BY <1>0, <1>2 DEF AgeOut, Vlans
  <2> QED
    BY <1>0, <1>2, <2>1, InputIInv DEF AgeOut
<1>3. ASSUME NEW i \in Iface, Unreport(i), UNCHANGED disciplined PROVE IInv'
  <2>1. disciplined => Vlans(active') \subseteq ni
    BY <1>0, <1>3 DEF Unreport, Vlans
  <2> QED
    BY <1>0, <1>3, <2>1, InputIInv DEF Unreport
<1>4. ASSUME NEW e \in SUBSET Excludable, SetExclusions(e), UNCHANGED disciplined
      PROVE  IInv'
  <2>1. e \subseteq Vlan
    BY ExcludableAssumption
  <2> QED
    BY <1>0, <1>4, <2>1, InputIInv DEF SetExclusions
<1>5. ASSUME NEW v \in Vlan, Provision(v), UNCHANGED disciplined PROVE IInv'
  BY <1>0, <1>5, OperatorIInv DEF Provision
<1>6. ASSUME NEW v \in Vlan, disciplined => v \notin InUse, Deprovision(v),
             UNCHANGED disciplined
      PROVE  IInv'
  <2>1. /\ ni' = ni \ {v} /\ bind' = {p \in bind : p[2] # v}
        /\ UNCHANGED <<env, event, handler, sub>>
    BY <1>6 DEF Deprovision
  <2>2. disciplined => bind' = bind
    BY <1>0, <1>6, <2>1 DEF InUse, Vlans
  <2>3. disciplined => InUse \subseteq ni'
    BY <1>0, <1>6, <2>1
  <2> QED
    BY <1>0, <1>6, <2>1, <2>2, <2>3, OperatorIInv
<1>7. CASE InvokeOnEvent /\ UNCHANGED disciplined
  BY <1>7, InvokeIInv DEF InvokeOnEvent
<1>8. CASE InvokeOnTimer /\ UNCHANGED disciplined
  BY <1>8, InvokeIInv DEF InvokeOnTimer
<1>9. CASE Commit /\ UNCHANGED disciplined
  BY <1>9, CommitIInv
<1>10. CASE Reject /\ UNCHANGED disciplined
  BY <1>10, RejectIInv
<1>11. CASE UNCHANGED <<vars, disciplined>>
  <2>1. UNCHANGED <<reported, active, excluded, event, timer, running, response, down,
                    persist, sub, bind, ni, disciplined>>
    BY <1>11 DEF vars, env, handler
  <2> QED
    BY <2>1 DEF IInv, TypeOK, NoDrift, PlanInv, Planned, FreshInv, SettledUnlessDown,
                DisciplineInv, InUse, Wanted
<1> QED
  BY <1>1, <1>2, <1>3, <1>4, <1>5, <1>6, <1>7, <1>8, <1>9, <1>10, <1>11
     DEF Next, Environment, HandlerStep

\* The inductive invariant holds in every reachable state.
THEOREM Invariance == Spec => []IInv
<1>1. Init => IInv
  BY InitIInv
<1>2. IInv /\ [Next]_<<vars, disciplined>> => IInv'
  BY NextIInv
<1> QED
  BY <1>1, <1>2, PTL DEF Spec
-----------------------------------------------------------------------------
(* The properties.                                                         *)

\* Type correctness; a binding never outlives its subinterface.
THEOREM TypeCorrect == Spec => []TypeOK
<1>1. IInv => TypeOK
  BY DEF IInv
<1> QED
  BY <1>1, Invariance, PTL

\* Rejected batches and deleted MAC-VRFs never make persistent-data differ
\* from the subinterfaces.
THEOREM PersistentDataIsConfig == Spec => []NoDrift
<1>1. IInv => NoDrift
  BY DEF IInv
<1> QED
  BY <1>1, Invariance, PTL

\* Unless the instance is down, nothing that is due is ever forgotten.
THEOREM NothingForgotten == Spec => []SettledUnlessDown
<1>1. IInv => SettledUnlessDown
  BY DEF IInv
<1> QED
  BY <1>1, Invariance, PTL

\* Under the documented discipline no transaction is ever rejected and every
\* subinterface is bound.
THEOREM DisciplineIsEnough == Spec => []DisciplineSuffices
<1>1. IInv => DisciplineSuffices
  <2> SUFFICES ASSUME IInv, disciplined
               PROVE  /\ ~down /\ (running => Resolves(CandidateBind))
                      /\ bind = sub /\ Vlans(sub) \subseteq ni
    BY DEF DisciplineSuffices
  <2>1. ~down /\ bind = sub /\ Vlans(sub) \subseteq ni
    BY DEF IInv, DisciplineInv, InUse
  <2>2. running => Resolves(CandidateBind)
    BY CandidateIsPlanned
  <2> QED
    BY <2>1, <2>2
<1> QED
  BY <1>1, Invariance, PTL
=============================================================================
