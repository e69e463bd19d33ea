--------------------------- MODULE DynSubif_proofs ---------------------------
(***************************************************************************)
(* The safety properties of DynSubif, proved for every set of interfaces   *)
(* and VLANs, every batch size and every list of excludable VLANs.         *)
(***************************************************************************)
EXTENDS DynSubif, FiniteSetTheorems, TLAPS

\* The response in flight answers the state that is still in
\* persistent-data, with some part of the difference of at most BatchSize
\* changes; it is the whole difference unless a reinvoke was requested.
Planned(B) ==
  /\ B \subseteq Pending(persist.subif, response.desired)
  /\ Cardinality(B) <= BatchSize
  /\ response = Handle(persist, response.desired, B)
  /\ response.reinvoke <=> B # Pending(persist.subif, response.desired)
  /\ response.reinvoke => Cardinality(B) = BatchSize

PlanInv == running => \E B \in SUBSET Subif : Planned(B)

\* Without a new event, the snapshot the response was computed from is still
\* what is wanted.
FreshInv == running /\ ~event => response.desired = Wanted

\* The inductive invariant.
IInv ==
  /\ TypeOK
  /\ NoDrift
  /\ ServiceIntegrity
  /\ PlanInv
  /\ FreshInv
  /\ SettledIsSynced
-----------------------------------------------------------------------------
(* The operators of Batching.                                              *)

\* The subinterfaces of a node are finitely many.
LEMMA SubifFinite == IsFiniteSet(Subif)
  BY FS_Product, BatchingAssumption DEF Subif

\* The VLANs of a set of subinterfaces are VLANs.
LEMMA VlansType ==
  ASSUME NEW S \in SUBSET Subif
  PROVE  Vlans(S) \in SUBSET Vlan
  BY DEF Vlans, Subif

\* What is wanted is a set of subinterfaces.
LEMMA DesiredType ==
  ASSUME NEW A \in SUBSET Subif, NEW E
  PROVE  Desired(A, E) \in SUBSET Subif
  BY DEF Desired

\* A batch is part of the difference and at most BatchSize changes; it is the
\* whole difference exactly when no reinvoke is needed.
LEMMA BatchFacts ==
  ASSUME NEW P \in SUBSET Subif, NEW D \in SUBSET Subif, NEW R,
         NEW B \in Batches(P, D, R)
  PROVE  /\ B \subseteq Pending(P, D)
         /\ B \in SUBSET Subif
         /\ Cardinality(B) <= BatchSize
         /\ NeedsReinvoke(P, D) <=> B # Pending(P, D)
         /\ NeedsReinvoke(P, D) => Cardinality(B) = BatchSize
<1>1. Pending(P, D) \in SUBSET Subif
  BY DEF Pending
<1>2. IsFiniteSet(Pending(P, D))
  BY <1>1, SubifFinite, FS_Subset
<1>3. Cardinality(Pending(P, D)) \in Nat
  BY <1>2, FS_CardinalityType
<1>4. BatchSize \in Nat
  BY BatchingAssumption
<1>5. CASE NeedsReinvoke(P, D)
  <2>1. Cardinality(Pending(P, D)) > BatchSize
    BY <1>5 DEF NeedsReinvoke
  <2>2. B \in SUBSET Pending(P, D) /\ Cardinality(B) = BatchSize
    BY <1>5 DEF Batches
  <2>3. B # Pending(P, D)
    BY <2>1, <2>2, <1>4
  <2> QED
    BY <1>1, <1>4, <1>5, <2>2, <2>3
<1>6. CASE ~NeedsReinvoke(P, D)
  <2>1. B = Pending(P, D)
    BY <1>6 DEF Batches
  <2>2. Cardinality(Pending(P, D)) <= BatchSize
    BY <1>6, <1>3, <1>4 DEF NeedsReinvoke
  <2> QED
    BY <1>1, <1>6, <2>1, <2>2
<1> QED
  BY <1>5, <1>6

\* The batch is what the result differs by; the whole difference leads to the
\* desired state and no smaller part does.
LEMMA ResultFacts ==
  ASSUME NEW P \in SUBSET Subif, NEW D \in SUBSET Subif,
         NEW B, B \subseteq Pending(P, D)
  PROVE  /\ Result(P, D, B) \in SUBSET Subif
         /\ Result(P, D, B) = D <=> B = Pending(P, D)
         /\ (Result(P, D, B) \ P) \cup (P \ Result(P, D, B)) = B
         /\ Vlans(Result(P, D, B)) \subseteq Vlans(P) \cup Vlans(B \cap D)
         /\ Vlans(B \cap D) \subseteq Vlans(Result(P, D, B))
  BY DEF Result, Pending, Vlans
-----------------------------------------------------------------------------
(* What HandlerResponse answers.                                           *)

\* A response has the type declared for it.
LEMMA HandleType ==
  ASSUME NEW p \in Persist, NEW D \in SUBSET Subif, NEW B \in SUBSET Subif
  PROVE  Handle(p, D, B) \in Response
<1>1. p.subif \in SUBSET Subif /\ p.ni \in SUBSET Vlan
  BY DEF Persist
<1>2. Result(p.subif, D, B) \in SUBSET Subif
  BY <1>1 DEF Result
<1>3. Vlans(Result(p.subif, D, B)) \in SUBSET Vlan /\ Vlans(B \cap D) \in SUBSET Vlan
  BY <1>2, VlansType
<1>4. NextPersist(p, Result(p.subif, D, B)) \in Persist
  BY <1>2, <1>3 DEF NextPersist, Persist
<1>5. Created(p, D, B) \in SUBSET Vlan /\ Deleted(p, D, B) \in SUBSET Vlan
  BY <1>1, <1>3 DEF Created, Deleted
<1>6. NeedsReinvoke(p.subif, D) \in BOOLEAN
  BY DEF NeedsReinvoke
<1> QED
  BY <1>4, <1>5, <1>6 DEF Handle, Response
-----------------------------------------------------------------------------
(* The inductive invariant.                                                *)

\* While a response is in flight, the transaction turns the configuration
\* into exactly what the new persistent-data says, and every reference of it
\* resolves.
LEMMA CandidateIsPlanned ==
  ASSUME IInv, running
  PROVE  /\ CandidateSub = response.persist.subif
         /\ CandidateBind = response.persist.subif
         /\ CandidateNi = Vlans(response.persist.subif)
         /\ CandidateVxlan = Vlans(response.persist.subif)
         /\ response.persist.ni = Vlans(response.persist.subif)
         /\ response.persist.subif \in SUBSET Subif
<1> DEFINE P == persist.subif
           D == response.desired
           N == response.persist.subif
<1>1. PICK B \in SUBSET Subif : Planned(B)
  BY DEF IInv, PlanInv
<1>2. /\ P \in SUBSET Subif /\ D \in SUBSET Subif
      /\ sub = P /\ bind = P /\ ni = Vlans(P) /\ vxlan = Vlans(P) /\ persist.ni = Vlans(P)
  BY DEF IInv, TypeOK, NoDrift, ServiceIntegrity, Persist, Response
<1>3. /\ B \subseteq Pending(P, D)
      /\ N = Result(P, D, B)
      /\ response.persist.ni = Vlans(N)
      /\ response.adds = B \cap D
      /\ response.removes = B \ D
      /\ response.create = Vlans(B \cap D) \ Vlans(P)
      /\ response.delete = Vlans(P) \ Vlans(N)
  <2>1. B \subseteq Pending(P, D) /\ response = Handle(persist, D, B)
    BY <1>1 DEF Planned
  <2>2. /\ response.adds = B \cap D
        /\ response.removes = B \ D
        /\ response.create = Created(persist, D, B)
        /\ response.delete = Deleted(persist, D, B)
        /\ response.persist = NextPersist(persist, Result(P, D, B))
    BY <2>1 DEF Handle
  <2>3. N = Result(P, D, B) /\ response.persist.ni = Vlans(Result(P, D, B))
    BY <2>2 DEF NextPersist
  <2> QED
    BY <2>1, <2>2, <2>3, <1>2 DEF Created, Deleted
<1>4. /\ N \in SUBSET Subif
      /\ Vlans(N) \subseteq Vlans(P) \cup Vlans(B \cap D)
      /\ Vlans(B \cap D) \subseteq Vlans(N)
  BY <1>2, <1>3, ResultFacts
<1>5. CandidateSub = N
  BY <1>2, <1>3 DEF CandidateSub, Result, Pending
<1>6. CandidateBind = N
  <2>1. CandidateBind = {p \in N : p[2] \notin response.delete}
    BY <1>5, <1>2 DEF CandidateBind, CandidateSub
  <2>2. \A p \in N : p[2] \in Vlans(N)
    BY DEF Vlans
  <2> QED
    BY <2>1, <2>2, <1>3
<1>7. CandidateNi = Vlans(N) /\ CandidateVxlan = Vlans(N)
  BY <1>2, <1>3, <1>4 DEF CandidateNi, CandidateVxlan
<1> QED
  BY <1>3, <1>4, <1>5, <1>6, <1>7

\* The initial states satisfy the invariant.
LEMMA InitIInv == Init => IInv
<1> SUFFICES ASSUME Init PROVE IInv
  OBVIOUS
<1>1. Vlans({}) = {}
  BY DEF Vlans
<1>2. TypeOK
  BY DEF Init, TypeOK, NoPersist, NoResponse, Persist, Response
<1>3. NoDrift /\ ServiceIntegrity
  BY <1>1 DEF Init, NoDrift, ServiceIntegrity, NoPersist
<1>4. PlanInv /\ FreshInv
  BY DEF Init, PlanInv, FreshInv
<1>5. SettledIsSynced
  BY DEF Init, SettledIsSynced, Wanted
<1> QED
  BY <1>2, <1>3, <1>4, <1>5 DEF IInv

\* An invocation plans a batch for what is wanted now.
LEMMA InvokeIInv ==
  ASSUME IInv, Invoke,
         \/ event /\ event' = FALSE /\ timer' = timer
         \/ timer' = FALSE /\ event' = event
  PROVE  IInv'
<1> DEFINE D == Desired(active, excluded)
<1>1. /\ ~running /\ running' = TRUE
      /\ UNCHANGED <<reported, active, excluded, persist, sub, bind, ni, vxlan>>
  BY DEF Invoke, env, config
<1>2. PICK B \in Batches(persist.subif, D, reported) :
         response' = Handle(persist, D, B)
  BY DEF Invoke
<1>3. /\ persist \in Persist /\ persist.subif \in SUBSET Subif
      /\ D \in SUBSET Subif
  BY DesiredType DEF IInv, TypeOK, Persist
<1>4. /\ B \subseteq Pending(persist.subif, D)
      /\ B \in SUBSET Subif
      /\ Cardinality(B) <= BatchSize
      /\ NeedsReinvoke(persist.subif, D) <=> B # Pending(persist.subif, D)
      /\ NeedsReinvoke(persist.subif, D) => Cardinality(B) = BatchSize
  BY <1>2, <1>3, BatchFacts
<1>5. TypeOK'
  <2>1. response' \in Response
    BY <1>2, <1>3, <1>4, HandleType
  <2> QED
    BY <1>1, <2>1 DEF IInv, TypeOK
<1>6. (NoDrift /\ ServiceIntegrity)'
  BY <1>1 DEF IInv, NoDrift, ServiceIntegrity
<1>7. response'.desired = D /\ response'.reinvoke = NeedsReinvoke(persist.subif, D)
  BY <1>2 DEF Handle
<1>8. PlanInv'
  <2>1. Planned(B)'
    BY <1>1, <1>2, <1>4, <1>7 DEF Planned
  <2> QED
    BY <1>4, <2>1 DEF PlanInv
<1>9. FreshInv'
  <2>1. Wanted' = D
    BY <1>1 DEF Wanted, Desired
  <2> QED
    BY <1>7, <2>1 DEF FreshInv
<1>10. SettledIsSynced'
  BY <1>1 DEF SettledIsSynced
<1> QED
  BY <1>5, <1>6, <1>8, <1>9, <1>10 DEF IInv

\* A transaction brings configuration and persistent-data together again.
LEMMA CommitIInv == IInv /\ Commit => IInv'
<1> SUFFICES ASSUME IInv, Commit PROVE IInv'
  OBVIOUS
<1> DEFINE N == response.persist.subif
<1>1. /\ running /\ ~running'
      /\ persist' = response.persist
      /\ response' = NoResponse
      /\ timer' = (timer \/ response.reinvoke)
      /\ UNCHANGED <<reported, active, excluded, event>>
  BY DEF Commit, env
<1>2. /\ N \in SUBSET Subif /\ persist'.ni = Vlans(N)
      /\ sub' = N /\ bind' = N /\ ni' = Vlans(N) /\ vxlan' = Vlans(N)
  BY <1>1, CandidateIsPlanned DEF Commit
<1>3. TypeOK'
  <2>1. response \in Response /\ response.reinvoke \in BOOLEAN /\ response.persist \in Persist
    BY DEF IInv, TypeOK, Response
  <2>2. response' \in Response
    BY <1>1 DEF NoResponse, Response, NoPersist, Persist
  <2>3. Vlans(N) \in SUBSET Vlan
    BY <1>2, VlansType
  <2>4. timer' \in BOOLEAN /\ running' \in BOOLEAN
    BY <1>1, <2>1 DEF IInv, TypeOK, Commit
  <2>5. persist' \in Persist
    BY <1>1, <2>1
  <2>6. sub' \subseteq Subif /\ bind' \subseteq Subif /\ ni' \subseteq Vlan /\ vxlan' \subseteq Vlan
    BY <1>2, <2>3
  <2>7. reported' \subseteq Iface /\ active' \subseteq Subif /\ excluded' \subseteq Vlan /\ event' \in BOOLEAN
    BY <1>1 DEF IInv, TypeOK
  <2> QED
    BY <2>2, <2>4, <2>5, <2>6, <2>7 DEF TypeOK
<1>4. (NoDrift /\ ServiceIntegrity)'
  BY <1>1, <1>2 DEF NoDrift, ServiceIntegrity
<1>5. (PlanInv /\ FreshInv)'
  BY <1>1 DEF PlanInv, FreshInv
<1>6. SettledIsSynced'
  <2> SUFFICES ASSUME ~event', ~timer' PROVE sub' = Wanted'
    BY DEF SettledIsSynced
  <2>1. Wanted' = Wanted
    BY <1>1 DEF Wanted
  <2>2. response.desired = Wanted
    BY <1>1 DEF IInv, FreshInv
  <2>3. ~response.reinvoke
    BY <1>1
  <2>4. PICK B \in SUBSET Subif : Planned(B)
    BY <1>1 DEF IInv, PlanInv
  <2>5. B = Pending(persist.subif, response.desired)
    BY <2>3, <2>4 DEF Planned
  <2>6. N = Result(persist.subif, response.desired, B)
    BY <2>4 DEF Planned, Handle, NextPersist
  <2>7. persist.subif \in SUBSET Subif /\ response.desired \in SUBSET Subif
    BY DEF IInv, TypeOK, Persist, Response
  <2>8. N = response.desired
    BY <2>5, <2>6, <2>7, ResultFacts
  <2> QED
    BY <1>2, <2>1, <2>2, <2>8
<1> QED
  BY <1>3, <1>4, <1>5, <1>6 DEF IInv

\* A change of the environment only makes the plan stale, and says so.
LEMMA EnvironmentIInv ==
  ASSUME IInv,
         reported' \subseteq Iface, active' \subseteq Subif, excluded' \subseteq Vlan,
         event' = TRUE,
         UNCHANGED <<timer, running, response, persist, config>>
  PROVE  IInv'
<1>1. UNCHANGED <<sub, bind, ni, vxlan>>
  BY DEF config
<1>2. TypeOK'
  BY <1>1 DEF IInv, TypeOK
<1>3. (NoDrift /\ ServiceIntegrity)'
  BY <1>1 DEF IInv, NoDrift, ServiceIntegrity
<1>4. PlanInv'
  BY DEF IInv, PlanInv, Planned
<1>5. FreshInv' /\ SettledIsSynced'
  BY DEF FreshInv, SettledIsSynced
<1> QED
  BY <1>2, <1>3, <1>4, <1>5 DEF IInv

\* A reboot starts over, with the exclusions of the startup configuration.
LEMMA RebootIInv == IInv /\ Reboot => IInv'
<1> SUFFICES ASSUME IInv, Reboot PROVE IInv'
  OBVIOUS
<1>1. Vlans({}) = {} /\ Wanted' = {}
  BY DEF Vlans, Wanted, Reboot
<1>2. TypeOK'
  BY DEF IInv, TypeOK, Reboot, NoResponse, NoPersist, Response, Persist
<1>3. (NoDrift /\ ServiceIntegrity)'
  BY <1>1 DEF Reboot, NoDrift, ServiceIntegrity, NoPersist
<1>4. (PlanInv /\ FreshInv /\ SettledIsSynced)'
  BY <1>1 DEF Reboot, PlanInv, FreshInv, SettledIsSynced
<1> QED
  BY <1>2, <1>3, <1>4 DEF IInv

\* Every step preserves the invariant.
LEMMA NextIInv == IInv /\ [Next]_vars => IInv'
<1> SUFFICES ASSUME IInv, [Next]_vars PROVE IInv'
  OBVIOUS
<1>0. reported \subseteq Iface /\ active \subseteq Subif /\ excluded \subseteq Vlan
  BY DEF IInv, TypeOK
<1>1. ASSUME NEW p \in Subif, Learn(p) PROVE IInv'
  <2>1. p[1] \in Iface
    BY DEF Subif
  <2> QED
    BY <1>0, <1>1, <2>1, EnvironmentIInv DEF Learn
<1>2. ASSUME NEW p \in Subif, AgeOut(p) PROVE IInv'
  BY <1>0, <1>2, EnvironmentIInv DEF AgeOut
<1>3. ASSUME NEW i \in Iface, Unreport(i) PROVE IInv'
  BY <1>0, <1>3, EnvironmentIInv DEF Unreport
<1>4. ASSUME NEW e \in SUBSET Excludable, SetExclusions(e) PROVE IInv'
  <2>1. e \subseteq Vlan
    BY ExcludableAssumption
  <2> QED
    BY <1>0, <1>4, <2>1, EnvironmentIInv DEF SetExclusions
<1>5. CASE Reboot
  BY <1>5, RebootIInv
<1>6. CASE InvokeOnEvent
  BY <1>6, InvokeIInv DEF InvokeOnEvent
<1>7. CASE InvokeOnTimer
  BY <1>7, InvokeIInv DEF InvokeOnTimer
<1>8. CASE Commit
  BY <1>8, CommitIInv
<1>9. CASE UNCHANGED vars
  <2>1. UNCHANGED <<reported, active, excluded, event, timer, running, response,
                    persist, sub, bind, ni, vxlan>>
    BY <1>9 DEF vars, env, config
  <2> QED
    BY <2>1 DEF IInv, TypeOK, NoDrift, ServiceIntegrity, PlanInv, Planned,
                FreshInv, SettledIsSynced, Wanted
<1> QED
  BY <1>1, <1>2, <1>3, <1>4, <1>5, <1>6, <1>7, <1>8, <1>9 DEF Next, Environment

\* The inductive invariant holds in every reachable state.
THEOREM Invariance == Spec => []IInv
<1>1. Init => IInv
  BY InitIInv
<1>2. IInv /\ [Next]_vars => IInv'
  BY NextIInv
<1> QED
  BY <1>1, <1>2, PTL DEF Spec
-----------------------------------------------------------------------------
(* The properties.                                                         *)

\* Type correctness of the handler, its answers and the configuration.
THEOREM TypeCorrect == Spec => []TypeOK
<1>1. IInv => TypeOK
  BY DEF IInv
<1> QED
  BY <1>1, Invariance, PTL

\* A subinterface never exists without its binding, its MAC-VRF and its VXLAN
\* interface, and these never outlive the last subinterface of the VLAN.
THEOREM ServiceIsWhole == Spec => []ServiceIntegrity
<1>1. IInv => ServiceIntegrity
  BY DEF IInv
<1> QED
  BY <1>1, Invariance, PTL

\* persistent-data never drifts from the running configuration.
THEOREM PersistentDataIsConfig == Spec => []NoDrift
<1>1. IInv => NoDrift
  BY DEF IInv
<1> QED
  BY <1>1, Invariance, PTL

\* The transaction of every response validates when it is committed.
THEOREM CommitsValidate == Spec => []CommitResolves
<1>1. IInv => CommitResolves
  <2> SUFFICES ASSUME IInv, running
               PROVE  Resolves(CandidateBind, CandidateNi, CandidateVxlan)
    BY DEF CommitResolves
  <2> QED
    BY CandidateIsPlanned DEF Resolves
<1> QED
  BY <1>1, Invariance, PTL

\* A reinvoke is requested exactly when the batch leaves work undone.
THEOREM ReinvokeIsExact == Spec => []ReinvokeExact
<1>1. IInv => ReinvokeExact
  <2> SUFFICES ASSUME IInv, running
               PROVE  response.reinvoke <=> response.persist.subif # response.desired
    BY DEF ReinvokeExact
  <2>1. PICK B \in SUBSET Subif : Planned(B)
    BY DEF IInv, PlanInv
  <2>2. persist.subif \in SUBSET Subif /\ response.desired \in SUBSET Subif
    BY DEF IInv, TypeOK, Persist, Response
  <2>3. response.persist.subif = Result(persist.subif, response.desired, B)
    BY <2>1 DEF Planned, Handle, NextPersist
  <2>4. B \subseteq Pending(persist.subif, response.desired)
        /\ (response.reinvoke <=> B # Pending(persist.subif, response.desired))
    BY <2>1 DEF Planned
  <2>5. response.persist.subif = response.desired
           <=> B = Pending(persist.subif, response.desired)
    BY <2>2, <2>3, <2>4 DEF Result, Pending
  <2> QED
    BY <2>4, <2>5
<1> QED
  BY <1>1, Invariance, PTL

\* No change of active VLANs or exclusions is ever forgotten: when nothing is
\* due, the configuration is what they ask for.
THEOREM NothingForgotten == Spec => []SettledIsSynced
<1>1. IInv => SettledIsSynced
  BY DEF IInv
<1> QED
  BY <1>1, Invariance, PTL

\* A transaction touches at most BatchSize subinterfaces.
THEOREM BatchesAreBounded == Spec => BatchBound
<1> DEFINE Changed == (sub' \ sub) \cup (sub \ sub')
<1>1. IInv /\ [Next]_vars => [~Reboot => Cardinality(Changed) <= BatchSize]_vars
  <2> SUFFICES ASSUME IInv, [Next]_vars, vars' # vars, ~Reboot
               PROVE  Cardinality(Changed) <= BatchSize
    OBVIOUS
  <2>1. CASE Commit
    <3>1. running /\ sub' = CandidateSub
      BY <2>1 DEF Commit
    <3>2. PICK B \in SUBSET Subif : Planned(B)
      BY <3>1 DEF IInv, PlanInv
    <3>3. sub = persist.subif /\ persist.subif \in SUBSET Subif
          /\ response.desired \in SUBSET Subif
      BY DEF IInv, NoDrift, TypeOK, Persist, Response
    <3>4. sub' = Result(sub, response.desired, B)
      BY <3>1, <3>2, <3>3, CandidateIsPlanned DEF Planned, Handle, NextPersist
    <3>5. B \subseteq Pending(sub, response.desired)
      BY <3>2, <3>3 DEF Planned
    <3>6. Changed = B
      BY <3>3, <3>4, <3>5 DEF Result, Pending
    <3> QED
      BY <3>2, <3>6 DEF Planned
  <2>2. CASE ~Commit
    <3>1. sub' = sub
      BY <2>2 DEF Next, Environment, Learn, AgeOut, Unreport, SetExclusions,
                  InvokeOnEvent, InvokeOnTimer, Invoke, config, vars
    <3>2. Changed = {}
      BY <3>1
    <3> QED
      BY <3>2, FS_EmptySet, BatchingAssumption
  <2> QED
    BY <2>1, <2>2
<1> QED
  BY <1>1, Invariance, PTL DEF Spec, BatchBound

\* When the work fits one invocation, a MAC-VRF still wanted on some
\* interface survives the transaction.
THEOREM MovesKeepService == Spec => MoveKeepsService
<1>1. IInv /\ [Next]_vars =>
        [Commit /\ ~response.reinvoke => ni \cap Vlans(response.desired) \subseteq ni']_vars
  <2> SUFFICES ASSUME IInv, Commit, ~response.reinvoke
               PROVE  Vlans(response.desired) \subseteq ni'
    OBVIOUS
  <2>1. running /\ ni' = CandidateNi
    BY DEF Commit
  <2>2. PICK B \in SUBSET Subif : Planned(B)
    BY <2>1 DEF IInv, PlanInv
  <2>3. persist.subif \in SUBSET Subif /\ response.desired \in SUBSET Subif
    BY DEF IInv, TypeOK, Persist, Response
  <2>4. /\ response.persist.subif = Result(persist.subif, response.desired, B)
        /\ B = Pending(persist.subif, response.desired)
    BY <2>2 DEF Planned, Handle, NextPersist
  <2>5. response.persist.subif = response.desired
    BY <2>3, <2>4 DEF Result, Pending
  <2> QED
    BY <2>1, <2>5, CandidateIsPlanned
<1> QED
  BY <1>1, Invariance, PTL DEF Spec, MoveKeepsService
-----------------------------------------------------------------------------
(* Refinement.                                                             *)

\* A step that provisions nothing is, to the service, a change of what is
\* wanted, or no step at all.
LEMMA WantOnly ==
  ASSUME Wanted' \in SUBSET Subif,
         UNCHANGED <<running, response, sub, ni>>
  PROVE  [Service!Next]_(Service!vars)
  BY DEF Service!Next, Service!Want, Service!Pairs, Subif

\* The transaction lands a round: all of the difference from the snapshot, or
\* a full batch of it.
LEMMA CommitLands == IInv /\ Commit => Service!Land
<1> SUFFICES ASSUME IInv, Commit PROVE Service!Land
  OBVIOUS
<1> DEFINE D == response.desired
<1>1. running /\ running' = FALSE /\ response' = NoResponse
      /\ sub' = CandidateSub /\ ni' = CandidateNi
      /\ UNCHANGED <<active, excluded>>
  BY DEF Commit, env
<1>2. PICK B \in SUBSET Subif : Planned(B)
  BY <1>1 DEF IInv, PlanInv
<1>3. sub = persist.subif /\ sub \in SUBSET Subif /\ D \in SUBSET Subif
  BY DEF IInv, NoDrift, TypeOK, Response
<1>4. B \subseteq Pending(sub, D) /\ Cardinality(B) <= BatchSize
  BY <1>2, <1>3 DEF Planned
<1>5. sub' = Result(sub, D, B)
  BY <1>1, <1>2, <1>3, CandidateIsPlanned DEF Planned, Handle, NextPersist
<1>6. ni' = Vlans(sub')
  BY <1>1, CandidateIsPlanned
<1>7. B = Pending(sub, D) \/ Cardinality(B) = BatchSize
  BY <1>2, <1>3 DEF Planned
<1>8. Service!Diff(sub, D) = Pending(sub, D)
  BY DEF Service!Diff, Pending
<1>9. sub' = Service!Diff(sub, B)
  BY <1>3, <1>4, <1>5 DEF Service!Diff, Pending, Result
<1>10. UNCHANGED Wanted /\ response'.desired = {}
  BY <1>1 DEF Wanted, NoResponse
<1>11. /\ B \in SUBSET Service!Diff(sub, D)
       /\ Cardinality(B) <= BatchSize
       /\ B = Service!Diff(sub, D) \/ Cardinality(B) = BatchSize
       /\ sub' = Service!Diff(sub, B)
  BY <1>4, <1>7, <1>8, <1>9
<1>12. ni' = {p[2] : p \in sub'}
  BY <1>6 DEF Vlans
<1>13. Service!Cardinality(B) = Cardinality(B)
  BY DEF Service!Cardinality, Cardinality
<1> QED
  BY <1>1, <1>10, <1>11, <1>12, <1>13 DEF Service!Land

\* Every step of the handler, the event manager and their environment is a
\* step of the service or invisible to it.
LEMMA StepRefines == IInv /\ [Next]_vars => [Service!Next]_(Service!vars)
<1> SUFFICES ASSUME IInv, [Next]_vars PROVE [Service!Next]_(Service!vars)
  OBVIOUS
<1>1. IInv'
  BY NextIInv
<1>2. Wanted' \in SUBSET Subif
  BY <1>1 DEF IInv, TypeOK, Wanted
<1>3. CASE Environment
  <2>1. UNCHANGED <<running, response, sub, ni>>
    BY <1>3 DEF Environment, Learn, AgeOut, Unreport, SetExclusions, config
  <2> QED
    BY <1>2, <2>1, WantOnly
<1>4. CASE Reboot
  <2>1. Wanted' = {} /\ response'.desired = {}
    BY <1>4 DEF Reboot, Wanted, NoResponse
  <2> QED
    BY <1>4, <2>1 DEF Reboot, Service!Next, Service!Restart
<1>5. CASE InvokeOnEvent \/ InvokeOnTimer
  <2>1. Invoke
    BY <1>5 DEF InvokeOnEvent, InvokeOnTimer
  <2>2. ~running /\ running' = TRUE /\ UNCHANGED <<active, excluded, sub, ni>>
    BY <2>1 DEF Invoke, env, config
  <2>3. response'.desired = Desired(active, excluded)
    BY <2>1 DEF Invoke, Handle
  <2>4. Wanted' = Wanted /\ response'.desired = Wanted
    BY <2>2, <2>3 DEF Wanted, Desired
  <2> QED
    BY <2>2, <2>4 DEF Service!Next, Service!Start
<1>6. CASE Commit
  BY <1>6, CommitLands DEF Service!Next
<1>7. CASE UNCHANGED vars
  <2>1. UNCHANGED <<active, excluded, running, response, sub, ni>>
    BY <1>7 DEF vars, env, config
  <2> QED
    BY <2>1 DEF Service!vars, Wanted
<1> QED
  BY <1>3, <1>4, <1>5, <1>6, <1>7 DEF Next

\* The handler implements the safety part of the abstract service.
THEOREM Refinement == Spec => ImplementsSafely
<1>1. Init => Service!Init
  BY DEF Init, Service!Init, Wanted, NoResponse
<1>2. IInv /\ [Next]_vars => [Service!Next]_(Service!vars)
  BY StepRefines
<1> QED
  BY <1>1, <1>2, Invariance, PTL DEF Spec, ImplementsSafely
=============================================================================
