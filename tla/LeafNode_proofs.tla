--------------------------- MODULE LeafNode_proofs ---------------------------
(***************************************************************************)
(* What two handlers and an operator that share the MAC-VRFs of a leaf can *)
(* and cannot do to each other, proved for any number of access ports and  *)
(* LAGs, any VLANs on either side and any batch size.                      *)
(*                                                                         *)
(* The lemmas about batches in DynSubif_proofs and DynSubifMH_proofs are   *)
(* about one handler's constants; the few facts needed here about SH's and *)
(* MH's operators are small enough to follow from their definitions.       *)
(***************************************************************************)
EXTENDS LeafNode, TLAPS

\* The single-homed handler knows its own subinterfaces, all bound, and the
\* MAC-VRFs they need exist.
ShInv ==
  /\ shActive \subseteq SH!Subif
  /\ shSub \subseteq SH!Subif
  /\ shBind = shSub
  /\ shPersist = [subif |-> shSub, ni |-> SH!Vlans(shSub)]
  /\ SH!Vlans(shSub) \subseteq ni

\* Its response in flight was computed from what is configured now.
ShPlan ==
  shRunning => \E D, B \in SUBSET SH!Subif : shResponse = SH!Handle(shPersist, D, B)

\* The same of the multi-homing handler, whose subinterfaces need not be bound.
MhInv ==
  /\ mhActive \subseteq MH!Subif
  /\ mhSub \subseteq MH!Subif
  /\ mhPersist = mhSub

MhPlan ==
  mhRunning => \E D, B \in SUBSET MH!Subif : mhResponse = MH!Handle(mhPersist, D, B)

\* What they share.
SharedInv ==
  /\ ni = vxlan
  /\ MH!Vlans(mhBind) \subseteq ni
  /\ NoInterference

\* The inductive invariant.
IInv == ShInv /\ ShPlan /\ MhInv /\ MhPlan /\ SharedInv
-----------------------------------------------------------------------------
(* One lemma per action.                                                   *)

\* The transaction of the single-homed handler leaves exactly what its answer
\* remembers: every subinterface bound, every MAC-VRF it needs created or
\* kept, and none touched that is not the handler's own.
LEMMA ShCandidate ==
  ASSUME IInv, shRunning
  PROVE  /\ SH!CandidateSub \subseteq SH!Subif
         /\ SH!CandidateBind = SH!CandidateSub
         /\ shResponse.persist = [subif |-> SH!CandidateSub,
                                  ni    |-> SH!Vlans(SH!CandidateSub)]
         /\ SH!Vlans(SH!CandidateSub) \subseteq SH!CandidateNi
         /\ SH!CandidateNi = SH!CandidateVxlan
         /\ shResponse.create \subseteq ShVlan /\ shResponse.delete \subseteq ShVlan
<1>1. PICK D \in SUBSET SH!Subif, B \in SUBSET SH!Subif :
        shResponse = SH!Handle(shPersist, D, B)
  BY DEF IInv, ShPlan
<1> DEFINE V == SH!Vlans(shSub)
           N == SH!Result(shSub, D, B)
<1>2. /\ shSub \subseteq SH!Subif /\ shBind = shSub /\ V \subseteq ni /\ ni = vxlan
      /\ shPersist.subif = shSub /\ shPersist.ni = V
  BY DEF IInv, ShInv, SharedInv
<1>3. /\ shResponse.adds = B \cap D
      /\ shResponse.removes = B \ D
      /\ shResponse.create = SH!Vlans(B \cap D) \ V
      /\ shResponse.delete = V \ SH!Vlans(N)
      /\ shResponse.persist = [subif |-> N, ni |-> SH!Vlans(N)]
  BY <1>1, <1>2 DEF SH!Handle, SH!Created, SH!Deleted, SH!NextPersist
<1>4. SH!CandidateSub = N
  BY <1>2, <1>3 DEF SH!CandidateSub, SH!Result
<1>5. N \subseteq SH!Subif
  BY <1>2 DEF SH!Result
<1>6. SH!CandidateBind = N
  <2>1. SH!CandidateBind = {p \in N : p[2] \notin shResponse.delete}
    BY <1>2, <1>3 DEF SH!CandidateBind, SH!Result
  <2>2. \A p \in N : p[2] \in SH!Vlans(N)
    BY DEF SH!Vlans
  <2> QED
    BY <1>3, <2>1, <2>2
<1>7. SH!Vlans(N) \subseteq SH!CandidateNi
  <2>1. SH!Vlans(N) \subseteq V \cup SH!Vlans(B \cap D)
    BY DEF SH!Vlans, SH!Result
  <2> QED
    BY <1>2, <1>3, <2>1 DEF SH!CandidateNi
<1>8. SH!CandidateNi = SH!CandidateVxlan
  BY <1>2 DEF SH!CandidateNi, SH!CandidateVxlan
<1>9. V \subseteq ShVlan /\ SH!Vlans(B \cap D) \subseteq ShVlan
  BY <1>2 DEF SH!Vlans, SH!Subif
<1>10. shResponse.create \subseteq ShVlan /\ shResponse.delete \subseteq ShVlan
  BY <1>3, <1>9
<1> QED
  BY <1>3, <1>4, <1>5, <1>6, <1>7, <1>8, <1>10

\* The initial states satisfy the invariant.
LEMMA InitIInv == Init => IInv
<1> SUFFICES ASSUME Init PROVE IInv
  OBVIOUS
<1>1. SH!Vlans({}) = {} /\ MH!Vlans({}) = {}
  BY DEF SH!Vlans, MH!Vlans
<1>2. /\ shActive = {} /\ shSub = {} /\ shBind = {} /\ ~shRunning
      /\ shPersist = [subif |-> {}, ni |-> {}] /\ ni = {} /\ vxlan = {}
  BY DEF Init, SH!Init, SH!NoPersist
<1>3. mhActive = {} /\ mhPersist = {} /\ mhSub = {} /\ mhBind = {} /\ ~mhRunning
  BY DEF Init, MH!Init
<1>4. ShInv /\ ShPlan
  BY <1>1, <1>2 DEF ShInv, ShPlan
<1>5. MhInv /\ MhPlan
  BY <1>3 DEF MhInv, MhPlan
<1>6. SharedInv
  BY <1>1, <1>2, <1>3 DEF Init, SharedInv, NoInterference
<1> QED
  BY <1>4, <1>5, <1>6 DEF IInv

\* Traffic and invocations change nothing that is configured.
LEMMA ShStepIInv == IInv /\ ShStep => IInv'
<1> SUFFICES ASSUME IInv, ShStep PROVE IInv'
  OBVIOUS
<1>1. UNCHANGED <<mhActive, mhPersist, mhRunning, mhResponse, mhSub, mhBind, provisioned>>
  BY DEF ShStep, mhVars
<1>2. UNCHANGED <<shPersist, shSub, shBind, ni, vxlan>>
  BY DEF ShStep, SH!Learn, SH!AgeOut, SH!InvokeOnEvent, SH!InvokeOnTimer,
         SH!Invoke, SH!config
<1>3. shActive' \subseteq SH!Subif
  BY DEF IInv, ShInv, ShStep, SH!Learn, SH!AgeOut, SH!InvokeOnEvent,
         SH!InvokeOnTimer, SH!Invoke, SH!env
<1>4. ShInv'
  BY <1>2, <1>3 DEF IInv, ShInv
<1>5. MhInv' /\ MhPlan'
  BY <1>1 DEF IInv, MhInv, MhPlan
<1>6. SharedInv'
  BY <1>1, <1>2 DEF IInv, SharedInv, NoInterference
<1>7. ShPlan'
  <2>1. CASE UNCHANGED <<shRunning, shResponse>>
    BY <1>2, <2>1 DEF IInv, ShPlan
  <2>2. CASE SH!Invoke
    <3> DEFINE D == SH!Desired(shActive, {})
    <3>1. PICK B \in SH!Batches(shPersist.subif, D, shReported) :
            shResponse' = SH!Handle(shPersist, D, B)
      BY <2>2 DEF SH!Invoke
    <3>2. shPersist.subif \subseteq SH!Subif /\ D \subseteq SH!Subif
      BY DEF IInv, ShInv, SH!Desired
    <3>3. B \subseteq SH!Pending(shPersist.subif, D)
      BY DEF SH!Batches
    <3>4. B \subseteq SH!Subif
      BY <3>2, <3>3 DEF SH!Pending
    <3> QED
      BY <1>2, <3>1, <3>2, <3>4 DEF ShPlan
  <2> QED
    BY <2>1, <2>2 DEF ShStep, SH!Learn, SH!AgeOut, SH!InvokeOnEvent, SH!InvokeOnTimer
<1> QED
  BY <1>4, <1>5, <1>6, <1>7 DEF IInv

\* The transaction of the single-homed handler deletes MAC-VRFs of its own
\* VLANs only, and the LAGs' bindings of those go with them.
LEMMA ShCommitIInv == IInv /\ ShCommit => IInv'
<1> SUFFICES ASSUME IInv, ShCommit PROVE IInv'
  OBVIOUS
<1>1. /\ shRunning /\ ~shRunning'
      /\ shSub' = SH!CandidateSub /\ shBind' = SH!CandidateBind
      /\ ni' = SH!CandidateNi /\ vxlan' = SH!CandidateVxlan
      /\ shPersist' = shResponse.persist
      /\ shActive' = shActive
  BY DEF ShCommit, SH!Commit, SH!env
<1>2. /\ mhBind' = {p \in mhBind : p[2] \notin shResponse.delete}
      /\ UNCHANGED <<mhActive, mhPersist, mhRunning, mhResponse, mhSub, provisioned>>
  BY DEF ShCommit
<1>3. ShInv'
  BY <1>1, ShCandidate DEF IInv, ShInv
<1>4. ShPlan'
  BY <1>1 DEF ShPlan
<1>5. MhInv' /\ MhPlan'
  BY <1>2 DEF IInv, MhInv, MhPlan
<1>6. ni' = (ni \cup shResponse.create) \ shResponse.delete
  BY <1>1 DEF SH!CandidateNi
<1>7. ni' = vxlan'
  BY <1>1, ShCandidate
<1>8. MH!Vlans(mhBind') \subseteq ni'
  BY <1>2, <1>6 DEF IInv, SharedInv, MH!Vlans
<1>9. NoInterference'
  <2>1. shResponse.create \subseteq ShVlan /\ shResponse.delete \subseteq ShVlan
    BY <1>1, ShCandidate
  <2> QED
    BY <1>2, <1>6, <2>1 DEF IInv, SharedInv, NoInterference
<1> QED
  BY <1>3, <1>4, <1>5, <1>7, <1>8, <1>9 DEF IInv, SharedInv

\* The multi-homing handler binds what it adds, or its transaction is rejected.
LEMMA MhStepIInv == IInv /\ MhStep => IInv'
<1> SUFFICES ASSUME IInv, MhStep PROVE IInv'
  OBVIOUS
<1>0. mhActive' \subseteq MH!Subif
  BY DEF IInv, MhInv, MhStep, MH!AgeOut, MH!Learn, MH!HandlerStep, MH!Invoke,
         MH!InvokeOnEvent, MH!InvokeOnTimer, MH!Commit, MH!Reject, MH!env
<1>1. UNCHANGED <<shActive, shRunning, shResponse, shPersist, shSub, shBind, vxlan, provisioned>>
  BY DEF MhStep, shVars
<1>2. ni' = ni
  BY DEF MhStep, MH!AgeOut, MH!Learn, MH!HandlerStep, MH!InvokeOnEvent,
         MH!InvokeOnTimer, MH!Invoke, MH!Commit, MH!Reject
<1>3. ShInv' /\ ShPlan'
  BY <1>1, <1>2 DEF IInv, ShInv, ShPlan
<1>4. CASE UNCHANGED <<mhPersist, mhSub, mhBind, mhRunning, mhResponse>>
  BY <1>0, <1>1, <1>2, <1>3, <1>4 DEF IInv, MhInv, MhPlan, SharedInv, NoInterference
<1>5. CASE MH!Invoke
  <2>1. UNCHANGED <<mhPersist, mhSub, mhBind>>
    BY <1>5 DEF MH!Invoke
  <2>2. MhPlan'
    <3> DEFINE D == MH!Desired(mhActive, {})
    <3>1. PICK B \in MH!Batches(mhPersist, D, mhReported) :
            mhResponse' = MH!Handle(mhPersist, D, B)
      BY <1>5 DEF MH!Invoke
    <3>2. mhPersist \subseteq MH!Subif /\ D \subseteq MH!Subif
      BY DEF IInv, MhInv, MH!Desired
    <3>3. B \subseteq MH!Pending(mhPersist, D)
      BY DEF MH!Batches
    <3>4. B \subseteq MH!Subif
      BY <3>2, <3>3 DEF MH!Pending
    <3> QED
      BY <2>1, <3>1, <3>2, <3>4 DEF MhPlan
  <2> QED
    BY <1>0, <1>1, <1>2, <1>3, <2>1, <2>2 DEF IInv, MhInv, SharedInv, NoInterference
<1>6. CASE MH!Commit
  <2>1. /\ mhRunning /\ ~mhRunning'
        /\ mhSub' = MH!CandidateSub /\ mhBind' = MH!CandidateBind
        /\ mhPersist' = mhResponse.persist
        /\ MH!Vlans(MH!CandidateBind) \subseteq ni
    BY <1>6 DEF MH!Commit, MH!Resolves
  <2>2. PICK D \in SUBSET MH!Subif, B \in SUBSET MH!Subif :
          mhResponse = MH!Handle(mhPersist, D, B)
    BY <2>1 DEF IInv, MhPlan
  <2>3. /\ mhResponse.adds = B \cap D
        /\ mhResponse.removes = B \ D
        /\ mhResponse.persist = MH!Result(mhPersist, D, B)
    BY <2>2 DEF MH!Handle
  <2>4. MhInv'
    BY <1>0, <2>1, <2>2, <2>3 DEF IInv, MhInv, MH!CandidateSub, MH!Result
  <2>5. MhPlan'
    BY <2>1 DEF MhPlan
  <2>6. SharedInv'
    BY <1>1, <1>2, <2>1 DEF IInv, SharedInv, NoInterference,
                            MH!CandidateSub, MH!CandidateBind
  <2> QED
    BY <1>3, <2>4, <2>5, <2>6 DEF IInv
<1>7. CASE MH!Reject
  <2>1. UNCHANGED <<mhPersist, mhSub, mhBind>> /\ ~mhRunning'
    BY <1>7 DEF MH!Reject
  <2> QED
    BY <1>0, <1>1, <1>2, <1>3, <2>1 DEF IInv, MhInv, MhPlan, SharedInv, NoInterference
<1> QED
  BY <1>4, <1>5, <1>6, <1>7 DEF MhStep, MH!AgeOut, MH!Learn, MH!handler,
     MH!HandlerStep, MH!InvokeOnEvent, MH!InvokeOnTimer

\* What the operator provisions is nobody's yet.
LEMMA ProvisionIInv ==
  ASSUME IInv, NEW v, Provision(v)
  PROVE  IInv'
<1>1. /\ ni' = ni \cup {v} /\ vxlan' = vxlan \cup {v}
      /\ provisioned' = provisioned \cup {v}
      /\ UNCHANGED <<shActive, shRunning, shResponse, shPersist, shSub, shBind,
                     mhActive, mhPersist, mhRunning, mhResponse, mhSub, mhBind>>
  BY DEF Provision, MH!Provision, MH!env, MH!handler, shVars
<1>2. ShInv' /\ ShPlan'
  BY <1>1 DEF IInv, ShInv, ShPlan
<1>3. MhInv' /\ MhPlan'
  BY <1>1 DEF IInv, MhInv, MhPlan
<1>4. SharedInv'
  BY <1>1 DEF IInv, SharedInv, NoInterference
<1> QED
  BY <1>2, <1>3, <1>4 DEF IInv

\* What the operator deletes neither handler has configured.
LEMMA DeprovisionIInv ==
  ASSUME IInv, NEW v, Deprovision(v)
  PROVE  IInv'
<1>1. /\ ni' = ni \ {v} /\ vxlan' = vxlan \ {v}
      /\ provisioned' = provisioned \ {v}
      /\ mhBind' = {p \in mhBind : p[2] # v}
      /\ UNCHANGED <<shActive, shRunning, shResponse, shPersist, shSub, shBind,
                     mhActive, mhPersist, mhRunning, mhResponse, mhSub>>
  BY DEF Deprovision, MH!Deprovision, MH!env, MH!handler, shVars
<1>2. v \notin SH!Vlans(shSub) /\ \A p \in mhSub : p[2] # v
  BY DEF Deprovision, MH!InUse, SH!Vlans, MH!Vlans
<1>3. ShInv' /\ ShPlan'
  BY <1>1, <1>2 DEF IInv, ShInv, ShPlan
<1>4. MhInv' /\ MhPlan'
  BY <1>1 DEF IInv, MhInv, MhPlan
<1>5. SharedInv'
  BY <1>1, <1>2 DEF IInv, SharedInv, NoInterference, MH!Vlans
<1> QED
  BY <1>3, <1>4, <1>5 DEF IInv

\* The inductive invariant holds in every reachable state.
THEOREM Invariance == Spec => []IInv
<1>1. Init => IInv
  BY InitIInv
<1>2. IInv /\ [Next]_vars => IInv'
  <2> SUFFICES ASSUME IInv, [Next]_vars PROVE IInv'
    OBVIOUS
  <2>1. CASE UNCHANGED vars
    <3>1. UNCHANGED <<shActive, shRunning, shResponse, shPersist, shSub, shBind,
                      mhActive, mhPersist, mhRunning, mhResponse, mhSub, mhBind,
                      ni, vxlan, provisioned>>
      BY <2>1 DEF vars, shVars, mhVars
    <3> QED
      BY <3>1 DEF IInv, ShInv, ShPlan, MhInv, MhPlan, SharedInv, NoInterference
  <2> QED
    BY <2>1, ShStepIInv, ShCommitIInv, MhStepIInv, ProvisionIInv, DeprovisionIInv
       DEF Next
<1> QED
  BY <1>1, <1>2, PTL DEF Spec
-----------------------------------------------------------------------------
(* The properties.                                                         *)

\* No step of one handler or of the operator, at any moment between the
\* other's snapshot and its transaction, leaves a binding without its MAC-VRF
\* or a MAC-VRF without its VXLAN interface, or takes a service of the access
\* ports away.
THEOREM SharedServicesResolve == Spec => []NodeResolves
<1>1. IInv => NodeResolves
  BY DEF IInv, ShInv, SharedInv, NodeResolves, SH!Vlans, MH!Vlans
<1> QED
  BY <1>1, Invariance, PTL

\* Sharing MAC-VRFs never makes either handler's persistent-data wrong about
\* its own subinterfaces.
THEOREM BothRememberTheirs == Spec => []NodeNoDrift
<1>1. IInv => NodeNoDrift
  BY DEF IInv, ShInv, MhInv, NodeNoDrift
<1> QED
  BY <1>1, Invariance, PTL

\* A VLAN that never shows up on an access port cannot lose its MAC-VRF or
\* the bindings of its LAG subinterfaces to the single-homed handler.
THEOREM OthersAreSafe == Spec => []NoInterference
<1>1. IInv => NoInterference
  BY DEF IInv, SharedInv
<1> QED
  BY <1>1, Invariance, PTL
=============================================================================
