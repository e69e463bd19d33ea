------------------------------ MODULE LeafNode ------------------------------
(***************************************************************************)
(* One leaf as the lab deploys it: the single-homed handler on its access  *)
(* ports and the multi-homing handler on its LAGs, each with its own event *)
(* handler instance, events and persistent-data, and one running           *)
(* configuration between them.  Both name the MAC-VRF of a VLAN VLAN-<id>: *)
(* the first creates and deletes it, the second expects the operator to    *)
(* have provisioned it.                                                    *)
(*                                                                         *)
(* The modules DynSubif and DynSubifMH are instantiated side by side.      *)
(***************************************************************************)
EXTENDS Integers, FiniteSets

CONSTANTS ShIface, MhIface,   \* access ports, LAGs
          ShVlan, MhVlan,     \* VLANs in use on each
          BatchSize

ASSUME LeafAssumption == ShIface \cap MhIface = {}

VARIABLES
  shReported, shActive, shEvent, shTimer, shRunning, shResponse, shPersist,
  shSub, shBind,
  mhReported, mhActive, mhEvent, mhTimer, mhRunning, mhResponse, mhPersist,
  mhDown, mhSub, mhBind,
  ni, vxlan,      \* shared
  provisioned     \* MAC-VRFs the operator has provisioned and not deleted

shVars == <<shReported, shActive, shEvent, shTimer, shRunning, shResponse,
            shPersist, shSub, shBind>>
mhVars == <<mhReported, mhActive, mhEvent, mhTimer, mhRunning, mhResponse,
            mhPersist, mhDown, mhSub, mhBind>>
vars   == <<shVars, mhVars, ni, vxlan, provisioned>>

\* No exclusions: exclude-vlans is left out of the composition.
SH == INSTANCE DynSubif WITH
        Iface <- ShIface, Vlan <- ShVlan, Excludable <- {}, excluded <- {},
        reported <- shReported, active <- shActive, event <- shEvent,
        timer <- shTimer, running <- shRunning, response <- shResponse,
        persist <- shPersist, sub <- shSub, bind <- shBind

\* Operator and traffic are those of this module, disciplined ones.
MH == INSTANCE DynSubifMH WITH
        Iface <- MhIface, Vlan <- MhVlan, Excludable <- {}, excluded <- {},
        reported <- mhReported, active <- mhActive, event <- mhEvent,
        timer <- mhTimer, running <- mhRunning, response <- mhResponse,
        persist <- mhPersist, down <- mhDown, sub <- mhSub, bind <- mhBind,
        disciplined <- TRUE

Init == SH!Init /\ MH!Init /\ provisioned = {}
-----------------------------------------------------------------------------
\* Traffic on an access port, or an invocation of the single-homed handler.
ShStep ==
  /\ \/ \E p \in SH!Subif : SH!Learn(p) \/ SH!AgeOut(p)
     \/ SH!InvokeOnEvent
     \/ SH!InvokeOnTimer
  /\ UNCHANGED <<mhVars, provisioned>>

\* Its transaction.  Deleting a network-instance takes the bindings of the
\* LAGs with it.
ShCommit ==
  /\ SH!Commit
  /\ mhBind' = {p \in mhBind : p[2] \notin shResponse.delete}
  /\ UNCHANGED <<mhReported, mhActive, mhEvent, mhTimer, mhRunning, mhResponse,
                 mhPersist, mhDown, mhSub, provisioned>>

\* Traffic on a LAG or an AD-per-EVI route, for VLANs whose MAC-VRF exists;
\* or a step of the multi-homing handler.
MhStep ==
  /\ \/ \E p \in MH!Subif : MH!AgeOut(p) \/ (p[2] \in provisioned /\ MH!Learn(p))
     \/ MH!HandlerStep
  /\ UNCHANGED <<shVars, vxlan, provisioned>>

\* The operator provisions a MAC-VRF with its VXLAN interface.
Provision(v) ==
  /\ MH!Provision(v)
  /\ vxlan' = vxlan \cup {v}
  /\ provisioned' = provisioned \cup {v}
  /\ UNCHANGED shVars

\* The operator deletes what was provisioned, once neither handler uses it.
Deprovision(v) ==
  /\ v \in provisioned
  /\ v \notin MH!InUse \cup SH!Vlans(shActive \cup shSub \cup shResponse.adds)
  /\ MH!Deprovision(v)
  /\ vxlan' = vxlan \ {v}
  /\ provisioned' = provisioned \ {v}
  /\ UNCHANGED shVars

Next ==
  \/ ShStep
  \/ ShCommit
  \/ MhStep
  \/ \E v \in MhVlan : Provision(v) \/ Deprovision(v)

Spec == Init /\ [][Next]_vars
-----------------------------------------------------------------------------
(* Properties.                                                             *)

\* Whatever the two handlers and the operator do to the shared MAC-VRFs, no
\* binding of either refers to one that is gone, none lacks its VXLAN
\* interface, and the access ports keep whole services.
NodeResolves ==
  /\ SH!Vlans(shBind \cup mhBind) \subseteq ni
  /\ ni = vxlan
  /\ shBind = shSub

\* Each handler's persistent-data still says what subinterfaces it has.
NodeNoDrift == shPersist.subif = shSub /\ mhPersist = mhSub

\* The VLANs that never show up on an access port are safe from the
\* single-homed handler: their subinterfaces on the LAGs stay bound, and
\* their MAC-VRFs are those provisioned.
NoInterference ==
  /\ \A p \in mhSub : p[2] \notin ShVlan => p \in mhBind
  /\ ni \ ShVlan = provisioned \ ShVlan

\* The single-homed handler deletes only network-instances it created.
DeletesOnlyOwn == [][ShCommit => provisioned \subseteq ni']_vars
=============================================================================
