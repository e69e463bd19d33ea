----------------------------- MODULE VlanService -----------------------------
(***************************************************************************)
(* What a single-homed leaf promises, without handler, events, timers,     *)
(* persistent-data or configuration paths: subinterfaces are provisioned   *)
(* in rounds.  A round looks at what is wanted once; when it lands it has  *)
(* only moved towards that snapshot, it has done all of it or a full batch *)
(* of it, and exactly the VLANs served have a service (MAC-VRF and VXLAN). *)
(***************************************************************************)
EXTENDS Integers, FiniteSets

CONSTANTS Iface, Vlan, BatchSize

VARIABLES
  wanted,   \* subinterfaces traffic and operator ask for
  round,    \* a round is under way
  target,   \* what was wanted when it started
  served,   \* subinterfaces provisioned
  service   \* VLANs that have a service

vars == <<wanted, round, target, served, service>>

Pairs == Iface \X Vlan
Diff(S, T) == (S \ T) \cup (T \ S)

Init ==
  /\ wanted = {} /\ round = FALSE /\ target = {}
  /\ served = {} /\ service = {}

Want ==
  /\ wanted' \in SUBSET Pairs
  /\ UNCHANGED <<round, target, served, service>>

\* A round may start at any time, also when there is nothing to do.
Start ==
  /\ ~round
  /\ round' = TRUE
  /\ target' = wanted
  /\ UNCHANGED <<wanted, served, service>>

Land ==
  /\ round
  /\ \E D \in SUBSET Diff(served, target) :
        /\ Cardinality(D) <= BatchSize
        /\ D = Diff(served, target) \/ Cardinality(D) = BatchSize
        /\ served' = Diff(served, D)
  /\ service' = {p[2] : p \in served'}
  /\ round' = FALSE
  /\ target' = {}
  /\ UNCHANGED wanted

\* The node comes back with nothing learned and nothing provisioned.
Restart ==
  /\ wanted' = {} /\ round' = FALSE /\ target' = {}
  /\ served' = {} /\ service' = {}

Next == Want \/ Start \/ Land \/ Restart

\* A round starts while something is left to do, and lands.
Fairness == WF_vars(Start /\ served # wanted) /\ WF_vars(Land)

Spec == Init /\ [][Next]_vars /\ Fairness
=============================================================================
