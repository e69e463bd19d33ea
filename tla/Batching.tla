------------------------------ MODULE Batching ------------------------------
(***************************************************************************)
(* The difference a handler invocation works off, and the part of it one   *)
(* invocation takes.  dyn_subif_custom.py and dyn_subif_mh_custom.py       *)
(* contain this code twice, word for word; both handler modules use it     *)
(* from here.                                                              *)
(*                                                                         *)
(* A subinterface is a pair <<interface, vlan_id>>.  Dictionaries of the   *)
(* code from interface to a set of VLANs are sets of such pairs; the set   *)
(* `reported' holds the keys of desired_interface_vlans, since an          *)
(* interface may be reported with no VLAN at all.                          *)
(*                                                                         *)
(* The nested collection loops walk MicroPython dictionaries, whose order  *)
(* is arbitrary: Batches is the set of all results, over every order of    *)
(* the interfaces.  Module EventHandlerMain runs the loops and checks      *)
(* that they produce exactly these sets.                                   *)
(***************************************************************************)
EXTENDS Integers, FiniteSets

CONSTANTS Iface,      \* interfaces with active-vlan detection
          Vlan,       \* VLAN ids; 0 is the untagged one
          BatchSize   \* VLAN_BATCH_SIZE

ASSUME BatchingAssumption ==
  /\ IsFiniteSet(Iface)
  /\ IsFiniteSet(Vlan)
  /\ Vlan \subseteq Nat
  /\ BatchSize \in Nat \ {0}

Subif == Iface \X Vlan

\* The VLANs some subinterface of S carries.
Vlans(S) == {p[2] : p \in S}

\* desired_interface_vlans: what is active, less the excluded VLANs.
Desired(active, excluded) == {p \in active : p[2] \notin excluded}

MutPending(previous, desired) == desired \ previous

\* The complete list of pending changes.  An entry that is desired is an
\* "add", one that is not is a "remove".
Pending(previous, desired) == (desired \ previous) \cup (previous \ desired)

\* The collection reaches q before p whatever the order of the dictionaries:
\* reported interfaces come before vanished ones, and the changes of one
\* interface are its adds, then its removes, each sorted by VLAN id.
Precedes(q, p, desired, reported) ==
  \/ q[1] \in reported /\ p[1] \notin reported
  \/ /\ q[1] = p[1]
     /\ \/ q \in desired /\ p \notin desired
        \/ (q \in desired <=> p \in desired) /\ q[2] < p[2]

\* A set the collection may stop at: closed under Precedes, and at most one
\* interface of each kind cut in the middle.
Prefix(B, previous, desired, reported) ==
  LET all  == Pending(previous, desired)
      cut(i) == /\ \E p \in B : p[1] = i
                /\ \E p \in all \ B : p[1] = i
  IN  /\ \A p \in B : \A q \in all :
           Precedes(q, p, desired, reported) => q \in B
      /\ \A i, j \in Iface : cut(i) /\ cut(j) => i = j

\* One entry beyond the batch is collected to learn whether work remains.
NeedsReinvoke(previous, desired) ==
  Cardinality(Pending(previous, desired)) > BatchSize

\* The batches an invocation may take: all pending changes when they fit,
\* otherwise BatchSize of them from the front of the list.
Batches(previous, desired, reported) ==
  IF NeedsReinvoke(previous, desired)
  THEN {B \in SUBSET Pending(previous, desired) :
           /\ Cardinality(B) = BatchSize
           /\ Prefix(B, previous, desired, reported)}
  ELSE {Pending(previous, desired)}

MutResult(previous, desired, B) == desired

\* result_interface_vlans: the previous state with the batch applied to it.
Result(previous, desired, B) == (previous \cup (B \cap desired)) \ (B \ desired)
=============================================================================
