-------------------------- MODULE HandlerResponse --------------------------
(***************************************************************************)
(* What one invocation of dyn_subif_custom.py answers: a function of the   *)
(* previous persistent-data, of the desired subinterfaces and of the batch *)
(* taken from their difference.  Module DynSubif puts it among the steps   *)
(* of the event manager; module EventHandlerMain runs the loops of the     *)
(* code and shows that they compute it.                                    *)
(***************************************************************************)
EXTENDS Batching

Persist  == [subif : SUBSET Subif, ni : SUBSET Vlan]
Response == [desired : SUBSET Subif, adds : SUBSET Subif,
             removes : SUBSET Subif, create : SUBSET Vlan,
             delete : SUBSET Vlan, reinvoke : BOOLEAN, persist : Persist]

NoPersist  == [subif |-> {}, ni |-> {}]
NoResponse == [desired |-> {}, adds |-> {}, removes |-> {}, create |-> {},
               delete |-> {}, reinvoke |-> FALSE, persist |-> NoPersist]
-----------------------------------------------------------------------------
\* Network-instances (with their VXLAN interfaces) the response creates: the
\* VLANs added that had none before.
Created(prev, d, B) == Vlans(B \cap d) \ prev.ni

MutDeletedPerInterface(prev, d, B) == prev.ni \cap Vlans(B \ d)

MutDeletedBeforeAdds(prev, d, B) ==
  prev.ni \ Vlans(prev.subif \cap Result(prev.subif, d, B))

\* Those it deletes: the VLANs whose last subinterface the batch removes.
Deleted(prev, d, B) == prev.ni \ Vlans(Result(prev.subif, d, B))

MutNextPersistEvi(prev, result) ==
  [subif |-> result, ni |-> {IF v = 0 THEN 4096 ELSE v : v \in Vlans(result)}]

MutNextPersistKeeps(prev, result) ==
  [subif |-> result, ni |-> prev.ni \cup Vlans(result)]

\* response_persistent_data: what is configured once the batch is applied.
NextPersist(prev, result) == [subif |-> result, ni |-> Vlans(result)]

\* The whole answer.  `desired' is not sent, it is the snapshot the answer
\* was computed from; properties refer to it.
Handle(prev, d, B) ==
  [desired  |-> d,
   adds     |-> B \cap d,
   removes  |-> B \ d,
   create   |-> Created(prev, d, B),
   delete   |-> Deleted(prev, d, B),
   reinvoke |-> NeedsReinvoke(prev.subif, d),
   persist  |-> NextPersist(prev, Result(prev.subif, d, B))]
=============================================================================
