-------------------------- MODULE EventHandlerMain --------------------------
(***************************************************************************)
(* event_handler_main of dyn_subif_custom.py, loop by loop: the options,   *)
(* the collection of pending changes with its early breaks, the            *)
(* application of the batch and the deletion of unused network-instances.  *)
(* One behaviour is one invocation.  The order of every dictionary is      *)
(* arbitrary, so each loop over one picks any key it has not visited.      *)
(*                                                                         *)
(* DynSubif uses the closed form (Batches, Handle); this module shows that *)
(* the loops compute exactly that.                                         *)
(***************************************************************************)
EXTENDS HandlerResponse, ParseOptions, SequencesExt

CONSTANTS ExcludeOptions, RtOptions,   \* what the operator may configure
          RtAsnDefault,                \* RT_ASN_DEFAULT
          MaxId                        \* the largest number in them

\* What can be configured, as ParseOptions has it: one string, or a list of
\* strings, of tokens with at least one part each.
Part   == (0..MaxId) \cup {Blank, Untagged, Junk}
Token  == Seq(Part) \ {<<>>}
Option == {o \in [list : BOOLEAN, strings : Seq(Seq(Token))] : o.list \/ Len(o.strings) = 1}

ASSUME OptionsAssumption ==
  /\ MaxId \in Nat /\ RtAsnDefault \in Int
  /\ ExcludeOptions \subseteq Option /\ RtOptions \subseteq Option

VARIABLES
  raw,       \* the two options as configured, until they are parsed
  rtAsn,     \* rt_asn, written into every network-instance created
  excluded,  \* excluded_vlans, until it is applied
  prev,      \* persistent-data given to the invocation
  desired,   \* desired_interface_vlans
  reported,  \* its keys
  phase,     \* the loop being run
  todo,      \* keys that loop has not visited yet
  pending,   \* pending_changes: a sequence of subinterfaces
  k,         \* position in the batch
  result,    \* result_interface_vlans
  created,   \* VLANs network-instances were created for, in order
  deleted,   \* VLANs network-instances were deleted for
  newNi      \* current_network_instances

options == <<raw, rtAsn, excluded>>
input   == <<prev, desired, reported>>
vars    == <<options, input, phase, todo, pending, k, result, created, deleted, newNi>>

MutLimit == BatchSize

Limit == BatchSize + 1          \* _batch_limit

Of(S, i)  == {p \in S : p[1] = i}
Ifaces(S) == {p[1] : p \in S}
Take(s, n) == SubSeq(s, 1, IF Len(s) < n THEN Len(s) ELSE n)
MutSorted(S) == CHOOSE s \in SetToSeqs(S) : IsSorted(s, LAMBDA p, q : p[2] > q[2])

Sorted(S) == CHOOSE s \in SetToSeqs(S) : IsSorted(s, LAMBDA p, q : p[2] < q[2])

\* `for vlan_id in sorted(S): append; if len >= limit: break'.  The test comes
\* after the append, so a list already at the limit would still grow.
AppendUntil(acc, S) ==
  LET room == IF Len(acc) < Limit THEN Limit - Len(acc) ELSE 1
  IN  acc \o Take(Sorted(S), room)

\* The body of the first loop for interface i: adds, then removes.
WalkReported(acc, i) ==
  LET added == AppendUntil(acc, Of(desired \ prev.subif, i))
  IN  IF Len(added) < Limit
      THEN AppendUntil(added, Of(prev.subif \ desired, i))
      ELSE added

\* The body of the second loop: all VLANs of an interface no longer reported.
WalkGone(acc, i) == AppendUntil(acc, Of(prev.subif, i))

Parsed == [rt |-> Values(<<>>), exclude |-> Values(<<>>)]

Init ==
  /\ raw \in [rt : RtOptions, exclude : ExcludeOptions]
  /\ rtAsn = RtAsnDefault /\ excluded = {}
  /\ reported = {} /\ desired = {} /\ prev = NoPersist
  /\ phase = "rt-asn" /\ todo = {}
  /\ pending = <<>> /\ k = 1
  /\ result = {} /\ created = <<>> /\ deleted = {} /\ newNi = {}

ParseRtAsn ==
  /\ phase = "rt-asn"
  /\ rtAsn' = RtAsn(raw.rt, RtAsnDefault)
  /\ phase' = "exclude-vlans"
  /\ UNCHANGED <<raw, excluded, input, todo, pending, k, result, created, deleted, newNi>>

MutParseToken ==
  /\ phase = "exclude-vlans" /\ k <= Len(Tokens(raw.exclude))
  /\ LET token == Tokens(raw.exclude)[k]
     IN  IF Skipped(token)
         THEN k' = Len(Tokens(raw.exclude)) + 1 /\ UNCHANGED excluded
         ELSE k' = k + 1 /\ excluded' = excluded \cup Gained(token)
  /\ UNCHANGED <<raw, rtAsn, input, phase, todo, pending, result, created, deleted, newNi>>

\* One token of exclude-vlans.
ParseToken ==
  /\ phase = "exclude-vlans" /\ k <= Len(Tokens(raw.exclude))
  /\ LET token == Tokens(raw.exclude)[k]
     IN  excluded' = IF Skipped(token) THEN excluded ELSE excluded \cup Gained(token)
  /\ k' = k + 1
  /\ UNCHANGED <<raw, rtAsn, input, phase, todo, pending, result, created, deleted, newNi>>

LeaveOptions ==
  /\ phase = "exclude-vlans" /\ k > Len(Tokens(raw.exclude))
  /\ phase' = "paths" /\ k' = 1
  /\ raw' = Parsed
  /\ UNCHANGED <<rtAsn, excluded, input, todo, pending, result, created, deleted, newNi>>

\* The loop over the paths, malformed ones skipped.  What the event manager
\* passes besides the options is chosen here, where it is first looked at.
ReadPaths ==
  /\ phase = "paths"
  /\ reported' \in SUBSET Iface
  /\ \E active \in SUBSET {p \in Subif : p[1] \in reported'} :
        desired' = Desired(active, excluded)
  /\ prev' \in {[subif |-> S, ni |-> Vlans(S)] : S \in SUBSET Subif}
  /\ result' = prev'.subif
  /\ phase' = "reported" /\ todo' = reported'
  /\ excluded' = {}
  /\ UNCHANGED <<raw, rtAsn, pending, k, created, deleted, newNi>>

CollectReported ==
  /\ phase = "reported"
  /\ Len(pending) < Limit
  /\ \E i \in todo :
        /\ pending' = WalkReported(pending, i)
        /\ todo' = todo \ {i}
  /\ UNCHANGED <<options, input, phase, k, result, created, deleted, newNi>>

\* The first loop ends, by a break or for want of keys; the second one is
\* entered only below the limit.
LeaveReported ==
  /\ phase = "reported"
  /\ todo = {} \/ Len(pending) >= Limit
  /\ phase' = IF Len(pending) < Limit THEN "gone" ELSE "apply"
  /\ todo' = Ifaces(prev.subif) \ reported
  /\ UNCHANGED <<options, input, pending, k, result, created, deleted, newNi>>

CollectGone ==
  /\ phase = "gone"
  /\ Len(pending) < Limit
  /\ \E i \in todo :
        /\ pending' = WalkGone(pending, i)
        /\ todo' = todo \ {i}
  /\ UNCHANGED <<options, input, phase, k, result, created, deleted, newNi>>

LeaveGone ==
  /\ phase = "gone"
  /\ todo = {} \/ Len(pending) >= Limit
  /\ phase' = "apply"
  /\ UNCHANGED <<options, input, todo, pending, k, result, created, deleted, newNi>>

batch == Take(pending, BatchSize)

\* The first reference to this VLAN across any interface.
NeedsNi(v) == v \notin prev.ni /\ v \notin ToSet(created)

\* One entry of the batch: an add or a remove.
ApplyAdd ==
  /\ phase = "apply" /\ k <= Len(batch)
  /\ batch[k] \in desired
  /\ created' = IF NeedsNi(batch[k][2]) THEN Append(created, batch[k][2]) ELSE created
  /\ result' = result \cup {batch[k]}
  /\ k' = k + 1
  /\ UNCHANGED <<options, input, phase, todo, pending, deleted, newNi>>

ApplyRemove ==
  /\ phase = "apply" /\ k <= Len(batch)
  /\ batch[k] \notin desired
  /\ result' = result \ {batch[k]}
  /\ k' = k + 1
  /\ UNCHANGED <<options, input, phase, todo, pending, created, deleted, newNi>>

\* After the batch: current_network_instances, the deletes and the response.
Finish ==
  /\ phase = "apply" /\ k > Len(batch)
  /\ newNi' = Vlans(result)
  /\ deleted' = {v \in prev.ni : v \notin newNi'}
  /\ phase' = "done"
  /\ UNCHANGED <<options, input, todo, pending, k, result, created>>

Next ==
  \/ ParseRtAsn
  \/ ParseToken
  \/ LeaveOptions
  \/ ReadPaths
  \/ CollectReported
  \/ LeaveReported
  \/ CollectGone
  \/ LeaveGone
  \/ ApplyAdd
  \/ ApplyRemove
  \/ Finish

Spec == Init /\ [][Next]_vars

\* The response the loops have built.
Answer == [desired  |-> desired,
           adds     |-> ToSet(batch) \cap desired,
           removes  |-> ToSet(batch) \ desired,
           create   |-> ToSet(created),
           delete   |-> deleted,
           reinvoke |-> Len(pending) > BatchSize,
           persist  |-> [subif |-> result, ni |-> newNi]]
-----------------------------------------------------------------------------
(* Properties.                                                             *)

Names(token, v) ==
  \/ token = <<v>>
  \/ token = <<Untagged>> /\ v = 0
  \/ Len(token) = 2 /\ IsInt(token[1]) /\ IsInt(token[2]) /\ token[1] <= v /\ v <= token[2]

Spells(value, n) ==
  /\ value.strings # <<>>
  /\ value.strings[1] \in {<<<<n>>>>, <<<<Blank, -n>>>>}

\* The options mean what is written in them.  A VLAN is excluded if and only
\* if some token names it, alone, as "untagged" or between two bounds:
\* whatever else is written disables neither the handler nor another token.
\* rt-asn is the first value, or the default where that is no number.
OptionsAsWritten ==
  phase = "exclude-vlans" /\ k > Len(Tokens(raw.exclude)) =>
     /\ excluded = {v \in 0..MaxId : \E token \in ToSet(Tokens(raw.exclude)) : Names(token, v)}
     /\ \/ Spells(raw.rt, rtAsn)
        \/ rtAsn = RtAsnDefault /\ \A n \in -MaxId..MaxId : ~Spells(raw.rt, n)

\* What the loops answer is what the handler's promise says: a batch taken
\* from the front of the difference, and its closed-form response, with no
\* network-instance created twice.  MicroPython's heap is small: however much
\* is pending, the list they build never grows beyond the one entry that
\* tells whether a reinvoke is needed, and holds no change twice.
AnswersHandle ==
  phase = "done" =>
     /\ Len(pending) <= BatchSize + 1 /\ Cardinality(ToSet(pending)) = Len(pending)
     /\ Cardinality(ToSet(created)) = Len(created)
     /\ ToSet(batch) \in Batches(prev.subif, desired, reported)
     /\ Answer = Handle(prev, desired, ToSet(batch))

\* Conversely every batch DynSubif may take is one the loops take for some
\* order of the two dictionaries.
Collected(o1, o2) ==
  LET walk(W(_, _), acc, o) ==
        FoldLeft(LAMBDA a, i : IF Len(a) < Limit THEN W(a, i) ELSE a, acc, o)
  IN  walk(WalkGone, walk(WalkReported, <<>>, o1), o2)

EveryBatchReached ==
  phase = "reported" /\ todo = reported =>
     Batches(prev.subif, desired, reported) \subseteq
        {ToSet(Take(Collected(o1, o2), BatchSize)) :
            o1 \in SetToSeqs(reported), o2 \in SetToSeqs(Ifaces(prev.subif) \ reported)}
=============================================================================
