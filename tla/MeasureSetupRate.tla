------------------------- MODULE MeasureSetupRate -------------------------
(***************************************************************************)
(* The multi-homing mode of measure_setup_rate.py: a tool on the host that *)
(* makes one dual-homed client bring up a range of VLANs and times their   *)
(* subinterfaces on every leaf of the Ethernet Segment.  Since the handler *)
(* there only binds into MAC-VRFs that exist, the tool provisions these    *)
(* first and deletes them afterwards.                                      *)
(*                                                                         *)
(* The leaves run beside the tool, each with the multi-homing handler of   *)
(* DynSubifMH, here for one port and with batches that hold everything.    *)
(* The tool is run several times, each run on what the ones before left.   *)
(***************************************************************************)
EXTENDS Integers, Sequences, FiniteSets

CONSTANTS Order,      \* leaves of the Ethernet Segment, as --mh-nodes lists them
          Ranges      \* --vlans of the first run, the second, ...

Leaf == {Order[i] : i \in 1..Len(Order)}
Vlan == UNION {Ranges[i] : i \in 1..Len(Ranges)}

\* The tool refuses fewer than two leaves, and a leaf that is named twice.
ASSUME MeasureAssumption ==
  /\ Order \in Seq(Leaf) /\ Len(Order) >= 2
  /\ \A i, j \in 1..Len(Order) : Order[i] = Order[j] => i = j
  /\ Ranges \in Seq(SUBSET Vlan)
  /\ \A i \in 1..Len(Ranges) : IsFiniteSet(Ranges[i]) /\ Ranges[i] # {}

VARIABLES
  active,    \* per leaf: active-vlans of the port
  event,     \* per leaf: the handler is due
  running,   \* per leaf: it has answered and is not committed yet
  snap,      \* per leaf: active VLANs it answered to
  sub, bind, ni,   \* per leaf: subinterfaces, bindings, MAC-VRFs
  routes,    \* AD-per-EVI routes on their way: <<from, to, vlan>>
  client,    \* VLAN subinterfaces of the dual-homed client
  pc,        \* where the tool is
  todo,      \* leaves the current loop has still to visit
  runs,      \* runs started
  range,     \* --vlans
  memory,    \* the tool's own variables, as long as they matter
  uncleared  \* <<leaf, vlan>> still active, or active again, after the leaf was cleared

leaves == <<active, event, running, snap, sub, bind, ni, routes>>
tool   == <<client, pc, todo, runs, range, memory>>
vars   == <<leaves, tool, uncleared>>

\* Ends of a run: "kept" is "done" without the teardown (--keep-macvrfs).
Stopped == {"none", "refused", "failed", "aborted", "kept", "done"}

Memory == [failed   : SUBSET Leaf,   \* leaves whose pre-warm commit failed
           seen     : Nat,           \* n_up_now, so far in this round
           complete : BOOLEAN,       \* everything was up
           sound    : BOOLEAN]       \* it was Quiet when the run began, and no part
                                     \* of the cold check was skipped or failed

Blank == [failed |-> {}, seen |-> 0, complete |-> FALSE, sound |-> FALSE]

EachLeaf(x) == [l \in Leaf |-> x]

Init ==
  /\ active = EachLeaf({}) /\ event = EachLeaf(FALSE)
  /\ running = EachLeaf(FALSE) /\ snap = EachLeaf({})
  /\ sub = EachLeaf({}) /\ bind = EachLeaf({}) /\ ni = EachLeaf({})
  /\ routes = {} /\ client = {}
  /\ pc = "none" /\ todo = Order /\ runs = 0 /\ range = {}
  /\ memory = Blank /\ uncleared = {}
-----------------------------------------------------------------------------
(* The leaves.                                                             *)

\* The tool has passed the clearing of leaf l.
Cleared(l) ==
  \/ pc = "clear" /\ \A i \in 1..Len(todo) : todo[i] # l
  \/ pc \in {"teardown", "done"}

Activate(l, v) ==
  /\ active' = [active EXCEPT ![l] = @ \cup {v}]
  /\ event' = [event EXCEPT ![l] = @ \/ v \notin active[l]]
  /\ uncleared' = IF v \in range /\ Cleared(l) THEN uncleared \cup {<<l, v>>} ELSE uncleared
  /\ UNCHANGED <<running, snap, sub, bind, ni>>

\* A frame of the client is hashed to leaf l.
Detect(l, v) ==
  /\ v \in client \ active[l]
  /\ Activate(l, v)
  /\ UNCHANGED routes

\* The route of a leaf that has bound the VLAN arrives at another one.
Import(r) ==
  /\ r \in routes
  /\ Activate(r[2], r[3])
  /\ routes' = routes \ {r}

\* The retention timer is longer than a measurement.
Measuring == pc \in {"poll", "clients"}

Expire(l, v) ==
  /\ v \in active[l]
  /\ ~(Measuring /\ v \in range)
  /\ active' = [active EXCEPT ![l] = @ \ {v}]
  /\ event' = [event EXCEPT ![l] = TRUE]
  /\ uncleared' = uncleared \ {<<l, v>>}
  /\ UNCHANGED <<running, snap, sub, bind, ni, routes>>

Invoke(l) ==
  /\ event[l] /\ ~running[l]
  /\ event' = [event EXCEPT ![l] = FALSE]
  /\ running' = [running EXCEPT ![l] = TRUE]
  /\ snap' = [snap EXCEPT ![l] = active[l]]
  /\ UNCHANGED <<active, sub, bind, ni, routes, uncleared>>

Adds(l) == snap[l] \ sub[l]

MutCandidateBind(l) == bind[l] \cup Adds(l)

CandidateBind(l) == (bind[l] \cap snap[l]) \cup Adds(l)

\* The transaction of leaf l, or its rejection.  What it binds is advertised
\* to the other leaves.
Commit(l) ==
  /\ running[l]
  /\ running' = [running EXCEPT ![l] = FALSE]
  /\ snap' = [snap EXCEPT ![l] = {}]
  /\ IF CandidateBind(l) \subseteq ni[l]
     THEN /\ sub' = [sub EXCEPT ![l] = snap[l]]
          /\ bind' = [bind EXCEPT ![l] = CandidateBind(l)]
          /\ routes' = {r \in routes : r[1] = l => r[3] \in snap[l]}
                       \cup ({l} \X (Leaf \ {l}) \X Adds(l))
     ELSE UNCHANGED <<sub, bind, routes>>
  /\ UNCHANGED <<active, event, ni, uncleared>>

Fabric ==
  /\ \/ \E l \in Leaf, v \in Vlan : Detect(l, v) \/ Expire(l, v)
     \/ \E r \in routes : Import(r)
     \/ \E l \in Leaf : Invoke(l) \/ Commit(l)
  /\ UNCHANGED tool
-----------------------------------------------------------------------------
(* The tool: cold check and pre-warm.                                      *)

\* A loop over the leaves goes on, or is followed by next.
Advance(next) ==
  IF Len(todo) > 1
  THEN todo' = Tail(todo) /\ UNCHANGED pc
  ELSE todo' = Order /\ pc' = next

\* The run is over.
Stop(end) == pc' = end /\ todo' = Order /\ memory' = Blank

\* Nothing is going on: the client does not have the VLANs vs, and the leaves
\* have settled, none blocked by a VLAN without MAC-VRF.
Quiet(vs) ==
  /\ client \cap vs = {} /\ routes = {}
  /\ \A l \in Leaf : ~event[l] /\ ~running[l] /\ active[l] = sub[l]

\* The tool is started, with --allow-active-vlans or without.
Start ==
  /\ pc \in Stopped /\ runs < Len(Ranges)
  /\ runs' = runs + 1
  /\ range' = Ranges[runs']
  /\ \/ /\ pc' = "checkactive"
        /\ memory' = [Blank EXCEPT !.sound = Quiet(range')]
     \/ /\ pc' = "checksubif"
        /\ memory' = Blank
  /\ uncleared' = {}
  /\ UNCHANGED <<leaves, client, todo>>

\* A read that fails answers nothing, which looks cold.
Check(found, next) ==
  /\ \/ found /\ Stop("refused")
     \/ ~found /\ Advance(next) /\ UNCHANGED memory
     \/ Advance(next) /\ memory' = [memory EXCEPT !.sound = FALSE]
  /\ UNCHANGED <<leaves, client, runs, range, uncleared>>

\* in_range: VLANs read_active_vlans finds in the requested range.
InRange(l) == active[l] \cap range

CheckActive == pc = "checkactive" /\ Check(InRange(Head(todo)) # {}, "checksubif")

MutPresent(l) == bind[l] \cap active[l] \cap range

\* present: those read_subif_state finds on the port, up or not.
Present(l) == sub[l] \cap range

CheckSubif == pc = "checksubif" /\ Check(Present(Head(todo)) # {}, "prewarm")

\* sr_cli: what counts as failed may have been applied, when the connection
\* broke after it.
Outcome == {o \in [ok : BOOLEAN, applied : BOOLEAN] : o.ok => o.applied}

MutFailures(l, o) == IF o.ok THEN {} ELSE {l}

Failures(l, o) == IF o.ok THEN memory.failed ELSE memory.failed \cup {l}

\* One commit per leaf; failures are looked at when all leaves were visited,
\* and end the run without undoing anything.
Prewarm ==
  /\ pc = "prewarm"
  /\ LET l == Head(todo)
     IN  \E o \in Outcome :
           /\ ni' = IF o.applied THEN [ni EXCEPT ![l] = @ \cup range] ELSE ni
           /\ LET failed == Failures(l, o)
              IN  IF Len(todo) = 1 /\ failed # {}
                  THEN Stop("failed")
                  ELSE Advance("trigger") /\ memory' = [memory EXCEPT !.failed = failed]
  /\ UNCHANGED <<active, event, running, snap, sub, bind, routes,
                 client, runs, range, uncleared>>
-----------------------------------------------------------------------------
(* The tool: trigger, polling, cleanup.                                    *)

\* Whether the client carried the commands out is not looked at.
Trigger ==
  /\ pc = "trigger"
  /\ client' \in {client, client \cup range}
  /\ pc' = "poll"
  /\ UNCHANGED <<leaves, todo, runs, range, memory, uncleared>>

MutTarget == Cardinality(range)

Target == Cardinality(range) * Len(Order)

\* VLANs whose subinterface on leaf l is oper-up.
Up(l) == bind[l] \cap range

\* One read.  A failed one looks like nothing up.  After the last one of a
\* round the loop ends if everything is up; otherwise it may go on, or end by
\* the settle timer or the deadline.
Poll ==
  /\ pc = "poll"
  /\ \E n \in {0, Cardinality(Up(Head(todo)))} :
       LET seen == memory.seen + n
       IN  \/ /\ Len(todo) > 1
              /\ Advance("poll") /\ memory' = [memory EXCEPT !.seen = seen]
           \/ /\ Len(todo) = 1 /\ seen # Target
              /\ Advance("poll") /\ memory' = [memory EXCEPT !.seen = 0]
           \/ /\ Len(todo) = 1
              /\ Advance("clients")
              /\ memory' = [memory EXCEPT !.seen = 0, !.complete = (seen = Target)]
  /\ UNCHANGED <<leaves, client, runs, range, uncleared>>

\* Skipped with --keep-subifs, and its outcome not looked at.
DeleteClients ==
  /\ pc = "clients"
  /\ client' \in {client, client \ range}
  /\ pc' = "clear"
  /\ memory' = Blank
  /\ UNCHANGED <<leaves, todo, runs, range, uncleared>>

MutClearable(l) == IF l = Order[1] THEN active[l] \cap range ELSE {}

\* VLANs clear-retention-timer is called for.
Clearable(l) == active[l] \cap range

\* One after the other, the result not looked at.  The port forgets those that
\* went through.
Clear ==
  /\ pc = "clear"
  /\ LET l == Head(todo)
     IN  \E gone \in SUBSET Clearable(l) :
           /\ active' = [active EXCEPT ![l] = @ \ gone]
           /\ event' = [event EXCEPT ![l] = @ \/ gone # {}]
           /\ uncleared' = uncleared \cup ({l} \X (Clearable(l) \ gone))
  /\ \E next \in {"kept", "teardown"} : Advance(next)
  /\ UNCHANGED <<running, snap, sub, bind, ni, routes, client, runs, range, memory>>

\* Two seconds later, whatever the handlers have done in them.  Not looked at
\* either.
Teardown ==
  /\ pc = "teardown"
  /\ LET l == Head(todo)
     IN  \/ /\ ni' = [ni EXCEPT ![l] = @ \ range]
            /\ bind' = [bind EXCEPT ![l] = @ \ range]
            /\ routes' = {r \in routes : r[1] = l => r[3] \notin range}
         \/ UNCHANGED <<ni, bind, routes>>
  /\ Advance("done")
  /\ UNCHANGED <<active, event, running, snap, sub,
                 client, runs, range, memory, uncleared>>

\* Ctrl-C or an exception: there is no final clause.
Interrupt ==
  /\ pc \notin Stopped
  /\ Stop("aborted")
  /\ UNCHANGED <<leaves, client, runs, range, uncleared>>

ToolStep == CheckActive \/ CheckSubif \/ Prewarm \/ Trigger \/ Poll
            \/ DeleteClients \/ Clear \/ Teardown

Next == Fabric \/ Start \/ ToolStep \/ Interrupt

Spec == Init /\ [][Next]_vars
-----------------------------------------------------------------------------
(* Properties.                                                             *)

TypeOK ==
  /\ active \in [Leaf -> SUBSET Vlan] /\ snap \in [Leaf -> SUBSET Vlan]
  /\ event \in [Leaf -> BOOLEAN] /\ running \in [Leaf -> BOOLEAN]
  /\ sub \in [Leaf -> SUBSET Vlan] /\ ni \in [Leaf -> SUBSET Vlan]
  /\ \A l \in Leaf : bind[l] \subseteq sub[l] \cap ni[l]
  /\ \A r \in routes : r[3] \in bind[r[1]] /\ r[2] \in Leaf \ {r[1]}
  /\ client \subseteq Vlan /\ range \subseteq Vlan
  /\ memory \in Memory /\ runs \in 0..Len(Ranges)
  /\ uncleared \subseteq {p \in Leaf \X range : p[2] \in active[p[1]]}

\* The range is really cold when it is triggered, if no check was skipped or
\* failed and nothing was going on when the run began.  Both checks are
\* needed: a VLAN that has just expired is not active, but still configured.
ColdWhenTriggered ==
  pc = "trigger" /\ memory.sound =>
    \A l \in Leaf : (active[l] \cup sub[l]) \cap range = {}

\* From the trigger to the teardown no VLAN under measurement makes a leaf
\* reject the batch of all the others.
NoSelfPoisoning ==
  pc \in {"poll", "clients", "clear"} =>
    \A l \in Leaf : running[l] => CandidateBind(l) \cap range \subseteq ni[l]

\* If polling ended because everything was up, everything was, on all leaves
\* at the same time, although they were read one after the other.
CompleteIsTrue ==
  pc = "clients" /\ memory.complete /\ memory.sound =>
    \A l \in Leaf : range \subseteq bind[l]

\* A finished run leaves no VLAN active but those whose timer was not cleared
\* or that came back after that.  Where none is active the subinterfaces go
\* too once the handler has settled, however the teardown overtook it.
CleansUp ==
  pc = "done" =>
    \A l \in Leaf :
      /\ \A v \in active[l] \cap range : <<l, v>> \in uncleared
      /\ active[l] = {} /\ ~event[l] /\ ~running[l] => sub[l] \cap range = {}
=============================================================================
