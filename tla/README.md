# Verification of the SR Linux dynamic sub-interface handlers

TLA+ modules, TLC runs and TLAPS proofs for the code in this repository: two
event handlers that provision VLANs on SR Linux leaves when traffic shows up,
and the tools that exercise and measure them.  Paths below are relative to
`src/`.

Contents: [the system](#1-the-system) ·
[the modules](#2-the-modules-and-the-code) ·
[assumptions](#3-what-is-assumed-of-sr-linux) ·
[runs](#4-the-runs) · [findings](#5-findings) · [proofs](#6-what-is-proved) ·
[limits](#7-what-is-not-shown) · [plan](#8-plan) ·
[how to run](#9-running-it)

## 1. The system

| Component | State it keeps | Operations | Talks to |
|---|---|---|---|
| **Single-homed handler** `dyn_subif_custom.py` | `persistent-data`: VLANs per interface, network-instances | one function, `event_handler_main`: active VLANs and options in, configuration actions and new `persistent-data` out | event manager |
| **Multi-homing handler** `dyn_subif_mh_custom.py` | `persistent-data`: VLANs per LAG | the same, but only subinterfaces and bindings, never a MAC-VRF | event manager |
| **Event manager** (SR Linux, external) | pending events, reinvoke timers, `persistent-data`, oper-state of each instance | calls a handler, commits its actions, stores its data | handlers, running configuration |
| **Running configuration** (external) | subinterfaces, bindings, network-instances, vxlan-interfaces | validated transactions | both handlers, operator, tools |
| **vMotion emulator** `vmotion.py`, `rarp_agent.py` | phase of the move, times, counters; subinterfaces on the clients | warm up, cut over, announce, watch two leaves, report, clean up | clients (docker), leaves (gNMI, SSH) |
| **Setup-rate measurement** `measure_setup_rate.py` | polled state, progress timers; client subinterfaces and pre-warmed MAC-VRFs | cold check, pre-warm, trigger, poll, clean up | clients, leaves, indirectly the handlers |
| **Traffic generator** `run_traffic.py`, `traffic_agent.py` | listener logs | start listeners, wait, send, collect, compute outages | clients |
| **Client setup** `configure_vlans.py` | none; the VLAN subinterfaces of the clients | one shell script per client: links, addresses, IPv6 off; or deletion | clients |
| **Node transport** `srl_node.py` | inventory cache | gNMI get, CLI commit | leaves |
| **Stock handler** `dynamic-subinterfaces.py` | as the single-homed handler | reference copy, deployed nowhere | – |
| **Lab** `gen_config.py`, `dyn-vlan.clab.yml`, `configs/` | static | – | – |

### How it works

A tagged frame on a port makes its VLAN *active*.  The event manager hands the
handler all active VLANs, its options and the `persistent-data` of its last run.
The handler compares the two, takes at most `VLAN_BATCH_SIZE` (10) of the
differences, answers with the configuration actions for them and with the
`persistent-data` that describes the result, and asks to be called again in
100 ms if something was left over.  The event manager commits the actions as one
transaction and stores the data.  The handler never reads the configuration.

The single-homed handler makes, for each VLAN, one MAC-VRF `VLAN-<id>` and one
VXLAN interface for all interfaces together, and a subinterface with its binding
for each.  The multi-homing handler runs beside it on the same leaf, for the LAGs.
It only binds into a MAC-VRF of the same name that somebody else provisioned.

### What is hard about it

* Input changes at any time, also between an answer and its commit.
* Work is cut into batches in an order that depends on a dictionary, and the
  rest depends on one reinvoke request.
* A MAC-VRF is shared: by the interfaces of one handler, and by two handlers that
  do not know of each other.
* A transaction is all or nothing: one VLAN without its MAC-VRF rejects the
  batch of the multi-homing handler, with the reinvoke request in it.
* The tools observe leaves by polling.  A failed read looks like an absent entry,
  and a run may be interrupted anywhere.
* Three tools work on the same client subinterfaces, and each starts on what the
  last one, or a broken run of itself, has left.
* The measurement stops by timers that run while it is still triggering, and
  compares times of two clocks.

### What makes each part correct

* *Options*: what is written in them, and nothing else, takes effect.
* *Single-homed handler*: whole services (no subinterface without binding,
  MAC-VRF, VXLAN; none of these left behind); `persistent-data` is what is
  configured; every answer still validates when committed; nothing is forgotten;
  bounded batches; an unchanged input is reached.
* *Multi-homing handler*: the same as far as MAC-VRFs allow; a rejected batch
  loses nothing; under the documented discipline none is rejected.
* *Both together*: no binding without MAC-VRF, neither loses track of its own
  subinterfaces, each deletes only what is its own.
* *vMotion emulator*: the report says only what happened, its verdict still holds when
  it is printed, the clients are left clean as far as deleting works, the run ends.
* *Setup-rate measurement*: a warm range is refused, MAC-VRFs exist before the
  trigger, a complete result is complete everywhere, cleaning up leaves nothing that
  was cleared; the timers cut off nothing that is still coming, and the times are true.
* *Client setup*: a successful setup leaves no subinterface that talks by itself, a
  cleanup undoes a setup, a trigger completes every VLAN whatever is there, and each of
  them that was not silenced before can send.
* *Traffic generator*: a reported loss is one of the network and not of the test,
  nothing an earlier run left in the clients is counted if it could be removed, and an
  outage is the longest run of missing sequence numbers.

## 2. The modules and the code

```
Batching <- HandlerResponse <- DynSubif
   ^               ^              |  implements VlanService
   |               +-- EventHandlerMain (options and loops) -> ParseOptions
   +-- DynSubifMH
LeafNode = DynSubif and DynSubifMH over one configuration
SetupRate = MeasureSetupRate or SetupTimes, the modes of one tool
VMotion, RunTraffic: each tool with what it acts on
ClientLinks: the client subinterfaces of all tools
X_proofs: theorems about X
```

**`Batching`** – what both handlers contain word for word: the difference between
previous and desired VLANs, and which part of it one invocation takes.
A dictionary from interface to set of VLANs is a set of pairs
`<<interface, vlan>>`; `reported` has the keys, since an interface can be reported
with no VLAN.  `Batches` is the set of batches over all dictionary orders.

**`HandlerResponse`** – the answer of the single-homed handler as a function of
previous data, desired state and batch: what it adds, removes, creates, deletes,
whether it wants to be called again, and what it persists.

**`ParseOptions`** – `exclude-vlans` and `rt-asn` as pure operators.  A string is the
sequence of its tokens and a token the sequence of what stands between its dashes:
numbers, blanks, `untagged`, junk.  Both encodings of an option are there, one string
(split at commas) or a list of strings (not split).

**`EventHandlerMain`** – the same function as the code runs it, from the option
strings on: the tokens one by one, the two collection loops with their breaks, the
batch entry by entry with the bookkeeping of created network-instances, the final
deletes.  What the event manager passes is chosen when it is first looked at
(`ReadPaths`), which keeps the options and the rest from being multiplied.  One
behaviour is one invocation.  It justifies the closed form: the loops answer exactly
`Handle` of a batch in `Batches`, and reach every such batch.

**`DynSubif`** – the handler in its surroundings.

| Model | Code |
|---|---|
| `reported`, `active` | `paths` of the input (482-495) |
| `excluded` | option `exclude-vlans` (478) |
| `persist` | `persistent-data` (460, 469-471, 578-581) |
| `event`, `timer` | due because of a change / of `reinvoke-with-delay` (583) |
| `running`, `response` | answered, not committed |
| `sub`, `bind`, `ni`, `vxlan` | the paths the `_actions_*` functions write |
| `InvokeOnEvent`, `InvokeOnTimer` | `event_handler_main`, called for either reason |
| `Commit` | the action list, in its order, as one transaction |
| `Reboot` | lines 587-597: the save is commented out, so configuration and data go together |

An invocation is two steps, because that is where the interleavings are: `Invoke`
computes the answer from a snapshot, `Commit` applies it later.

**`VlanService`** – what a leaf promises, without any of this: rounds that look at
what is wanted once and move all of it, or a full batch of it, towards it; a
service exactly for the VLANs served.  `DynSubif` implements it with `running` as
the round and the snapshot as its target.

**`DynSubifMH`** – the multi-homing handler.  `Reject` is a transaction that fails
validation: nothing of it takes effect, and the instance is `down` until its
input changes.  A behaviour is of one of two operators.  One provisions and deletes
MAC-VRFs at any time.  The other is `disciplined`, as `README.md:187` asks for and
`measure_setup_rate.py` sets out to be (662-674 and 770-780): provision before
use, delete when unused.

**`LeafNode`** – both handlers as `configs/leafN.cfg` deploys them, two instances of
the modules above with `ni` and `vxlan` in common.  Here a commit of one handler
can take bindings of the other with it.

**`VMotion`** – `vmotion.py` with both leaves around it.  Every frame and every
read is a step.  `pc` is the place in `main`, `vm` which clients have the
subinterface, `leaf` what each leaf has seen, provisioned and learned; the other
variables have the code's names (`subif_up_t` and the like only as set or not).
No return code of a command in a client is looked at, so every creation, deletion and
frame may come to nothing (`Create`, `Delete`, `AfterFrame`); in particular the VM may be
on both hosts.  What a VM sends besides the RARPs is `Chatter`: the frames of a
subinterface that comes up, the answers to the peer's pings, and the data nudge, which
is why the option `--no-nudge` makes no difference here.  `origin` and `refused` only
record, for the properties: the target leaf as the run found it, and the clients whose
deletion in the final clause failed.

**`MeasureSetupRate`** – the multi-homing mode of `measure_setup_rate.py`, beside the
leaves of one Ethernet Segment.  Each leaf has the multi-homing handler reduced to
what the tool can meet: one port, batches that hold everything, `Invoke` for the
snapshot and `Commit` for the transaction or its rejection.  Detecting a VLAN on one
leaf sends a `route` that makes it active on the other.  `pc` is the place in `main`,
`todo` the leaves its loop has still to visit, `memory` its variables as far as a
later step reads them.  Any read may fail (and then looks like a leaf without the
entry), any commit may fail whether it was applied or not (`Outcome`), clearing may
clear any part, and the tool may be killed anywhere.  It runs several times in a row,
each time on what was left.

**`SetupTimes`** – the other modes of `measure_setup_rate.py`: one or several ports of
one leaf, or one port and the FDB of a second leaf (`evpn`), from the clock samples to
the end of polling.  Here time is part of the model: `clock` counts ticks from
`trigger_t`, `left` is how long the tool can stay where it is, `Tick` passes time
unless the tool or the leaves are due.  The leaves are a promise, `Gap`, about
when the next subinterface or FDB entry comes if one is outstanding; which ones come at
all (exclusions, ranges, rt-asn) is chosen in `Init`.  `NewRound`, `Read`, `ReadFdb`,
`Judge` and `Sleep` are the loop of lines 723-749; a failed read of a port counts as
nothing up, as in the code.  The cold check before and the cleanup after are the code of
`CheckActive`, `CheckSubif` and `DeleteClients` in `MeasureSetupRate`.  **`SetupRate`**
puts the modes side by side, as `main` does (474-556).

**`ClientLinks`** – what `configure_vlans.py` (setup, cleanup), `measure_setup_rate.py`
(trigger, deletion) and `vmotion.py` (a VM arrives, leaves) do to the subinterfaces of a
client.  Each script is the sequence of its lines; a line fails as `ip` would, and a
failing line takes the rest of its batch with it unless the batch runs with `-force` or
each command for itself.  A script can break off after any line, in the middle of a
VLAN too, and runs on or not when its tool is killed.

**`RunTraffic`** – `run_traffic.py` with the listener and the sender of
`traffic_agent.py` in each client and the network between them.  The loops of `main`
over clients are `Clean`, `Listen`, `FoundReady`/`WaitTimeout`, `WriteTargets`,
`StopListener`, `Collect`; the senders run at the same time and `JoinSenders` waits
for them or gives up.  What runs in a client is not ended by the end of the tool, so
a second run meets the senders, listeners and files of the first.  A packet is known
by run, flow and sequence number.  It is `dropped` by the socket or the network, or is
on the `wire` until a listener reads it; without a listener it is gone unrecorded,
which the report cannot tell from a drop.  `doubts` has the clients at which a step
failed that the tool does not, or cannot, react to, `unclean` those of them in which the
files of an earlier run could not be removed.

Modules `MC*` hold the sets the configurations use.  Operators named `Mut*`, each
just before the definition it alters, are faulty variants with the same
parameters: substituted for the original they make the property they were written
for fail, so each property is known to be able to.

## 3. What is assumed of SR Linux

The event manager is not in this repository.  The models rely on this of it, from
what the handlers' documentation says and do themselves rely on:

1. One invocation of an instance at a time, and its transaction before the next.
2. A transaction is atomic and validated as a whole: a binding needs its
   network-instance, a network-instance the vxlan-interface it names.  Deleting
   a network-instance deletes its bindings.
3. `persistent-data` is stored with the transaction, and not if it is rejected.
4. A change of paths or options leads to an invocation, also if it happens while
   one is running.  A change of anything else does not.
5. A rejected transaction leaves the instance down; the next event runs it again.
6. A reboot starts from the startup configuration, which has the options but
   nothing dynamic.
7. Only the handlers write the paths they own.  `--flush-source-leaf` of
   `vmotion.py` breaks this on purpose.

For `SetupTimes`: as long as something is going to be provisioned or learned, the next
of it comes within `Gap` of the one before, or of the end of the trigger; scripts, reads
and clock samples have longest durations; subinterfaces do not go down again within a
run; the difference of the clocks does not change during it.

For `ClientLinks`: `ip` refuses to add a link or address that is there and to touch a
link that is not; disabling IPv6 works where the link exists; when a tool is killed, the
next one starts when the script it left behind has ended.

For `MeasureSetupRate`: a route makes a VLAN active on the other leaf once, when it
becomes active on the first; a VLAN of the range is not aged out while it is being
measured (the retention timer is longer); a commit that is reported good was applied.

For `RunTraffic`, of docker and the clients: the command that kills the agents at the
beginning works where the agent could be copied just before, while the one that removes
their files may fail unseen; a packet does not stay in the network for longer than it
takes to kill its sender and start a listener.

For `VMotion`: a leaf may notice a frame or not, makes the VLAN of one it notices active
and provisions active VLANs at some point, never learns without a subinterface, and
never unless a VM of that client sends; when both leaves hold a MAC one gives way, which
one is not determined.

## 4. The runs

| Run | Module, configuration | Instance | Shows |
|---|---|---|---|
| `dynsubif` | `MCDynSubif`, `DynSubif` | 2 interfaces × 2 VLANs, batches of 2 | the safety properties of the single-homed handler, and that it implements `VlanService`, fairness included |
| `event_handler_main` | `MCEventHandlerMain`, `EventHandlerMain` | options of every shape; 3 × 2, batches of 2, every previous and desired state | options as written, loops = closed form |
| `dynsubif_mh` | `MCDynSubifMH`, `DynSubifMH` | 2 LAGs × 2 VLANs, batches of 1, operator with discipline or without | what a rejected batch costs and what it does not; that discipline is enough |
| `leaf_node` | `MCLeafNode`, `LeafNode` | 2 ports with VLAN 1, 1 LAG with VLANs 1 and 2 | composition is safe as far as it goes |
| `leaf_own` | `MCLeafNode`, `LeafNode_own` | 1 port and 1 LAG with the same VLAN | violation, see 5 |
| `vmotion` | `VMotion`, `VMotion` | 3 rounds per loop, bursts of 2, all options | honest report, a verdict that holds, clean clients, termination |
| `vmotion_release`, `vmotion_strands` | `VMotion`, … | the same | violations, see 5 |
| `setup_rate` | `MCSetupRate`, `SetupRate` | multi-homing: 2 leaves, a run on VLAN 1 and then one on VLANs 1 and 2; other modes: 2 VLANs on 2 ports or on one and a second leaf, settle timer 10, hard cap 11 ticks | cold ranges are cold, no poisoned leaf, true results, cleanup; timers and times |
| `run_traffic` | `MCRunTraffic`, `RunTraffic` | 3 clients, flows a→b and c→b and then only a→b, 1 and 3 packets per flow | no phantom losses, nothing counted twice or from another run |
| `client_links` | `ClientLinks`, `ClientLinks` | 3 VLANs, 3 runs of any tool on any of them | what setup, cleanup and trigger achieve |
| `client_links_force` | `ClientLinks`, `ClientLinks_force` | the same, 2 runs | violation, see 5 |

**Properties worth a word.**
`ServiceIntegrity` (MAC-VRFs are exactly those with a subinterface) is what the
reference count at 566-575 is for; it fails if the count is taken per interface.
`NoDrift` matters because the handler would never notice drift.
`SettledIsSynced` says that the three reasons to run (event, timer, answer in
flight) together miss nothing; every lost update violates it.
`MoveKeepsService` says that a VLAN moving to another interface keeps its MAC-VRF,
if the work fits one batch.  Without that condition it is false: the removal may be
committed before the addition.
`ConvergesOrStaysDown` is the strongest liveness the multi-homing handler has
without discipline: it cannot be strengthened to convergence even when every
MAC-VRF is provisioned in the end, since provisioning is no event.
`ColdWhenTriggered` needs both halves of the cold check (active VLANs, then
subinterfaces), a run in which neither was skipped or failed, and leaves that had
settled when it began: TLC finds the case where a handler run that saw the VLAN
active is still about to bind it when the VLAN ages out.  Both checks then pass, and
the pre-warm allows the bind before the trigger.
`NoSelfPoisoning` says that from the trigger to the teardown no VLAN of the range can
be what rejects a transaction: every leaf was pre-warmed, in whatever order commits failed.
`NoPhantomLoss` compares the report with the packets that really were dropped, flow by
flow.  Each reason for a doubt is needed: without the one for the ready timeout, for
the target file, for the senders, for packets unread at the end or for logs not
written in time, TLC finds a loss that never was.
`AnswersHandle` contains the memory bound for which the loops are written as they are.
`OptionsAsWritten` compares the token loop with what the words mean: a VLAN is excluded
if and only if a token names it.
`DisciplineSuffices` joins what discipline buys (no rejection, everything bound); with
`ConvergesOrStaysDown` it makes the disciplined handler converge.
`NoPrematureStop` needs the settle timer to be longer than both triggers, one gap of the
leaves and the reads of a round together (`TimesAssumption`): it is started at
`trigger_t`, before the scripts run.  The bound is exact on this instance: with one tick
less, and the assumption removed, TLC finds a run that is stopped before the last VLAN.
It also needs a round whose reads all worked: one failed read at the wrong moment does
stop a run early.  The gap of 5 ticks is what it takes for two FDB entries to come later
than a settle time after the last subinterface, so that a timer which ignores the FDB is
caught.
`VerdictIsTrue` is about the time between a read and the report.  `mac_local_t` is latched
and the source is read in a later round, while the leaves, the VM and commands that failed
unseen go on.  If the target is said to have learned the MAC, the VM was created there or
the target had held it before the run (`origin`).  If the source is said to have released
it, by a read that worked, it does not hold it again by the time of the report, unless the
deletion at the cutover failed: that one failure is enough for both, and each condition is
needed (without any of them TLC finds a counterexample).
`NothingStranded` excuses only the clients whose own deletion in the final clause failed:
wherever the body is left and whatever failed in it, every client is visited.
`CountsOnlyThisRun` excuses the clients whose files could not be removed.
`TriggerReaches` allows a silent VLAN only where one was silent before the trigger.
`TimesAreTrue` bounds what the report can be off by.  An FDB entry that is there before
polling begins is timed late by as much as the trigger of the second leaf takes, which
the comment "granularity ~= --poll" (line 870) does not include.
`CleanupUndoesSetup` holds because both scripts walk the VLANs in the same order: what
an interrupted setup has made is a prefix, and the deletion that stops at the first
missing link goes through just that.

**Bounds.**  Two interfaces are the least that share a MAC-VRF or move a VLAN, and
a third one is used where order is the question.  Two VLANs on two interfaces
give four possible changes, two batches of two: enough for an empty, a partial
and a full remainder, and for a batch that takes part of an interface.  The safety
properties also hold for three VLANs (checked without the refinement's fairness, which
is what makes that instance too large to keep).  One VLAN is excludable, VLAN 0 is the
untagged one.  `BatchSize` 1 in the multi-homing run makes every multi-change update
need its reinvoke.
In `VMotion`, `MaxRounds` bounds each polling loop (in the code: a deadline) and
may run out or be cut short at any round.

Three VLANs in `ClientLinks` have one before, at and after the line that fails, and
three runs are a tool that leaves something, one that is interrupted on it, and one that
has to cope.

In `MeasureSetupRate` and `RunTraffic` two runs of the tool are enough for one to meet
the remains of another; the second has a larger range, or fewer clients, than the first.
With the two ranges in the other order TLC finds no error either (15.8 million states,
not among the runs).  Three packets make every position of a gap;
that the loop of the report finds the longest gap is evaluated for all sets of up to
eight sequence numbers (`OutageIsLongestGap` in `MCRunTraffic`).

**Fairness.**  The event manager runs what is due and commits or rejects what was
answered: weak fairness of `InvokeOnEvent`, `InvokeOnTimer`, `Commit`, `Reject`.
Weak is enough for both reasons to be invoked, since an answer is always disposed
of and the other reason is then idle or consumed.  Traffic, retention timers and
the operator have none, so convergence is stated for input that stops changing.
`vmotion.py` is one process whose calls all time out or return: weak fairness of
its steps, none for the leaves.  `SetupRate`, `RunTraffic` and `ClientLinks` state safety
only and have no fairness; that polling ends is bounded by `EndsInTime`.

Deadlock is checked except where a behaviour is one invocation
(`EventHandlerMain`) or a given number of runs of a tool (`VMotion`,
`SetupRate`, `RunTraffic`, `ClientLinks`).

## 5. Findings

* **`leaf_own`** – "Deletes are only emitted for VLANs tracked in persistent-data
  (i.e. previously created by this script)" (`dyn_subif_custom.py:102-103`).
  Tracked are all VLANs that have a subinterface, whether the network-instance was
  there before or not.  If an operator provisioned `VLAN-5` for a LAG and VLAN 5
  then appears on an access port too, it is deleted when it disappears there,
  under the LAG's binding.  VLANs that are never on an access port are safe
  (`NoInterference`).
* **`vmotion_release`** – "Keep talking until the source leaf releases the MAC"
  (`vmotion.py:375-376`).  One failed read of the source leaf counts as a release:
  `gnmi_get` returns None, `mac_entry` finds no entry, line 402 sets `mobility_t`,
  and the verdict is CONVERGED.  `VerdictIsTrue` shows what remains: a release seen by a
  read that worked is still one when it is reported, if the VM had left the source.
* **`vmotion_strands`** – "never strands a client subinterface"
  (`vmotion.py:299-301`).  A cleanup command that runs into its 60 s timeout raises
  in the `finally`, and the clients after it are not visited.  `NothingStranded`
  shows that when the clause is not cut short it visits every client: then only one
  whose deletion failed keeps its subinterface.
* **`client_links_force`** – "ignore errors for already-existing interfaces (-force)"
  (`configure_vlans.py:89`).  The two batches are run without `-force`.  `ip` ends a
  batch at the first line that fails, so a VLAN subinterface that is already there
  leaves those after it without link or address, `|| true` hides it, and the tool
  reports success.  `TriggerReaches` shows that the batches of
  `measure_setup_rate.py`, which have `-force`, complete every VLAN.

## 6. What is proved

TLC looks at one small instance; the theorems hold for every value of the constants
that the assumptions of the modules admit.  Each proof module states an inductive
invariant `IInv`, has one lemma per action, puts them together in `Invariance`, and
derives the properties from that.  Each `IInv` was checked with TLC, as an invariant of
the run of its component, before it was proved.  `EventHandlerMain_proofs` and
`ClientLinks_proofs` have one invariant per loop or script instead, and `SetupRate_proofs`
one per mode (`MhInv`, `SingleInv`), each of them checked in the same way.

| Module | Theorems and the properties they establish | For every |
|---|---|---|
| `DynSubif_proofs` | `TypeCorrect` (`TypeOK`), `ServiceIsWhole` (`ServiceIntegrity`), `PersistentDataIsConfig` (`NoDrift`), `CommitsValidate` (`CommitResolves`), `NothingForgotten` (`SettledIsSynced`), `MovesKeepService` (`MoveKeepsService`), `ReinvokeIsExact`, `BatchesAreBounded`, `Refinement` (`ImplementsSafely`, the safety part of `ImplementsService`) | finite set of interfaces and VLANs, batch size from 1, set of excludable VLANs |
| `DynSubifMH_proofs` | `TypeCorrect`, `PersistentDataIsConfig` (`NoDrift`), `NothingForgotten` (`SettledUnlessDown`), `DisciplineIsEnough` (`DisciplineSuffices`) | the same |
| `LeafNode_proofs` | `SharedServicesResolve` (`NodeResolves`), `BothRememberTheirs` (`NodeNoDrift`), `OthersAreSafe` (`NoInterference`) | number of access ports and LAGs, VLANs on either side, batch size |
| `VMotion_proofs` | `TypeCorrect`, `TargetIsReal` (`TargetReal`), `DropsAreCounted` (`DropsNotUnderstated`), `VerdictHolds` (`VerdictIsTrue`), `CleanupIsComplete` (`NothingStranded`) | length of the loops and bursts, all options |
| `SetupRate_proofs`, multi-homing | `TypeCorrect`, `TriggeredCold` (`ColdWhenTriggered`), `NothingPoisoned` (`NoSelfPoisoning`), `CompleteMeansAll` (`CompleteIsTrue`), `RunCleansUp` (`CleansUp`) | number of leaves, sequence of ranges |
| `SetupRate_proofs`, single-homed | `NothingCutOff` (`NoPrematureStop`), `WaitEnds` (`EndsInTime`), `TimesHold` (`TimesAreTrue`) | number of ports and VLANs, all durations, number of clock samples, any skew |
| `RunTraffic_proofs` | `TypeCorrect`, `CountedIsOfThisRun` (`CountsOnlyThisRun`), `NoPhantoms` (`NoPhantomLoss`) | clients, sequence of runs with any flows, number of packets |
| `EventHandlerMain_proofs` | `OptionsHold` (`OptionsAsWritten`), `LoopsAnswerHandle` (`AnswersHandle`) | options of any length in either encoding, interfaces, VLANs, batch size, order of the dictionaries |
| `ClientLinks_proofs` | `TriggerReachesHolds` (`TriggerReaches`), `SetupKeepsItsWordHolds` (`SetupKeepsItsWord`), `CleanupUndoesSetupHolds` (`CleanupUndoesSetup`) | set of VLANs, number of runs of any tools |

The lemmas about batches come first in `DynSubif_proofs` and `DynSubifMH_proofs`: a batch
has at most `BatchSize` elements (`BatchFacts`), the result differs from what was there by
the batch, and only the whole difference reaches the target (`ResultFacts`).

The assumptions are those the modules name and TLC evaluates: finite sets of
interfaces, VLANs and clients, VLAN ids that are naturals and a positive batch size
(`BatchingAssumption`, `ExcludableAssumption`), options of at least one part per token,
a scalar option of one string, and special words that are no numbers
(`OptionsAssumption`, `PartsAssumption`), disjoint sets of access ports and LAGs
(`LeafAssumption`), at least two distinct leaves and ranges that are finite and not
empty (`MeasureAssumption`; `measure_setup_rate.py:500-505` insists on it), tests with
flows between clients and at least one packet (`TrafficAssumption`), and
`RateAssumption`, which is the `TimesAssumption` of `SetupTimes`: positive durations, and
a settle timer longer than both triggers, one gap and the reads of a round.  The last
one is a condition on the options, which the code does not check.  `NoPrematureStop`
is false without it (section 4); the arguments for the other two properties do not use it.

### The arguments

**Single-homed handler.**  `IInv` is `TypeOK`, `NoDrift`, `ServiceIntegrity` and
`SettledIsSynced` with two facts about the answer in flight.  `PlanInv`: it is `Handle`
of the *current* `persistent-data` and of some batch of the difference to its snapshot.
No environment step touches either, so however stale the snapshot, the answer still
fits the configuration it will be applied to; that is why commits validate and whole
services survive.  `FreshInv`: if no event has come since, the snapshot is still what is
wanted; that is why nothing is forgotten.  A commit that needs no reinvoke reaches its
snapshot, and either this is what is wanted or an event is pending.
`CandidateIsPlanned` is the key lemma: the transaction of an answer yields exactly the
configuration its `persistent-data` describes.

**Multi-homing handler.**  The same two facts, with rejection: a rejected answer leaves
`persistent-data` and configuration as they were, so the next answer is planned from the
same place.  `DisciplineInv` is what `DisciplineSuffices` lacks to be inductive: it has to
speak of everything `InUse`, the VLANs of the answer in flight included, since between an
invocation and its commit the operator might delete what it is about to bind into.

**One leaf.**  Neither handler's invariant survives as it is: the single-homed handler no
longer owns all MAC-VRFs (`ServiceIntegrity` fails, see `leaf_own`), and a binding of the
other one can vanish under it.  What remains, and is inductive, is `Vlans(shSub) ⊆ ni`
rather than equality, that subinterfaces and `persistent-data` agree on each side, and
`NoInterference`.  That the answer in flight is `Handle` of the current data is again what
carries the commits.

**vMotion emulator.**  `VerdictInv` adds to `VerdictIsTrue` why it stays true.  A leaf
learns a MAC as local only from the VM of its own client, so before the final clause an
entry on a target that did not hold the MAC at the start means that the VM was created
there; and the loop is left as soon as a release is seen, so between that read and the
report only a VM still on the source could undo it.  `CleanInv` says that the final
clause has still to visit every client with a subinterface, or has tried in vain, from
wherever it was entered.  `CountInv` orders the counters, since a RARP is counted before it
can be dropped, and `PeerInv` keeps the peer off the clients when there is none.

**Multi-homing measurement.**  `ColdInv` follows a sound run leaf by leaf through its two
checks.  What was checked must stay cold while later leaves are still looked at, and this
needs to know of the handler run on its way: it cannot have seen a VLAN of the range that
is not configured already.  `StableInv` says why reading the leaves one after the other
gives a state of all of them at one time: during the polling nothing of the range is ever
unbound.  `CountInv` turns a sum that equals leaves times range into "every leaf has all".
`UnclearedInv` keeps the books of what clearing left.

**Single-homed measurement.**  Here everything is a matter of time.  `TimeInv` bounds, for
every place the tool can be at, when what it is doing ends; from this `EndsInTime`.
`FdbInv` bounds, for a MAC that is in the FDB and was not found, how long ago it can have got
there; from this the lateness.  `StopInv` is the argument about the settle timer.  What
happened after the last progress is not in the last counts, so the counts of *now* are
larger; and once a round has begun more than `Gap` and both triggers after the last
progress, something has happened since that each of its reads must count, either already
(`seen`, over the ports visited) or when the others are read.  A round reads one port
after the other while more comes up, so the counts are sums over positions (`Pairs`): what
has been seen, and what the rest would show now, together exceed the last result.  When the
round ends there are no ports left, the sum is the new count, and that is progress.  Hence
a timer that runs out in a round with all reads means that nothing was outstanding.

**Traffic generator.**  `DeliveryInv` is the conservation law: a packet of a flow that
nothing went wrong with has been sent if and only if it is on the wire, dropped or read,
never two of these, and what is read is collected.  `FreshInv` and `LogInv` say that
what comes from the clients of this run is of this run, from the moment they are
cleaned; `ListenerInv` and `SourceInv` that listeners are bound before anyone sends, and
senders done before the listeners are stopped, unless the client is in `doubts`; what
`LogInv` says of a log needs that the client is not `unclean`.  The outage is computed
by a loop.  `ScansInv` shows by induction what it knows after n packets, and
`OutageFacts` that the result is the longest gap.  The induction theorems of the library
take an operator as a parameter, which the provers here cannot instantiate;
`SetInduction` states the principle for a set of numbers instead, and follows from the
pigeon-hole principle for finite sets.

**Option parsing.**  `OptionsInv` says what the tokens already read have given: a VLAN is
excluded if and only if one of them names it.  The work is in `TokenMeaning`, that the
branches of the code (a range, a number, `untagged`, anything else skipped) give exactly
what the word means, for words of any length.

**Collection loops.**  `Enumerated` proves that a finite set whose elements have
different keys can be listed in their order, hence that `sorted()` returns every element
once (`SortedSubifs`, and `SortedRange` for the scripts of the clients).  `CollectInv`
says where the collection is: everything taken is a change, what precedes a change taken
is taken before it, interfaces passed are complete and those ahead untouched, unless the
limit is reached.  Its core is `AppendKeepsOrder`: to append the next sorted part, as
far as there is room, keeps this order, and below the limit the part is in completely.
When the loops end, the first `BatchSize` entries are therefore a batch in the sense of
`Batches` (`FrontIsBatch`). `ApplyInv` follows the application of the batch entry by
entry: result and created MAC-VRFs are those of the closed form for the entries applied
so far.

**Client scripts.**  `Walks` is what setup and trigger have in common: each of their
actions once for every VLAN, at a place that can be computed (`Place`), the addition
first. `Left` says that what the shell has still to do is the script from some position
on, and `GoingOn` what a failing line does to it: the position moves behind the line or
behind its batch, and never past a line outside of it.  Then one invariant for each
promise. `TriggerInv`: what every line up to the position gives is there, since without
batches only what is there already fails; and `SilentInv`: no line of a trigger switches
IPv6 off.  `QuietInv`: a VLAN that has a subinterface has IPv6 off or is still to come
to the line that switches it off, which no batch skips; it needs that the addition
precedes that line, as a batch may not have added what the last loop passes over.
`ColdInv`: from a cold start the VLANs have exactly what the lines up to some position
have given them, the position where the run was broken off, and hence nothing fails.
`CleanupInv`: what a cleanup has still to delete are the VLANs of its list from its
position to some other, without a gap.  `FirstOnes` derives this at the start of a
cleanup from the `ColdInv` of the setup before it.

## 7. What is not shown

*Only model-checked*:
* liveness (`ImplementsService`, `ConvergesOrStaysDown`, `Ends`), which needs fairness and
  `ENABLED`, outside what the proof system handles.  The safety part of the refinement is proved;
* `EveryBatchReached` of `EventHandlerMain`, the converse of `AnswersHandle`: that for every
  batch there is an order of the dictionaries in which the loops take it.  It folds a
  loop body over a whole order.  What a fold returns for every sequence is induction over
  data, and a statement of it has an operator as a parameter.  The theorems about
  `DynSubif` do not depend on it: it says that `Batches` has nothing too much, and they
  hold for all of `Batches`.

The four violated properties need no proof: a counterexample is one.

*One-sided*: `DropsNotUnderstated` bounds the RARPs reported as possibly lost from below
only.  For a target that was warm the tool reports those sent before it noticed the
subinterface, though none was lost.

*Left out of what is modelled*: paths and values of individual configuration
leaves, debug output, paths that do not parse, route-targets (`rt-asn` is parsed, not
followed); exclusions in `LeafNode`; in `VMotion` the peer's ping
and its statistics, and times other than order; in `MeasureSetupRate` time (polling may
end after any round), and in both of its modes the checks of the command line and the
statistics of the report; in `RunTraffic` the menu and the topology
tables (which flows there are), the guards that refuse or warn, latencies, and the
grouping of the report; in `ClientLinks` the VLAN list as a string, and two scripts at the
same time on one client.

*Not modelled*: the stock handler (the same code without the additions, not deployed:
`DynSubif` without exclusions); `gen_config.py`, topology and configurations (static text).

*True of the code and no property*: a deletion that fails at the cutover
(`vmotion.py:353`) leaves the VM on both hosts, and nothing notices; "CONVERGED" may be
reported when the target has yielded the MAC again, since `mac_local_t` is latched; a
trigger over a subinterface on which a setup or a VM move had switched IPv6 off sends
nothing, without a message; input that changes for ever in front of the list can starve
what is behind it; a changed `rt-asn` does not reach MAC-VRFs that exist; any integer is
a valid `rt-asn`, also one no route-target can have, although the docstring (370) says
that a typo cannot break provisioning; once a cleanup of `configure_vlans.py` was
interrupted, the first link is missing and a later one of the same list deletes nothing,
and says it has finished successfully; `--flush-source-leaf` makes `persistent-data` of
the source leaf wrong until the VLAN ages out.  "A finished run never leaves an active
VLAN pointing at a deleted MAC-VRF" (`README.md:187`) holds only if every clearing
worked and no frame or route came after it, neither of which is checked; `CleansUp`
states what remains.  A VLAN outside the range that is active without MAC-VRF is noted
as "minor contention" (`README.md:481-486`) but rejects every batch of its leaf.  A run
that gives up after a failed pre-warm, or is killed, leaves its MAC-VRFs.  "The number
of lost packets multiplied by the sending interval" (`README.md:228`) is not what
`run_traffic.py` reports as outage, which is the longest gap alone; and a `--clients`
prefix that fits no client ends in an exception of the thread pool.  `hazards` in
`PROJECT.json` has the complete list, each at its line and with the properties that
cover it.

## 8. Plan

Done, in this order: `Batching`, `HandlerResponse`, `DynSubif`, its proofs,
`VlanService`, `EventHandlerMain`, `DynSubifMH`, `LeafNode`, `VMotion`,
`MeasureSetupRate`, `RunTraffic`, `ParseOptions`, `ClientLinks`, `SetupTimes` and
`SetupRate`.

Then the proofs: both handlers, the tools, the composition of the handlers, the
single-homed modes of the measurement, and last `EventHandlerMain_proofs` and
`ClientLinks_proofs`.

Open: `EveryBatchReached` without the fold, by giving the loops' order and their
intermediate lists as witnesses; exclusions in `LeafNode`; the peer's ping in `VMotion`.

## 9. Running it

```
tlc -config DynSubif.cfg MCDynSubif             # any run of the table above
tlapm SetupRate_proofs.tla                      # any of the *_proofs modules
```

`PROJECT.json` lists runs, theorems and findings, the lines every definition stands
for, and the faulty variant that each checked property rejects.
