------------------------------ MODULE VMotion ------------------------------
(***************************************************************************)
(* The vMotion emulator vmotion.py: a tool on the host that moves a VM     *)
(* (one MAC on one VLAN) from a client on the source leaf to a client on   *)
(* the target leaf, announces it there and watches both leaves over gNMI   *)
(* until it can tell whether the move converged.                           *)
(*                                                                         *)
(* Tool and leaves run side by side: every frame sent and every gNMI read  *)
(* is a step of its own.  The leaves (active-VLAN detection, the handler,  *)
(* MAC learning, EVPN mobility) are external.                              *)
(*                                                                         *)
(* The tool looks at no return code of a command it runs in a client: any  *)
(* creation, deletion or frame may fail without its noticing.              *)
(***************************************************************************)
EXTENDS Integers, Sequences

CONSTANTS MaxRounds,    \* bound on the rounds of each polling loop
          BurstCount    \* --rarp-count

ASSUME VMotionAssumption == MaxRounds \in Nat /\ BurstCount \in Nat \ {0}

None == -1              \* a count not taken yet

Leaf   == {"src", "dst"}
Client == {"src", "dst", "peer"}
Other(l) == IF l = "src" THEN "dst" ELSE "src"

VARIABLES
  opts,        \* command line: mode, flush, setup, keep, peer
  pc,          \* where the tool is
  vm,          \* clients that have the VLAN subinterface
  leaf,        \* per leaf: VLAN seen active, subinterface up, entry for the MAC
  origin,      \* the target leaf as the run found it
  round,       \* rounds of the current loop
  todo,        \* clients the final cleanup has still to visit, in order
  subifUp, macLocal, mobility,   \* subif_up_t, mac_local_t, mobility_t are set
  rarps,       \* RARPs the tool says it sent since the cutover
  beforeUp,    \* rarps_before_up
  dropped,     \* RARPs that reached the target before its subinterface was up
  failed,      \* the last gNMI read failed
  refused      \* clients whose deletion in the final clause failed

clock == <<subifUp, macLocal, mobility, rarps, beforeUp>>
ghost == <<origin, refused>>
tool  == <<opts, vm, todo, clock, failed, ghost>>
vars  == <<opts, pc, vm, leaf, round, todo, clock, dropped, failed, ghost>>

\* --no-nudge is left out: a nudge is a frame like those of Chatter.
Options == [mode : {"once", "burst", "sustained"},
            flush : BOOLEAN, setup : BOOLEAN, keep : BOOLEAN, peer : BOOLEAN]

Cold == [seen |-> FALSE, sub |-> FALSE, mac |-> "none"]
Warm == [seen |-> TRUE, sub |-> TRUE, mac |-> "none"]
Held == [seen |-> TRUE, sub |-> TRUE, mac |-> "local"]

\* The target may be warm from an earlier run, and may still hold the MAC.  With
\* --no-source-setup the VM is already on the source.
Init ==
  /\ opts \in Options
  /\ pc = "start"
  /\ vm = IF opts.setup THEN {} ELSE {"src"}
  /\ origin \in {Cold, Warm, Held}
  /\ leaf = [src |-> IF opts.setup THEN Cold ELSE Held, dst |-> origin]
  /\ round = 0 /\ todo = <<>>
  /\ subifUp = FALSE /\ macLocal = FALSE /\ mobility = FALSE
  /\ rarps = 0 /\ beforeUp = None /\ dropped = 0 /\ failed = FALSE /\ refused = {}
-----------------------------------------------------------------------------
(* The leaves.                                                             *)

\* What sending a frame from the VM does to leaf l.  Before the leaf has its
\* subinterface the frame can only make the VLAN active, and is lost.  It may
\* come to nothing, and does when the client has no subinterface to send it on.
AfterFrame(l) ==
  {leaf[l]} \cup IF l \notin vm THEN {}
                 ELSE IF leaf[l].sub THEN {[leaf[l] EXCEPT !.mac = "local"]}
                 ELSE {[leaf[l] EXCEPT !.seen = TRUE]}

Frame(l) == \E r \in AfterFrame(l) : leaf' = [leaf EXCEPT ![l] = r]

\* The VM sends a frame of its own accord: as its subinterface comes up, as
\* answer to the peer's pings, as nudge.
Chatter(l) == l \in vm /\ Frame(l)

\* The handler provisions the subinterface of an active VLAN.
ProvisionSubif(l) ==
  /\ leaf[l].seen /\ ~leaf[l].sub
  /\ leaf' = [leaf EXCEPT ![l].sub = TRUE]

\* Both leaves hold the MAC local: mobility turns one of them to remote.
Arbitrate(l) ==
  /\ leaf[l].mac = "local" /\ leaf[Other(l)].mac = "local"
  /\ leaf' = [leaf EXCEPT ![l].mac = "remote"]

\* EVPN brings the MAC of the other leaf, or withdraws it.
Import(l) ==
  /\ leaf[l].sub /\ leaf[l].mac = "none" /\ leaf[Other(l)].mac = "local"
  /\ leaf' = [leaf EXCEPT ![l].mac = "remote"]

Withdraw(l) ==
  /\ leaf[l].mac = "remote" /\ leaf[Other(l)].mac # "local"
  /\ leaf' = [leaf EXCEPT ![l].mac = "none"]

\* A local entry ages out when the VM is silent.
Age(l) ==
  /\ leaf[l].mac = "local"
  /\ leaf' = [leaf EXCEPT ![l].mac = "none"]

Fabric ==
  /\ \E l \in Leaf : \/ Chatter(l) \/ ProvisionSubif(l) \/ Arbitrate(l)
                     \/ Import(l) \/ Withdraw(l) \/ Age(l)
  /\ UNCHANGED <<tool, pc, round, dropped>>
-----------------------------------------------------------------------------
(* Phases A to C: source VM and peer.                                      *)

\* create_subif and delete_subif on client c: done, or failed unnoticed.
Create(c) == vm' \in {vm, vm \cup {c}}
Delete(c) == vm' \in {vm, vm \ {c}}

Start ==
  /\ pc = "start"
  /\ IF opts.setup
     THEN Create("src") /\ pc' = "warm"
     ELSE UNCHANGED vm /\ pc' = "peer"
  /\ UNCHANGED <<opts, leaf, round, todo, clock, dropped, failed, ghost>>

\* announce_until_local: a frame, then a look at the MAC table of the source.
WarmSend ==
  /\ pc = "warm" /\ round < MaxRounds
  /\ Frame("src")
  /\ round' = round + 1
  /\ pc' = "warmread"
  /\ UNCHANGED <<tool, dropped>>

WarmRead ==
  /\ pc = "warmread"
  /\ failed' \in BOOLEAN
  /\ IF ~failed' /\ leaf["src"].mac = "local"
     THEN pc' = "peer" /\ round' = 0
     ELSE pc' = "warm" /\ UNCHANGED round
  /\ UNCHANGED <<opts, vm, leaf, todo, clock, dropped, ghost>>

MutLeave ==
  /\ pc' = "finally"
  /\ todo' = IF opts.keep THEN <<>> ELSE <<"src", "dst">>

\* The body is left for the final clause, which visits every client, whether
\* or not the body had reached it.
Leave ==
  /\ pc' = "finally"
  /\ todo' = IF opts.keep THEN <<>>
             ELSE <<"src", "dst">> \o IF opts.peer THEN <<"peer">> ELSE <<>>

\* The warm-up times out: the tool gives up.
WarmTimeout ==
  /\ pc = "warm"
  /\ Leave
  /\ UNCHANGED <<opts, vm, leaf, round, clock, dropped, failed, ghost>>

Peer ==
  /\ pc = "peer"
  /\ IF opts.peer THEN Create("peer") ELSE UNCHANGED vm
  /\ pc' = "leave"
  /\ UNCHANGED <<opts, leaf, round, todo, clock, dropped, failed, ghost>>
-----------------------------------------------------------------------------
(* Phase D: cutover and tracking.                                          *)

\* The VM is to leave the source host; --flush-source-leaf deletes the dynamic
\* subinterface of the source leaf behind the handler's back.
LeaveSource ==
  /\ pc = "leave"
  /\ Delete("src")
  /\ pc' = IF opts.flush THEN "flush" ELSE "arrive"
  /\ UNCHANGED <<opts, leaf, round, todo, clock, dropped, failed, ghost>>

\* The commit that flushes may itself fail; its result is not looked at.
Flush ==
  /\ pc = "flush"
  /\ leaf' \in {leaf, [leaf EXCEPT !["src"].sub = FALSE, !["src"].mac = "none"]}
  /\ pc' = "arrive"
  /\ UNCHANGED <<tool, round, dropped>>

\* RARPs sent at the cutover, before the loop.
Initial == [once |-> 1, burst |-> BurstCount, sustained |-> 0][opts.mode]

Arrive ==
  /\ pc = "arrive"
  /\ Create("dst")
  /\ pc' = IF Initial = 0 THEN "head" ELSE "initial"
  /\ UNCHANGED <<opts, leaf, round, todo, clock, dropped, failed, ghost>>

\* A RARP from the target client, lost if the leaf has no subinterface yet.
Rarp ==
  /\ Frame("dst")
  /\ dropped' \in {dropped} \cup IF "dst" \in vm /\ ~leaf["dst"].sub
                                THEN {dropped + 1} ELSE {}

MutInitialRarp ==
  /\ pc = "initial"
  /\ Rarp
  /\ rarps' = rarps + 1
  /\ pc' = IF rarps > Initial THEN "head" ELSE "initial"
  /\ UNCHANGED <<opts, vm, round, todo, subifUp, macLocal, mobility, beforeUp, failed, ghost>>

\* The one RARP, or the burst, at the cutover.
InitialRarp ==
  /\ pc = "initial"
  /\ Rarp
  /\ rarps' = rarps + 1
  /\ pc' = IF rarps' = Initial THEN "head" ELSE "initial"
  /\ UNCHANGED <<opts, vm, round, todo, subifUp, macLocal, mobility, beforeUp, failed, ghost>>

\* One round of the tracking loop: announce, ...
Announce ==
  /\ pc = "head" /\ round < MaxRounds
  /\ IF opts.mode = "sustained" /\ ~mobility
     THEN Rarp /\ rarps' = rarps + 1
     ELSE UNCHANGED <<leaf, dropped, rarps>>
  /\ round' = round + 1
  /\ pc' = "readsub"
  /\ UNCHANGED <<opts, vm, todo, subifUp, macLocal, mobility, beforeUp, failed, ghost>>

MutReadSubif ==
  /\ pc = "readsub"
  /\ failed' \in BOOLEAN
  /\ IF ~subifUp /\ ~failed' /\ leaf["dst"].sub
     THEN subifUp' = TRUE /\ beforeUp' = rarps - 1
     ELSE UNCHANGED <<subifUp, beforeUp>>
  /\ pc' = "readmac"
  /\ UNCHANGED <<opts, vm, leaf, round, todo, macLocal, mobility, rarps, dropped, ghost>>

\* ... look for the subinterface on the target, ...
ReadSubif ==
  /\ pc = "readsub"
  /\ failed' \in BOOLEAN
  /\ IF ~subifUp /\ ~failed' /\ leaf["dst"].sub
     THEN subifUp' = TRUE /\ beforeUp' = rarps
     ELSE UNCHANGED <<subifUp, beforeUp>>
  /\ pc' = "readmac"
  /\ UNCHANGED <<opts, vm, leaf, round, todo, macLocal, mobility, rarps, dropped, ghost>>

MutEntry(l) == IF failed' THEN "local" ELSE leaf[l].mac

\* mac_entry: the entry of leaf l, or none when it has none or the read fails.
Entry(l) == IF failed' THEN "none" ELSE leaf[l].mac

\* ... for the MAC on the target, ...
ReadTarget ==
  /\ pc = "readmac"
  /\ failed' \in BOOLEAN
  /\ macLocal' = (macLocal \/ Entry("dst") = "local")
  /\ pc' = IF macLocal' /\ ~mobility THEN "readsrc" ELSE "head"
  /\ UNCHANGED <<opts, vm, leaf, round, todo, subifUp, mobility, rarps, beforeUp, dropped, ghost>>

MutReleased == Entry("dst") # "remote"

\* The source no longer claims the MAC local.
Released == Entry("src") # "local"

\* ... and, once it is there, for the source to let go of it.
ReadSource ==
  /\ pc = "readsrc"
  /\ failed' \in BOOLEAN
  /\ mobility' = Released
  /\ pc' = IF mobility' THEN "report" ELSE "head"
  /\ UNCHANGED <<opts, vm, leaf, round, todo, subifUp, macLocal, rarps, beforeUp, dropped, ghost>>

Deadline ==
  /\ pc = "head"
  /\ pc' = "report"
  /\ UNCHANGED <<tool, leaf, round, dropped>>
-----------------------------------------------------------------------------
(* Phase E, and the final clause.                                          *)

Report ==
  /\ pc = "report"
  /\ Leave
  /\ UNCHANGED <<opts, vm, leaf, round, clock, dropped, failed, ghost>>

\* Ctrl-C or an exception at any point of the body.
Interrupt ==
  /\ pc \notin {"finally", "done"}
  /\ Leave
  /\ UNCHANGED <<opts, vm, leaf, round, clock, dropped, failed, ghost>>

MutDeleteClient ==
  /\ pc = "finally" /\ todo # <<>>
  /\ Head(todo) \in vm
  /\ Delete(Head(todo))
  /\ refused' = refused \cup (vm' \cap {Head(todo)})
  /\ todo' = Tail(todo)
  /\ UNCHANGED <<opts, pc, leaf, round, clock, dropped, failed, origin>>

\* Deleting a subinterface that does not exist is no error; a deletion that
\* fails is not tried again.
DeleteClient ==
  /\ pc = "finally" /\ todo # <<>>
  /\ Delete(Head(todo))
  /\ refused' = refused \cup (vm' \cap {Head(todo)})
  /\ todo' = Tail(todo)
  /\ UNCHANGED <<opts, pc, leaf, round, clock, dropped, failed, origin>>

\* A command that does not answer raises TimeoutExpired, and the clients that
\* were still to come are not visited.
DeleteHangs ==
  /\ pc = "finally" /\ todo # <<>>
  /\ Delete(Head(todo))
  /\ pc' = "done"
  /\ UNCHANGED <<opts, leaf, round, todo, clock, dropped, failed, ghost>>

Finish ==
  /\ pc = "finally" /\ todo = <<>>
  /\ pc' = "done"
  /\ UNCHANGED <<tool, leaf, round, dropped>>

ToolStep ==
  \/ Start \/ WarmSend \/ WarmRead \/ WarmTimeout \/ Peer
  \/ LeaveSource \/ Flush \/ Arrive \/ InitialRarp
  \/ Announce \/ ReadSubif \/ ReadTarget \/ ReadSource \/ Deadline
  \/ Report \/ DeleteClient \/ Finish

Next == ToolStep \/ Interrupt \/ DeleteHangs \/ Fabric

\* The tool keeps running; leaves and user owe nothing.
Spec == Init /\ [][Next]_vars /\ WF_vars(ToolStep)
-----------------------------------------------------------------------------
(* Properties.                                                             *)

TypeOK ==
  /\ opts \in Options
  /\ vm \subseteq Client /\ refused \subseteq Client /\ todo \in Seq(Client)
  /\ leaf \in [Leaf -> [seen : BOOLEAN, sub : BOOLEAN, mac : {"none", "local", "remote"}]]
  /\ origin \in {Cold, Warm, Held}
  /\ round \in 0..MaxRounds
  /\ subifUp \in BOOLEAN /\ macLocal \in BOOLEAN /\ mobility \in BOOLEAN
  /\ rarps \in 0..(Initial + IF opts.mode = "sustained" THEN MaxRounds ELSE 0)
  /\ beforeUp \in {None} \cup (0..rarps)
  /\ failed \in BOOLEAN

\* What the tool reports of the target really happened there, whatever reads
\* failed: nothing is called up or learned on a leaf without subinterface.
TargetReal == subifUp \/ macLocal => leaf["dst"].sub

\* The count of RARPs lost before the subinterface existed is never too low.
DropsNotUnderstated == beforeUp # None => dropped <= beforeUp

\* What the verdict is formed from is still so when it is printed, however long
\* ago it was read and whatever failed unnoticed: if the target is said to have
\* learned the MAC, the VM was created there, unless the leaf held the MAC from
\* an earlier run; if the source is said to have released it, and the look at it
\* did not fail, the source does not hold it, unless the VM never left.
VerdictIsTrue ==
  pc = "report" =>
    /\ macLocal /\ origin.mac # "local" => "dst" \in vm
    /\ mobility /\ ~failed /\ "src" \notin vm => leaf["src"].mac # "local"

\* However the body ends, by itself or interrupted anywhere, a cleanup that
\* visited every client leaves no client subinterface behind, unless asked to,
\* but those it tried to delete and could not.
NothingStranded == pc = "done" /\ ~opts.keep /\ todo = <<>> => vm \subseteq refused

\* The comment at the top of the body: no early exit strands a subinterface
\* this run created.
NeverStrands == pc = "done" /\ ~opts.keep /\ opts.setup => vm = {}

\* The run ends.
Ends == <>(pc = "done")

\* The tool keeps talking until the source leaf releases the MAC: it sees a
\* release only when there is one.
ReleaseSeen == [][mobility' /\ ~mobility => leaf["src"].mac # "local"]_vars
=============================================================================
