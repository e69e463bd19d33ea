--------------------------- MODULE VMotion_proofs ---------------------------
(***************************************************************************)
(* The safety properties of VMotion, proved for loops and bursts of any    *)
(* length, every combination of options, and reads, commands and runs that *)
(* fail anywhere.                                                          *)
(***************************************************************************)
EXTENDS VMotion, TLAPS

LeafState == [seen : BOOLEAN, sub : BOOLEAN, mac : {"none", "local", "remote"}]

\* The body: the VM has not left the source, is between the hosts, or has been
\* created on the target.  Then the final clause.
Ahead    == {"start", "warm", "warmread", "peer", "leave"}
Moving   == {"flush", "arrive"}
Tracking == {"initial", "head", "readsub", "readmac", "readsrc", "report"}
Ending   == {"finally", "done"}

\* Only a leaf with the subinterface knows the MAC.
LeafInv == \A l \in Leaf : leaf[l].mac # "none" => leaf[l].sub

\* RARPs are counted before they can be dropped; one is sent at most per round
\* of the loop, on top of those at the cutover.
CountInv ==
  /\ pc \in Ahead \cup Moving \cup Tracking \cup Ending
  /\ dropped \in 0..rarps
  /\ rarps <= Initial + IF opts.mode = "sustained" THEN round ELSE 0
  /\ pc \in Ahead \cup Moving => rarps = 0
  /\ pc = "initial" => rarps < Initial
  /\ subifUp <=> beforeUp # None

\* A peer is created only if there is one.
PeerInv == "peer" \in vm => opts.peer

\* What the verdict rests on: the target learns the MAC from the VM, so it had
\* to be created there; the loop is left as soon as the source is seen to
\* release the MAC, which it can only take back from the VM.
VerdictInv ==
  /\ /\ pc \notin Ending /\ origin.mac # "local"
     /\ leaf["dst"].mac = "local" \/ macLocal
     => "dst" \in vm
  /\ mobility => pc \in {"report"} \cup Ending
  /\ VerdictIsTrue

\* The final clause has still to visit every client that has a subinterface.
Visits(s) == {s[n] : n \in 1..Len(s)}

CleanInv ==
  /\ pc = "finally" /\ ~opts.keep => vm \subseteq Visits(todo) \cup refused
  /\ NothingStranded

\* The inductive invariant.
IInv ==
  /\ TypeOK /\ LeafInv /\ CountInv /\ TargetReal /\ DropsNotUnderstated
  /\ PeerInv /\ VerdictInv /\ CleanInv
-----------------------------------------------------------------------------
(* The operators.                                                          *)

\* RARPs at the cutover: none in sustained mode, where the loop sends them.
LEMMA InitialType ==
  ASSUME opts \in Options
  PROVE  Initial \in Nat /\ (opts.mode = "sustained" => Initial = 0)
<1>1. opts.mode \in {"once", "burst", "sustained"}
  BY DEF Options
<1>2. CASE opts.mode = "once"
  BY <1>2 DEF Initial
<1>3. CASE opts.mode = "burst"
  BY <1>3, VMotionAssumption DEF Initial
<1>4. CASE opts.mode = "sustained"
  BY <1>4 DEF Initial
<1> QED
  BY <1>1, <1>2, <1>3, <1>4

\* A frame neither gives nor takes the subinterface, is learned only where there
\* is one, and comes from the VM.
LEMMA FrameFacts ==
  ASSUME leaf \in [Leaf -> LeafState], LeafInv,
         NEW l \in Leaf, NEW r \in AfterFrame(l)
  PROVE  /\ r \in LeafState
         /\ r.sub = leaf[l].sub
         /\ r.mac # "none" => r.sub
         /\ r.mac = "local" => leaf[l].mac = "local" \/ l \in vm
<1>1. leaf[l] \in LeafState
  OBVIOUS
<1>2. CASE r = leaf[l]
  BY <1>1, <1>2 DEF LeafInv
<1>3. CASE l \in vm /\ leaf[l].sub /\ r = [leaf[l] EXCEPT !.mac = "local"]
  BY <1>1, <1>3 DEF LeafState
<1>4. CASE l \in vm /\ ~leaf[l].sub /\ r = [leaf[l] EXCEPT !.seen = TRUE]
  BY <1>1, <1>4 DEF LeafState, LeafInv
<1> QED
  BY <1>2, <1>3, <1>4 DEF AfterFrame

\* What is left to visit after a visit.
LEMMA VisitsTail ==
  ASSUME NEW s \in Seq(Client), s # <<>>
  PROVE  /\ Head(s) \in Client
         /\ Tail(s) \in Seq(Client)
         /\ Visits(s) \ {Head(s)} \subseteq Visits(Tail(s))
<1>1. Len(s) \in Nat /\ Len(s) > 0 /\ Head(s) = s[1] /\ Tail(s) \in Seq(Client)
      /\ Len(Tail(s)) = Len(s) - 1
  OBVIOUS
<1>2. \A n \in 1..Len(Tail(s)) : Tail(s)[n] = s[n + 1]
  OBVIOUS
<1>3. ASSUME NEW n \in 1..Len(s), s[n] # Head(s) PROVE s[n] \in Visits(Tail(s))
  <2>1. n # 1 /\ n - 1 \in 1..Len(Tail(s))
    BY <1>1, <1>3
  <2>2. Tail(s)[n - 1] = s[n]
    BY <1>1, <1>2, <2>1
  <2> QED
    BY <2>1, <2>2 DEF Visits
<1> QED
  BY <1>1, <1>3 DEF Visits

\* Whoever may have a subinterface is on the list of the final clause.
LEMMA LeaveFacts ==
  ASSUME Leave, opts \in Options, vm \subseteq Client, PeerInv
  PROVE  /\ pc' = "finally"
         /\ todo' \in Seq(Client)
         /\ ~opts.keep => vm \subseteq Visits(todo')
<1>1. CASE opts.keep
  BY <1>1 DEF Leave
<1>2. CASE ~opts.keep /\ opts.peer
  <2>1. todo' = <<"src", "dst">> \o <<"peer">>
    BY <1>2 DEF Leave
  <2>2. <<"src", "dst">> \in Seq(Client) /\ <<"peer">> \in Seq(Client)
    BY DEF Client
  <2>3. todo' \in Seq(Client) /\ Len(todo') = 3
        /\ todo'[1] = "src" /\ todo'[2] = "dst" /\ todo'[3] = "peer"
    BY <2>1, <2>2
  <2>4. Client \subseteq Visits(todo')
    BY <2>3 DEF Visits, Client
  <2> QED
    BY <2>3, <2>4 DEF Leave
<1>3. CASE ~opts.keep /\ ~opts.peer
  <2>1. todo' = <<"src", "dst">>
    BY <1>3 DEF Leave
  <2>2. todo' \in Seq(Client) /\ Len(todo') = 2 /\ todo'[1] = "src" /\ todo'[2] = "dst"
    BY <2>1 DEF Client
  <2>3. {"src", "dst"} \subseteq Visits(todo')
    BY <2>2 DEF Visits
  <2> QED
    BY <1>3, <2>2, <2>3 DEF Leave, Client, PeerInv
<1> QED
  BY <1>1, <1>2, <1>3
-----------------------------------------------------------------------------
(* The leaves.                                                             *)

\* What every step keeps of the leaves: their types, that only a leaf with the
\* subinterface knows the MAC, the target's subinterface, and that a leaf learns
\* the MAC from the VM.
LeavesKept ==
  /\ leaf' \in [Leaf -> LeafState]
  /\ LeafInv'
  /\ leaf["dst"].sub => leaf'["dst"].sub
  /\ \A l \in Leaf : leaf'[l].mac = "local" => leaf[l].mac = "local" \/ l \in vm

\* A change of one leaf keeps it if the new state of that leaf does.
LEMMA OneLeafChanges ==
  ASSUME leaf \in [Leaf -> LeafState], LeafInv,
         NEW l \in Leaf, NEW r \in LeafState, r.mac # "none" => r.sub,
         leaf[l].sub => r.sub \/ l = "src",
         r.mac = "local" => leaf[l].mac = "local" \/ l \in vm,
         leaf' = [leaf EXCEPT ![l] = r]
  PROVE  LeavesKept
<1>1. leaf' \in [Leaf -> LeafState] /\ leaf'[l] = r
      /\ \A k \in Leaf : k # l => leaf'[k] = leaf[k]
  OBVIOUS
<1>2. LeafInv'
  BY <1>1 DEF LeafInv
<1>3. leaf["dst"].sub => leaf'["dst"].sub
  BY <1>1 DEF Leaf
<1>4. \A k \in Leaf : leaf'[k].mac = "local" => leaf[k].mac = "local" \/ k \in vm
  BY <1>1
<1> QED
  BY <1>1, <1>2, <1>3, <1>4 DEF LeavesKept

\* A frame from the VM keeps it.
LEMMA FrameKeepsLeaves ==
  ASSUME leaf \in [Leaf -> LeafState], LeafInv, NEW l \in Leaf, Frame(l)
  PROVE  LeavesKept
<1>1. PICK r \in AfterFrame(l) : leaf' = [leaf EXCEPT ![l] = r]
  BY DEF Frame
<1>2. /\ r \in LeafState /\ r.sub = leaf[l].sub /\ (r.mac # "none" => r.sub)
      /\ r.mac = "local" => leaf[l].mac = "local" \/ l \in vm
  BY FrameFacts
<1> QED
  BY <1>1, <1>2, OneLeafChanges

\* The fabric learns, imports, withdraws and forgets without touching a
\* subinterface, except to provision one.
LEMMA FabricKeepsLeaves ==
  ASSUME leaf \in [Leaf -> LeafState], LeafInv, Fabric
  PROVE  LeavesKept
<1>1. PICK l \in Leaf : \/ Chatter(l) \/ ProvisionSubif(l) \/ Arbitrate(l)
                        \/ Import(l) \/ Withdraw(l) \/ Age(l)
  BY DEF Fabric
<1>2. leaf[l] \in LeafState /\ (leaf[l].mac # "none" => leaf[l].sub)
  BY DEF LeafInv
<1>3. CASE ProvisionSubif(l)
  <2> DEFINE r == [leaf[l] EXCEPT !.sub = TRUE]
  <2>1. leaf' = [leaf EXCEPT ![l] = r]
    BY <1>3 DEF ProvisionSubif
  <2>2. r \in LeafState /\ r.sub /\ r.mac = leaf[l].mac
    BY <1>2 DEF LeafState
  <2> HIDE DEF r
  <2> QED
    BY <2>1, <2>2, OneLeafChanges
<1>4. ASSUME NEW m \in {"none", "remote"}, leaf[l].sub,
             leaf' = [leaf EXCEPT ![l].mac = m]
      PROVE  LeavesKept
  <2> DEFINE r == [leaf[l] EXCEPT !.mac = m]
  <2>1. leaf' = [leaf EXCEPT ![l] = r]
    BY <1>4
  <2>2. r \in LeafState /\ r.sub /\ r.mac # "local"
    BY <1>2, <1>4 DEF LeafState
  <2> HIDE DEF r
  <2> QED
    BY <2>1, <2>2, OneLeafChanges
<1>5. CASE Arbitrate(l)
  BY <1>2, <1>4, <1>5 DEF Arbitrate
<1>6. CASE Import(l)
  BY <1>4, <1>6 DEF Import
<1>7. CASE Withdraw(l)
  BY <1>2, <1>4, <1>7 DEF Withdraw
<1>8. CASE Age(l)
  BY <1>2, <1>4, <1>8 DEF Age
<1>9. CASE Chatter(l)
  BY <1>9, FrameKeepsLeaves DEF Chatter
<1> QED
  BY <1>1, <1>3, <1>5, <1>6, <1>7, <1>8, <1>9

\* Every step keeps the leaves.
LEMMA NextKeepsLeaves ==
  ASSUME IInv, [Next]_vars
  PROVE  LeavesKept
<1>1. leaf \in [Leaf -> LeafState] /\ LeafInv
  BY DEF IInv, TypeOK, LeafState
<1>2. ASSUME UNCHANGED leaf PROVE LeavesKept
  BY <1>1, <1>2 DEF LeavesKept, LeafInv
<1>3. CASE Fabric
  BY <1>1, <1>3, FabricKeepsLeaves
<1>4. CASE WarmSend
  BY <1>1, <1>4, FrameKeepsLeaves DEF WarmSend, Leaf
<1>5. CASE Flush
  <2> DEFINE r == [leaf["src"] EXCEPT !.sub = FALSE, !.mac = "none"]
  <2>1. UNCHANGED leaf \/ leaf' = [leaf EXCEPT !["src"] = r]
    BY <1>5 DEF Flush
  <2>2. r \in LeafState /\ r.mac = "none"
    BY <1>1 DEF LeafState, Leaf
  <2> HIDE DEF r
  <2> QED
    BY <1>1, <1>2, <2>1, <2>2, OneLeafChanges DEF Leaf
<1>6. CASE InitialRarp
  BY <1>1, <1>6, FrameKeepsLeaves DEF InitialRarp, Rarp, Leaf
<1>7. CASE Announce
  BY <1>1, <1>2, <1>7, FrameKeepsLeaves DEF Announce, Rarp, Leaf
<1>8. CASE Start \/ WarmRead \/ WarmTimeout \/ Peer \/ LeaveSource \/ Arrive \/ ReadSubif
           \/ ReadTarget \/ ReadSource \/ Deadline \/ Report \/ DeleteClient \/ Finish
           \/ Interrupt \/ DeleteHangs \/ UNCHANGED vars
  BY <1>2, <1>8 DEF Start, WarmRead, WarmTimeout, Peer, LeaveSource, Arrive, ReadSubif,
     ReadTarget, ReadSource, Deadline, Report, DeleteClient, Finish, Interrupt, DeleteHangs, vars
<1> QED
  BY <1>3, <1>4, <1>5, <1>6, <1>7, <1>8 DEF Next, ToolStep
-----------------------------------------------------------------------------
(* The tool.                                                               *)

\* A client is created only by its own command, and the options stay as they are.
LEMMA NextPeer == IInv /\ [Next]_vars => PeerInv' /\ opts' = opts /\ origin' = origin
<1> SUFFICES ASSUME IInv, [Next]_vars PROVE PeerInv' /\ opts' = opts /\ origin' = origin
  OBVIOUS
<1>1. PeerInv
  BY DEF IInv
<1>2. opts' = opts /\ origin' = origin
  BY DEF Next, ToolStep, Start, WarmSend, WarmRead, WarmTimeout, Peer, LeaveSource, Flush, Arrive,
     InitialRarp, Announce, ReadSubif, ReadTarget, ReadSource, Deadline, Report, DeleteClient,
     Finish, Interrupt, DeleteHangs, Fabric, tool, ghost, vars
<1>3. "peer" \in vm' => "peer" \in vm \/ opts.peer
  BY DEF Next, ToolStep, Start, WarmSend, WarmRead, WarmTimeout, Peer, LeaveSource, Flush, Arrive,
     InitialRarp, Announce, ReadSubif, ReadTarget, ReadSource, Deadline, Report, DeleteClient,
     Finish, Interrupt, DeleteHangs, Fabric, Create, Delete, tool, vars
<1> QED
  BY <1>1, <1>2, <1>3 DEF PeerInv

\* The VM on the target stays there until the final clause.
LEMMA TargetStays ==
  ASSUME IInv, [Next]_vars, "dst" \in vm, pc' \notin Ending
  PROVE  "dst" \in vm' /\ pc \notin Ending
BY DEF Ending, Next, ToolStep, Start, WarmSend, WarmRead, WarmTimeout, Peer, LeaveSource, Flush, Arrive,
     InitialRarp, Announce, ReadSubif, ReadTarget, ReadSource, Deadline, Report, DeleteClient,
     Finish, Interrupt, DeleteHangs, Fabric, Create, Delete, Leave, tool, vars

\* What the verdict rests on.
LEMMA NextVerdict == IInv /\ [Next]_vars => VerdictInv'
<1> SUFFICES ASSUME IInv, [Next]_vars PROVE VerdictInv'
  OBVIOUS
<1>1. VerdictInv /\ PeerInv
  BY DEF IInv
<1>2. LeavesKept /\ origin' = origin
  BY NextKeepsLeaves, NextPeer
<1>3. /\ leaf'["dst"].mac = "local" => leaf["dst"].mac = "local" \/ "dst" \in vm
      /\ leaf'["src"].mac = "local" => leaf["src"].mac = "local" \/ "src" \in vm
  BY <1>2 DEF LeavesKept, Leaf
<1>4. macLocal' => macLocal \/ leaf["dst"].mac = "local"
  BY DEF Entry, Next, ToolStep, Start, WarmSend, WarmRead, WarmTimeout, Peer, LeaveSource, Flush, Arrive,
     InitialRarp, Announce, ReadSubif, ReadTarget, ReadSource, Deadline, Report, DeleteClient,
     Finish, Interrupt, DeleteHangs, Fabric, clock, tool, vars
<1>5. pc' \notin Ending => pc \notin Ending
  BY DEF Ending, Next, ToolStep, Start, WarmSend, WarmRead, WarmTimeout, Peer, LeaveSource, Flush, Arrive,
     InitialRarp, Announce, ReadSubif, ReadTarget, ReadSource, Deadline, Report, DeleteClient,
     Finish, Interrupt, DeleteHangs, Fabric, Leave, tool, vars
<1>6. /\ pc' \notin Ending /\ origin'.mac # "local"
      /\ leaf'["dst"].mac = "local" \/ macLocal'
      => "dst" \in vm'
  BY <1>1, <1>2, <1>3, <1>4, <1>5, TargetStays DEF VerdictInv
<1>7. CASE ReadSource
  <2>1. /\ pc' = (IF mobility' THEN "report" ELSE "head")
        /\ UNCHANGED <<leaf, vm>>
        /\ mobility' /\ ~failed' => leaf["src"].mac # "local"
    BY <1>7 DEF ReadSource, Released, Entry
  <2>2. mobility' => pc' = "report"
    BY <2>1
  <2>3. VerdictIsTrue'
    BY <1>6, <2>1 DEF VerdictIsTrue, Ending
  <2> QED
    BY <1>6, <2>2, <2>3 DEF VerdictInv
<1>8. ASSUME ~ReadSource PROVE VerdictInv'
  <2>1. mobility' = mobility
    BY <1>8 DEF Next, ToolStep, Start, WarmSend, WarmRead, WarmTimeout, Peer, LeaveSource, Flush, Arrive,
     InitialRarp, Announce, ReadSubif, ReadTarget, ReadSource, Deadline, Report, DeleteClient,
     Finish, Interrupt, DeleteHangs, Fabric, clock, tool, vars
  <2>2. mobility /\ pc' = "report" => pc = "report" /\ failed' = failed /\ vm' = vm
    BY <1>1, <1>8 DEF VerdictInv, Ending, Next, ToolStep, Start, WarmSend, WarmRead, WarmTimeout, Peer, LeaveSource, Flush, Arrive,
     InitialRarp, Announce, ReadSubif, ReadTarget, ReadSource, Deadline, Report, DeleteClient,
     Finish, Interrupt, DeleteHangs, Fabric, Leave, tool, vars
  <2>3. mobility => pc' \in {"report"} \cup Ending
    BY <1>1, <1>8 DEF VerdictInv, Ending, Next, ToolStep, Start, WarmSend, WarmRead, WarmTimeout, Peer, LeaveSource, Flush, Arrive,
     InitialRarp, Announce, ReadSubif, ReadTarget, ReadSource, Deadline, Report, DeleteClient,
     Finish, Interrupt, DeleteHangs, Fabric, Leave, tool, vars
  <2>4. VerdictIsTrue'
    BY <1>1, <1>3, <1>6, <2>1, <2>2 DEF VerdictInv, VerdictIsTrue, Ending
  <2> QED
    BY <1>6, <2>1, <2>3, <2>4 DEF VerdictInv
<1> QED
  BY <1>7, <1>8

\* The list of the final clause is made when the body is left, and a client is
\* struck off when its subinterface is deleted.
LEMMA NextClean == IInv /\ [Next]_vars => CleanInv'
<1> SUFFICES ASSUME IInv, [Next]_vars PROVE CleanInv'
  OBVIOUS
<1>1. opts \in Options /\ vm \subseteq Client /\ todo \in Seq(Client) /\ CleanInv /\ PeerInv
  BY DEF IInv, TypeOK
<1>2. ASSUME Leave, vm' = vm, opts' = opts PROVE CleanInv'
  BY <1>1, <1>2, LeaveFacts DEF CleanInv, NothingStranded
<1>3. CASE WarmTimeout \/ Report \/ Interrupt
  BY <1>2, <1>3 DEF WarmTimeout, Report, Interrupt
<1>4. CASE DeleteClient
  <2>1. /\ pc' = "finally" /\ todo # <<>> /\ vm' \in {vm, vm \ {Head(todo)}}
        /\ refused' = refused \cup (vm' \cap {Head(todo)}) /\ todo' = Tail(todo)
        /\ opts' = opts /\ pc = "finally"
    BY <1>4 DEF DeleteClient, Delete
  <2>2. Visits(todo) \ {Head(todo)} \subseteq Visits(Tail(todo))
    BY <1>1, <2>1, VisitsTail
  <2>3. ~opts.keep => vm' \subseteq Visits(todo') \cup refused'
    BY <1>1, <2>1, <2>2 DEF CleanInv
  <2> QED
    BY <2>1, <2>3 DEF CleanInv, NothingStranded
<1>5. CASE DeleteHangs
  BY <1>5 DEF DeleteHangs, CleanInv, NothingStranded
<1>6. CASE Finish
  <2>1. Visits(<<>>) = {}
    BY DEF Visits
  <2>2. pc = "finally" /\ todo = <<>> /\ pc' = "done" /\ UNCHANGED <<opts, vm, todo, refused>>
    BY <1>6 DEF Finish, tool, ghost
  <2> QED
    BY <1>1, <2>1, <2>2 DEF CleanInv, NothingStranded
<1>7. CASE Fabric \/ UNCHANGED vars
  BY <1>1, <1>7 DEF Fabric, tool, ghost, vars, CleanInv, NothingStranded
<1>8. ASSUME pc' \notin Ending PROVE CleanInv'
  BY <1>8 DEF Ending, CleanInv, NothingStranded
<1>9. CASE Start \/ WarmSend \/ WarmRead \/ Peer \/ LeaveSource \/ Flush \/ Arrive
           \/ InitialRarp \/ Announce \/ ReadSubif \/ ReadTarget \/ ReadSource \/ Deadline
  BY <1>8, <1>9 DEF Start, WarmSend, WarmRead, Peer, LeaveSource, Flush, Arrive, InitialRarp,
     Announce, ReadSubif, ReadTarget, ReadSource, Deadline, Ending
<1> QED
  BY <1>3, <1>4, <1>5, <1>6, <1>7, <1>9 DEF Next, ToolStep

\* Counting and timing: RARPs, rounds and what is latched.
LEMMA NextCounts ==
  IInv /\ [Next]_vars => /\ CountInv' /\ TargetReal' /\ DropsNotUnderstated'
                         /\ rarps' \in Nat /\ beforeUp' \in {None} \cup (0..rarps')
<1> SUFFICES ASSUME IInv, [Next]_vars
             PROVE  /\ CountInv' /\ TargetReal' /\ DropsNotUnderstated'
                    /\ rarps' \in Nat /\ beforeUp' \in {None} \cup (0..rarps')
  OBVIOUS
<1> USE DEF Ahead, Moving, Tracking, Ending, None
<1>1. /\ opts \in Options /\ Initial \in Nat /\ (opts.mode = "sustained" => Initial = 0)
      /\ round \in Nat /\ rarps \in Nat /\ beforeUp \in {None} \cup (0..rarps)
      /\ CountInv /\ TargetReal /\ DropsNotUnderstated
      /\ leaf["dst"].mac = "local" => leaf["dst"].sub
  BY InitialType, VMotionAssumption DEF IInv, TypeOK, LeafInv, Leaf
<1>2. leaf["dst"].sub => leaf'["dst"].sub
  BY NextKeepsLeaves DEF LeavesKept
<1>3. opts' = opts
  BY NextPeer
<1>4. Initial' = Initial
  BY <1>3 DEF Initial
<1>5. ASSUME UNCHANGED <<subifUp, macLocal, rarps, beforeUp, dropped>>
      PROVE  /\ TargetReal' /\ DropsNotUnderstated'
             /\ rarps' \in Nat /\ beforeUp' \in {None} \cup (0..rarps')
             /\ dropped' \in 0..rarps' /\ (subifUp' <=> beforeUp' # None)
  BY <1>1, <1>2, <1>5 DEF CountInv, TargetReal, DropsNotUnderstated
<1>6. CASE Start \/ WarmSend \/ WarmRead \/ Peer \/ LeaveSource \/ Flush
  <2>1. UNCHANGED <<subifUp, macLocal, rarps, beforeUp, dropped>>
    BY <1>6 DEF Start, WarmSend, WarmRead, Peer, LeaveSource, Flush, tool, clock
  <2>2. pc \in Ahead \cup Moving /\ pc' \in Ahead \cup Moving
    BY <1>6 DEF Start, WarmSend, WarmRead, Peer, LeaveSource, Flush
  <2>3. round' \in Nat
    BY <1>1, <1>6 DEF Start, WarmSend, WarmRead, Peer, LeaveSource, Flush, tool
  <2>4. rarps' = 0
    BY <1>1, <2>1, <2>2 DEF CountInv
  <2>5. \A n \in Nat : 0 <= Initial + n
    BY <1>1
  <2>6. CountInv'
    BY <1>3, <1>4, <1>5, <2>1, <2>2, <2>3, <2>4, <2>5 DEF CountInv
  <2> QED
    BY <1>5, <2>1, <2>6
<1>7. CASE Arrive
  <2>1. /\ UNCHANGED <<subifUp, macLocal, rarps, beforeUp, dropped, round>>
        /\ pc = "arrive" /\ pc' = IF Initial = 0 THEN "head" ELSE "initial"
    BY <1>7 DEF Arrive, clock
  <2> QED
    BY <1>1, <1>3, <1>4, <1>5, <2>1 DEF CountInv
<1>8. ASSUME Rarp, rarps' = rarps + 1,
             UNCHANGED <<subifUp, macLocal, beforeUp>>
      PROVE  /\ TargetReal' /\ DropsNotUnderstated'
             /\ rarps' \in Nat /\ beforeUp' \in {None} \cup (0..rarps')
             /\ dropped' \in 0..rarps' /\ (subifUp' <=> beforeUp' # None)
  <2>1. dropped' = dropped \/ (~leaf["dst"].sub /\ dropped' = dropped + 1)
    BY <1>8 DEF Rarp
  <2> QED
    BY <1>1, <1>2, <1>8, <2>1 DEF CountInv, TargetReal, DropsNotUnderstated
<1>9. CASE InitialRarp
  <2>1. /\ pc = "initial" /\ Rarp /\ rarps' = rarps + 1
        /\ pc' = (IF rarps' = Initial THEN "head" ELSE "initial")
        /\ UNCHANGED <<round, subifUp, macLocal, beforeUp>>
    BY <1>9 DEF InitialRarp
  <2>2. rarps + 1 <= Initial
    BY <1>1, <2>1 DEF CountInv
  <2> QED
    BY <1>1, <1>3, <1>4, <1>8, <2>1, <2>2 DEF CountInv
<1>10. CASE Announce
  <2>1. /\ pc = "head" /\ pc' = "readsub" /\ round' = round + 1
        /\ UNCHANGED <<subifUp, macLocal, beforeUp>>
        /\ \/ Rarp /\ rarps' = rarps + 1 /\ opts.mode = "sustained"
           \/ UNCHANGED <<rarps, dropped>>
    BY <1>10 DEF Announce
  <2>2. /\ TargetReal' /\ DropsNotUnderstated'
        /\ rarps' \in Nat /\ beforeUp' \in {None} \cup (0..rarps')
        /\ dropped' \in 0..rarps' /\ (subifUp' <=> beforeUp' # None)
    <3>1. UNCHANGED <<rarps, dropped>> => UNCHANGED <<subifUp, macLocal, rarps, beforeUp, dropped>>
      BY <1>10 DEF Announce
    <3> QED
      BY <1>5, <1>8, <1>10, <2>1, <3>1 DEF Announce
  <2>3. rarps' <= Initial + IF opts.mode = "sustained" THEN round' ELSE 0
    BY <1>1, <2>1 DEF CountInv
  <2>4. CountInv'
    BY <1>3, <1>4, <2>1, <2>2, <2>3 DEF CountInv
  <2> QED
    BY <2>2, <2>4
<1>11. CASE ReadSubif
  <2>1. /\ pc = "readsub" /\ pc' = "readmac"
        /\ UNCHANGED <<round, macLocal, rarps, dropped>>
        /\ \/ UNCHANGED <<subifUp, beforeUp>>
           \/ leaf["dst"].sub /\ subifUp' = TRUE /\ beforeUp' = rarps
    BY <1>11 DEF ReadSubif
  <2> QED
    BY <1>1, <1>2, <1>3, <1>4, <2>1 DEF CountInv, TargetReal, DropsNotUnderstated
<1>12. CASE ReadTarget
  <2>1. /\ pc = "readmac" /\ pc' \in {"readsrc", "head"}
        /\ UNCHANGED <<round, subifUp, rarps, beforeUp, dropped>>
        /\ macLocal' => macLocal \/ leaf["dst"].mac = "local"
    BY <1>12 DEF ReadTarget, Entry
  <2> QED
    BY <1>1, <1>2, <1>3, <1>4, <2>1 DEF CountInv, TargetReal, DropsNotUnderstated
<1>13. ASSUME UNCHANGED <<subifUp, macLocal, rarps, beforeUp, dropped, round>>,
              pc' = pc \/ pc' \in Ending \/ pc' \in {"head", "report"}
       PROVE  CountInv'
  BY <1>1, <1>3, <1>4, <1>5, <1>13 DEF CountInv
<1>14. CASE WarmTimeout \/ ReadSource \/ Deadline \/ Report \/ DeleteClient \/ Finish
            \/ Interrupt \/ DeleteHangs \/ Fabric \/ UNCHANGED vars
  <2>1. UNCHANGED <<subifUp, macLocal, rarps, beforeUp, dropped, round>>
        /\ (pc' = pc \/ pc' \in Ending \/ pc' \in {"head", "report"})
    BY <1>14 DEF WarmTimeout, ReadSource, Deadline, Report, DeleteClient, Finish, Interrupt,
       DeleteHangs, Fabric, Leave, tool, clock, vars
  <2> QED
    BY <1>5, <1>13, <2>1
<1> QED
  BY <1>6, <1>7, <1>9, <1>10, <1>11, <1>12, <1>14 DEF Next, ToolStep

\* Types: what no other lemma says of the new state.
LEMMA NextTypes == IInv /\ [Next]_vars => TypeOK'
<1> SUFFICES ASSUME IInv, [Next]_vars PROVE TypeOK'
  OBVIOUS
<1>1. /\ opts \in Options /\ vm \subseteq Client /\ todo \in Seq(Client) /\ round \in 0..MaxRounds
      /\ subifUp \in BOOLEAN /\ macLocal \in BOOLEAN /\ mobility \in BOOLEAN /\ failed \in BOOLEAN
      /\ PeerInv /\ refused \subseteq Client /\ origin \in {Cold, Warm, Held} /\ MaxRounds \in Nat
  BY VMotionAssumption DEF IInv, TypeOK
<1>2. opts' = opts /\ origin' = origin
  BY NextPeer
<1>3. vm' \subseteq Client
  BY <1>1 DEF Next, ToolStep, Start, WarmSend, WarmRead, WarmTimeout, Peer, LeaveSource, Flush,
     Arrive, InitialRarp, Announce, ReadSubif, ReadTarget, ReadSource, Deadline, Report,
     DeleteClient, Finish, Interrupt, DeleteHangs, Fabric, Create, Delete, Client, tool, vars
<1>4. todo' \in Seq(Client)
  <2>1. CASE Leave
    BY <1>1, <2>1, LeaveFacts
  <2>2. CASE DeleteClient
    BY <1>1, <2>2, VisitsTail DEF DeleteClient
  <2>3. CASE UNCHANGED todo
    BY <1>1, <2>3
  <2> QED
    BY <2>1, <2>2, <2>3 DEF Next, ToolStep, Start, WarmSend, WarmRead, WarmTimeout, Peer,
       LeaveSource, Flush, Arrive, InitialRarp, Announce, ReadSubif, ReadTarget, ReadSource,
       Deadline, Report, Finish, Interrupt, DeleteHangs, Fabric, tool, vars
<1>5. round' \in 0..MaxRounds
  <2>1. CASE WarmSend \/ Announce
    BY <1>1, <2>1 DEF WarmSend, Announce
  <2>2. CASE WarmRead
    BY <1>1, <2>2 DEF WarmRead
  <2>3. CASE UNCHANGED round
    BY <1>1, <2>3
  <2> QED
    BY <2>1, <2>2, <2>3 DEF Next, ToolStep, Start, WarmTimeout, Peer, LeaveSource, Flush, Arrive,
       InitialRarp, ReadSubif, ReadTarget, ReadSource, Deadline, Report, DeleteClient, Finish,
       Interrupt, DeleteHangs, Fabric, tool, vars
<1>6. /\ subifUp' \in BOOLEAN /\ macLocal' \in BOOLEAN /\ mobility' \in BOOLEAN
      /\ failed' \in BOOLEAN
  <2>1. CASE WarmRead \/ ReadSubif
    BY <1>1, <2>1 DEF WarmRead, ReadSubif, clock
  <2>2. CASE ReadTarget
    BY <1>1, <2>2 DEF ReadTarget
  <2>3. CASE ReadSource
    BY <1>1, <2>3 DEF ReadSource, Released
  <2>4. CASE UNCHANGED <<subifUp, macLocal, mobility, failed>>
    BY <1>1, <2>4
  <2> QED
    BY <2>1, <2>2, <2>3, <2>4 DEF Next, ToolStep, Start, WarmSend, WarmTimeout, Peer, LeaveSource,
       Flush, Arrive, InitialRarp, Announce, Deadline, Report, DeleteClient, Finish, Interrupt,
       DeleteHangs, Fabric, clock, tool, vars
<1>7. leaf' \in [Leaf -> LeafState]
  BY NextKeepsLeaves DEF LeavesKept
<1>8. rarps' \in 0..(Initial + IF opts.mode = "sustained" THEN MaxRounds ELSE 0)'
  <2>1. Initial' \in Nat
    BY <1>1, <1>2, InitialType DEF Initial
  <2>2. rarps' \in Nat /\ round' \in Nat /\ round' <= MaxRounds
    BY <1>1, <1>5, NextCounts
  <2>3. rarps' <= Initial' + IF opts'.mode = "sustained" THEN round' ELSE 0
    BY NextCounts DEF CountInv
  <2>4. \A i, n, r, m \in Nat : r <= m /\ n <= i + r => n \in 0..(i + m)
    OBVIOUS
  <2>5. CASE opts'.mode = "sustained"
    <3>1. rarps' <= Initial' + round'
      BY <2>3, <2>5
    <3>2. rarps' \in 0..(Initial' + MaxRounds)
      BY <1>1, <2>1, <2>2, <2>4, <3>1
    <3> QED
      BY <2>5, <3>2
  <2>6. CASE opts'.mode # "sustained"
    <3>1. rarps' <= Initial' + 0
      BY <2>3, <2>6
    <3>2. rarps' \in 0..(Initial' + 0)
      <4>1. \A i, n \in Nat : n <= i + 0 => n \in 0..(i + 0)
        OBVIOUS
      <4> QED
        BY <2>1, <2>2, <3>1, <4>1
    <3> QED
      BY <2>6, <3>2
  <2> QED
    BY <2>5, <2>6
<1>9. refused' \subseteq Client
  <2>1. CASE DeleteClient
    BY <1>1, <1>3, <2>1 DEF DeleteClient
  <2>2. CASE UNCHANGED refused
    BY <1>1, <2>2
  <2> QED
    BY <2>1, <2>2 DEF Next, ToolStep, Start, WarmSend, WarmRead, WarmTimeout, Peer, LeaveSource,
       Flush, Arrive, InitialRarp, Announce, ReadSubif, ReadTarget, ReadSource, Deadline, Report,
       Finish, Interrupt, DeleteHangs, Fabric, ghost, tool, vars
<1>10. beforeUp' \in {None} \cup (0..rarps')
  BY NextCounts
<1> QED
  BY <1>1, <1>2, <1>3, <1>4, <1>5, <1>6, <1>7, <1>8, <1>9, <1>10 DEF TypeOK, LeafState

\* The initial states satisfy the invariant.
LEMMA InitIInv == Init => IInv
<1> SUFFICES ASSUME Init PROVE IInv
  OBVIOUS
<1>1. opts \in Options /\ Initial \in Nat /\ MaxRounds \in Nat
  BY InitialType, VMotionAssumption DEF Init
<1>2. leaf \in [Leaf -> LeafState] /\ LeafInv
  <2>1. Cold \in LeafState /\ Warm \in LeafState /\ Held \in LeafState
        /\ Cold.mac = "none" /\ Warm.mac = "none" /\ Held.sub
    BY DEF Cold, Warm, Held, LeafState
  <2> HIDE DEF Cold, Warm, Held
  <2>2. origin \in {Cold, Warm, Held}
        /\ leaf = [src |-> IF opts.setup THEN Cold ELSE Held, dst |-> origin]
    BY DEF Init
  <2>3. leaf["src"] \in {Cold, Held} /\ leaf["dst"] \in {Cold, Warm, Held}
        /\ leaf = [k \in Leaf |-> leaf[k]]
    BY <2>2 DEF Leaf
  <2> QED
    BY <2>1, <2>3 DEF Leaf, LeafInv
<1>3. TypeOK
  <2>1. 0 \in 0..(Initial + IF opts.mode = "sustained" THEN MaxRounds ELSE 0)
    BY <1>1
  <2>2. todo \in Seq(Client) /\ vm \subseteq Client
    BY DEF Init, Client
  <2>3. round \in 0..MaxRounds /\ beforeUp \in {None} \cup (0..rarps)
    BY <1>1 DEF Init
  <2>4. rarps \in 0..(Initial + IF opts.mode = "sustained" THEN MaxRounds ELSE 0)
    BY <2>1 DEF Init
  <2>5. /\ subifUp \in BOOLEAN /\ macLocal \in BOOLEAN /\ mobility \in BOOLEAN
        /\ failed \in BOOLEAN /\ refused \subseteq Client /\ origin \in {Cold, Warm, Held}
    BY DEF Init
  <2> QED
    BY <1>1, <1>2, <2>2, <2>3, <2>4, <2>5 DEF TypeOK, LeafState
<1>4. CountInv /\ TargetReal /\ DropsNotUnderstated
  <2>1. 0 <= Initial + IF opts.mode = "sustained" THEN round ELSE 0
    BY <1>1 DEF Init
  <2> QED
    BY <2>1 DEF Init, CountInv, TargetReal, DropsNotUnderstated, Ahead, None
<1>5. PeerInv /\ CleanInv
  BY DEF Init, PeerInv, CleanInv, NothingStranded, Client
<1>6. VerdictInv
  BY DEF Init, VerdictInv, VerdictIsTrue
<1> QED
  BY <1>2, <1>3, <1>4, <1>5, <1>6 DEF IInv

\* The inductive invariant holds in every reachable state.
THEOREM Invariance == Spec => []IInv
<1>1. Init => IInv
  BY InitIInv
<1>2. IInv /\ [Next]_vars => IInv'
  BY NextTypes, NextKeepsLeaves, NextCounts, NextPeer, NextVerdict, NextClean
     DEF IInv, LeavesKept
<1> QED
  BY <1>1, <1>2, PTL DEF Spec
-----------------------------------------------------------------------------
(* The properties.                                                         *)

\* Type correctness; in particular no more RARPs than the mode allows.
THEOREM TypeCorrect == Spec => []TypeOK
<1>1. IInv => TypeOK
  BY DEF IInv
<1> QED
  BY <1>1, Invariance, PTL

\* Nothing is reported of the target that did not happen there.
THEOREM TargetIsReal == Spec => []TargetReal
<1>1. IInv => TargetReal
  BY DEF IInv
<1> QED
  BY <1>1, Invariance, PTL

\* The count of RARPs lost before the subinterface existed is never too low.
THEOREM DropsAreCounted == Spec => []DropsNotUnderstated
<1>1. IInv => DropsNotUnderstated
  BY DEF IInv
<1> QED
  BY <1>1, Invariance, PTL

\* The verdict is formed from what is still so, unless a look failed or the VM
\* never left the source.
THEOREM VerdictHolds == Spec => []VerdictIsTrue
<1>1. IInv => VerdictIsTrue
  BY DEF IInv, VerdictInv
<1> QED
  BY <1>1, Invariance, PTL

\* A cleanup that visited every client leaves nothing behind that it did not try
\* to delete, wherever the body was left.
THEOREM CleanupIsComplete == Spec => []NothingStranded
<1>1. IInv => NothingStranded
  BY DEF IInv, CleanInv
<1> QED
  BY <1>1, Invariance, PTL
=============================================================================
