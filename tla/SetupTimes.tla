---------------------------- MODULE SetupTimes ----------------------------
(***************************************************************************)
(* The single-homed modes of measure_setup_rate.py from the clock          *)
(* synchronisation to the end of the polling: one or several clients bring *)
(* up a cold range of VLANs on as many ports of one leaf; with --dst-node  *)
(* there is one port, a client of another leaf brings up the same VLANs,   *)
(* and the tool also waits until the source MACs are in the FDB there.     *)
(*                                                                         *)
(* Time passes in ticks of the host's clock; every time is counted from    *)
(* trigger_t.  The leaves appear by what they promise: which of the VLANs  *)
(* are provisioned and learned at all is their configuration, and as long  *)
(* as one of these is outstanding the next one follows within Gap.         *)
(***************************************************************************)
EXTENDS Integers, Sequences, FiniteSets, FiniteSetsExt

CONSTANTS
  Vlan,         \* --vlans
  Ports,        \* measured ports of the leaf; --dst-node needs only the first
  Gap,          \* longest time between two subinterfaces or FDB entries
  TriggerTime,  \* longest time the trigger scripts run, on either side
  ReadTime,     \* longest time a gNMI read takes
  Interval,     \* --poll
  Settle,       \* --settle
  MaxWait,      \* --max-wait
  Samples,      \* --clock-samples, 0 with --no-clock-sync
  MaxRtt,       \* longest round trip of a sample
  Skew          \* leaf clock minus host clock

\* Reads of one round of polling, with --dst-node or without.
Reads(evpn) == IF evpn THEN 2 ELSE Len(Ports)

Port == {Ports[n] : n \in 1..Len(Ports)}

\* The settle timer runs from trigger_t, so it has to outlast the triggers too.
TimesAssumption ==
  /\ IsFiniteSet(Vlan) /\ Ports \in Seq(Port) /\ Ports # <<>>
  /\ {Gap, TriggerTime, ReadTime, Interval, Settle, MaxWait} \subseteq Nat \ {0}
  /\ {Samples, MaxRtt} \subseteq Nat /\ Skew \in Int
  /\ \A evpn \in BOOLEAN : Settle > 2 * TriggerTime + Gap + Reads(evpn) * ReadTime

Never == -1

VARIABLES
  evpn,       \* --dst-node is given
  provisions, \* <<port, VLAN>> the leaf provisions, if triggered
  learns,     \* VLANs whose source MAC gets into the FDB of the destination
  up,         \* <<port, VLAN>> that are oper-up
  born,       \* per VLAN: when its MAC got into that FDB
  since,      \* when the last of all this happened, or the last trigger was over
  clock,      \* time.time() - trigger_t
  phase,      \* where the tool is
  left,       \* how long it can stay there; samples to take when it is "sync"
  best,       \* the best sample so far, [off, rtt], twice the offset, or {}
  shortest,   \* shortest round trip of all samples that were answered; both only
              \* until the trigger, nothing changes them after that
  ports,      \* ports the current round has still to read
  seen,       \* subifs seen up so far in this round
  fdb,        \* VLANs whose MAC the read of the FDB returned
  blind,      \* a read of this round failed
  blinked,    \* a read of the FDB has failed
  lastUp, lastFdb, lastProgress,
  appear      \* fdb_appear, per VLAN

world == <<evpn, provisions, learns, up, born, since>>
sync  == <<best, shortest>>
round == <<ports, seen, fdb, blind, blinked>>
poll  == <<lastUp, lastFdb, lastProgress, appear>>
vars  == <<world, clock, phase, left, sync, round, poll>>

Measured == IF evpn THEN SubSeq(Ports, 1, 1) ELSE Ports
Over == {"up", "stalled", "late"}

Init ==
  /\ evpn \in BOOLEAN
  /\ provisions \in SUBSET ({Measured[n] : n \in 1..Len(Measured)} \X Vlan)
  /\ learns \in SUBSET (IF evpn THEN {p[2] : p \in provisions} ELSE {})
  /\ up = {} /\ born = [v \in Vlan |-> Never] /\ since = 0
  /\ clock = 0 /\ phase = "sync" /\ left = Samples
  /\ best = {} /\ shortest = MaxRtt
  /\ ports = <<>> /\ seen = 0 /\ fdb = {} /\ blind = FALSE /\ blinked = FALSE
  /\ lastUp = 0 /\ lastFdb = 0 /\ lastProgress = 0
  /\ appear = [v \in Vlan |-> Never]
-----------------------------------------------------------------------------
(* The leaves.                                                             *)

Triggered == phase \notin {"sync"} \cup Over

Provision(p) ==
  /\ Triggered
  /\ p \in provisions \ up
  /\ up' = up \cup {p}
  /\ UNCHANGED born

\* Both leaves have provisioned the VLAN, and the route of the MAC has arrived.
Learn(v) ==
  /\ Triggered /\ phase # "trigger"
  /\ v \in learns /\ <<Ports[1], v>> \in up /\ born[v] = Never
  /\ born' = [born EXCEPT ![v] = clock]
  /\ UNCHANGED up

Leaves ==
  /\ \/ \E p \in Port \X Vlan : Provision(p)
     \/ \E v \in Vlan : Learn(v)
  /\ since' = clock
  /\ UNCHANGED <<evpn, provisions, learns, clock, phase, left, sync, round, poll>>

Outstanding == up # provisions \/ \E v \in learns : born[v] = Never

\* Time passes, unless the tool or the leaves are due.
Tick ==
  /\ Triggered /\ left > 0
  /\ Outstanding /\ phase \notin {"trigger", "dsttrigger"} => clock < since + Gap
  /\ clock' = clock + 1
  /\ left' = left - 1
  /\ UNCHANGED <<world, phase, sync, round, poll>>
-----------------------------------------------------------------------------
(* Clock synchronisation and triggers.                                     *)

MutBetter(sample) == TRUE

\* A sample replaces one that took longer.
Better(sample) == \A kept \in best : sample.rtt < kept.rtt

\* One sample of clock_offset: the leaf reads its clock `at' after the request.
\* One without an answer is left out.
Sample ==
  /\ phase = "sync" /\ left > 0
  /\ left' = left - 1
  /\ \/ UNCHANGED sync
     \/ \E rtt \in 0..MaxRtt : \E at \in 0..rtt :
          LET sample == [off |-> 2 * (Skew + at) - rtt, rtt |-> rtt]
          IN  /\ best' = IF Better(sample) THEN {sample} ELSE best
              /\ shortest' = Min({shortest, rtt})
  /\ UNCHANGED <<world, clock, phase, round, poll>>

\* trigger_t is taken here; the scripts of all clients run at the same time.
StartTrigger ==
  /\ phase = "sync" /\ left = 0
  /\ phase' = "trigger" /\ left' = TriggerTime
  /\ best' = {} /\ shortest' = MaxRtt
  /\ UNCHANGED <<world, clock, round, poll>>

\* Top of the loop: whether it goes on is looked at here only.
MutGoOn == clock < lastProgress + MaxWait

GoOn == clock < MaxWait

NewRound ==
  IF GoOn
  THEN /\ phase' = "read" /\ left' = ReadTime
       /\ ports' = Measured /\ seen' = 0 /\ fdb' = {} /\ blind' = FALSE
  ELSE /\ phase' = "late" /\ left' = 0
       /\ UNCHANGED <<ports, seen, fdb, blind>>

\* The scripts have ended; the destination's runs after the others.
Triggers ==
  /\ phase = "trigger"
  /\ \/ evpn /\ phase' = "dsttrigger" /\ left' = TriggerTime
             /\ UNCHANGED <<ports, seen, fdb, blind>>
     \/ ~evpn /\ NewRound
  /\ since' = clock
  /\ UNCHANGED <<evpn, provisions, learns, up, born, clock, sync, blinked, poll>>

DstTrigger ==
  /\ phase = "dsttrigger"
  /\ NewRound
  /\ since' = clock
  /\ UNCHANGED <<evpn, provisions, learns, up, born, clock, sync, blinked, poll>>
-----------------------------------------------------------------------------
(* Polling.                                                                *)

\* What read_subif_state sees on a port; if the read fails, nothing.
Read ==
  /\ phase = "read"
  /\ LET port == Head(ports)
     IN  \/ /\ seen' = seen + Cardinality({p \in up : p[1] = port})
            /\ UNCHANGED blind
         \/ seen' = seen /\ blind' = TRUE
  /\ ports' = Tail(ports)
  /\ phase' = IF Len(ports) > 1 THEN "read" ELSE IF evpn THEN "fdb" ELSE "judge"
  /\ left' = ReadTime
  /\ UNCHANGED <<world, clock, sync, fdb, blinked, poll>>

ReadFdb ==
  /\ phase = "fdb"
  /\ \/ fdb' = {v \in Vlan : born[v] # Never} /\ UNCHANGED <<blind, blinked>>
     \/ fdb' = {} /\ blind' = TRUE /\ blinked' = TRUE
  /\ phase' = "judge" /\ left' = ReadTime
  /\ UNCHANGED <<world, clock, sync, ports, seen, poll>>

MutAppeared == [v \in Vlan |-> IF v \in fdb THEN clock ELSE appear[v]]

\* fdb_appear with the MACs that are in it for the first time.
Appeared == [v \in Vlan |-> IF v \in fdb /\ appear[v] = Never THEN clock ELSE appear[v]]

Found(appeared) == Cardinality({v \in Vlan : appeared[v] # Never})

MutProgress == seen # lastUp

Progress == seen # lastUp \/ Found(Appeared) # lastFdb

Complete ==
  /\ seen = Cardinality(Vlan) * Len(Measured)
  /\ evpn => Found(Appeared) = Cardinality(Vlan)

\* The rest of the loop, after the reads.
Judge ==
  /\ phase = "judge"
  /\ appear' = Appeared
  /\ lastUp' = seen /\ lastFdb' = Found(Appeared)
  /\ lastProgress' = IF Progress THEN clock ELSE lastProgress
  /\ \/ Complete /\ phase' = "up" /\ left' = 0
     \/ ~Complete /\ clock - lastProgress' >= Settle /\ phase' = "stalled" /\ left' = 0
     \/ ~Complete /\ clock - lastProgress' < Settle /\ phase' = "sleep" /\ left' = Interval
  /\ UNCHANGED <<world, clock, sync, round>>

Sleep ==
  /\ phase = "sleep" /\ left = 0
  /\ NewRound
  /\ UNCHANGED <<world, clock, sync, blinked, poll>>

Tool == Sample \/ StartTrigger \/ Triggers \/ DstTrigger \/ Read \/ ReadFdb \/ Judge \/ Sleep

Next == Leaves \/ Tick \/ Tool

Spec == Init /\ [][Next]_vars
-----------------------------------------------------------------------------
(* Properties.                                                             *)

\* The settle timer does not cut off what is still being provisioned, unless
\* the round that stopped the run was missing a read: everything the leaves are
\* going to provision and learn is there.  It needs progress in the FDB to count
\* like progress of the subinterfaces.
NoPrematureStop ==
  phase = "stalled" /\ ~blind => ~Outstanding

\* The longest time from the start of a round to its end.
Round == (Reads(evpn) + 1) * ReadTime

\* --max-wait ends the wait even if progress never ceases: no round begins after
\* it.
EndsInTime ==
  Triggered \/ phase \in Over => clock < Max({2 * TriggerTime + 1, MaxWait + Round + Interval})

\* The times of the report are those of the leaves.  Last-change is off by half
\* of the shortest round trip at most.  An FDB entry is not reported before it is
\* there, and if no read of the FDB failed, late by one round of polling, or by
\* the destination's trigger if it was there before polling began.
TimesAreTrue ==
  /\ \A kept \in best : 2 * Skew - kept.off \in -shortest..shortest
  /\ \A v \in Vlan : appear[v] # Never =>
       LET late == appear[v] - born[v]
       IN  /\ late >= 0
           /\ ~blinked => late <= Max({TriggerTime, ReadTime + Interval}) + Round
=============================================================================
