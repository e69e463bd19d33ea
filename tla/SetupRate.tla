----------------------------- MODULE SetupRate -----------------------------
(***************************************************************************)
(* measure_setup_rate.py: main() takes one of two ways.  With --mh-client  *)
(* it runs against the leaves of an Ethernet Segment, as MeasureSetupRate  *)
(* has it; without, it measures the ports of one leaf, as SetupTimes has   *)
(* it.  A behaviour is of one mode.                                        *)
(***************************************************************************)
EXTENDS MeasureSetupRate

CONSTANTS Ports, Gap, TriggerTime, ReadTime, Interval, Settle, MaxWait, Samples, MaxRtt, Skew

VARIABLES
  mh,        \* --mh-client is given
  evpn, provisions, learns, up, born, since, clock, phase, left, best, shortest,
  ports, seen, fdb, blind, blinked, lastUp, lastFdb, lastProgress, appear

single == <<evpn, provisions, learns, up, born, since, clock, phase, left, best, shortest,
            ports, seen, fdb, blind, blinked, lastUp, lastFdb, lastProgress, appear>>

Single == INSTANCE SetupTimes

ASSUME RateAssumption == Single!TimesAssumption

RateInit ==
  /\ mh \in BOOLEAN
  /\ Init /\ Single!Init
  /\ mh => ~evpn /\ provisions = {}

RateNext ==
  /\ UNCHANGED mh
  /\ \/ mh /\ Next /\ UNCHANGED single
     \/ ~mh /\ Single!Next /\ UNCHANGED vars

RateSpec == RateInit /\ [][RateNext]_<<mh, vars, single>>
-----------------------------------------------------------------------------
(* What SetupTimes says of the other mode.                                 *)

\* The settle timer does not cut off VLANs that are still being provisioned or
\* learned.
NoPrematureStop == Single!NoPrematureStop

\* --max-wait ends the wait even if progress never ceases.
EndsInTime == Single!EndsInTime

\* The reported times are those of the leaves, up to the shortest round trip and
\* a round of polling.
TimesAreTrue == Single!TimesAreTrue
=============================================================================
