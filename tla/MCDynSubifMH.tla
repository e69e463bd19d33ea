---------------------------- MODULE MCDynSubifMH ----------------------------
(* Small instances of DynSubifMH for TLC. *)
EXTENDS DynSubifMH

CONSTANTS lag1, lag2

TwoLags  == {lag1, lag2}
TwoVlans == {0, 1}
LastVlan == {1}
=============================================================================
