----------------------------- MODULE MCDynSubif -----------------------------
(* Small instances of DynSubif for TLC. *)
EXTENDS DynSubif

CONSTANTS i1, i2

TwoIfaces == {i1, i2}
TwoVlans  == {0, 1}
LastVlan  == {1}
=============================================================================
