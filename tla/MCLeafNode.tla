----------------------------- MODULE MCLeafNode -----------------------------
(* Small instances of LeafNode for TLC. *)
EXTENDS LeafNode

CONSTANTS e1, e2, lag1

OnePort  == {e1}
TwoPorts == {e1, e2}
OneLag   == {lag1}
Both     == {1, 2}
First    == {1}
=============================================================================
