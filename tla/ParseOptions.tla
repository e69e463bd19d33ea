---------------------------- MODULE ParseOptions ----------------------------
(***************************************************************************)
(* The options of the event handlers, as dyn_subif_custom.py parses them   *)
(* (dyn_subif_mh_custom.py has the same code for exclude-vlans).           *)
(*                                                                         *)
(* A token is what stands between two commas, split at its dashes: "5" is  *)
(* <<5>>, "5-7" is <<5, 7>>, "-5" is <<Blank, 5>>, the empty token is      *)
(* <<Blank>>.  A part of it is a number, blank, the word "untagged" or     *)
(* anything else, which is junk.                                           *)
(*                                                                         *)
(* An option configured with `value' is one string; configured with        *)
(* `values' it is a list of strings, and these are not split at commas.    *)
(***************************************************************************)
EXTENDS Integers, Sequences

CONSTANTS Blank, Untagged, Junk   \* model values

ASSUME PartsAssumption ==
  /\ Blank # Untagged /\ Blank # Junk /\ Untagged # Junk
  /\ \A part \in {Blank, Untagged, Junk} : part \notin Int

\* int() of Python raises ValueError for everything else.
IsInt(part) == part \notin {Blank, Untagged, Junk}

\* A string is the sequence of its tokens.
Value(string)   == [list |-> FALSE, strings |-> <<string>>]
Values(strings) == [list |-> TRUE, strings |-> strings]

\* An element of a list with a comma in it is neither a number nor a range.
Element(string) == IF Len(string) = 1 THEN string[1] ELSE <<Junk>>

\* tokens of _parse_vlan_exclusions.
Tokens(raw) ==
  IF raw.list
  THEN [n \in 1..Len(raw.strings) |-> Element(raw.strings[n])]
  ELSE raw.strings[1]

\* Tokens the loop skips: blank ones, several dashes, what int() rejects.
\* The word "untagged" is a number only outside a range.
MutSkipped(token) ==
  \/ token = <<Blank>>
  \/ Len(token) = 1 /\ ~IsInt(token[1]) /\ token[1] # Untagged
  \/ Len(token) >= 2 /\ \E n \in {1, 2} : ~IsInt(token[n])

Skipped(token) ==
  \/ token = <<Blank>>
  \/ Len(token) > 2
  \/ Len(token) = 1 /\ ~IsInt(token[1]) /\ token[1] # Untagged
  \/ Len(token) = 2 /\ \E n \in {1, 2} : ~IsInt(token[n])

\* What excluded_vlans gains from a token that is not skipped.
Gained(token) ==
  IF Len(token) >= 2 THEN token[1]..token[2]
  ELSE IF token[1] = Untagged THEN {0} ELSE {token[1]}

\* _parse_rt_asn: a string, or the first string of a list; the default if it
\* is no integer.  A dash in front is a sign here.
RtAsn(raw, default) ==
  LET string == IF raw.strings = <<>> THEN <<>> ELSE raw.strings[1]
      token  == IF Len(string) = 1 THEN string[1] ELSE <<Junk>>
  IN  CASE Len(token) = 1 /\ IsInt(token[1]) -> token[1]
        [] Len(token) = 2 /\ token[1] = Blank /\ IsInt(token[2]) -> -token[2]
        [] OTHER -> default
=============================================================================
