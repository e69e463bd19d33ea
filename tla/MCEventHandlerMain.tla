------------------------- MODULE MCEventHandlerMain -------------------------
(* Small instances of EventHandlerMain for TLC. *)
EXTENDS EventHandlerMain

CONSTANTS i1, i2, i3

ThreeIfaces == {i1, i2, i3}
TwoVlans    == {0, 1}

\* Numbers, ranges of either direction, signs, and what is neither.
OptionTokens ==
  {<<1>>, <<2>>, <<0, 1>>, <<1, 2>>, <<2, 0>>, <<Blank, 1>>, <<1, Blank>>,
   <<1, 2, 2>>, <<Untagged>>, <<Untagged, 1>>, <<Blank>>, <<Junk>>}

\* Strings of one to three tokens, and lists of up to two strings of which
\* one may hold a comma.
OptionStrings == UNION {[1..n -> OptionTokens] : n \in 1..3}
ListStrings   == [1..1 -> OptionTokens] \cup {<<<<1>>, <<2>>>>, <<<<0, 1>>, <<2>>>>}

MCExcludeOptions == {Value(s) : s \in OptionStrings}
                    \cup {Values(l) : l \in UNION {[1..n -> ListStrings] : n \in 0..2}}

MCRtOptions == {Values(<<>>), Value(<<<<2>>>>), Value(<<<<1>>, <<2>>>>),
                Value(<<<<Blank, 2>>>>), Values(<<<<<<2>>>>, <<<<1>>>>>>),
                Values(<<<<<<Junk>>>>, <<<<2>>>>>>)}
=============================================================================
