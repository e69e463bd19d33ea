---------------------------- MODULE MCRunTraffic ----------------------------
EXTENDS RunTraffic

MCClient == {"a", "b", "c"}

\* The first run has a client that the second does not have.
MCTests == <<[flows |-> FlowsOf({<<"c", "b">>, <<"a", "b">>}, TRUE, {1}), total |-> 1],
             [flows |-> FlowsOf({<<"a", "b">>}, TRUE, {1}), total |-> 3]>>

\* The loop of the report finds the longest gap, for every set of up to eight
\* sequence numbers; the instance above has too few for two gaps of different length.
ASSUME OutageIsLongestGap ==
  \A total \in 1..8 : \A seqs \in SUBSET (0..(total - 1)) :
    MaxOutage(seqs, total) = LongestGap((0..(total - 1)) \ seqs)
=============================================================================
