----------------------------- MODULE MCSetupRate -----------------------------
EXTENDS SetupRate

MCOrder == <<"leaf1", "leaf2">>

MCRanges == <<{1}, {1, 2}>>

MCPorts == <<"port1", "port2">>
=============================================================================
