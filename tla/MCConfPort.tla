----------------------------- MODULE MCConfPort -----------------------------
EXTENDS ConfPort

\* The bridge has MSTIs 1 and 2; a file may also name 3, which it lacks.
MCBrTrees == <<1, 2>>
MCMstiIds == {1, 2, 3}
MCOptions == {"admin-edge", "p2p", "mstid", "prio", "int-cost", "ext-cost"}
MCPrioInputs == {17, 300}
MCCostInputs == {5, 210000001}

=============================================================================
