------------------------------- MODULE MCH2Recv -------------------------------
EXTENDS H2Recv

Scene(r, e, l, n) == [role |-> r, env |-> e, lens |-> l, frames |-> n]

\* A client whose peer also sends what is malformed, one whose SETTINGS are acknowledged
\* late, one whose peer says GOAWAY or goes away, and a server whose peer also sends
\* what is malformed and empty frames.
MCScenarios ==
    {Scene("client", {"bad"}, {1, 3}, 3),
     Scene("client", {"settings"}, {3}, 3),
     Scene("client", {"goaway", "fail"}, {1}, 3),
     Scene("server", {"bad"}, {0, 1, 3}, 4)}
=============================================================================
