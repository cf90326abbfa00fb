-------------------------------- MODULE MCRouter --------------------------------
\* Instances of Router for TLC: the workflows are their places in the profile file.
EXTENDS Router

MCPosition == [w \in Workflows |-> w]
MCBoosts == {-1, 3}

================================================================================
