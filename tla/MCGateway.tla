------------------------------- MODULE MCGateway -------------------------------
\* Instances of Gateway for TLC.
EXTENDS Gateway, TLC

RequestSymmetry == Permutations(Requests)

================================================================================
