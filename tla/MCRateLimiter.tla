----------------------------- MODULE MCRateLimiter -----------------------------
\* Instances of RateLimiter for TLC.
EXTENDS RateLimiter, TLC

KeySymmetry == Permutations(Keys)

================================================================================
