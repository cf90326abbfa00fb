\* Three profiles; scores in twentieths, as the code has them: a full boost is four
\* twentieths and the tie band one.
SPECIFICATION Spec
CONSTANTS
    Workflows = {1, 2, 3}
    Position <- MCPosition
    None = None
    One = 20
    MaxBoost = 4
    Tie = 1
    Boosts <- MCBoosts
    Matches = {13, 15, 16, 19}
    Resources = {0, 1}
    Latencies = {0, 1}
    MaxHints = 2
INVARIANTS
    TypeOK
    HardFiltersWin
    WithinReach
    Undominated
    BoostHelps
