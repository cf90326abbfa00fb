--------------------------------- MODULE Router ---------------------------------
(***************************************************************************)
(* app/agentic_router.py: AgenticRouter.select, from the route hints to    *)
(* the selected workflow, for any profiles and any scores.                 *)
(*                                                                         *)
(* One call adds up the hints (_memory_boosts), scores every profile and   *)
(* boosts the executable ones (the loop of select), and lets               *)
(* ResourceBalancer.select choose among those whose match is within the    *)
(* tie band of the best.  The matcher's score, its filters and the         *)
(* balancer's resource score are inputs here; Routing.tla computes them.   *)
(* Scores are integers: the code rounds them to six decimals.  Differences *)
(* are exact here; as floats, one of just Tie may be out of the band.      *)
(***************************************************************************)
EXTENDS Integers

CONSTANTS Workflows,    \* workflow ids of the profiles
          Position,     \* their places in the profile file
          None,         \* no workflow
          One,          \* a perfect score, 1.0
          MaxBoost,     \* MAX_MEMORY_ROUTE_BOOST
          Tie,          \* RESOURCE_TIE_THRESHOLD
          Boosts,       \* what the score_boost of a hint may be
          Matches,      \* what the matcher may score
          Resources,    \* resource scores
          Latencies,    \* effective average latencies
          MaxHints      \* bound: hints of one call

ASSUME RouterAssumption ==
    /\ One \in Nat /\ MaxBoost \in Nat /\ Tie \in Nat
    /\ Boosts \subseteq Int
    /\ Matches \subseteq 0..One
    /\ Resources \subseteq Nat /\ Latencies \subseteq Nat
    /\ MaxHints \in Nat
    /\ None \notin Workflows
    /\ Position \in [Workflows -> Nat]
    /\ \A v, w \in Workflows : Position[v] = Position[w] => v = w

VARIABLES
    stage,      \* "hints", "matched" or "routed"
    hints,      \* how many hints were added up
    boosts,     \* per workflow: its memory boost
    base,       \* per workflow: the matcher's score
    executable, \* the workflows no filter excluded
    match,      \* per workflow: match_score, with the boost
    target,     \* per workflow: resource score and latency, as the balancer sees them
    selected    \* selected_workflow

routerVars == <<stage, hints, boosts, base, executable, match, target, selected>>

Targets == [resource : Resources, latency : Latencies]
NoTargets == [w \in Workflows |-> [resource |-> 0, latency |-> 0]]

AtMost(bound, n) == IF n > bound THEN bound ELSE n
Positive(n) == IF n < 0 THEN 0 ELSE n

--------------------------------------------------------------------------------
(* The balancer *)

\* The tie band of a set of candidates: the matches within Tie of the best.
Band(candidates, m) == {w \in candidates : \A v \in candidates : m[v] - m[w] <= Tie}

\* Mutant: the latency is not negated in the sort key.
Before_SlowestFirst(w, v) ==
    \/ target[w].resource > target[v].resource
    \/ /\ target[w].resource = target[v].resource
       /\ \/ target[w].latency > target[v].latency
          \/ target[w].latency = target[v].latency /\ Position[w] < Position[v]

\* Where sorted(..., key=(resource_score, -avg_latency_ms), reverse=True) puts w:
\* before v, and equal keys keep the order of the profiles.
Before(w, v) ==
    \/ target[w].resource > target[v].resource
    \/ /\ target[w].resource = target[v].resource
       /\ \/ target[w].latency < target[v].latency
          \/ target[w].latency = target[v].latency /\ Position[w] < Position[v]

\* Mutant: of the band, the worst match comes first.
Wins_WorstMatch(w, candidates, m) ==
    /\ w \in Band(candidates, m)
    /\ \A v \in Band(candidates, m) \ {w} :
          m[w] < m[v] \/ (m[w] = m[v] /\ Before(w, v))

\* w comes first in the sorted tie band.
Wins(w, candidates, m) ==
    /\ w \in Band(candidates, m)
    /\ \A v \in Band(candidates, m) \ {w} : Before(w, v)

--------------------------------------------------------------------------------
(* One call of select *)

Init ==
    /\ stage = "hints"
    /\ hints = 0
    /\ boosts = [w \in Workflows |-> 0]
    /\ base = [w \in Workflows |-> 0] /\ match = [w \in Workflows |-> 0]
    /\ executable = {}
    /\ target = NoTargets
    /\ selected = None

\* Mutant: every hint is capped, but not their sum.
TakeHint_EachCapped(w, b) ==
    /\ stage = "hints" /\ hints < MaxHints
    /\ hints' = hints + 1
    /\ boosts' = [boosts EXCEPT ![w] = @ + AtMost(MaxBoost, Positive(b))]
    /\ UNCHANGED <<stage, base, executable, match, target, selected>>

\* _memory_boosts, one hint: a negative boost counts as none.  A hint without a
\* workflow or with a boost that is no number is skipped and changes nothing.
TakeHint(w, b) ==
    /\ stage = "hints" /\ hints < MaxHints
    /\ hints' = hints + 1
    /\ boosts' = [boosts EXCEPT ![w] = AtMost(MaxBoost, @ + Positive(b))]
    /\ UNCHANGED <<stage, base, executable, match, target, selected>>

\* Mutant: the boost is not capped at a perfect match.
Boosted_Uncapped(w) == base'[w] + boosts[w]

\* An executable workflow's match with its boost.
Boosted(w) == AtMost(One, base'[w] + boosts[w])

\* The loop over the profiles: score_profile, then the boost.
Match ==
    /\ stage = "hints"
    /\ stage' = "matched"
    /\ base' \in [Workflows -> Matches]
    /\ executable' \in SUBSET Workflows
    /\ match' = [w \in Workflows |-> IF w \in executable' THEN Boosted(w) ELSE base'[w]]
    /\ UNCHANGED <<hints, boosts, target, selected>>

\* Mutant: a boosted workflow is a target even when a filter excluded it.
Candidates_Boosted == executable \cup {w \in Workflows : boosts[w] = MaxBoost}

\* executable_scores.
Candidates == executable

\* ResourceBalancer.select: the targets are read from the runtime metrics, then the
\* first of the sorted tie band wins.
Balance ==
    /\ stage = "matched"
    /\ stage' = "routed"
    /\ target' \in [Workflows -> Targets]
    /\ UNCHANGED <<hints, boosts, base, executable, match>>
    /\ \/ Candidates = {} /\ selected' = None
       \/ \E w \in Candidates : Wins(w, Candidates, match)' /\ selected' = w

\* select returns; the router keeps nothing for the next call.
Return ==
    /\ stage = "routed"
    /\ stage' = "hints"
    /\ hints' = 0
    /\ boosts' = [w \in Workflows |-> 0]
    /\ base' = [w \in Workflows |-> 0] /\ match' = [w \in Workflows |-> 0]
    /\ executable' = {}
    /\ target' = NoTargets
    /\ selected' = None

Next ==
    \/ \E w \in Workflows, b \in Boosts : TakeHint(w, b)
    \/ Match
    \/ Balance
    \/ Return

Spec == Init /\ [][Next]_routerVars

--------------------------------------------------------------------------------
(* Properties *)

\* Every variable has its type: in particular a boost never exceeds MaxBoost and a
\* match never One, however many hints there are.
TypeOK ==
    /\ stage \in {"hints", "matched", "routed"}
    /\ hints \in 0..MaxHints
    /\ boosts \in [Workflows -> 0..MaxBoost]
    /\ base \in [Workflows -> 0..One]
    /\ executable \in SUBSET Workflows
    /\ match \in [Workflows -> 0..One]
    /\ target \in [Workflows -> [resource : Nat, latency : Nat]]
    /\ selected \in Workflows \cup {None}

\* "hard_filters_win" (the score_breakdown of select): hints and tie band together
\* never select a workflow that a filter excluded, and a routing ends without a
\* workflow only when every one is excluded.
HardFiltersWin ==
    stage = "routed" =>
        /\ selected # None => selected \in executable
        /\ selected = None => executable = {}

\* What memory and load can do against the matcher: the matcher's favourite is
\* passed over only for a workflow less than a full boost and a tie band behind.
WithinReach ==
    selected # None =>
        \A v \in executable : base[v] <= base[selected] + MaxBoost + Tie

\* Nobody is passed over who matches at least as well, and has no worse a resource
\* score and latency, one of the two better.
Undominated ==
    selected # None =>
        \A v \in executable :
            ~ /\ match[v] >= match[selected]
              /\ target[v].resource >= target[selected].resource
              /\ target[v].latency <= target[selected].latency
              /\ \/ target[v].resource > target[selected].resource
                 \/ target[v].latency < target[selected].latency

\* A hint for the selected workflow never costs it the selection: a higher match
\* moves the tie band, and the winner stays in it and stays first.
BoostHelps ==
    selected # None =>
        \A gain \in 0..One :
            Wins(selected, executable, [match EXCEPT ![selected] = AtMost(One, @ + gain)])

================================================================================
