------------------------------ MODULE RouterProofs ------------------------------
(***************************************************************************)
(* Theorems about Router, for every set of profiles, every score and any   *)
(* number of hints.  The inductive invariant says of each stage of select  *)
(* what the next one needs: a matched workflow carries its boosted score,  *)
(* and the selected one is the first of the tie band.                      *)
(***************************************************************************)
EXTENDS Router, TLAPS

\* match is the matcher's score, with the boost where the filters let it through.
MatchIsBoosted ==
    stage # "hints" =>
        match = [w \in Workflows |-> IF w \in executable
                                     THEN AtMost(One, base[w] + boosts[w]) ELSE base[w]]

\* Nothing is selected before the balancer ran, and then the winner is.
SelectedWins ==
    /\ stage # "routed" => selected = None
    /\ stage = "routed" =>
          \/ selected = None /\ executable = {}
          \/ selected \in executable /\ Wins(selected, executable, match)

RouterInv == TypeOK /\ MatchIsBoosted /\ SelectedWins

--------------------------------------------------------------------------------
(* Lemmas *)

\* Capping keeps a sum of naturals below the cap and above neither term.
LEMMA AtMostBounds ==
    ASSUME NEW bound \in Nat, NEW n \in Nat
    PROVE  /\ AtMost(bound, n) \in 0..bound
           /\ AtMost(bound, n) <= n
           /\ \A m \in 0..bound : m <= n => m <= AtMost(bound, n)
  BY DEF AtMost

LEMMA PositiveNat == ASSUME NEW n \in Int PROVE Positive(n) \in Nat
  BY DEF Positive

\* Raising one candidate's match lets no new candidate into the tie band, and keeps
\* that candidate in it.
LEMMA RaisingNarrows ==
    ASSUME NEW C, NEW m, NEW r, NEW s \in C, Tie \in Nat,
           \A v \in C : m[v] \in Int /\ r[v] \in Int,
           r[s] >= m[s], \A v \in C \ {s} : r[v] = m[v],
           s \in Band(C, m)
    PROVE  s \in Band(C, r) /\ Band(C, r) \subseteq Band(C, m)
<1>1. s \in Band(C, r)
  BY DEF Band
<1>2. ASSUME NEW w \in Band(C, r) PROVE w \in Band(C, m)
  <2>1. CASE w = s
    BY <2>1
  <2>2. CASE w # s
    <3>1. w \in C /\ r[w] = m[w] /\ \A v \in C : r[v] - r[w] <= Tie
      BY <1>2, <2>2 DEF Band
    <3>2. \A v \in C : m[v] <= r[v] /\ m[v] \in Int /\ r[v] \in Int
      OBVIOUS
    <3>3. \A v \in C : m[v] - m[w] <= Tie
      BY <3>1, <3>2
    <3> QED
      BY <3>1, <3>3 DEF Band
  <2> QED
    BY <2>1, <2>2
<1> QED
  BY <1>1, <1>2

--------------------------------------------------------------------------------
(* The invariant is inductive *)

LEMMA RouterInit == Init => RouterInv
  BY RouterAssumption
  DEF Init, RouterInv, TypeOK, MatchIsBoosted, SelectedWins, NoTargets

LEMMA RouterStep == RouterInv /\ [Next]_routerVars => RouterInv'
<1> SUFFICES ASSUME RouterInv, [Next]_routerVars PROVE RouterInv'
  OBVIOUS
<1> USE RouterAssumption
<1>1. ASSUME NEW w \in Workflows, NEW b \in Boosts, TakeHint(w, b)
      PROVE  RouterInv'
  <2>1. AtMost(MaxBoost, boosts[w] + Positive(b)) \in 0..MaxBoost
    <3>1. boosts[w] \in 0..MaxBoost /\ b \in Int
      BY DEF RouterInv, TypeOK
    <3>2. boosts[w] + Positive(b) \in Nat
      BY <3>1, PositiveNat
    <3> QED
      BY <3>2, AtMostBounds
  <2>2. boosts' \in [Workflows -> 0..MaxBoost]
    BY <1>1, <2>1 DEF TakeHint, RouterInv, TypeOK
  <2>3. TypeOK'
    BY <1>1, <2>2 DEF TakeHint, RouterInv, TypeOK
  <2>4. (MatchIsBoosted /\ SelectedWins)'
    BY <1>1 DEF TakeHint, RouterInv, MatchIsBoosted, SelectedWins
  <2> QED
    BY <2>3, <2>4 DEF RouterInv
<1>2. ASSUME Match PROVE RouterInv'
  <2>1. base' \in [Workflows -> 0..One]
    BY <1>2 DEF Match
  <2>2. ASSUME NEW w \in Workflows
        PROVE  AtMost(One, base'[w] + boosts[w]) \in 0..One
    <3>1. base'[w] + boosts[w] \in Nat
      BY <2>1 DEF RouterInv, TypeOK
    <3> QED
      BY <3>1, AtMostBounds
  <2>3. match' \in [Workflows -> 0..One]
    BY <1>2, <2>1, <2>2 DEF Match, Boosted
  <2>4. TypeOK'
    BY <1>2, <2>1, <2>3 DEF Match, RouterInv, TypeOK
  <2>5. MatchIsBoosted'
    BY <1>2 DEF Match, Boosted, MatchIsBoosted
  <2>6. SelectedWins'
    BY <1>2 DEF Match, RouterInv, SelectedWins
  <2> QED
    BY <2>4, <2>5, <2>6 DEF RouterInv
<1>3. ASSUME Balance PROVE RouterInv'
  <2>1. target' \in [Workflows -> [resource : Nat, latency : Nat]]
    BY <1>3 DEF Balance, Targets
  <2>2. selected' \in Workflows \cup {None}
    BY <1>3 DEF Balance, Candidates, RouterInv, TypeOK
  <2>3. TypeOK'
    BY <1>3, <2>1, <2>2 DEF Balance, RouterInv, TypeOK
  <2>4. MatchIsBoosted'
    BY <1>3 DEF Balance, RouterInv, MatchIsBoosted
  <2>5. CASE Candidates = {} /\ selected' = None
    <3>1. SelectedWins'
      BY <1>3, <2>5 DEF Balance, Candidates, SelectedWins
    <3> QED
      BY <2>3, <2>4, <3>1 DEF RouterInv
  <2>6. CASE \E w \in Candidates : Wins(w, Candidates, match)' /\ selected' = w
    <3>1. PICK w \in Candidates : Wins(w, Candidates, match)' /\ selected' = w
      BY <2>6
    <3>2. SelectedWins'
      BY <1>3, <3>1 DEF Balance, Candidates, SelectedWins, Wins, Band, Before
    <3> QED
      BY <2>3, <2>4, <3>2 DEF RouterInv
  <2> QED
    BY <1>3, <2>5, <2>6 DEF Balance
<1>4. ASSUME Return PROVE RouterInv'
  BY <1>4
  DEF Return, RouterInv, TypeOK, MatchIsBoosted, SelectedWins, NoTargets
<1>5. ASSUME UNCHANGED routerVars PROVE RouterInv'
  BY <1>5
  DEF routerVars, RouterInv, TypeOK, MatchIsBoosted, SelectedWins, Wins, Band, Before
<1> QED
  BY <1>1, <1>2, <1>3, <1>4, <1>5 DEF Next

\* The invariant of select holds for any profiles, any hints and any scores.
THEOREM RouterInvariant == Spec => []RouterInv
  BY RouterInit, RouterStep, PTL DEF Spec

\* Types, for any number of hints: no boost above MaxBoost, no match above One
\* (_memory_boosts and the loop of select).
THEOREM TypeCorrect == Spec => []TypeOK
  BY RouterInvariant, PTL DEF RouterInv

--------------------------------------------------------------------------------
(* The properties *)

\* Neither hints nor the tie band ever select an excluded workflow, and nothing is
\* refused while one workflow is executable (ResourceBalancer.select).
THEOREM FiltersAreHard == Spec => []HardFiltersWin
<1>1. RouterInv => HardFiltersWin
  BY RouterAssumption DEF RouterInv, TypeOK, SelectedWins, HardFiltersWin
<1> QED
  BY <1>1, RouterInvariant, PTL

LEMMA SelectedIsClose ==
    ASSUME RouterInv, selected # None, NEW v \in executable
    PROVE  /\ selected \in executable /\ selected \in Workflows /\ v \in Workflows
           /\ match[v] - match[selected] <= Tie
  BY DEF RouterInv, TypeOK, SelectedWins, Wins, Band

\* Memory and load move the selection by at most one full boost and one tie band,
\* however many hints there are (_memory_boosts, ResourceBalancer.select).
THEOREM ReachIsBounded == Spec => []WithinReach
<1>1. RouterInv => WithinReach
  <2> SUFFICES ASSUME RouterInv, selected # None, NEW v \in executable
               PROVE  base[v] <= base[selected] + MaxBoost + Tie
    BY DEF WithinReach
  <2> USE RouterAssumption
  <2>1. /\ selected \in executable /\ selected \in Workflows /\ v \in Workflows
        /\ match[v] - match[selected] <= Tie
    BY SelectedIsClose
  <2>2. stage # "hints"
    BY DEF RouterInv, SelectedWins
  <2>3. /\ match[v] = AtMost(One, base[v] + boosts[v])
        /\ match[selected] = AtMost(One, base[selected] + boosts[selected])
    BY <2>1, <2>2 DEF RouterInv, MatchIsBoosted
  <2>4. /\ base[v] \in 0..One /\ base[selected] \in 0..One
        /\ boosts[v] \in 0..MaxBoost /\ boosts[selected] \in 0..MaxBoost
        /\ match[v] \in 0..One /\ match[selected] \in 0..One
    BY <2>1 DEF RouterInv, TypeOK
  <2>5. base[v] <= match[v]
    BY <2>3, <2>4 DEF AtMost
  <2>6. match[selected] <= base[selected] + boosts[selected]
    BY <2>3, <2>4 DEF AtMost
  <2> QED
    BY <2>1, <2>4, <2>5, <2>6
<1> QED
  BY <1>1, RouterInvariant, PTL

\* The balancer passes over nobody who is at least as good in every respect and
\* better in one (the sort of the tie band).
THEOREM NobodyBetterIsPassedOver == Spec => []Undominated
<1>1. RouterInv => Undominated
  <2> SUFFICES ASSUME RouterInv, selected # None, NEW v \in executable,
                      match[v] >= match[selected],
                      target[v].resource >= target[selected].resource,
                      target[v].latency <= target[selected].latency,
                      \/ target[v].resource > target[selected].resource
                      \/ target[v].latency < target[selected].latency
               PROVE  FALSE
    BY DEF Undominated
  <2> USE RouterAssumption
  <2>1. selected \in executable /\ selected \in Workflows /\ v \in Workflows
    BY SelectedIsClose
  <2>2. selected \in Band(executable, match)
    BY DEF RouterInv, SelectedWins, Wins
  <2>3. \A u \in executable : match[u] \in Int
    BY DEF RouterInv, TypeOK
  <2>4. v \in Band(executable, match)
    BY <2>1, <2>2, <2>3 DEF Band
  <2>5. /\ target[v].resource \in Nat /\ target[v].latency \in Nat
        /\ target[selected].resource \in Nat /\ target[selected].latency \in Nat
    BY <2>1 DEF RouterInv, TypeOK
  <2>6. v # selected
    BY <2>5
  <2>7. Before(selected, v)
    BY <2>4, <2>6 DEF RouterInv, SelectedWins, Wins
  <2> QED
    BY <2>5, <2>7 DEF Before
<1> QED
  BY <1>1, RouterInvariant, PTL

\* A further hint for the selected workflow leaves it selected, whatever the boost
\* (the tie band is cut at the best match, which only the winner can move).
THEOREM HintsOnlyHelp == Spec => []BoostHelps
<1>1. RouterInv => BoostHelps
  <2> SUFFICES ASSUME RouterInv, selected # None, NEW gain \in 0..One
               PROVE  Wins(selected, executable,
                           [match EXCEPT ![selected] = AtMost(One, @ + gain)])
    BY DEF BoostHelps
  <2> USE RouterAssumption
  <2> DEFINE raised == [match EXCEPT ![selected] = AtMost(One, @ + gain)]
  <2>1. selected \in executable /\ Wins(selected, executable, match)
    BY DEF RouterInv, SelectedWins
  <2>2. executable \subseteq Workflows /\ match \in [Workflows -> 0..One]
    BY DEF RouterInv, TypeOK
  <2>3. match[selected] \in 0..One
    BY <2>1, <2>2
  <2>4. AtMost(One, match[selected] + gain) \in 0..One
        /\ AtMost(One, match[selected] + gain) >= match[selected]
    BY <2>3 DEF AtMost
  <2>5. /\ raised[selected] = AtMost(One, match[selected] + gain)
        /\ \A v \in executable \ {selected} : raised[v] = match[v]
    BY <2>1, <2>2
  <2> HIDE DEF raised
  <2>6. \A v \in executable : match[v] \in Int /\ raised[v] \in Int
    <3>1. ASSUME NEW v \in executable PROVE match[v] \in Int
      <4>1. v \in Workflows
        BY <2>2
      <4>2. match[v] \in 0..One
        BY <2>2, <4>1
      <4> QED
        BY <4>2
    <3>2. raised[selected] \in Int
      BY <2>4, <2>5
    <3> QED
      BY <2>5, <3>1, <3>2
  <2>7. selected \in Band(executable, match)
    BY <2>1 DEF Wins
  <2>8. raised[selected] >= match[selected]
    BY <2>4, <2>5
  <2>9. /\ selected \in Band(executable, raised)
        /\ Band(executable, raised) \subseteq Band(executable, match)
    BY <2>1, <2>5, <2>6, <2>7, <2>8, RaisingNarrows
  <2>10. Wins(selected, executable, raised)
    BY <2>1, <2>9 DEF Wins
  <2> QED
    BY <2>10 DEF raised
<1> QED
  BY <1>1, RouterInvariant, PTL

================================================================================
