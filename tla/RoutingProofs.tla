----------------------------- MODULE RoutingProofs -----------------------------
(***************************************************************************)
(* Theorems about Routing, on the profiles of Catalog, for any requests,   *)
(* plans, hints and metrics.  The inductive invariant says what the stages *)
(* leave behind: the profile is the seed of the kind of the request with   *)
(* what a plan changed (ProfileFits), every score is the one of its        *)
(* formula (Scored), and the selected workflow is executable and in the    *)
(* tie band (SelectedFits).                                                *)
(*                                                                         *)
(* Leaves about numbers name SMT: it has arithmetic.                       *)
(***************************************************************************)
EXTENDS Routing, FiniteSetTheorems, TLAPS

--------------------------------------------------------------------------------
(* Quotients *)

LEMMA Quotient ==
    ASSUME NEW x \in Nat, NEW n \in Nat \ {0}
    PROVE  /\ x \div n \in Nat
           /\ n * (x \div n) <= x
           /\ x < n * (x \div n + 1)
  BY SMT

\* A weighted mean of numbers up to c is up to c.
LEMMA Mean ==
    ASSUME NEW c \in Nat, NEW n \in Nat \ {0}, NEW x \in Nat, x <= n * c
    PROVE  x \div n \in 0..c
<1> DEFINE q == x \div n
<1>1. q \in Nat /\ n * q <= x
  BY Quotient
<1> HIDE DEF q
<1>2. ASSUME q >= c + 1 PROVE FALSE
  <2>1. n * (c + 1) <= n * q
    BY <1>1, <1>2, SMT
  <2> QED
    BY <1>1, <2>1, SMT
<1> QED
  BY <1>1, <1>2, SMT DEF q

\* A share of less than a half.
LEMMA BelowHalf ==
    ASSUME NEW c \in Nat \ {0}, NEW a \in Nat, NEW n \in Nat \ {0}, 2 * a < n
    PROVE  (2 * c * a) \div n < c
<1> DEFINE q == (2 * c * a) \div n
<1>1. 2 * c * a \in Nat
  BY SMT
<1>2. q \in Nat /\ n * q <= 2 * c * a
  BY <1>1, Quotient
<1> HIDE DEF q
<1>3. ASSUME q >= c PROVE FALSE
  <2>1. n * c <= n * q
    BY <1>2, <1>3, SMT
  <2>2. c * (2 * a) < c * n
    BY SMT
  <2> QED
    BY <1>2, <2>1, <2>2, SMT
<1> QED
  BY <1>2, <1>3, SMT DEF q

--------------------------------------------------------------------------------
(* Small sets *)

LEMMA OneMore ==
    ASSUME NEW S, IsFiniteSet(S), NEW n \in Nat, Cardinality(S) = n, NEW x, x \notin S
    PROVE  IsFiniteSet(S \cup {x}) /\ Cardinality(S \cup {x}) = n + 1
  BY FS_AddElement

LEMMA One1 == ASSUME NEW a PROVE IsFiniteSet({a}) /\ Cardinality({a}) = 1
  BY FS_Singleton

LEMMA Two ==
    ASSUME NEW a, NEW b, a # b PROVE IsFiniteSet({a, b}) /\ Cardinality({a, b}) = 2
<1>1. {a, b} = {a} \cup {b}
  OBVIOUS
<1>2. IsFiniteSet({a}) /\ Cardinality({a}) = 1
  BY One1
<1>3. IsFiniteSet({a} \cup {b}) /\ Cardinality({a} \cup {b}) = 1 + 1
  BY <1>2, OneMore
<1> QED
  BY <1>1, <1>3

LEMMA Three ==
    ASSUME NEW a, NEW b, NEW c, a # b, c \notin {a, b}
    PROVE  IsFiniteSet({a, b, c}) /\ Cardinality({a, b, c}) = 3
<1>1. {a, b, c} = {a, b} \cup {c}
  OBVIOUS
<1>2. IsFiniteSet({a, b}) /\ Cardinality({a, b}) = 2
  BY Two
<1>3. IsFiniteSet({a, b} \cup {c}) /\ Cardinality({a, b} \cup {c}) = 2 + 1
  BY <1>2, OneMore
<1> QED
  BY <1>1, <1>3

LEMMA Four ==
    ASSUME NEW a, NEW b, NEW c, NEW d, a # b, c \notin {a, b}, d \notin {a, b, c}
    PROVE  IsFiniteSet({a, b, c, d}) /\ Cardinality({a, b, c, d}) = 4
<1>1. {a, b, c, d} = {a, b, c} \cup {d}
  OBVIOUS
<1>2. IsFiniteSet({a, b, c}) /\ Cardinality({a, b, c}) = 3
  BY Three
<1>3. IsFiniteSet({a, b, c} \cup {d}) /\ Cardinality({a, b, c} \cup {d}) = 3 + 1
  BY <1>2, OneMore
<1> QED
  BY <1>1, <1>3

LEMMA Five ==
    ASSUME NEW a, NEW b, NEW c, NEW d, NEW e,
           a # b, c \notin {a, b}, d \notin {a, b, c}, e \notin {a, b, c, d}
    PROVE  IsFiniteSet({a, b, c, d, e}) /\ Cardinality({a, b, c, d, e}) = 5
<1>1. {a, b, c, d, e} = {a, b, c, d} \cup {e}
  OBVIOUS
<1>2. IsFiniteSet({a, b, c, d}) /\ Cardinality({a, b, c, d}) = 4
  BY Four
<1>3. IsFiniteSet({a, b, c, d} \cup {e}) /\ Cardinality({a, b, c, d} \cup {e}) = 4 + 1
  BY <1>2, OneMore
<1> QED
  BY <1>1, <1>3

LEMMA Six ==
    ASSUME NEW a, NEW b, NEW c, NEW d, NEW e, NEW f, a # b, c \notin {a, b},
           d \notin {a, b, c}, e \notin {a, b, c, d}, f \notin {a, b, c, d, e}
    PROVE  IsFiniteSet({a, b, c, d, e, f}) /\ Cardinality({a, b, c, d, e, f}) = 6
<1>1. {a, b, c, d, e, f} = {a, b, c, d, e} \cup {f}
  OBVIOUS
<1>2. IsFiniteSet({a, b, c, d, e}) /\ Cardinality({a, b, c, d, e}) = 5
  BY Five
<1>3. IsFiniteSet({a, b, c, d, e} \cup {f}) /\ Cardinality({a, b, c, d, e} \cup {f}) = 5 + 1
  BY <1>2, OneMore
<1> QED
  BY <1>1, <1>3

--------------------------------------------------------------------------------
(* The units: elsewhere their values stay hidden *)

LEMMA Units ==
    /\ One \in Nat /\ MaxBoost \in Nat /\ Tie \in Nat /\ Whole \in Nat
    /\ MaxBoost <= One /\ Whole # 0
  BY SMT DEF One, MaxBoost, Tie, Whole

\* What the profiles state, in these units.
LEMMA Stated ==
    /\ 0 \in 0..One /\ 300000 \in 0..One /\ 400000 \in 0..One /\ 700000 \in 0..One
    /\ 720000 \in 0..One /\ 740000 \in 0..One /\ 780000 \in 0..One /\ 820000 \in 0..One
    /\ 860000 \in 0..One
    /\ 400 \in 0..Whole /\ 600 \in 0..Whole /\ 800 \in 0..Whole /\ 900 \in 0..Whole
    /\ 1000 \in 0..Whole /\ 2000 \in 0..Whole /\ 4000 \in 0..Whole /\ 7000 \in 0..Whole
<1> DEFINE Up(n, m) == n \in Nat /\ n <= m
<1>1. /\ Up(0, One) /\ Up(300000, One) /\ Up(400000, One) /\ Up(700000, One)
      /\ Up(720000, One) /\ Up(740000, One) /\ Up(780000, One) /\ Up(820000, One)
      /\ Up(860000, One)
  BY SMT DEF One
<1>2. /\ Up(400, Whole) /\ Up(600, Whole) /\ Up(800, Whole) /\ Up(900, Whole)
      /\ Up(1000, Whole) /\ Up(2000, Whole) /\ Up(4000, Whole) /\ Up(7000, Whole)
  BY SMT DEF Whole
<1> QED
  BY <1>1, <1>2, Units, SMT

--------------------------------------------------------------------------------
(* The matcher *)

LEMMA RatioBounds ==
    ASSUME NEW R, IsFiniteSet(R), NEW P
    PROVE  Ratio(R, P) \in 0..One
<1>1. One \in Nat
  BY SMT DEF One
<1>2. CASE R = {}
  BY <1>1, <1>2, SMT DEF Ratio
<1>3. CASE R # {}
  <2> DEFINE a == Cardinality(R \cap P)
             n == Cardinality(R)
  <2>1. a \in Nat /\ n \in Nat /\ n # 0 /\ a <= n
    BY <1>3, FS_CardinalityType, FS_EmptySet, FS_Subset
  <2>2. Ratio(R, P) = (One * a) \div n
    BY <1>3, Zenon DEF Ratio
  <2> HIDE DEF a, n
  <2>3. One * a \in Nat /\ One * a <= n * One
    BY <1>1, <2>1, SMT
  <2> QED
    BY <1>1, <2>1, <2>2, <2>3, Mean
<1> QED
  BY <1>2, <1>3

\* Who has no more than the few of the many required capabilities is not capable enough.
LEMMA TooFew ==
    ASSUME NEW R, IsFiniteSet(R), NEW P, NEW few, NEW many,
           R \cap P \subseteq few, IsFiniteSet(few), many \subseteq R,
           2 * Cardinality(few) < Cardinality(many)
    PROVE  ~(Ratio(R, P) >= One \div 2)
<1>1. One \div 2 \in Nat \ {0} /\ One = 2 * (One \div 2)
  BY SMT DEF One
<1> DEFINE a == Cardinality(R \cap P)
           m == Cardinality(R)
           half == One \div 2
           k == Cardinality(few)
           n == Cardinality(many)
<1>2. a \in Nat /\ k \in Nat /\ a <= k
  BY FS_Subset, FS_CardinalityType
<1>3. m \in Nat /\ n \in Nat /\ n <= m
  BY FS_Subset, FS_CardinalityType
<1>b. 2 * k < n
  OBVIOUS
<1>4. R # {}
  <2>1. m # 0
    BY <1>2, <1>3, <1>b
  <2> QED
    BY <2>1, FS_EmptySet
<1>5. Ratio(R, P) = (One * a) \div m
  BY <1>4, Zenon DEF Ratio
<1> HIDE DEF a, m, half, k, n
<1>6. m \in Nat \ {0} /\ 2 * a < m
  BY <1>2, <1>3, <1>b
<1>7. One = 2 * half /\ half \in Nat \ {0}
  BY <1>1 DEF half
<1>8. Ratio(R, P) < half
  BY <1>2, <1>5, <1>6, <1>7, BelowHalf
<1>9. Ratio(R, P) \in Nat
  <2>1. Ratio(R, P) \in 0..One /\ One \in Nat
    BY <1>7, RatioBounds
  <2> QED
    BY <2>1
<1> QED
  BY <1>7, <1>8, <1>9 DEF half

\* The seeds of TaskProfileBuilder.
LEMMA Seeds ==
    ASSUME NEW k \in Kinds
    PROVE  LET seed == ProfileSeed(k)
           IN  /\ seed = Profiled(seed.task, seed.capabilities, seed.tools, seed.evidence,
                                  seed.risk, seed.scope)
               /\ seed.task \in TaskTypes /\ seed.tools \subseteq Tools
               /\ seed.evidence \in BOOLEAN
               /\ IsFiniteSet(seed.capabilities)
               /\ IsFiniteSet(seed.capabilities \cup DeepCapabilities)
<1> DEFINE seed == ProfileSeed(k)
<1>1. seed.capabilities \in
         {{"rag", "citation", "evidence_check"},
          {"rag", "citation", "evidence_check"} \cup DeepCapabilities,
          {"code_generation", "test_planning", "permission_check"},
          {"media_generation", "prompt_safety", "asset_metadata", "image_generation"},
          {"media_generation", "prompt_safety", "asset_metadata", "video_generation"},
          {"document_writing", "a2a_knowledge_request", "a2a_media_request", "citation",
           "permission_check"}}
  BY DEF Kinds, ProfileSeed, MediaSeed, Profiled
<1>2. seed = Profiled(seed.task, seed.capabilities, seed.tools, seed.evidence, seed.risk,
                      seed.scope)
  BY DEF Kinds, ProfileSeed, MediaSeed, Profiled
<1>3. /\ seed.task \in TaskTypes /\ seed.tools \subseteq Tools /\ seed.evidence \in BOOLEAN
  BY DEF Kinds, ProfileSeed, MediaSeed, Profiled, TaskTypes, Tools, Scope, KnowledgeTools
<1>4. IsFiniteSet(DeepCapabilities)
  BY Three DEF DeepCapabilities
<1>5. IsFiniteSet(seed.capabilities)
  <2>1. /\ IsFiniteSet({"rag", "citation", "evidence_check"})
        /\ IsFiniteSet({"code_generation", "test_planning", "permission_check"})
    BY Three
  <2>2. /\ IsFiniteSet({"media_generation", "prompt_safety", "asset_metadata",
                        "image_generation"})
        /\ IsFiniteSet({"media_generation", "prompt_safety", "asset_metadata",
                        "video_generation"})
    BY Four
  <2>3. IsFiniteSet({"document_writing", "a2a_knowledge_request", "a2a_media_request",
                     "citation", "permission_check"})
    BY Five
  <2>4. IsFiniteSet({"rag", "citation", "evidence_check"} \cup DeepCapabilities)
    BY <1>4, <2>1, FS_Union
  <2> HIDE DEF seed
  <2> QED
    BY <1>1, <2>1, <2>2, <2>3, <2>4
<1> QED
  BY <1>2, <1>3, <1>4, <1>5, FS_Union

LEMMA CapabilitiesOf ==
    /\ Capabilities[KnowledgeQA] = {"rag", "citation", "evidence_check", "permission_check"}
    /\ Capabilities[LargeKnowledgeQA] =
          {"rag", "citation", "evidence_check", "permission_check"} \cup DeepCapabilities
    /\ Capabilities[Coding] = {"code_generation", "test_planning", "permission_check"}
    /\ Capabilities[Media] = {"media_generation", "image_generation", "video_generation",
                              "prompt_safety", "asset_metadata", "permission_check"}
    /\ Capabilities[Document] = {"document_writing", "a2a_knowledge_request",
                                 "a2a_media_request", "citation", "structure_inspection",
                                 "permission_check"}
  BY DEF Capabilities, KnowledgeCapabilities, Workflows, KnowledgeQA, LargeKnowledgeQA, Coding,
     Media, Document

LEMMA DocumentCount ==
    Cardinality({"document_writing", "a2a_knowledge_request", "a2a_media_request",
                 "citation", "permission_check"}) = 5
  BY Five, Zenon

\* Who serves another type of task has less than half of the capabilities asked for, the
\* large workflow, which every plan of depth asks for, apart.
LEMMA OthersAreIncapable ==
    ASSUME NEW k \in Kinds, NEW w \in Workflows \ {LargeKnowledgeQA},
           SupportedTask[w] # ProfileSeed(k).task,
           NEW R, R \in {ProfileSeed(k).capabilities,
                         ProfileSeed(k).capabilities \cup DeepCapabilities}
    PROVE  ~(Ratio(R, Capabilities[w]) >= One \div 2)
<1>1. IsFiniteSet(R)
  BY Seeds
<1>2. w \in {KnowledgeQA, Coding, Media, Document} /\ w \in Workflows
  BY DEF Workflows
<1>3. ASSUME NEW few, NEW many, R \cap Capabilities[w] \subseteq few, many \subseteq R,
             IsFiniteSet(few), 2 * Cardinality(few) < Cardinality(many)
      PROVE  ~(Ratio(R, Capabilities[w]) >= One \div 2)
  BY <1>1, <1>3, TooFew
<1>4. CASE k \in {"knowledge", "deep"}
  <2>1. {"rag", "citation", "evidence_check"} \subseteq R
    BY <1>4 DEF ProfileSeed, Profiled
  <2>2. R \subseteq {"rag", "citation", "evidence_check"} \cup DeepCapabilities
    BY <1>4 DEF ProfileSeed, Profiled
  <2>3. w \in {Coding, Media, Document}
    BY <1>2, <1>4 DEF ProfileSeed, Profiled, SupportedTask, KnowledgeQA, LargeKnowledgeQA,
       Coding, Media, Document
  <2>4. R \cap Capabilities[w] \subseteq {"citation"}
    BY <1>2, <2>2, <2>3 DEF Capabilities, DeepCapabilities, KnowledgeQA, LargeKnowledgeQA,
       Coding, Media, Document
  <2> DEFINE few == {"citation"}
             many == {"rag", "citation", "evidence_check"}
  <2>5. Cardinality(many) = 3 /\ IsFiniteSet(few) /\ Cardinality(few) = 1
    BY Three, One1
  <2> HIDE DEF few, many
  <2>6. 2 * Cardinality(few) < Cardinality(many)
    BY <2>5
  <2>7. R \cap Capabilities[w] \subseteq few /\ many \subseteq R
    BY <2>1, <2>4 DEF few, many
  <2> QED
    BY <1>3, <2>5, <2>6, <2>7
<1>5. CASE k = "coding"
  <2>1. {"code_generation", "test_planning", "permission_check"} \subseteq R
    BY <1>5 DEF ProfileSeed, Profiled
  <2>2. R \subseteq {"code_generation", "test_planning", "permission_check"}
                        \cup DeepCapabilities
    BY <1>5 DEF ProfileSeed, Profiled
  <2>3. w \in {KnowledgeQA, Media, Document}
    BY <1>2, <1>5 DEF ProfileSeed, Profiled, SupportedTask, KnowledgeQA, LargeKnowledgeQA,
       Coding, Media, Document
  <2>4. R \cap Capabilities[w] \subseteq {"permission_check"}
    BY <1>2, <2>2, <2>3 DEF Capabilities, KnowledgeCapabilities, DeepCapabilities,
       KnowledgeQA, LargeKnowledgeQA, Coding, Media, Document
  <2> DEFINE few == {"permission_check"}
             many == {"code_generation", "test_planning", "permission_check"}
  <2>5. Cardinality(many) = 3 /\ IsFiniteSet(few) /\ Cardinality(few) = 1
    BY Three, One1
  <2> HIDE DEF few, many
  <2>6. 2 * Cardinality(few) < Cardinality(many)
    BY <2>5
  <2>7. R \cap Capabilities[w] \subseteq few /\ many \subseteq R
    BY <2>1, <2>4 DEF few, many
  <2> QED
    BY <1>3, <2>5, <2>6, <2>7
<1>6. CASE k \in {"image", "video"}
  <2>1. {"media_generation", "prompt_safety", "asset_metadata"} \subseteq R
    BY <1>6 DEF ProfileSeed, MediaSeed, Profiled
  <2>2. R \subseteq {"media_generation", "prompt_safety", "asset_metadata",
                     "image_generation", "video_generation"} \cup DeepCapabilities
    BY <1>6 DEF ProfileSeed, MediaSeed, Profiled
  <2>3. w \in {KnowledgeQA, Coding, Document}
    BY <1>2, <1>6 DEF ProfileSeed, MediaSeed, Profiled, SupportedTask, KnowledgeQA,
       LargeKnowledgeQA, Coding, Media, Document
  <2>4. R \cap Capabilities[w] \subseteq {"permission_check"}
    BY <1>2, <2>2, <2>3 DEF Capabilities, KnowledgeCapabilities, DeepCapabilities,
       KnowledgeQA, LargeKnowledgeQA, Coding, Media, Document
  <2> DEFINE few == {"permission_check"}
             many == {"media_generation", "prompt_safety", "asset_metadata"}
  <2>5. Cardinality(many) = 3 /\ IsFiniteSet(few) /\ Cardinality(few) = 1
    BY Three, One1
  <2> HIDE DEF few, many
  <2>6. 2 * Cardinality(few) < Cardinality(many)
    BY <2>5
  <2>7. R \cap Capabilities[w] \subseteq few /\ many \subseteq R
    BY <2>1, <2>4 DEF few, many
  <2> QED
    BY <1>3, <2>5, <2>6, <2>7
<1>7. CASE k = "document"
  <2> DEFINE all == {"document_writing", "a2a_knowledge_request", "a2a_media_request",
                     "citation", "permission_check"}
  <2>1. all \subseteq R
    BY <1>7 DEF ProfileSeed, Profiled
  <2>2. R \subseteq all \cup DeepCapabilities
    BY <1>7 DEF ProfileSeed, Profiled
  <2>3. w \in {KnowledgeQA, Coding, Media}
    BY <1>2, <1>7 DEF ProfileSeed, Profiled, SupportedTask, KnowledgeQA, LargeKnowledgeQA,
       Coding, Media, Document
  <2>4. R \cap Capabilities[w] \subseteq {"citation", "permission_check"}
    <3>1. CASE w = KnowledgeQA
      BY <2>2, <3>1, CapabilitiesOf DEF DeepCapabilities
    <3>2. CASE w \in {Coding, Media}
      BY <2>2, <3>2, CapabilitiesOf DEF DeepCapabilities
    <3> QED
      BY <2>3, <3>1, <3>2
  <2> DEFINE few == {"citation", "permission_check"}
  <2>a. Cardinality(all) = 5
    BY DocumentCount
  <2>b. IsFiniteSet(few) /\ Cardinality(few) = 2
    BY Two
  <2>5. Cardinality(all) = 5 /\ IsFiniteSet(few) /\ Cardinality(few) = 2
    BY <2>a, <2>b
  <2> HIDE DEF few, all
  <2>6. 2 * Cardinality(few) < Cardinality(all)
    BY <2>5
  <2>7. R \cap Capabilities[w] \subseteq few
    BY <2>4 DEF few
  <2> QED
    BY <1>3, <2>1, <2>5, <2>6, <2>7
<1> QED
  BY <1>4, <1>5, <1>6, <1>7 DEF Kinds

LEMMA MetricsOf ==
    /\ SeedMetrics[KnowledgeQA] = Seeded(1400, 820000, 780000, 400, "low")
    /\ SeedMetrics[LargeKnowledgeQA] = Seeded(3200, 780000, 860000, 600, "high")
    /\ SeedMetrics[Coding] = Seeded(1600, 720000, 0, 800, "normal")
    /\ SeedMetrics[Media] = Seeded(2600, 740000, 0, 1000, "high")
    /\ SeedMetrics[Document] = Seeded(1800, 700000, 300000, 900, "normal")
  BY SMT DEF SeedMetrics, Workflows, KnowledgeQA, LargeKnowledgeQA, Coding, Media, Document

\* What the profiles say of themselves.
LEMMA Profiles ==
    ASSUME NEW w \in Workflows
    PROVE  /\ SeedMetrics[w].success \in 0..One /\ SeedMetrics[w].citation \in 0..One
           /\ SeedMetrics[w].latency \in Nat /\ SeedMetrics[w].error \in 0..Whole
           /\ SeedMetrics[w].cost \in {"low", "normal", "high"}
<1>1. ASSUME NEW l \in Nat, NEW u \in 0..One, NEW v \in 0..One, NEW e \in 0..Whole,
             NEW x \in {"low", "normal", "high"}, SeedMetrics[w] = Seeded(l, u, v, e, x)
      PROVE  /\ SeedMetrics[w].success \in 0..One /\ SeedMetrics[w].citation \in 0..One
             /\ SeedMetrics[w].latency \in Nat /\ SeedMetrics[w].error \in 0..Whole
             /\ SeedMetrics[w].cost \in {"low", "normal", "high"}
  BY <1>1, SMT DEF Seeded
<1>2. CASE w = KnowledgeQA
  BY <1>1, <1>2, MetricsOf, Stated, SMT
<1>3. CASE w = LargeKnowledgeQA
  BY <1>1, <1>3, MetricsOf, Stated, SMT
<1>4. CASE w = Coding
  BY <1>1, <1>4, MetricsOf, Stated, SMT
<1>5. CASE w = Media
  BY <1>1, <1>5, MetricsOf, Stated, SMT
<1>6. CASE w = Document
  BY <1>1, <1>6, MetricsOf, Stated, SMT
<1> QED
  BY <1>2, <1>3, <1>4, <1>5, <1>6, SMT DEF Workflows

LEMMA ToolsAreFinite == IsFiniteSet(Tools)
<1>1. Tools = {"doc_search_tool", "evidence_check_tool", "image_generation_tool",
               "video_generation_tool", "inspection_tool"}
  BY DEF Tools, Scope
<1>2. IsFiniteSet({"doc_search_tool", "evidence_check_tool", "image_generation_tool",
                   "video_generation_tool", "inspection_tool"})
  BY Five
<1> QED
  BY <1>1, <1>2

\* The weights of a score add up to one.
LEMMA ScoreBounds ==
    ASSUME IsFiniteSet(profile.capabilities), IsFiniteSet(profile.tools),
           NEW w \in Workflows
    PROVE  MatchScore(w) \in 0..One
<1> DEFINE a == Ratio(profile.capabilities, Capabilities[w])
           b == Ratio(profile.tools, AllowedTools[w])
           c == Hundred(PermissionMatch(w))
           d == Hundred(WorkflowMatch(w))
           e == Hundred(ToolMatch)
           f == SeedMetrics[w].success
           g == IF profile.evidence THEN SeedMetrics[w].citation ELSE One
           h == RiskFit(w)
           sum == 30 * a + 15 * b + 15 * c + 10 * d + 10 * e + 10 * f + 5 * g + 5 * h
<1>1. One \in Nat /\ One \in 0..One /\ 0 \in 0..One /\ 400000 \in 0..One
  BY Units, Stated, SMT
<1>2. a \in 0..One /\ b \in 0..One
  BY RatioBounds
<1>3. c \in 0..One /\ d \in 0..One /\ e \in 0..One
  BY <1>1, SMT DEF Hundred
<1>4. f \in 0..One /\ g \in 0..One
  <2>1. f \in 0..One /\ SeedMetrics[w].citation \in 0..One
    BY Profiles
  <2> QED
    BY <1>1, <2>1, SMT
<1>5. h \in 0..One
  <2>1. h = One \/ h = 400000 \/ h = 0
    BY SMT DEF RiskFit
  <2> QED
    BY <1>1, <2>1, SMT
<1>6. MatchScore(w) = sum \div 100
  BY Zenon DEF MatchScore
<1> HIDE DEF a, b, c, d, e, f, g, h
<1>7. sum \in Nat /\ sum <= 100 * One
  BY <1>1, <1>2, <1>3, <1>4, <1>5, SMT
<1> HIDE DEF sum
<1> QED
  BY <1>1, <1>6, <1>7, Mean

LEMMA RequestFacts ==
    ASSUME request \in Requests
    PROVE  /\ request.kind \in Kinds /\ request.evidence \in BOOLEAN \cup {None}
           /\ request.slo \in Nat \ {0} /\ request.budget \in {"low", "normal", "high"}
  BY RequestAssumption

\* The weights of a target add up to one, too.
LEMMA TargetBounds ==
    ASSUME request \in Requests, NEW w \in Workflows, NEW s \in Snapshots
    PROVE  /\ Target(w, s) = [resource |-> Target(w, s).resource,
                              latency |-> Target(w, s).latency]
           /\ Target(w, s).resource \in 0..Whole /\ Target(w, s).latency \in Nat
<1> DEFINE latency == IF s.recent = None \/ s.recent.latency = 0
                     THEN SeedMetrics[w].latency ELSE s.recent.latency
           error == IF s.recent = None THEN SeedMetrics[w].error ELSE s.recent.error
           late == (Whole * latency) \div request.slo
           a == IF late > Whole THEN 0 ELSE Whole - late
           b == Whole \div (1 + s.ongoing)
           c == CostScore(w)
           sum == 45 * a + 25 * (Whole - error) + 20 * b + 10 * c
<1>1. latency \in Nat /\ error \in 0..Whole /\ s.ongoing \in Nat
  <2>1. s \in [ongoing : Nat, recent : [latency : Nat, error : 0..Whole] \cup {None}]
    BY RoutingAssumption
  <2>2. /\ s.ongoing \in Nat
        /\ s.recent # None => s.recent.latency \in Nat /\ s.recent.error \in 0..Whole
    BY <2>1
  <2> QED
    BY <2>2, Profiles
<1>2. request.slo \in Nat \ {0} /\ request.budget \in {"low", "normal", "high"}
  BY RequestFacts
<1>3. c \in 0..Whole
  <2>1. SeedMetrics[w].cost \in {"low", "normal", "high"}
    BY Profiles
  <2>2. CASE SeedMetrics[w].cost = "low"
    <3>1. c = Whole
      BY <2>2 DEF CostScore
    <3> QED
      BY <3>1, Units, SMT
  <2>3. CASE SeedMetrics[w].cost = "normal"
    <3>1. c = 7000
      BY <2>3 DEF CostScore
    <3> QED
      BY <3>1, Stated, SMT
  <2>4. CASE SeedMetrics[w].cost = "high"
    <3>1. c = IF request.budget = "low" THEN 2000 ELSE 4000
      BY <2>4 DEF CostScore
    <3> QED
      BY <3>1, Stated, SMT
  <2> QED
    BY <2>1, <2>2, <2>3, <2>4
<1>4. Target(w, s) = [resource |-> sum \div 100, latency |-> latency]
  BY Zenon DEF Target
<1> HIDE DEF latency, error, c
<1>5. late \in Nat
  BY <1>1, <1>2, Units, Quotient, SMT
<1> HIDE DEF late
<1>6. a \in 0..Whole
  BY <1>5, Units, SMT
<1>7. b \in 0..Whole
  <2> DEFINE n == 1 + s.ongoing
  <2>1. n \in Nat \ {0} /\ Whole \in Nat
    BY <1>1, Units, SMT
  <2> HIDE DEF n
  <2>2. Whole <= n * Whole
    BY <2>1, SMT
  <2>3. Whole \div n \in 0..Whole
    BY <2>1, <2>2, Mean
  <2> QED
    BY <2>3 DEF n
<1> HIDE DEF a, b
<1>8. sum \in Nat /\ sum <= 100 * Whole
  BY <1>1, <1>3, <1>6, <1>7, Units, SMT
<1> HIDE DEF sum
<1>9. sum \div 100 \in 0..Whole
  BY <1>8, Mean, Units, SMT
<1> QED
  BY <1>1, <1>4, <1>9

--------------------------------------------------------------------------------
(* The inductive invariant *)

\* The profile of a request is the seed of its kind, with what a plan changed.
ProfileFits ==
    stage # "new" =>
        LET seed == ProfileSeed(request.kind)
        IN  \E capabilities \in {seed.capabilities, seed.capabilities \cup DeepCapabilities},
               evidence \in BOOLEAN :
                profile = Profiled(IF plan = None THEN seed.task ELSE plan.type, capabilities,
                                   seed.tools, evidence, seed.risk, seed.scope)

\* What the early stages leave alone.
StageFits ==
    /\ hints \in 0..(MaxRules + 1)
    /\ stage \in {"new", "profiled"} => hints = 0 /\ plan = None
    /\ stage \notin {"matched", "routed"} => executable = {}
    /\ stage # "routed" => selected = None

\* The scores are those of the formulas.
Scored ==
    stage \in {"matched", "routed"} =>
        /\ executable = {w \in Workflows : Executable(w)}
        /\ base = [w \in Workflows |-> MatchScore(w)]
        /\ match = [w \in Workflows |->
                       IF w \in executable /\ base[w] + boosts[w] > One THEN One
                       ELSE base[w] + (IF w \in executable THEN boosts[w] ELSE 0)]

\* The selected workflow is in the tie band.
SelectedFits ==
    stage = "routed" =>
        \/ executable = {} /\ selected = None
        \/ selected \in executable /\ InBand(selected)

RoutingInv == TypeOK /\ ProfileFits /\ StageFits /\ Scored /\ SelectedFits

LEMMA RoutingInit == Init => RoutingInv
<1> SUFFICES ASSUME Init PROVE RoutingInv
  OBVIOUS
<1>1. 0 \in 0..MaxBoost /\ 0 \in 0..One /\ 0 \in 0..Whole /\ 0 \in 0..(MaxRules + 1)
  BY Units, RoutingAssumption, SMT
<1>2. TypeOK
  BY <1>1 DEF Init, TypeOK, NoTarget
<1> QED
  BY <1>1, <1>2 DEF Init, RoutingInv, ProfileFits, StageFits, Scored, SelectedFits

\* The profile of a request, once it has one.
LEMMA ProfileFacts ==
    ASSUME TypeOK, ProfileFits, stage # "new"
    PROVE  LET seed == ProfileSeed(request.kind)
           IN  /\ request.kind \in Kinds
               /\ profile = Profiled(profile.task, profile.capabilities, profile.tools,
                                     profile.evidence, profile.risk, profile.scope)
               /\ profile.task = (IF plan = None THEN seed.task ELSE plan.type)
               /\ profile.capabilities \in {seed.capabilities,
                                            seed.capabilities \cup DeepCapabilities}
               /\ profile.tools = seed.tools /\ profile.evidence \in BOOLEAN
               /\ profile.risk = seed.risk /\ profile.scope = seed.scope
               /\ IsFiniteSet(profile.capabilities) /\ IsFiniteSet(profile.tools)
<1> DEFINE seed == ProfileSeed(request.kind)
<1>1. request.kind \in Kinds
  BY RequestFacts DEF TypeOK
<1>2. PICK capabilities \in {seed.capabilities, seed.capabilities \cup DeepCapabilities},
           evidence \in BOOLEAN :
          profile = Profiled(IF plan = None THEN seed.task ELSE plan.type, capabilities,
                             seed.tools, evidence, seed.risk, seed.scope)
  BY DEF ProfileFits
<1>3. /\ profile.task = (IF plan = None THEN seed.task ELSE plan.type)
      /\ profile.capabilities = capabilities /\ profile.tools = seed.tools
      /\ profile.evidence = evidence
      /\ profile.risk = seed.risk /\ profile.scope = seed.scope
  BY <1>2 DEF Profiled
<1>4. /\ IsFiniteSet(seed.capabilities) /\ IsFiniteSet(seed.capabilities \cup DeepCapabilities)
      /\ seed.tools \subseteq Tools
  BY <1>1, Seeds
<1>5. IsFiniteSet(seed.tools)
  BY <1>4, ToolsAreFinite, FS_Subset
<1> HIDE DEF seed
<1> QED
  BY <1>1, <1>2, <1>3, <1>4, <1>5 DEF seed, Profiled

\* Scores and filters look at nothing else.
LEMMA SameScores ==
    ASSUME UNCHANGED <<request, profile, granted>>, NEW w
    PROVE  MatchScore(w)' = MatchScore(w) /\ Executable(w)' = Executable(w)
<1>1. /\ Ratio(profile.capabilities, Capabilities[w])'
             = Ratio(profile.capabilities, Capabilities[w])
      /\ Ratio(profile.tools, AllowedTools[w])' = Ratio(profile.tools, AllowedTools[w])
  BY DEF Ratio
<1>2. PermissionMatch(w)' = PermissionMatch(w)
  BY DEF PermissionMatch, Holds
<1>3. WorkflowMatch(w)' = WorkflowMatch(w) /\ ToolMatch' = ToolMatch
  BY DEF WorkflowMatch, ToolMatch
<1>4. RiskFit(w)' = RiskFit(w)
  BY DEF RiskFit
<1>5. MatchScore(w)' = MatchScore(w)
  <2>1. /\ Hundred(PermissionMatch(w))' = Hundred(PermissionMatch(w))
        /\ Hundred(WorkflowMatch(w))' = Hundred(WorkflowMatch(w))
        /\ Hundred(ToolMatch)' = Hundred(ToolMatch)
    BY <1>2, <1>3 DEF Hundred
  <2>2. (IF profile.evidence THEN SeedMetrics[w].citation ELSE One)'
          = (IF profile.evidence THEN SeedMetrics[w].citation ELSE One)
    OBVIOUS
  <2> QED
    BY <1>1, <1>4, <2>1, <2>2 DEF MatchScore
<1>6. Executable(w)' = Executable(w)
  BY <1>1, <1>2, <1>3, Zenon DEF Executable, CapableEnough
<1> QED
  BY <1>5, <1>6

LEMMA BuildProfileStep == RoutingInv /\ BuildProfile => RoutingInv'
<1> SUFFICES ASSUME RoutingInv, BuildProfile PROVE RoutingInv'
  OBVIOUS
<1> DEFINE seed == ProfileSeed(request.kind)
           asked == IF request.evidence = None THEN seed.evidence ELSE request.evidence
<1>1. request.kind \in Kinds /\ request.evidence \in BOOLEAN \cup {None}
  BY RequestFacts DEF RoutingInv, TypeOK
<1>2. /\ seed = Profiled(seed.task, seed.capabilities, seed.tools, seed.evidence, seed.risk,
                         seed.scope)
      /\ seed.task \in TaskTypes /\ seed.tools \subseteq Tools /\ seed.evidence \in BOOLEAN
  BY <1>1, Seeds
<1>3. asked \in BOOLEAN
  BY <1>1, <1>2
<1>4. profile' = [seed EXCEPT !.evidence = asked]
  BY DEF BuildProfile
<1>5. /\ request' = request /\ plan' = None /\ stage' = "profiled" /\ hints' = hints /\ hints = 0
      /\ UNCHANGED <<boosts, base, executable, match, target, selected>>
      /\ executable = {} /\ selected = None
  BY DEF BuildProfile, RoutingInv, StageFits
<1> HIDE DEF seed, asked
<1>6. profile' = Profiled(seed.task, seed.capabilities, seed.tools, asked, seed.risk, seed.scope)
  BY <1>2, <1>4 DEF Profiled
<1>7. ProfileFits'
  BY <1>3, <1>5, <1>6 DEF ProfileFits, seed
<1>8. profile'.task = seed.task /\ profile'.tools = seed.tools
  BY <1>6 DEF Profiled
<1>9. TypeOK'
  BY <1>2, <1>5, <1>8 DEF RoutingInv, TypeOK
<1>10. StageFits' /\ Scored' /\ SelectedFits'
  BY <1>5 DEF RoutingInv, StageFits, Scored, SelectedFits
<1> QED
  BY <1>7, <1>9, <1>10 DEF RoutingInv

LEMMA BypassStep == RoutingInv /\ (Bypass \/ PlanFails) => RoutingInv'
<1> SUFFICES ASSUME RoutingInv, Bypass \/ PlanFails PROVE RoutingInv'
  OBVIOUS
<1>1. /\ stage = "profiled" /\ stage' \in {"hints", "refused"}
      /\ UNCHANGED <<request, profile, plan, hints, boosts, base, executable, match, target,
                     selected>>
  BY DEF Bypass, PlanFails, requestVars
<1>2. TypeOK'
  BY <1>1 DEF RoutingInv, TypeOK
<1>3. ProfileFits'
  BY <1>1 DEF RoutingInv, ProfileFits
<1>4. StageFits' /\ Scored' /\ SelectedFits'
  BY <1>1 DEF RoutingInv, StageFits, Scored, SelectedFits
<1> QED
  BY <1>2, <1>3, <1>4 DEF RoutingInv

\* A hint keeps the boosts within their cap.
LEMMA HintBounds ==
    ASSUME NEW w \in Workflows, NEW b \in 1..MaxBoost, Hint(w, b),
           boosts \in [Workflows -> 0..MaxBoost]
    PROVE  boosts' \in [Workflows -> 0..MaxBoost] /\ hints' = hints + 1
<1>1. boosts[w] \in 0..MaxBoost /\ MaxBoost \in Nat
  BY Units
<1> DEFINE new == IF boosts[w] + b > MaxBoost THEN MaxBoost ELSE boosts[w] + b
<1>2. new \in 0..MaxBoost
  BY <1>1, SMT
<1>3. boosts' = [boosts EXCEPT ![w] = new] /\ hints' = hints + 1
  BY DEF Hint
<1> HIDE DEF new
<1> QED
  BY <1>2, <1>3

\* The workflow that a plan hints at.
LEMMA PlannedFacts == ASSUME NEW p \in Plans PROVE Planned(p) \in p.steps /\ p.steps \subseteq Workflows
<1>1. p.steps \subseteq Workflows /\ p.steps # {}
  BY RoutingAssumption DEF Plans
<1> QED
  BY <1>1 DEF Planned

LEMMA PlanStep == RoutingInv /\ (\E p \in Plans : Plan(p)) => RoutingInv'
<1> SUFFICES ASSUME RoutingInv, NEW p \in Plans, Plan(p) PROVE RoutingInv'
  OBVIOUS
<1> DEFINE seed == ProfileSeed(request.kind)
<1>1. /\ stage = "profiled" /\ stage' = "hints" /\ plan' = p /\ plan = None /\ hints = 0
      /\ UNCHANGED <<request, granted, base, executable, match, target, selected>>
      /\ profile' = Applied(p) /\ Hint(Planned(p), MaxBoost)
  BY DEF Plan, RoutingInv, StageFits
<1>2. /\ request.kind \in Kinds
      /\ profile = Profiled(profile.task, profile.capabilities, profile.tools,
                            profile.evidence, profile.risk, profile.scope)
      /\ profile.capabilities \in {seed.capabilities, seed.capabilities \cup DeepCapabilities}
      /\ profile.tools = seed.tools /\ profile.evidence \in BOOLEAN
      /\ profile.risk = seed.risk /\ profile.scope = seed.scope
  BY <1>1, ProfileFacts DEF RoutingInv
<1>3. p.type \in TaskTypes /\ p.evidence \in BOOLEAN /\ p # None
  BY PlanAssumption DEF Plans
<1> DEFINE capabilities == profile.capabilities
                             \cup (IF LargeKnowledgeQA \in p.steps THEN DeepCapabilities ELSE {})
           evidence == profile.evidence \/ p.evidence
<1>4. profile' = Profiled(p.type, capabilities, profile.tools, evidence, profile.risk,
                          profile.scope)
  BY <1>1, <1>2 DEF Applied, Profiled
<1>5. capabilities \in {seed.capabilities, seed.capabilities \cup DeepCapabilities}
  BY <1>2
<1>6. evidence \in BOOLEAN
  BY <1>2, <1>3
<1> HIDE DEF seed, capabilities, evidence
<1>7. ProfileFits'
  BY <1>1, <1>2, <1>3, <1>4, <1>5, <1>6 DEF ProfileFits, seed
<1>8. profile'.task = p.type /\ profile'.tools = seed.tools /\ seed.tools \subseteq Tools
  BY <1>2, <1>4, Seeds DEF Profiled, seed
<1>9. boosts' \in [Workflows -> 0..MaxBoost] /\ hints' = hints + 1
  <2>1. MaxBoost \in 1..MaxBoost
    BY SMT DEF MaxBoost
  <2>2. Planned(p) \in Workflows
    BY PlannedFacts
  <2> QED
    BY <1>1, <2>1, <2>2, HintBounds DEF RoutingInv, TypeOK
<1>10. TypeOK'
  BY <1>1, <1>3, <1>8, <1>9 DEF RoutingInv, TypeOK
<1>11. hints' \in 0..(MaxRules + 1)
  BY <1>1, <1>9, RoutingAssumption, SMT
<1>12. StageFits' /\ Scored' /\ SelectedFits'
  BY <1>1, <1>11 DEF RoutingInv, StageFits, Scored, SelectedFits
<1> QED
  BY <1>7, <1>10, <1>12 DEF RoutingInv

LEMMA MemoryHintStep ==
    RoutingInv /\ (\E w \in Workflows, b \in MemoryBoosts : MemoryHint(w, b)) => RoutingInv'
<1> SUFFICES ASSUME RoutingInv, NEW w \in Workflows, NEW b \in MemoryBoosts, MemoryHint(w, b)
             PROVE  RoutingInv'
  OBVIOUS
<1>1. /\ stage = "hints" /\ Hint(w, b)
      /\ hints < MaxRules + (IF plan = None THEN 0 ELSE 1)
      /\ UNCHANGED <<request, profile, granted, plan, stage, base, executable, match, target,
                     selected>>
  BY DEF MemoryHint, requestVars
<1>2. boosts' \in [Workflows -> 0..MaxBoost] /\ hints' = hints + 1
  <2>1. b \in 1..MaxBoost
    BY RoutingAssumption
  <2> QED
    BY <1>1, <2>1, HintBounds DEF RoutingInv, TypeOK
<1>3. hints' \in 0..(MaxRules + 1)
  BY <1>1, <1>2, RoutingAssumption DEF RoutingInv, StageFits
<1>4. TypeOK'
  BY <1>1, <1>2 DEF RoutingInv, TypeOK
<1>5. ProfileFits'
  BY <1>1 DEF RoutingInv, ProfileFits
<1>6. StageFits' /\ Scored' /\ SelectedFits'
  BY <1>1, <1>3 DEF RoutingInv, StageFits, Scored, SelectedFits
<1> QED
  BY <1>4, <1>5, <1>6 DEF RoutingInv

LEMMA MatchStep == RoutingInv /\ Match => RoutingInv'
<1> SUFFICES ASSUME RoutingInv, Match PROVE RoutingInv'
  OBVIOUS
<1>1. /\ stage = "hints" /\ stage' = "matched"
      /\ UNCHANGED <<request, profile, granted, plan, hints, boosts, target, selected>>
      /\ base' = [w \in Workflows |-> MatchScore(w)]
      /\ executable' = {w \in Workflows : Executable(w)}
      /\ match' = [w \in Workflows |->
                      IF w \in executable' /\ base'[w] + boosts[w] > One THEN One
                      ELSE base'[w] + (IF w \in executable' THEN boosts[w] ELSE 0)]
  BY DEF Match, requestVars
<1>2. selected = None
  BY <1>1 DEF RoutingInv, StageFits
<1>3. Scored'
  <2>1. base' = [w \in Workflows |-> MatchScore(w)']
    BY <1>1, SameScores
  <2>2. executable' = {w \in Workflows : Executable(w)'}
    BY <1>1, SameScores
  <2> QED
    BY <1>1, <2>1, <2>2 DEF Scored
<1>4. ASSUME NEW w \in Workflows PROVE base'[w] \in 0..One /\ match'[w] \in 0..One
  <2>1. base'[w] \in 0..One
    BY <1>1, ProfileFacts, ScoreBounds DEF RoutingInv
  <2>2. boosts[w] \in 0..MaxBoost /\ MaxBoost \in Nat /\ One \in Nat
    BY Units DEF RoutingInv, TypeOK
  <2>3. \/ match'[w] = One
        \/ match'[w] = base'[w] + boosts[w] /\ ~(base'[w] + boosts[w] > One)
        \/ match'[w] = base'[w] + 0
    BY <1>1
  <2> QED
    BY <2>1, <2>2, <2>3, SMT
<1>5. TypeOK'
  BY <1>1, <1>2, <1>4 DEF RoutingInv, TypeOK
<1>6. ProfileFits'
  BY <1>1 DEF RoutingInv, ProfileFits
<1>7. StageFits' /\ SelectedFits'
  BY <1>1, <1>2 DEF RoutingInv, StageFits, SelectedFits
<1> QED
  BY <1>3, <1>5, <1>6, <1>7 DEF RoutingInv

LEMMA BalanceStep == RoutingInv /\ Balance => RoutingInv'
<1> SUFFICES ASSUME RoutingInv, Balance PROVE RoutingInv'
  OBVIOUS
<1>1. PICK metrics \in [executable -> Snapshots] :
         LET t == [w \in Workflows |->
                       IF w \in executable THEN Target(w, metrics[w]) ELSE NoTarget]
         IN  /\ target' = t
             /\ \/ executable = {} /\ selected' = None
                \/ \E w \in executable : InBand(w) /\ First(w, t) /\ selected' = w
  BY DEF Balance
<1>2. /\ stage = "matched" /\ stage' = "routed"
      /\ UNCHANGED <<request, profile, granted, plan, hints, boosts, base, executable, match>>
  BY DEF Balance, requestVars
<1>3. ASSUME NEW w \in Workflows
      PROVE  target'[w].resource \in 0..Whole /\ target'[w].latency \in Nat
  <2>1. CASE w \in executable
    <3>1. target'[w] = Target(w, metrics[w]) /\ metrics[w] \in Snapshots
      BY <1>1, <2>1
    <3>2. request \in Requests
      BY DEF RoutingInv, TypeOK
    <3> QED
      BY <3>1, <3>2, TargetBounds
  <2>2. CASE w \notin executable
    <3>1. target'[w] = NoTarget
      BY <1>1, <2>2
    <3>2. 0 \in 0..Whole /\ 0 \in Nat
      BY Units, SMT
    <3> QED
      BY <3>1, <3>2 DEF NoTarget
  <2> QED
    BY <2>1, <2>2
<1>4. SelectedFits'
  BY <1>1, <1>2 DEF SelectedFits, InBand
<1>5. selected' \in executable' \cup {None}
  BY <1>1, <1>2
<1>6. TypeOK'
  BY <1>2, <1>3, <1>5 DEF RoutingInv, TypeOK
<1>7. ProfileFits'
  BY <1>2 DEF RoutingInv, ProfileFits
<1>8. StageFits'
  BY <1>2 DEF RoutingInv, StageFits
<1>9. Scored'
  <2>1. base' = [w \in Workflows |-> MatchScore(w)']
    BY <1>2, SameScores DEF RoutingInv, Scored
  <2>2. executable' = {w \in Workflows : Executable(w)'}
    BY <1>2, SameScores DEF RoutingInv, Scored
  <2> QED
    BY <1>2, <2>1, <2>2 DEF RoutingInv, Scored
<1> QED
  BY <1>4, <1>6, <1>7, <1>8, <1>9 DEF RoutingInv

LEMMA RoutingStutters == RoutingInv /\ UNCHANGED vars => RoutingInv'
<1> SUFFICES ASSUME RoutingInv, UNCHANGED vars PROVE RoutingInv'
  OBVIOUS
<1>1. UNCHANGED <<request, profile, granted, plan, stage, hints, boosts, base, executable, match,
                  target, selected>>
  BY DEF vars, requestVars, routerVars
<1>2. TypeOK'
  BY <1>1 DEF RoutingInv, TypeOK
<1>3. ProfileFits' /\ StageFits'
  BY <1>1 DEF RoutingInv, ProfileFits, StageFits
<1>4. Scored'
  <2>1. [w \in Workflows |-> MatchScore(w)] = [w \in Workflows |-> MatchScore(w)']
    BY <1>1, SameScores
  <2>2. {w \in Workflows : Executable(w)} = {w \in Workflows : Executable(w)'}
    BY <1>1, SameScores
  <2> QED
    BY <1>1, <2>1, <2>2 DEF RoutingInv, Scored
<1>5. SelectedFits'
  BY <1>1 DEF RoutingInv, SelectedFits, InBand
<1> QED
  BY <1>2, <1>3, <1>4, <1>5 DEF RoutingInv

\* The inductive invariant holds of every request.
THEOREM RoutingInvariant == Spec => []RoutingInv
<1>1. RoutingInv /\ [Next]_vars => RoutingInv'
  BY BuildProfileStep, BypassStep, PlanStep, MemoryHintStep, MatchStep, BalanceStep,
     RoutingStutters DEF Next
<1> QED
  BY <1>1, RoutingInit, PTL DEF Spec

\* Every variable has its type: scores stay within one and boosts within their cap,
\* whatever is asked, planned, remembered and measured.
THEOREM TypeCorrect == Spec => []TypeOK
  BY RoutingInvariant, PTL DEF RoutingInv

--------------------------------------------------------------------------------
(* What is routed *)

\* Whatever is selected passed every filter and is in the tie band.
LEMMA RoutedFits ==
    ASSUME RoutingInv, selected # None
    PROVE  /\ stage = "routed" /\ selected \in executable /\ selected \in Workflows
           /\ Executable(selected) /\ InBand(selected)
<1>1. stage = "routed"
  BY DEF RoutingInv, StageFits
<1>2. selected \in executable /\ InBand(selected)
  BY <1>1 DEF RoutingInv, SelectedFits
<1> QED
  BY <1>1, <1>2 DEF RoutingInv, Scored

\* Something is selected when something is executable.
LEMMA RoutedWhenExecutable ==
    ASSUME RoutingInv, stage = "routed", NEW w \in Workflows, Executable(w)
    PROVE  selected # None /\ w \in executable
<1>1. w \in executable
  BY DEF RoutingInv, Scored
<1>2. selected \in executable
  BY <1>1 DEF RoutingInv, SelectedFits
<1>3. selected \in Workflows
  BY <1>2 DEF RoutingInv, TypeOK
<1> QED
  BY <1>1, <1>3, RoutingAssumption

\* What the profiles allow and require.
LEMMA AccessOf ==
    /\ SupportedTask[KnowledgeQA] = "knowledge_qa"
    /\ SupportedTask[LargeKnowledgeQA] = "knowledge_qa"
    /\ SupportedTask[Media] = "media_generation"
    /\ SupportedTask[Document] = "document_writing"
    /\ AllowedTools[KnowledgeQA] = KnowledgeTools
    /\ AllowedTools[LargeKnowledgeQA] = KnowledgeTools
    /\ AllowedTools[Coding] = {}
    /\ AllowedTools[Document] = {"inspection_tool"}
    /\ RequiredScope[KnowledgeQA] = KnowledgeScope
    /\ RequiredScope[LargeKnowledgeQA] = KnowledgeScope
    /\ RequiredScope[Document] = WritingScope
<1> USE DEF Workflows, KnowledgeQA, LargeKnowledgeQA, Coding, Media, Document
<1>1. /\ SupportedTask[KnowledgeQA] = "knowledge_qa"
      /\ SupportedTask[LargeKnowledgeQA] = "knowledge_qa"
      /\ SupportedTask[Media] = "media_generation"
      /\ SupportedTask[Document] = "document_writing"
  BY DEF SupportedTask
<1>2. /\ AllowedTools[KnowledgeQA] = KnowledgeTools
      /\ AllowedTools[LargeKnowledgeQA] = KnowledgeTools
      /\ AllowedTools[Coding] = {}
      /\ AllowedTools[Document] = {"inspection_tool"}
  BY DEF AllowedTools
<1>3. /\ RequiredScope[KnowledgeQA] = KnowledgeScope
      /\ RequiredScope[LargeKnowledgeQA] = KnowledgeScope
      /\ RequiredScope[Document] = WritingScope
  BY DEF RequiredScope
<1> QED
  BY <1>1, <1>2, <1>3

\* The tools that a workflow of the inferred task type calls are those of the profile,
\* and the permissions asked for cover them.
LEMMA ToolsOfTheTask ==
    ASSUME NEW k \in Kinds, NEW w \in Workflows, SupportedTask[w] = ProfileSeed(k).task,
           NEW t \in AllowedTools[w], w = Media => t \in ProfileSeed(k).tools
    PROVE  /\ t \in ProfileSeed(k).tools
           /\ Scope[t] \in ProfileSeed(k).scope \cup RequiredScope[w]
<1>1. CASE w \in {KnowledgeQA, LargeKnowledgeQA}
  <2>1. SupportedTask[w] = "knowledge_qa" /\ AllowedTools[w] = KnowledgeTools
        /\ RequiredScope[w] = KnowledgeScope
    BY <1>1, AccessOf
  <2>2. k \in {"knowledge", "deep"}
    BY <2>1 DEF Kinds, ProfileSeed, MediaSeed, Profiled
  <2>3. ProfileSeed(k).tools = KnowledgeTools
    BY <2>2 DEF ProfileSeed, Profiled
  <2>4. Scope[t] \in KnowledgeScope
    BY <2>1 DEF KnowledgeTools, KnowledgeScope, Scope
  <2> QED
    BY <2>1, <2>3, <2>4
<1>2. CASE w = Coding
  <2>1. AllowedTools[w] = {}
    BY <1>2, AccessOf
  <2> QED
    BY <2>1
<1>3. CASE w = Media
  <2>1. SupportedTask[w] = "media_generation"
    BY <1>3, AccessOf
  <2>2. k \in {"image", "video"}
    BY <2>1 DEF Kinds, ProfileSeed, MediaSeed, Profiled
  <2> QED
    BY <1>3, <2>2 DEF ProfileSeed, MediaSeed, Profiled
<1>4. CASE w = Document
  <2>1. /\ SupportedTask[w] = "document_writing" /\ AllowedTools[w] = {"inspection_tool"}
        /\ RequiredScope[w] = WritingScope
    BY <1>4, AccessOf
  <2>2. k = "document"
    BY <2>1 DEF Kinds, ProfileSeed, MediaSeed, Profiled
  <2> QED
    BY <2>1, <2>2 DEF ProfileSeed, Profiled, WritingScope, Scope
<1> QED
  BY <1>1, <1>2, <1>3, <1>4 DEF Workflows

\* What the media workflow calls is what its profile asked for, unless they read the request
\* differently.
LEMMA ReadAlike ==
    ASSUME request \in Requests, ~Misread, NEW w \in Workflows, NEW t \in Calls(w),
           SupportedTask[w] = ProfileSeed(request.kind).task
    PROVE  t \in AllowedTools[w] /\ (w = Media => t \in ProfileSeed(request.kind).tools)
<1>1. CASE w # Media
  BY <1>1 DEF Calls
<1>2. CASE w = Media
  <2>1. SupportedTask[w] = "media_generation"
    BY <1>2, AccessOf
  <2>2. request.kind \in Kinds /\ request.media \in {"image", "video"}
    BY RequestAssumption
  <2>3. request.kind \in {"image", "video"}
    BY <2>1, <2>2 DEF Kinds, ProfileSeed, MediaSeed, Profiled
  <2>4. request.media = request.kind
    BY <2>2, <2>3, RequestAssumption DEF Misread
  <2>5. t = (IF request.kind = "video" THEN "video_generation_tool"
             ELSE "image_generation_tool")
    BY <1>2, <2>4 DEF Calls
  <2>6. AllowedTools[w] = {"image_generation_tool", "video_generation_tool"}
    BY <1>2 DEF AllowedTools, Workflows, KnowledgeQA, LargeKnowledgeQA, Coding, Media, Document
  <2>7. ProfileSeed(request.kind).tools = {t}
    BY <2>3, <2>5 DEF ProfileSeed, MediaSeed, Profiled
  <2> QED
    BY <2>5, <2>6, <2>7
<1> QED
  BY <1>1, <1>2

\* The filters of the router (_exclusion_reason) let nothing through that the tool service
\* (is_allowed) then refuses, for any API key, plan and measured load, unless the plan
\* changed the task type, or profile and workflow disagree on image and video.
THEOREM RoutedIsServed == Spec => []RoutedCanUseItsTools
<1>1. RoutingInv => RoutedCanUseItsTools
  <2> SUFFICES ASSUME RoutingInv, selected # None, ~Retyped, ~Misread,
                      NEW t \in Calls(selected)
               PROVE  MayCall(t)
    BY DEF RoutedCanUseItsTools
  <2> DEFINE seed == ProfileSeed(request.kind)
  <2>1. /\ stage = "routed" /\ selected \in Workflows /\ Executable(selected)
    BY RoutedFits
  <2>2. /\ request.kind \in Kinds /\ profile.tools = seed.tools /\ profile.scope = seed.scope
        /\ profile.task = (IF plan = None THEN seed.task ELSE plan.type)
    BY <2>1, ProfileFacts DEF RoutingInv
  <2>3. SupportedTask[selected] = seed.task
    BY <2>1, <2>2 DEF Executable, Retyped, Inferred
  <2>4. t \in profile.tools /\ Scope[t] \in profile.scope \cup RequiredScope[selected]
    <3>1. request \in Requests
      BY DEF RoutingInv, TypeOK
    <3>2. t \in AllowedTools[selected] /\ (selected = Media => t \in seed.tools)
      BY <2>1, <2>3, <3>1, ReadAlike
    <3> QED
      BY <2>1, <2>2, <2>3, <3>2, ToolsOfTheTask
  <2>5. Holds(profile.scope \cup RequiredScope[selected])
    BY <2>1 DEF Executable, PermissionMatch
  <2>6. Holds({Scope[t]})
    BY <2>4, <2>5 DEF Holds
  <2>7. Wildcard \in request.tools \/ t \in request.tools
    BY <2>1, <2>4 DEF Executable, ToolMatch
  <2> QED
    BY <2>6, <2>7 DEF MayCall
<1> QED
  BY <1>1, RoutingInvariant, PTL

\* A plan that changes the task type (_apply_plan_to_task_profile) brings no workflow
\* but the large one through the filter on capability_match, for any plan.
THEOREM RetypedGoesLarge == Spec => []RetypedOnlyToLarge
<1>1. RoutingInv => RetypedOnlyToLarge
  <2> SUFFICES ASSUME RoutingInv, selected # None, Retyped, selected # LargeKnowledgeQA
               PROVE  FALSE
    BY DEF RetypedOnlyToLarge
  <2> DEFINE seed == ProfileSeed(request.kind)
  <2>1. /\ stage = "routed" /\ selected \in Workflows /\ Executable(selected)
    BY RoutedFits
  <2>2. /\ request.kind \in Kinds
        /\ profile.task = (IF plan = None THEN seed.task ELSE plan.type)
        /\ profile.capabilities \in {seed.capabilities, seed.capabilities \cup DeepCapabilities}
    BY <2>1, ProfileFacts DEF RoutingInv
  <2>3. SupportedTask[selected] # seed.task
    BY <2>1, <2>2 DEF Executable, Retyped, Inferred
  <2>4. ~(Ratio(profile.capabilities, Capabilities[selected]) >= One \div 2)
    BY <2>1, <2>2, <2>3, OthersAreIncapable
  <2> QED
    BY <2>1, <2>4 DEF Executable, CapableEnough
<1> QED
  BY <1>1, RoutingInvariant, PTL

--------------------------------------------------------------------------------
(* Questions that ask for depth *)

\* Who has every required capability matches fully.
LEMMA FullRatio ==
    ASSUME NEW R, IsFiniteSet(R), NEW P, R \subseteq P
    PROVE  Ratio(R, P) = One
<1>1. CASE R = {}
  BY <1>1 DEF Ratio
<1>2. CASE R # {}
  <2> DEFINE n == Cardinality(R)
  <2>1. R \cap P = R
    OBVIOUS
  <2>2. n \in Nat /\ n # 0
    BY <1>2, FS_CardinalityType, FS_EmptySet
  <2>3. Ratio(R, P) = (One * n) \div n
    BY <1>2, <2>1, Zenon DEF Ratio
  <2> HIDE DEF n
  <2>4. ASSUME NEW c \in Nat PROVE (c * n) \div n = c
    <3> DEFINE q == (c * n) \div n
    <3>1. c * n \in Nat
      BY <2>2, SMT
    <3>2. q \in Nat /\ n * q <= c * n /\ c * n < n * (q + 1)
      BY <2>2, <3>1, Quotient
    <3> HIDE DEF q
    <3>3. ~(q > c)
      <4>1. ASSUME q >= c + 1 PROVE n * (c + 1) <= n * q
        BY <2>2, <3>2, <4>1, SMT
      <4> QED
        BY <2>2, <3>2, <4>1, SMT
    <3>4. ~(q < c)
      <4>1. ASSUME q + 1 <= c PROVE n * (q + 1) <= n * c
        BY <2>2, <3>2, <4>1, SMT
      <4> QED
        BY <2>2, <3>2, <4>1, SMT
    <3>5. q = c
      BY <3>2, <3>3, <3>4, SMT
    <3> QED
      BY <3>5 DEF q
  <2> QED
    BY <2>3, <2>4, Units
<1> QED
  BY <1>1, <1>2

LEMMA SixDeep ==
    LET six == {"rag", "citation", "evidence_check", "deep_rag", "multi_hop_retrieval",
                "evidence_synthesis"}
    IN  IsFiniteSet(six) /\ Cardinality(six) = 6
<1>1. /\ "rag" # "citation" /\ "evidence_check" \notin {"rag", "citation"}
      /\ "deep_rag" \notin {"rag", "citation", "evidence_check"}
  OBVIOUS
<1>2. "multi_hop_retrieval" \notin {"rag", "citation", "evidence_check", "deep_rag"}
  OBVIOUS
<1>3. "evidence_synthesis" \notin {"rag", "citation", "evidence_check", "deep_rag",
                                   "multi_hop_retrieval"}
  OBVIOUS
<1> QED
  BY <1>1, <1>2, <1>3, Six, Zenon

\* The ordinary knowledge workflow has half of what a deep question asks for, the large
\* one has all of it.
LEMMA DeepRatios ==
    ASSUME NEW R, R = {"rag", "citation", "evidence_check"} \cup DeepCapabilities
    PROVE  /\ Ratio(R, Capabilities[LargeKnowledgeQA]) = One
           /\ Ratio(R, Capabilities[KnowledgeQA]) = One \div 2
<1> DEFINE three == {"rag", "citation", "evidence_check"}
           six == {"rag", "citation", "evidence_check", "deep_rag", "multi_hop_retrieval",
                   "evidence_synthesis"}
<1>1. R = six
  <2>1. R \subseteq six
    BY DEF DeepCapabilities
  <2>2. six \subseteq R
    BY DEF DeepCapabilities
  <2> QED
    BY <2>1, <2>2
<1>2. IsFiniteSet(six) /\ Cardinality(six) = 6
  BY SixDeep
<1>3. IsFiniteSet(three) /\ Cardinality(three) = 3
  BY Three
<1>4. R \cap Capabilities[KnowledgeQA] = three
  BY <1>1, CapabilitiesOf
<1>5. R \subseteq Capabilities[LargeKnowledgeQA]
  BY <1>1, CapabilitiesOf DEF DeepCapabilities
<1>6. R # {}
  BY <1>1
<1>7. Ratio(R, Capabilities[KnowledgeQA]) = (One * Cardinality(three)) \div Cardinality(six)
  BY <1>1, <1>4, <1>6, Zenon DEF Ratio
<1> HIDE DEF three, six
<1>8. Ratio(R, Capabilities[KnowledgeQA]) = (One * 3) \div 6
  BY <1>2, <1>3, <1>7
<1>9. (One * 3) \div 6 = One \div 2
  BY SMT DEF One
<1> QED
  BY <1>1, <1>2, <1>5, <1>8, <1>9, FullRatio

\* The profile of a deep question that no plan retyped, and who may serve it.
LEMMA DeepProfile ==
    ASSUME RoutingInv, stage = "routed", request.kind = "deep", ~Retyped
    PROVE  /\ profile.task = "knowledge_qa" /\ profile.risk = "medium"
           /\ profile.evidence \in BOOLEAN
           /\ profile.capabilities = {"rag", "citation", "evidence_check"} \cup DeepCapabilities
           /\ IsFiniteSet(profile.capabilities) /\ IsFiniteSet(profile.tools)
           /\ \A w \in Workflows :
                 Executable(w) => w \in {KnowledgeQA, LargeKnowledgeQA} /\ w \notin request.outage
<1> DEFINE seed == ProfileSeed(request.kind)
<1>1. /\ profile.task = (IF plan = None THEN seed.task ELSE plan.type)
      /\ profile.capabilities \in {seed.capabilities, seed.capabilities \cup DeepCapabilities}
      /\ profile.risk = seed.risk /\ profile.evidence \in BOOLEAN
      /\ IsFiniteSet(profile.capabilities) /\ IsFiniteSet(profile.tools)
  BY ProfileFacts DEF RoutingInv
<1>2. /\ seed.task = "knowledge_qa" /\ seed.risk = "medium"
      /\ seed.capabilities = {"rag", "citation", "evidence_check"} \cup DeepCapabilities
  BY DEF ProfileSeed, Profiled
<1> HIDE DEF seed
<1>3. profile.task = "knowledge_qa"
  BY <1>1, <1>2 DEF Retyped, Inferred, seed
<1>4. ASSUME NEW w \in Workflows, Executable(w)
      PROVE  w \in {KnowledgeQA, LargeKnowledgeQA} /\ w \notin request.outage
  <2>1. SupportedTask[w] = "knowledge_qa" /\ w \notin request.outage
    BY <1>3, <1>4 DEF Executable
  <2> QED
    BY <2>1 DEF SupportedTask, Workflows, KnowledgeQA, LargeKnowledgeQA, Coding, Media, Document
<1> QED
  BY <1>1, <1>2, <1>3, <1>4

\* Of the filters, the access rules are the only ones that may exclude a knowledge
\* workflow from a deep question.
LEMMA DeepExecutable ==
    ASSUME RoutingInv, stage = "routed", request.kind = "deep", ~Retyped,
           NEW w \in {KnowledgeQA, LargeKnowledgeQA}, Granted(w)
    PROVE  Executable(w)
<1>1. w \in Workflows /\ SupportedTask[w] = "knowledge_qa"
  BY AccessOf DEF Workflows
<1>2. {"evidence_check", "citation"} \subseteq Capabilities[w]
  BY CapabilitiesOf
<1>3. CapableEnough(w)
  <2>1. One \div 2 >= One \div 2 /\ One >= One \div 2
    BY SMT DEF One
  <2> QED
    BY <2>1, DeepProfile, DeepRatios DEF CapableEnough
<1> QED
  BY <1>1, <1>2, <1>3, DeepProfile DEF Executable, Granted

\* A deep question is answered by the ordinary workflow when the large one is down:
\* the filter on capability_match keeps who has exactly half.
THEOREM DeepIsAnswered == Spec => []DeepStillAnswered
<1>1. RoutingInv => DeepStillAnswered
  <2> SUFFICES ASSUME RoutingInv, stage = "routed", request.kind = "deep", ~Retyped,
                      LargeKnowledgeQA \in request.outage, Granted(KnowledgeQA)
               PROVE  selected = KnowledgeQA
    BY DEF DeepStillAnswered
  <2>1. KnowledgeQA \in Workflows
    BY DEF Workflows
  <2>2. Executable(KnowledgeQA)
    BY DeepExecutable
  <2>3. selected # None
    BY <2>1, <2>2, RoutedWhenExecutable
  <2>4. selected \in Workflows /\ Executable(selected)
    BY <2>3, RoutedFits
  <2> QED
    BY <2>4, DeepProfile
<1> QED
  BY <1>1, RoutingInvariant, PTL

\* Scores a hundred apart before they are divided stay one apart after it.
LEMMA Apart ==
    ASSUME NEW x \in Nat, NEW y \in Nat, NEW k \in Nat, x >= y + 100 * k
    PROVE  x \div 100 >= y \div 100 + k
  BY SMT

\* The deep capabilities outweigh the tie band and what the ordinary workflow is better
\* at.
LEMMA DeepMargin ==
    ASSUME RoutingInv, stage = "routed", request.kind = "deep", ~Retyped,
           Granted(LargeKnowledgeQA)
    PROVE  MatchScore(LargeKnowledgeQA) - MatchScore(KnowledgeQA) > Tie
<1> DEFINE R == profile.capabilities
           b == Ratio(profile.tools, KnowledgeTools)
           cL == Hundred(PermissionMatch(LargeKnowledgeQA))
           cK == Hundred(PermissionMatch(KnowledgeQA))
           dL == Hundred(WorkflowMatch(LargeKnowledgeQA))
           dK == Hundred(WorkflowMatch(KnowledgeQA))
           e == Hundred(ToolMatch)
           fL == SeedMetrics[LargeKnowledgeQA].success
           fK == SeedMetrics[KnowledgeQA].success
           gL == IF profile.evidence THEN SeedMetrics[LargeKnowledgeQA].citation ELSE One
           gK == IF profile.evidence THEN SeedMetrics[KnowledgeQA].citation ELSE One
           sumL == 30 * One + 15 * b + 15 * cL + 10 * dL + 10 * e + 10 * fL + 5 * gL + 5 * One
           sumK == 30 * (One \div 2) + 15 * b + 15 * cK + 10 * dK + 10 * e + 10 * fK + 5 * gK
                     + 5 * One
<1>1. /\ Ratio(R, Capabilities[LargeKnowledgeQA]) = One
      /\ Ratio(R, Capabilities[KnowledgeQA]) = One \div 2
      /\ profile.risk = "medium" /\ IsFiniteSet(profile.tools)
  BY DeepProfile, DeepRatios
<1>2. /\ AllowedTools[LargeKnowledgeQA] = KnowledgeTools
      /\ AllowedTools[KnowledgeQA] = KnowledgeTools
      /\ RequiredScope[LargeKnowledgeQA] = RequiredScope[KnowledgeQA]
  BY AccessOf
<1>3. RiskFit(LargeKnowledgeQA) = One /\ RiskFit(KnowledgeQA) = One
  BY <1>1 DEF RiskFit
<1>4. MatchScore(LargeKnowledgeQA) = sumL \div 100 /\ MatchScore(KnowledgeQA) = sumK \div 100
  BY <1>1, <1>2, <1>3 DEF MatchScore
<1>5. fL = 780000 /\ fK = 820000
  BY MetricsOf, SMT DEF Seeded
<1>6. cL = cK /\ cK \in 0..One /\ dL = One /\ dK \in 0..One /\ e \in 0..One
  BY <1>2, Units, SMT DEF PermissionMatch, Hundred, Granted
<1>7. b \in 0..One
  BY <1>1, RatioBounds
<1>8. gL \in 0..One /\ gK \in 0..One /\ gL >= gK
  <2>1. /\ SeedMetrics[LargeKnowledgeQA].citation = 860000
        /\ SeedMetrics[KnowledgeQA].citation = 780000
    BY MetricsOf, SMT DEF Seeded
  <2> QED
    BY <2>1, Units, Stated, SMT
<1>9. /\ sumL \in Nat /\ sumK \in Nat /\ sumL >= sumK + 100 * (Tie + 1)
      /\ Tie + 1 \in Nat
  <2>1. /\ b \in Nat /\ cK \in Nat /\ dK \in Nat /\ dK <= One /\ e \in Nat
        /\ gL \in Nat /\ gK \in Nat /\ gL >= gK /\ cL = cK /\ dL = One
    BY <1>6, <1>7, <1>8, Units, SMT
  <2> QED
    BY <1>5, <2>1, SMT DEF One, Tie
<1> HIDE DEF sumL, sumK
<1>10. sumL \div 100 >= sumK \div 100 + (Tie + 1)
  BY <1>9, Apart
<1>11. sumL \div 100 \in Int /\ sumK \div 100 \in Int /\ Tie \in Nat
  BY <1>9, Units, SMT
<1> QED
  BY <1>4, <1>10, <1>11, SMT

\* A deep question goes to the large workflow, for any load and any hint that does not
\* speak for the ordinary one.
THEOREM DeepIsLarge == Spec => []DeepGoesLarge
<1>1. RoutingInv => DeepGoesLarge
  <2> SUFFICES ASSUME RoutingInv, stage = "routed", request.kind = "deep", ~Retyped,
                      Granted(LargeKnowledgeQA), boosts[KnowledgeQA] = 0,
                      selected # LargeKnowledgeQA
               PROVE  FALSE
    BY DEF DeepGoesLarge
  <2> DEFINE L == LargeKnowledgeQA
             K == KnowledgeQA
  <2>1. L \in Workflows /\ K \in Workflows
    BY DEF Workflows
  <2>2. selected # None /\ L \in executable
    BY <2>1, DeepExecutable, RoutedWhenExecutable
  <2>3. selected \in executable /\ InBand(selected) /\ Executable(selected)
        /\ selected \in Workflows
    BY <2>2, RoutedFits
  <2>4. selected = K
    BY <2>3, DeepProfile
  <2>5. match[L] - match[K] <= Tie
    BY <2>2, <2>3, <2>4 DEF InBand
  <2>6. base[L] = MatchScore(L) /\ base[K] = MatchScore(K)
    BY <2>1 DEF RoutingInv, Scored
  <2>7. /\ base[L] \in 0..One /\ base[K] \in 0..One /\ boosts[L] \in 0..MaxBoost
        /\ One \in Nat /\ MaxBoost \in Nat /\ Tie \in Nat
    BY <2>1, Units DEF RoutingInv, TypeOK
  <2>8. match[L] = IF base[L] + boosts[L] > One THEN One ELSE base[L] + boosts[L]
    BY <2>1, <2>2 DEF RoutingInv, Scored
  <2>9. match[K] = IF base[K] + boosts[K] > One THEN One ELSE base[K] + boosts[K]
    BY <2>1, <2>3, <2>4 DEF RoutingInv, Scored
  <2>10. base[L] - base[K] > Tie
    BY <2>6, DeepMargin
  <2> HIDE DEF L, K
  <2>11. boosts[K] = 0
    BY DEF K
  <2> QED
    BY <2>5, <2>7, <2>8, <2>9, <2>10, <2>11, SMT
<1> QED
  BY <1>1, RoutingInvariant, PTL

--------------------------------------------------------------------------------
(* Routing implements Router *)

LEMMA RoutingInitRefines == Init => Router!Init
  BY DEF Init, Router!Init, Router!NoTargets, NoTarget

\* Before the hints, nothing that Router sees changes.
LEMMA EarlyStutters ==
    BuildProfile \/ Bypass \/ PlanFails => UNCHANGED Router!routerVars
<1> SUFFICES ASSUME BuildProfile \/ Bypass \/ PlanFails PROVE UNCHANGED Router!routerVars
  OBVIOUS
<1>1. /\ stage \in {"new", "profiled"} /\ stage' \in {"profiled", "hints", "refused"}
      /\ UNCHANGED <<hints, boosts, base, executable, match, target, selected>>
  BY DEF BuildProfile, Bypass, PlanFails
<1> QED
  BY <1>1 DEF Router!routerVars

\* A hint of a plan or of a rule is a hint of Router.
LEMMA HintRefines ==
    ASSUME RoutingInv, NEW w \in Workflows, NEW b \in MemoryBoosts \cup {MaxBoost}, Hint(w, b),
           stage \in {"profiled", "hints"}, stage' = "hints", hints < MaxRules + 1,
           UNCHANGED <<base, executable, match, target, selected>>
    PROVE  Router!TakeHint(w, b)
<1>1. b \in Nat /\ b > 0 /\ boosts[w] \in Nat
  <2>1. MaxBoost \in Nat \ {0}
    BY SMT DEF MaxBoost
  <2>2. b \in 1..MaxBoost
    BY <2>1, RoutingAssumption
  <2> QED
    BY <2>1, <2>2 DEF RoutingInv, TypeOK
<1>2. boosts' = [boosts EXCEPT ![w] = IF @ + b > MaxBoost THEN MaxBoost ELSE @ + b]
      /\ hints' = hints + 1
  BY DEF Hint
<1>3. (IF boosts[w] + b > MaxBoost THEN MaxBoost ELSE boosts[w] + b)
         = Router!AtMost(MaxBoost, boosts[w] + Router!Positive(b))
  BY <1>1, SMT DEF Router!AtMost, Router!Positive
<1>4. boosts' = [boosts EXCEPT ![w] = Router!AtMost(MaxBoost, @ + Router!Positive(b))]
  BY <1>2, <1>3
<1> QED
  BY <1>2, <1>4 DEF Router!TakeHint

LEMMA MatchRefines == RoutingInv /\ Match => Router!Match
<1> SUFFICES ASSUME RoutingInv, Match PROVE Router!Match
  OBVIOUS
<1>1. /\ stage = "hints" /\ stage' = "matched"
      /\ UNCHANGED <<request, profile, granted, plan, hints, boosts, target, selected>>
      /\ base' = [w \in Workflows |-> MatchScore(w)]
      /\ executable' = {w \in Workflows : Executable(w)}
      /\ match' = [w \in Workflows |->
                      IF w \in executable' /\ base'[w] + boosts[w] > One THEN One
                      ELSE base'[w] + (IF w \in executable' THEN boosts[w] ELSE 0)]
  BY DEF Match, requestVars
<1>2. ASSUME NEW w \in Workflows PROVE MatchScore(w) \in 0..One
  BY <1>1, ProfileFacts, ScoreBounds DEF RoutingInv
<1>3. base' \in [Workflows -> 0..One]
  BY <1>1, <1>2
<1>4. ASSUME NEW w \in Workflows
      PROVE  match'[w] = IF w \in executable' THEN Router!Boosted(w) ELSE base'[w]
  <2>1. base'[w] \in Int
    BY <1>3, Units, SMT
  <2>2. CASE w \in executable'
    <3>1. match'[w] = IF base'[w] + boosts[w] > One THEN One ELSE base'[w] + boosts[w]
      BY <1>1, <2>2
    <3> QED
      BY <2>2, <3>1 DEF Router!Boosted, Router!AtMost
  <2>3. CASE w \notin executable'
    <3>1. match'[w] = base'[w] + 0
      BY <1>1, <2>3
    <3> QED
      BY <2>1, <2>3, <3>1
  <2> QED
    BY <2>2, <2>3
<1>5. match' = [w \in Workflows |-> IF w \in executable' THEN Router!Boosted(w) ELSE base'[w]]
  BY <1>1, <1>4
<1>6. executable' \in SUBSET Workflows
  BY <1>1
<1> QED
  BY <1>1, <1>3, <1>5, <1>6 DEF Router!Match

LEMMA BalanceRefines == RoutingInv /\ Balance => Router!Balance
<1> SUFFICES ASSUME RoutingInv, Balance PROVE Router!Balance
  OBVIOUS
<1>1. PICK metrics \in [executable -> Snapshots] :
         LET t == [w \in Workflows |->
                       IF w \in executable THEN Target(w, metrics[w]) ELSE NoTarget]
         IN  /\ target' = t
             /\ \/ executable = {} /\ selected' = None
                \/ \E w \in executable : InBand(w) /\ First(w, t) /\ selected' = w
  BY DEF Balance
<1>2. /\ stage = "matched" /\ stage' = "routed"
      /\ UNCHANGED <<hints, boosts, base, executable, match>>
  BY DEF Balance
<1>3. ASSUME NEW w \in Workflows PROVE target'[w] \in Router!Targets
  <2>1. CASE w \in executable
    <3>1. target'[w] = Target(w, metrics[w]) /\ metrics[w] \in Snapshots
      BY <1>1, <2>1
    <3>2. request \in Requests
      BY DEF RoutingInv, TypeOK
    <3> QED
      BY <3>1, <3>2, TargetBounds DEF Router!Targets
  <2>2. CASE w \notin executable
    <3>1. target'[w] = NoTarget
      BY <1>1, <2>2
    <3>2. 0 \in 0..Whole /\ 0 \in Nat
      BY Units, SMT
    <3> QED
      BY <3>1, <3>2 DEF NoTarget, Router!Targets
  <2> QED
    BY <2>1, <2>2
<1>4. target' \in [Workflows -> Router!Targets]
  BY <1>1, <1>3
<1>5. ASSUME NEW w \in executable, InBand(w), First(w, target')
      PROVE  Router!Wins(w, executable, match)'
  <2>1. Router!Band(executable, match)' = {v \in executable : InBand(v)}
    BY <1>2 DEF Router!Band, InBand
  <2>2. ASSUME NEW v \in {u \in executable : InBand(u)} \ {w} PROVE Router!Before(w, v)'
    BY <1>5, <2>2 DEF First, Router!Before
  <2> QED
    BY <1>5, <2>1, <2>2 DEF Router!Wins
<1>6. \/ executable = {} /\ selected' = None
      \/ \E w \in executable : Router!Wins(w, executable, match)' /\ selected' = w
  BY <1>1, <1>5
<1> QED
  BY <1>2, <1>4, <1>6 DEF Router!Balance, Router!Candidates

LEMMA RoutingStepRefines ==
    RoutingInv /\ [Next]_vars => [Router!Next]_(Router!routerVars)
<1> SUFFICES ASSUME RoutingInv, [Next]_vars PROVE [Router!Next]_(Router!routerVars)
  OBVIOUS
<1>1. CASE BuildProfile \/ Bypass \/ PlanFails
  BY <1>1, EarlyStutters
<1>2. ASSUME NEW p \in Plans, Plan(p) PROVE Router!Next
  <2>1. /\ stage = "profiled" /\ stage' = "hints" /\ hints = 0 /\ Hint(Planned(p), MaxBoost)
        /\ UNCHANGED <<base, executable, match, target, selected>>
    BY <1>2 DEF Plan, RoutingInv, StageFits
  <2>2. Planned(p) \in Workflows /\ hints < MaxRules + 1
    BY <2>1, PlannedFacts, RoutingAssumption
  <2>3. Router!TakeHint(Planned(p), MaxBoost)
    BY <2>1, <2>2, HintRefines
  <2> QED
    BY <2>2, <2>3 DEF Router!Next
<1>3. ASSUME NEW w \in Workflows, NEW b \in MemoryBoosts, MemoryHint(w, b) PROVE Router!Next
  <2>1. /\ stage = "hints" /\ stage' = "hints" /\ Hint(w, b)
        /\ hints < MaxRules + (IF plan = None THEN 0 ELSE 1)
        /\ UNCHANGED <<base, executable, match, target, selected>>
    BY <1>3 DEF MemoryHint
  <2>2. hints < MaxRules + 1
    BY <2>1, RoutingAssumption DEF RoutingInv, StageFits
  <2>3. Router!TakeHint(w, b)
    BY <2>1, <2>2, HintRefines
  <2> QED
    BY <2>3 DEF Router!Next
<1>4. CASE Match
  BY <1>4, MatchRefines DEF Router!Next
<1>5. CASE Balance
  BY <1>5, BalanceRefines DEF Router!Next
<1>6. CASE UNCHANGED vars
  BY <1>6 DEF vars, requestVars, routerVars, Router!routerVars
<1> QED
  BY <1>1, <1>2, <1>3, <1>4, <1>5, <1>6 DEF Next

\* The routing of a request is one call of select (_run_planner_pipeline up to the
\* router's decision), on the catalog, for any hints and any metrics.
THEOREM RoutingImplementsRouter == Spec => ImplementsRouter
  BY RoutingInvariant, RoutingInitRefines, RoutingStepRefines, PTL DEF Spec, ImplementsRouter

\* What is proved of Router therefore holds of every routing.
Select == INSTANCE RouterProofs WITH
    stage <- IF stage \in {"matched", "routed"} THEN stage ELSE "hints",
    Boosts <- MemoryBoosts \cup {MaxBoost},
    Matches <- 0..One,
    Resources <- 0..Whole,
    Latencies <- Nat,
    MaxHints <- MaxRules + 1

LEMMA Positions ==
    /\ Position \in [Workflows -> Nat]
    /\ \A v, w \in Workflows : Position[v] = Position[w] => v = w
<1>1. /\ Position[KnowledgeQA] = 1 /\ Position[LargeKnowledgeQA] = 2 /\ Position[Coding] = 3
      /\ Position[Media] = 4 /\ Position[Document] = 5
  BY SMT DEF Position, Workflows, KnowledgeQA, LargeKnowledgeQA, Coding, Media, Document
<1>2. \A w \in Workflows : Position[w] \in Nat
  BY <1>1 DEF Workflows
<1> DEFINE place(w) == CASE w = KnowledgeQA -> 1 [] w = LargeKnowledgeQA -> 2
                         [] w = Coding -> 3 [] w = Media -> 4 [] w = Document -> 5
<1>3. Position \in [Workflows -> Nat]
  <2>1. Position = [w \in Workflows |-> place(w)]
    BY Zenon DEF Position
  <2> HIDE DEF place
  <2> QED
    BY <1>2, <2>1
<1>4. \A v, w \in Workflows : Position[v] = Position[w] => v = w
  BY <1>1 DEF Workflows
<1> QED
  BY <1>3, <1>4

\* The catalog is one of Router's instances.
LEMMA RouterAssumed ==
    /\ One \in Nat /\ MaxBoost \in Nat /\ Tie \in Nat
    /\ MemoryBoosts \cup {MaxBoost} \subseteq Int
    /\ 0..One \subseteq 0..One
    /\ 0..Whole \subseteq Nat /\ Nat \subseteq Nat
    /\ MaxRules + 1 \in Nat
    /\ None \notin Workflows
    /\ Position \in [Workflows -> Nat]
    /\ \A v, w \in Workflows : Position[v] = Position[w] => v = w
<1>1. MemoryBoosts \cup {MaxBoost} \subseteq Int /\ MaxRules + 1 \in Nat
  BY Units, RoutingAssumption, SMT
<1>2. 0..Whole \subseteq Nat /\ 0..One \subseteq 0..One
  BY Units, SMT
<1> QED
  BY <1>1, <1>2, Units, Positions, RoutingAssumption

LEMMA SelectSteps ==
    /\ Router!Init => Select!Init
    /\ [Router!Next]_(Router!routerVars) => [Select!Next]_(Select!routerVars)
<1>1. Router!Init => Select!Init
  BY DEF Router!Init, Select!Init, Router!NoTargets, Select!NoTargets
<1>2. UNCHANGED Router!routerVars => UNCHANGED Select!routerVars
  BY DEF Router!routerVars, Select!routerVars
<1>3. ASSUME NEW w, NEW b, Router!TakeHint(w, b) PROVE Select!TakeHint(w, b)
  BY <1>3 DEF Router!TakeHint, Select!TakeHint, Router!AtMost, Select!AtMost, Router!Positive,
     Select!Positive
<1>4. Router!Match => Select!Match
  BY DEF Router!Match, Select!Match, Router!Boosted, Select!Boosted, Router!AtMost,
     Select!AtMost
<1>5. Router!Balance => Select!Balance
  BY DEF Router!Balance, Select!Balance, Router!Candidates, Select!Candidates, Router!Wins,
     Select!Wins, Router!Band, Select!Band, Router!Before, Select!Before, Router!Targets,
     Select!Targets
<1>6. Router!Return => Select!Return
  BY DEF Router!Return, Select!Return, Router!NoTargets, Select!NoTargets
<1>7. Router!Next => Select!Next
  BY <1>3, <1>4, <1>5, <1>6 DEF Router!Next, Select!Next
<1> QED
  BY <1>1, <1>2, <1>7

\* The routing of a request inherits what is proved of select: no hint and no load gets
\* round a filter, memory and load together move the choice by less than a boost and a
\* tie band, nobody better is passed over, and a hint never costs its workflow the
\* selection.
THEOREM RoutingInheritsRouter ==
    Spec => [](/\ Select!HardFiltersWin /\ Select!WithinReach
               /\ Select!Undominated /\ Select!BoostHelps)
<1>1. Spec => Select!Spec
  BY RoutingImplementsRouter, SelectSteps, PTL DEF ImplementsRouter, Select!Spec
<1>2. Select!Spec => []Select!HardFiltersWin
  BY RouterAssumed, Select!FiltersAreHard
<1>3. Select!Spec => []Select!WithinReach
  BY RouterAssumed, Select!ReachIsBounded
<1>4. Select!Spec => []Select!Undominated
  BY RouterAssumed, Select!NobodyBetterIsPassedOver
<1>5. Select!Spec => []Select!BoostHelps
  BY RouterAssumed, Select!HintsOnlyHelp
<1> QED
  BY <1>1, <1>2, <1>3, <1>4, <1>5, PTL

================================================================================
