--------------------------- MODULE RateLimiterProofs ---------------------------
\* Proofs about RateLimiter, for every configuration the constructor accepts.
EXTENDS RateLimiter, TLAPS

\* Products of integers, apart from any context: the solver needs it small.
LEMMA ProductType == ASSUME NEW a \in Int, NEW b \in Int PROVE a * b \in Int
  OBVIOUS

LEMMA Distribute ==
    ASSUME NEW a \in Int, NEW u \in Int, NEW v \in Int, NEW g \in Int
    PROVE  a * (v - g) = a * (u - g) + a * (v - u)
  OBVIOUS

\* What a check leaves alone in the buckets and what it writes.
LEMMA StoreLemma ==
    ASSUME NEW k \in Keys, NEW b \in Bucket, b.tokens <= Burst, TypeOK, Store(k, b)
    PROVE  /\ DOMAIN buckets' = DOMAIN buckets \cup {k}
           /\ DOMAIN buckets' \subseteq Keys
           /\ buckets'[k] = b
           /\ \A x \in DOMAIN buckets : x # k => buckets'[x] = buckets[x]
           /\ \A x \in DOMAIN buckets' : buckets'[x] \in Bucket /\ buckets'[x].tokens <= Burst
  BY DEF Store, TypeOK

\* The bucket a check starts from is well formed, new or not.
LEMMA BucketOfType ==
    ASSUME TypeOK, NEW k \in Keys, NEW t \in Nat
    PROVE  BucketOf(k, t) \in Bucket /\ BucketOf(k, t).tokens <= Burst
  BY ConfigAssumption DEF BucketOf, TypeOK, Bucket

\* Replenishing never overfills, never takes tokens away, and pays Rate tokens
\* for each tick at most.
LEMMA ReplenishedBounds ==
    ASSUME NEW b \in Bucket, b.tokens <= Burst, NEW t \in Nat
    PROVE  /\ Replenished(b, t) \in Nat
           /\ b.tokens <= Replenished(b, t)
           /\ Replenished(b, t) <= Burst
           /\ Replenished(b, t) <= b.tokens + Rate * MaxOf(0, t - b.updated_at)
           /\ \/ Replenished(b, t) = Burst
              \/ Replenished(b, t) = b.tokens + Rate * MaxOf(0, t - b.updated_at)
  <1> DEFINE e == MaxOf(0, t - b.updated_at)
  <1>1. e \in Nat /\ b.tokens \in Nat
    BY DEF MaxOf, Bucket
  <1>2. e * Rate \in Nat /\ e * Rate = Rate * e
    BY <1>1, ConfigAssumption
  <1>3. Replenished(b, t) = MinOf(Burst, b.tokens + e * Rate)
    BY DEF Replenished
  <1> HIDE DEF e
  <1>4. QED
    BY <1>1, <1>2, <1>3, ConfigAssumption DEF MinOf, e

--------------------------------------------------------------------------------
(* Type correctness *)

\* What the two outcomes of a check have in common, for the proofs below.
LEMMA CheckTypes ==
    ASSUME TypeOK, NEW c \in Callers, NEW k \in Keys, Admit(c, k) \/ Deny(c, k)
    PROVE  /\ clock' = clock
           /\ now[c] \in Nat
           /\ BucketOf(k, now[c]) \in Bucket
           /\ BucketOf(k, now[c]).tokens <= Burst
           /\ rewound' = [rewound EXCEPT
                 ![k] = @ + MaxOf(0, BucketOf(k, now[c]).updated_at - now[c])]
           /\ rewound' \in [Keys -> Nat]
           /\ now' \in [Callers -> Nat]
           /\ checking' \in [Callers -> Keys \cup {None}]
  <1>1. now[c] \in Nat
    BY DEF TypeOK
  <1>2. BucketOf(k, now[c]) \in Bucket /\ BucketOf(k, now[c]).tokens <= Burst
    BY <1>1, BucketOfType
  <1>3. Leave(c, k)
    BY DEF Admit, Deny
  <1> DEFINE r == MaxOf(0, BucketOf(k, now[c]).updated_at - now[c])
  <1>4. r \in Nat
    BY <1>1, <1>2 DEF MaxOf, Bucket
  <1>5. rewound' = [rewound EXCEPT ![k] = @ + r]
    BY <1>3 DEF Leave
  <1> HIDE DEF r
  <1>6. rewound' \in [Keys -> Nat]
    BY <1>4, <1>5 DEF TypeOK
  <1>7. QED
    BY <1>1, <1>2, <1>3, <1>5, <1>6 DEF Leave, TypeOK, r

\* An admission keeps the types.
LEMMA AdmitTypes ==
    ASSUME TypeOK, NEW c \in Callers, NEW k \in Keys, Admit(c, k)
    PROVE  TypeOK'
  <1> DEFINE tokens == Replenished(BucketOf(k, now[c]), now[c])
             b == [tokens |-> tokens - Requested, updated_at |-> now[c]]
  <1>1. tokens \in Nat /\ tokens <= Burst
    BY CheckTypes, ReplenishedBounds
  <1>2. tokens >= Requested /\ Store(k, b)
    BY DEF Admit
  <1>3. b \in Bucket /\ b.tokens <= Burst
    BY <1>1, <1>2, CheckTypes, ConfigAssumption DEF Bucket
  <1>4. /\ DOMAIN buckets' \subseteq Keys
        /\ \A x \in DOMAIN buckets' : buckets'[x] \in Bucket /\ buckets'[x].tokens <= Burst
    BY <1>2, <1>3, StoreLemma
  <1>5. grants' = [grants EXCEPT ![k] = Append(@, now[c] + rewound'[k])]
    BY DEF Admit
  <1>6. now[c] + rewound'[k] \in Nat
    BY CheckTypes
  <1>7. grants' \in [Keys -> Seq(Nat)]
    BY <1>5, <1>6 DEF TypeOK
  <1>8. promised' \in [Keys -> SUBSET Nat]
    BY DEF Admit, TypeOK
  <1>9. QED
    BY <1>4, <1>7, <1>8, CheckTypes DEF TypeOK

\* The Retry-After header is a number of seconds, at least one.
LEMMA RetryAfterType ==
    ASSUME NEW tokens \in Nat
    PROVE  RetryAfter(tokens) \in Nat /\ RetryAfter(tokens) >= 1
  <1>1. Rate * Second \in Nat /\ Rate * Second > 0
    BY ConfigAssumption
  <1>2. (Requested - tokens) \div (Rate * Second) \in Int
    BY <1>1, ConfigAssumption
  <1>3. QED
    BY <1>2 DEF RetryAfter, MaxOf

\* A refusal keeps the types.
LEMMA DenyTypes ==
    ASSUME TypeOK, NEW c \in Callers, NEW k \in Keys, Deny(c, k)
    PROVE  TypeOK'
  <1> DEFINE tokens == Replenished(BucketOf(k, now[c]), now[c])
             b == [tokens |-> tokens, updated_at |-> now[c]]
  <1>1. tokens \in Nat /\ tokens <= Burst
    BY CheckTypes, ReplenishedBounds
  <1>2. Store(k, b)
    BY DEF Deny
  <1>3. b \in Bucket /\ b.tokens <= Burst
    BY <1>1, CheckTypes DEF Bucket
  <1>4. /\ DOMAIN buckets' \subseteq Keys
        /\ \A x \in DOMAIN buckets' : buckets'[x] \in Bucket /\ buckets'[x].tokens <= Burst
    BY <1>2, <1>3, StoreLemma
  <1>5. now[c] + RetryAfter(tokens) * Second \in Nat
    BY <1>1, RetryAfterType, CheckTypes, ConfigAssumption
  <1>6. promised' = [promised EXCEPT ![k] = @ \cup {now[c] + RetryAfter(tokens) * Second}]
    BY DEF Deny
  <1> HIDE DEF tokens, b
  <1>7. promised' \in [Keys -> SUBSET Nat]
    BY <1>5, <1>6 DEF TypeOK
  <1>8. QED
    BY <1>4, <1>7, CheckTypes DEF TypeOK, Deny

\* The type invariant of the limiter: in particular a bucket never holds a
\* negative number of tokens, nor more than its capacity.
THEOREM TypeCorrect == Spec => []TypeOK
  <1>1. Init => TypeOK
    BY DEF Init, TypeOK
  <1>2. TypeOK /\ [Next]_vars => TypeOK'
    <2> SUFFICES ASSUME TypeOK, [Next]_vars PROVE TypeOK'
      OBVIOUS
    <2>1. CASE Tick
      BY <2>1 DEF Tick, TypeOK
    <2>2. ASSUME NEW c \in Callers, NEW k \in Keys, Enter(c, k) PROVE TypeOK'
      BY <2>2 DEF Enter, TypeOK
    <2>3. ASSUME NEW c \in Callers, NEW k \in Keys, Admit(c, k) PROVE TypeOK'
      BY <2>3, AdmitTypes
    <2>4. ASSUME NEW c \in Callers, NEW k \in Keys, Deny(c, k) PROVE TypeOK'
      BY <2>4, DenyTypes
    <2>5. CASE UNCHANGED vars
      BY <2>5 DEF vars, TypeOK
    <2>6. QED
      BY <2>1, <2>2, <2>3, <2>4, <2>5 DEF Next
  <1>3. QED
    BY <1>1, <1>2, PTL DEF Spec

--------------------------------------------------------------------------------
(* WindowBound *)

\* The strengthening that makes WindowBound inductive: what is left in the
\* bucket, plus all that was admitted since admission i, is paid for.
BucketBound ==
    \A k \in Keys : \A i \in 1..Len(grants[k]) :
        /\ k \in DOMAIN buckets
        /\ buckets[k].tokens + (Len(grants[k]) - i + 1) * Requested
              <= Burst + Rate * ((buckets[k].updated_at + rewound[k]) - grants[k][i])

WindowInv == TypeOK /\ BucketBound /\ WindowBound

\* On the time line of grants a check moves updated_at forward, and pays Rate
\* tokens at most for each tick of it.
LEMMA CheckPays ==
    ASSUME TypeOK, NEW c \in Callers, NEW k \in Keys, Admit(c, k) \/ Deny(c, k),
           k \in DOMAIN buckets
    PROVE  Replenished(BucketOf(k, now[c]), now[c])
              <= buckets[k].tokens
                 + Rate * ((now[c] + rewound'[k]) - (buckets[k].updated_at + rewound[k]))
  <1> DEFINE b == buckets[k]
  <1>1. BucketOf(k, now[c]) = b /\ b \in Bucket /\ b.tokens <= Burst
    BY DEF BucketOf, TypeOK
  <1>2. now[c] \in Nat /\ rewound[k] \in Nat
    BY DEF TypeOK
  <1>3. rewound'[k] = rewound[k] + MaxOf(0, b.updated_at - now[c])
    BY <1>1, CheckTypes DEF TypeOK
  <1>4. b.updated_at \in Nat /\ b.tokens \in Nat
    BY <1>1 DEF Bucket
  <1>5. MaxOf(0, now[c] - b.updated_at)
           = (now[c] + rewound'[k]) - (b.updated_at + rewound[k])
    BY <1>2, <1>3, <1>4 DEF MaxOf
  <1>6. Replenished(b, now[c]) <= b.tokens + Rate * MaxOf(0, now[c] - b.updated_at)
    BY <1>1, <1>2, ReplenishedBounds
  <1>7. QED
    BY <1>1, <1>5, <1>6

\* An admission keeps both bounds.
LEMMA AdmitWindow ==
    ASSUME WindowInv, NEW c \in Callers, NEW k \in Keys, Admit(c, k)
    PROVE  WindowInv'
  <1> DEFINE tokens == Replenished(BucketOf(k, now[c]), now[c])
             b == [tokens |-> tokens - Requested, updated_at |-> now[c]]
             g == grants[k]
             n == Len(g)
             v == now[c] + rewound'[k]
  <1>1. TypeOK /\ TypeOK'
    BY AdmitTypes DEF WindowInv
  <1>2. tokens \in Nat /\ tokens <= Burst /\ tokens >= Requested
    BY <1>1, CheckTypes, ReplenishedBounds DEF Admit
  <1>3. /\ Store(k, b)
        /\ grants' = [grants EXCEPT ![k] = Append(@, v)]
    BY DEF Admit
  <1>4. b \in Bucket /\ b.tokens <= Burst
    BY <1>1, <1>2, CheckTypes, ConfigAssumption DEF Bucket
  <1>5. /\ k \in DOMAIN buckets'
        /\ buckets'[k] = b
        /\ \A x \in DOMAIN buckets : x \in DOMAIN buckets'
        /\ \A x \in DOMAIN buckets : x # k => buckets'[x] = buckets[x]
    BY <1>1, <1>3, <1>4, StoreLemma
  <1>6. g \in Seq(Nat) /\ n \in Nat /\ v \in Nat
    BY <1>1, CheckTypes DEF TypeOK
  <1>7. /\ grants'[k] = Append(g, v)
        /\ Len(grants'[k]) = n + 1
        /\ grants'[k][n + 1] = v
        /\ \A i \in 1..n : grants'[k][i] = g[i]
    BY <1>1, <1>3, <1>6 DEF TypeOK
  <1>8. \A x \in Keys : x # k => grants'[x] = grants[x] /\ rewound'[x] = rewound[x]
    BY <1>1, <1>3, CheckTypes DEF TypeOK
  <1> HIDE DEF tokens, v
  <1>9. ASSUME NEW i \in 1..n
        PROVE  tokens + (n - i + 1) * Requested <= Burst + Rate * (v - g[i])
    <2>1. /\ k \in DOMAIN buckets
          /\ buckets[k].tokens + (n - i + 1) * Requested
                <= Burst + Rate * ((buckets[k].updated_at + rewound[k]) - g[i])
      BY DEF WindowInv, BucketBound
    <2>2. tokens <= buckets[k].tokens + Rate * (v - (buckets[k].updated_at + rewound[k]))
      BY <1>1, <2>1, CheckPays DEF tokens, v
    <2>3. /\ buckets[k].tokens \in Nat /\ buckets[k].updated_at \in Nat
          /\ rewound[k] \in Nat /\ g[i] \in Nat
      BY <1>1, <1>6, <2>1 DEF TypeOK, Bucket
    <2> DEFINE u == buckets[k].updated_at + rewound[k]
               early == Rate * (u - g[i])
               late == Rate * (v - u)
               spent == (n - i + 1) * Requested
    <2>4. u \in Int /\ v \in Int /\ g[i] \in Int /\ n \in Int /\ i \in Int
      BY <1>6, <2>3
    <2> HIDE DEF u
    <2>5. early \in Int /\ late \in Int /\ spent \in Int
      <3>1. Rate \in Int /\ Requested \in Int
        BY ConfigAssumption
      <3>2. u - g[i] \in Int /\ v - u \in Int /\ n - i + 1 \in Int
        BY <2>4
      <3>3. early \in Int
        BY <3>1, <3>2, ProductType
      <3>4. late \in Int
        BY <3>1, <3>2, ProductType
      <3>5. spent \in Int
        BY <3>1, <3>2, ProductType
      <3>6. QED
        BY <3>3, <3>4, <3>5
    <2>6. Rate * (v - g[i]) = early + late
      <3>1. Rate \in Int
        BY ConfigAssumption
      <3>2. QED
        BY <3>1, <2>4, Distribute
    <2>7. buckets[k].tokens + spent <= Burst + early /\ tokens <= buckets[k].tokens + late
      BY <2>1, <2>2 DEF u
    <2> HIDE DEF early, late, spent
    <2>8. tokens + spent <= Burst + (early + late)
      BY <1>2, <2>3, <2>5, <2>7, ConfigAssumption
    <2>9. QED
      BY <2>6, <2>8 DEF spent
  <1>10. ASSUME NEW i \in 1..(n + 1)
         PROVE  (tokens - Requested) + (n + 1 - i + 1) * Requested
                   <= Burst + Rate * (v - grants'[k][i])
    <2>1. CASE i = n + 1
      BY <2>1, <1>2, <1>6, <1>7, ConfigAssumption
    <2>2. CASE i \in 1..n
      <3>1. g[i] \in Nat
        BY <1>6, <2>2
      <3>2. QED
        BY <2>2, <3>1, <1>2, <1>6, <1>7, <1>9, ConfigAssumption
    <2>3. i = n + 1 \/ i \in 1..n
      BY <1>6
    <2>4. QED
      BY <2>1, <2>2, <2>3
  <1>11. BucketBound'
    <2> SUFFICES ASSUME NEW x \in Keys, NEW i \in 1..Len(grants'[x])
                 PROVE  /\ x \in DOMAIN buckets'
                        /\ buckets'[x].tokens + (Len(grants'[x]) - i + 1) * Requested
                              <= Burst + Rate * ((buckets'[x].updated_at + rewound'[x])
                                                   - grants'[x][i])
      BY DEF BucketBound
    <2>1. CASE x = k
      <3>1. i \in 1..(n + 1)
        BY <2>1, <1>7
      <3>2. /\ buckets'[x].tokens = tokens - Requested
            /\ buckets'[x].updated_at + rewound'[x] = v
            /\ Len(grants'[x]) = n + 1
        BY <2>1, <1>5, <1>7 DEF v
      <3>3. (tokens - Requested) + (n + 1 - i + 1) * Requested
               <= Burst + Rate * (v - grants'[x][i])
        BY <2>1, <3>1, <1>10
      <3> HIDE DEF n
      <3>4. QED
        BY <2>1, <3>1, <3>2, <3>3, <1>2, <1>5, <1>6, ConfigAssumption
    <2>2. CASE x # k
      BY <2>2, <1>5, <1>8 DEF WindowInv, BucketBound
    <2>3. QED
      BY <2>1, <2>2
  <1>12. WindowBound'
    <2> SUFFICES ASSUME NEW x \in Keys, NEW j \in 1..Len(grants'[x]), NEW i \in 1..j
                 PROVE  (j - i + 1) * Requested
                           <= Burst + Rate * (grants'[x][j] - grants'[x][i])
      BY DEF WindowBound
    <2>1. CASE x # k
      BY <2>1, <1>8 DEF WindowInv, WindowBound
    <2>2. CASE x = k /\ j \in 1..n
      <3>1. i \in 1..n
        BY <1>6, <2>2
      <3>2. QED
        BY <2>2, <3>1, <1>7 DEF WindowInv, WindowBound
    <2>3. CASE x = k /\ j = n + 1
      <3>1. i \in 1..(n + 1) /\ grants'[k][i] \in Nat
        BY <1>1, <1>6, <1>7, <2>3 DEF TypeOK
      <3>2. (tokens - Requested) + (n + 1 - i + 1) * Requested
               <= Burst + Rate * (v - grants'[k][i])
        BY <1>10, <3>1
      <3>3. (n + 1 - i + 1) * Requested \in Int /\ Rate * (v - grants'[k][i]) \in Int
        BY <1>6, <3>1, ConfigAssumption
      <3>4. QED
        BY <2>3, <3>2, <3>3, <1>2, <1>7, ConfigAssumption
    <2>4. QED
      BY <1>6, <1>7, <2>1, <2>2, <2>3
  <1>13. QED
    BY <1>1, <1>11, <1>12 DEF WindowInv

\* A refusal keeps both bounds.
LEMMA DenyWindow ==
    ASSUME WindowInv, NEW c \in Callers, NEW k \in Keys, Deny(c, k)
    PROVE  WindowInv'
  <1> DEFINE tokens == Replenished(BucketOf(k, now[c]), now[c])
             b == [tokens |-> tokens, updated_at |-> now[c]]
  <1>1. TypeOK /\ TypeOK'
    BY DenyTypes DEF WindowInv
  <1>2. tokens \in Nat /\ tokens <= Burst
    BY <1>1, CheckTypes, ReplenishedBounds
  <1>3. Store(k, b) /\ grants' = grants
    BY DEF Deny
  <1>4. b \in Bucket /\ b.tokens <= Burst
    BY <1>1, <1>2, CheckTypes DEF Bucket
  <1>5. /\ k \in DOMAIN buckets'
        /\ buckets'[k] = b
        /\ \A x \in DOMAIN buckets : x \in DOMAIN buckets'
        /\ \A x \in DOMAIN buckets : x # k => buckets'[x] = buckets[x]
    BY <1>1, <1>3, <1>4, StoreLemma
  <1>6. \A x \in Keys : x # k => rewound'[x] = rewound[x]
    BY <1>1, CheckTypes DEF TypeOK
  <1> HIDE DEF tokens
  <1>7. BucketBound'
    <2> SUFFICES ASSUME NEW x \in Keys, NEW i \in 1..Len(grants[x])
                 PROVE  /\ x \in DOMAIN buckets'
                        /\ buckets'[x].tokens + (Len(grants[x]) - i + 1) * Requested
                              <= Burst + Rate * ((buckets'[x].updated_at + rewound'[x])
                                                   - grants[x][i])
      BY <1>3 DEF BucketBound
    <2>1. /\ x \in DOMAIN buckets
          /\ buckets[x].tokens + (Len(grants[x]) - i + 1) * Requested
                <= Burst + Rate * ((buckets[x].updated_at + rewound[x]) - grants[x][i])
      BY DEF WindowInv, BucketBound
    <2>2. CASE x = k
      <3>1. tokens <= buckets[k].tokens
                 + Rate * ((now[c] + rewound'[k]) - (buckets[k].updated_at + rewound[k]))
        BY <1>1, <2>1, <2>2, CheckPays DEF tokens
      <3>2. /\ buckets[k].tokens \in Nat /\ buckets[k].updated_at \in Nat
            /\ now[c] \in Nat /\ rewound[k] \in Nat /\ rewound'[k] \in Nat
        BY <1>1, <2>1, <2>2 DEF TypeOK, Bucket
      <3>3. Len(grants[k]) \in Nat /\ i \in Nat /\ grants[k][i] \in Nat
        BY <1>1, <2>2 DEF TypeOK
      <3>4. (Len(grants[k]) - i + 1) * Requested \in Int
        BY <3>3, ConfigAssumption
      <3>5. buckets'[k].tokens = tokens /\ buckets'[k].updated_at = now[c]
        BY <1>5
      <3> DEFINE u == buckets[k].updated_at + rewound[k]
                 v == now[c] + rewound'[k]
                 early == Rate * (u - grants[k][i])
                 late == Rate * (v - u)
                 spent == (Len(grants[k]) - i + 1) * Requested
      <3>6. u \in Int /\ v \in Int
        BY <3>2
      <3> HIDE DEF u, v
      <3>7. early \in Int /\ late \in Int /\ spent \in Int
        <4>1. Rate \in Int /\ u - grants[k][i] \in Int /\ v - u \in Int
          BY <3>3, <3>6, ConfigAssumption
        <4>2. early \in Int
          BY <4>1, ProductType
        <4>3. late \in Int
          BY <4>1, ProductType
        <4>4. QED
          BY <4>2, <4>3, <3>4
      <3>8. Rate * (v - grants[k][i]) = early + late
        <4>1. Rate \in Int /\ grants[k][i] \in Int
          BY <3>3, ConfigAssumption
        <4>2. QED
          BY <4>1, <3>6, Distribute
      <3>9. buckets[k].tokens + spent <= Burst + early /\ tokens <= buckets[k].tokens + late
        BY <2>1, <2>2, <3>1 DEF u, v
      <3> HIDE DEF early, late, spent
      <3>10. tokens + spent <= Burst + (early + late)
        BY <1>2, <3>2, <3>7, <3>9, ConfigAssumption
      <3>11. tokens + (Len(grants[k]) - i + 1) * Requested <= Burst + Rate * (v - grants[k][i])
        BY <3>8, <3>10 DEF spent
      <3>12. buckets'[k].tokens = tokens /\ buckets'[k].updated_at + rewound'[k] = v
        BY <3>5 DEF v
      <3>13. QED
        BY <1>5, <2>2, <3>11, <3>12
    <2>3. CASE x # k
      BY <2>1, <2>3, <1>5, <1>6
    <2>4. QED
      BY <2>2, <2>3
  <1>8. WindowBound'
    BY <1>3 DEF WindowInv, WindowBound
  <1>9. QED
    BY <1>1, <1>7, <1>8 DEF WindowInv

\* The admission bound, for every number of keys and threads and every accepted
\* configuration.
THEOREM WindowBounded == Spec => []WindowBound
  <1>1. Init => WindowInv
    <2> SUFFICES ASSUME Init PROVE WindowInv
      OBVIOUS
    <2>1. TypeOK
      BY DEF Init, TypeOK
    <2>2. \A k \in Keys : Len(grants[k]) = 0
      BY DEF Init
    <2>3. QED
      BY <2>1, <2>2 DEF WindowInv, BucketBound, WindowBound
  <1>2. WindowInv /\ [Next]_vars => WindowInv'
    <2> SUFFICES ASSUME WindowInv, [Next]_vars PROVE WindowInv'
      OBVIOUS
    <2>1. CASE Tick
      BY <2>1 DEF Tick, WindowInv, TypeOK, BucketBound, WindowBound
    <2>2. ASSUME NEW c \in Callers, NEW k \in Keys, Enter(c, k) PROVE WindowInv'
      BY <2>2 DEF Enter, WindowInv, TypeOK, BucketBound, WindowBound
    <2>3. ASSUME NEW c \in Callers, NEW k \in Keys, Admit(c, k) PROVE WindowInv'
      BY <2>3, AdmitWindow
    <2>4. ASSUME NEW c \in Callers, NEW k \in Keys, Deny(c, k) PROVE WindowInv'
      BY <2>4, DenyWindow
    <2>5. CASE UNCHANGED vars
      BY <2>5 DEF vars, WindowInv, TypeOK, BucketBound, WindowBound
    <2>6. QED
      BY <2>1, <2>2, <2>3, <2>4, <2>5 DEF Next
  <1>3. WindowInv => WindowBound
    BY DEF WindowInv
  <1>4. QED
    BY <1>1, <1>2, <1>3, PTL DEF Spec

--------------------------------------------------------------------------------
(* NoTickPaidTwice *)

\* Between the reading of the clock and the lock nobody else may have stored a
\* later instant: true when one caller runs at a time.
ClocksInOrder ==
    /\ \A k \in DOMAIN buckets : buckets[k].updated_at <= clock
    /\ \A c \in Callers : checking[c] # None =>
           /\ now[c] <= clock
           /\ \A k \in DOMAIN buckets : buckets[k].updated_at <= now[c]

LoopInv == TypeOK /\ ClocksInOrder /\ NoTickPaidTwice

\* A check of the only caller stores the instant it read and rewinds nothing.
LEMMA LoopCheck ==
    ASSUME NEW loop, Callers = {loop}, LoopInv,
           NEW k \in Keys, Admit(loop, k) \/ Deny(loop, k)
    PROVE  LoopInv'
  <1> DEFINE tokens == Replenished(BucketOf(k, now[loop]), now[loop])
             n == now[loop]
  <1>1. loop \in Callers /\ TypeOK /\ TypeOK'
    BY AdmitTypes, DenyTypes DEF LoopInv
  <1>2. checking[loop] = k /\ k # None
    BY <1>1, ConfigAssumption DEF Admit, Deny
  <1>3. n \in Nat /\ clock \in Nat /\ n <= clock
    BY <1>1, <1>2 DEF LoopInv, ClocksInOrder, TypeOK
  <1>4. \A x \in DOMAIN buckets : buckets[x].updated_at \in Nat /\ buckets[x].updated_at <= n
    BY <1>1, <1>2 DEF LoopInv, ClocksInOrder, TypeOK, Bucket
  <1>5. \/ BucketOf(k, n).updated_at = n
        \/ k \in DOMAIN buckets /\ BucketOf(k, n) = buckets[k]
    BY DEF BucketOf
  <1>6. MaxOf(0, BucketOf(k, n).updated_at - n) = 0
    BY <1>3, <1>4, <1>5 DEF MaxOf
  <1>7. rewound' = [rewound EXCEPT ![k] = @ + 0]
    BY <1>1, <1>6, CheckTypes
  <1>8. NoTickPaidTwice'
    BY <1>1, <1>7 DEF LoopInv, NoTickPaidTwice, TypeOK
  <1>9. clock' = clock /\ checking'[loop] = None
    BY <1>1 DEF Admit, Deny, Leave, TypeOK
  <1>10. PICK t \in Int : Store(k, [tokens |-> t, updated_at |-> n])
    <2>1. tokens \in Nat
      BY <1>1, CheckTypes, ReplenishedBounds
    <2>2. tokens - Requested \in Int
      BY <2>1, ConfigAssumption
    <2>3. QED
      BY <2>1, <2>2 DEF Admit, Deny
  <1>11. \A x \in DOMAIN buckets' : buckets'[x].updated_at <= clock'
    BY <1>3, <1>4, <1>9, <1>10 DEF Store
  <1>12. ClocksInOrder'
    BY <1>9, <1>11 DEF ClocksInOrder
  <1>13. QED
    BY <1>1, <1>8, <1>12 DEF LoopInv

\* On one event loop, as the gateway runs it, no tick is ever paid out twice.
THEOREM LoopPaysOnce ==
    ASSUME NEW loop, Callers = {loop}
    PROVE  Spec => []NoTickPaidTwice
  <1>1. Init => LoopInv
    BY DEF Init, LoopInv, TypeOK, ClocksInOrder, NoTickPaidTwice
  <1>2. LoopInv /\ [Next]_vars => LoopInv'
    <2> SUFFICES ASSUME LoopInv, [Next]_vars PROVE LoopInv'
      OBVIOUS
    <2>1. CASE Tick
      <3>1. \A c \in Callers : checking[c] # None => now[c] \in Nat /\ now[c] <= clock + 1
        BY DEF LoopInv, TypeOK, ClocksInOrder
      <3>2. \A k \in DOMAIN buckets : buckets[k].updated_at <= clock + 1
        BY DEF LoopInv, TypeOK, ClocksInOrder, Bucket
      <3>3. QED
        BY <2>1, <3>1, <3>2 DEF Tick, LoopInv, TypeOK, ClocksInOrder, NoTickPaidTwice
    <2>2. ASSUME NEW k \in Keys, Enter(loop, k) PROVE LoopInv'
      <3>1. clock \in Nat
        BY DEF LoopInv, TypeOK
      <3>2. QED
        BY <2>2, <3>1 DEF Enter, LoopInv, TypeOK, ClocksInOrder, NoTickPaidTwice
    <2>3. ASSUME NEW k \in Keys, Admit(loop, k) \/ Deny(loop, k) PROVE LoopInv'
      BY <2>3, LoopCheck
    <2>4. CASE UNCHANGED vars
      BY <2>4 DEF vars, LoopInv, TypeOK, ClocksInOrder, NoTickPaidTwice
    <2>5. QED
      BY <2>1, <2>2, <2>3, <2>4 DEF Next
  <1>3. LoopInv => NoTickPaidTwice
    BY DEF LoopInv
  <1>4. QED
    BY <1>1, <1>2, <1>3, PTL DEF Spec

--------------------------------------------------------------------------------
(* RetryHonest *)

RetryInv == TypeOK /\ RetryHonest

\* Storing what a refusal found does not put off the next admission: the stored
\* bucket is at least as full, at every instant t, as the one it replaces.
LEMMA RefusalKeepsPace ==
    ASSUME NEW b \in Bucket, b.tokens <= Burst, NEW n \in Nat, NEW t \in Nat
    PROVE  Replenished([tokens |-> Replenished(b, n), updated_at |-> n], t)
              >= Replenished(b, t)
  <1> DEFINE d == [tokens |-> Replenished(b, n), updated_at |-> n]
             before == MaxOf(0, n - b.updated_at)
             after == MaxOf(0, t - n)
             whole == MaxOf(0, t - b.updated_at)
  <1>1. /\ Replenished(b, n) \in Nat /\ Replenished(b, n) <= Burst
        /\ Replenished(b, t) \in Nat /\ Replenished(b, t) <= Burst
        /\ Replenished(b, t) <= b.tokens + Rate * whole
        /\ Replenished(b, n) = Burst \/ Replenished(b, n) = b.tokens + Rate * before
    BY ReplenishedBounds
  <1>2. d \in Bucket /\ d.tokens <= Burst /\ d.tokens = Replenished(b, n) /\ d.updated_at = n
    BY <1>1 DEF Bucket
  <1>3. /\ Replenished(d, t) \in Nat /\ d.tokens <= Replenished(d, t)
        /\ Replenished(d, t) = Burst \/ Replenished(d, t) = d.tokens + Rate * after
    BY <1>2, ReplenishedBounds
  <1>4. /\ before \in Nat /\ after \in Nat /\ whole \in Nat /\ b.tokens \in Nat
        /\ whole <= before + after
    BY DEF MaxOf, Bucket
  <1> DEFINE B == Rate * before
             A == Rate * after
             W == Rate * whole
  <1> HIDE DEF before, after, whole, d
  <1>5. B \in Nat /\ A \in Nat /\ W \in Nat /\ W <= B + A
    BY <1>4, ConfigAssumption
  <1> HIDE DEF A, B, W
  <1>6. Replenished(d, t) >= Replenished(b, t)
    BY <1>1, <1>2, <1>3, <1>4, <1>5, ConfigAssumption DEF A, B, W
  <1>7. QED
    BY <1>6 DEF d

\* A quotient falls short by less than one divisor.
LEMMA Truncated ==
    ASSUME NEW m \in Nat, NEW d \in Nat \ {0}
    PROVE  m \div d \in Nat /\ d * (m \div d) + d > m
  OBVIOUS

\* What a client finds when it comes back after the seconds of the header.
LEMMA HeaderSuffices ==
    ASSUME NEW tokens \in Nat, tokens < Requested, tokens <= Burst, NEW n \in Nat
    PROVE  LET found == Replenished([tokens |-> tokens, updated_at |-> n],
                                    n + RetryAfter(tokens) * Second)
               due == MinOf(Burst, Requested)
           IN  /\ found + Rate * Second > due
               /\ Requested <= Rate * Second => found >= due
  <1> DEFINE h == RetryAfter(tokens)
             b == [tokens |-> tokens, updated_at |-> n]
             t == n + h * Second
             second == Rate * Second
             missing == Requested - tokens
             due == MinOf(Burst, Requested)
  <1>1. h \in Nat /\ h >= 1
    BY RetryAfterType
  <1>2. second \in Nat \ {0} /\ missing \in Nat
    BY ConfigAssumption
  <1>3. h = MaxOf(1, missing \div second)
    BY DEF RetryAfter
  <1>4. second * (missing \div second) + second > missing /\ missing \div second \in Nat
    BY <1>2, Truncated
  <1>5. Rate * (h * Second) = second * h
    BY <1>1, ConfigAssumption
  <1>6. h * Second \in Nat
    BY <1>1, ConfigAssumption
  <1> HIDE DEF h, second
  <1>7. second * h >= second /\ second * h >= second * (missing \div second)
    <2>1. CASE h = 1 /\ missing \div second <= 1
      BY <2>1, <1>2, <1>4
    <2>2. CASE h = missing \div second /\ h >= 1
      BY <2>2, <1>1, <1>2
    <2>3. QED
      BY <2>1, <2>2, <1>1, <1>3, <1>4 DEF MaxOf
  <1>8. /\ t \in Nat /\ b \in Bucket /\ b.tokens = tokens /\ b.updated_at = n
        /\ b.tokens <= Burst
    BY <1>6 DEF Bucket
  <1>9. MaxOf(0, t - b.updated_at) = h * Second
    BY <1>6, <1>8 DEF MaxOf
  <1>10. Replenished(b, t) = Burst \/ Replenished(b, t) = tokens + second * h
    BY <1>5, <1>8, <1>9, ReplenishedBounds
  <1>11. due \in Nat /\ due <= Burst /\ due <= Requested
    BY ConfigAssumption DEF MinOf
  <1> DEFINE paid == second * h
             whole == second * (missing \div second)
  <1>12. paid \in Nat /\ whole \in Nat /\ paid >= second /\ paid >= whole
         /\ whole + second > missing
    BY <1>1, <1>2, <1>4, <1>7
  <1> HIDE DEF paid, whole
  <1>13. /\ Replenished(b, t) + second > due
         /\ Requested <= second => Replenished(b, t) >= due
    <2>1. Replenished(b, t) = Burst \/ Replenished(b, t) = tokens + paid
      BY <1>10 DEF paid
    <2> HIDE DEF due
    <2>2. QED
      BY <2>1, <1>2, <1>11, <1>12, ConfigAssumption
  <1>14. QED
    BY <1>13 DEF h, second

\* A refusal keeps every promise made before and makes one that it can keep.
LEMMA DenyRetry ==
    ASSUME RetryInv, NEW c \in Callers, NEW k \in Keys, Deny(c, k)
    PROVE  RetryHonest'
  <1> DEFINE old == BucketOf(k, now[c])
             tokens == Replenished(old, now[c])
             b == [tokens |-> tokens, updated_at |-> now[c]]
  <1>1. TypeOK /\ now[c] \in Nat /\ old \in Bucket /\ old.tokens <= Burst
    BY CheckTypes DEF RetryInv
  <1>2. tokens \in Nat /\ tokens <= Burst /\ tokens < Requested
    BY <1>1, ReplenishedBounds DEF Deny
  <1>3. k \notin DOMAIN buckets => tokens = Burst
    <2>1. old.tokens <= tokens /\ old.tokens \in Nat
      BY <1>1, ReplenishedBounds DEF Bucket
    <2>2. QED
      BY <1>2, <2>1, ConfigAssumption DEF BucketOf
  <1>4. b \in Bucket /\ Store(k, b)
    BY <1>1, <1>2 DEF Bucket, Deny
  <1>5. /\ k \in DOMAIN buckets' /\ buckets'[k] = b
        /\ DOMAIN buckets' = DOMAIN buckets \cup {k}
        /\ \A x \in DOMAIN buckets : x # k => buckets'[x] = buckets[x]
    BY <1>1, <1>2, <1>4, StoreLemma
  <1>6. promised' = [promised EXCEPT ![k] = @ \cup {now[c] + RetryAfter(tokens) * Second}]
    BY DEF Deny
  <1> HIDE DEF tokens, old
  <1>7. ASSUME NEW t \in Nat
        PROVE  /\ Replenished(b, t) >= Replenished(BucketOf(k, t), t)
               /\ Replenished(b, t) \in Nat /\ Replenished(BucketOf(k, t), t) \in Nat
    <2>1. BucketOf(k, t) \in Bucket /\ BucketOf(k, t).tokens <= Burst
      BY <1>1, ConfigAssumption DEF BucketOf, TypeOK, Bucket
    <2>2. /\ Replenished(b, t) \in Nat /\ Replenished(b, t) >= tokens
          /\ Replenished(BucketOf(k, t), t) \in Nat /\ Replenished(BucketOf(k, t), t) <= Burst
      BY <1>2, <1>4, <2>1, ReplenishedBounds
    <2>3. CASE k \in DOMAIN buckets
      <3>1. BucketOf(k, t) = old
        BY <2>3 DEF BucketOf, old
      <3>2. Replenished(b, t) >= Replenished(old, t)
        BY <1>1, RefusalKeepsPace DEF tokens
      <3>3. QED
        BY <2>2, <3>1, <3>2
    <2>4. CASE k \notin DOMAIN buckets
      BY <1>3, <2>2, <2>4, ConfigAssumption
    <2>5. QED
      BY <2>2, <2>3, <2>4
  <1> DEFINE due == MinOf(Burst, Requested)
  <1>8. due \in Nat /\ Rate * Second \in Nat
    BY ConfigAssumption DEF MinOf
  <1>9. ASSUME NEW x \in Keys, NEW t \in promised'[x]
        PROVE  /\ Replenished(BucketOf(x, t)', t) + Rate * Second > due
               /\ Requested <= Rate * Second => Replenished(BucketOf(x, t)', t) >= due
    <2>1. CASE x # k
      <3>1. t \in promised[x]
        BY <2>1, <1>1, <1>6 DEF TypeOK
      <3>2. BucketOf(x, t)' = BucketOf(x, t)
        BY <2>1, <1>5 DEF BucketOf
      <3>3. QED
        BY <3>1, <3>2 DEF RetryInv, RetryHonest
    <2>2. CASE x = k /\ t \in promised[k]
      <3>1. t \in Nat
        BY <2>2, <1>1 DEF TypeOK
      <3>2. /\ Replenished(BucketOf(k, t), t) + Rate * Second > due
            /\ Requested <= Rate * Second => Replenished(BucketOf(k, t), t) >= due
        BY <2>2 DEF RetryInv, RetryHonest
      <3>3. BucketOf(x, t)' = b
        BY <2>2, <1>5 DEF BucketOf
      <3> DEFINE found == Replenished(b, t)
                 before == Replenished(BucketOf(k, t), t)
                 second == Rate * Second
      <3>4. found >= before /\ found \in Nat /\ before \in Nat
        BY <3>1, <1>7
      <3> HIDE DEF found, before, second, due
      <3>5. found + second > due /\ (Requested <= second => found >= due)
        BY <3>2, <3>4, <1>8 DEF before, second
      <3>6. QED
        BY <3>3, <3>5 DEF found, second
    <2>3. CASE x = k /\ t = now[c] + RetryAfter(tokens) * Second
      <3>1. BucketOf(x, t)' = b
        BY <2>3, <1>5 DEF BucketOf
      <3>2. QED
        BY <2>3, <3>1, <1>1, <1>2, HeaderSuffices
    <2>4. x # k \/ t \in promised[k] \/ t = now[c] + RetryAfter(tokens) * Second
      BY <1>1, <1>6 DEF TypeOK
    <2>5. QED
      BY <2>1, <2>2, <2>3, <2>4
  <1>10. QED
    BY <1>9 DEF RetryHonest

\* An admission cancels the promises of its key and leaves the others alone.
LEMMA AdmitRetry ==
    ASSUME RetryInv, NEW c \in Callers, NEW k \in Keys, Admit(c, k)
    PROVE  RetryHonest'
  <1> DEFINE tokens == Replenished(BucketOf(k, now[c]), now[c])
             b == [tokens |-> tokens - Requested, updated_at |-> now[c]]
  <1>1. TypeOK /\ Store(k, b) /\ promised' = [promised EXCEPT ![k] = {}]
    BY DEF RetryInv, Admit
  <1>2. \A x \in Keys : x # k => promised'[x] = promised[x]
    BY <1>1 DEF TypeOK
  <1>3. promised'[k] = {}
    BY <1>1 DEF TypeOK
  <1>4. ASSUME NEW x \in Keys, x # k, NEW t PROVE BucketOf(x, t)' = BucketOf(x, t)
    BY <1>1, <1>4 DEF BucketOf, Store
  <1>5. QED
    BY <1>2, <1>3, <1>4 DEF RetryInv, RetryHonest

\* Retry-After is as good as its truncation allows, for every configuration that the
\* constructor accepts: a client that obeys it lacks less than a second's replenishment,
\* and nothing where a second pays for a request; threads do not change that.
THEOREM RetryIsHonest == Spec => []RetryHonest
  <1>1. Init => RetryInv
    BY DEF Init, RetryInv, TypeOK, RetryHonest
  <1>2. RetryInv /\ [Next]_vars => RetryInv'
    <2> SUFFICES ASSUME RetryInv, [Next]_vars PROVE RetryInv'
      OBVIOUS
    <2>1. CASE Tick
      BY <2>1 DEF Tick, RetryInv, TypeOK, RetryHonest, BucketOf
    <2>2. ASSUME NEW c \in Callers, NEW k \in Keys, Enter(c, k) PROVE RetryInv'
      BY <2>2 DEF Enter, RetryInv, TypeOK, RetryHonest, BucketOf
    <2>3. ASSUME NEW c \in Callers, NEW k \in Keys, Admit(c, k) PROVE RetryInv'
      BY <2>3, AdmitRetry, AdmitTypes DEF RetryInv
    <2>4. ASSUME NEW c \in Callers, NEW k \in Keys, Deny(c, k) PROVE RetryInv'
      BY <2>4, DenyRetry, DenyTypes DEF RetryInv
    <2>5. CASE UNCHANGED vars
      BY <2>5 DEF vars, RetryInv, TypeOK, RetryHonest, BucketOf
    <2>6. QED
      BY <2>1, <2>2, <2>3, <2>4, <2>5 DEF Next
  <1>3. RetryInv => RetryHonest
    BY DEF RetryInv
  <1>4. QED
    BY <1>1, <1>2, <1>3, PTL DEF Spec

================================================================================
