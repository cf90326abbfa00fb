------------------------------ MODULE RateLimiter ------------------------------
(***************************************************************************)
(* app/rate_limit.py: TokenBucketRateLimiter.check, one token bucket per   *)
(* consumer key.  The method reads monotonic() BEFORE it takes the lock,   *)
(* so a check is two steps: Enter (the clock is read) and Admit or Deny    *)
(* (everything under the lock).  The gateway calls it from coroutines of   *)
(* one event loop (one element in Callers); the Lock of the class is there *)
(* for several threads (more elements).                                    *)
(*                                                                         *)
(* Time is counted in ticks, Second of them in a second; Rate is the       *)
(* number of token units replenished per tick, so that the floats of the   *)
(* code are integers here.                                                 *)
(***************************************************************************)
EXTENDS Integers, Sequences

CONSTANTS Keys,       \* consumer.rate_limit_key values
          Callers,    \* threads of control that may be inside check()
          None,       \* "this caller is not inside check()"
          Burst,      \* burst_capacity
          Rate,       \* replenish_rate, per tick
          Requested,  \* requested_tokens
          Second,     \* ticks in a second
          MaxClock    \* bound on the clock, for model checking only

\* __init__ raises ValueError unless the three settings are positive.  It does
\* not compare them with each other.
ASSUME ConfigAssumption ==
    /\ Burst \in Nat \ {0}
    /\ Rate \in Nat \ {0}
    /\ Requested \in Nat \ {0}
    /\ Second \in Nat \ {0}
    /\ MaxClock \in Nat
    /\ None \notin Keys

VARIABLES
    clock,     \* what monotonic() returns
    buckets,   \* _buckets: a dict, its domain is the set of keys seen so far
    checking,  \* per caller: the key it is checking, or None
    now,       \* per caller: the local variable now of check()
    grants,    \* history, per key: when each admission was granted
    rewound,   \* history, per key: ticks by which updated_at was moved back
    promised   \* history, per key: when the clients refused since the last
               \* admission were told to come back

vars == <<clock, buckets, checking, now, grants, rewound, promised>>

Bucket == [tokens : Nat, updated_at : Nat]

MaxOf(a, b) == IF a >= b THEN a ELSE b
MinOf(a, b) == IF a <= b THEN a ELSE b

--------------------------------------------------------------------------------
(* The arithmetic of check() *)

\* Mutant: a new bucket is stamped with a clock read of its own, under the lock.
BucketOf_FreshClock(k, t) ==
    IF k \in DOMAIN buckets THEN buckets[k]
                            ELSE [tokens |-> Burst, updated_at |-> clock]

\* The bucket check() works on: the stored one, or a new full one.
BucketOf(k, t) ==
    IF k \in DOMAIN buckets THEN buckets[k]
                            ELSE [tokens |-> Burst, updated_at |-> t]

\* Mutant: min(burst_capacity, ...) is forgotten.
Replenished_Uncapped(b, t) == b.tokens + MaxOf(0, t - b.updated_at) * Rate

\* The tokens of bucket b once it is replenished at time t.
Replenished(b, t) == MinOf(Burst, b.tokens + MaxOf(0, t - b.updated_at) * Rate)

Store(k, b) ==
    buckets' = [x \in DOMAIN buckets \cup {k} |-> IF x = k THEN b ELSE buckets[x]]

\* The Retry-After header, in seconds: at least one, otherwise truncated.
RetryAfter(tokens) == MaxOf(1, (Requested - tokens) \div (Rate * Second))

--------------------------------------------------------------------------------
Init ==
    /\ clock = 0
    /\ buckets = [k \in {} |-> [tokens |-> 0, updated_at |-> 0]]
    /\ checking = [c \in Callers |-> None]
    /\ now = [c \in Callers |-> 0]
    /\ grants = [k \in Keys |-> <<>>]
    /\ rewound = [k \in Keys |-> 0]
    /\ promised = [k \in Keys |-> {}]

Tick ==
    /\ clock < MaxClock
    /\ clock' = clock + 1
    /\ UNCHANGED <<buckets, checking, now, grants, rewound, promised>>

\* A caller enters check() and reads the clock, outside the lock.
Enter(c, k) ==
    /\ checking[c] = None
    /\ checking' = [checking EXCEPT ![c] = k]
    /\ now' = [now EXCEPT ![c] = clock]
    /\ UNCHANGED <<clock, buckets, grants, rewound, promised>>

\* What both outcomes share: the caller leaves check(), and updated_at becomes
\* its now, even when that lies before the updated_at of another caller.
Leave(c, k) ==
    /\ checking' = [checking EXCEPT ![c] = None]
    /\ now' = [now EXCEPT ![c] = 0]
    /\ rewound' = [rewound EXCEPT
                      ![k] = @ + MaxOf(0, BucketOf(k, now[c]).updated_at - now[c])]
    /\ UNCHANGED clock

\* Mutant: an admission does not write updated_at.
Admit_KeepsInstant(c, k) ==
    LET b == BucketOf(k, now[c])
        tokens == Replenished(b, now[c])
    IN  /\ checking[c] = k
        /\ tokens >= Requested
        /\ Store(k, [b EXCEPT !.tokens = tokens - Requested])
        /\ Leave(c, k)
        /\ grants' = [grants EXCEPT ![k] = Append(@, now[c] + rewound'[k])]
        /\ promised' = [promised EXCEPT ![k] = {}]

Admit(c, k) ==
    LET tokens == Replenished(BucketOf(k, now[c]), now[c])
    IN  /\ checking[c] = k
        /\ tokens >= Requested
        /\ Store(k, [tokens |-> tokens - Requested, updated_at |-> now[c]])
        /\ Leave(c, k)
        /\ grants' = [grants EXCEPT ![k] = Append(@, now[c] + rewound'[k])]
        /\ promised' = [promised EXCEPT ![k] = {}]

\* Mutant: a refusal writes updated_at and drops what was replenished.
Deny_DropsRefill(c, k) ==
    LET b == BucketOf(k, now[c])
        tokens == Replenished(b, now[c])
    IN  /\ checking[c] = k
        /\ tokens < Requested
        /\ Store(k, [b EXCEPT !.updated_at = now[c]])
        /\ Leave(c, k)
        /\ promised' = [promised EXCEPT
                           ![k] = @ \cup {now[c] + RetryAfter(tokens) * Second}]
        /\ UNCHANGED grants

Deny(c, k) ==
    LET tokens == Replenished(BucketOf(k, now[c]), now[c])
    IN  /\ checking[c] = k
        /\ tokens < Requested
        /\ Store(k, [tokens |-> tokens, updated_at |-> now[c]])
        /\ Leave(c, k)
        /\ promised' = [promised EXCEPT
                           ![k] = @ \cup {now[c] + RetryAfter(tokens) * Second}]
        /\ UNCHANGED grants

Next ==
    \/ Tick
    \/ \E c \in Callers, k \in Keys : Enter(c, k) \/ Admit(c, k) \/ Deny(c, k)

Spec == Init /\ [][Next]_vars

--------------------------------------------------------------------------------
(* Properties *)

TypeOK ==
    /\ clock \in Nat
    /\ DOMAIN buckets \subseteq Keys
    /\ \A k \in DOMAIN buckets : buckets[k] \in Bucket /\ buckets[k].tokens <= Burst
    /\ checking \in [Callers -> Keys \cup {None}]
    /\ now \in [Callers -> Nat]
    /\ grants \in [Keys -> Seq(Nat)]
    /\ rewound \in [Keys -> Nat]
    /\ promised \in [Keys -> SUBSET Nat]

\* No burst beats the configuration: whatever two admissions of one key are
\* picked, all that was admitted from the first to the second is paid for by
\* one full bucket and the replenishment of the time between them.  Where checks
\* overlap in threads, one that read the clock before the other moves updated_at
\* back (line 73), and the ticks it moves it back by are paid out twice: grants
\* holds the instant of an admission plus what was rewound until then.
WindowBound ==
    \A k \in Keys : \A j \in 1..Len(grants[k]) : \A i \in 1..j :
        (j - i + 1) * Requested <= Burst + Rate * (grants[k][j] - grants[k][i])

\* No tick is paid out twice.  True of the gateway, whose checks run on one
\* event loop, and false of threads: the clock is read before the lock.
NoTickPaidTwice == \A k \in Keys : rewound[k] = 0

\* What the Retry-After header of a refusal is worth, however many refusals there are before
\* the client comes back, as long as no other request of the key is admitted.  The header is
\* truncated (main.py:247), so the client may find less than it needs, but short of less
\* than one second's replenishment, and of nothing where a second pays for a request.  With
\* a burst below a request, which no check rules out, it finds a full bucket that is not
\* enough.
RetryHonest ==
    \A k \in Keys : \A t \in promised[k] :
        LET found == Replenished(BucketOf(k, t), t)
            due == MinOf(Burst, Requested)
        IN  /\ found + Rate * Second > due
            /\ Requested <= Rate * Second => found >= due

================================================================================
