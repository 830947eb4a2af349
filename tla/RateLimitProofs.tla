-------------------------- MODULE RateLimitProofs --------------------------
(***************************************************************************)
(* The token bucket's promises, for every rate, burst and set of clients.  *)
(* Each comes from an inductive invariant on the bucket's level; the last  *)
(* needs a rate of at least one token per second, which is what rounding   *)
(* the Retry-After header to whole seconds costs.                          *)
(***************************************************************************)
EXTENDS RateLimit, TLAPS

USE DEF NoRetry, Buckets

\* A header of h >= 1 seconds is h * SecondTicks ticks, one second or more.
LEMMA HeaderTicks ==
  ASSUME NEW missing \in Nat
  PROVE  /\ RetryAfter(missing) * SecondTicks \in Nat
         /\ RetryAfter(missing) * SecondTicks >= SecondTicks
<1> DEFINE h == RetryAfter(missing)
<1>1. Rounded(missing, SecondTicks) \in Int
  BY RateAssumption DEF Rounded
<1>2. h \in Nat /\ h >= 1
  BY <1>1 DEF RetryAfter, Larger
<1>3. \A x \in Nat : x >= 1 => x * SecondTicks \in Nat /\ x * SecondTicks >= SecondTicks
  BY RateAssumption
<1> HIDE DEF h
<1>4. h * SecondTicks \in Nat /\ h * SecondTicks >= SecondTicks
  BY <1>2, <1>3
<1> QED BY <1>4 DEF h

\* A level is a natural number and no more than the burst.
LEMMA LevelType ==
  ASSUME TypeOK, NEW k \in Clients
  PROVE  /\ Bucket(k).tokens \in Nat /\ Bucket(k).updated \in Nat
         /\ Level(k) \in Nat /\ Level(k) <= Capacity
         /\ Level(k) = Smaller(Capacity, Bucket(k).tokens + (now - Bucket(k).updated))
<1>1. Bucket(k) \in [tokens : Nat, updated : Nat]
  BY RateAssumption DEF TypeOK, Bucket
<1>2. Bucket(k).updated <= now /\ now \in Nat
  BY DEF TypeOK
<1> QED BY <1>1, <1>2, RateAssumption DEF Level, Smaller, Larger

\* Writing one client's bucket gives it that level and leaves the others'.
LEMMA LevelAfterPut ==
  ASSUME TypeOK, NEW k \in Clients, NEW n \in Nat, n <= Capacity,
         Put(k, n), now' = now
  PROVE  /\ buckets' \in [Clients -> Buckets \cup {NoBucket}]
         /\ Bucket(k)' = [tokens |-> n, updated |-> now]
         /\ Level(k)' = n
         /\ \A j \in Clients \ {k} : Bucket(j)' = Bucket(j) /\ Level(j)' = Level(j)
<1>1. /\ buckets' \in [Clients -> Buckets \cup {NoBucket}]
      /\ buckets'[k] = [tokens |-> n, updated |-> now]
      /\ \A j \in Clients \ {k} : buckets'[j] = buckets[j]
  BY DEF TypeOK, Put
<1>2. [tokens |-> n, updated |-> now] # NoBucket
  BY RateAssumption DEF TypeOK
<1>3. Bucket(k)' = [tokens |-> n, updated |-> now]
  BY <1>1, <1>2 DEF Bucket
<1>4. Level(k)' = n
  BY <1>3, RateAssumption DEF Level, Smaller, Larger, TypeOK
<1>5. ASSUME NEW j \in Clients \ {k} PROVE Bucket(j)' = Bucket(j) /\ Level(j)' = Level(j)
  BY <1>1 DEF Bucket, Level
<1> QED BY <1>1, <1>3, <1>4, <1>5

\* A tick adds one unit to every level, up to the burst.
LEMMA LevelAfterTick ==
  ASSUME TypeOK, Tick, NEW k \in Clients
  PROVE  /\ Level(k)' = Smaller(Capacity, Level(k) + 1)
         /\ Bucket(k)'.updated <= now' /\ Bucket(k)'.tokens <= Capacity
<1>1. now' = now + 1 /\ buckets' = buckets /\ now \in Nat
  BY DEF Tick, TypeOK
<1>2. CASE buckets[k] = NoBucket
  <2>1. Bucket(k)' = [tokens |-> Capacity, updated |-> now + 1]
    BY <1>1, <1>2 DEF Bucket
  <2>2. Bucket(k) = [tokens |-> Capacity, updated |-> now]
    BY <1>2 DEF Bucket
  <2> QED BY <1>1, <2>1, <2>2, RateAssumption DEF Level, Smaller, Larger
<1>3. CASE buckets[k] # NoBucket
  <2>1. Bucket(k)' = Bucket(k)
    BY <1>1, <1>3 DEF Bucket
  <2>2. /\ Bucket(k).updated \in Nat /\ Bucket(k).updated <= now
        /\ Bucket(k).tokens \in Nat /\ Bucket(k).tokens <= Capacity
    BY LevelType DEF TypeOK
  <2> QED BY <1>1, <2>1, <2>2, RateAssumption DEF Level, Smaller, Larger
<1> QED BY <1>2, <1>3

-----------------------------------------------------------------------------

LEMMA TypeInit == Init => TypeOK
<1> SUFFICES ASSUME Init PROVE TypeOK
  OBVIOUS
<1>1. \A k \in Clients : Bucket(k) = [tokens |-> Capacity, updated |-> now]
  BY DEF Init, Bucket
<1> QED BY <1>1, RateAssumption DEF Init, TypeOK

LEMMA TypeStep == TypeOK /\ [Next]_vars => TypeOK'
<1> SUFFICES ASSUME TypeOK, [Next]_vars PROVE TypeOK'
  OBVIOUS
<1>1. ASSUME NEW k \in Clients, Admit(k) PROVE TypeOK'
  <2>1. Level(k) - TokenTicks \in Nat /\ Level(k) - TokenTicks <= Capacity
    BY <1>1, LevelType, RateAssumption DEF Admit
  <2>2. /\ buckets' \in [Clients -> Buckets \cup {NoBucket}]
        /\ \A j \in Clients : Bucket(j)'.updated <= now /\ Bucket(j)'.tokens <= Capacity
    BY <1>1, <2>1, LevelAfterPut DEF Admit, TypeOK
  <2>3. spent' \in [Clients -> Nat]
    BY <1>1, RateAssumption DEF Admit, TypeOK
  <2>4. admitted' \in [Clients -> Nat] /\ \A j \in Clients : admitted'[j] <= now
    BY <1>1 DEF Admit, TypeOK
  <2>5. retry' \in [Clients -> Nat \cup {NoRetry}]
    BY <1>1 DEF Admit, TypeOK
  <2> QED BY <1>1, <2>2, <2>3, <2>4, <2>5 DEF Admit, TypeOK
<1>2. ASSUME NEW k \in Clients, Refuse(k) PROVE TypeOK'
  <2>1. Level(k) \in Nat /\ Level(k) <= Capacity /\ TokenTicks - Level(k) \in Nat
    BY <1>2, LevelType, RateAssumption DEF Refuse
  <2>2. /\ buckets' \in [Clients -> Buckets \cup {NoBucket}]
        /\ \A j \in Clients : Bucket(j)'.updated <= now /\ Bucket(j)'.tokens <= Capacity
    BY <1>2, <2>1, LevelAfterPut DEF Refuse, TypeOK
  <2>3. now + RetryAfter(TokenTicks - Level(k)) * SecondTicks \in Nat
    BY <2>1, HeaderTicks DEF TypeOK
  <2> QED BY <1>2, <2>2, <2>3 DEF Refuse, TypeOK
<1>3. CASE Tick
  <2>1. \A j \in Clients : Bucket(j)'.updated <= now' /\ Bucket(j)'.tokens <= Capacity
    BY <1>3, LevelAfterTick
  <2> QED BY <1>3, <2>1 DEF Tick, TypeOK
<1>4. CASE OpenWindow
  BY <1>4 DEF OpenWindow, TypeOK, Bucket
<1>5. CASE UNCHANGED vars
  BY <1>5 DEF vars, TypeOK, Bucket
<1> QED BY <1>1, <1>2, <1>3, <1>4, <1>5 DEF Next

\* Type correctness for every rate, burst and set of clients.
THEOREM RateTypeCorrect == Spec => []TypeOK
<1> QED BY TypeInit, TypeStep, PTL DEF Spec

-----------------------------------------------------------------------------

LEMMA BucketInit == Init => BucketInv
<1> SUFFICES ASSUME Init, NEW k \in Clients
             PROVE  /\ spent[k] + Level(k) <= Capacity + (now - opened)
                    /\ Smaller(TokenTicks, now - admitted[k]) <= Level(k)
  BY DEF BucketInv, Allowance, Refilled
<1>1. Level(k) \in Nat /\ Level(k) <= Capacity
  BY TypeInit, LevelType
<1> QED BY <1>1, RateAssumption DEF Init, Smaller

LEMMA BucketStep == TypeOK /\ BucketInv /\ [Next]_vars => BucketInv'
<1> SUFFICES ASSUME TypeOK, BucketInv, [Next]_vars, NEW j \in Clients
             PROVE  /\ (spent[j] + Level(j) <= Capacity + (now - opened))'
                    /\ (Smaller(TokenTicks, now - admitted[j]) <= Level(j))'
  BY DEF BucketInv, Allowance, Refilled
<1>1. /\ spent[j] \in Nat /\ now \in Nat /\ opened \in Nat /\ opened <= now
      /\ admitted[j] \in Nat /\ admitted[j] <= now
      /\ Level(j) \in Nat /\ Level(j) <= Capacity
      /\ spent[j] + Level(j) <= Capacity + (now - opened)
      /\ Smaller(TokenTicks, now - admitted[j]) <= Level(j)
  BY LevelType DEF TypeOK, BucketInv, Allowance, Refilled
<1>2. ASSUME NEW k \in Clients, Admit(k)
      PROVE  /\ (spent[j] + Level(j) <= Capacity + (now - opened))'
             /\ (Smaller(TokenTicks, now - admitted[j]) <= Level(j))'
  <2>1. Level(k) - TokenTicks \in Nat /\ Level(k) - TokenTicks <= Capacity
    BY <1>2, LevelType, RateAssumption DEF Admit
  <2>2. /\ now' = now /\ opened' = opened
        /\ Level(j)' = IF j = k THEN Level(j) - TokenTicks ELSE Level(j)
    BY <1>2, <2>1, LevelAfterPut DEF Admit
  <2>3. /\ spent'[j] = IF j = k THEN spent[j] + TokenTicks ELSE spent[j]
        /\ admitted'[j] = IF j = k THEN now ELSE admitted[j]
    BY <1>2 DEF Admit, TypeOK
  <2> QED BY <1>1, <2>1, <2>2, <2>3, RateAssumption DEF Smaller
<1>3. ASSUME NEW k \in Clients, Refuse(k)
      PROVE  /\ (spent[j] + Level(j) <= Capacity + (now - opened))'
             /\ (Smaller(TokenTicks, now - admitted[j]) <= Level(j))'
  <2>1. Level(j)' = Level(j)
    BY <1>3, LevelType, LevelAfterPut DEF Refuse
  <2> QED BY <1>1, <1>3, <2>1 DEF Refuse
<1>4. CASE Tick
  <2>1. Level(j)' = Smaller(Capacity, Level(j) + 1)
    BY <1>4, LevelAfterTick
  <2> QED BY <1>1, <1>4, <2>1, RateAssumption DEF Tick, Smaller
<1>5. CASE OpenWindow
  <2>1. Level(j)' = Level(j) /\ spent'[j] = 0 /\ now' = now /\ opened' = now
    BY <1>5 DEF OpenWindow, Level, Bucket
  <2> QED BY <1>1, <1>5, <2>1, RateAssumption DEF OpenWindow
<1>6. CASE UNCHANGED vars
  BY <1>1, <1>6 DEF vars, Level, Bucket
<1> QED BY <1>2, <1>3, <1>4, <1>5, <1>6 DEF Next

\* The inductive invariant behind both bounds: nothing is granted that did
\* not refill, and nothing that refilled is lost.
THEOREM BucketsBalance == Spec => []BucketInv
<1> QED BY TypeInit, TypeStep, BucketInit, BucketStep, PTL DEF Spec

\* No window, wherever it starts, admits more than the burst and the rate
\* allow.
THEOREM WindowAlwaysBounded == Spec => []WindowBounded
<1>1. TypeOK /\ BucketInv => WindowBounded
  <2> SUFFICES ASSUME TypeOK, BucketInv, NEW k \in Clients
               PROVE  spent[k] <= Capacity + (now - opened)
    BY DEF WindowBounded
  <2>1. Level(k) \in Nat /\ spent[k] + Level(k) <= Capacity + (now - opened)
    BY LevelType DEF BucketInv, Allowance
  <2> QED BY <2>1, RateAssumption DEF TypeOK
<1> QED BY <1>1, RateTypeCorrect, BucketsBalance, PTL

\* A refused request costs the client nothing of what refills.
THEOREM RefusalsAlwaysFree == Spec => []RefusalsAreFree
<1>1. TypeOK /\ BucketInv => RefusalsAreFree
  <2> SUFFICES ASSUME TypeOK, BucketInv, NEW k \in Clients,
                      now - admitted[k] >= TokenTicks
               PROVE  Level(k) >= TokenTicks
    BY DEF RefusalsAreFree
  <2>1. Level(k) \in Nat /\ Smaller(TokenTicks, now - admitted[k]) <= Level(k)
    BY LevelType DEF BucketInv, Refilled
  <2> QED BY <2>1, RateAssumption DEF TypeOK, Smaller
<1> QED BY <1>1, RateTypeCorrect, BucketsBalance, PTL

-----------------------------------------------------------------------------

LEMMA PromisedStep ==
  ASSUME TokenTicks <= SecondTicks
  PROVE  TypeOK /\ Promised /\ [Next]_vars => Promised'
<1> SUFFICES ASSUME TypeOK, Promised, [Next]_vars, NEW j \in Clients,
                    retry'[j] # NoRetry
             PROVE  Level(j)' >= Smaller(TokenTicks, TokenTicks - (retry'[j] - now'))
  BY DEF Promised
<1>1. /\ now \in Nat /\ retry[j] \in Nat \cup {NoRetry}
      /\ Level(j) \in Nat /\ Level(j) <= Capacity
      /\ retry[j] # NoRetry =>
           Level(j) >= Smaller(TokenTicks, TokenTicks - (retry[j] - now))
  BY LevelType DEF TypeOK, Promised
<1>2. ASSUME NEW k \in Clients, Admit(k)
      PROVE  Level(j)' >= Smaller(TokenTicks, TokenTicks - (retry'[j] - now'))
  <2>1. Level(k) - TokenTicks \in Nat /\ Level(k) - TokenTicks <= Capacity
    BY <1>2, LevelType, RateAssumption DEF Admit
  <2>2. j # k /\ retry'[j] = retry[j] /\ now' = now
    BY <1>2 DEF Admit, TypeOK
  <2>3. Level(j)' = Level(j)
    BY <1>2, <2>1, <2>2, LevelAfterPut DEF Admit
  <2> QED BY <1>1, <2>2, <2>3
<1>3. ASSUME NEW k \in Clients, Refuse(k)
      PROVE  Level(j)' >= Smaller(TokenTicks, TokenTicks - (retry'[j] - now'))
  <2>1. Level(j)' = Level(j) /\ now' = now
    BY <1>3, LevelType, LevelAfterPut DEF Refuse
  <2>2. CASE j # k
    <3>1. retry'[j] = retry[j]
      BY <1>3, <2>2 DEF Refuse, TypeOK
    <3> QED BY <1>1, <2>1, <3>1
  <2>3. CASE j = k
    <3> DEFINE ticks == RetryAfter(TokenTicks - Level(k)) * SecondTicks
    <3>1. TokenTicks - Level(k) \in Nat
      BY <1>1, <1>3, <2>3, RateAssumption DEF Refuse
    <3>2. ticks \in Nat /\ ticks >= SecondTicks
      BY <3>1, HeaderTicks
    <3>3. retry'[j] = now + ticks
      BY <1>3, <2>3 DEF Refuse, TypeOK
    <3> HIDE DEF ticks
    <3> QED BY <1>1, <2>1, <3>2, <3>3, RateAssumption DEF Smaller
  <2> QED BY <2>2, <2>3
<1>4. CASE Tick
  <2>1. Level(j)' = Smaller(Capacity, Level(j) + 1) /\ now' = now + 1
        /\ retry'[j] = retry[j]
    BY <1>4, LevelAfterTick DEF Tick
  <2> QED BY <1>1, <2>1, RateAssumption DEF Smaller
<1>5. CASE OpenWindow
  BY <1>1, <1>5 DEF OpenWindow, Level, Bucket
<1>6. CASE UNCHANGED vars
  BY <1>1, <1>6 DEF vars, Level, Bucket
<1> QED BY <1>2, <1>3, <1>4, <1>5, <1>6 DEF Next

\* At one token per second or more, a client that waits as Retry-After says
\* is admitted.
THEOREM RetryAfterAlwaysSuffices ==
  ASSUME TokenTicks <= SecondTicks
  PROVE  Spec => []RetryAfterSuffices
<1>1. Init => Promised
  BY DEF Init, Promised
<1>2. TypeOK /\ Promised /\ [Next]_vars => Promised'
  BY PromisedStep
<1>3. TypeOK /\ Promised => RetryAfterSuffices
  <2> SUFFICES ASSUME TypeOK, Promised, NEW k \in Clients,
                      retry[k] # NoRetry, now >= retry[k]
               PROVE  Level(k) >= TokenTicks
    BY DEF RetryAfterSuffices
  <2>1. Level(k) >= Smaller(TokenTicks, TokenTicks - (retry[k] - now))
    BY DEF Promised
  <2> QED BY <2>1, LevelType, RateAssumption DEF TypeOK, Smaller
<1> QED BY <1>1, <1>2, <1>3, TypeInit, TypeStep, PTL DEF Spec
=============================================================================
