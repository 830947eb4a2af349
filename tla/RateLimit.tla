----------------------------- MODULE RateLimit -----------------------------
(***************************************************************************)
(* The token bucket that guards /query and /stream, one bucket per client. *)
(* The middleware reads the clock and checks the bucket on the event loop  *)
(* without awaiting in between, so checks come in the order of their       *)
(* times.                                                                  *)
(*                                                                         *)
(* Time is counted in the ticks in which a bucket refills by one unit, and *)
(* tokens in those units: a token is TokenTicks units, one second is       *)
(* SecondTicks, and the configured rate is SecondTicks / TokenTicks tokens *)
(* per second.  The code's floats are exact here.                          *)
(***************************************************************************)
EXTENDS Integers

CONSTANTS
  Clients,        \* values of client_key
  NoBucket,       \* a client not seen yet
  TokenTicks,     \* ticks in which one token refills: 1 / rate
  SecondTicks,    \* ticks in a second
  Capacity,       \* RATE_LIMIT_BURST, in units
  MaxTime         \* bound: ticks

ASSUME RateAssumption ==
  /\ TokenTicks \in Nat \ {0}
  /\ SecondTicks \in Nat \ {0}
  /\ Capacity \in Nat
  /\ Capacity >= TokenTicks
  /\ MaxTime \in Nat
  /\ NoBucket \notin [tokens : Nat, updated : Nat]

VARIABLES
  now,        \* time.monotonic()
  buckets,    \* client -> its bucket
  opened,     \* when the window an observer looks at was opened
  spent,      \* client -> units it was admitted for in that window
  admitted,   \* client -> when it was last admitted (0 if never)
  retry       \* client -> when its last 429 told it to come back

vars == <<now, buckets, opened, spent, admitted, retry>>

Buckets == [tokens : Nat, updated : Nat]
NoRetry == -1

Smaller(a, b) == IF a <= b THEN a ELSE b
Larger(a, b) == IF a >= b THEN a ELSE b

-----------------------------------------------------------------------------
(* TokenBucketLimiter.check.                                               *)

Bucket(k) ==
  IF buckets[k] = NoBucket THEN [tokens |-> Capacity, updated |-> now]
                           ELSE buckets[k]

\* Mutant of Level: the refill is not cut off at the burst.
LevelUncapped(k) == Bucket(k).tokens + Larger(0, now - Bucket(k).updated)

\* What the bucket holds now: refilled since its update, at most the burst.
Level(k) ==
  Smaller(Capacity, Bucket(k).tokens + Larger(0, now - Bucket(k).updated))

Put(k, tokens) ==
  buckets' = [buckets EXCEPT ![k] = [tokens |-> tokens, updated |-> now]]

\* round(): to the nearest whole number, a half to the even one.
Rounded(a, b) ==
  LET q == a \div b
      r == a % b
  IN  IF 2 * r < b \/ (2 * r = b /\ q % 2 = 0) THEN q ELSE q + 1

\* Mutant of RetryAfter: without the lower bound of one second.
RetryAfterFromZero(missing) == Rounded(missing, SecondTicks)

\* The Retry-After header, in seconds: max(1, round((1 - tokens) / rate)).
RetryAfter(missing) == Larger(1, Rounded(missing, SecondTicks))

Init ==
  /\ now = 0
  /\ buckets = [k \in Clients |-> NoBucket]
  /\ opened = 0
  /\ spent = [k \in Clients |-> 0]
  /\ admitted = [k \in Clients |-> 0]
  /\ retry = [k \in Clients |-> NoRetry]

\* Mutant of Admit: the bucket's time is left where it was.
AdmitKeepingTime(k) ==
  /\ Level(k) >= TokenTicks
  /\ buckets' = [buckets EXCEPT ![k] = [tokens |-> Level(k) - TokenTicks,
                                       updated |-> Bucket(k).updated]]
  /\ spent' = [spent EXCEPT ![k] = @ + TokenTicks]
  /\ admitted' = [admitted EXCEPT ![k] = now]
  /\ retry' = [retry EXCEPT ![k] = NoRetry]
  /\ UNCHANGED <<now, opened>>

Admit(k) ==
  /\ Level(k) >= TokenTicks
  /\ Put(k, Level(k) - TokenTicks)
  /\ spent' = [spent EXCEPT ![k] = @ + TokenTicks]
  /\ admitted' = [admitted EXCEPT ![k] = now]
  /\ retry' = [retry EXCEPT ![k] = NoRetry]
  /\ UNCHANGED <<now, opened>>

\* Mutant of Refuse: a refused request also forfeits what had refilled.
RefuseForfeiting(k) ==
  /\ Level(k) < TokenTicks
  /\ Put(k, 0)
  /\ retry' = [retry EXCEPT ![k] =
                 now + RetryAfter(TokenTicks - Level(k)) * SecondTicks]
  /\ UNCHANGED <<now, opened, spent, admitted>>

\* A refusal keeps the refill and its time, and answers 429 with Retry-After.
Refuse(k) ==
  /\ Level(k) < TokenTicks
  /\ Put(k, Level(k))
  /\ retry' = [retry EXCEPT ![k] =
                 now + RetryAfter(TokenTicks - Level(k)) * SecondTicks]
  /\ UNCHANGED <<now, opened, spent, admitted>>

Tick ==
  /\ now < MaxTime
  /\ now' = now + 1
  /\ UNCHANGED <<buckets, opened, spent, admitted, retry>>

\* An observer starts to count admissions, at any moment.
OpenWindow ==
  /\ opened' = now
  /\ spent' = [k \in Clients |-> 0]
  /\ UNCHANGED <<now, buckets, admitted, retry>>

Next ==
  \/ \E k \in Clients : Admit(k) \/ Refuse(k)
  \/ Tick
  \/ OpenWindow

Spec == Init /\ [][Next]_vars

-----------------------------------------------------------------------------
(* Properties.                                                             *)

\* Times and amounts are natural numbers and no update lies in the future.
TypeOK ==
  /\ now \in Nat
  /\ buckets \in [Clients -> Buckets \cup {NoBucket}]
  /\ opened \in Nat
  /\ opened <= now
  /\ spent \in [Clients -> Nat]
  /\ admitted \in [Clients -> Nat]
  /\ \A k \in Clients : admitted[k] <= now
  /\ retry \in [Clients -> Nat \cup {NoRetry}]
  /\ \A k \in Clients : Bucket(k).updated <= now /\ Bucket(k).tokens <= Capacity

\* In no window, wherever it starts, is a client admitted more often than the
\* burst plus the rate allow ("a client cannot spend a whole window's budget
\* at 11:59:59 and again at 12:00:00").
WindowBounded ==
  \A k \in Clients : spent[k] <= Capacity + (now - opened)

\* A client not admitted for the time one token takes has a token, however
\* many of its requests were refused meanwhile.
RefusalsAreFree ==
  \A k \in Clients : now - admitted[k] >= TokenTicks => Level(k) >= TokenTicks

\* A client that comes back when Retry-After told it to is admitted ("this
\* tells it how long to wait instead of guessing").
RetryAfterSuffices ==
  \A k \in Clients :
    retry[k] # NoRetry /\ now >= retry[k] => Level(k) >= TokenTicks

\* The strengthenings that are inductive: what was spent and what is left
\* together stay within the window's allowance; what has refilled since the
\* last admission is there; a 429 whose time has come has its token, and one
\* whose time has not come has all but what refills until then.
Allowance ==
  \A k \in Clients : spent[k] + Level(k) <= Capacity + (now - opened)
Refilled ==
  \A k \in Clients : Smaller(TokenTicks, now - admitted[k]) <= Level(k)
Promised ==
  \A k \in Clients :
    retry[k] # NoRetry =>
      Level(k) >= Smaller(TokenTicks, TokenTicks - (retry[k] - now))

\* The two together: with the type invariant they are inductive.
BucketInv == Allowance /\ Refilled
=============================================================================
