----------------------------- MODULE TokenBuckets -----------------------------
(***************************************************************************)
(* What the rate limiter promises: every caller has a bucket, always, that *)
(* refills with time up to its burst, and a request is admitted when each  *)
(* bucket it is charged to has the room.  How buckets are stored, when     *)
(* they are refilled and which are forgotten is not visible here.          *)
(***************************************************************************)
EXTENDS Integers, FiniteSets

CONSTANTS
    Bucket,      \* names of the buckets
    Request,     \* requests
    BurstOf(_),  \* the capacity of a bucket
    RateOf(_),   \* what a bucket gains in one tick of the clock
    MaxCost,     \* the largest batch
    Crowd        \* a caller with room may be refused while so many others have drained theirs

VARIABLES
    level,       \* what each bucket holds
    verdict      \* what each request was told

bucketVars == <<level, verdict>>

BucketInit ==
    /\ level = [b \in Bucket |-> BurstOf(b)]
    /\ verdict = [r \in Request |-> "none"]

Least(m, n) == IF m < n THEN m ELSE n

Refill ==
    /\ level' = [b \in Bucket |-> Least(BurstOf(b), level[b] + RateOf(b))]
    /\ UNCHANGED verdict

Charged(B, cost) ==
    [b \in Bucket |-> IF b \in B /\ level[b] >= cost THEN level[b] - cost ELSE level[b]]

Decide(r, B, cost) ==
    /\ verdict[r] = "none"
    /\ level' = Charged(B, cost)
    /\ verdict' = [verdict EXCEPT ![r] =
                     IF \A b \in B : level[b] >= cost THEN "admitted" ELSE "refused"]

TurnAway(r, B, cost) ==
    /\ verdict[r] = "none"
    /\ Cardinality({b \in Bucket : Charged(B, cost)[b] < BurstOf(b)}) >= Crowd
    /\ level' = Charged(B, cost)
    /\ verdict' = [verdict EXCEPT ![r] = "refused"]

BucketNext ==
    \/ Refill
    \/ \E r \in Request, B \in SUBSET Bucket, cost \in 1 .. MaxCost :
         Decide(r, B, cost) \/ TurnAway(r, B, cost)

BucketSpec == BucketInit /\ [][BucketNext]_bucketVars
===============================================================================
