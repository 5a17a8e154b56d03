-------------------------- MODULE HttpService_proofs ---------------------------
(***************************************************************************)
(* Theorems about HttpService: the limiter implements its abstract         *)
(* specification, and Retry-After and the drain keep their promises, for   *)
(* every number of requests, every set of callers, every capacity, rate,   *)
(* cap and grace period.                                                   *)
(***************************************************************************)
EXTENDS HttpService, FiniteSetTheorems, TLAPS

(* The arithmetic of the buckets *)

LEMMA Numbers ==
    /\ Burst \in Nat \ {0} /\ Rate \in Nat \ {0} /\ MaxTrackedKeys \in Nat \ {0}
    /\ MaxRetryAfter \in Nat \ {0} /\ MaxCost \in Nat \ {0} /\ ReadyTtl \in Nat \ {0}
    /\ ProbeTimeout \in Nat \ {0} /\ AnonymousBurst \in Nat /\ AnonymousRate \in Nat
    /\ Grace \in Nat /\ MaxTime \in Nat /\ MaxRequests \in Nat /\ MaxPolls \in Nat
    /\ Anonymous \notin Caller /\ Shared \notin Caller /\ Anonymous # Shared
BY ServiceAssumption DEF Anonymous, Shared

LEMMA Elapsed ==
    ASSUME NEW m \in Nat, NEW n \in Nat, m <= n, NEW r \in Nat
    PROVE  /\ (n - m) * r \in Nat
           /\ \A k : k = n + 1 => (k - m) * r = (n - m) * r + r
           /\ (n - n) * r = 0
BY SMT

LEMMA Ceiling ==
    ASSUME NEW d \in Nat, NEW r \in Nat \ {0}
    PROVE  /\ (d + r - 1) \div r \in Int
           /\ ((d + r - 1) \div r) * r >= d
BY SMT

LEMMA NoLessThanNothing ==
    ASSUME NEW q \in Int, q <= 0, NEW r \in Nat
    PROVE  q * r <= 0
BY SMT

(* The seconds a refused caller is told refill what it lacks, unless the     *)
(* ceiling on them cuts them short.                                          *)
LEMMA RetryAfterRefills ==
    ASSUME NEW d \in Nat, NEW r \in Nat \ {0}
    PROVE  /\ RetryAfter(d, r) \in Nat
           /\ d <= MaxRetryAfter * r => RetryAfter(d, r) * r >= d
<1> DEFINE q == (d + r - 1) \div r
<1>1. q \in Int /\ q * r >= d
  BY Ceiling
<1>2. RetryAfter(d, r) = Lesser(MaxRetryAfter, Greater(1, q))
  BY DEF RetryAfter
<1> HIDE DEF q
<1>3. CASE q <= 0
  <2>1. q * r <= 0
    BY <1>1, <1>3, NoLessThanNothing
  <2>2. d = 0 /\ RetryAfter(d, r) = Lesser(MaxRetryAfter, 1)
    <3>1. q * r \in Int
      BY <1>1
    <3> QED
      BY <1>1, <1>2, <1>3, <2>1, <3>1 DEF Greater
  <2>3. Lesser(MaxRetryAfter, 1) = 1
    BY Numbers DEF Lesser
  <2> QED
    BY <2>2, <2>3
<1>4. CASE q >= 1
  <2>1. RetryAfter(d, r) = Lesser(MaxRetryAfter, q)
    BY <1>1, <1>2, <1>4 DEF Greater
  <2>2. RetryAfter(d, r) = MaxRetryAfter \/ RetryAfter(d, r) = q
    BY <2>1 DEF Lesser
  <2> QED
    BY <1>1, <1>4, <2>2, Numbers
<1> QED
  BY <1>1, <1>3, <1>4

(* A bucket that is looked at: it holds no more than its burst, and looking  *)
(* at it again in the same tick changes nothing.                             *)
LEMMA RefillFacts ==
    ASSUME now \in 0 .. MaxTime, NEW b \in KeyBucket, b.last <= now, NEW rate \in Nat, NEW burst \in Nat
    PROVE  /\ Refilled(b, rate, burst) \in KeyBucket
           /\ Refilled(b, rate, burst).last = now
           /\ Refilled(b, rate, burst).tokens <= burst
           /\ Refilled(b, rate, burst).tokens = Lesser(burst, b.tokens + (now - b.last) * rate)
<1>1. b.tokens \in Nat /\ b.last \in Nat /\ now \in Nat
  BY Numbers DEF KeyBucket
<1>2. (now - b.last) * rate \in Nat
  BY <1>1, Elapsed
<1> DEFINE t == Lesser(burst, b.tokens + (now - b.last) * rate)
<1>3. t \in Nat /\ t <= burst
  BY <1>1, <1>2 DEF Lesser
<1>4. Refilled(b, rate, burst) = [tokens |-> t, last |-> now]
  BY DEF Refilled
<1> HIDE DEF t
<1>5. Refilled(b, rate, burst) \in KeyBucket
  BY <1>3, <1>4 DEF KeyBucket
<1> QED
  BY <1>3, <1>4, <1>5 DEF t

LEMMA RefilledNow ==
    ASSUME now \in 0 .. MaxTime, NEW b \in KeyBucket, b.last = now, NEW rate \in Nat,
           NEW burst \in Nat, b.tokens <= burst
    PROVE  Refilled(b, rate, burst).tokens = b.tokens
<1>1. b.tokens \in Nat /\ now \in Nat
  BY Numbers DEF KeyBucket
<1>2. (now - b.last) * rate = 0
  BY <1>1, Elapsed
<1> QED
  BY <1>1, <1>2 DEF Refilled, Lesser

LEMMA DecisionFacts ==
    ASSUME NEW b \in KeyBucket, NEW rate \in Nat \ {0}, NEW cost \in Nat \ {0}
    PROVE  LET d == Decision(b, rate, cost) IN
           /\ d.allowed \in BOOLEAN /\ (d.allowed <=> b.tokens >= cost)
           /\ d.bucket \in KeyBucket /\ d.bucket.last = b.last
           /\ d.bucket.tokens = IF b.tokens >= cost THEN b.tokens - cost ELSE b.tokens
           /\ d.retryAfter \in Nat
           /\ b.tokens < cost => d.retryAfter = RetryAfter(cost - b.tokens, rate)
<1>1. b.tokens \in Nat
  BY DEF KeyBucket
<1>2. CASE b.tokens >= cost
  <2> DEFINE c == [b EXCEPT !.tokens = b.tokens - cost]
  <2>1. Decision(b, rate, cost) = [allowed |-> TRUE, retryAfter |-> 0, bucket |-> c]
    BY <1>2 DEF Decision
  <2>2. c \in KeyBucket /\ c.last = b.last /\ c.tokens = b.tokens - cost
    BY <1>1, <1>2 DEF KeyBucket
  <2> HIDE DEF c
  <2> QED
    BY <1>1, <1>2, <2>1, <2>2
<1>3. CASE b.tokens < cost
  <2>1. Decision(b, rate, cost) = [allowed |-> FALSE, retryAfter |-> RetryAfter(cost - b.tokens, rate), bucket |-> b]
    BY <1>1, <1>3 DEF Decision
  <2>2. RetryAfter(cost - b.tokens, rate) \in Nat
    BY <1>1, <1>3, RetryAfterRefills
  <2> QED
    BY <1>1, <1>3, <2>1, <2>2
<1> QED
  BY <1>1, <1>2, <1>3
-----------------------------------------------------------------------------
(* The map of the limiter *)

MapOK(map) ==
    /\ DOMAIN map \subseteq Key /\ map \in [DOMAIN map -> KeyBucket]
    /\ IsFiniteSet(DOMAIN map) /\ Cardinality(DOMAIN map) <= MaxTrackedKeys
    /\ \A k \in DOMAIN map : map[k].last <= now

(* What a caller has left: its bucket, or a full one when it has none.       *)
LevelIn(map, k) ==
    IF k \in DOMAIN map THEN Refilled(map[k], Rate, Burst).tokens ELSE Burst

SameLevels(map, new) == \A k \in Key : LevelIn(new, k) = LevelIn(map, k)

LEMMA LevelBounds ==
    ASSUME now \in 0 .. MaxTime, NEW map, MapOK(map), NEW k \in Key
    PROVE  LevelIn(map, k) \in Nat /\ LevelIn(map, k) <= Burst
<1>1. CASE k \in DOMAIN map
  <2>1. map[k] \in KeyBucket /\ map[k].last <= now
    BY <1>1 DEF MapOK
  <2>2. Refilled(map[k], Rate, Burst) \in KeyBucket /\ Refilled(map[k], Rate, Burst).tokens <= Burst
    BY <2>1, RefillFacts, Numbers
  <2> QED
    BY <1>1, <2>2 DEF LevelIn, KeyBucket
<1>2. CASE k \notin DOMAIN map
  BY <1>2, Numbers DEF LevelIn
<1> QED
  BY <1>1, <1>2

(* The sweep drops only what is as good as absent.                           *)
LEMMA SweptFacts ==
    ASSUME now \in 0 .. MaxTime, NEW map, MapOK(map)
    PROVE  /\ MapOK(Swept(map)) /\ SameLevels(map, Swept(map))
           /\ DOMAIN Swept(map) \subseteq DOMAIN map
           /\ \A k \in DOMAIN Swept(map) : Swept(map)[k].last = now /\ LevelIn(map, k) < Burst
           /\ \A k \in DOMAIN map : k \notin DOMAIN Swept(map) => LevelIn(map, k) = Burst
<1> DEFINE full == {k \in DOMAIN map : Refilled(map[k], Rate, Burst).tokens >= Burst}
           new == [k \in DOMAIN map \ full |-> Refilled(map[k], Rate, Burst)]
<1>1. Swept(map) = new
  BY DEF Swept
<1>2. \A k \in DOMAIN map :
        /\ Refilled(map[k], Rate, Burst) \in KeyBucket
        /\ Refilled(map[k], Rate, Burst).last = now
        /\ Refilled(map[k], Rate, Burst).tokens <= Burst
        /\ Refilled(map[k], Rate, Burst).tokens \in Nat
  <2> SUFFICES ASSUME NEW k \in DOMAIN map
               PROVE  /\ Refilled(map[k], Rate, Burst) \in KeyBucket
                      /\ Refilled(map[k], Rate, Burst).last = now
                      /\ Refilled(map[k], Rate, Burst).tokens <= Burst
                      /\ Refilled(map[k], Rate, Burst).tokens \in Nat
    OBVIOUS
  <2>1. map[k] \in KeyBucket /\ map[k].last <= now
    BY DEF MapOK
  <2>2. /\ Refilled(map[k], Rate, Burst) \in KeyBucket
        /\ Refilled(map[k], Rate, Burst).last = now
        /\ Refilled(map[k], Rate, Burst).tokens <= Burst
    BY <2>1, RefillFacts, Numbers
  <2> QED
    BY <2>2 DEF KeyBucket
<1>3. DOMAIN new = DOMAIN map \ full /\ \A k \in DOMAIN new : new[k] = Refilled(map[k], Rate, Burst)
  OBVIOUS
<1>4. \A k \in DOMAIN map : k \in DOMAIN new <=> LevelIn(map, k) < Burst
  BY <1>2, <1>3, Numbers DEF LevelIn
<1> HIDE DEF full, new
<1>5. DOMAIN new \subseteq DOMAIN map
  BY <1>3
<1>6. MapOK(new)
  <2>1. IsFiniteSet(DOMAIN new) /\ Cardinality(DOMAIN new) <= Cardinality(DOMAIN map)
    BY <1>5, FS_Subset DEF MapOK
  <2>2. Cardinality(DOMAIN new) \in Nat /\ Cardinality(DOMAIN map) \in Nat
    BY <2>1, FS_CardinalityType DEF MapOK
  <2>3. Cardinality(DOMAIN new) <= MaxTrackedKeys
    BY <2>1, <2>2, Numbers DEF MapOK
  <2>4. \A k \in DOMAIN new : new[k] \in KeyBucket /\ new[k].last <= now
    BY <1>2, <1>3, <1>5, Numbers
  <2>5. new \in [DOMAIN new -> KeyBucket]
    BY <1>3, <2>4 DEF new
  <2> QED
    BY <1>5, <2>1, <2>3, <2>4, <2>5 DEF MapOK
<1>7. ASSUME NEW k \in Key PROVE LevelIn(new, k) = LevelIn(map, k)
  <2>1. CASE k \in DOMAIN new
    <3>1. new[k] \in KeyBucket /\ new[k].last = now /\ new[k].tokens <= Burst /\ new[k].tokens = LevelIn(map, k)
      BY <1>2, <1>3, <1>5, <2>1 DEF LevelIn
    <3>2. Refilled(new[k], Rate, Burst).tokens = new[k].tokens
      BY <3>1, RefilledNow, Numbers
    <3> QED
      BY <2>1, <3>1, <3>2 DEF LevelIn
  <2>2. CASE k \notin DOMAIN new
    <3>1. LevelIn(map, k) = Burst
      BY <1>4, <2>2, LevelBounds, Numbers DEF LevelIn
    <3> QED
      BY <2>2, <3>1 DEF LevelIn
  <2> QED
    BY <2>1, <2>2
<1> QED
  BY <1>1, <1>2, <1>3, <1>4, <1>5, <1>6, <1>7, LevelBounds, Numbers DEF SameLevels, LevelIn

(* A bucket is put in the map where there is one, or where there is room.    *)
Placed(map, k, b) == [j \in DOMAIN map \cup {k} |-> IF j = k THEN b ELSE map[j]]

LEMMA PlacedFacts ==
    ASSUME now \in 0 .. MaxTime, NEW map, MapOK(map), NEW k \in Key, k \in DOMAIN map \/ ~Crowded(map),
           NEW b \in KeyBucket, b.last = now, b.tokens <= Burst
    PROVE  /\ MapOK(Placed(map, k, b))
           /\ DOMAIN Placed(map, k, b) = DOMAIN map \cup {k} /\ Placed(map, k, b)[k] = b
           /\ \A j \in DOMAIN map : j # k => Placed(map, k, b)[j] = map[j]
           /\ LevelIn(Placed(map, k, b), k) = b.tokens
           /\ \A j \in Key : j # k => LevelIn(Placed(map, k, b), j) = LevelIn(map, j)
<1> DEFINE new == Placed(map, k, b)
<1>1. /\ DOMAIN new = DOMAIN map \cup {k} /\ new[k] = b
      /\ \A j \in DOMAIN map : j # k => new[j] = map[j]
  BY DEF Placed
<1>2. IsFiniteSet(DOMAIN map) /\ Cardinality(DOMAIN map) \in Nat
  BY FS_CardinalityType DEF MapOK
<1>3. IsFiniteSet(DOMAIN new) /\ Cardinality(DOMAIN new) <= MaxTrackedKeys
  <2>1. CASE k \in DOMAIN map
    <3>1. DOMAIN new = DOMAIN map
      BY <1>1, <2>1
    <3> QED
      BY <3>1 DEF MapOK
  <2>2. CASE k \notin DOMAIN map
    <3>1. IsFiniteSet(DOMAIN map \cup {k}) /\ Cardinality(DOMAIN map \cup {k}) = Cardinality(DOMAIN map) + 1
      BY <1>2, <2>2, FS_AddElement
    <3> QED
      BY <1>1, <1>2, <2>2, <3>1, Numbers DEF Crowded
  <2> QED
    BY <2>1, <2>2
<1>4. \A j \in DOMAIN new : new[j] \in KeyBucket /\ new[j].last <= now
  <2>1. now <= now
    BY Numbers
  <2> QED
    BY <1>1, <2>1 DEF MapOK
<1>5. new \in [DOMAIN new -> KeyBucket]
  <2>1. new = [j \in DOMAIN new |-> new[j]]
    BY DEF Placed
  <2> HIDE DEF new
  <2> QED
    BY <1>4, <2>1
<1>6. MapOK(new)
  BY <1>1, <1>3, <1>4, <1>5 DEF MapOK
<1>7. LevelIn(new, k) = b.tokens
  <2>1. Refilled(b, Rate, Burst).tokens = b.tokens
    BY RefilledNow, Numbers
  <2> QED
    BY <1>1, <2>1 DEF LevelIn
<1>8. \A j \in Key : j # k => LevelIn(new, j) = LevelIn(map, j)
  BY <1>1 DEF LevelIn
<1> QED
  BY <1>1, <1>6, <1>7, <1>8
(* What a refusal of take says: the bucket has too little and stays as it    *)
(* is, or the map is full of buckets that are being refilled.                *)
TooLittle(map, k, cost, d) ==
    /\ LevelIn(map, k) < cost /\ k \in DOMAIN d.map
    /\ d.map[k].last = now /\ d.map[k].tokens = LevelIn(map, k)
    /\ d.retryAfter = RetryAfter(cost - LevelIn(map, k), Rate)

TurnedAway(map, k, d) ==
    /\ k \notin DOMAIN d.map /\ k \notin DOMAIN map
    /\ Crowded(d.map) /\ \A j \in DOMAIN d.map : LevelIn(d.map, j) < Burst
    /\ d.retryAfter = RetryAfter(Burst, Rate)

(* What is in the map stays, save that the sweep drops what is full.         *)
OthersKept(map, k, new) ==
    /\ DOMAIN new \subseteq DOMAIN map \cup {k}
    /\ \A j \in DOMAIN map : j \notin DOMAIN new => LevelIn(map, j) = Burst
    /\ \A j \in DOMAIN map \cap DOMAIN new :
         j # k /\ map[j].last = now => new[j].tokens = LevelIn(map, j) \/ new[j] = map[j]

ChargedTo(map, k, cost, d) ==
    \A j \in Key : LevelIn(d.map, j) = IF j = k /\ d.allowed THEN LevelIn(map, j) - cost
                                                            ELSE LevelIn(map, j)

Answers(map, k, cost, d) ==
    /\ MapOK(d.map) /\ d.allowed \in BOOLEAN /\ d.retryAfter \in Nat
    /\ ChargedTo(map, k, cost, d) /\ OthersKept(map, k, d.map)
    /\ d.allowed => LevelIn(map, k) >= cost /\ k \in DOMAIN d.map
    /\ ~d.allowed => TooLittle(map, k, cost, d) \/ TurnedAway(map, k, d)

LEMMA DecidedFacts ==
    ASSUME now \in 0 .. MaxTime, NEW map, NEW m, MapOK(m), SameLevels(map, m), NEW k \in Key,
           OthersKept(map, k, m), k \in DOMAIN m \/ ~Crowded(m), NEW cost \in Nat \ {0},
           NEW b \in KeyBucket, b.last = now, b.tokens = LevelIn(map, k), b.tokens <= Burst
    PROVE  LET made == Decision(b, Rate, cost)
               d == [allowed |-> made.allowed, retryAfter |-> made.retryAfter,
                     map |-> Placed(m, k, made.bucket)]
           IN  Answers(map, k, cost, d)
<1> DEFINE made == Decision(b, Rate, cost)
           d == [allowed |-> made.allowed, retryAfter |-> made.retryAfter,
                 map |-> Placed(m, k, made.bucket)]
<1>1. b.tokens \in Nat
  BY DEF KeyBucket
<1>2. /\ made.allowed \in BOOLEAN /\ (made.allowed <=> b.tokens >= cost)
      /\ made.bucket \in KeyBucket /\ made.bucket.last = b.last
      /\ made.bucket.tokens = IF b.tokens >= cost THEN b.tokens - cost ELSE b.tokens
      /\ made.retryAfter \in Nat
      /\ b.tokens < cost => made.retryAfter = RetryAfter(cost - b.tokens, Rate)
  BY DecisionFacts, Numbers
<1> HIDE DEF made
<1>3. made.bucket.last = now /\ made.bucket.tokens <= Burst
  BY <1>1, <1>2, Numbers
<1>4. /\ MapOK(Placed(m, k, made.bucket))
      /\ DOMAIN Placed(m, k, made.bucket) = DOMAIN m \cup {k}
      /\ Placed(m, k, made.bucket)[k] = made.bucket
      /\ \A j \in DOMAIN m : j # k => Placed(m, k, made.bucket)[j] = m[j]
      /\ LevelIn(Placed(m, k, made.bucket), k) = made.bucket.tokens
      /\ \A j \in Key : j # k => LevelIn(Placed(m, k, made.bucket), j) = LevelIn(m, j)
  <2> DEFINE c == made.bucket
  <2>1. c \in KeyBucket /\ c.last = now /\ c.tokens <= Burst
    BY <1>2, <1>3
  <2> HIDE DEF c
  <2>2. /\ MapOK(Placed(m, k, c))
        /\ DOMAIN Placed(m, k, c) = DOMAIN m \cup {k}
        /\ Placed(m, k, c)[k] = c
        /\ \A j \in DOMAIN m : j # k => Placed(m, k, c)[j] = m[j]
        /\ LevelIn(Placed(m, k, c), k) = c.tokens
        /\ \A j \in Key : j # k => LevelIn(Placed(m, k, c), j) = LevelIn(m, j)
    BY <2>1, PlacedFacts, SMTT(60)
  <2> QED
    BY <2>2 DEF c
<1>5. /\ d.map = Placed(m, k, made.bucket) /\ d.allowed = made.allowed
      /\ d.retryAfter = made.retryAfter
  OBVIOUS
<1> HIDE DEF d
<1>6. ChargedTo(map, k, cost, d)
  <2>1. LevelIn(d.map, k) = IF d.allowed THEN LevelIn(map, k) - cost ELSE LevelIn(map, k)
    BY <1>2, <1>4, <1>5
  <2>2. \A j \in Key : j # k => LevelIn(d.map, j) = LevelIn(map, j)
    BY <1>4, <1>5 DEF SameLevels
  <2> QED
    BY <2>1, <2>2 DEF ChargedTo
<1>7. OthersKept(map, k, d.map)
  BY <1>4, <1>5 DEF OthersKept
<1>8. d.allowed => LevelIn(map, k) >= cost /\ k \in DOMAIN d.map
  BY <1>2, <1>4, <1>5
<1>9. ~d.allowed => TooLittle(map, k, cost, d)
  BY <1>1, <1>2, <1>3, <1>4, <1>5 DEF TooLittle
<1>10. Answers(map, k, cost, d)
  BY <1>2, <1>4, <1>5, <1>6, <1>7, <1>8, <1>9 DEF Answers
<1> QED
  BY <1>10 DEF d, made

LEMMA TakeFacts ==
    ASSUME now \in 0 .. MaxTime, NEW map, MapOK(map), NEW k \in Key, NEW cost \in Nat \ {0}
    PROVE  Answers(map, k, cost, Take(map, k, cost))
<1> DEFINE m == IF k \notin DOMAIN map /\ Crowded(map) THEN Swept(map) ELSE map
           b == IF k \in DOMAIN map THEN Refilled(map[k], Rate, Burst)
                                    ELSE [tokens |-> Burst, last |-> now]
           made == Decision(b, Rate, cost)
<1>1. Take(map, k, cost) =
        IF k \notin DOMAIN map /\ Crowded(m)
        THEN [allowed |-> FALSE, retryAfter |-> RetryAfter(Burst, Rate), map |-> m]
        ELSE [allowed |-> made.allowed, retryAfter |-> made.retryAfter,
              map |-> Placed(m, k, made.bucket)]
  BY DEF Take, Placed
<1>2. MapOK(m) /\ SameLevels(map, m) /\ OthersKept(map, k, m)
  <2>1. CASE m = map
    BY <2>1 DEF SameLevels, OthersKept
  <2>2. CASE m = Swept(map)
    <3>1. \A j \in DOMAIN Swept(map) : j \in DOMAIN map /\ j \in Key
      BY SweptFacts DEF MapOK
    <3>2. \A j \in DOMAIN Swept(map) : Swept(map)[j].tokens = LevelIn(map, j)
      BY <3>1 DEF Swept, LevelIn
    <3> QED
      BY <2>2, <3>2, SweptFacts DEF OthersKept
  <2> QED
    BY <2>1, <2>2
<1>3. b \in KeyBucket /\ b.last = now /\ b.tokens = LevelIn(map, k) /\ b.tokens <= Burst
  <2>1. CASE k \in DOMAIN map
    <3>1. map[k] \in KeyBucket /\ map[k].last <= now
      BY <2>1 DEF MapOK
    <3> QED
      BY <2>1, <3>1, RefillFacts, Numbers DEF LevelIn
  <2>2. CASE k \notin DOMAIN map
    BY <2>2, Numbers DEF KeyBucket, LevelIn
  <2> QED
    BY <2>1, <2>2
<1>4. k \in DOMAIN map => m = map
  OBVIOUS
<1>5. CASE k \notin DOMAIN map /\ Crowded(m)
  <2> DEFINE d == [allowed |-> FALSE, retryAfter |-> RetryAfter(Burst, Rate), map |-> m]
  <2>1. m = Swept(map)
    BY <1>5
  <2>2. \A j \in DOMAIN m : LevelIn(m, j) < Burst
    BY <2>1, SweptFacts DEF SameLevels, MapOK
  <2>3. k \notin DOMAIN m
    BY <1>5, <2>1, SweptFacts
  <2>4. Take(map, k, cost) = d
    BY <1>1, <1>5
  <2>5. d.allowed = FALSE /\ d.retryAfter = RetryAfter(Burst, Rate) /\ d.map = m
    OBVIOUS
  <2> HIDE DEF m, d
  <2>6. RetryAfter(Burst, Rate) \in Nat
    BY RetryAfterRefills, Numbers
  <2>7. TurnedAway(map, k, d)
    BY <1>5, <2>2, <2>3, <2>5 DEF TurnedAway
  <2>8. ChargedTo(map, k, cost, d)
    BY <1>2, <2>5 DEF ChargedTo, SameLevels
  <2> QED
    BY <1>2, <2>4, <2>5, <2>6, <2>7, <2>8 DEF Answers
<1>6. CASE ~(k \notin DOMAIN map /\ Crowded(m))
  <2>1. k \in DOMAIN m \/ ~Crowded(m)
    BY <1>4, <1>6
  <2> HIDE DEF m, b
  <2> QED
    BY <1>1, <1>2, <1>3, <1>6, <2>1, DecidedFacts
<1> QED
  BY <1>5, <1>6
-----------------------------------------------------------------------------
(* The inductive invariant *)

LimiterOK == MapOK(buckets) /\ anonymous \in KeyBucket /\ anonymous.last <= now

Busy(q) == q.open /\ Counted(q.kind)

(* What is known of a request: the limiter has not decided on one that is    *)
(* resolving, and only what is counted was promised the grace period.        *)
RequestOK(q) ==
    /\ q.state = "none" => ~q.open
    /\ q.state \in {"none", "resolving"} => q.verdict = "none"
    /\ q.state = "resolving" /\ q.kind = "call" => q.cost \in 1 .. MaxCost
    /\ q.promised /\ q.open => Counted(q.kind)

RequestsOK == \A r \in Request : RequestOK(request[r])

(* When the streams are being closed, what was promised the grace period is  *)
(* over, or has had it and is reported.                                      *)
DrainOK ==
    proc.state = "closing" =>
      \A r \in Request : request[r].promised /\ request[r].open => now >= proc.deadline /\ proc.exceeded

IInv == TypeOK /\ LimiterOK /\ RequestsOK /\ DrainOK
(* What happens to a request, and to the count of those open. *)

LEMMA RequestType ==
    ASSUME NEW q \in RequestState
    PROVE  /\ q.state \in {"none", "resolving", "serving", "answered"} /\ q.open \in BOOLEAN
           /\ q.kind \in {"call", "plain", "listen", "foreign", "malformed"}
           /\ q.by \in Caller \cup {Anonymous} /\ q.cost \in 0 .. MaxCost
           /\ q.verdict \in {"none", "admitted", "refused"} /\ q.retryAfter \in Nat
           /\ q.promised \in BOOLEAN
BY DEF RequestState

LEMMA NoRequestFacts ==
    /\ NoRequest \in RequestState /\ NoRequest.state = "none" /\ ~NoRequest.open
    /\ NoRequest.verdict = "none" /\ ~NoRequest.promised
BY Numbers DEF NoRequest, RequestState

(* A request that is over keeps its verdict. *)
LEMMA SettledFacts ==
    ASSUME NEW q \in RequestState
    PROVE  /\ Settled(q) \in RequestState
           /\ Settled(q).state = q.state /\ Settled(q).verdict = q.verdict
           /\ Settled(q).open <=> q.open
           /\ q.open \/ q.state # "answered" => Settled(q) = q
           /\ Settled(q).promised => q.promised
<1>1. CASE q.state = "answered" /\ ~q.open
  <2> DEFINE x == [NoRequest EXCEPT !.state = "answered", !.verdict = q.verdict]
  <2>1. Settled(q) = x
    BY <1>1 DEF Settled
  <2>2. NoRequest \in RequestState /\ ~NoRequest.open /\ ~NoRequest.promised
    BY NoRequestFacts
  <2>3. x \in RequestState
    BY <2>2, RequestType DEF RequestState
  <2>4. x.state = "answered" /\ x.verdict = q.verdict /\ ~x.open /\ ~x.promised
    BY <2>2 DEF RequestState
  <2> HIDE DEF x
  <2> QED
    BY <1>1, <2>1, <2>3, <2>4, RequestType
<1>2. CASE ~(q.state = "answered" /\ ~q.open)
  <2>1. Settled(q) = q
    BY <1>2 DEF Settled
  <2> QED
    BY <1>2, <2>1
<1> QED
  BY <1>1, <1>2

Becomes(r, x) == request' = [request EXCEPT ![r] = x]
BusyNow == {r \in Request : request[r].open /\ Counted(request[r].kind)}

LEMMA BusyFinite == IsFiniteSet(BusyNow) /\ Cardinality(BusyNow) \in Nat /\ IsFiniteSet(Request)
<1>1. IsFiniteSet(Request)
  BY FS_Interval, Numbers DEF Request
<1>2. BusyNow \subseteq Request
  BY DEF BusyNow
<1> QED
  BY <1>1, <1>2, FS_Subset, FS_CardinalityType

LEMMA CountKept ==
    ASSUME TypeOK, NEW r \in Request, NEW x, Becomes(r, x), Busy(x) <=> Busy(request[r]),
           UNCHANGED inFlight
    PROVE  inFlight' = Cardinality(BusyNow)'
<1>1. \A s \in Request : Busy(request'[s]) <=> Busy(request[s])
  BY DEF Becomes, TypeOK
<1>2. BusyNow' = BusyNow
  BY <1>1 DEF BusyNow, Busy
<1> QED
  BY <1>2 DEF TypeOK, BusyNow

LEMMA CountUp ==
    ASSUME TypeOK, NEW r \in Request, NEW x, Becomes(r, x), Busy(x), ~Busy(request[r]),
           inFlight' = inFlight + 1
    PROVE  inFlight' = Cardinality(BusyNow)'
<1>1. Busy(request'[r]) /\ \A s \in Request : s # r => request'[s] = request[s]
  BY DEF Becomes, TypeOK
<1>2. BusyNow' = BusyNow \cup {r} /\ r \notin BusyNow
  BY <1>1 DEF BusyNow, Busy
<1>3. Cardinality(BusyNow \cup {r}) = Cardinality(BusyNow) + 1
  BY <1>2, BusyFinite, FS_AddElement
<1> QED
  BY <1>2, <1>3 DEF TypeOK, BusyNow

LEMMA CountDown ==
    ASSUME TypeOK, NEW r \in Request, NEW x, Becomes(r, x), ~Busy(x), Busy(request[r]),
           inFlight' = inFlight - 1
    PROVE  inFlight' = Cardinality(BusyNow)'
<1>1. ~Busy(request'[r]) /\ \A s \in Request : s # r => request'[s] = request[s]
  BY DEF Becomes, TypeOK
<1>2. BusyNow' = BusyNow \ {r} /\ r \in BusyNow
  BY <1>1 DEF BusyNow, Busy
<1>3. Cardinality(BusyNow \ {r}) = Cardinality(BusyNow) - 1
  BY <1>2, BusyFinite, FS_RemoveElement
<1> QED
  BY <1>2, <1>3 DEF TypeOK, BusyNow

LEMMA CountIsOpen ==
    ASSUME TypeOK
    PROVE  /\ inFlight \in Nat
           /\ inFlight > 0 <=> \E r \in Request : Busy(request[r])
<1>1. inFlight = Cardinality(BusyNow)
  BY DEF TypeOK, BusyNow
<1>2. Cardinality(BusyNow) = 0 <=> BusyNow = {}
  BY BusyFinite, FS_EmptySet
<1> QED
  BY <1>1, <1>2, BusyFinite DEF BusyNow, Busy

(* What a step that touches one request owes the invariant.                  *)
OneRequest(r, x) ==
    /\ Becomes(r, x) /\ x \in RequestState /\ RequestOK(x)
    /\ x.promised /\ x.open => request[r].promised /\ request[r].open
    /\ UNCHANGED <<scene, now, ready, poll, proc>>
    /\ inFlight' = Cardinality(BusyNow)'

LEMMA OneRequestStep ==
    ASSUME IInv, NEW r \in Request, NEW x, OneRequest(r, x), LimiterOK'
    PROVE  IInv'
<1>1. request'[r] = x /\ \A s \in Request : s # r => request'[s] = request[s]
  BY DEF OneRequest, Becomes, IInv, TypeOK
<1>2. request' \in [Request -> RequestState]
  BY DEF OneRequest, Becomes, IInv, TypeOK
<1>3. TypeOK'
  BY <1>2 DEF OneRequest, IInv, TypeOK, LimiterOK, MapOK, BusyNow
<1>4. RequestsOK'
  BY <1>1 DEF OneRequest, IInv, RequestsOK
<1>5. DrainOK'
  BY <1>1 DEF OneRequest, IInv, DrainOK
<1> QED
  BY <1>3, <1>4, <1>5 DEF IInv
(* The actions on one request, but for the decision of the limiter. *)
LEMMA ArriveStep ==
    ASSUME IInv, NEW r \in Request, NEW kind \in {"call", "plain", "listen", "foreign", "malformed"},
           NEW by \in Caller \cup {Anonymous}, NEW cost \in 0 .. MaxCost,
           kind = "call" => cost \in 1 .. MaxCost, Arrive(r, kind, by, cost)
    PROVE  IInv' /\ request'[r].verdict = request[r].verdict
<1> DEFINE x == [NoRequest EXCEPT
                     !.state = IF BodyRefused(kind) \/ OriginRefused(kind) THEN "answered" ELSE "resolving",
                     !.open = TRUE, !.kind = kind, !.by = by, !.cost = cost]
<1>1. Becomes(r, x) /\ request[r].state = "none"
  BY DEF Arrive, Becomes
<1>2. /\ x.state \in {"answered", "resolving"} /\ x.open /\ x.kind = kind /\ x.by = by /\ x.cost = cost
      /\ x.verdict = "none" /\ ~x.promised
  BY NoRequestFacts DEF RequestState
<1>3. x \in RequestState
  BY NoRequestFacts DEF RequestState
<1> HIDE DEF x
<1>4. ~request[r].open /\ request[r].verdict = "none" /\ request[r] \in RequestState
  BY <1>1 DEF IInv, RequestsOK, RequestOK, TypeOK
<1>5. ~Busy(request[r])
  BY <1>4 DEF Busy
<1>6. inFlight' = Cardinality(BusyNow)'
  <2>1. CASE Counted(kind)
    BY <1>1, <1>2, <1>5, <2>1, CountUp DEF Busy, Arrive, IInv
  <2>2. CASE ~Counted(kind)
    BY <1>1, <1>2, <1>5, <2>2, CountKept DEF Busy, Arrive, IInv
  <2> QED
    BY <2>1, <2>2
<1>7. RequestOK(x)
  BY <1>2 DEF RequestOK
<1>8. OneRequest(r, x) /\ LimiterOK'
  BY <1>1, <1>2, <1>3, <1>6, <1>7 DEF OneRequest, Arrive, limiterVars, IInv, LimiterOK, MapOK
<1> QED
  BY <1>1, <1>2, <1>4, <1>8, OneRequestStep DEF Becomes, IInv, TypeOK

(* A request that goes on, is answered or closed: nothing but its state or   *)
(* its connection changes.                                                   *)
LEMMA MovesOn ==
    ASSUME IInv, NEW r \in Request, NEW x \in RequestState,
           Becomes(r, x), x.verdict = request[r].verdict, RequestOK(x),
           x.promised /\ x.open => request[r].promised /\ request[r].open,
           UNCHANGED <<scene, now, limiterVars, ready, poll, proc>>,
           inFlight' = Cardinality(BusyNow)'
    PROVE  IInv' /\ request'[r].verdict = request[r].verdict
<1>1. OneRequest(r, x) /\ LimiterOK'
  BY DEF OneRequest, limiterVars, IInv, LimiterOK, MapOK
<1> QED
  BY <1>1, OneRequestStep DEF Becomes, IInv, TypeOK

(* RefuseCaller and Serve. *)
LEMMA AnswerStep ==
    ASSUME IInv, NEW r \in Request, request[r].state \in {"resolving", "serving"},
           Becomes(r, Settled([request[r] EXCEPT !.state = "answered"])),
           UNCHANGED <<scene, now, limiterVars, inFlight, ready, poll, proc>>
    PROVE  IInv' /\ request'[r].verdict = request[r].verdict
<1> DEFINE y == [request[r] EXCEPT !.state = "answered"]  x == Settled(y)
<1>1. request[r] \in RequestState /\ RequestOK(request[r])
  BY DEF IInv, TypeOK, RequestsOK
<1>2. /\ y \in RequestState /\ y.state = "answered" /\ y.open = request[r].open
      /\ y.kind = request[r].kind /\ y.verdict = request[r].verdict /\ y.promised = request[r].promised
  BY <1>1 DEF RequestState
<1> HIDE DEF y
<1>3. /\ x \in RequestState /\ x.state = "answered" /\ x.verdict = y.verdict
      /\ (x.open <=> y.open) /\ (y.open => x = y) /\ (x.promised => y.promised)
  BY <1>2, SettledFacts
<1> HIDE DEF x
<1>4. Busy(x) <=> Busy(request[r])
  BY <1>2, <1>3 DEF Busy
<1>5. Becomes(r, x)
  BY DEF x, y
<1>6. inFlight' = Cardinality(BusyNow)'
  BY <1>4, <1>5, CountKept DEF IInv
<1>7. RequestOK(x)
  BY <1>1, <1>2, <1>3 DEF RequestOK
<1>8. x.promised /\ x.open => request[r].promised /\ request[r].open
  BY <1>2, <1>3
<1> QED
  BY <1>2, <1>3, <1>5, <1>6, <1>7, <1>8, MovesOn

LEMMA CloseStep ==
    ASSUME IInv, NEW r \in Request, Close(r)
    PROVE  IInv' /\ request'[r].verdict = request[r].verdict
<1> DEFINE y == [request[r] EXCEPT !.open = FALSE]  x == Settled(y)
<1>1. request[r] \in RequestState /\ RequestOK(request[r]) /\ request[r].open
  BY DEF IInv, TypeOK, RequestsOK, Close
<1>2. /\ y \in RequestState /\ y.state = request[r].state /\ ~y.open
      /\ y.kind = request[r].kind /\ y.verdict = request[r].verdict /\ y.cost = request[r].cost
  BY <1>1 DEF RequestState
<1> HIDE DEF y
<1>3. /\ x \in RequestState /\ x.state = y.state /\ x.verdict = y.verdict /\ ~x.open
      /\ y.state # "answered" => x = y
  BY <1>2, SettledFacts
<1> HIDE DEF x
<1>4. Becomes(r, x) /\ ~Busy(x)
  BY <1>3 DEF x, y, Close, Becomes, Busy
<1>5. inFlight' = Cardinality(BusyNow)'
  <2>1. CASE Counted(request[r].kind)
    BY <1>1, <1>4, <2>1, CountDown DEF IInv, Busy, Close
  <2>2. CASE ~Counted(request[r].kind)
    BY <1>4, <2>2, CountKept DEF IInv, Busy, Close
  <2> QED
    BY <2>1, <2>2
<1>6. RequestOK(x)
  BY <1>1, <1>2, <1>3 DEF RequestOK
<1>7. UNCHANGED <<scene, now, limiterVars, ready, poll, proc>>
  BY DEF Close
<1> QED
  BY <1>2, <1>3, <1>4, <1>5, <1>6, <1>7, MovesOn
(* The decision of the limiter. *)
LEMMA DecidedStep ==
    ASSUME IInv, NEW r \in Request, request[r].state = "resolving",
           NEW d, d.allowed \in BOOLEAN, d.retryAfter \in Nat,
           NEW map, MapOK(map), NEW anon \in KeyBucket, anon.last <= now,
           Decided(r, d, map, anon), UNCHANGED <<scene, now, inFlight, ready, poll, proc>>
    PROVE  /\ IInv' /\ request'[r].verdict = IF d.allowed THEN "admitted" ELSE "refused"
           /\ request[r].open => request'[r].retryAfter = d.retryAfter
<1> DEFINE y == [request[r] EXCEPT
                   !.by = Anonymous, !.cost = 0,
                   !.state = IF d.allowed THEN "serving" ELSE "answered",
                   !.verdict = IF d.allowed THEN "admitted" ELSE "refused",
                   !.retryAfter = d.retryAfter]
           x == Settled(y)
<1>1. request[r] \in RequestState /\ RequestOK(request[r])
  BY DEF IInv, TypeOK, RequestsOK
<1>2. /\ y.state = (IF d.allowed THEN "serving" ELSE "answered") /\ y.open = request[r].open
      /\ y.kind = request[r].kind /\ y.verdict = (IF d.allowed THEN "admitted" ELSE "refused")
      /\ y.retryAfter = d.retryAfter /\ y.promised = request[r].promised
  BY <1>1 DEF RequestState
<1>3. y \in RequestState
  <2>1. /\ (IF d.allowed THEN "serving" ELSE "answered") \in {"none", "resolving", "serving", "answered"}
        /\ (IF d.allowed THEN "admitted" ELSE "refused") \in {"none", "admitted", "refused"}
        /\ Anonymous \in Caller \cup {Anonymous} /\ 0 \in 0 .. MaxCost
    BY Numbers
  <2> QED
    BY <1>1, <2>1 DEF RequestState
<1> HIDE DEF y
<1>4. /\ x \in RequestState /\ x.state = y.state /\ x.verdict = y.verdict
      /\ (x.open <=> y.open) /\ (y.open => x = y) /\ (x.promised => y.promised)
  BY <1>3, SettledFacts
<1>5. Becomes(r, x) /\ buckets' = map /\ anonymous' = anon
  BY DEF Decided, Becomes, x, y
<1> HIDE DEF x
<1>6. inFlight' = Cardinality(BusyNow)'
  <2>1. Busy(x) <=> Busy(request[r])
    BY <1>2, <1>4 DEF Busy
  <2> QED
    BY <1>5, <2>1, CountKept DEF IInv
<1>7. RequestOK(x)
  BY <1>1, <1>2, <1>4 DEF RequestOK
<1>8. x.promised /\ x.open => request[r].promised /\ request[r].open
  BY <1>2, <1>4
<1>9. OneRequest(r, x) /\ LimiterOK'
  BY <1>4, <1>5, <1>6, <1>7, <1>8 DEF OneRequest, LimiterOK, MapOK
<1>10. request'[r] = x
  BY <1>5 DEF Becomes, IInv, TypeOK
<1> QED
  BY <1>2, <1>4, <1>9, <1>10, OneRequestStep

(* The bucket of the anonymous callers, and how full it is. *)
AnonymousLevel == Refilled(anonymous, AnonymousRate, AnonymousBurst).tokens

LEMMA TakeAnonymousFacts ==
    ASSUME IInv, NEW cost \in Nat \ {0}
    PROVE  LET d == TakeAnonymous(cost)
               level == Refilled(d.bucket, AnonymousRate, AnonymousBurst).tokens
           IN  /\ d.allowed \in BOOLEAN /\ d.retryAfter \in Nat
               /\ d.bucket \in KeyBucket /\ d.bucket.last <= now
               /\ \/ AnonymousRate = 0 /\ d.allowed /\ level = AnonymousLevel
                  \/ /\ AnonymousRate # 0
                     /\ d.allowed <=> AnonymousLevel >= cost
                     /\ level = IF d.allowed THEN AnonymousLevel - cost ELSE AnonymousLevel
                     /\ d.bucket.tokens = level
                     /\ ~d.allowed => d.retryAfter = RetryAfter(cost - AnonymousLevel, AnonymousRate)
<1> DEFINE b == Refilled(anonymous, AnonymousRate, AnonymousBurst)
           made == Decision(b, AnonymousRate, cost)
<1>1. anonymous \in KeyBucket /\ anonymous.last <= now /\ now \in 0 .. MaxTime
  BY DEF IInv, LimiterOK, TypeOK
<1>2. CASE AnonymousRate = 0
  <2>1. TakeAnonymous(cost) = [allowed |-> TRUE, retryAfter |-> 0, bucket |-> anonymous]
    BY <1>2 DEF TakeAnonymous
  <2> QED
    BY <1>1, <1>2, <2>1 DEF AnonymousLevel
<1>3. CASE AnonymousRate # 0
  <2>1. b \in KeyBucket /\ b.last = now /\ b.tokens <= AnonymousBurst /\ b.tokens = AnonymousLevel
    BY <1>1, RefillFacts, Numbers DEF AnonymousLevel
  <2>2. TakeAnonymous(cost) = made
    BY <1>3 DEF TakeAnonymous
  <2> HIDE DEF b
  <2>3. AnonymousRate \in Nat \ {0} /\ b.tokens \in Nat /\ now <= now
    BY <1>3, <2>1, Numbers DEF KeyBucket
  <2>4. /\ made.allowed \in BOOLEAN /\ (made.allowed <=> b.tokens >= cost)
        /\ made.bucket \in KeyBucket /\ made.bucket.last = b.last
        /\ made.bucket.tokens = IF b.tokens >= cost THEN b.tokens - cost ELSE b.tokens
        /\ made.retryAfter \in Nat
        /\ b.tokens < cost => made.retryAfter = RetryAfter(cost - b.tokens, AnonymousRate)
    BY <2>1, <2>3, DecisionFacts
  <2> DEFINE c == made.bucket
  <2>5. c \in KeyBucket /\ c.last = now /\ c.tokens <= AnonymousBurst
    BY <2>1, <2>3, <2>4, Numbers
  <2> HIDE DEF c
  <2>6. Refilled(c, AnonymousRate, AnonymousBurst).tokens = c.tokens
    BY <1>1, <2>5, RefilledNow, Numbers
  <2> HIDE DEF made
  <2> QED
    BY <1>3, <2>1, <2>2, <2>3, <2>4, <2>6 DEF c
<1> QED
  BY <1>2, <1>3

(* The two buckets of a forwarded call. *)
LEMMA WorstOfFacts ==
    ASSUME NEW a, NEW b, a.allowed \in BOOLEAN, b.allowed \in BOOLEAN,
           a.retryAfter \in Nat, b.retryAfter \in Nat
    PROVE  /\ WorstOf(a, b).allowed \in BOOLEAN /\ (WorstOf(a, b).allowed <=> a.allowed /\ b.allowed)
           /\ WorstOf(a, b).retryAfter \in Nat
           /\ WorstOf(a, b).retryAfter >= a.retryAfter /\ WorstOf(a, b).retryAfter >= b.retryAfter
BY DEF WorstOf, Greater

(* The four ways of a request through the limiter. *)
Charge(r) == request[r].cost
Unlimited(r) ==
    /\ Becomes(r, [request[r] EXCEPT !.state = "serving"])
    /\ UNCHANGED limiterVars
AsAnonymous(r) ==
    LET d == TakeAnonymous(Charge(r))
    IN  request[r].by = Anonymous /\ Decided(r, d, buckets, d.bucket)
AsForwarded(r) ==
    LET shared == Take(buckets, Shared, Charge(r))
        own == Take(shared.map, request[r].by, Charge(r))
    IN  /\ request[r].by # Anonymous /\ scene.forwarding
        /\ Decided(r, WorstOf(shared, own), own.map, anonymous)
AsCaller(r) ==
    LET d == Take(buckets, request[r].by, Charge(r))
    IN  /\ request[r].by # Anonymous /\ ~scene.forwarding
        /\ Decided(r, d, d.map, anonymous)

LEMMA AdmitCases ==
    ASSUME IInv, NEW r \in Request, Admit(r)
    PROVE  /\ request[r].state = "resolving" /\ UNCHANGED <<scene, now, inFlight, ready, poll, proc>>
           /\ \/ Unlimited(r)
              \/ /\ request[r].kind = "call" /\ Charge(r) \in Nat \ {0} /\ Charge(r) \in 1 .. MaxCost
                 /\ AsAnonymous(r) \/ AsForwarded(r) \/ AsCaller(r)
<1>1. request[r].state = "resolving" /\ UNCHANGED <<scene, now, inFlight, ready, poll, proc>>
  BY DEF Admit
<1>2. request[r].kind = "call" => Charge(r) \in Nat \ {0} /\ Charge(r) \in 1 .. MaxCost
  BY <1>1, Numbers DEF IInv, RequestsOK, RequestOK, Charge
<1>3. CASE ~scene.limited \/ request[r].kind # "call"
  BY <1>1, <1>3 DEF Admit, Unlimited, Becomes
<1>4. CASE ~(~scene.limited \/ request[r].kind # "call")
  BY <1>1, <1>2, <1>4 DEF Admit, AsAnonymous, AsForwarded, AsCaller, Charge
<1> QED
  BY <1>3, <1>4
-----------------------------------------------------------------------------
(* The abstract buckets *)

Bucket == Key \cup {Anonymous}
Levels == [b \in Bucket |-> Level(b)]
Verdicts == [r \in Request |-> request[r].verdict]

LevelAfter(L, B, cost, b) == IF b \in B /\ L[b] >= cost THEN L[b] - cost ELSE L[b]

LEMMA AbstractDecide ==
    ASSUME NEW r \in Request, NEW B \in SUBSET Bucket, NEW cost \in 1 .. MaxCost, Verdicts[r] = "none",
           Levels' = [b \in Bucket |-> LevelAfter(Levels, B, cost, b)],
           Verdicts' = [Verdicts EXCEPT ![r] = IF \A b \in B : Levels[b] >= cost THEN "admitted" ELSE "refused"]
    PROVE  Promised!BucketNext
<1>1. Promised!Decide(r, B, cost)
  BY DEF Promised!Decide, Promised!Charged, Levels, Verdicts, Bucket, LevelAfter
<1> QED
  BY <1>1 DEF Promised!BucketNext, Bucket

LEMMA SameCount == \A S : Promised!Cardinality(S) = Cardinality(S)
BY Zenon DEF Promised!Cardinality, Cardinality

LEMMA AbstractTurnAway ==
    ASSUME NEW r \in Request, NEW B \in SUBSET Bucket, NEW cost \in 1 .. MaxCost, Verdicts[r] = "none",
           Levels' = [b \in Bucket |-> LevelAfter(Levels, B, cost, b)],
           Verdicts' = [Verdicts EXCEPT ![r] = "refused"],
           Cardinality({b \in Bucket : LevelAfter(Levels, B, cost, b) < BurstOf(b)}) >= MaxTrackedKeys
    PROVE  Promised!BucketNext
<1>1. {b \in Bucket : LevelAfter(Levels, B, cost, b) < BurstOf(b)}
        = {b \in Bucket : Promised!Charged(B, cost)[b] < BurstOf(b)}
  BY DEF Promised!Charged, Levels, Bucket, LevelAfter
<1>2. Levels' = Promised!Charged(B, cost)
  BY DEF Promised!Charged, Levels, Bucket, LevelAfter
<1>3. Cardinality({b \in Bucket : Promised!Charged(B, cost)[b] < BurstOf(b)}) >= MaxTrackedKeys
  BY <1>1
<1>4. Promised!TurnAway(r, B, cost)
  BY <1>2, <1>3, SameCount DEF Promised!TurnAway, Levels, Verdicts, Bucket
<1> QED
  BY <1>4 DEF Promised!BucketNext, Bucket

LEMMA AbstractStutter ==
    ASSUME Levels' = Levels, Verdicts' = Verdicts
    PROVE  UNCHANGED Promised!bucketVars
BY DEF Promised!bucketVars, Levels, Verdicts, Bucket

LEMMA LevelsAre ==
    /\ \A k \in Key : Level(k) = LevelIn(buckets, k)
    /\ Level(Anonymous) = AnonymousLevel
BY Numbers DEF Level, LevelIn, AnonymousLevel, Key

LEMMA LevelsNext ==
    ASSUME NEW map, NEW anon, buckets' = map, anonymous' = anon, UNCHANGED now
    PROVE  /\ \A k \in Key : Level(k)' = LevelIn(map, k)
           /\ Level(Anonymous)' = Refilled(anon, AnonymousRate, AnonymousBurst).tokens
BY Numbers DEF Level, LevelIn, Key, Refilled

(* A map at its cap is one of callers that have drained their buckets.       *)
LEMMA CrowdIsDrained ==
    ASSUME NEW map, IsFiniteSet(DOMAIN map), NEW L, \A k \in Key : k \notin DOMAIN map => L[k] = Burst,
           NEW D, IsFiniteSet(D), D \subseteq Key, Cardinality(D) >= MaxTrackedKeys,
           \A k \in D : L[k] < Burst
    PROVE  Cardinality({b \in Bucket : L[b] < BurstOf(b)}) >= MaxTrackedKeys
<1> DEFINE F == {b \in Bucket : L[b] < BurstOf(b)}
<1>1. \A k \in Key : BurstOf(k) = Burst
  BY Numbers DEF BurstOf, Key
<1>2. D \subseteq F
  BY <1>1 DEF Bucket
<1>3. F \subseteq DOMAIN map \cup {Anonymous}
  BY <1>1, Numbers DEF Bucket
<1>4. IsFiniteSet(DOMAIN map \cup {Anonymous})
  BY FS_AddElement
<1>5. IsFiniteSet(F)
  BY <1>3, <1>4, FS_Subset
<1> HIDE DEF F
<1>6. Cardinality(D) <= Cardinality(F) /\ Cardinality(D) \in Nat /\ Cardinality(F) \in Nat
  BY <1>2, <1>5, FS_Subset, FS_CardinalityType
<1>7. Cardinality(F) >= MaxTrackedKeys
  BY <1>6, Numbers
<1> QED
  BY <1>7 DEF F

(* A key is charged exactly when it has the room, unless it was turned away. *)
LEMMA TakeMeans ==
    ASSUME NEW map, NEW k, NEW cost \in Nat, NEW d, Answers(map, k, cost, d), LevelIn(map, k) \in Nat
    PROVE  /\ TurnedAway(map, k, d) => ~d.allowed
           /\ ~TurnedAway(map, k, d) => (d.allowed <=> LevelIn(map, k) >= cost)
BY DEF Answers, TurnedAway, TooLittle

LEMMA VerdictSet ==
    ASSUME IInv, NEW r \in Request, NEW d, NEW map, NEW anon, Decided(r, d, map, anon),
           NEW v, request'[r].verdict = v
    PROVE  Verdicts' = [Verdicts EXCEPT ![r] = v]
<1>1. \A s \in Request : s # r => request'[s] = request[s]
  BY DEF Decided, IInv, TypeOK
<1> QED
  BY <1>1 DEF Verdicts
(* A call of an anonymous caller. *)
LEMMA AnonymousStep ==
    ASSUME IInv, NEW r \in Request, request[r].state = "resolving", Charge(r) \in Nat \ {0},
           Charge(r) \in 1 .. MaxCost, AsAnonymous(r),
           UNCHANGED <<scene, now, inFlight, ready, poll, proc>>
    PROVE  IInv' /\ Promised!BucketNext
<1> DEFINE d == TakeAnonymous(Charge(r))
           level == Refilled(d.bucket, AnonymousRate, AnonymousBurst).tokens
<1>1. /\ d.allowed \in BOOLEAN /\ d.retryAfter \in Nat
      /\ d.bucket \in KeyBucket /\ d.bucket.last <= now
      /\ \/ AnonymousRate = 0 /\ d.allowed /\ level = AnonymousLevel
         \/ /\ AnonymousRate # 0
            /\ d.allowed <=> AnonymousLevel >= Charge(r)
            /\ level = IF d.allowed THEN AnonymousLevel - Charge(r) ELSE AnonymousLevel
  BY TakeAnonymousFacts
<1>2. Decided(r, d, buckets, d.bucket) /\ MapOK(buckets)
  BY DEF AsAnonymous, IInv, LimiterOK
<1>3. IInv' /\ request'[r].verdict = IF d.allowed THEN "admitted" ELSE "refused"
  <2> DEFINE a == d.bucket
  <2>1. a \in KeyBucket /\ a.last <= now /\ Decided(r, d, buckets, a)
    BY <1>1, <1>2
  <2> HIDE DEF a, d
  <2> QED
    BY <1>1, <1>2, <2>1, DecidedStep
<1>4. buckets' = buckets /\ anonymous' = d.bucket
  BY <1>2 DEF Decided
<1>5. Verdicts[r] = "none" /\ Verdicts' = [Verdicts EXCEPT ![r] = IF d.allowed THEN "admitted" ELSE "refused"]
  BY <1>2, <1>3, VerdictSet DEF Verdicts, IInv, RequestsOK, RequestOK
<1>6. /\ \A k \in Key : Levels'[k] = Levels[k]
      /\ Levels[Anonymous] = AnonymousLevel /\ Levels'[Anonymous] = level
  <2>1. Level(Anonymous)' = level /\ \A k \in Key : Level(k)' = Level(k)
    BY <1>4, LevelsAre, LevelsNext
  <2> QED
    BY <2>1, LevelsAre DEF Levels, Bucket
<1> DEFINE B == IF AnonymousRate = 0 THEN {} ELSE {Anonymous}
<1>7. B \in SUBSET Bucket /\ \A k \in Key : k \notin B
  BY Numbers DEF Bucket, Key
<1> HIDE DEF d, level
<1>8. ASSUME NEW b \in Bucket PROVE Levels'[b] = LevelAfter(Levels, B, Charge(r), b)
  BY <1>1, <1>6, <1>7 DEF LevelAfter, Bucket
<1>9. Levels' = [b \in Bucket |-> LevelAfter(Levels, B, Charge(r), b)]
  BY <1>8 DEF Levels
<1>10. d.allowed <=> \A b \in B : Levels[b] >= Charge(r)
  BY <1>1, <1>6
<1> HIDE DEF B
<1>11. Verdicts' = [Verdicts EXCEPT ![r] = IF \A b \in B : Levels[b] >= Charge(r) THEN "admitted" ELSE "refused"]
  BY <1>1, <1>5, <1>10
<1> QED
  BY <1>3, <1>5, <1>7, <1>9, <1>11, AbstractDecide

(* A call of a caller with a bucket of its own. *)
LEMMA CallerStep ==
    ASSUME IInv, NEW r \in Request, request[r].state = "resolving", Charge(r) \in Nat \ {0},
           Charge(r) \in 1 .. MaxCost, AsCaller(r),
           UNCHANGED <<scene, now, inFlight, ready, poll, proc>>
    PROVE  IInv' /\ Promised!BucketNext
<1> DEFINE k == request[r].by  d == Take(buckets, k, Charge(r))
<1>1. k \in Key /\ k \in Bucket
  BY DEF AsCaller, IInv, TypeOK, RequestState, Key, Bucket
<1>2. now \in 0 .. MaxTime /\ MapOK(buckets) /\ anonymous \in KeyBucket /\ anonymous.last <= now
  BY DEF IInv, TypeOK, LimiterOK
<1>3. Answers(buckets, k, Charge(r), d)
  BY <1>1, <1>2, TakeFacts
<1>4. Decided(r, d, d.map, anonymous)
  BY DEF AsCaller
<1> HIDE DEF d
<1>5. MapOK(d.map) /\ d.allowed \in BOOLEAN /\ d.retryAfter \in Nat
  BY <1>3 DEF Answers
<1>6. IInv' /\ request'[r].verdict = IF d.allowed THEN "admitted" ELSE "refused"
  <2> DEFINE m == d.map
  <2>1. MapOK(m) /\ Decided(r, d, m, anonymous)
    BY <1>4, <1>5
  <2> HIDE DEF m
  <2> QED
    BY <1>2, <1>5, <2>1, DecidedStep
<1>7. Verdicts[r] = "none" /\ Verdicts' = [Verdicts EXCEPT ![r] = IF d.allowed THEN "admitted" ELSE "refused"]
  BY <1>4, <1>6, VerdictSet DEF Verdicts, IInv, RequestsOK, RequestOK
<1>8. buckets' = d.map /\ anonymous' = anonymous
  BY <1>4 DEF Decided
<1>9. /\ \A j \in Key : Levels[j] = LevelIn(buckets, j) /\ Levels'[j] = LevelIn(d.map, j)
      /\ Levels'[Anonymous] = Levels[Anonymous]
  <2>1. Level(Anonymous)' = Level(Anonymous) /\ \A j \in Key : Level(j)' = LevelIn(d.map, j)
    BY <1>8, LevelsAre, LevelsNext DEF AnonymousLevel
  <2> QED
    BY <2>1, LevelsAre DEF Levels, Bucket
<1>10. LevelIn(buckets, k) \in Nat
  BY <1>1, <1>2, LevelBounds
<1> DEFINE away == TurnedAway(buckets, k, d)  B == IF away THEN {} ELSE {k}
<1>11. (away => ~d.allowed) /\ (~away => (d.allowed <=> LevelIn(buckets, k) >= Charge(r)))
  BY <1>3, <1>10, TakeMeans
<1>12. \A j \in Key : Levels'[j] = IF j = k /\ d.allowed THEN Levels[j] - Charge(r) ELSE Levels[j]
  BY <1>3, <1>9 DEF Answers, ChargedTo
<1>13. k # Anonymous
  BY DEF AsCaller
<1> HIDE DEF k, away
<1>14. B \in SUBSET Bucket
  BY <1>1
<1>15. ASSUME NEW b \in Bucket PROVE Levels'[b] = LevelAfter(Levels, B, Charge(r), b)
  BY <1>1, <1>9, <1>11, <1>12, <1>13 DEF LevelAfter, Bucket
<1>16. Levels' = [b \in Bucket |-> LevelAfter(Levels, B, Charge(r), b)]
  BY <1>15 DEF Levels
<1>17. CASE ~away
  <2>1. d.allowed <=> \A b \in B : Levels[b] >= Charge(r)
    BY <1>1, <1>9, <1>11, <1>17
  <2> HIDE DEF B
  <2>2. Verdicts' = [Verdicts EXCEPT ![r] = IF \A b \in B : Levels[b] >= Charge(r) THEN "admitted" ELSE "refused"]
    BY <1>5, <1>7, <2>1
  <2> QED
    BY <1>6, <1>7, <1>14, <1>16, <2>2, AbstractDecide
<1>18. CASE away
  <2>1. Verdicts' = [Verdicts EXCEPT ![r] = "refused"]
    BY <1>7, <1>11, <1>18
  <2> DEFINE L == [b \in Bucket |-> LevelAfter(Levels, B, Charge(r), b)]
  <2>2. \A j \in Key : L[j] = LevelIn(d.map, j)
    BY <1>9, <1>16 DEF Bucket
  <2>3. \A b \in Bucket : L[b] = LevelAfter(Levels, B, Charge(r), b)
    OBVIOUS
  <2> HIDE DEF L, B
  <2>4. \A j \in Key : j \notin DOMAIN d.map => L[j] = Burst
    BY <2>2 DEF LevelIn
  <2>5. /\ DOMAIN d.map \subseteq Key /\ IsFiniteSet(DOMAIN d.map)
        /\ Cardinality(DOMAIN d.map) >= MaxTrackedKeys /\ \A j \in DOMAIN d.map : LevelIn(d.map, j) < Burst
    BY <1>5, <1>18 DEF MapOK, TurnedAway, Crowded, away
  <2>6. \A j \in DOMAIN d.map : L[j] < Burst
    BY <2>2, <2>5
  <2>7. Cardinality({b \in Bucket : L[b] < BurstOf(b)}) >= MaxTrackedKeys
    BY <2>4, <2>5, <2>6, CrowdIsDrained
  <2>8. {b \in Bucket : L[b] < BurstOf(b)} = {b \in Bucket : LevelAfter(Levels, B, Charge(r), b) < BurstOf(b)}
    BY <2>3
  <2> QED
    BY <1>6, <1>7, <1>14, <1>16, <2>1, <2>7, <2>8, AbstractTurnAway
<1> QED
  BY <1>17, <1>18
(* A forwarded call, charged to the shared bucket and to its own. *)
SharedTake(r) == Take(buckets, Shared, Charge(r))
OwnTake(r) == Take(SharedTake(r).map, request[r].by, Charge(r))

LEMMA ForwardedTakes ==
    ASSUME IInv, NEW r \in Request, Charge(r) \in Nat \ {0}, AsForwarded(r)
    PROVE  /\ request[r].by \in Key /\ request[r].by # Shared
           /\ Answers(buckets, Shared, Charge(r), SharedTake(r))
           /\ Answers(SharedTake(r).map, request[r].by, Charge(r), OwnTake(r))
           /\ Decided(r, WorstOf(SharedTake(r), OwnTake(r)), OwnTake(r).map, anonymous)
<1>1. request[r].by \in Caller /\ Shared \in Key /\ request[r].by \in Key /\ request[r].by # Shared
  BY Numbers DEF AsForwarded, IInv, TypeOK, RequestState, Key
<1>2. now \in 0 .. MaxTime /\ MapOK(buckets)
  BY DEF IInv, TypeOK, LimiterOK
<1>3. Answers(buckets, Shared, Charge(r), SharedTake(r))
  BY <1>1, <1>2, TakeFacts DEF SharedTake
<1> DEFINE m == SharedTake(r).map
<1>4. MapOK(m)
  BY <1>3 DEF Answers
<1> HIDE DEF m
<1>5. Answers(m, request[r].by, Charge(r), Take(m, request[r].by, Charge(r)))
  BY <1>1, <1>2, <1>4, TakeFacts
<1>6. Decided(r, WorstOf(SharedTake(r), OwnTake(r)), OwnTake(r).map, anonymous)
  BY DEF AsForwarded, SharedTake, OwnTake
<1> QED
  BY <1>1, <1>3, <1>5, <1>6 DEF OwnTake, m

LEMMA ForwardedStep ==
    ASSUME IInv, NEW r \in Request, request[r].state = "resolving", Charge(r) \in Nat \ {0},
           Charge(r) \in 1 .. MaxCost, AsForwarded(r),
           UNCHANGED <<scene, now, inFlight, ready, poll, proc>>
    PROVE  IInv' /\ Promised!BucketNext
<1> DEFINE k == request[r].by  s == SharedTake(r)  d == OwnTake(r)  w == WorstOf(s, d)
<1>1. /\ k \in Key /\ k # Shared /\ Answers(buckets, Shared, Charge(r), s)
      /\ Answers(s.map, k, Charge(r), d) /\ Decided(r, w, d.map, anonymous)
  BY ForwardedTakes
<1>2. /\ now \in 0 .. MaxTime /\ MapOK(buckets) /\ anonymous \in KeyBucket /\ anonymous.last <= now
      /\ Shared \in Key
  BY DEF IInv, TypeOK, LimiterOK, Key
<1>3. k # Anonymous /\ Shared # Anonymous /\ Anonymous \notin Key
  BY Numbers DEF AsForwarded, Key
<1> HIDE DEF k, s, d
<1>4. /\ MapOK(s.map) /\ s.allowed \in BOOLEAN /\ s.retryAfter \in Nat
      /\ MapOK(d.map) /\ d.allowed \in BOOLEAN /\ d.retryAfter \in Nat
  BY <1>1 DEF Answers
<1>5. w.allowed \in BOOLEAN /\ (w.allowed <=> s.allowed /\ d.allowed) /\ w.retryAfter \in Nat
  BY <1>4, WorstOfFacts
<1> HIDE DEF w
<1>6. IInv' /\ request'[r].verdict = IF w.allowed THEN "admitted" ELSE "refused"
  <2> DEFINE m == d.map
  <2>1. MapOK(m) /\ Decided(r, w, m, anonymous)
    BY <1>1, <1>4
  <2> HIDE DEF m
  <2> QED
    BY <1>2, <1>5, <2>1, DecidedStep
<1>7. Verdicts[r] = "none" /\ Verdicts' = [Verdicts EXCEPT ![r] = IF w.allowed THEN "admitted" ELSE "refused"]
  BY <1>1, <1>6, VerdictSet DEF Verdicts, IInv, RequestsOK, RequestOK
<1>8. buckets' = d.map /\ anonymous' = anonymous
  BY <1>1 DEF Decided
<1>9. /\ \A j \in Key : Levels[j] = LevelIn(buckets, j) /\ Levels'[j] = LevelIn(d.map, j)
      /\ Levels'[Anonymous] = Levels[Anonymous]
  <2>1. Level(Anonymous)' = Level(Anonymous) /\ \A j \in Key : Level(j)' = LevelIn(d.map, j)
    BY <1>8, LevelsAre, LevelsNext DEF AnonymousLevel
  <2> QED
    BY <2>1, LevelsAre DEF Levels, Bucket
<1>10. /\ \A j \in Key : LevelIn(buckets, j) \in Nat /\ LevelIn(s.map, j) \in Nat
  BY <1>2, <1>4, LevelBounds
<1> DEFINE sharedAway == TurnedAway(buckets, Shared, s)  ownAway == TurnedAway(s.map, k, d)
           B == {b \in {Shared, k} : (b = Shared => ~sharedAway) /\ (b = k => ~ownAway)}
<1>11. /\ sharedAway => ~s.allowed
       /\ ~sharedAway => (s.allowed <=> LevelIn(buckets, Shared) >= Charge(r))
  BY <1>1, <1>2, <1>10, TakeMeans
<1>12. /\ ownAway => ~d.allowed
       /\ ~ownAway => (d.allowed <=> LevelIn(s.map, k) >= Charge(r))
  BY <1>1, <1>4, <1>10, TakeMeans
<1>13. /\ \A j \in Key : LevelIn(s.map, j) = IF j = Shared /\ s.allowed THEN Levels[j] - Charge(r) ELSE Levels[j]
       /\ \A j \in Key : Levels'[j] = IF j = k /\ d.allowed THEN LevelIn(s.map, j) - Charge(r) ELSE LevelIn(s.map, j)
  BY <1>1, <1>9 DEF Answers, ChargedTo
<1>14. LevelIn(s.map, k) = Levels[k] /\ Levels[Shared] = LevelIn(buckets, Shared)
  BY <1>1, <1>2, <1>9, <1>13
<1> HIDE DEF sharedAway, ownAway
<1>15. B \in SUBSET Bucket
  BY <1>1, <1>2 DEF Bucket
<1>16. ASSUME NEW b \in Bucket PROVE Levels'[b] = LevelAfter(Levels, B, Charge(r), b)
  <2>1. CASE b = Anonymous
    BY <1>3, <1>9, <2>1 DEF LevelAfter
  <2>2. CASE b = Shared
    BY <1>1, <1>2, <1>11, <1>13, <1>14, <2>2 DEF LevelAfter
  <2>3. CASE b = k
    BY <1>1, <1>12, <1>13, <1>14, <2>3 DEF LevelAfter
  <2>4. CASE b \in Key /\ b # Shared /\ b # k
    BY <1>13, <2>4 DEF LevelAfter
  <2> QED
    BY <2>1, <2>2, <2>3, <2>4 DEF Bucket
<1>17. Levels' = [b \in Bucket |-> LevelAfter(Levels, B, Charge(r), b)]
  BY <1>16 DEF Levels
<1>18. CASE ~sharedAway /\ ~ownAway
  <2>1. w.allowed <=> \A b \in B : Levels[b] >= Charge(r)
    BY <1>5, <1>11, <1>12, <1>14, <1>18
  <2> HIDE DEF B
  <2>2. Verdicts' = [Verdicts EXCEPT ![r] = IF \A b \in B : Levels[b] >= Charge(r) THEN "admitted" ELSE "refused"]
    BY <1>5, <1>7, <2>1
  <2> QED
    BY <1>6, <1>7, <1>15, <1>17, <2>2, AbstractDecide
<1>19. CASE sharedAway \/ ownAway
  <2>1. Verdicts' = [Verdicts EXCEPT ![r] = "refused"]
    BY <1>5, <1>7, <1>11, <1>12, <1>19
  <2> DEFINE L == [b \in Bucket |-> LevelAfter(Levels, B, Charge(r), b)]
  <2>2. \A j \in Key : L[j] = LevelIn(d.map, j)
    BY <1>9, <1>17 DEF Bucket
  <2>3. \A b \in Bucket : L[b] = LevelAfter(Levels, B, Charge(r), b)
    OBVIOUS
  <2> HIDE DEF L, B
  <2>4. \A j \in Key : j \notin DOMAIN d.map => L[j] = Burst
    BY <2>2 DEF LevelIn
  <2>5. IsFiniteSet(DOMAIN d.map)
    BY <1>4 DEF MapOK
  <2> DEFINE D == IF ownAway THEN DOMAIN d.map ELSE DOMAIN s.map
  <2>6. /\ D \subseteq Key /\ IsFiniteSet(D) /\ Cardinality(D) >= MaxTrackedKeys
    BY <1>4, <1>19 DEF MapOK, TurnedAway, Crowded, sharedAway, ownAway
  <2>7. ASSUME NEW j \in D PROVE L[j] < Burst
    <3>1. CASE ownAway
      BY <2>2, <2>6, <3>1 DEF TurnedAway, ownAway
    <3>2. CASE ~ownAway
      <4>1. LevelIn(s.map, j) < Burst /\ j \in Key
        BY <1>19, <2>6, <3>2 DEF TurnedAway, sharedAway
      <4>2. LevelIn(d.map, j) = IF j = k /\ d.allowed THEN LevelIn(s.map, j) - Charge(r) ELSE LevelIn(s.map, j)
        BY <1>9, <1>13, <4>1
      <4> QED
        BY <1>10, <2>2, <4>1, <4>2, Numbers
    <3> QED
      BY <3>1, <3>2
  <2> HIDE DEF D
  <2>8. Cardinality({b \in Bucket : L[b] < BurstOf(b)}) >= MaxTrackedKeys
    BY <2>4, <2>5, <2>6, <2>7, CrowdIsDrained
  <2>9. {b \in Bucket : L[b] < BurstOf(b)} = {b \in Bucket : LevelAfter(Levels, B, Charge(r), b) < BurstOf(b)}
    BY <2>3
  <2> QED
    BY <1>6, <1>7, <1>15, <1>17, <2>1, <2>8, <2>9, AbstractTurnAway
<1> QED
  BY <1>18, <1>19
LEMMA AdmitStep ==
    ASSUME IInv, NEW r \in Request, Admit(r)
    PROVE  IInv' /\ (Promised!BucketNext \/ UNCHANGED Promised!bucketVars)
<1>1. request[r].state = "resolving" /\ UNCHANGED <<scene, now, inFlight, ready, poll, proc>>
  BY AdmitCases
<1>2. CASE Unlimited(r)
  <2> DEFINE x == [request[r] EXCEPT !.state = "serving"]
  <2>1. request[r] \in RequestState /\ RequestOK(request[r])
    BY DEF IInv, TypeOK, RequestsOK
  <2>2. /\ x \in RequestState /\ x.state = "serving" /\ x.open = request[r].open
        /\ x.kind = request[r].kind /\ x.verdict = request[r].verdict /\ x.promised = request[r].promised
    BY <2>1 DEF RequestState
  <2>3. Becomes(r, x) /\ UNCHANGED limiterVars
    BY <1>2 DEF Unlimited
  <2> HIDE DEF x
  <2>4. RequestOK(x) /\ inFlight' = Cardinality(BusyNow)'
    BY <1>1, <2>1, <2>2, <2>3, CountKept DEF RequestOK, Busy, IInv
  <2>5. IInv' /\ request'[r].verdict = request[r].verdict
    BY <1>1, <2>2, <2>3, <2>4, MovesOn
  <2>6. Verdicts' = Verdicts
    BY <2>3, <2>5 DEF Verdicts, Becomes, IInv, TypeOK
  <2>7. Levels' = Levels
    BY <1>1, <2>3 DEF Levels, Level, Refilled, limiterVars
  <2> QED
    BY <2>5, <2>6, <2>7, AbstractStutter
<1>3. CASE ~Unlimited(r)
  BY <1>1, <1>3, AdmitCases, AnonymousStep, ForwardedStep, CallerStep
<1> QED
  BY <1>2, <1>3

-----------------------------------------------------------------------------
(* The other actions *)

(* Time: every bucket gains what a tick is worth, up to its burst.           *)
LEMMA TickLevel ==
    ASSUME now \in 0 .. MaxTime, NEW n, n = now + 1,
           NEW b \in KeyBucket, b.last <= now, NEW rate \in Nat, NEW burst \in Nat
    PROVE  Lesser(burst, b.tokens + (n - b.last) * rate) = Lesser(burst, Refilled(b, rate, burst).tokens + rate)
<1> DEFINE e == (now - b.last) * rate
<1>1. b.tokens \in Nat /\ b.last \in Nat /\ now \in Nat
  BY Numbers DEF KeyBucket
<1>2. e \in Nat /\ (n - b.last) * rate = e + rate
  BY <1>1, Elapsed
<1>3. Refilled(b, rate, burst).tokens = Lesser(burst, b.tokens + e)
  BY RefillFacts
<1>4. b.tokens + (n - b.last) * rate = b.tokens + e + rate
  BY <1>1, <1>2
<1> HIDE DEF e
<1>5. Lesser(burst, b.tokens + (n - b.last) * rate) = Lesser(burst, b.tokens + e + rate)
  BY <1>4
<1>6. Lesser(burst, b.tokens + e + rate) = Lesser(burst, Lesser(burst, b.tokens + e) + rate)
  BY <1>1, <1>2 DEF Lesser
<1> QED
  BY <1>3, <1>5, <1>6

LEMMA LevelsLater ==
    ASSUME NEW map, NEW anon, buckets' = map, anonymous' = anon
    PROVE  /\ \A k \in Key :
                Level(k)' = IF k \in DOMAIN map
                            THEN Lesser(Burst, map[k].tokens + (now' - map[k].last) * Rate) ELSE Burst
           /\ Level(Anonymous)' = Lesser(AnonymousBurst, anon.tokens + (now' - anon.last) * AnonymousRate)
BY Numbers DEF Level, Key, Refilled

LEMMA TickStep ==
    ASSUME IInv, Tick
    PROVE  IInv' /\ Promised!BucketNext
<1>1. /\ now \in 0 .. MaxTime /\ now' = now + 1 /\ now' \in 0 .. MaxTime /\ now \in Nat
      /\ UNCHANGED <<scene, buckets, anonymous, request, inFlight, ready, poll, proc>>
  BY Numbers DEF Tick, IInv, TypeOK, limiterVars
<1>2. /\ MapOK(buckets) /\ anonymous \in KeyBucket /\ anonymous.last <= now
      /\ \A k \in DOMAIN buckets : buckets[k] \in KeyBucket /\ buckets[k].last <= now
  BY DEF IInv, LimiterOK, MapOK
<1>3. LimiterOK'
  <2>1. anonymous.last <= now' /\ \A k \in DOMAIN buckets : buckets[k].last <= now'
    BY <1>1, <1>2 DEF KeyBucket
  <2> QED
    BY <1>1, <1>2, <2>1 DEF LimiterOK, MapOK
<1>4. TypeOK'
  BY <1>1 DEF IInv, TypeOK
<1>5. RequestsOK' /\ DrainOK'
  <2>1. now >= proc.deadline => now' >= proc.deadline
    BY <1>1 DEF IInv, TypeOK, ProcState
  <2> QED
    BY <1>1, <2>1 DEF IInv, RequestsOK, DrainOK
<1>6. \A k \in Key : Level(k)' = Lesser(Burst, Level(k) + Rate)
  <2> SUFFICES ASSUME NEW k \in Key PROVE Level(k)' = Lesser(Burst, Level(k) + Rate)
    OBVIOUS
  <2>1. k # Anonymous
    BY Numbers DEF Key
  <2>2. CASE k \in DOMAIN buckets
    <3>1. Level(k)' = Lesser(Burst, buckets[k].tokens + (now' - buckets[k].last) * Rate)
      BY <1>1, <2>2, LevelsLater
    <3>2. Level(k) = Refilled(buckets[k], Rate, Burst).tokens
      BY <2>2, LevelsAre DEF LevelIn
    <3>3. buckets[k] \in KeyBucket /\ buckets[k].last <= now /\ Rate \in Nat /\ Burst \in Nat
      BY <1>2, <2>2, Numbers
    <3>4. Lesser(Burst, buckets[k].tokens + (now' - buckets[k].last) * Rate)
            = Lesser(Burst, Refilled(buckets[k], Rate, Burst).tokens + Rate)
      BY <1>1, <3>3, TickLevel
    <3> QED
      BY <3>1, <3>2, <3>4
  <2>3. CASE k \notin DOMAIN buckets
    BY <1>1, <2>1, <2>3, Numbers DEF Level, Lesser
  <2> QED
    BY <2>2, <2>3
<1>7. Level(Anonymous)' = Lesser(AnonymousBurst, Level(Anonymous) + AnonymousRate)
  <2>1. Level(Anonymous)' = Lesser(AnonymousBurst, anonymous.tokens + (now' - anonymous.last) * AnonymousRate)
    BY <1>1, LevelsLater
  <2>2. Level(Anonymous) = Refilled(anonymous, AnonymousRate, AnonymousBurst).tokens
    BY LevelsAre DEF AnonymousLevel
  <2>3. AnonymousRate \in Nat /\ AnonymousBurst \in Nat
    BY Numbers
  <2>4. Lesser(AnonymousBurst, anonymous.tokens + (now' - anonymous.last) * AnonymousRate)
          = Lesser(AnonymousBurst, Refilled(anonymous, AnonymousRate, AnonymousBurst).tokens + AnonymousRate)
    BY <1>1, <1>2, <2>3, TickLevel
  <2> QED
    BY <2>1, <2>2, <2>4
<1>8. \A b \in Bucket : Level(b)' = Promised!Least(BurstOf(b), Level(b) + RateOf(b))
  BY <1>6, <1>7, Numbers DEF Bucket, Key, BurstOf, RateOf, Lesser, Promised!Least
<1>9. Promised!Refill
  BY <1>1, <1>8 DEF Promised!Refill, Bucket
<1> QED
  BY <1>3, <1>4, <1>5, <1>9 DEF IInv, Promised!BucketNext

(* What neither the limiter nor a request of /mcp takes part in.             *)
LEMMA BucketsStand ==
    ASSUME UNCHANGED <<now, buckets, anonymous>>, \A r \in Request : request'[r].verdict = request[r].verdict
    PROVE  UNCHANGED Promised!bucketVars
<1>1. Levels' = Levels /\ Verdicts' = Verdicts
  BY DEF Levels, Verdicts, Level, Refilled
<1> QED
  BY <1>1, AbstractStutter

LEMMA ReadyStep ==
    ASSUME IInv, (\E p \in Poll : AskReady(p)) \/ ProbeAnswered \/ ProbeTimesOut
    PROVE  IInv' /\ UNCHANGED Promised!bucketVars
<1>1. UNCHANGED <<scene, now, buckets, anonymous, request, inFlight, proc>>
  BY DEF AskReady, ProbeAnswered, ProbeTimesOut, ProbeSettles, limiterVars
<1>2. /\ ready \in [cache: Entry, probe: ProbeState] /\ poll \in [Poll -> PollState] /\ now \in 0 .. MaxTime
  BY DEF IInv, TypeOK
<1>3. NoEntry \in Entry /\ NoProbe \in ProbeState
  BY Numbers DEF NoEntry, NoProbe, Entry, ProbeState
<1>4. ready' \in [cache: Entry, probe: ProbeState] /\ poll' \in [Poll -> PollState]
  <2>1. CASE \E p \in Poll : AskReady(p)
    <3>1. PICK p \in Poll : AskReady(p)
      BY <2>1
    <3>2. poll' \in [Poll -> PollState]
      <4>1. /\ [state |-> "answered", entry |-> ready.cache] \in PollState
            /\ [state |-> "waiting", entry |-> NoEntry] \in PollState
        BY <1>2, <1>3 DEF PollState
      <4> QED
        BY <1>2, <3>1, <4>1 DEF AskReady
    <3>3. ready' \in [cache: Entry, probe: ProbeState]
      <4>1. \A up \in BOOLEAN : [running |-> TRUE, began |-> now, wikiUp |-> up] \in ProbeState
        BY <1>2 DEF ProbeState
      <4> QED
        BY <1>2, <3>1, <4>1 DEF AskReady
    <3> QED
      BY <3>2, <3>3
  <2>2. CASE ProbeAnswered \/ ProbeTimesOut
    <3>1. PICK ok \in BOOLEAN : ProbeSettles(ok)
      BY <1>2, <2>2 DEF ProbeAnswered, ProbeTimesOut, ProbeState
    <3> DEFINE entry == [expires |-> now + ReadyTtl, ok |-> ok]
    <3>2. entry \in Entry
      BY <1>2, Numbers DEF Entry
    <3>3. ready' = [cache |-> entry, probe |-> NoProbe]
      BY <3>1 DEF ProbeSettles
    <3>4. poll' = [p \in Poll |-> IF poll[p].state = "waiting"
                                  THEN [poll[p] EXCEPT !.state = "answered", !.entry = entry]
                                  ELSE poll[p]]
      BY <3>1 DEF ProbeSettles
    <3> HIDE DEF entry
    <3>5. \A p \in Poll : [poll[p] EXCEPT !.state = "answered", !.entry = entry] \in PollState
      BY <1>2, <3>2 DEF PollState
    <3> QED
      BY <1>2, <1>3, <3>2, <3>3, <3>4, <3>5
  <2> QED
    BY <2>1, <2>2
<1>5. IInv'
  BY <1>1, <1>4 DEF IInv, TypeOK, LimiterOK, MapOK, RequestsOK, DrainOK
<1> QED
  BY <1>1, <1>5, BucketsStand

(* The signal promises the grace period to what it finds in flight.          *)
LEMMA SignalStep ==
    ASSUME IInv, Signal
    PROVE  IInv' /\ UNCHANGED Promised!bucketVars
<1>1. UNCHANGED <<scene, now, buckets, anonymous, inFlight, ready, poll>>
  BY DEF Signal, limiterVars
<1>2. /\ request \in [Request -> RequestState] /\ proc \in ProcState /\ now \in Nat
      /\ inFlight = Cardinality(BusyNow)
  BY Numbers DEF IInv, TypeOK, BusyNow
<1> DEFINE n == proc.signals + 1  end == now + Grace
<1>5. n \in Nat /\ end \in Nat
  BY <1>2, Numbers DEF ProcState
<1>3. CASE proc.state # "up"
  <2> DEFINE x == [proc EXCEPT !.state = "exited", !.code = 1, !.signals = n]
  <2>1. proc' = x /\ UNCHANGED request
    BY <1>3 DEF Signal
  <2> HIDE DEF n
  <2>2. x \in ProcState /\ x.state = "exited"
    BY <1>2, <1>5 DEF ProcState
  <2> HIDE DEF x
  <2>3. IInv'
    BY <1>1, <2>1, <2>2 DEF IInv, TypeOK, LimiterOK, MapOK, RequestsOK, DrainOK
  <2> QED
    BY <1>1, <2>1, <2>3, BucketsStand
<1>4. CASE proc.state = "up"
  <2> DEFINE x == [proc EXCEPT !.state = IF inFlight = 0 THEN "closing" ELSE "draining",
                               !.deadline = end, !.signals = n]
             y(r) == [request[r] EXCEPT !.promised = request[r].open /\ Counted(request[r].kind)]
  <2>1. proc' = x /\ request' = [r \in Request |-> y(r)]
    BY <1>4 DEF Signal, Promise
  <2> HIDE DEF n, end
  <2>2. x \in ProcState /\ (x.state = "closing" => inFlight = 0)
    BY <1>2, <1>5 DEF ProcState
  <2>3. ASSUME NEW r \in Request
        PROVE  /\ y(r) \in RequestState /\ y(r).state = request[r].state /\ y(r).open = request[r].open
               /\ y(r).kind = request[r].kind /\ y(r).verdict = request[r].verdict /\ y(r).cost = request[r].cost
               /\ y(r).promised <=> request[r].open /\ Counted(request[r].kind)
    <3>1. request[r] \in RequestState /\ (request[r].open /\ Counted(request[r].kind)) \in BOOLEAN
      BY <1>2 DEF RequestState, Counted, BodyRefused
    <3> QED
      BY <3>1 DEF RequestState
  <2> HIDE DEF x, y
  <2>4. \A r \in Request : request'[r] = y(r)
    BY <2>1
  <2>5. request' \in [Request -> RequestState]
    BY <2>1, <2>3
  <2>6. BusyNow' = BusyNow
    BY <2>3, <2>4 DEF BusyNow
  <2>7. TypeOK'
    BY <1>1, <1>2, <2>1, <2>2, <2>5, <2>6 DEF IInv, TypeOK, BusyNow
  <2>8. RequestsOK'
    BY <2>3, <2>4 DEF IInv, RequestsOK, RequestOK
  <2>9. DrainOK'
    <3> SUFFICES ASSUME x.state = "closing", NEW r \in Request, y(r).promised PROVE FALSE
      BY <2>1, <2>4 DEF DrainOK
    <3>1. Busy(request[r]) /\ inFlight = 0
      BY <2>2, <2>3 DEF Busy
    <3> QED
      BY <3>1, CountIsOpen DEF IInv
  <2>10. LimiterOK'
    BY <1>1 DEF IInv, LimiterOK, MapOK
  <2>11. \A r \in Request : request'[r].verdict = request[r].verdict
    BY <2>3, <2>4
  <2> QED
    BY <1>1, <2>7, <2>8, <2>9, <2>10, <2>11, BucketsStand DEF IInv
<1> QED
  BY <1>3, <1>4

(* The drain ends when nothing is left in flight, or at its deadline.        *)
LEMMA DrainStep ==
    ASSUME IInv, PollDrain \/ Exit
    PROVE  IInv' /\ UNCHANGED Promised!bucketVars
<1>1. UNCHANGED <<scene, now, buckets, anonymous, request, inFlight, ready, poll>>
  BY DEF PollDrain, Exit, limiterVars
<1>2. proc \in ProcState
  BY DEF IInv, TypeOK
<1>3. proc' \in ProcState /\ DrainOK'
  <2>1. CASE PollDrain
    <3> DEFINE x == [proc EXCEPT !.state = "closing", !.exceeded = inFlight > 0]
    <3>1. proc' = x /\ (inFlight = 0 \/ now >= proc.deadline) /\ inFlight \in Nat
      BY <2>1, CountIsOpen DEF PollDrain, IInv
    <3>2. (inFlight > 0) \in BOOLEAN
      BY <3>1
    <3>3. x \in ProcState /\ (x.exceeded <=> inFlight > 0) /\ x.deadline = proc.deadline
      BY <1>2, <3>2 DEF ProcState
    <3> HIDE DEF x
    <3>4. ASSUME NEW r \in Request, request[r].promised, request[r].open
          PROVE  now >= proc.deadline /\ inFlight > 0
      <4>1. Busy(request[r])
        BY <3>4 DEF IInv, RequestsOK, RequestOK, Busy
      <4> QED
        BY <3>1, <4>1, CountIsOpen DEF IInv
    <3> QED
      BY <1>1, <3>1, <3>3, <3>4 DEF DrainOK
  <2>2. CASE Exit
    <3> DEFINE x == [proc EXCEPT !.state = "exited", !.code = IF proc.exceeded THEN 1 ELSE 0]
    <3>1. proc' = x
      BY <2>2 DEF Exit
    <3>2. x \in ProcState /\ x.state = "exited"
      BY <1>2 DEF ProcState
    <3> HIDE DEF x
    <3> QED
      BY <3>1, <3>2 DEF DrainOK
  <2> QED
    BY <2>1, <2>2
<1>4. IInv'
  BY <1>1, <1>3 DEF IInv, TypeOK, LimiterOK, MapOK, RequestsOK
<1> QED
  BY <1>1, <1>4, BucketsStand
-----------------------------------------------------------------------------
(* The steps together *)

LEMMA Initial == Init => IInv /\ Promised!BucketInit
<1> SUFFICES ASSUME Init PROVE IInv /\ Promised!BucketInit
  OBVIOUS
<1>1. TypeOK
  <2>1. DOMAIN buckets = {} /\ Cardinality(DOMAIN buckets) = 0
    BY FS_EmptySet DEF Init
  <2>2. BusyNow = {}
    BY NoRequestFacts DEF Init, BusyNow
  <2>3. inFlight = Cardinality(BusyNow)
    BY <2>2, FS_EmptySet DEF Init
  <2>4. anonymous \in KeyBucket /\ now \in 0 .. MaxTime
    BY Numbers DEF Init, KeyBucket
  <2>5. request \in [Request -> RequestState]
    BY NoRequestFacts DEF Init
  <2>6. ready \in [cache: Entry, probe: ProbeState] /\ poll \in [Poll -> PollState]
    BY Numbers DEF Init, NoEntry, NoProbe, Entry, ProbeState, PollState
  <2>7. proc \in ProcState
    BY DEF Init, Up, ProcState
  <2>8. buckets \in [DOMAIN buckets -> KeyBucket] /\ Cardinality(DOMAIN buckets) <= MaxTrackedKeys
    BY <2>1, Numbers DEF Init
  <2> QED
    BY <2>1, <2>3, <2>4, <2>5, <2>6, <2>7, <2>8 DEF TypeOK, BusyNow, Init
<1>2. LimiterOK
  BY <1>1, Numbers, FS_EmptySet DEF Init, TypeOK, LimiterOK, MapOK, KeyBucket
<1>3. RequestsOK
  BY NoRequestFacts DEF Init, RequestsOK, RequestOK
<1>4. DrainOK
  BY DEF Init, Up, DrainOK
<1>5. Promised!BucketInit
  <2>1. \A b \in Bucket : Level(b) = BurstOf(b)
    BY Numbers DEF Init, Level, BurstOf, Refilled, Lesser, Bucket, Key
  <2>2. \A r \in Request : request[r].verdict = "none"
    BY NoRequestFacts DEF Init
  <2> QED
    BY <2>1, <2>2 DEF Promised!BucketInit, Bucket
<1> QED
  BY <1>1, <1>2, <1>3, <1>4, <1>5 DEF IInv

(* A request that arrives, is answered or closed takes nothing.              *)
LEMMA TakesNothing ==
    ASSUME IInv, NEW r \in Request, request'[r].verdict = request[r].verdict,
           NEW x, request' = [request EXCEPT ![r] = x], UNCHANGED <<now, limiterVars>>
    PROVE  UNCHANGED Promised!bucketVars
<1>1. \A s \in Request : request'[s].verdict = request[s].verdict
  BY DEF IInv, TypeOK
<1> QED
  BY <1>1, BucketsStand DEF limiterVars

LEMMA RequestStepKeeps ==
    ASSUME IInv, NEW r \in Request, RequestStep(r)
    PROVE  IInv' /\ (Promised!BucketNext \/ UNCHANGED Promised!bucketVars)
<1>1. CASE \E by \in Caller \cup {Anonymous}, cost \in 1 .. MaxCost : Arrive(r, "call", by, cost)
  <2>1. PICK by \in Caller \cup {Anonymous}, cost \in 1 .. MaxCost : Arrive(r, "call", by, cost)
    BY <1>1
  <2>2. cost \in 0 .. MaxCost
    BY Numbers
  <2>3. IInv' /\ request'[r].verdict = request[r].verdict
    BY <2>1, <2>2, ArriveStep
  <2> QED
    BY <2>1, <2>3, TakesNothing DEF Arrive
<1>2. CASE \E kind \in scene.kinds \ {"call"} : Arrive(r, kind, Anonymous, 0)
  <2>1. PICK kind \in scene.kinds \ {"call"} : Arrive(r, kind, Anonymous, 0)
    BY <1>2
  <2>2. kind \in {"call", "plain", "listen", "foreign", "malformed"} /\ kind # "call"
    BY <2>1, ServiceAssumption DEF IInv, TypeOK
  <2>3. 0 \in 0 .. MaxCost /\ Anonymous \in Caller \cup {Anonymous}
    BY Numbers
  <2>4. IInv' /\ request'[r].verdict = request[r].verdict
    BY <2>1, <2>2, <2>3, ArriveStep
  <2> QED
    BY <2>1, <2>4, TakesNothing DEF Arrive
<1>3. CASE RefuseCaller(r) \/ Serve(r)
  <2>1. /\ request[r].state \in {"resolving", "serving"}
        /\ request' = [request EXCEPT ![r] = Settled([request[r] EXCEPT !.state = "answered"])]
        /\ UNCHANGED <<scene, now, limiterVars, inFlight, ready, poll, proc>>
    BY <1>3 DEF RefuseCaller, Serve
  <2>2. IInv' /\ request'[r].verdict = request[r].verdict
    BY <2>1, AnswerStep DEF Becomes
  <2> QED
    BY <2>1, <2>2, TakesNothing
<1>4. CASE Admit(r)
  BY <1>4, AdmitStep
<1>5. CASE Close(r)
  <2>1. IInv' /\ request'[r].verdict = request[r].verdict
    BY <1>5, CloseStep
  <2> QED
    BY <1>5, <2>1, TakesNothing DEF Close
<1> QED
  BY <1>1, <1>2, <1>3, <1>4, <1>5 DEF RequestStep

LEMMA Step ==
    IInv /\ [Next]_vars => IInv' /\ [Promised!BucketNext]_(Promised!bucketVars)
<1> SUFFICES ASSUME IInv, [Next]_vars
             PROVE  IInv' /\ (Promised!BucketNext \/ UNCHANGED Promised!bucketVars)
  OBVIOUS
<1>1. CASE \E r \in Request : RequestStep(r)
  BY <1>1, RequestStepKeeps
<1>2. CASE (\E p \in Poll : AskReady(p)) \/ ProbeAnswered \/ ProbeTimesOut
  BY <1>2, ReadyStep
<1>3. CASE Signal
  BY <1>3, SignalStep
<1>4. CASE PollDrain \/ Exit
  BY <1>4, DrainStep
<1>5. CASE Tick
  BY <1>5, TickStep
<1>6. CASE UNCHANGED vars
  <2>1. UNCHANGED <<now, buckets, anonymous>> /\ \A r \in Request : request'[r].verdict = request[r].verdict
    BY <1>6 DEF vars
  <2>2. IInv'
    BY <1>6 DEF vars, IInv, TypeOK, LimiterOK, MapOK, RequestsOK, DrainOK
  <2> QED
    BY <2>1, <2>2, BucketsStand
<1> QED
  BY <1>1, <1>2, <1>3, <1>4, <1>5, <1>6 DEF Next
-----------------------------------------------------------------------------
(* Retry-After *)

(* A burst refills within the longest wait that is ever told.  By default a  *)
(* burst is twice the rate of a second, and that wait an hour; a deployment  *)
(* whose MCP_RATE_LIMIT_BURST is more than an hour of its rate is told the   *)
(* hour, which is then too short.                                            *)
CeilingReaches ==
    /\ Burst <= MaxRetryAfter * Rate
    /\ AnonymousRate > 0 => AnonymousBurst <= MaxRetryAfter * AnonymousRate

LEMMA LongerWait ==
    ASSUME NEW m \in Nat, NEW n \in Nat, m <= n, NEW r \in Nat
    PROVE  m * r <= n * r /\ m * r \in Nat /\ n * r \in Nat
BY SMT

LEMMA WaitRefills ==
    ASSUME NEW r \in Nat \ {0}, NEW n \in Nat, n <= MaxRetryAfter * r, NEW wait \in Nat,
           wait >= RetryAfter(n, r)
    PROVE  wait * r >= n /\ wait * r \in Nat
<1> DEFINE a == RetryAfter(n, r)
<1>1. a \in Nat /\ a * r >= n
  BY RetryAfterRefills
<1>2. a <= wait
  BY <1>1
<1> HIDE DEF a
<1>3. a * r <= wait * r /\ a * r \in Nat /\ wait * r \in Nat
  BY <1>1, <1>2, LongerWait
<1> QED
  BY <1>1, <1>3

LEMMA MapRefills ==
    ASSUME now \in 0 .. MaxTime, NEW m, MapOK(m), NEW wait \in Nat, wait * Rate >= Burst, NEW j \in DOMAIN m
    PROVE  m[j].tokens + (now + wait - m[j].last) * Rate >= Burst
<1> DEFINE b == m[j]  n == now + wait - b.last
<1>1. b.tokens \in Nat /\ b.last \in Nat /\ now \in Nat /\ b.last <= now
  BY Numbers DEF MapOK, KeyBucket
<1>2. n \in Nat /\ wait <= n
  BY <1>1
<1> HIDE DEF n, b
<1>3. wait * Rate <= n * Rate /\ wait * Rate \in Nat /\ n * Rate \in Nat
  BY <1>2, LongerWait, Numbers
<1>4. b.tokens + n * Rate >= Burst
  BY <1>1, <1>3, Numbers
<1> QED
  BY <1>4 DEF n, b

(* A key the bucket of which refused, or that found no room in the map.      *)
LEMMA RefusedRefills ==
    ASSUME CeilingReaches, now \in 0 .. MaxTime, NEW map, MapOK(map), NEW k \in Key,
           NEW cost \in Nat \ {0}, cost <= Burst,
           NEW d, Answers(map, k, cost, d), ~d.allowed, NEW wait \in Nat, wait >= d.retryAfter
    PROVE  \/ LevelIn(map, k) < cost /\ k \in DOMAIN d.map /\ LevelIn(map, k) + wait * Rate >= cost
              /\ d.map[k].last = now /\ d.map[k].tokens = LevelIn(map, k)
           \/ k \notin DOMAIN d.map /\ k \notin DOMAIN map /\ wait * Rate >= Burst
<1> DEFINE n == LevelIn(map, k)
<1>1. n \in Nat
  BY LevelBounds
<1>2. CASE TooLittle(map, k, cost, d)
  <2>1. /\ n < cost /\ k \in DOMAIN d.map /\ d.map[k].last = now /\ d.map[k].tokens = n
        /\ d.retryAfter = RetryAfter(cost - n, Rate)
    BY <1>2 DEF TooLittle
  <2> HIDE DEF n
  <2>2. cost - n \in Nat /\ cost - n <= MaxRetryAfter * Rate
    <3>1. MaxRetryAfter * Rate \in Nat /\ Burst <= MaxRetryAfter * Rate
      BY Numbers DEF CeilingReaches
    <3> QED
      BY <1>1, <2>1, <3>1, Numbers
  <2>3. wait * Rate >= cost - n /\ wait * Rate \in Nat
    BY <2>1, <2>2, WaitRefills, Numbers
  <2>4. n + wait * Rate >= cost
    BY <1>1, <2>3
  <2> QED
    BY <2>1, <2>4 DEF n
<1>3. CASE TurnedAway(map, k, d)
  <2>1. Burst <= MaxRetryAfter * Rate /\ d.retryAfter = RetryAfter(Burst, Rate)
    BY <1>3 DEF CeilingReaches, TurnedAway
  <2>2. wait * Rate >= Burst
    BY <2>1, WaitRefills, Numbers
  <2> QED
    BY <1>3, <2>2 DEF TurnedAway
<1> QED
  BY <1>2, <1>3 DEF Answers

(* RoomLater, of the map that is left and the level that was found. *)
RoomIn(m, k, cost, wait, level) ==
    IF k \in DOMAIN m
    THEN level < cost => m[k].tokens + wait * Rate >= cost
    ELSE \A j \in DOMAIN m : m[j].tokens + (now + wait - m[j].last) * Rate >= Burst

LEMMA RoomFound ==
    ASSUME NEW m, buckets' = m, NEW k \in Key, NEW cost, NEW wait, RoomIn(m, k, cost, wait, LevelIn(buckets, k))
    PROVE  RoomLater(k, cost, wait)
<1>1. Level(k) = LevelIn(buckets, k)
  BY LevelsAre
<1> QED
  BY <1>1 DEF RoomLater, RoomIn

LEMMA RoomForOwn ==
    ASSUME CeilingReaches, now \in 0 .. MaxTime, NEW map, MapOK(map), NEW k \in Key,
           NEW cost \in Nat \ {0}, cost <= Burst,
           NEW d, Answers(map, k, cost, d), NEW wait \in Nat, wait >= d.retryAfter
    PROVE  RoomIn(d.map, k, cost, wait, LevelIn(map, k))
<1>1. CASE d.allowed
  <2>1. LevelIn(map, k) >= cost /\ k \in DOMAIN d.map /\ LevelIn(map, k) \in Nat
    BY <1>1, LevelBounds DEF Answers
  <2> QED
    BY <2>1 DEF RoomIn
<1>2. CASE ~d.allowed
  <2> DEFINE m == d.map
  <2>1. \/ k \in DOMAIN m /\ LevelIn(map, k) + wait * Rate >= cost /\ m[k].tokens = LevelIn(map, k)
        \/ k \notin DOMAIN m /\ wait * Rate >= Burst
    BY <1>2, RefusedRefills
  <2>2. MapOK(m)
    BY DEF Answers
  <2> HIDE DEF m
  <2>3. k \notin DOMAIN m => \A j \in DOMAIN m : m[j].tokens + (now + wait - m[j].last) * Rate >= Burst
    BY <2>1, <2>2, MapRefills
  <2>4. k \in DOMAIN m => m[k].tokens + wait * Rate >= cost
    BY <2>1
  <2>5. RoomIn(m, k, cost, wait, LevelIn(map, k))
    BY <2>3, <2>4 DEF RoomIn
  <2> QED
    BY <2>5 DEF m
<1> QED
  BY <1>1, <1>2 DEF Answers

(* The shared bucket of a forwarded call, which the caller's own follows: it *)
(* may be swept on the way, but not when it was found wanting.               *)
LEMMA RoomForShared ==
    ASSUME CeilingReaches, now \in 0 .. MaxTime, NEW map, MapOK(map), NEW k \in Key, NEW own \in Key, own # k,
           NEW cost \in Nat \ {0}, cost <= Burst,
           NEW s, Answers(map, k, cost, s), NEW d, Answers(s.map, own, cost, d),
           NEW wait \in Nat, wait >= s.retryAfter
    PROVE  RoomIn(d.map, k, cost, wait, LevelIn(map, k))
<1> DEFINE n == LevelIn(map, k)  m == s.map  e == d.map
<1>1. n \in Nat /\ n <= Burst /\ MapOK(m) /\ MapOK(e) /\ s.allowed \in BOOLEAN
  BY LevelBounds DEF Answers
<1>2. LevelIn(m, k) = IF s.allowed THEN n - cost ELSE n
  BY DEF Answers, ChargedTo
<1>3. OthersKept(m, own, e)
  BY DEF Answers
<1>4. s.allowed => n >= cost /\ k \in DOMAIN m
  BY DEF Answers
<1>5. ~s.allowed =>
        \/ n < cost /\ k \in DOMAIN m /\ n + wait * Rate >= cost /\ m[k].last = now /\ m[k].tokens = n
        \/ k \notin DOMAIN m /\ wait * Rate >= Burst
  BY RefusedRefills
<1> SUFFICES RoomIn(e, k, cost, wait, n)
  OBVIOUS
<1> HIDE DEF n, m, e
<1>6. CASE k \in DOMAIN e
  <2>1. k \in DOMAIN m
    BY <1>3, <1>6 DEF OthersKept
  <2>2. CASE s.allowed
    <3>1. ~(n < cost)
      BY <1>1, <1>4, <2>2
    <3> QED
      BY <1>6, <3>1 DEF RoomIn
  <2>3. CASE ~s.allowed
    <3>1. n + wait * Rate >= cost /\ m[k].last = now /\ m[k].tokens = n
      BY <1>5, <2>1, <2>3
    <3>2. e[k].tokens = LevelIn(m, k) \/ e[k] = m[k]
      BY <1>3, <1>6, <2>1, <3>1 DEF OthersKept
    <3>3. e[k].tokens = n
      BY <1>2, <2>3, <3>1, <3>2
    <3> QED
      BY <1>6, <3>1, <3>3 DEF RoomIn
  <2> QED
    BY <1>1, <2>2, <2>3
<1>7. CASE k \notin DOMAIN e
  <2>1. k \notin DOMAIN m
    <3> SUFFICES ASSUME k \in DOMAIN m PROVE FALSE
      OBVIOUS
    <3>1. LevelIn(m, k) = Burst
      BY <1>3, <1>7 DEF OthersKept
    <3> QED
      BY <1>1, <1>2, <1>4, <1>5, <3>1, Numbers
  <2>2. wait * Rate >= Burst
    BY <1>1, <1>4, <1>5, <2>1
  <2>3. \A j \in DOMAIN e : e[j].tokens + (now + wait - e[j].last) * Rate >= Burst
    BY <1>1, <2>2, MapRefills
  <2> QED
    BY <1>7, <2>3 DEF RoomIn
<1> QED
  BY <1>6, <1>7

(* Nothing but the limiter refuses a request. *)
LEMMA OnlyAdmitRefuses ==
    ASSUME IInv, [Next]_vars, NEW r \in Request, request[r].verdict = "none", request'[r].verdict = "refused"
    PROVE  Admit(r)
<1>1. request \in [Request -> RequestState]
  BY DEF IInv, TypeOK
<1>2. CASE \E s \in Request : RequestStep(s)
  <2>1. PICK s \in Request : RequestStep(s)
    BY <1>2
  <2>2. \/ \E kind, by, cost : Arrive(s, kind, by, cost)
        \/ RefuseCaller(s) \/ Admit(s) \/ Serve(s) \/ Close(s)
    BY <2>1 DEF RequestStep
  <2>3. s = r
    <3>1. \E x : request' = [request EXCEPT ![s] = x]
      BY <2>2 DEF Arrive, RefuseCaller, Admit, Serve, Close, Decided
    <3> QED
      BY <1>1, <3>1
  <2>4. CASE \E kind, by, cost : Arrive(r, kind, by, cost)
    <3>1. PICK kind, by, cost : Arrive(r, kind, by, cost)
      BY <2>4
    <3>2. request'[r].verdict = NoRequest.verdict
      BY <1>1, <3>1 DEF Arrive, NoRequest
    <3> QED
      BY <3>2, NoRequestFacts
  <2>5. CASE RefuseCaller(r) \/ Serve(r)
    <3>1. /\ request[r].state \in {"resolving", "serving"}
          /\ request' = [request EXCEPT ![r] = Settled([request[r] EXCEPT !.state = "answered"])]
          /\ UNCHANGED <<scene, now, limiterVars, inFlight, ready, poll, proc>>
      BY <2>5 DEF RefuseCaller, Serve
    <3> QED
      BY <3>1, AnswerStep DEF Becomes
  <2>6. CASE Close(r)
    BY <2>6, CloseStep
  <2> QED
    BY <2>2, <2>3, <2>4, <2>5, <2>6
<1>3. CASE Signal
  <2>1. request' = request \/ request' = Promise(request)
    BY <1>3 DEF Signal
  <2>2. Promise(request)[r].verdict = request[r].verdict
    BY <1>1 DEF Promise, RequestState
  <2> QED
    BY <2>1, <2>2
<1>4. CASE UNCHANGED request
  BY <1>4
<1>5. CASE \/ \E p \in Poll : AskReady(p)
           \/ ProbeAnswered \/ ProbeTimesOut \/ PollDrain \/ Exit \/ Tick \/ UNCHANGED vars
  BY <1>4, <1>5 DEF AskReady, ProbeAnswered, ProbeTimesOut, ProbeSettles, PollDrain, Exit, Tick, vars
<1> QED
  BY <1>2, <1>3, <1>5 DEF Next

EnoughFor(r) ==
    LET q == request[r]
        wait == request'[r].retryAfter
    IN  q.verdict = "none" /\ request'[r].verdict = "refused" /\ q.open =>
          IF q.by = Anonymous
          THEN q.cost <= AnonymousBurst => anonymous'.tokens + wait * AnonymousRate >= q.cost
          ELSE q.cost <= Burst => /\ RoomLater(q.by, q.cost, wait)
                                  /\ scene.forwarding => RoomLater(Shared, q.cost, wait)

LEMMA EnoughStep ==
    ASSUME CeilingReaches, IInv, [Next]_vars, NEW r \in Request
    PROVE  EnoughFor(r)
<1> SUFFICES ASSUME request[r].verdict = "none", request'[r].verdict = "refused", request[r].open
             PROVE  EnoughFor(r)
  BY DEF EnoughFor
<1>1. Admit(r)
  BY OnlyAdmitRefuses
<1>2. /\ request[r].state = "resolving" /\ UNCHANGED <<scene, now, inFlight, ready, poll, proc>>
      /\ \/ Unlimited(r)
         \/ /\ request[r].kind = "call" /\ Charge(r) \in Nat \ {0}
            /\ AsAnonymous(r) \/ AsForwarded(r) \/ AsCaller(r)
  BY <1>1, AdmitCases
<1>3. /\ now \in 0 .. MaxTime /\ MapOK(buckets) /\ anonymous \in KeyBucket /\ anonymous.last <= now
      /\ request[r] \in RequestState
  BY DEF IInv, TypeOK, LimiterOK
<1>4. CASE Unlimited(r)
  <2>1. request'[r].verdict = request[r].verdict
    BY <1>3, <1>4 DEF Unlimited, Becomes, RequestState, IInv, TypeOK
  <2> QED
    BY <2>1
<1>5. CASE Charge(r) \in Nat \ {0} /\ AsAnonymous(r)
  <2> DEFINE d == TakeAnonymous(Charge(r))  a == d.bucket
  <2>1. /\ d.allowed \in BOOLEAN /\ d.retryAfter \in Nat /\ a \in KeyBucket /\ a.last <= now
        /\ ~d.allowed => /\ AnonymousRate # 0 /\ AnonymousLevel < Charge(r) /\ a.tokens = AnonymousLevel
                         /\ d.retryAfter = RetryAfter(Charge(r) - AnonymousLevel, AnonymousRate)
    <3>1. AnonymousLevel \in Nat
      BY <1>3, RefillFacts, Numbers DEF AnonymousLevel, KeyBucket
    <3> QED
      BY <1>5, <3>1, TakeAnonymousFacts
  <2>2. request[r].by = Anonymous /\ Decided(r, d, buckets, a)
    BY <1>5 DEF AsAnonymous
  <2> HIDE DEF d, a
  <2>3. /\ request'[r].verdict = IF d.allowed THEN "admitted" ELSE "refused"
        /\ request'[r].retryAfter = d.retryAfter
    BY <1>2, <1>3, <2>1, <2>2, DecidedStep
  <2>4. ~d.allowed
    BY <2>1, <2>3
  <2>5. anonymous' = a
    BY <2>2 DEF Decided
  <2>6. ASSUME Charge(r) <= AnonymousBurst
        PROVE  a.tokens + d.retryAfter * AnonymousRate >= Charge(r)
    <3>1. AnonymousRate \in Nat \ {0} /\ AnonymousBurst <= MaxRetryAfter * AnonymousRate
      BY <2>1, <2>4, Numbers DEF CeilingReaches
    <3> DEFINE n == Charge(r) - a.tokens
    <3>2. n \in Nat /\ n <= MaxRetryAfter * AnonymousRate /\ d.retryAfter = RetryAfter(n, AnonymousRate)
          /\ a.tokens \in Nat
      <4>1. a.tokens \in Nat /\ a.tokens < Charge(r)
        BY <2>1, <2>4 DEF KeyBucket
      <4>2. MaxRetryAfter * AnonymousRate \in Nat
        BY Numbers
      <4>3. n \in Nat /\ n <= AnonymousBurst
        BY <1>5, <2>6, <4>1, Numbers
      <4> QED
        BY <2>1, <2>4, <3>1, <4>1, <4>2, <4>3, Numbers
    <3> HIDE DEF n
    <3>3. d.retryAfter * AnonymousRate >= n /\ d.retryAfter * AnonymousRate \in Nat
      BY <2>1, <3>1, <3>2, WaitRefills
    <3> QED
      BY <1>5, <3>2, <3>3 DEF n
  <2> QED
    BY <2>2, <2>3, <2>5, <2>6 DEF EnoughFor, Charge
<1>6. CASE Charge(r) \in Nat \ {0} /\ AsCaller(r)
  <2> DEFINE k == request[r].by  d == Take(buckets, k, Charge(r))  m == d.map
  <2>1. k \in Key /\ k # Anonymous /\ ~scene.forwarding /\ Decided(r, d, m, anonymous)
    BY <1>3, <1>6 DEF AsCaller, RequestState, Key
  <2>2. Answers(buckets, k, Charge(r), d)
    BY <1>3, <1>6, <2>1, TakeFacts
  <2> HIDE DEF d, k
  <2>3. MapOK(m) /\ d.allowed \in BOOLEAN /\ d.retryAfter \in Nat
    BY <2>2 DEF Answers
  <2>4. ASSUME Charge(r) <= Burst
        PROVE  RoomIn(m, k, Charge(r), d.retryAfter, LevelIn(buckets, k))
    BY <1>3, <1>6, <2>1, <2>2, <2>3, <2>4, RoomForOwn
  <2> HIDE DEF m
  <2>5. request'[r].retryAfter = d.retryAfter
    BY <1>2, <1>3, <2>1, <2>3, DecidedStep
  <2>6. buckets' = m
    BY <2>1 DEF Decided
  <2>7. Charge(r) <= Burst => RoomLater(k, Charge(r), d.retryAfter)
    BY <2>1, <2>4, <2>6, RoomFound
  <2> QED
    BY <2>1, <2>5, <2>7 DEF EnoughFor, Charge, k
<1>7. CASE Charge(r) \in Nat \ {0} /\ AsForwarded(r)
  <2> DEFINE k == request[r].by  s == SharedTake(r)  d == OwnTake(r)  w == WorstOf(s, d)
             m == d.map  t == s.map
  <2>1. /\ k \in Key /\ k # Shared /\ Answers(buckets, Shared, Charge(r), s)
        /\ Answers(t, k, Charge(r), d) /\ Decided(r, w, m, anonymous)
    BY <1>7, ForwardedTakes
  <2>2. k # Anonymous /\ Shared \in Key
    BY <1>7 DEF AsForwarded, Key
  <2> HIDE DEF k, s, d
  <2>3. /\ MapOK(t) /\ s.allowed \in BOOLEAN /\ s.retryAfter \in Nat
        /\ MapOK(m) /\ d.allowed \in BOOLEAN /\ d.retryAfter \in Nat
    BY <2>1 DEF Answers
  <2>4. /\ w.allowed \in BOOLEAN /\ w.retryAfter \in Nat
        /\ w.retryAfter >= s.retryAfter /\ w.retryAfter >= d.retryAfter
    BY <2>3, WorstOfFacts
  <2> HIDE DEF w
  <2>5. LevelIn(t, k) = LevelIn(buckets, k)
    BY <2>1 DEF Answers, ChargedTo
  <2>6. ASSUME Charge(r) <= Burst
        PROVE  /\ RoomIn(m, k, Charge(r), w.retryAfter, LevelIn(buckets, k))
               /\ RoomIn(m, Shared, Charge(r), w.retryAfter, LevelIn(buckets, Shared))
    <3>1. RoomIn(m, Shared, Charge(r), w.retryAfter, LevelIn(buckets, Shared))
      BY <1>3, <1>7, <2>1, <2>2, <2>4, <2>6, RoomForShared
    <3> HIDE DEF t
    <3>2. RoomIn(m, k, Charge(r), w.retryAfter, LevelIn(t, k))
      BY <1>3, <1>7, <2>1, <2>3, <2>4, <2>6, RoomForOwn
    <3> QED
      BY <2>5, <3>1, <3>2
  <2> HIDE DEF m
  <2>7. request'[r].retryAfter = w.retryAfter
    BY <1>2, <1>3, <2>1, <2>3, <2>4, DecidedStep
  <2>8. buckets' = m
    BY <2>1 DEF Decided
  <2>9. Charge(r) <= Burst => /\ RoomLater(k, Charge(r), w.retryAfter)
                              /\ RoomLater(Shared, Charge(r), w.retryAfter)
    BY <2>1, <2>2, <2>6, <2>8, RoomFound
  <2> QED
    BY <2>2, <2>7, <2>9 DEF EnoughFor, Charge, k
<1> QED
  BY <1>2, <1>4, <1>5, <1>6, <1>7

-----------------------------------------------------------------------------
(* The drain *)

HonestDrain ==
    /\ proc.state = "closing" /\ proc'.state = "exited" /\ proc'.signals = proc.signals =>
         \A r \in Request : request[r].promised /\ request[r].open =>
           now >= proc.deadline /\ proc'.code = 1
    /\ proc.state = "draining" /\ proc'.state = "closing" =>
         (proc'.exceeded <=> \E r \in Request :
            request[r].open /\ request[r].kind \notin {"listen", "malformed"})

LEMMA HonestStep ==
    ASSUME IInv, [Next]_vars
    PROVE  HonestDrain
<1>1. proc \in ProcState
  BY DEF IInv, TypeOK
<1>2. CASE Exit
  <2>1. proc.state = "closing" /\ proc'.state = "exited" /\ (proc.exceeded => proc'.code = 1)
    BY <1>1, <1>2 DEF Exit, ProcState
  <2> QED
    BY <2>1 DEF HonestDrain, IInv, DrainOK
<1>3. CASE PollDrain
  <2>1. proc.state = "draining" /\ proc'.state = "closing" /\ (proc'.exceeded <=> inFlight > 0)
    BY <1>1, <1>3 DEF PollDrain, ProcState
  <2>2. inFlight > 0 <=> \E r \in Request : request[r].open /\ request[r].kind \notin {"listen", "malformed"}
    BY CountIsOpen DEF IInv, Busy, Counted, BodyRefused
  <2> QED
    BY <2>1, <2>2 DEF HonestDrain
<1>4. CASE Signal
  <2>1. CASE proc.state # "up"
    <3> DEFINE n == proc.signals + 1
    <3>1. n # proc.signals /\ proc' = [proc EXCEPT !.state = "exited", !.code = 1, !.signals = n]
      BY <1>1, <1>4, <2>1 DEF Signal, ProcState
    <3> HIDE DEF n
    <3>2. proc'.state = "exited" /\ proc'.signals = n
      BY <1>1, <3>1 DEF ProcState
    <3> QED
      BY <3>1, <3>2 DEF HonestDrain
  <2>2. CASE proc.state = "up"
    BY <2>2 DEF HonestDrain
  <2> QED
    BY <2>1, <2>2
<1>5. CASE UNCHANGED proc
  BY <1>5 DEF HonestDrain
<1>6. CASE \/ \E r \in Request : RequestStep(r)
           \/ \E p \in Poll : AskReady(p)
           \/ ProbeAnswered \/ ProbeTimesOut \/ Tick \/ UNCHANGED vars
  <2>1. UNCHANGED proc
    BY <1>6 DEF RequestStep, Arrive, RefuseCaller, Admit, Serve, Close, AskReady, ProbeAnswered,
                ProbeTimesOut, ProbeSettles, Tick, vars
  <2> QED
    BY <1>5, <2>1
<1> QED
  BY <1>2, <1>3, <1>4, <1>6 DEF Next

-----------------------------------------------------------------------------
(* The theorems *)

(* What always holds of the service: the types, a map of the limiter that is *)
(* sound and never over its cap, a counter that is right, and a drain that   *)
(* closes the streams only when its promise is kept or reported.             *)
THEOREM Invariant == Spec => []IInv
<1>1. Init => IInv
  BY Initial
<1>2. IInv /\ [Next]_vars => IInv'
  BY Step
<1> QED
  BY <1>1, <1>2, PTL DEF Spec

(* Every variable keeps its type, the map its cap, and the counter counts    *)
(* the requests that are open.                                               *)
THEOREM TypeCorrect == Spec => []TypeOK
<1>1. IInv => TypeOK
  BY DEF IInv
<1> QED
  BY <1>1, Invariant, PTL

(* The limiter, with its sparse map, its lazy refills and its sweep, is one  *)
(* bucket for every caller (take, refill, sweep).                            *)
THEOREM BucketsImplemented == Spec => ImplementsBuckets
<1>1. Init => IInv /\ Promised!BucketInit
  BY Initial
<1>2. IInv /\ [Next]_vars => IInv' /\ [Promised!BucketNext]_(Promised!bucketVars)
  BY Step
<1> QED
  BY <1>1, <1>2, PTL DEF Spec, ImplementsBuckets, Promised!BucketSpec

(* Whoever waits as long as it was told finds the room that was lacking,     *)
(* whatever callers, capacities and batches there are, when the ceiling on   *)
(* the wait is no shorter than a refill (retryAfterFor, worstOf).            *)
THEOREM RetryAfterIsEnoughHolds == CeilingReaches => (Spec => RetryAfterIsEnough)
<1> SUFFICES ASSUME CeilingReaches PROVE Spec => RetryAfterIsEnough
  OBVIOUS
<1>1. IInv /\ [Next]_vars => \A r \in Request : EnoughFor(r)
  BY EnoughStep
<1>2. []IInv /\ [][Next]_vars => [][\A r \in Request : EnoughFor(r)]_vars
  BY <1>1, PTL
<1>3. Spec => [][\A r \in Request : EnoughFor(r)]_vars
  BY <1>2, Invariant, PTL DEF Spec
<1> QED
  BY <1>3 DEF RetryAfterIsEnough, EnoughFor

(* The shutdown gives what it found in flight the grace period, and reports  *)
(* exactly whether work was left (runDrain, waitForDrain).                   *)
THEOREM DrainIsHonestHolds == Spec => DrainIsHonest
<1>1. IInv /\ [Next]_vars => HonestDrain
  BY HonestStep
<1>2. Spec => [][HonestDrain]_vars
  BY <1>1, Invariant, PTL DEF Spec
<1> QED
  BY <1>2 DEF DrainIsHonest, HonestDrain

===============================================================================
