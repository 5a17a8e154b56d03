----------------------------- MODULE HttpService ------------------------------
(***************************************************************************)
(* The HTTP transport around the tools: what happens to a request to /mcp  *)
(* between its arrival and its close (origin checks, the in-flight count,  *)
(* the rate limiter), the /ready probe, and the shutdown that drains what  *)
(* is in flight.                                                           *)
(*                                                                         *)
(* One action is one turn of the event loop.  How a bearer is resolved is  *)
(* in ToolCall and ProxyGrants; here it ends in a caller or a refusal.     *)
(* Time is counted in ticks and bounded by MaxTime.                        *)
(***************************************************************************)
EXTENDS Integers, FiniteSets

CONSTANTS
    MaxRequests,    \* requests to /mcp are numbered, in the order of arrival, up to this
    Caller,         \* signed-in users, or callers that forward a token
    MaxPolls,       \* bound: requests to /ready
    Burst, Rate,    \* per caller: capacity, and tokens gained in a tick
    AnonymousBurst, AnonymousRate,
    MaxTrackedKeys, \* MAX_TRACKED_KEYS
    MaxRetryAfter,  \* MAX_RETRY_AFTER_SECONDS
    MaxCost,        \* bound: tool calls in one batch
    ReadyTtl,       \* READY_CACHE_TTL_MS
    ProbeTimeout,   \* READY_PROBE_TIMEOUT_MS
    Grace,          \* graceMs of the shutdown
    MaxTime,        \* bound: ticks of the clock
    Scene           \* what the environment does in a behaviour: a set of records
                    \* [limited, forwarding, kinds, requests, polls, signals]; Init picks one

ASSUME ServiceAssumption ==
    /\ {Burst, Rate, MaxTrackedKeys, MaxRetryAfter, MaxCost, ReadyTtl, ProbeTimeout}
         \subseteq Nat \ {0}
    /\ {AnonymousBurst, AnonymousRate, Grace, MaxTime, MaxRequests, MaxPolls} \subseteq Nat
    /\ Caller \cap {"anonymous", "bearer:shared"} = {}
    /\ Scene \subseteq [limited: BOOLEAN, forwarding: BOOLEAN, signals: Nat, polls: BOOLEAN,
                        requests: 0 .. MaxRequests,
                        kinds: SUBSET {"call", "plain", "listen", "foreign", "malformed"}]

VARIABLES
    scene,    \* the member of Scene this behaviour plays
    now,      \* monotonicNow
    buckets,  \* the map of the limiter: keys in it, each with its tokens and last refill
    anonymous,\* the bucket all anonymous callers share
    request,  \* requests to /mcp
    inFlight, \* the counter of the middleware
    ready,    \* readyCache and readyProbeInFlight
    poll,     \* requests to /ready
    proc      \* the process: up, draining, closing its streams, or gone

Request == 1 .. MaxRequests
Poll == 1 .. MaxPolls

limiterVars == <<buckets, anonymous>>
vars == <<scene, now, buckets, anonymous, request, inFlight, ready, poll, proc>>

-----------------------------------------------------------------------------
(* The rate limiter *)

Anonymous == "anonymous"
Shared == "bearer:shared"      \* PASSTHROUGH_SHARED_KEY
Key == Caller \cup {Shared}

Lesser(m, n) == IF m < n THEN m ELSE n
Greater(m, n) == IF m > n THEN m ELSE n

(* refill: lazily, when a bucket is looked at. *)
Refilled(b, rate, burst) ==
    [tokens |-> Lesser(burst, b.tokens + (now - b.last) * rate), last |-> now]

RetryAfter(deficit, rate) ==
    Lesser(MaxRetryAfter, Greater(1, (deficit + rate - 1) \div rate))

(* Mutant of Swept: the sweep drops buckets that are only half refilled. *)
SweptDrained(map) ==
    LET full == {k \in DOMAIN map : 2 * Refilled(map[k], Rate, Burst).tokens >= Burst}
    IN  [k \in DOMAIN map \ full |-> Refilled(map[k], Rate, Burst)]

(* sweep: a bucket that has refilled is as good as none. *)
Swept(map) ==
    LET full == {k \in DOMAIN map : Refilled(map[k], Rate, Burst).tokens >= Burst}
    IN  [k \in DOMAIN map \ full |-> Refilled(map[k], Rate, Burst)]

Crowded(map) == Cardinality(DOMAIN map) >= MaxTrackedKeys

(* What takeFrom makes of a bucket, and the decision it returns. *)
Decision(b, rate, cost) ==
    IF b.tokens >= cost
    THEN [allowed |-> TRUE, retryAfter |-> 0, bucket |-> [b EXCEPT !.tokens = @ - cost]]
    ELSE [allowed |-> FALSE, retryAfter |-> RetryAfter(cost - b.tokens, rate), bucket |-> b]

(* take for a key: the decision, and the map it leaves. *)
Take(map, k, cost) ==
    LET swept == IF k \notin DOMAIN map /\ Crowded(map) THEN Swept(map) ELSE map
        mine == IF k \in DOMAIN map THEN Refilled(map[k], Rate, Burst)
                                    ELSE [tokens |-> Burst, last |-> now]
        made == Decision(mine, Rate, cost)
    IN  IF k \notin DOMAIN map /\ Crowded(swept)
        THEN [allowed |-> FALSE, retryAfter |-> RetryAfter(Burst, Rate), map |-> swept]
        ELSE [allowed |-> made.allowed, retryAfter |-> made.retryAfter,
              map |-> [j \in DOMAIN swept \cup {k} |-> IF j = k THEN made.bucket ELSE swept[j]]]

(* takeAnonymous: unlimited when its rate is 0. *)
TakeAnonymous(cost) ==
    IF AnonymousRate = 0
    THEN [allowed |-> TRUE, retryAfter |-> 0, bucket |-> anonymous]
    ELSE Decision(Refilled(anonymous, AnonymousRate, AnonymousBurst), AnonymousRate, cost)

(* Mutant of WorstOf: the shorter wait is reported. *)
WorstOfShorter(a, b) ==
    [allowed |-> a.allowed /\ b.allowed,
     retryAfter |-> Lesser(a.retryAfter, b.retryAfter)]

(* worstOf: a refusal beats an admission, the longer wait the shorter. *)
WorstOf(a, b) ==
    [allowed |-> a.allowed /\ b.allowed,
     retryAfter |-> Greater(a.retryAfter, b.retryAfter)]

-----------------------------------------------------------------------------
(* Requests to /mcp.  kind: a POST with tool calls, anything else that is    *)
(* answered, a subscription stream, a foreign Origin, or a body or Host that *)
(* is refused before the request is counted.                                 *)

NoRequest == [state |-> "none", open |-> FALSE, kind |-> "plain", by |-> Anonymous, cost |-> 0,
              verdict |-> "none", retryAfter |-> 0, promised |-> FALSE]

(* A request that was answered and closed is forgotten but for its verdict. *)
Settled(q) ==
    IF q.state = "answered" /\ ~q.open
    THEN [NoRequest EXCEPT !.state = "answered", !.verdict = q.verdict] ELSE q

(* A body that does not parse or is too large, or a Host the server does not *)
(* go by; and an Origin no configured one has the hostname of.               *)
BodyRefused(kind) == kind = "malformed"
OriginRefused(kind) == kind = "foreign"

Counted(kind) == kind # "listen" /\ ~BodyRefused(kind)

(* After a signal the listener is closed; a request may still come on a     *)
(* connection that carries another one.                                     *)
MayArrive == proc.state = "up" \/ (proc.state \in {"draining", "closing"} /\ inFlight > 0)

(* The middleware up to the first await of the route: body, Host, count,    *)
(* Origin.                                                                  *)
Arrive(r, kind, by, cost) ==
    /\ MayArrive /\ kind \in scene.kinds /\ r <= scene.requests
    /\ request[r].state = "none" /\ \A q \in 1 .. r - 1 : request[q].state # "none"
    /\ request' = [request EXCEPT ![r] = [NoRequest EXCEPT
                     !.state = IF BodyRefused(kind) \/ OriginRefused(kind) THEN "answered" ELSE "resolving",
                     !.open = TRUE, !.kind = kind, !.by = by, !.cost = cost]]
    /\ inFlight' = IF Counted(kind) THEN inFlight + 1 ELSE inFlight
    /\ UNCHANGED <<scene, now, limiterVars, ready, poll, proc>>

(* resolveCaller refused: 401, or 503 when the refresh may be retried. *)
RefuseCaller(r) ==
    /\ request[r].state = "resolving"
    /\ request' = [request EXCEPT ![r] = Settled([@ EXCEPT !.state = "answered"])]
    /\ UNCHANGED <<scene, now, limiterVars, inFlight, ready, poll, proc>>

(* The limiter has decided, and forgets who asked for what. *)
Decided(r, d, map, anon) ==
    /\ request' = [request EXCEPT ![r] = Settled([@ EXCEPT
                     !.by = Anonymous, !.cost = 0,
                     !.state = IF d.allowed THEN "serving" ELSE "answered",
                     !.verdict = IF d.allowed THEN "admitted" ELSE "refused",
                     !.retryAfter = d.retryAfter])]
    /\ buckets' = map
    /\ anonymous' = anon

(* The caller is known: the limiter decides on tool calls, and what is      *)
(* admitted goes to the handler.                                            *)
Admit(r) ==
    /\ request[r].state = "resolving"
    /\ LET q == request[r] IN
       IF ~scene.limited \/ q.kind # "call"
       THEN /\ request' = [request EXCEPT ![r].state = "serving"]
            /\ UNCHANGED limiterVars
       ELSE IF q.by = Anonymous
       THEN LET d == TakeAnonymous(q.cost) IN Decided(r, d, buckets, d.bucket)
       ELSE IF scene.forwarding
       THEN LET shared == Take(buckets, Shared, q.cost)
                own == Take(shared.map, q.by, q.cost)
            IN  Decided(r, WorstOf(shared, own), own.map, anonymous)
       ELSE LET d == Take(buckets, q.by, q.cost) IN Decided(r, d, d.map, anonymous)
    /\ UNCHANGED <<scene, now, inFlight, ready, poll, proc>>

(* The handler answers; a stream stays open until it is closed. *)
Serve(r) ==
    /\ request[r].state = "serving" /\ request[r].kind # "listen"
    /\ request' = [request EXCEPT ![r] = Settled([@ EXCEPT !.state = "answered"])]
    /\ UNCHANGED <<scene, now, limiterVars, inFlight, ready, poll, proc>>

(* The response's close event: it was sent, or the client has gone. *)
Close(r) ==
    /\ request[r].open
    /\ request' = [request EXCEPT ![r] = Settled([@ EXCEPT !.open = FALSE])]
    /\ inFlight' = IF Counted(request[r].kind) THEN inFlight - 1 ELSE inFlight
    /\ UNCHANGED <<scene, now, limiterVars, ready, poll, proc>>

-----------------------------------------------------------------------------
(* /ready *)

NoEntry == [expires |-> 0, ok |-> FALSE]
NoProbe == [running |-> FALSE, began |-> 0, wikiUp |-> FALSE]

(* A request is answered from the cache, joins the probe that runs, or      *)
(* starts one; wikiUp: will the wiki answer it well, if it answers.         *)
AskReady(p) ==
    /\ proc.state # "exited" /\ scene.polls
    /\ poll[p].state = "none" /\ \A q \in 1 .. p - 1 : poll[q].state # "none"
    /\ now + ProbeTimeout <= MaxTime
    /\ LET fresh == ready.cache # NoEntry /\ now < ready.cache.expires IN
       /\ poll' = [poll EXCEPT ![p] = IF fresh
                     THEN [state |-> "answered", entry |-> ready.cache]
                     ELSE [state |-> "waiting", entry |-> NoEntry]]
       /\ IF fresh \/ ready.probe.running
          THEN UNCHANGED ready
          ELSE \E up \in BOOLEAN :
                 ready' = [ready EXCEPT !.probe = [running |-> TRUE, began |-> now, wikiUp |-> up]]
    /\ UNCHANGED <<scene, now, limiterVars, request, inFlight, proc>>

(* The probe settles: the entry is cached and every request that waited     *)
(* answers with it.                                                         *)
ProbeSettles(ok) ==
    /\ ready.probe.running /\ proc.state # "exited"
    /\ LET entry == [expires |-> now + ReadyTtl, ok |-> ok] IN
       /\ ready' = [cache |-> entry, probe |-> NoProbe]
       /\ poll' = [p \in Poll |-> IF poll[p].state = "waiting"
                                  THEN [poll[p] EXCEPT !.state = "answered", !.entry = entry]
                                  ELSE poll[p]]
    /\ UNCHANGED <<scene, now, limiterVars, request, inFlight, proc>>

ProbeAnswered == ProbeSettles(ready.probe.wikiUp)

ProbeTimesOut == now >= ready.probe.began + ProbeTimeout /\ ProbeSettles(FALSE)

-----------------------------------------------------------------------------
(* Shutdown *)

Up == [state |-> "up", deadline |-> 0, exceeded |-> FALSE, code |-> 0, signals |-> 0]

(* Those a signal finds in flight are promised the grace period. *)
Promise(req) == [r \in Request |-> [req[r] EXCEPT
                   !.promised = req[r].open /\ Counted(req[r].kind)]]

(* Mutant of Signal: the streams are closed, and what is in flight aborted, at once. *)
SignalClosing ==
    /\ proc.state # "exited" /\ proc.signals < scene.signals /\ now + Grace <= MaxTime
    /\ IF proc.state # "up"
       THEN /\ proc' = [proc EXCEPT !.state = "exited", !.code = 1, !.signals = @ + 1]
            /\ UNCHANGED request
       ELSE /\ proc' = [proc EXCEPT !.state = "closing", !.deadline = now + Grace, !.signals = @ + 1]
            /\ request' = Promise(request)
    /\ UNCHANGED <<scene, now, limiterVars, inFlight, ready, poll>>

(* SIGTERM or SIGINT: the first begins the drain, which is over at once when *)
(* nothing is in flight; another ends the process.                           *)
Signal ==
    /\ proc.state # "exited" /\ proc.signals < scene.signals /\ now + Grace <= MaxTime
    /\ IF proc.state # "up"
       THEN /\ proc' = [proc EXCEPT !.state = "exited", !.code = 1, !.signals = @ + 1]
            /\ UNCHANGED request
       ELSE /\ proc' = [proc EXCEPT !.state = IF inFlight = 0 THEN "closing" ELSE "draining",
                                    !.deadline = now + Grace, !.signals = @ + 1]
            /\ request' = Promise(request)
    /\ UNCHANGED <<scene, now, limiterVars, inFlight, ready, poll>>

(* Mutant of PollDrain: the drain waits for the counter and for nothing else. *)
PollDrainForever ==
    /\ proc.state = "draining" /\ inFlight = 0
    /\ proc' = [proc EXCEPT !.state = "closing", !.exceeded = FALSE]
    /\ UNCHANGED <<scene, now, limiterVars, request, inFlight, ready, poll>>

(* A turn of the loop of waitForDrain that leaves it. *)
PollDrain ==
    /\ proc.state = "draining"
    /\ inFlight = 0 \/ now >= proc.deadline
    /\ proc' = [proc EXCEPT !.state = "closing", !.exceeded = inFlight > 0]
    /\ UNCHANGED <<scene, now, limiterVars, request, inFlight, ready, poll>>

(* mcpHandler.close() aborts the exchanges still under way and ends the     *)
(* streams; then the process exits.                                         *)
Exit ==
    /\ proc.state = "closing"
    /\ proc' = [proc EXCEPT !.state = "exited", !.code = IF proc.exceeded THEN 1 ELSE 0]
    /\ UNCHANGED <<scene, now, limiterVars, request, inFlight, ready, poll>>

Tick ==
    /\ now < MaxTime /\ proc.state # "exited"
    /\ now' = now + 1
    /\ UNCHANGED <<scene, limiterVars, request, inFlight, ready, poll, proc>>

-----------------------------------------------------------------------------
Init ==
    /\ scene \in Scene
    /\ now = 0
    /\ buckets = [k \in {} |-> [tokens |-> 0, last |-> 0]]
    /\ anonymous = [tokens |-> AnonymousBurst, last |-> 0]
    /\ request = [r \in Request |-> NoRequest]
    /\ inFlight = 0
    /\ ready = [cache |-> NoEntry, probe |-> NoProbe]
    /\ poll = [p \in Poll |-> [state |-> "none", entry |-> NoEntry]]
    /\ proc = Up

RequestStep(r) ==
    \/ \E by \in Caller \cup {Anonymous}, cost \in 1 .. MaxCost : Arrive(r, "call", by, cost)
    \/ \E kind \in scene.kinds \ {"call"} : Arrive(r, kind, Anonymous, 0)
    \/ proc.state # "exited" /\ (RefuseCaller(r) \/ Admit(r) \/ Serve(r) \/ Close(r))

Next ==
    \/ \E r \in Request : RequestStep(r)
    \/ \E p \in Poll : AskReady(p)
    \/ ProbeAnswered \/ ProbeTimesOut
    \/ Signal \/ PollDrain \/ Exit
    \/ Tick

(* Timers fire: the clock goes on, the drain polls, the probe's timeout is  *)
(* noticed, and closing the handler ends.  Nothing is assumed of a request, *)
(* its client or the wiki.                                                  *)
Fairness == WF_vars(Tick) /\ WF_vars(PollDrain) /\ WF_vars(Exit) /\ WF_vars(ProbeTimesOut)

Spec == Init /\ [][Next]_vars /\ Fairness

-----------------------------------------------------------------------------
(* Properties *)

KeyBucket == [tokens: Nat, last: 0 .. MaxTime]
RequestState ==
    [state: {"none", "resolving", "serving", "answered"}, open: BOOLEAN,
     kind: {"call", "plain", "listen", "foreign", "malformed"}, by: Caller \cup {Anonymous},
     cost: 0 .. MaxCost, verdict: {"none", "admitted", "refused"}, retryAfter: Nat,
     promised: BOOLEAN]
Entry == [expires: Nat, ok: BOOLEAN]
ProbeState == [running: BOOLEAN, began: 0 .. MaxTime, wikiUp: BOOLEAN]
PollState == [state: {"none", "waiting", "answered"}, entry: Entry]
ProcState ==
    [state: {"up", "draining", "closing", "exited"}, deadline: Nat,
     exceeded: BOOLEAN, code: {0, 1}, signals: Nat]

(* Type correctness; the keys in the limiter's map stay under its cap, and   *)
(* the counter of the middleware is the number of counted requests open.     *)
TypeOK ==
    /\ scene \in Scene
    /\ now \in 0 .. MaxTime
    /\ DOMAIN buckets \subseteq Key /\ buckets \in [DOMAIN buckets -> KeyBucket]
    /\ Cardinality(DOMAIN buckets) <= MaxTrackedKeys
    /\ anonymous \in KeyBucket
    /\ request \in [Request -> RequestState]
    /\ inFlight = Cardinality({r \in Request : request[r].open /\ Counted(request[r].kind)})
    /\ ready \in [cache: Entry, probe: ProbeState]
    /\ poll \in [Poll -> PollState]
    /\ proc \in ProcState

(* The limiter is one bucket per caller that refills with time: storing only *)
(* some of them, refilling them lazily and sweeping the refilled ones is not *)
(* visible, save that a new caller may be turned away while the map is full  *)
(* of drained buckets (take, sweep).                                         *)
BurstOf(b) == IF b = Anonymous THEN AnonymousBurst ELSE Burst
RateOf(b) == IF b = Anonymous THEN AnonymousRate ELSE Rate
Level(b) ==
    IF b = Anonymous THEN Refilled(anonymous, AnonymousRate, AnonymousBurst).tokens
    ELSE IF b \in DOMAIN buckets THEN Refilled(buckets[b], Rate, Burst).tokens ELSE Burst

Promised == INSTANCE TokenBuckets WITH
              Bucket <- Key \cup {Anonymous}, Crowd <- MaxTrackedKeys,
              level <- [b \in Key \cup {Anonymous} |-> Level(b)],
              verdict <- [r \in Request |-> request[r].verdict]
ImplementsBuckets == Promised!BucketSpec

(* Retry-After is enough: whoever comes back after the time it was told,     *)
(* with a batch no larger than the burst, finds the room in every bucket     *)
(* that refused it, unless others were charged to it meanwhile; and one      *)
(* turned away by a full map finds room in the map.  A forwarded call that   *)
(* one of its two buckets refused is charged to the other all the same, and  *)
(* for that one nothing is promised (retryAfterFor, worstOf).                *)
RoomLater(k, cost, wait) ==
    IF k \in DOMAIN buckets'
    THEN Level(k) < cost => buckets'[k].tokens + wait * Rate >= cost
    ELSE \A j \in DOMAIN buckets' : buckets'[j].tokens + (now + wait - buckets'[j].last) * Rate >= Burst
RetryAfterIsEnough ==
    [][\A r \in Request :
         LET q == request[r]
             wait == request'[r].retryAfter
         IN  q.verdict = "none" /\ request'[r].verdict = "refused" /\ q.open =>
               IF q.by = Anonymous
               THEN q.cost <= AnonymousBurst => anonymous'.tokens + wait * AnonymousRate >= q.cost
               ELSE q.cost <= Burst => /\ RoomLater(q.by, q.cost, wait)
                                       /\ scene.forwarding => RoomLater(Shared, q.cost, wait)]_vars

(* The drain gives the requests it found in flight the grace period, and     *)
(* reports exactly whether work was left: a request of a client that went    *)
(* away and a subscription stream are none (runDrain, isListenRequest).      *)
DrainIsHonest ==
    [][/\ proc.state = "closing" /\ proc'.state = "exited" /\ proc'.signals = proc.signals =>
            \A r \in Request : request[r].promised /\ request[r].open =>
              now >= proc.deadline /\ proc'.code = 1
       /\ proc.state = "draining" /\ proc'.state = "closing" =>
            (proc'.exceeded <=> \E r \in Request :
               request[r].open /\ request[r].kind \notin {"listen", "malformed"})]_vars

(* A signal ends the process, whatever clients and streams do, and a probe   *)
(* of /ready is answered, whatever the wiki does.                            *)
NothingHangs ==
    /\ proc.signals > 0 ~> proc.state = "exited"
    /\ \A p \in Poll : poll[p].state = "waiting" ~>
                         poll[p].state = "answered" \/ proc.state = "exited"

===============================================================================
