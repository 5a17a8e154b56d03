------------------------------ MODULE WikiCaches ------------------------------
(***************************************************************************)
(* What the server keeps per wiki: its registration (WikiRegistry), the    *)
(* promises of MediaWiki sessions and resolved exec secrets (MwnProvider), *)
(* and the siteinfo cache with the probe in flight (WikiProbe).  All three *)
(* are keyed by the wiki's key, outlive each other, and are filled by      *)
(* answers that arrive after an await; WikiManagement adds and removes the *)
(* registrations under them.                                               *)
(*                                                                         *)
(* This module holds the state of one key and how each call and each       *)
(* answer changes it; one action is one turn of the event loop.  Sessions  *)
(* opened for a caller's own token are never cached and are left out.      *)
(***************************************************************************)
EXTENDS Integers, FiniteSets

CONSTANTS
    Key,         \* wiki keys
    MaxAttempts  \* bound: sessions of one wiki connecting or cached at a time

ASSUME CachesAssumption ==
    /\ Key # {}
    /\ MaxAttempts \in Nat \ {0}

VARIABLES
    registry,  \* the wiki configurations, total over Key
    conn,      \* MwnProviderImpl.cache and .secretCache
    probe      \* WikiProbeImpl.cache and .inflight

-----------------------------------------------------------------------------
(* A registration.  gen numbers the registrations, so that an answer can be *)
(* traced to the one it was asked for; 0 means never registered.  A removed *)
(* wiki keeps its number: calls that resolved it may still be running.      *)
Gen == Nat
WikiConfig ==
    [present: BOOLEAN, gen: Gen, readOnly: BOOLEAN, private: BOOLEAN, exec: BOOLEAN]
Configured ==
    {[present |-> TRUE, gen |-> 1, readOnly |-> r, private |-> p, exec |-> e] :
        r, p, e \in BOOLEAN}
Unregistered ==
    [present |-> FALSE, gen |-> 0, readOnly |-> FALSE, private |-> FALSE, exec |-> FALSE]
Registered == {k \in Key : registry[k].present}

Attempt == 1 .. MaxAttempts
NoAttempt == 0

(* A session promise: which registration it connects for, and whose exec    *)
(* secret it signs in with (0 for none).                                    *)
Promise == [state: {"none", "pending", "ready"}, gen: Gen, secret: Gen]
NoPromise == [state |-> "none", gen |-> 0, secret |-> 0]

Secret == [state: {"none", "pending", "ready"}, gen: Gen]
NoSecret == [state |-> "none", gen |-> 0]

Conn == [cached: Attempt \cup {NoAttempt}, promise: [Attempt -> Promise], secret: Secret]
NoConn == [cached  |-> NoAttempt,
           promise |-> [n \in Attempt |-> NoPromise],
           secret  |-> NoSecret]

(* A siteinfo snapshot; identity is the registration whose wiki the license *)
(* and the other identity fields were read from.                            *)
Entry == [known: BOOLEAN, fresh: BOOLEAN, reachable: BOOLEAN, ext: BOOLEAN, identity: Gen]
NoEntry == [known |-> FALSE, fresh |-> FALSE, reachable |-> FALSE,
            ext |-> FALSE, identity |-> 0]

(* A probe in flight: asking anonymously, waiting for a session to connect, *)
(* or asking through that session.                                          *)
Flight == [stage: {"none", "anonymous", "connecting", "asking"}, gen: Gen,
           attempt: Attempt \cup {NoAttempt}]
NoFlight == [stage |-> "none", gen |-> 0, attempt |-> NoAttempt]

CachesTypeOK ==
    /\ registry \in [Key -> WikiConfig]
    /\ conn \in [Key -> Conn]
    /\ probe \in [Key -> [entry: Entry, flight: Flight]]

-----------------------------------------------------------------------------
(* The operators below map the records of one key to what a call or an      *)
(* answer makes of them: cfg is its registration, c its sessions, p its     *)
(* siteinfo.                                                                *)

(* MwnProvider.get: the cached promise, or a new one that is put into the   *)
(* cache in the turn that read the configuration.                           *)
Free(c) == {n \in Attempt : c.promise[n].state = "none"}
CanOpen(c) == c.cached # NoAttempt \/ Free(c) # {}

(* resolveSecret: the command runs once per key while it succeeds. *)
Resolving(cfg, c) ==
    IF cfg.exec /\ c.secret.state = "none" THEN [state |-> "pending", gen |-> cfg.gen]
                                           ELSE c.secret

(* Mutant of SecretUsed: the secret cache is read before the configuration. *)
SecretUsedUnasked(cfg, c) == Resolving(cfg, c).gen

SecretUsed(cfg, c) == IF cfg.exec THEN Resolving(cfg, c).gen ELSE 0

Opened(cfg, c) ==
    LET n == CHOOSE i \in Free(c) : TRUE
    IN  IF c.cached # NoAttempt THEN c
        ELSE [cached  |-> n,
              promise |-> [c.promise EXCEPT ![n] =
                             [state |-> "pending", gen |-> cfg.gen,
                              secret |-> SecretUsed(cfg, c)]],
              secret  |-> Resolving(cfg, c)]

(* A promise that left the cache is only kept while somebody awaits it. *)
Evicted(c) ==
    [cached  |-> NoAttempt,
     promise |-> [n \in Attempt |->
                    IF c.promise[n].state = "ready" THEN NoPromise ELSE c.promise[n]],
     secret  |-> c.secret]

Without(c, failed, secret) ==
    [cached  |-> c.cached,
     promise |-> [n \in Attempt |-> IF n \in failed THEN NoPromise ELSE c.promise[n]],
     secret  |-> secret]

(* Mutant of Rejected: the rejected promise stays cached. *)
RejectedStaysCached(c, failed, secret) == Without(c, failed, secret)

(* create() rejects for the promises in failed, and the secret cache becomes *)
(* secret: the promise cached for the key goes, also when it is a newer one  *)
(* than the one that failed.                                                 *)
Rejected(c, failed, secret) == Evicted(Without(c, failed, secret))

Connected(c, n) ==
    [c EXCEPT !.promise[n] = IF c.cached = n THEN [c.promise[n] EXCEPT !.state = "ready"]
                                             ELSE NoPromise]

(* Mutant of InvalidatedConn: only the siteinfo is dropped. *)
InvalidatedNothing(c) == c

(* Mutant of InvalidatedConn: a connecting session is dropped, not awaited. *)
InvalidatedAborting(c) ==
    [c EXCEPT !.cached = NoAttempt, !.promise = [n \in Attempt |-> NoPromise]]

(* MwnProvider.invalidate: the exec secrets stay. *)
InvalidatedConn(c) == Evicted(c)

(* The promises that fail with the secret command. *)
AwaitingSecret(c) == {n \in Attempt : c.promise[n].state = "pending" /\ c.promise[n].secret # 0}

-----------------------------------------------------------------------------
InFlight(p) == p.flight.stage # "none"
Fresh(p) == p.entry.known /\ p.entry.fresh

(* recordFailure: an unreachable wiki keeps the identity it last showed. *)
FailureEntry(p) ==
    [known |-> TRUE, fresh |-> TRUE, reachable |-> FALSE, ext |-> FALSE,
     identity |-> p.entry.identity]
SuccessEntry(ext, gen) ==
    [known |-> TRUE, fresh |-> TRUE, reachable |-> TRUE, ext |-> ext, identity |-> gen]

(* WikiProbe.invalidate: the cached answer goes, a probe in flight stays. *)
InvalidatedProbe(p) == [p EXCEPT !.entry = NoEntry]

(* WikiProbe.inspect: a key neither cached nor in flight is asked, a        *)
(* private wiki through its session.                                        *)
NeedsProbe(p) == ~Fresh(p) /\ ~InFlight(p)

(* The flight that waits for the session of c, or uses it if connected. *)
ThroughSession(c) ==
    IF c.promise[c.cached].state = "ready"
    THEN [stage |-> "asking", gen |-> c.promise[c.cached].gen, attempt |-> NoAttempt]
    ELSE [stage |-> "connecting", gen |-> c.promise[c.cached].gen, attempt |-> c.cached]

FlightFor(cfg, c) ==
    IF cfg.private THEN ThroughSession(Opened(cfg, c))
    ELSE [stage |-> "anonymous", gen |-> cfg.gen, attempt |-> NoAttempt]

CanAsk(cfg, c, p) == NeedsProbe(p) /\ cfg.private => CanOpen(c)
AskedConn(cfg, c, p) == IF NeedsProbe(p) /\ cfg.private THEN Opened(cfg, c) ELSE c
AskedProbe(cfg, c, p) ==
    IF NeedsProbe(p) THEN [p EXCEPT !.flight = FlightFor(cfg, c)] ELSE p
=============================================================================
