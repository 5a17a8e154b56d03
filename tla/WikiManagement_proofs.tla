------------------------- MODULE WikiManagement_proofs -------------------------
(***************************************************************************)
(* Theorems about WikiManagement, for every set of wikis, every initial    *)
(* configuration and every bound; and about PageEdits, for every page,     *)
(* every source a caller writes and any number of calls.                   *)
(***************************************************************************)
EXTENDS WikiManagement, PageEdits, FiniteSetTheorems, FunctionTheorems, SequenceTheorems,
        WellFoundedInduction, TLAPS

ProbeState == [entry: Entry, flight: Flight]

(* What holds of the records of one key between two turns.  A cached promise *)
(* is alive and belongs to the registration that stands; a promise signs in  *)
(* with the secret of its own registration, and so will the next one; and a  *)
(* probe that waits for a session waits for one that is connecting.          *)
CacheOK(cfg, c) ==
    c.cached # NoAttempt =>
        /\ cfg.present
        /\ c.promise[c.cached].state # "none"
        /\ c.promise[c.cached].gen = cfg.gen
HomeOK(c) == \A n \in Attempt : c.promise[n].secret \in {0, c.promise[n].gen}
SourceOK(cfg, c) == cfg.exec /\ c.secret.state # "none" => c.secret.gen = cfg.gen
WaitOK(c, p) ==
    p.flight.stage = "connecting" =>
        p.flight.attempt \in Attempt /\ c.promise[p.flight.attempt].state = "pending"

ConnOK(cfg, c) == c \in Conn /\ CacheOK(cfg, c) /\ HomeOK(c) /\ SourceOK(cfg, c)
KeyOK(cfg, c, p) ==
    cfg \in WikiConfig /\ p \in ProbeState /\ ConnOK(cfg, c) /\ WaitOK(c, p)

(* The inductive invariant. *)
CachesInv ==
    /\ registry \in [Key -> WikiConfig]
    /\ conn \in [Key -> Conn]
    /\ probe \in [Key -> ProbeState]
    /\ \A k \in Key : KeyOK(registry[k], conn[k], probe[k])

(* The promises of d that were pending in c are pending still. *)
KeepsPending(c, d) ==
    \A n \in Attempt : c.promise[n].state = "pending" => d.promise[n].state = "pending"

-----------------------------------------------------------------------------
(* The operators on the records of one key. *)
LEMMA NoAttemptFree == NoAttempt \notin Attempt
BY CachesAssumption DEF NoAttempt, Attempt

LEMMA OpenedOK ==
    ASSUME NEW cfg \in WikiConfig, NEW c, ConnOK(cfg, c), cfg.present, CanOpen(c)
    PROVE  /\ ConnOK(cfg, Opened(cfg, c))
           /\ KeepsPending(c, Opened(cfg, c))
           /\ Opened(cfg, c).cached \in Attempt
<1> DEFINE n == CHOOSE i \in Free(c) : TRUE
           q == [state |-> "pending", gen |-> cfg.gen, secret |-> SecretUsed(cfg, c)]
           d == [cached  |-> n, promise |-> [c.promise EXCEPT ![n] = q],
                 secret  |-> Resolving(cfg, c)]
<1>1. CASE c.cached # NoAttempt
  <2>1. Opened(cfg, c) = c
    BY <1>1 DEF Opened
  <2>2. c.cached \in Attempt
    BY <1>1 DEF ConnOK, Conn
  <2> QED
    BY <2>1, <2>2 DEF KeepsPending
<1>2. CASE c.cached = NoAttempt
  <2>1. Opened(cfg, c) = d
    BY <1>2 DEF Opened
  <2>2. n \in Free(c)
    BY <1>2 DEF CanOpen
  <2>3. n \in Attempt /\ c.promise[n].state = "none"
    BY <2>2 DEF Free
  <2>4. c \in Conn /\ cfg.gen \in Gen
    BY DEF ConnOK, WikiConfig
  <2>5. /\ Resolving(cfg, c) \in Secret
        /\ cfg.exec => Resolving(cfg, c).gen = cfg.gen
    BY <2>4 DEF ConnOK, SourceOK, Resolving, Secret, Conn
  <2>6. SecretUsed(cfg, c) \in {0, cfg.gen}
    BY <2>5 DEF SecretUsed
  <2>7. q \in Promise
    BY <2>4, <2>6 DEF Promise, Gen
  <2>8. d.promise \in [Attempt -> Promise]
    BY <2>4, <2>7 DEF Conn
  <2>9. d \in Conn
    BY <2>3, <2>5, <2>8 DEF Conn
  <2>10. d.promise[n] = q
    BY <2>3, <2>4 DEF Conn
  <2>11. \A i \in Attempt : i # n => d.promise[i] = c.promise[i]
    BY <2>4 DEF Conn
  <2>12. CacheOK(cfg, d)
    BY <2>10 DEF CacheOK
  <2>13. HomeOK(d)
    BY <2>6, <2>10, <2>11 DEF HomeOK, ConnOK
  <2>14. SourceOK(cfg, d)
    BY <2>5 DEF SourceOK
  <2>15. KeepsPending(c, d)
    BY <2>3, <2>11 DEF KeepsPending
  <2> QED
    BY <2>1, <2>3, <2>9, <2>12, <2>13, <2>14, <2>15 DEF ConnOK
<1> QED
  BY <1>1, <1>2

LEMMA EvictedOK ==
    ASSUME NEW cfg, NEW c \in Conn, HomeOK(c), SourceOK(cfg, c)
    PROVE  ConnOK(cfg, Evicted(c)) /\ KeepsPending(c, Evicted(c))
<1> DEFINE ps == [n \in Attempt |-> IF c.promise[n].state = "ready" THEN NoPromise
                                                                    ELSE c.promise[n]]
<1>1. Evicted(c) = [cached |-> NoAttempt, promise |-> ps, secret |-> c.secret]
  BY DEF Evicted, Conn
<1>2. NoPromise \in Promise
  BY DEF NoPromise, Promise, Gen
<1>3. ps \in [Attempt -> Promise]
  BY <1>2 DEF Conn
<1>4. Evicted(c) \in Conn
  BY <1>1, <1>3 DEF Conn
<1>5. HomeOK(Evicted(c))
  BY <1>1 DEF HomeOK, NoPromise
<1>6. CacheOK(cfg, Evicted(c)) /\ SourceOK(cfg, Evicted(c))
  BY <1>1 DEF CacheOK, SourceOK
<1>7. KeepsPending(c, Evicted(c))
  BY <1>1 DEF KeepsPending
<1> QED
  BY <1>4, <1>5, <1>6, <1>7 DEF ConnOK

LEMMA RejectedOK ==
    ASSUME NEW cfg, NEW c \in Conn, HomeOK(c), NEW failed, NEW secret \in Secret,
           cfg.exec /\ secret.state # "none" => secret.gen = cfg.gen
    PROVE  LET d == Rejected(c, failed, secret)
           IN  /\ ConnOK(cfg, d)
               /\ \A n \in Attempt \ failed :
                    c.promise[n].state = "pending" => d.promise[n].state = "pending"
<1> DEFINE ps == [n \in Attempt |-> IF n \in failed THEN NoPromise ELSE c.promise[n]]
           w == [cached |-> c.cached, promise |-> ps, secret |-> secret]
<1>1. NoPromise \in Promise
  BY DEF NoPromise, Promise, Gen
<1>2. ps \in [Attempt -> Promise]
  BY <1>1 DEF Conn
<1>3. w \in Conn
  BY <1>2 DEF Conn
<1>4. HomeOK(w) /\ SourceOK(cfg, w)
  BY DEF HomeOK, SourceOK, NoPromise
<1>5. ConnOK(cfg, Evicted(w)) /\ KeepsPending(w, Evicted(w))
  BY <1>3, <1>4, EvictedOK
<1>7. Rejected(c, failed, secret) = Evicted(w)
  BY DEF Rejected, Without
<1>8. \A n \in Attempt \ failed : w.promise[n] = c.promise[n]
  OBVIOUS
<1> QED
  BY <1>5, <1>7, <1>8 DEF KeepsPending

LEMMA ConnectedOK ==
    ASSUME NEW cfg, NEW c, ConnOK(cfg, c), NEW n \in Attempt,
           c.promise[n].state = "pending"
    PROVE  /\ ConnOK(cfg, Connected(c, n))
           /\ \A i \in Attempt \ {n} : Connected(c, n).promise[i] = c.promise[i]
<1> DEFINE q == IF c.cached = n THEN [c.promise[n] EXCEPT !.state = "ready"] ELSE NoPromise
           d == [cached |-> c.cached, promise |-> [c.promise EXCEPT ![n] = q],
                 secret |-> c.secret]
<1>1. c \in Conn
  BY DEF ConnOK
<1>2. Connected(c, n) = d
  BY <1>1 DEF Connected, Conn
<1>3. c.promise[n] \in Promise
  BY <1>1 DEF Conn
<1>4. q \in Promise
  BY <1>3 DEF Promise, NoPromise, Gen
<1>5. d \in Conn
  BY <1>1, <1>4 DEF Conn
<1>6. d.promise[n] = q /\ \A i \in Attempt : i # n => d.promise[i] = c.promise[i]
  BY <1>1 DEF Conn
<1>7. q.secret \in {0, q.gen}
  BY <1>3 DEF ConnOK, HomeOK, Promise, NoPromise
<1>8. HomeOK(d)
  BY <1>6, <1>7 DEF HomeOK, ConnOK
<1>9. c.cached = n => q.state = "ready" /\ q.gen = c.promise[n].gen
  BY <1>3 DEF Promise
<1>10. CacheOK(cfg, d)
  <2>1. c.cached # NoAttempt => c.cached \in Attempt
    BY <1>1 DEF Conn
  <2> QED
    BY <1>6, <1>9, <2>1 DEF CacheOK, ConnOK
<1>11. SourceOK(cfg, d)
  BY DEF SourceOK, ConnOK
<1> QED
  BY <1>2, <1>5, <1>6, <1>8, <1>10, <1>11 DEF ConnOK

LEMMA SiteinfoTypes ==
    ASSUME NEW p \in ProbeState
    PROVE  /\ NoEntry \in Entry /\ NoFlight \in Flight /\ NoFlight.stage = "none"
           /\ FailureEntry(p) \in Entry
           /\ \A ext \in BOOLEAN, gen \in Gen : SuccessEntry(ext, gen) \in Entry
BY DEF ProbeState, NoEntry, NoFlight, FailureEntry, SuccessEntry, Entry, Flight, Gen, NoAttempt

LEMMA ThroughSessionOK ==
    ASSUME NEW cfg, NEW c, ConnOK(cfg, c), c.cached \in Attempt
    PROVE  /\ ThroughSession(c) \in Flight
           /\ ThroughSession(c).stage = "connecting" =>
                /\ ThroughSession(c).attempt \in Attempt
                /\ c.promise[ThroughSession(c).attempt].state = "pending"
<1>1. c \in Conn /\ c.promise[c.cached] \in Promise
  BY DEF ConnOK, Conn
<1>2. c.promise[c.cached].state \in {"pending", "ready"}
  BY <1>1, NoAttemptFree DEF ConnOK, CacheOK, Promise
<1>3. c.promise[c.cached].gen \in Gen
  BY <1>1 DEF Promise
<1> QED
  BY <1>2, <1>3 DEF ThroughSession, Flight, NoAttempt

(* inspect, for a registered key: its sessions and siteinfo afterwards. *)
LEMMA AskedOK ==
    ASSUME NEW cfg, NEW c, NEW p, KeyOK(cfg, c, p), cfg.present, CanAsk(cfg, c, p)
    PROVE  KeyOK(cfg, AskedConn(cfg, c, p), AskedProbe(cfg, c, p))
<1> DEFINE d == AskedConn(cfg, c, p)
<1>1. cfg \in WikiConfig /\ p \in ProbeState /\ ConnOK(cfg, c)
  BY DEF KeyOK
<1>2. CASE ~NeedsProbe(p)
  BY <1>2 DEF AskedConn, AskedProbe
<1>3. CASE NeedsProbe(p) /\ ~cfg.private
  <2>1. d = c
    BY <1>3 DEF AskedConn
  <2>2. AskedProbe(cfg, c, p) =
          [p EXCEPT !.flight = [stage |-> "anonymous", gen |-> cfg.gen, attempt |-> NoAttempt]]
    BY <1>3 DEF AskedProbe, FlightFor
  <2>3. [stage |-> "anonymous", gen |-> cfg.gen, attempt |-> NoAttempt] \in Flight
    BY <1>1 DEF Flight, WikiConfig
  <2> QED
    BY <1>1, <2>1, <2>2, <2>3 DEF KeyOK, ProbeState, WaitOK
<1>4. CASE NeedsProbe(p) /\ cfg.private
  <2>1. d = Opened(cfg, c) /\ ConnOK(cfg, d) /\ d.cached \in Attempt
    BY <1>1, <1>4, OpenedOK DEF AskedConn, CanAsk
  <2>2. AskedProbe(cfg, c, p) = [p EXCEPT !.flight = ThroughSession(d)]
    BY <1>4, <2>1 DEF AskedProbe, FlightFor
  <2>3. AskedProbe(cfg, c, p) \in ProbeState /\ AskedProbe(cfg, c, p).flight = ThroughSession(d)
    BY <1>1, <2>1, <2>2, ThroughSessionOK DEF ProbeState
  <2>4. WaitOK(d, AskedProbe(cfg, c, p))
    BY <2>1, <2>3, ThroughSessionOK DEF WaitOK
  <2> QED
    BY <1>1, <2>1, <2>3, <2>4 DEF KeyOK
<1> QED
  BY <1>2, <1>3, <1>4

(* A pass over any registry whose keys are in order leaves them so. *)
LEMMA ReconcileOK ==
    ASSUME NEW reg, NEW cns, NEW prb,
           reg \in [Key -> WikiConfig],
           \A k \in Key : KeyOK(reg[k], cns[k], prb[k]),
           \A k \in Key : reg[k].present => CanAsk(reg[k], cns[k], prb[k])
    PROVE  /\ AskedConns(reg, cns, prb) \in [Key -> Conn]
           /\ AskedProbes(reg, cns, prb) \in [Key -> ProbeState]
           /\ \A k \in Key :
                KeyOK(reg[k], AskedConns(reg, cns, prb)[k], AskedProbes(reg, cns, prb)[k])
<1>1. ASSUME NEW k \in Key
      PROVE  KeyOK(reg[k], AskedConns(reg, cns, prb)[k], AskedProbes(reg, cns, prb)[k])
  <2>1. CASE reg[k].present
    BY <2>1, AskedOK DEF AskedConns, AskedProbes
  <2>2. CASE ~reg[k].present
    BY <2>2 DEF AskedConns, AskedProbes
  <2> QED
    BY <2>1, <2>2
<1>2. \A k \in Key : AskedConns(reg, cns, prb)[k] \in Conn
  BY <1>1 DEF KeyOK, ConnOK
<1>3. \A k \in Key : AskedProbes(reg, cns, prb)[k] \in ProbeState
  BY <1>1 DEF KeyOK
<1> QED
  BY <1>1, <1>2, <1>3 DEF AskedConns, AskedProbes

-----------------------------------------------------------------------------
(* The invariant of the caches, step by step. *)
LEMMA OneKey ==
    ASSUME CachesInv, NEW k \in Key, NEW c, NEW p,
           KeyOK(registry[k], c, p),
           registry' = registry,
           conn' = [conn EXCEPT ![k] = c],
           probe' = [probe EXCEPT ![k] = p]
    PROVE  CachesInv'
<1>1. c \in Conn /\ p \in ProbeState
  BY DEF KeyOK, ConnOK
<1>2. /\ registry' \in [Key -> WikiConfig]
      /\ conn' \in [Key -> Conn]
      /\ probe' \in [Key -> ProbeState]
  BY <1>1 DEF CachesInv
<1>3. ASSUME NEW j \in Key PROVE KeyOK(registry'[j], conn'[j], probe'[j])
  <2>1. CASE j = k
    BY <2>1 DEF CachesInv
  <2>2. CASE j # k
    BY <2>2 DEF CachesInv
  <2> QED
    BY <2>1, <2>2
<1> QED
  BY <1>2, <1>3 DEF CachesInv

LEMMA ProbeEndsOK ==
    ASSUME CachesInv, NEW k \in Key, NEW c, NEW entry \in Entry,
           ConnOK(registry[k], c), ProbeEnds(k, c, entry)
    PROVE  CachesInv'
<1> DEFINE p == [entry |-> entry, flight |-> NoFlight]
<1>1. p \in ProbeState /\ WaitOK(c, p)
  BY DEF ProbeState, NoFlight, Flight, WaitOK, Gen, NoAttempt
<1>2. KeyOK(registry[k], c, p)
  BY <1>1 DEF KeyOK, CachesInv
<1>3. /\ registry' = registry /\ conn' = [conn EXCEPT ![k] = c]
      /\ probe' = [probe EXCEPT ![k] = p]
  BY DEF ProbeEnds
<1> QED
  BY <1>2, <1>3, OneKey

LEMMA ReconcileStep ==
    ASSUME NEW reg \in [Key -> WikiConfig], NEW cns, NEW prb,
           \A k \in Key : KeyOK(reg[k], cns[k], prb[k]),
           Reconcile(reg, cns, prb)
    PROVE  CachesInv' /\ registry' = reg
<1>1. /\ registry' = reg
      /\ conn' = AskedConns(reg, cns, prb)
      /\ probe' = AskedProbes(reg, cns, prb)
      /\ \A k \in Key : reg[k].present => CanAsk(reg[k], cns[k], prb[k])
  BY DEF Reconcile
<1> QED
  BY <1>1, ReconcileOK DEF CachesInv

LEMMA SessionsRejectOK ==
    ASSUME CachesInv, NEW k \in Key, NEW failed \in SUBSET Attempt, NEW secret \in Secret,
           registry[k].exec /\ secret.state # "none" => secret.gen = registry[k].gen,
           SessionsReject(k, failed, secret)
    PROVE  CachesInv'
<1> DEFINE c == Rejected(conn[k], failed, secret)
<1>1. KeyOK(registry[k], conn[k], probe[k])
  BY DEF CachesInv
<1>2. /\ ConnOK(registry[k], c)
      /\ \A n \in Attempt \ failed :
           conn[k].promise[n].state = "pending" => c.promise[n].state = "pending"
  BY <1>1, RejectedOK DEF KeyOK, ConnOK
<1>3. CASE probe[k].flight.attempt \in failed
  <2>1. ProbeEnds(k, c, FailureEntry(probe[k]))
    BY <1>3 DEF SessionsReject
  <2>2. FailureEntry(probe[k]) \in Entry
    BY <1>1, SiteinfoTypes DEF KeyOK
  <2> QED
    BY <1>2, <2>1, <2>2, ProbeEndsOK
<1>4. CASE probe[k].flight.attempt \notin failed
  <2>1. registry' = registry /\ conn' = [conn EXCEPT ![k] = c] /\ probe' = probe
    BY <1>4 DEF SessionsReject
  <2>2. probe' = [probe EXCEPT ![k] = probe[k]]
    BY <2>1 DEF CachesInv
  <2>3. WaitOK(c, probe[k])
    BY <1>1, <1>2, <1>4 DEF WaitOK, KeyOK
  <2>4. KeyOK(registry[k], c, probe[k])
    BY <1>1, <1>2, <2>3 DEF KeyOK
  <2> QED
    BY <2>1, <2>2, <2>4, OneKey
<1> QED
  BY <1>3, <1>4

LEMMA AddWikiOK == ASSUME CachesInv, NEW k \in Key, AddWiki(k) PROVE CachesInv'
<1> DEFINE cfg == [present |-> TRUE, gen |-> registry[k].gen + 1, readOnly |-> Inherited,
                   private |-> FALSE, exec |-> FALSE]
           reg == [registry EXCEPT ![k] = cfg]
<1>1. ~registry[k].present /\ Reconcile(reg, conn, probe)
  BY DEF AddWiki
<1>2. registry[k] \in WikiConfig
  BY DEF CachesInv
<1>3. cfg \in WikiConfig
  BY <1>2 DEF WikiConfig, Gen, Inherited
<1>4. reg \in [Key -> WikiConfig]
  BY <1>3 DEF CachesInv
<1>5. ASSUME NEW j \in Key PROVE KeyOK(reg[j], conn[j], probe[j])
  <2>1. KeyOK(registry[j], conn[j], probe[j])
    BY DEF CachesInv
  <2>2. CASE j # k
    BY <2>1, <2>2 DEF CachesInv
  <2>3. CASE j = k
    <3>1. reg[j] = cfg
      BY <2>3 DEF CachesInv
    <3>2. CacheOK(cfg, conn[j]) /\ SourceOK(cfg, conn[j])
      BY <1>1, <2>1, <2>3 DEF KeyOK, ConnOK, CacheOK, SourceOK
    <3> QED
      BY <1>3, <2>1, <3>1, <3>2 DEF KeyOK, ConnOK
  <2> QED
    BY <2>2, <2>3
<1> QED
  BY <1>1, <1>4, <1>5, ReconcileStep

LEMMA RemoveWikiOK == ASSUME CachesInv, NEW k \in Key, RemoveWiki(k) PROVE CachesInv'
<1> DEFINE cfg == [registry[k] EXCEPT !.present = FALSE]
           reg == [registry EXCEPT ![k].present = FALSE]
           c == InvalidatedConn(conn[k])
           p == InvalidatedProbe(probe[k])
           cns == [conn EXCEPT ![k] = c]
           prb == [probe EXCEPT ![k] = p]
<1>1. Reconcile(reg, cns, prb)
  BY DEF RemoveWiki
<1>2. KeyOK(registry[k], conn[k], probe[k])
  BY DEF CachesInv
<1>3. cfg \in WikiConfig /\ cfg.exec = registry[k].exec /\ cfg.gen = registry[k].gen
  BY <1>2 DEF KeyOK, WikiConfig
<1>4. reg \in [Key -> WikiConfig] /\ reg[k] = cfg
  BY <1>3 DEF CachesInv
<1>5. ConnOK(cfg, c) /\ KeepsPending(conn[k], c)
  BY <1>2, <1>3, EvictedOK DEF KeyOK, ConnOK, SourceOK, InvalidatedConn
<1>6. p \in ProbeState /\ p.flight = probe[k].flight
  BY <1>2, SiteinfoTypes DEF KeyOK, ProbeState, InvalidatedProbe
<1>7. WaitOK(c, p)
  BY <1>2, <1>5, <1>6 DEF KeyOK, WaitOK, KeepsPending
<1>8. KeyOK(cfg, c, p)
  BY <1>3, <1>5, <1>6, <1>7 DEF KeyOK
<1>9. ASSUME NEW j \in Key PROVE KeyOK(reg[j], cns[j], prb[j])
  <2>1. CASE j = k
    BY <1>4, <1>8, <2>1 DEF CachesInv
  <2>2. CASE j # k
    BY <2>2 DEF CachesInv
  <2> QED
    BY <2>1, <2>2
<1> QED
  BY <1>1, <1>4, <1>9, ReconcileStep

LEMMA UseWikiOK == ASSUME CachesInv, NEW k \in Key, UseWiki(k) PROVE CachesInv'
<1> DEFINE c == Opened(registry[k], conn[k])
<1>1. KeyOK(registry[k], conn[k], probe[k])
  BY DEF CachesInv
<1>2. ConnOK(registry[k], c) /\ KeepsPending(conn[k], c)
  BY <1>1, OpenedOK DEF UseWiki, KeyOK
<1>3. WaitOK(c, probe[k])
  BY <1>1, <1>2 DEF KeyOK, WaitOK, KeepsPending
<1>4. KeyOK(registry[k], c, probe[k])
  BY <1>1, <1>2, <1>3 DEF KeyOK
<1>5. probe' = [probe EXCEPT ![k] = probe[k]]
  BY DEF UseWiki, CachesInv
<1> QED
  BY <1>4, <1>5, OneKey DEF UseWiki

LEMMA LookUpOK == ASSUME CachesInv, NEW k \in Key, LookUp(k) PROVE CachesInv'
<1>1. KeyOK(registry[k], conn[k], probe[k])
  BY DEF CachesInv
<1>2. CASE registry[k].present
  BY <1>1, <1>2, AskedOK, OneKey DEF LookUp
<1>3. CASE ~registry[k].present
  <2> DEFINE p == [probe[k] EXCEPT !.entry = FailureEntry(probe[k])]
  <2>1. p \in ProbeState /\ p.flight = probe[k].flight
    BY <1>1, SiteinfoTypes DEF KeyOK, ProbeState
  <2>2. KeyOK(registry[k], conn[k], p)
    BY <1>1, <2>1 DEF KeyOK, WaitOK
  <2>3. registry' = registry /\ probe' = [probe EXCEPT ![k] = p]
    BY <1>3 DEF LookUp, CachesInv
  <2>4. conn' = [conn EXCEPT ![k] = conn[k]]
    BY <1>3 DEF LookUp, CachesInv
  <2> QED
    BY <2>2, <2>3, <2>4, OneKey
<1> QED
  BY <1>2, <1>3

LEMMA EntryExpiresOK == ASSUME CachesInv, NEW k \in Key, EntryExpires(k) PROVE CachesInv'
<1> DEFINE p == [probe[k] EXCEPT !.entry.fresh = FALSE]
<1>1. KeyOK(registry[k], conn[k], probe[k])
  BY DEF CachesInv
<1>2. [probe[k].entry EXCEPT !.fresh = FALSE] \in Entry
  BY <1>1 DEF KeyOK, ProbeState, Entry
<1>3. p \in ProbeState /\ p.flight = probe[k].flight
  BY <1>1, <1>2 DEF KeyOK, ProbeState
<1>4. KeyOK(registry[k], conn[k], p)
  BY <1>1, <1>3 DEF KeyOK, WaitOK
<1>5. registry' = registry /\ probe' = [probe EXCEPT ![k] = p]
  BY DEF EntryExpires, CachesInv
<1>6. conn' = [conn EXCEPT ![k] = conn[k]]
  BY DEF EntryExpires, CachesInv
<1> QED
  BY <1>4, <1>5, <1>6, OneKey

LEMMA ProbeSucceedsOK ==
    ASSUME CachesInv, NEW k \in Key, NEW ext \in BOOLEAN, ProbeSucceeds(k, ext)
    PROVE  CachesInv'
<1>1. KeyOK(registry[k], conn[k], probe[k])
  BY DEF CachesInv
<1>2. probe[k].flight.gen \in Gen
  BY <1>1 DEF KeyOK, ProbeState, Flight
<1>3. SuccessEntry(ext, probe[k].flight.gen) \in Entry
  BY <1>1, <1>2, SiteinfoTypes DEF KeyOK
<1> QED
  BY <1>1, <1>3, ProbeEndsOK DEF ProbeSucceeds, KeyOK

LEMMA ProbeFailsOK == ASSUME CachesInv, NEW k \in Key, ProbeFails(k) PROVE CachesInv'
<1>1. KeyOK(registry[k], conn[k], probe[k])
  BY DEF CachesInv
<1>2. FailureEntry(probe[k]) \in Entry
  BY <1>1, SiteinfoTypes DEF KeyOK
<1> QED
  BY <1>1, <1>2, ProbeEndsOK DEF ProbeFails, KeyOK

LEMMA ProbeDeniedOK == ASSUME CachesInv, NEW k \in Key, ProbeDenied(k) PROVE CachesInv'
<1> DEFINE c == Opened(registry[k], conn[k])
           p == [probe[k] EXCEPT !.flight = ThroughSession(c)]
<1>1. KeyOK(registry[k], conn[k], probe[k])
  BY DEF CachesInv
<1>2. CASE registry[k].present
  <2>1. CanOpen(conn[k]) /\ registry' = registry /\ conn' = [conn EXCEPT ![k] = c]
    BY <1>2 DEF ProbeDenied
  <2>2. ConnOK(registry[k], c) /\ c.cached \in Attempt
    BY <1>1, <1>2, <2>1, OpenedOK DEF KeyOK
  <2>3. p \in ProbeState /\ p.flight = ThroughSession(c)
    BY <1>1, <2>2, ThroughSessionOK DEF KeyOK, ProbeState
  <2>4. WaitOK(c, p)
    BY <2>2, <2>3, ThroughSessionOK DEF WaitOK
  <2>5. KeyOK(registry[k], c, p)
    BY <1>1, <2>2, <2>3, <2>4 DEF KeyOK
  <2>6. probe' = [probe EXCEPT ![k] = p]
    BY <1>2 DEF ProbeDenied, CachesInv
  <2> QED
    BY <2>1, <2>5, <2>6, OneKey
<1>3. CASE ~registry[k].present
  <2>1. FailureEntry(probe[k]) \in Entry
    BY <1>1, SiteinfoTypes DEF KeyOK
  <2> QED
    BY <1>1, <1>3, <2>1, ProbeEndsOK DEF ProbeDenied, KeyOK
<1> QED
  BY <1>2, <1>3

LEMMA SecretResolvesOK == ASSUME CachesInv, NEW k \in Key, SecretResolves(k) PROVE CachesInv'
<1> DEFINE c == [conn[k] EXCEPT !.secret.state = "ready"]
<1>1. KeyOK(registry[k], conn[k], probe[k]) /\ conn[k] \in Conn
  BY DEF CachesInv
<1>2. conn[k].secret \in Secret /\ conn[k].secret.state = "pending"
  BY <1>1 DEF Conn, SecretResolves
<1>3. [conn[k].secret EXCEPT !.state = "ready"] \in Secret
  BY <1>2 DEF Secret
<1>4. /\ c \in Conn /\ c.cached = conn[k].cached /\ c.promise = conn[k].promise
      /\ c.secret.gen = conn[k].secret.gen
  BY <1>1, <1>2, <1>3 DEF Conn, Secret
<1>5. ConnOK(registry[k], c)
  BY <1>1, <1>2, <1>4 DEF KeyOK, ConnOK, CacheOK, HomeOK, SourceOK
<1>6. KeyOK(registry[k], c, probe[k])
  BY <1>1, <1>4, <1>5 DEF KeyOK, WaitOK
<1>7. probe' = [probe EXCEPT ![k] = probe[k]] /\ registry' = registry
  BY DEF SecretResolves, CachesInv
<1>8. conn' = [conn EXCEPT ![k] = c]
  BY DEF SecretResolves, CachesInv
<1> QED
  BY <1>6, <1>7, <1>8, OneKey

LEMMA SecretRejectsOK == ASSUME CachesInv, NEW k \in Key, SecretRejects(k) PROVE CachesInv'
<1>1. AwaitingSecret(conn[k]) \in SUBSET Attempt
  BY DEF AwaitingSecret
<1>2. NoSecret \in Secret /\ NoSecret.state = "none"
  BY DEF NoSecret, Secret, Gen
<1> QED
  BY <1>1, <1>2, SessionsRejectOK DEF SecretRejects

LEMMA SessionConnectsOK ==
    ASSUME CachesInv, NEW k \in Key, NEW n \in Attempt, SessionConnects(k, n)
    PROVE  CachesInv'
<1> DEFINE c == Connected(conn[k], n)
           asking == [stage |-> "asking", gen |-> conn[k].promise[n].gen,
                      attempt |-> NoAttempt]
           p == IF probe[k].flight.attempt = n THEN [probe[k] EXCEPT !.flight = asking]
                                               ELSE probe[k]
<1>1. KeyOK(registry[k], conn[k], probe[k]) /\ conn[k] \in Conn
  BY DEF CachesInv
<1>2. conn[k].promise[n].state = "pending"
  BY DEF SessionConnects, Connecting
<1>3. /\ ConnOK(registry[k], c)
      /\ \A i \in Attempt \ {n} : c.promise[i] = conn[k].promise[i]
  BY <1>1, <1>2, ConnectedOK DEF KeyOK
<1>4. conn[k].promise[n].gen \in Gen
  BY <1>1 DEF Conn, Promise
<1>5. asking \in Flight
  BY <1>4 DEF Flight
<1>6. p \in ProbeState
  BY <1>1, <1>5 DEF KeyOK, ProbeState
<1>7. WaitOK(c, p)
  <2>1. CASE probe[k].flight.attempt = n
    <3>1. p.flight = asking
      BY <1>1, <2>1 DEF KeyOK, ProbeState
    <3> QED
      BY <3>1 DEF WaitOK
  <2>2. CASE probe[k].flight.attempt # n
    BY <1>1, <1>3, <2>2 DEF KeyOK, WaitOK
  <2> QED
    BY <2>1, <2>2
<1>8. KeyOK(registry[k], c, p)
  BY <1>1, <1>3, <1>6, <1>7 DEF KeyOK
<1>9. registry' = registry /\ conn' = [conn EXCEPT ![k] = c]
  BY DEF SessionConnects
<1>10. probe' = [probe EXCEPT ![k] = p]
  BY DEF SessionConnects, CachesInv
<1> QED
  BY <1>8, <1>9, <1>10, OneKey

LEMMA SessionFailsOK ==
    ASSUME CachesInv, NEW k \in Key, NEW n \in Attempt, SessionFails(k, n)
    PROVE  CachesInv'
<1>1. KeyOK(registry[k], conn[k], probe[k])
  BY DEF CachesInv
<1>2. conn[k].secret \in Secret
  BY <1>1 DEF KeyOK, ConnOK, Conn
<1> QED
  BY <1>1, <1>2, SessionsRejectOK DEF SessionFails, KeyOK, ConnOK, SourceOK

LEMMA InitOK == Init => CachesInv
<1> SUFFICES ASSUME Init PROVE CachesInv
  OBVIOUS
<1> DEFINE none == [k \in Key |-> NoConn]
           unasked == [k \in Key |-> [entry |-> NoEntry, flight |-> NoFlight]]
<1>1. registry \in [Key -> WikiConfig]
  <2>1. ASSUME NEW cfg \in Configured PROVE cfg \in WikiConfig
    <3>1. PICK r, p, e \in BOOLEAN :
            cfg = [present |-> TRUE, gen |-> 1, readOnly |-> r, private |-> p, exec |-> e]
      BY DEF Configured
    <3> QED
      BY <3>1 DEF WikiConfig, Gen
  <2>2. Unregistered \in WikiConfig
    BY DEF Unregistered, WikiConfig, Gen
  <2>3. registry \in [Key -> Configured \cup {Unregistered}]
    BY DEF Init
  <2> QED
    BY <2>1, <2>2, <2>3
<1>2. NoConn \in Conn /\ NoConn.cached = NoAttempt
  BY DEF NoConn, Conn, NoPromise, Promise, NoSecret, Secret, Gen
<1>3. HomeOK(NoConn) /\ NoConn.secret.state = "none"
  BY DEF HomeOK, NoConn, NoPromise, NoSecret
<1>4. [entry |-> NoEntry, flight |-> NoFlight] \in ProbeState
  BY DEF ProbeState, NoEntry, Entry, NoFlight, Flight, Gen, NoAttempt
<1>5. \A k \in Key : KeyOK(registry[k], none[k], unasked[k])
  BY <1>1, <1>2, <1>3, <1>4 DEF KeyOK, ConnOK, CacheOK, SourceOK, WaitOK, NoFlight
<1>6. Free(NoConn) # {}
  BY CachesAssumption DEF Free, NoConn, NoPromise, Attempt
<1>7. \A k \in Key : registry[k].present => CanAsk(registry[k], none[k], unasked[k])
  BY <1>6 DEF CanAsk, CanOpen
<1>8. conn = AskedConns(registry, none, unasked) /\ probe = AskedProbes(registry, none, unasked)
  BY DEF Init
<1> QED
  BY <1>1, <1>5, <1>7, <1>8, ReconcileOK DEF CachesInv

LEMMA NextOK == CachesInv /\ [Next]_vars => CachesInv'
<1> SUFFICES ASSUME CachesInv, [Next]_vars PROVE CachesInv'
  OBVIOUS
<1>1. CASE UNCHANGED vars
  BY <1>1 DEF CachesInv, vars
<1>2. CASE Next
  <2> PICK k \in Key :
        \/ AddWiki(k) \/ RemoveWiki(k)
        \/ UseWiki(k) \/ LookUp(k) \/ EntryExpires(k)
        \/ \E ext \in BOOLEAN : ProbeSucceeds(k, ext)
        \/ ProbeFails(k) \/ ProbeDenied(k)
        \/ SecretResolves(k) \/ SecretRejects(k)
        \/ \E n \in Attempt : SessionConnects(k, n) \/ SessionFails(k, n)
    BY <1>2 DEF Next
  <2> QED
    BY AddWikiOK, RemoveWikiOK, UseWikiOK, LookUpOK, EntryExpiresOK, ProbeSucceedsOK,
       ProbeFailsOK, ProbeDeniedOK, SecretResolvesOK, SecretRejectsOK, SessionConnectsOK,
       SessionFailsOK
<1> QED
  BY <1>1, <1>2

(* Whatever is added and removed, and whenever the answers arrive, the       *)
(* caches of every wiki stay in order.                                       *)
THEOREM CachesInvariant == Spec => []CachesInv
<1>1. Init => CachesInv
  BY InitOK
<1>2. CachesInv /\ [Next]_vars => CachesInv'
  BY NextOK
<1> QED
  BY <1>1, <1>2, PTL DEF Spec

(* MwnProvider never hands a call a session of a registration that is gone.  *)
THEOREM SessionMatchesConfigHolds == Spec => []SessionMatchesConfig
<1>1. CachesInv => SessionMatchesConfig
  BY DEF CachesInv, KeyOK, ConnOK, CacheOK, SessionMatchesConfig
<1> QED
  BY <1>1, CachesInvariant, PTL

(* MwnProvider never keeps a session that failed to connect. *)
THEOREM CachedIsAliveHolds == Spec => []CachedIsAlive
<1>1. CachesInv => CachedIsAlive
  BY DEF CachesInv, KeyOK, ConnOK, CacheOK, CachedIsAlive
<1> QED
  BY <1>1, CachesInvariant, PTL

(* An exec secret that outlives its registration signs nobody else in. *)
THEOREM SecretStaysHomeHolds == Spec => []SecretStaysHome
<1>1. CachesInv => SecretStaysHome
  BY DEF CachesInv, KeyOK, ConnOK, HomeOK, SecretStaysHome
<1> QED
  BY <1>1, CachesInvariant, PTL

(* A probe never waits for a session nobody is connecting any more. *)
THEOREM ProbeHasSessionHolds == Spec => []ProbeHasSession
<1>1. CachesInv => ProbeHasSession
  BY DEF CachesInv, KeyOK, WaitOK, ProbeHasSession
<1> QED
  BY <1>1, CachesInvariant, PTL

-----------------------------------------------------------------------------
(* The restriction is there to be inherited as long as a wiki is registered. *)
Locked ==
    /\ registry \in [Key -> WikiConfig]
    /\ locked => Registered # {}
    /\ ReadOnlyStays

(* An all-read-only deployment stays so until it has no wiki at all. *)
THEOREM ReadOnlyStaysHolds == Spec => []ReadOnlyStays
<1>1. Init => Locked
  <2> SUFFICES ASSUME Init PROVE Locked
    OBVIOUS
  <2>1. PICK k \in Initial : k \in Key
    BY ManagementAssumption
  <2>2. registry[k].present
    BY <2>1 DEF Init
  <2> QED
    BY <2>1, <2>2, InitOK DEF Init, Locked, Registered, ReadOnlyStays, CachesInv
<1>2. Locked /\ CachesInv /\ CachesInv' /\ [Next]_vars => Locked'
  <2> SUFFICES ASSUME Locked, CachesInv, CachesInv', [Next]_vars PROVE Locked'
    OBVIOUS
  <2>0. registry' \in [Key -> WikiConfig]
    BY DEF CachesInv
  <2>1. ASSUME NEW k \in Key, AddWiki(k) PROVE Locked'
    <3> DEFINE cfg == [present |-> TRUE, gen |-> registry[k].gen + 1, readOnly |-> Inherited,
                       private |-> FALSE, exec |-> FALSE]
    <3>1. /\ registry' = [registry EXCEPT ![k] = cfg]
          /\ locked' = (locked /\ \E j \in Key : registry'[j].present)
      BY <2>1 DEF AddWiki, Reconcile
    <3>2. locked' => Registered' # {}
      BY <3>1 DEF Registered
    <3>3. locked => Inherited
      BY DEF Locked, ReadOnlyStays, Inherited, Registered
    <3>4. locked => ~Writable(registry')
      BY <3>1, <3>3 DEF Locked, ReadOnlyStays, Writable
    <3> QED
      BY <2>0, <3>1, <3>2, <3>4 DEF Locked, ReadOnlyStays
  <2>2. ASSUME NEW k \in Key, RemoveWiki(k) PROVE Locked'
    <3> DEFINE cfg == [registry[k] EXCEPT !.present = FALSE]
    <3>1. /\ registry' = [registry EXCEPT ![k].present = FALSE]
          /\ locked' = (locked /\ \E j \in Key : registry'[j].present)
      BY <2>2 DEF RemoveWiki, Reconcile
    <3>2. registry' = [registry EXCEPT ![k] = cfg] /\ ~cfg.present
      BY <3>1 DEF Locked, WikiConfig
    <3>3. locked' => Registered' # {}
      BY <3>1 DEF Registered
    <3>4. locked => ~Writable(registry')
      BY <3>2 DEF Locked, ReadOnlyStays, Writable
    <3> QED
      BY <2>0, <3>1, <3>3, <3>4 DEF Locked, ReadOnlyStays
  <2>3. CASE registry' = registry /\ locked' = locked
    BY <2>3 DEF Locked, ReadOnlyStays, Registered, Writable
  <2> QED
    BY <2>1, <2>2, <2>3 DEF Next, vars, UseWiki, LookUp, EntryExpires, ProbeSucceeds,
       ProbeFails, ProbeDenied, ProbeEnds, SecretResolves, SecretRejects, SessionsReject,
       SessionConnects, SessionFails
<1>3. Locked => ReadOnlyStays
  BY DEF Locked
<1> QED
  BY <1>1, <1>2, <1>3, CachesInvariant, PTL DEF Spec


-----------------------------------------------------------------------------
(* The edits of a page.                                                      *)

(* What a caller writes, and what a page is: text with its lead in front.    *)
IsText(c) == c \in Content \ {<<>>} /\ LeadFirst(c)
IsPage(c) == IsText(c) /\ c[1].level = 0

(* What the guards have found, at the revision the caller named.             *)
HeadingJudged(a) == a.op = "replace" /\ a.section > 0 => ~HeadingRefuses(a)
RemovalJudged(a) == a.op = "replace" /\ a.section > 0 /\ ~a.prune => ~RemovalRefuses(a)

(* Arguments that writePlan has let pass.                                    *)
PlanOK(a) == a \in Args /\ ~PlanRefuses(a) /\ a.latestId <= Rev

CallOK(c) ==
    /\ c.pc # "done" => c.answer = "none"
    /\ c.base \in 0 .. Rev
    /\ c.pc \in {"unread", "heading", "removal", "submit", "find", "submitSplice"} => PlanOK(c.args)
    /\ c.pc \in {"unread", "heading", "removal"} => c.args.op = "replace"
    /\ c.pc \in {"find", "submitSplice"} => c.args.op = "find-replace"
    /\ c.pc = "submit" => c.args.op # "find-replace"
    /\ c.pc \in {"removal", "submit"} => HeadingJudged(c.args)
    /\ c.pc = "submit" => RemovalJudged(c.args)
    /\ c.pc = "submitSplice" => c.base # 0 /\ c.read = c.base /\ IsText(c.text)

CallPc == {"new", "unread", "heading", "removal", "find", "submit", "submitSplice",
           "create", "move", "delete", "protect", "submitProtect", "done"}
CallAnswer == {"none", "ok", "invalid", "notFound", "conflict"}
ArgsState == Args \cup {NoArgs}
KeptState == [Action -> 0 .. 1]
CallState ==
    [pc: CallPc, args: ArgsState, base: Int, read: Int, text: Content, named: Action,
     kept: KeptState, answer: CallAnswer]

(* The inductive invariant: every revision is a page, no call has been        *)
(* answered before it ends, and a replacement about to be sent has passed    *)
(* the guards at the revision its caller named, which stays what it was.     *)
EditIInv ==
    /\ revs \in Seq(Content) /\ call \in [Call -> CallState]
    /\ Rev <= MaxRevs
    /\ \A r \in 1 .. Rev : IsPage(revs[r])
    /\ deleted \in BOOLEAN /\ moved \in BOOLEAN
    /\ protection \in [Action -> 0 .. 1]
    /\ \A c \in Call : CallOK(call[c])

-----------------------------------------------------------------------------
(* Sequences of sections. *)

LEMMA SliceIs ==
  ASSUME NEW c \in Content, NEW a \in Nat \ {0}, NEW b \in Nat, a <= b + 1, b <= Len(c)
  PROVE  /\ SubSeq(c, a, b) \in Content /\ Len(SubSeq(c, a, b)) = b - a + 1
         /\ \A x \in 1 .. b - a + 1 : SubSeq(c, a, b)[x] = c[a + x - 1]
<1>1. Len(c) \in Nat /\ DOMAIN c = 1 .. Len(c) /\ c \in Seq(Section)
  BY DEF Content
<1>2. CASE a <= b
  BY <1>1, <1>2 DEF Content
<1>3. CASE ~(a <= b)
  <2>1. SubSeq(c, a, b) = <<>> /\ b - a + 1 = 0
    BY <1>1, <1>3
  <2> QED BY <2>1 DEF Content
<1> QED
  BY <1>2, <1>3

LEMMA ConcatIs ==
  ASSUME NEW c \in Content, NEW d \in Content
  PROVE  /\ c \o d \in Content /\ Len(c \o d) = Len(c) + Len(d) /\ Len(c) \in Nat /\ Len(d) \in Nat
         /\ \A x \in 1 .. Len(c) : (c \o d)[x] = c[x]
         /\ \A x \in 1 .. Len(d) : (c \o d)[Len(c) + x] = d[x]
BY DEF Content

LEMMA SectionOf ==
  ASSUME NEW c \in Content, NEW x \in 1 .. Len(c)
  PROVE  c[x] \in Section /\ c[x].level \in Level /\ c[x].body \in Seq(Piece)
<1>1. c[x] \in Section
  BY DEF Content
<1> QED
  BY <1>1 DEF Section

LEMMA Rewritten ==
  ASSUME NEW s \in Section, NEW b \in Seq(Piece)
  PROVE  /\ [s EXCEPT !.body = b] \in Section
         /\ [s EXCEPT !.body = b].level = s.level /\ [s EXCEPT !.body = b].body = b
BY DEF Section

LEMMA PrefixOf ==
  ASSUME NEW a \in Seq(Piece), NEW b \in Seq(Piece)
  PROVE  IsPrefix(a, a \o b) /\ IsPrefix(a, a)
<1>1. SubSeq(a, 1, Len(a)) = a /\ Len(a) \in Nat /\ Len(a) <= Len(a \o b)
  OBVIOUS
<1>2. SubSeq(a \o b, 1, Len(a)) = a
  OBVIOUS
<1>3. Len(a) <= Len(a)
  BY <1>1
<1> QED
  BY <1>1, <1>2, <1>3, Zenon DEF IsPrefix

-----------------------------------------------------------------------------
(* The text of a page. *)

(* What lands behind c joins its last section as far as it has no heading;   *)
(* what c has stays where it is.                                             *)
Follows(t, s) == t.level = s.level /\ IsPrefix(s.body, t.body)

LEMMA JoinIs ==
  ASSUME NEW c \in Content, NEW src \in Content
  PROVE  /\ Join(c, src) \in Content
         /\ src = <<>> \/ src[1].level # 0 => Join(c, src) = c \o src
         /\ c = <<>> => Join(c, src) = src
         /\ c # <<>> => Join(c, src) # <<>>
         /\ \A x \in 1 .. Len(c) : x \in 1 .. Len(Join(c, src)) /\ Follows(Join(c, src)[x], c[x])
         /\ \A x \in Len(c) + 1 .. Len(Join(c, src)) : \E y \in 1 .. Len(src) :
               Join(c, src)[x] = src[y] /\ (c # <<>> => y >= 2 \/ src[1].level # 0)
<1>1. Len(c) \in Nat /\ Len(src) \in Nat
  BY DEF Content
<1>2. \A x \in 1 .. Len(c) : Follows(c[x], c[x])
  BY SectionOf, PrefixOf DEF Follows
<1>3. src # <<>> => Head(src) = src[1]
  BY DEF Content
<1>4. CASE c = <<>> \/ src = <<>> \/ src[1].level # 0
  <2>1. Join(c, src) = c \o src
    BY <1>3, <1>4 DEF Join
  <2>2. c = <<>> => c \o src = src
    BY DEF Content
  <2>3. ASSUME c # <<>> PROVE c \o src # <<>>
    <3>1. Len(c) > 0
      BY <2>3 DEF Content
    <3>2. Len(c \o src) > 0
      BY <1>1, <3>1, ConcatIs
    <3> QED BY <3>2
  <2>4. \A x \in 1 .. Len(c) : x \in 1 .. Len(c \o src) /\ Follows((c \o src)[x], c[x])
    BY <1>1, <1>2, ConcatIs
  <2>5. ASSUME NEW x \in Len(c) + 1 .. Len(c \o src)
        PROVE  \E y \in 1 .. Len(src) : (c \o src)[x] = src[y] /\ (c # <<>> => y >= 2 \/ src[1].level # 0)
    <3>0. Len(c \o src) = Len(c) + Len(src)
      BY ConcatIs
    <3>1. x - Len(c) \in 1 .. Len(src) /\ Len(c) + (x - Len(c)) = x
      BY <1>1, <3>0
    <3>2. (c \o src)[x] = src[x - Len(c)]
      BY <3>1, ConcatIs
    <3>3. src # <<>>
      BY <1>1, <3>1 DEF Content
    <3>4. c # <<>> => src[1].level # 0
      BY <1>4, <3>3
    <3> QED BY <3>1, <3>2, <3>4, Zenon
  <2> QED BY <2>1, <2>2, <2>3, <2>4, <2>5, ConcatIs
<1>5. CASE ~(c = <<>> \/ src = <<>> \/ src[1].level # 0)
  <2> DEFINE n == Len(c)
             last == [c[n] EXCEPT !.body = c[n].body \o src[1].body]
             front == SubSeq(c, 1, n - 1)
             back == Tail(src)
             d == front \o <<last>>
  <2>1. n \in Nat /\ n >= 1 /\ Len(src) >= 1
    BY <1>1, <1>5 DEF Content
  <2>2. c[n].body \in Seq(Piece) /\ src[1].body \in Seq(Piece) /\ c[n] \in Section /\ n \in 1 .. Len(c)
    BY <1>1, <2>1, SectionOf
  <2>3. last \in Section /\ Follows(last, c[n])
    <3> DEFINE s == c[n]
               b == c[n].body \o src[1].body
    <3>1. s \in Section /\ b \in Seq(Piece)
      BY <2>2
    <3>2. IsPrefix(s.body, b)
      BY <2>2, PrefixOf
    <3>3. last = [s EXCEPT !.body = b]
      OBVIOUS
    <3> HIDE DEF s, b, last
    <3>4. last \in Section /\ last.level = s.level /\ last.body = b
      BY <3>1, <3>3, Rewritten
    <3>5. last \in Section /\ Follows(last, s)
      BY <3>2, <3>4 DEF Follows
    <3> QED BY <3>5 DEF s
  <2>4. Join(c, src) = d \o back
    <3>1. Head(src) = src[1] /\ ~(c = <<>> \/ src = <<>> \/ Head(src).level # 0)
      BY <1>3, <1>5
    <3>2. Join(c, src) = Front(c) \o <<[Last(c) EXCEPT !.body = Last(c).body \o Head(src).body]>> \o Tail(src)
      BY <3>1, Zenon DEF Join
    <3> QED BY <3>1, <3>2, Zenon DEF Front, Last
  <2> HIDE DEF last
  <2>5. front \in Content /\ Len(front) = n - 1 /\ \A x \in 1 .. n - 1 : front[x] = c[x]
    <3>1. n - 1 \in Nat /\ 1 <= (n - 1) + 1 /\ n - 1 <= Len(c) /\ (n - 1) - 1 + 1 = n - 1
      BY <2>1
    <3>2. \A x \in 1 .. n - 1 : 1 + x - 1 = x
      BY <2>1
    <3> QED BY <3>1, <3>2, SliceIs
  <2>6. back \in Content /\ Len(back) = Len(src) - 1 /\ \A x \in 1 .. Len(src) - 1 : back[x] = src[x + 1]
    BY <2>1 DEF Content
  <2> HIDE DEF front, back
  <2>7. <<last>> \in Content /\ Len(<<last>>) = 1 /\ <<last>>[1] = last
    BY <2>3 DEF Content
  <2>8. d \in Content /\ Len(d) = n /\ d[n] = last /\ \A x \in 1 .. n - 1 : d[x] = c[x]
    <3>1. d \in Content /\ Len(d) = Len(front) + 1 /\ (\A x \in 1 .. Len(front) : d[x] = front[x])
          /\ d[Len(front) + 1] = <<last>>[1]
      <4>1. /\ d \in Content /\ Len(d) = Len(front) + Len(<<last>>)
            /\ (\A x \in 1 .. Len(front) : d[x] = front[x])
            /\ \A x \in 1 .. Len(<<last>>) : d[Len(front) + x] = <<last>>[x]
        BY <2>5, <2>7, ConcatIs
      <4>2. 1 \in 1 .. Len(<<last>>)
        BY <2>7
      <4> HIDE DEF d
      <4> QED BY <2>7, <4>1, <4>2
    <3>2. Len(front) + 1 = n
      BY <2>1, <2>5
    <3> HIDE DEF d
    <3> QED BY <2>5, <2>7, <3>1, <3>2
  <2> HIDE DEF d, n
  <2>9. /\ d \o back \in Content /\ Len(d \o back) = n + (Len(src) - 1)
        /\ \A x \in 1 .. n : (d \o back)[x] = d[x]
        /\ \A x \in 1 .. Len(src) - 1 : (d \o back)[n + x] = src[x + 1]
    <3>1. /\ d \o back \in Content /\ Len(d \o back) = Len(d) + Len(back)
          /\ \A x \in 1 .. Len(d) : (d \o back)[x] = d[x]
          /\ \A x \in 1 .. Len(back) : (d \o back)[Len(d) + x] = back[x]
      BY <2>6, <2>8, ConcatIs
    <3> QED BY <2>6, <2>8, <3>1
  <2> DEFINE j == d \o back
  <2> HIDE DEF j
  <2>10. j \in Content /\ Len(j) = n + (Len(src) - 1) /\ (\A x \in 1 .. n : j[x] = d[x])
         /\ (\A x \in 1 .. Len(src) - 1 : j[n + x] = src[x + 1])
    BY <2>9 DEF j
  <2>11. j # <<>>
    <3>1. Len(j) > 0
      BY <1>1, <2>1, <2>10
    <3> QED BY <3>1
  <2>12. ASSUME NEW x \in 1 .. n PROVE x \in 1 .. Len(j) /\ Follows(j[x], c[x])
    <3>1. x \in 1 .. Len(j) /\ j[x] = d[x]
      BY <1>1, <2>1, <2>10
    <3>2. CASE x = n
      BY <2>3, <2>8, <3>1, <3>2
    <3>3. CASE x # n
      <4>1. x \in 1 .. n - 1 /\ x \in 1 .. Len(c)
        BY <2>1, <3>3 DEF n
      <4> QED BY <1>2, <2>8, <3>1, <4>1
    <3> QED BY <3>2, <3>3
  <2>13. ASSUME NEW x \in n + 1 .. Len(j)
         PROVE  \E y \in 1 .. Len(src) : j[x] = src[y] /\ (c # <<>> => y >= 2 \/ src[1].level # 0)
    <3>1. x - n \in 1 .. Len(src) - 1 /\ n + (x - n) = x /\ x - n + 1 \in 1 .. Len(src) /\ x - n + 1 >= 2
      BY <1>1, <2>1, <2>10
    <3>2. j[x] = src[x - n + 1]
      BY <2>10, <3>1
    <3> QED BY <3>1, <3>2
  <2>14. Join(c, src) = j
    BY <2>4 DEF j
  <2> QED BY <1>5, <2>10, <2>11, <2>12, <2>13, <2>14 DEF n
<1> QED
  BY <1>4, <1>5

(* A set of numbers has a least one.                                         *)
Below == {pair \in Nat \X Nat : pair[1] < pair[2]}

LEMMA LeastElement ==
  ASSUME NEW S \in SUBSET Nat, S # {}
  PROVE  \E n \in S : \A m \in S : n <= m
<1>1. IsWellFoundedOn(Below, Nat)
  BY NatLessThanWellFounded, Zenon DEF OpToRel, Below
<1>2. PICK n \in S : \A m \in S : <<m, n>> \notin Below
  BY <1>1, WFMin
<1>3. \A m, k \in Nat : m < k => <<m, k>> \in Below
  BY DEF Below
<1>4. \A m \in S : ~(m < n)
  BY <1>2, <1>3, Zenon
<1> QED
  BY <1>4

(* The subtree of a section ends within the page, and all in it is deeper.   *)
LEMMA SubtreeEndIs ==
  ASSUME NEW c \in Content, LeadFirst(c), NEW i \in 1 .. Len(c)
  PROVE  /\ SubtreeEnd(c, i) \in i .. Len(c)
         /\ c[i].level > 0 => \A k \in i + 1 .. SubtreeEnd(c, i) : c[k].level > c[i].level
<1> DEFINE Ends0(j) ==
      /\ c[i].level > 0 => \A k \in i + 1 .. j : c[k].level > c[i].level
      /\ c[i].level = 0 => j = i
      /\ j = Len(c) \/ c[i].level = 0 \/ c[j + 1].level <= c[i].level
<1>1. Len(c) \in Nat /\ i \in Nat
  BY DEF Content
<1>2. \A x \in 1 .. Len(c) : c[x].level \in Nat
  <2>1. \A x \in 1 .. Len(c) : c[x].level \in Level
    BY SectionOf
  <2> QED BY <2>1 DEF Level
<1>3. \E j \in i .. Len(c) : Ends0(j)
  <2>1. CASE c[i].level = 0
    BY <1>1, <2>1
  <2>2. CASE c[i].level # 0
    <3> DEFINE S == {m \in i + 1 .. Len(c) + 1 : m = Len(c) + 1 \/ c[m].level <= c[i].level}
    <3>1. Len(c) + 1 \in S /\ S \subseteq Nat
      BY <1>1
    <3>2. PICK m \in S : \A n \in S : m <= n
      <4> HIDE DEF S
      <4>1. S # {} /\ S \in SUBSET Nat
        BY <3>1
      <4> QED BY <4>1, LeastElement
    <3>3. m - 1 \in i .. Len(c) /\ m \in Nat
      BY <1>1, <3>2
    <3>4. \A k \in i + 1 .. m - 1 : c[k].level > c[i].level
      <4>1. SUFFICES ASSUME NEW k \in i + 1 .. m - 1, ~(c[k].level > c[i].level) PROVE FALSE
        OBVIOUS
      <4>2. k \in 1 .. Len(c) /\ k \in i + 1 .. Len(c) + 1 /\ ~(m <= k)
        BY <1>1, <3>3
      <4>3. c[k].level <= c[i].level
        BY <1>2, <4>1, <4>2
      <4> QED BY <3>2, <4>2, <4>3
    <3>5. m - 1 = Len(c) \/ c[(m - 1) + 1].level <= c[i].level
      <4>1. (m - 1) + 1 = m /\ (m = Len(c) + 1 => m - 1 = Len(c))
        BY <1>1, <3>3
      <4> QED BY <3>2, <4>1
    <3>6. Ends0(m - 1)
      BY <2>2, <3>4, <3>5
    <3> HIDE DEF Ends0
    <3> QED BY <3>3, <3>6
  <2> QED BY <2>1, <2>2
<1>4. SubtreeEnd(c, i) = CHOOSE j \in i .. Len(c) : Ends0(j)
  BY DEF SubtreeEnd
<1>5. SubtreeEnd(c, i) \in i .. Len(c) /\ Ends0(SubtreeEnd(c, i))
  <2> HIDE DEF Ends0
  <2> QED BY <1>3, <1>4
<1> QED
  BY <1>5

(* Two texts joined are a text, with the lead of the first.                  *)
LEMMA JoinedText ==
  ASSUME NEW c \in Content, NEW src \in Content, LeadFirst(c), LeadFirst(src)
  PROVE  /\ Join(c, src) \in Content /\ LeadFirst(Join(c, src))
         /\ c # <<>> \/ src # <<>> => Join(c, src) # <<>>
         /\ c # <<>> => Join(c, src)[1].level = c[1].level
<1> DEFINE j == Join(c, src)
<1>1. /\ j \in Content /\ (c = <<>> => j = src) /\ (c # <<>> => j # <<>>)
      /\ \A x \in 1 .. Len(c) : x \in 1 .. Len(j) /\ Follows(j[x], c[x])
      /\ \A x \in Len(c) + 1 .. Len(j) : \E y \in 1 .. Len(src) :
            j[x] = src[y] /\ (c # <<>> => y >= 2 \/ src[1].level # 0)
  BY JoinIs
<1> HIDE DEF j
<1>2. Len(c) \in Nat /\ Len(j) \in Nat /\ Len(src) \in Nat /\ (c # <<>> => 1 \in 1 .. Len(c))
  <2>1. Len(c) \in Nat /\ Len(src) \in Nat /\ (c # <<>> => 1 \in 1 .. Len(c))
    BY DEF Content
  <2>2. Len(j) \in Nat
    BY <1>1 DEF Content
  <2> QED BY <2>1, <2>2
<1>3. CASE c = <<>>
  BY <1>1, <1>3 DEF j
<1>4. CASE c # <<>>
  <2>1. \A x \in 2 .. Len(j) : j[x].level # 0
    <3>1. SUFFICES ASSUME NEW x \in 2 .. Len(j) PROVE j[x].level # 0
      OBVIOUS
    <3>2. CASE x <= Len(c)
      <4>1. x \in 2 .. Len(c) /\ x \in 1 .. Len(c)
        BY <1>2, <3>2
      <4> QED BY <1>1, <4>1 DEF LeadFirst, Follows
    <3>3. CASE ~(x <= Len(c))
      <4>1. x \in Len(c) + 1 .. Len(j)
        BY <1>2, <3>3
      <4>2. PICK y \in 1 .. Len(src) : j[x] = src[y] /\ (y >= 2 \/ src[1].level # 0)
        BY <1>1, <1>4, <4>1
      <4>3. y = 1 \/ y \in 2 .. Len(src)
        BY <1>2
      <4> QED BY <4>2, <4>3 DEF LeadFirst
    <3> QED BY <3>2, <3>3
  <2>2. j[1].level = c[1].level
    BY <1>1, <1>2, <1>4 DEF Follows
  <2> QED BY <1>1, <1>4, <2>1, <2>2 DEF LeadFirst, j
<1> QED
  BY <1>3, <1>4

LEMMA SlicedText ==
  ASSUME NEW c \in Content, LeadFirst(c), NEW a \in Nat \ {0}, NEW b \in Nat, a <= b + 1, b <= Len(c)
  PROVE  /\ SubSeq(c, a, b) \in Content /\ LeadFirst(SubSeq(c, a, b))
         /\ Len(SubSeq(c, a, b)) = b - a + 1
<1> DEFINE s == SubSeq(c, a, b)
<1>1. /\ s \in Content /\ Len(s) = b - a + 1
      /\ \A x \in 1 .. b - a + 1 : s[x] = c[a + x - 1]
  BY SliceIs
<1> HIDE DEF s
<1>2. Len(c) \in Nat
  BY DEF Content
<1>3. \A x \in 2 .. Len(s) : s[x].level # 0
  <2>1. SUFFICES ASSUME NEW x \in 2 .. Len(s) PROVE s[x].level # 0
    OBVIOUS
  <2>2. x \in 1 .. b - a + 1 /\ a + x - 1 \in 2 .. Len(c)
    BY <1>1, <1>2
  <2> QED BY <1>1, <2>2 DEF LeadFirst
<1> QED
  BY <1>1, <1>3 DEF LeadFirst, s

LEMMA SplicedText ==
  ASSUME NEW c \in Content, LeadFirst(c), NEW src, IsText(src),
         NEW i \in Nat \ {0}, NEW j \in Nat, i <= j + 1, j <= Len(c)
  PROVE  IsText(Spliced(c, i, j, src))
<1> DEFINE pre == SubSeq(c, 1, i - 1)
           post == SubSeq(c, j + 1, Len(c))
<1>1. Len(c) \in Nat
  BY DEF Content
<1>2. src \in Content /\ src # <<>> /\ LeadFirst(src)
  BY DEF IsText
<1>3. pre \in Content /\ LeadFirst(pre)
  <2>1. i - 1 \in Nat /\ 1 \in Nat \ {0} /\ 1 <= (i - 1) + 1 /\ i - 1 <= Len(c)
    BY <1>1
  <2> QED BY <2>1, SlicedText
<1>4. post \in Content /\ LeadFirst(post)
  <2>1. j + 1 \in Nat \ {0} /\ j + 1 <= Len(c) + 1 /\ Len(c) <= Len(c)
    BY <1>1
  <2> QED BY <1>1, <2>1, SlicedText
<1>5. Spliced(c, i, j, src) = Join(Join(pre, src), post)
  BY DEF Spliced
<1> HIDE DEF pre, post
<1>6. Join(pre, src) \in Content /\ LeadFirst(Join(pre, src)) /\ Join(pre, src) # <<>>
  BY <1>2, <1>3, JoinedText
<1>7. Join(Join(pre, src), post) \in Content /\ LeadFirst(Join(Join(pre, src), post)) /\ Join(Join(pre, src), post) # <<>>
  BY <1>4, <1>6, JoinedText
<1> QED
  BY <1>5, <1>7 DEF IsText

(* What is saved is a page that has all of the text, where it was if the      *)
(* text begins with the lead.                                                *)
LEMMA SavedPage ==
  ASSUME NEW c, IsText(c)
  PROVE  /\ IsPage(Saved(c))
         /\ c[1].level = 0 => Saved(c) = c
         /\ \A x \in 1 .. Len(c) : \E y \in 1 .. Len(Saved(c)) : Saved(c)[y] = c[x]
<1>1. c \in Content /\ c # <<>> /\ LeadFirst(c) /\ Len(c) \in Nat /\ Head(c) = c[1]
  BY DEF IsText, Content
<1>2. CASE c[1].level = 0
  BY <1>1, <1>2 DEF Saved, IsPage
<1>3. CASE c[1].level # 0
  <2> DEFINE lead == [level |-> 0, body |-> <<>>]
             d == <<lead>> \o c
  <2>1. Saved(c) = d
    BY <1>1, <1>3 DEF Saved
  <2>2. lead \in Section /\ lead.level = 0
    BY DEF Section, Level
  <2> HIDE DEF lead
  <2>3. <<lead>> \in Content /\ Len(<<lead>>) = 1 /\ <<lead>>[1] = lead /\ 1 \in 1 .. Len(<<lead>>)
    BY <2>2 DEF Content
  <2>4. /\ d \in Content /\ Len(d) = 1 + Len(c) /\ d[1] = lead
        /\ \A x \in 1 .. Len(c) : d[1 + x] = c[x]
    <3>1. /\ d \in Content /\ Len(d) = Len(<<lead>>) + Len(c)
          /\ \A x \in 1 .. Len(<<lead>>) : d[x] = <<lead>>[x]
          /\ \A x \in 1 .. Len(c) : d[Len(<<lead>>) + x] = c[x]
      BY <1>1, <2>3, ConcatIs
    <3> HIDE DEF d
    <3> QED BY <2>3, <3>1
  <2> HIDE DEF d
  <2>5. LeadFirst(d)
    <3>1. SUFFICES ASSUME NEW x \in 2 .. Len(d) PROVE d[x].level # 0
      BY DEF LeadFirst
    <3>2. x - 1 \in 1 .. Len(c) /\ 1 + (x - 1) = x
      BY <1>1, <2>4
    <3>3. d[x] = c[x - 1]
      BY <2>4, <3>2
    <3>4. x - 1 = 1 \/ x - 1 \in 2 .. Len(c)
      BY <3>2
    <3> QED BY <1>1, <1>3, <3>3, <3>4 DEF LeadFirst
  <2>6. d # <<>>
    <3>1. Len(d) > 0
      BY <1>1, <2>4
    <3> QED BY <3>1
  <2>7. \A x \in 1 .. Len(c) : 1 + x \in 1 .. Len(d) /\ d[1 + x] = c[x]
    BY <1>1, <2>4
  <2> QED BY <1>3, <2>1, <2>2, <2>4, <2>5, <2>6, <2>7 DEF IsPage, IsText
<1> QED
  BY <1>2, <1>3

(* What stands behind a section is never the lead, so it keeps its place.    *)
LEMMA SplicedIs ==
  ASSUME NEW c \in Content, LeadFirst(c), NEW src, IsText(src),
         NEW i \in Nat \ {0}, NEW j \in Nat, i <= j, j <= Len(c)
  PROVE  LET pre  == SubSeq(c, 1, i - 1)
             post == SubSeq(c, j + 1, Len(c))
         IN  /\ Spliced(c, i, j, src) = Join(pre, src) \o post
             /\ pre \in Content /\ Len(pre) = i - 1 /\ \A x \in 1 .. i - 1 : pre[x] = c[x]
             /\ post \in Content /\ Len(post) = Len(c) - j /\ \A x \in 1 .. Len(c) - j : post[x] = c[j + x]
<1> DEFINE pre  == SubSeq(c, 1, i - 1)
           post == SubSeq(c, j + 1, Len(c))
<1>1. Len(c) \in Nat
  BY DEF Content
<1>2. src \in Content /\ src # <<>> /\ LeadFirst(src)
  BY DEF IsText
<1>3. pre \in Content /\ Len(pre) = i - 1 /\ \A x \in 1 .. i - 1 : pre[x] = c[x]
  <2>1. i - 1 \in Nat /\ 1 \in Nat \ {0} /\ 1 <= (i - 1) + 1 /\ i - 1 <= Len(c) /\ (i - 1) - 1 + 1 = i - 1
    BY <1>1
  <2>2. \A x \in 1 .. i - 1 : 1 + x - 1 = x
    BY <2>1
  <2>3. /\ pre \in Content /\ Len(pre) = (i - 1) - 1 + 1
        /\ \A x \in 1 .. (i - 1) - 1 + 1 : pre[x] = c[1 + x - 1]
    BY <2>1, SliceIs
  <2> HIDE DEF pre
  <2> QED BY <2>1, <2>2, <2>3
<1>4. post \in Content /\ Len(post) = Len(c) - j /\ \A x \in 1 .. Len(c) - j : post[x] = c[j + x]
  <2>1. j + 1 \in Nat \ {0} /\ j + 1 <= Len(c) + 1 /\ Len(c) <= Len(c) /\ Len(c) - (j + 1) + 1 = Len(c) - j
    BY <1>1
  <2>2. \A x \in 1 .. Len(c) - j : (j + 1) + x - 1 = j + x
    BY <1>1
  <2>3. /\ post \in Content /\ Len(post) = Len(c) - (j + 1) + 1
        /\ \A x \in 1 .. Len(c) - (j + 1) + 1 : post[x] = c[(j + 1) + x - 1]
    BY <1>1, <2>1, SliceIs, Zenon
  <2> HIDE DEF post
  <2> QED BY <2>1, <2>2, <2>3
<1>5. Spliced(c, i, j, src) = Join(Join(pre, src), post)
  BY DEF Spliced
<1> HIDE DEF pre, post
<1>6. Join(pre, src) \in Content
  BY <1>2, <1>3, JoinIs
<1>7. post = <<>> \/ post[1].level # 0
  <2>1. SUFFICES ASSUME post # <<>> PROVE post[1].level # 0
    OBVIOUS
  <2>2. Len(post) # 0
    BY <1>4, <2>1 DEF Content
  <2>3. 1 \in 1 .. Len(c) - j /\ j + 1 \in 2 .. Len(c)
    BY <1>1, <1>4, <2>2
  <2>4. post[1] = c[j + 1]
    BY <1>4, <2>3
  <2> QED BY <2>3, <2>4 DEF LeadFirst
<1>8. Join(Join(pre, src), post) = Join(pre, src) \o post
  BY <1>4, <1>6, <1>7, JoinIs
<1> QED
  BY <1>3, <1>4, <1>5, <1>8 DEF pre, post

(* The sections in front of the place that is written and behind it.         *)
LEMMA SplicedKeeps ==
  ASSUME NEW c \in Content, LeadFirst(c), NEW src, IsText(src),
         NEW i \in Nat \ {0}, NEW j \in Nat, i <= j, j <= Len(c),
         NEW x \in 1 .. Len(c), x < i \/ x > j
  PROVE  \E y \in 1 .. Len(Spliced(c, i, j, src)) : Follows(Spliced(c, i, j, src)[y], c[x])
<1> DEFINE pre  == SubSeq(c, 1, i - 1)
           post == SubSeq(c, j + 1, Len(c))
           front == Join(pre, src)
           d == front \o post
<1>1. /\ Spliced(c, i, j, src) = d
      /\ pre \in Content /\ Len(pre) = i - 1 /\ \A w \in 1 .. i - 1 : pre[w] = c[w]
      /\ post \in Content /\ Len(post) = Len(c) - j /\ \A w \in 1 .. Len(c) - j : post[w] = c[j + w]
  BY SplicedIs
<1> HIDE DEF pre, post
<1>2. Len(c) \in Nat /\ src \in Content
  BY DEF Content, IsText
<1>3. front \in Content /\ \A w \in 1 .. Len(pre) : w \in 1 .. Len(front) /\ Follows(front[w], pre[w])
  BY <1>1, <1>2, JoinIs
<1> HIDE DEF front
<1>4. /\ Len(d) = Len(front) + Len(post) /\ Len(front) \in Nat
      /\ \A w \in 1 .. Len(front) : d[w] = front[w]
      /\ \A w \in 1 .. Len(post) : d[Len(front) + w] = post[w]
  BY <1>1, <1>3, ConcatIs
<1> HIDE DEF d
<1>5. CASE x < i
  <2>1. x \in 1 .. i - 1
    BY <1>5
  <2>2. x \in 1 .. Len(front) /\ Follows(front[x], c[x])
    BY <1>1, <1>3, <2>1
  <2>3. x \in 1 .. Len(d)
    BY <1>1, <1>2, <1>4, <2>2
  <2> QED BY <1>1, <1>4, <2>2, <2>3
<1>6. CASE x > j
  <2> DEFINE w == x - j
  <2>1. w \in 1 .. Len(c) - j /\ j + w = x
    BY <1>2, <1>6
  <2> HIDE DEF w
  <2>2. w \in 1 .. Len(post) /\ post[w] = c[x]
    BY <1>1, <2>1
  <2>3. d[Len(front) + w] = c[x]
    BY <1>4, <2>2
  <2>4. Len(post) \in Nat /\ w \in Nat /\ w >= 1 /\ w <= Len(post)
    BY <1>1, <1>2, <2>1, <2>2
  <2>5. Len(front) + w \in 1 .. Len(d)
    BY <1>4, <2>4
  <2>6. Follows(c[x], c[x])
    BY SectionOf, PrefixOf DEF Follows
  <2> QED BY <1>1, <2>3, <2>5, <2>6
<1> QED
  BY <1>5, <1>6

(* Text is written over sections i to j of base, which are now at k.          *)
WrittenAt(k, base, i, j, src, now, text) ==
    /\ k + (j - i) \in Nat /\ k <= k + (j - i) /\ k + (j - i) <= Len(now)
    /\ text = Spliced(now, k, k + (j - i), src)
    /\ \A x \in k .. k + (j - i) : now[x] = base[i + (x - k)] /\ i + (x - k) \in i .. j

LEMMA MergesAt ==
  ASSUME NEW base \in Content, NEW now \in Content, NEW i \in 1 .. Len(base), NEW j \in i .. Len(base),
         NEW src, NEW text \in Merges(base, i, j, src, now), text # <<>>
  PROVE  \E k \in Nat \ {0} : WrittenAt(k, base, i, j, src, now, text)
<1>1. Len(base) \in Nat /\ Len(now) \in Nat /\ i \in Nat /\ j \in Nat /\ i <= j /\ j - i \in Nat /\ i # 0
  BY DEF Content
<1>2. CASE base = now
  <2>1. text = Spliced(now, i, j, src) /\ i + (j - i) = j
    BY <1>1, <1>2 DEF Merges
  <2>2. \A x \in i .. j : i + (x - i) = x
    BY <1>1
  <2>3. WrittenAt(i, base, i, j, src, now, text)
    BY <1>1, <1>2, <2>1, <2>2 DEF WrittenAt
  <2> QED BY <1>1, <2>3
<1>3. CASE base # now
  <2>1. PICK k \in Places(base, i, j, now) : text = Spliced(now, k, k + (j - i), src)
    BY <1>3 DEF Merges
  <2>2. k \in 1 .. Len(now) /\ k + (j - i) <= Len(now) /\ SubSeq(now, k, k + (j - i)) = SubSeq(base, i, j)
    BY <2>1 DEF Places
  <2>3. /\ k \in Nat \ {0} /\ k + (j - i) \in Nat /\ k <= k + (j - i) /\ k <= (k + (j - i)) + 1
        /\ (k + (j - i)) - k + 1 = j - i + 1 /\ i <= j + 1 /\ i \in Nat \ {0}
    BY <1>1, <2>2
  <2>4. \A w \in 1 .. j - i + 1 : SubSeq(now, k, k + (j - i))[w] = now[k + w - 1]
    BY <1>1, <2>2, <2>3, SliceIs
  <2>5. \A w \in 1 .. j - i + 1 : SubSeq(base, i, j)[w] = base[i + w - 1]
    BY <1>1, <2>3, SliceIs
  <2>6. ASSUME NEW x \in k .. k + (j - i) PROVE now[x] = base[i + (x - k)] /\ i + (x - k) \in i .. j
    <3>1. x - k + 1 \in 1 .. j - i + 1 /\ k + (x - k + 1) - 1 = x /\ i + (x - k + 1) - 1 = i + (x - k)
          /\ i + (x - k) \in i .. j
      BY <1>1, <2>3
    <3>2. now[k + (x - k + 1) - 1] = base[i + (x - k + 1) - 1]
      BY <2>2, <2>4, <2>5, <3>1
    <3> QED BY <3>1, <3>2
  <2>7. WrittenAt(k, base, i, j, src, now, text)
    BY <2>1, <2>2, <2>3, <2>6 DEF WrittenAt
  <2> QED BY <2>3, <2>7
<1> QED
  BY <1>2, <1>3

Carries(page, s) == \E y \in 1 .. Len(page) : Follows(page[y], s)

LEMMA MergeKeeps ==
  ASSUME NEW base, IsPage(base), NEW now, IsPage(now), NEW src, IsText(src),
         NEW i \in 1 .. Len(base), NEW j \in i .. Len(base),
         NEW text \in Merges(base, i, j, src, now), text # <<>>
  PROVE  /\ IsText(text)
         /\ \A x \in 1 .. Len(now) : now[x] \in Range(base) \/ Carries(Saved(text), now[x])
<1>1. base \in Content /\ now \in Content /\ LeadFirst(now) /\ Len(now) \in Nat /\ Len(base) \in Nat
      /\ DOMAIN base = 1 .. Len(base)
  BY DEF IsPage, IsText, Content
<1>2. PICK k \in Nat \ {0} : WrittenAt(k, base, i, j, src, now, text)
  BY <1>1, MergesAt
<1>3. IsText(text)
  <2>1. k <= (k + (j - i)) + 1
    BY <1>2 DEF WrittenAt
  <2> QED BY <1>1, <1>2, <2>1, SplicedText DEF WrittenAt
<1>4. ASSUME NEW x \in 1 .. Len(now) PROVE now[x] \in Range(base) \/ Carries(Saved(text), now[x])
  <2>1. CASE x < k \/ x > k + (j - i)
    <3>1. PICK y \in 1 .. Len(text) : Follows(text[y], now[x])
      BY <1>1, <1>2, <2>1, SplicedKeeps DEF WrittenAt
    <3>2. PICK z \in 1 .. Len(Saved(text)) : Saved(text)[z] = text[y]
      BY <1>3, SavedPage
    <3> QED BY <3>1, <3>2 DEF Carries
  <2>2. CASE ~(x < k \/ x > k + (j - i))
    <3>1. x \in k .. k + (j - i)
      BY <1>1, <1>2, <2>2 DEF WrittenAt
    <3>2. now[x] = base[i + (x - k)] /\ i + (x - k) \in i .. j
      BY <1>2, <3>1 DEF WrittenAt
    <3>3. i + (x - k) \in DOMAIN base
      BY <1>1, <3>2
    <3> QED BY <3>2, <3>3 DEF Range
  <2> QED BY <2>1, <2>2
<1> QED
  BY <1>3, <1>4

LEMMA PageIs ==
  ASSUME NEW c, IsPage(c)
  PROVE  /\ c \in Content /\ c # <<>> /\ LeadFirst(c) /\ c[1].level = 0
         /\ Len(c) \in Nat /\ 1 \in 1 .. Len(c) /\ Len(c) >= 1
BY DEF IsPage, IsText, Content

(* A body is replaced.                                                       *)
LEMMA EditedText ==
  ASSUME NEW c, IsText(c), NEW x \in 1 .. Len(c), NEW b \in Seq(Piece)
  PROVE  /\ IsText([c EXCEPT ![x].body = b])
         /\ [c EXCEPT ![x].body = b][1].level = c[1].level
<1> DEFINE s == [c[x] EXCEPT !.body = b]
           d == [c EXCEPT ![x] = s]
<1>1. c \in Seq(Section) /\ c # <<>> /\ Len(c) \in Nat /\ DOMAIN c = 1 .. Len(c) /\ LeadFirst(c)
  BY DEF IsText, Content
<1>2. c[x] \in Section
  BY <1>1
<1>3. s \in Section /\ s.level = c[x].level
  BY <1>2, Rewritten
<1>4. [c EXCEPT ![x].body = b] = d
  BY <1>1
<1> HIDE DEF s
<1>5. d \in Seq(Section) /\ Len(d) = Len(c) /\ \A y \in 1 .. Len(c) : d[y] = IF y = x THEN s ELSE c[y]
  BY <1>1, <1>3
<1> HIDE DEF d
<1>6. \A y \in 1 .. Len(c) : d[y].level = c[y].level
  BY <1>3, <1>5
<1>7. d # <<>> /\ 1 \in 1 .. Len(c)
  <2>1. Len(c) # 0
    BY <1>1
  <2> QED BY <1>1, <1>5, <2>1
<1>8. \A y \in 2 .. Len(d) : y \in 1 .. Len(c) /\ y \in 2 .. Len(c)
  BY <1>1, <1>5
<1>9. LeadFirst(d)
  BY <1>1, <1>6, <1>8 DEF LeadFirst
<1> QED
  BY <1>4, <1>5, <1>6, <1>7, <1>9 DEF IsText, Content

LEMMA ScopeText ==
  ASSUME NEW c, IsPage(c), NEW section \in Int, section = -1 \/ HasSection(c, section)
  PROVE  IsText(Scope(c, section))
<1>1. c \in Content /\ LeadFirst(c) /\ Len(c) \in Nat
  BY PageIs
<1>2. CASE section = -1
  BY <1>2 DEF Scope, IsPage
<1>3. CASE section # -1
  <2> DEFINE i == section + 1
             j == SubtreeEnd(c, i)
  <2>1. i \in 1 .. Len(c)
    BY <1>3 DEF HasSection
  <2>2. Scope(c, section) = SubSeq(c, i, j)
    BY <1>3 DEF Scope, Span
  <2> HIDE DEF i
  <2>3. j \in i .. Len(c)
    BY <1>1, <2>1, SubtreeEndIs
  <2> HIDE DEF j
  <2>4. i \in Nat \ {0} /\ j \in Nat /\ i <= j + 1 /\ j <= Len(c) /\ j - i + 1 >= 1
    BY <1>1, <2>1, <2>3
  <2>5. SubSeq(c, i, j) \in Content /\ LeadFirst(SubSeq(c, i, j)) /\ Len(SubSeq(c, i, j)) = j - i + 1
    BY <1>1, <2>4, SlicedText
  <2>6. SubSeq(c, i, j) # <<>>
    <3> DEFINE d == SubSeq(c, i, j)
    <3>1. Len(d) >= 1
      BY <2>4, <2>5
    <3> HIDE DEF d
    <3>2. d # <<>>
      BY <3>1
    <3> QED BY <3>2 DEF d
  <2> QED BY <2>2, <2>5, <2>6 DEF IsText
<1> QED
  BY <1>2, <1>3

(* The revisions only grow.                                                  *)
Grown == /\ revs' \in Seq(Content) /\ Rev' <= MaxRevs /\ Rev <= Rev'
         /\ \A r \in 1 .. Rev : revs'[r] = revs[r]
         /\ \A r \in 1 .. Rev' : IsPage(revs'[r])

LEMMA RevsIs ==
  ASSUME EditIInv
  PROVE  Rev \in Nat /\ revs \in Seq(Content) /\ (revs # <<>> => Rev \in 1 .. Rev /\ IsPage(Current))
         /\ \A r \in 1 .. Rev : IsPage(revs[r])
<1>1. revs \in Seq(Content) /\ Rev \in Nat /\ \A r \in 1 .. Rev : IsPage(revs[r])
  BY DEF EditIInv, Rev
<1>2. revs # <<>> => Rev \in 1 .. Rev
  BY <1>1 DEF Rev
<1> QED
  BY <1>1, <1>2 DEF Current

LEMMA NotGrown ==
  ASSUME EditIInv, revs' = revs
  PROVE  Grown
BY RevsIs DEF EditIInv, Grown, Rev

LEMMA SavedGrows ==
  ASSUME EditIInv, NEW text, IsText(text), Save(text), Rev < MaxRevs
  PROVE  Grown /\ Last(revs') = Saved(text)
<1>1. IsPage(Saved(text)) /\ Saved(text) \in Content
  BY SavedPage, PageIs
<1>2. revs \in Seq(Content) /\ Rev \in Nat /\ MaxRevs \in Nat
  BY RevsIs, EditAssumption
<1>3. revs' = Append(revs, Saved(text))
  BY DEF Save
<1>4. /\ revs' \in Seq(Content) /\ Rev' = Rev + 1 /\ revs'[Rev + 1] = Saved(text)
      /\ \A r \in 1 .. Rev : revs'[r] = revs[r]
  BY <1>1, <1>2, <1>3 DEF Rev
<1>5. \A r \in 1 .. Rev' : IsPage(revs'[r])
  <2>1. \A r \in 1 .. Rev' : r = Rev + 1 \/ r \in 1 .. Rev
    BY <1>2, <1>4
  <2> QED BY <1>1, <1>4, <2>1, RevsIs
<1>6. Last(revs') = Saved(text)
  BY <1>4 DEF Last, Rev
<1> QED
  BY <1>2, <1>4, <1>5, <1>6 DEF Grown

LEMMA ArgsIs ==
  ASSUME NEW a \in Args
  PROVE  /\ a.op \in Operation /\ a.section \in Int /\ a.section >= -1 /\ a.latestId \in 0 .. MaxRevs
         /\ a.op # "find-replace" => a.source \in Source /\ IsText(a.source)
         /\ a.with \in Seq(Piece)
<1>1. /\ a.op \in Operation /\ a.section \in -1 .. Len(First) /\ a.latestId \in 0 .. MaxRevs
      /\ a.with \in {<<>>} \cup [1 .. 2 -> Piece]
      /\ a.op # "find-replace" => a.source \in Source
  BY DEF Args
<1>2. Len(First) \in Nat /\ MaxRevs \in Nat
  BY EditAssumption DEF Content
<1>3. a.with \in Seq(Piece)
  <2>1. [1 .. 2 -> Piece] \subseteq Seq(Piece)
    BY 2 \in Nat, SeqDef
  <2>2. <<>> \in Seq(Piece)
    OBVIOUS
  <2> QED BY <1>1, <2>1, <2>2, Zenon
<1>4. a.op # "find-replace" => IsText(a.source)
  <2>1. \A src \in Source : IsText(src)
    BY EditAssumption, Zenon DEF IsText
  <2> QED BY <1>1, <2>1
<1>5. a.section \in Int /\ a.section >= -1
  BY <1>1, <1>2
<1> QED
  BY <1>1, <1>3, <1>4, <1>5

LEMMA PlanIs ==
  ASSUME NEW a, PlanOK(a), a.op = "replace", a.section > 0
  PROVE  a.latestId \in 1 .. Rev
BY ArgsIs DEF PlanOK, PlanRefuses

(* What a guard found stays found: it read a revision, which stays.          *)
LEMMA JudgedKept ==
  ASSUME EditIInv, Grown, NEW a, PlanOK(a)
  PROVE  PlanOK(a)' /\ (HeadingJudged(a) => HeadingJudged(a)') /\ (RemovalJudged(a) => RemovalJudged(a)')
<1>1. PlanOK(a)'
  <2>1. a.latestId \in Int /\ Rev \in Nat /\ Rev' \in Nat
    BY ArgsIs, RevsIs DEF PlanOK, Grown, Rev
  <2> QED BY <2>1 DEF PlanOK, Grown
<1>2. CASE a.op = "replace" /\ a.section > 0
  <2>1. a.latestId \in 1 .. Rev
    BY <1>2, PlanIs
  <2>2. At(a.latestId)' = At(a.latestId)
    BY <2>1 DEF At, Grown
  <2>3. HeadingRefuses(a)' <=> HeadingRefuses(a)
    BY <2>2 DEF HeadingRefuses, Judged
  <2>4. RemovalRefuses(a)' <=> RemovalRefuses(a)
    BY <2>2 DEF RemovalRefuses, Judged
  <2> QED BY <1>1, <2>3, <2>4 DEF HeadingJudged, RemovalJudged
<1>3. CASE ~(a.op = "replace" /\ a.section > 0)
  BY <1>1, <1>3 DEF HeadingJudged, RemovalJudged
<1> QED
  BY <1>2, <1>3

LEMMA CallKept ==
  ASSUME EditIInv, Grown, NEW x, CallOK(x)
  PROVE  CallOK(x)'
<1>1. Rev \in Nat /\ Rev' \in Nat /\ Rev <= Rev'
  BY RevsIs DEF Grown, Rev
<1>2. x.base \in 0 .. Rev'
  BY <1>1 DEF CallOK
<1>3. PlanOK(x.args) =>
        PlanOK(x.args)' /\ (HeadingJudged(x.args) => HeadingJudged(x.args)')
                        /\ (RemovalJudged(x.args) => RemovalJudged(x.args)')
  BY JudgedKept
<1> QED
  BY <1>2, <1>3 DEF CallOK

LEMMA CallIs ==
  ASSUME EditIInv, NEW c \in Call
  PROVE  call \in [Call -> CallState] /\ call[c] \in CallState /\ CallOK(call[c])
BY DEF EditIInv

(* A step of one call, which comes to be s, and of nothing else but the page. *)
RestIsTyped == deleted \in BOOLEAN /\ moved \in BOOLEAN /\ protection \in [Action -> 0 .. 1]

LEMMA CallBecomes ==
  ASSUME EditIInv, Grown, RestIsTyped', NEW c \in Call, NEW s \in CallState,
         call' = [call EXCEPT ![c] = s], CallOK(s)
  PROVE  EditIInv'
<1>1. call' \in [Call -> CallState] /\ call'[c] = s /\ \A d \in Call \ {c} : call'[d] = call[d]
  BY CallIs
<1>2. ASSUME NEW d \in Call PROVE CallOK(call[d])'
  <2>1. PICK x : x = call'[d]
    OBVIOUS
  <2>2. CallOK(x)
    BY <1>1, <2>1, CallIs
  <2>3. CallOK(x)'
    BY <2>2, CallKept
  <2> QED BY <2>1, <2>3 DEF CallOK
<1>3. /\ revs' \in Seq(Content) /\ Rev' <= MaxRevs
      /\ \A r \in 1 .. Rev' : IsPage(revs'[r])
  BY DEF Grown
<1> QED
  BY <1>1, <1>2, <1>3 DEF EditIInv, Rev, RestIsTyped

LEMMA CallEnds ==
  ASSUME EditIInv, Grown, RestIsTyped', NEW c \in Call, NEW answer \in CallAnswer, Ends(c, answer)
  PROVE  EditIInv' /\ call'[c].answer = answer
<1>1. PICK x \in CallState : x = call[c] /\ CallOK(x)
  BY CallIs
<1> DEFINE s == [x EXCEPT !.pc = "done", !.answer = answer]
<1>2. s \in CallState /\ s.pc = "done" /\ s.base = x.base /\ s.answer = answer
  <2>1. "done" \in CallPc
    BY DEF CallPc
  <2> QED BY <1>1, <2>1 DEF CallState
<1>3. call' = [call EXCEPT ![c] = s]
  BY <1>1 DEF Ends
<1> HIDE DEF s
<1>4. CallOK(s)
  BY <1>1, <1>2 DEF CallOK
<1>5. call'[c] = s
  BY <1>3, CallIs
<1> QED
  BY <1>2, <1>3, <1>4, <1>5, CallBecomes

LEMMA OnlyCalls ==
  ASSUME EditIInv, UNCHANGED <<revs, deleted, protection, moved>>
  PROVE  Grown /\ RestIsTyped'
BY NotGrown DEF EditIInv, RestIsTyped

(* A call goes on to pc, with what that needs.                               *)
LEMMA CallGoesOn ==
  ASSUME EditIInv, UNCHANGED <<revs, deleted, protection, moved>>, NEW c \in Call, NEW pc \in CallPc,
         call' = [call EXCEPT ![c].pc = pc],
         \A s \in CallState : /\ s.pc = pc /\ s.args = call[c].args /\ s.base = call[c].base
                              /\ s.answer = call[c].answer
                              => CallOK(s)
  PROVE  EditIInv'
<1>1. PICK x \in CallState : x = call[c]
  BY CallIs
<1> DEFINE s == [x EXCEPT !.pc = pc]
<1>2. s \in CallState /\ s.pc = pc /\ s.args = x.args /\ s.base = x.base /\ s.answer = x.answer
  BY <1>1 DEF CallState
<1>3. call' = [call EXCEPT ![c] = s]
  BY <1>1
<1> HIDE DEF s
<1>4. CallOK(s)
  BY <1>1, <1>2
<1> QED
  BY <1>2, <1>3, <1>4, OnlyCalls, CallBecomes

(* The steps of a call of update-page.                                       *)

LEMMA UpdateStep ==
  ASSUME EditIInv, NEW c \in Call, NEW a \in Args, Update(c, a)
  PROVE  EditIInv'
<1>1. call[c].pc = "new" /\ a.latestId <= Rev /\ UNCHANGED <<revs, deleted, protection, moved>>
  BY DEF Update
<1>2. CASE PlanRefuses(a)
  <2>1. Ends(c, "invalid") /\ "invalid" \in CallAnswer
    BY <1>2 DEF Update, CallAnswer
  <2> QED BY <1>1, <2>1, OnlyCalls, CallEnds
<1>3. CASE ~PlanRefuses(a)
  <2> DEFINE next == CASE a.op = "find-replace" -> "find" [] a.op = "replace" -> "unread" [] OTHER -> "submit"
  <2>1. PICK pc : pc = next
    OBVIOUS
  <2>2. /\ a.op = "find-replace" => pc = "find"
        /\ a.op = "replace" => pc = "unread"
        /\ a.op \in {"append", "prepend"} => pc = "submit"
    BY <2>1
  <2>3. a.op \in Operation
    BY ArgsIs
  <2>4. pc \in CallPc /\ pc # "done" /\ pc # "removal" /\ pc # "submitSplice"
    BY <2>2, <2>3 DEF Operation, CallPc
  <2>5. PICK x \in CallState : x = call[c] /\ CallOK(x)
    BY CallIs
  <2> DEFINE s == [x EXCEPT !.args = a, !.pc = pc]
  <2>6. call' = [call EXCEPT ![c] = s]
    <3>1. call' = [call EXCEPT ![c].args = a, ![c].pc = pc]
      BY <1>3, <2>1 DEF Update
    <3> QED BY <2>5, <3>1
  <2>7. s \in CallState /\ s.pc = pc /\ s.args = a /\ s.base = x.base /\ s.answer = x.answer
    <3>1. a \in ArgsState
      BY DEF ArgsState
    <3> QED BY <2>4, <2>5, <3>1 DEF CallState
  <2> HIDE DEF s
  <2>8. x.answer = "none" /\ x.base \in 0 .. Rev
    BY <1>1, <2>5 DEF CallOK
  <2>9. PlanOK(a)
    BY <1>1, <1>3 DEF PlanOK
  <2>10. pc = "submit" => a.op # "replace" /\ a.op # "find-replace"
    BY <2>2, <2>3 DEF Operation
  <2>11. pc = "find" => a.op = "find-replace"
    BY <2>2, <2>3 DEF Operation
  <2>12. pc \in {"unread", "heading", "removal"} => a.op = "replace"
    BY <2>2, <2>3 DEF Operation
  <2>13. CallOK(s)
    BY <2>4, <2>7, <2>8, <2>9, <2>10, <2>11, <2>12 DEF CallOK, HeadingJudged, RemovalJudged
  <2> QED BY <1>1, <2>6, <2>7, <2>13, OnlyCalls, CallBecomes
<1> QED
  BY <1>2, <1>3

(* A guard of a replace refuses, or lets the call go on.                     *)
LEMMA GuardedStep ==
  ASSUME EditIInv, NEW c \in Call, NEW pc \in {"unread", "heading", "removal"},
         NEW next \in {"heading", "removal", "submit"}, NEW missing \in BOOLEAN, NEW refuses \in BOOLEAN,
         Guarded(c, pc, next, missing, refuses),
         pc = "unread" => next = "heading",
         next \in {"removal", "submit"} /\ ~missing /\ ~refuses => HeadingJudged(call[c].args),
         next = "submit" /\ ~missing /\ ~refuses => RemovalJudged(call[c].args)
  PROVE  EditIInv'
<1>1. call[c].pc = pc /\ UNCHANGED <<revs, deleted, protection, moved>>
  BY DEF Guarded
<1>2. "notFound" \in CallAnswer /\ "invalid" \in CallAnswer
  BY DEF CallAnswer
<1>3. CASE missing
  BY <1>1, <1>2, <1>3, OnlyCalls, CallEnds DEF Guarded
<1>4. CASE ~missing /\ refuses
  BY <1>1, <1>2, <1>4, OnlyCalls, CallEnds DEF Guarded
<1>5. CASE ~missing /\ ~refuses
  <2>1. call' = [call EXCEPT ![c].pc = next]
    BY <1>5 DEF Guarded
  <2>2. next \in CallPc
    BY DEF CallPc
  <2>3. ASSUME NEW s \in CallState, s.pc = next, s.args = call[c].args, s.base = call[c].base,
               s.answer = call[c].answer
        PROVE  CallOK(s)
    <3>1. CallOK(call[c])
      BY CallIs
    <3>2. PICK x : x = call[c]
      OBVIOUS
    <3>3. CallOK(x) /\ x.pc = pc
      BY <1>1, <3>1, <3>2
    <3>4. x.answer = "none" /\ x.base \in 0 .. Rev /\ PlanOK(x.args) /\ x.args.op = "replace"
      BY <3>3 DEF CallOK
    <3>5. (next \in {"removal", "submit"} => HeadingJudged(x.args)) /\ (next = "submit" => RemovalJudged(x.args))
      BY <1>5, <3>2
    <3>6. next # "done" /\ next # "find" /\ next # "submitSplice"
      OBVIOUS
    <3>7. s.args = x.args /\ s.base = x.base /\ s.answer = x.answer
      BY <2>3, <3>2
    <3> QED BY <2>3, <3>4, <3>5, <3>6, <3>7 DEF CallOK
  <2> QED BY <1>1, <2>1, <2>2, <2>3, CallGoesOn
<1> QED
  BY <1>3, <1>4, <1>5

LEMMA GuardUnreadStep ==
  ASSUME EditIInv, NEW c \in Call, GuardUnread(c)
  PROVE  EditIInv'
<1>1. PICK refuses \in BOOLEAN : refuses <=> UnreadRefuses(call[c].args)
  OBVIOUS
<1>2. Guarded(c, "unread", "heading", FALSE, refuses)
  BY <1>1 DEF GuardUnread, Guarded
<1> QED
  BY <1>2, GuardedStep

LEMMA GuardHeadingStep ==
  ASSUME EditIInv, NEW c \in Call, GuardHeading(c)
  PROVE  EditIInv'
<1> DEFINE a == call[c].args
<1>1. PICK missing \in BOOLEAN : missing <=> OutlineGone(a)
  OBVIOUS
<1>2. PICK refuses \in BOOLEAN : refuses <=> (~OutlineGone(a) /\ HeadingRefuses(a))
  OBVIOUS
<1>3. Guarded(c, "heading", "removal", missing, refuses)
  BY <1>1, <1>2 DEF GuardHeading, Guarded
<1>4. ~missing /\ ~refuses => HeadingJudged(a)
  BY <1>1, <1>2 DEF HeadingJudged
<1> QED
  BY <1>3, <1>4, GuardedStep

LEMMA GuardRemovalStep ==
  ASSUME EditIInv, NEW c \in Call, GuardRemoval(c)
  PROVE  EditIInv'
<1> DEFINE a == call[c].args
<1>1. PICK missing \in BOOLEAN : missing <=> (OutlineGone(a) /\ ~a.prune)
  OBVIOUS
<1>2. PICK refuses \in BOOLEAN : refuses <=> (~OutlineGone(a) /\ RemovalRefuses(a))
  OBVIOUS
<1>3. Guarded(c, "removal", "submit", missing, refuses)
  BY <1>1, <1>2 DEF GuardRemoval, Guarded
<1>4. ~missing /\ ~refuses => RemovalJudged(a)
  BY <1>1, <1>2 DEF RemovalJudged
<1>5. HeadingJudged(a)
  <2>1. CallOK(call[c]) /\ call[c].pc = "removal"
    BY <1>3, CallIs DEF Guarded
  <2> QED BY <2>1 DEF CallOK
<1> QED
  BY <1>3, <1>4, <1>5, GuardedStep

LEMMA SpliceStep ==
  ASSUME EditIInv, NEW c \in Call, Splice(c)
  PROVE  EditIInv'
<1>1. PICK x \in CallState : x = call[c] /\ CallOK(x)
  BY CallIs
<1> DEFINE a == x.args
           scope == Scope(Current, a.section)
<1>2. /\ x.pc = "find" /\ Exists /\ (a.section = -1 \/ HasSection(Current, a.section))
      /\ UNCHANGED <<revs, deleted, protection, moved>>
  BY <1>1, Zenon DEF Splice
<1>3. PICK at \in Occurrences(scope, a.find) :
        call' = [call EXCEPT ![c].pc = "submitSplice", ![c].base = Rev, ![c].read = Rev, ![c].text =
                  [scope EXCEPT ![at[1]].body =
                     SubSeq(@, 1, at[2] - 1) \o a.with \o SubSeq(@, at[2] + 1, Len(@))]]
  BY <1>1, Zenon DEF Splice
<1>4. a \in Args /\ PlanOK(a) /\ a.op = "find-replace" /\ x.answer = "none"
  BY <1>1, <1>2 DEF CallOK, PlanOK
<1>5. Rev \in 1 .. Rev /\ Rev \in Nat /\ Rev # 0 /\ IsPage(Current)
  BY <1>2, RevsIs DEF Exists
<1>6. IsText(scope)
  BY <1>2, <1>4, <1>5, ArgsIs, ScopeText
<1>7. PICK d : d = scope
  OBVIOUS
<1>8. IsText(d) /\ at[1] \in 1 .. Len(d) /\ at[2] \in 1 .. Width /\ at[2] <= Len(d[at[1]].body)
  <2>1. IsText(d) /\ at \in Occurrences(d, a.find)
    BY <1>3, <1>6, <1>7, Zenon
  <2>2. at \in (1 .. Len(d)) \X (1 .. Width) /\ at[2] <= Len(d[at[1]].body)
    BY <2>1 DEF Occurrences
  <2> QED BY <2>1, <2>2
<1>9. PICK i : i = at[1]
  OBVIOUS
<1>10. PICK n : n = at[2]
  OBVIOUS
<1> DEFINE b == SubSeq(d[i].body, 1, n - 1) \o a.with \o SubSeq(d[i].body, n + 1, Len(d[i].body))
           t == [d EXCEPT ![i].body = b]
<1>11. d \in Content /\ i \in 1 .. Len(d) /\ d[i].body \in Seq(Piece) /\ n \in Nat /\ n >= 1 /\ n <= Len(d[i].body)
  <2>1. d \in Content /\ i \in 1 .. Len(d) /\ n <= Len(d[i].body)
    BY <1>8, <1>9, <1>10 DEF IsText
  <2>2. n \in Nat /\ n >= 1
    BY <1>8, <1>10, EditAssumption
  <2> QED BY <2>1, <2>2, SectionOf
<1>12. b \in Seq(Piece)
  <2>1. PICK w : w = d[i].body
    OBVIOUS
  <2>2. PICK v : v = a.with
    OBVIOUS
  <2>3. w \in Seq(Piece) /\ v \in Seq(Piece) /\ n \in Nat /\ n >= 1 /\ n <= Len(w)
    BY <1>4, <1>11, <2>1, <2>2, ArgsIs
  <2>4. SubSeq(w, 1, n - 1) \in Seq(Piece) /\ SubSeq(w, n + 1, Len(w)) \in Seq(Piece)
    BY <2>3
  <2>5. SubSeq(w, 1, n - 1) \o v \o SubSeq(w, n + 1, Len(w)) \in Seq(Piece)
    BY <2>3, <2>4
  <2> QED BY <2>1, <2>2, <2>5
<1>13. call' = [call EXCEPT ![c].pc = "submitSplice", ![c].base = Rev, ![c].read = Rev, ![c].text = t]
  BY <1>3, <1>7, <1>9, <1>10, Zenon
<1> HIDE DEF b
<1>14. IsText(t)
  BY <1>8, <1>9, <1>12, EditedText
<1> HIDE DEF t
<1>15. PICK text : text = t
  OBVIOUS
<1>16. PICK r : r = Rev
  OBVIOUS
<1> DEFINE s == [x EXCEPT !.pc = "submitSplice", !.base = r, !.read = r, !.text = text]
<1>17. call' = [call EXCEPT ![c] = s]
  <2>1. call' = [call EXCEPT ![c].pc = "submitSplice", ![c].base = r, ![c].read = r, ![c].text = text]
    BY <1>13, <1>15, <1>16
  <2> QED BY <1>1, <2>1
<1>18. IsText(text) /\ text \in Content /\ r \in Int /\ r # 0 /\ r \in 0 .. Rev
  BY <1>5, <1>14, <1>15, <1>16 DEF IsText
<1>19. s \in CallState /\ s.pc = "submitSplice" /\ s.base = r /\ s.read = r /\ s.text = text /\ s.args = a
       /\ s.answer = x.answer
  <2>1. "submitSplice" \in CallPc
    BY DEF CallPc
  <2> QED BY <1>1, <1>18, <2>1 DEF CallState
<1> HIDE DEF s
<1>20. CallOK(s)
  BY <1>4, <1>18, <1>19 DEF CallOK
<1> QED
  BY <1>2, <1>17, <1>19, <1>20, OnlyCalls, CallBecomes

LEMMA SpliceRefusedStep ==
  ASSUME EditIInv, NEW c \in Call, SpliceRefused(c)
  PROVE  EditIInv'
<1>1. UNCHANGED <<revs, deleted, protection, moved>>
  BY DEF SpliceRefused
<1>2. \E answer \in CallAnswer : Ends(c, answer)
  <2>1. "notFound" \in CallAnswer /\ "invalid" \in CallAnswer /\ "conflict" \in CallAnswer
    BY DEF CallAnswer
  <2>2. Ends(c, "notFound") \/ Ends(c, "conflict") \/ Ends(c, "invalid")
    BY DEF SpliceRefused
  <2> QED BY <2>1, <2>2
<1> QED
  BY <1>1, <1>2, OnlyCalls, CallEnds

-----------------------------------------------------------------------------
(* The request that saves.                                                   *)

(* Sections i to j of from are what the edit is about.                       *)
Target(from, section, i, j) ==
    \/ section = -1 /\ i = 1 /\ j = Len(from)
    \/ section >= 0 /\ i = section + 1 /\ j = SubtreeEnd(from, i)

LEMMA TargetIs ==
  ASSUME NEW from, IsPage(from), NEW section \in Int, section >= -1, section = -1 \/ HasSection(from, section),
         NEW span, span = IF section = -1 THEN <<1, Len(from)>> ELSE Span(from, section)
  PROVE  /\ span[1] \in 1 .. Len(from) /\ span[2] \in span[1] .. Len(from)
         /\ Target(from, section, span[1], span[2])
<1>1. from \in Content /\ LeadFirst(from) /\ Len(from) \in Nat /\ 1 \in 1 .. Len(from)
  BY PageIs
<1>2. CASE section = -1
  BY <1>1, <1>2 DEF Target
<1>3. CASE section # -1
  <2>1. section + 1 \in 1 .. Len(from) /\ section >= 0
    BY <1>3 DEF HasSection
  <2>2. span[1] = section + 1 /\ span[2] = SubtreeEnd(from, section + 1)
    BY <1>3 DEF Span
  <2>3. SubtreeEnd(from, section + 1) \in section + 1 .. Len(from)
    BY <1>1, <2>1, SubtreeEndIs
  <2> QED BY <2>1, <2>2, <2>3 DEF Target
<1> QED
  BY <1>2, <1>3

(* What a replacing edit that is saved has written.                          *)
Written(section, base, src) ==
    /\ IsPage(At(base)) /\ IsPage(Current)
    /\ section = -1 \/ HasSection(At(base), section)
    /\ \E i \in 1 .. Len(At(base)) : \E j \in i .. Len(At(base)) :
         /\ Target(At(base), section, i, j)
         /\ \E text \in Merges(At(base), i, j, src, Current) :
              text # <<>> /\ Last(revs') = Saved(text)

LEMMA SubmitStep ==
  ASSUME EditIInv, NEW c \in Call, NEW base \in 0 .. Rev, NEW op \in {"append", "prepend", "replace"},
         NEW src, IsText(src), call[c].args.section \in Int, call[c].args.section >= -1,
         Submit(c, base, op, src), UNCHANGED <<deleted, protection, moved>>
  PROVE  EditIInv' /\ (op = "replace" /\ call'[c].answer = "ok" => Written(call[c].args.section, base, src))
<1> DEFINE section0 == call[c].args.section
           from0 == IF op = "replace" THEN At(base) ELSE Current
<1>1. PICK section : section = section0
  OBVIOUS
<1>2. PICK from : from = from0
  OBVIOUS
<1>3. PICK span : span = IF section = -1 THEN <<1, Len(from)>> ELSE Span(from, section)
  OBVIOUS
<1>4. section \in Int /\ section >= -1
  BY <1>1
<1>5. RestIsTyped'
  BY DEF EditIInv, RestIsTyped
<1>6. "notFound" \in CallAnswer /\ "conflict" \in CallAnswer /\ "ok" \in CallAnswer
  BY DEF CallAnswer
<1>7. CASE ~Exists \/ (section # -1 /\ ~HasSection(from, section))
  <2>1. Ends(c, "notFound") /\ revs' = revs
    BY <1>1, <1>2, <1>7 DEF Submit
  <2>2. EditIInv' /\ call'[c].answer = "notFound"
    BY <1>5, <1>6, <2>1, NotGrown, CallEnds
  <2> QED BY <2>2
<1>8. CASE ~(~Exists \/ (section # -1 /\ ~HasSection(from, section)))
  <2>1. PICK text \in CASE op = "append" -> {Spliced(from, span[2] + 1, span[2], src)}
                        [] op = "prepend" -> {Spliced(from, span[1], span[1] - 1, src)}
                        [] OTHER -> Merges(from, span[1], span[2], src, Current) :
           IF text = <<>> THEN Ends(c, "conflict") /\ UNCHANGED revs
           ELSE Room /\ Save(text) /\ Ends(c, "ok")
    BY <1>1, <1>2, <1>3, <1>8 DEF Submit
  <2>2. CASE text = <<>>
    <3>1. Ends(c, "conflict") /\ revs' = revs
      BY <2>1, <2>2
    <3>2. EditIInv' /\ call'[c].answer = "conflict"
      BY <1>5, <1>6, <3>1, NotGrown, CallEnds
    <3> QED BY <3>2
  <2>3. CASE text # <<>>
    <3>1. Room /\ Save(text) /\ Ends(c, "ok")
      BY <2>1, <2>3
    <3>2. IsPage(Current) /\ Rev \in Nat /\ IsPage(from)
      <4>1. revs # <<>>
        BY <1>8 DEF Exists
      <4>2. At(base) = Current \/ (base \in 1 .. Rev /\ At(base) = revs[base])
        BY RevsIs DEF At
      <4> QED BY <1>2, <4>1, <4>2, RevsIs
    <3>3. /\ span[1] \in 1 .. Len(from) /\ span[2] \in span[1] .. Len(from)
          /\ Target(from, section, span[1], span[2])
      BY <1>3, <1>4, <1>8, <3>2, TargetIs
    <3>4. PICK i : i = span[1]
      OBVIOUS
    <3>5. PICK j : j = span[2]
      OBVIOUS
    <3>6. /\ from \in Content /\ LeadFirst(from) /\ Len(from) \in Nat
          /\ i \in 1 .. Len(from) /\ j \in i .. Len(from) /\ Target(from, section, i, j)
      BY <3>2, <3>3, <3>4, <3>5, PageIs
    <3>7. IsText(text)
      <4>1. CASE op = "append"
        <5>1. text = Spliced(from, j + 1, j, src)
          BY <2>1, <3>5, <4>1
        <5>2. j + 1 \in Nat \ {0} /\ j \in Nat /\ j + 1 <= j + 1 /\ j <= Len(from)
          BY <3>6
        <5> QED BY <3>6, <5>1, <5>2, SplicedText
      <4>2. CASE op = "prepend"
        <5>1. text = Spliced(from, i, i - 1, src)
          BY <2>1, <3>4, <4>2
        <5>2. i \in Nat \ {0} /\ i - 1 \in Nat /\ i <= (i - 1) + 1 /\ i - 1 <= Len(from)
          BY <3>6
        <5> QED BY <3>6, <5>1, <5>2, SplicedText
      <4>3. CASE op = "replace"
        <5>1. text \in Merges(from, i, j, src, Current)
          BY <2>1, <3>4, <3>5, <4>3
        <5> QED BY <2>3, <3>2, <3>6, <5>1, MergeKeeps
      <4> QED BY <4>1, <4>2, <4>3
    <3>8. Grown /\ Last(revs') = Saved(text)
      BY <3>1, <3>7, SavedGrows DEF Room
    <3>9. EditIInv'
      BY <1>5, <1>6, <3>1, <3>8, CallEnds
    <3>10. ASSUME op = "replace" PROVE Written(section, base, src)
      <4>1. from = At(base)
        BY <1>2, <3>10
      <4>2. text \in Merges(At(base), i, j, src, Current)
        BY <2>1, <3>4, <3>5, <3>10, <4>1
      <4>3. section = -1 \/ HasSection(At(base), section)
        BY <1>8, <4>1
      <4> QED BY <2>3, <3>2, <3>6, <3>8, <4>1, <4>2, <4>3 DEF Written
    <3> QED BY <1>1, <3>9, <3>10
  <2> QED BY <2>2, <2>3
<1> QED
  BY <1>7, <1>8

LEMMA SubmitUpdateStep ==
  ASSUME EditIInv, NEW c \in Call, SubmitUpdate(c)
  PROVE  /\ EditIInv'
         /\ call'[c].answer = "ok" /\ call[c].pc = "submit" /\ call[c].args.op = "replace" =>
              Written(call[c].args.section, call[c].args.latestId, call[c].args.source)
         /\ call'[c].answer = "ok" /\ call[c].pc = "submitSplice" =>
              Written(call[c].args.section, call[c].base, call[c].text)
<1>1. UNCHANGED <<deleted, protection, moved>> /\ (call[c].pc = "submit" \/ call[c].pc = "submitSplice")
  BY DEF SubmitUpdate
<1>2. PICK x : x = call[c]
  OBVIOUS
<1>3. CallOK(x) /\ PlanOK(x.args) /\ x.base \in 0 .. Rev /\ x.args \in Args /\ x.args.latestId <= Rev
  BY <1>1, <1>2, CallIs DEF CallOK, PlanOK
<1>4. x.args.section \in Int /\ x.args.section >= -1 /\ x.args.op \in Operation /\ x.args.latestId \in 0 .. Rev
  BY <1>3, ArgsIs, RevsIs
<1>5. CASE x.pc = "submit"
  <2>1. x.args.op \in {"append", "prepend", "replace"} /\ x.args.op # "find-replace"
    BY <1>3, <1>4, <1>5 DEF CallOK, Operation
  <2>2. IsText(x.args.source)
    BY <1>3, <2>1, ArgsIs
  <2>3. Submit(c, x.args.latestId, x.args.op, x.args.source)
    BY <1>2, <1>5 DEF SubmitUpdate
  <2> QED BY <1>1, <1>2, <1>4, <1>5, <2>1, <2>2, <2>3, SubmitStep
<1>6. CASE x.pc = "submitSplice"
  <2>1. IsText(x.text)
    BY <1>3, <1>6 DEF CallOK
  <2>2. Submit(c, x.base, "replace", x.text)
    BY <1>2, <1>6 DEF SubmitUpdate
  <2> QED BY <1>1, <1>2, <1>3, <1>4, <1>6, <2>1, <2>2, SubmitStep
<1> QED
  BY <1>1, <1>2, <1>5, <1>6

-----------------------------------------------------------------------------
(* The other page tools, and other editors.                                  *)

LEMMA BeginStep ==
  ASSUME EditIInv, NEW c \in Call, NEW tool \in {"create", "move", "delete", "protect"}, Begin(c, tool)
  PROVE  EditIInv'
<1>1. /\ call[c].pc = "new" /\ call' = [call EXCEPT ![c].pc = tool]
      /\ UNCHANGED <<revs, deleted, protection, moved>> /\ tool \in CallPc
  BY DEF Begin, CallPc
<1>2. call[c].answer = "none" /\ call[c].base \in 0 .. Rev
  <2>1. CallOK(call[c])
    BY CallIs
  <2> QED BY <1>1, <2>1 DEF CallOK
<1>3. ASSUME NEW s \in CallState, s.pc = tool, s.base = call[c].base, s.answer = call[c].answer
      PROVE  CallOK(s)
  <2>1. tool \notin {"done", "unread", "heading", "removal", "submit", "find", "submitSplice"}
    OBVIOUS
  <2> QED BY <1>2, <1>3, <2>1 DEF CallOK
<1> QED
  BY <1>1, <1>3, CallGoesOn

LEMMA CreateStep ==
  ASSUME EditIInv, NEW c \in Call, NEW src \in Source, Create(c, src)
  PROVE  EditIInv'
<1>1. "invalid" \in CallAnswer /\ "ok" \in CallAnswer /\ RestIsTyped'
  BY DEF CallAnswer, EditIInv, RestIsTyped, Create
<1>2. CASE revs # <<>>
  BY <1>1, <1>2, NotGrown, CallEnds DEF Create
<1>3. CASE revs = <<>>
  <2>1. Save(src) /\ Ends(c, "ok")
    BY <1>3 DEF Create
  <2>2. IsText(src)
    BY EditAssumption, Zenon DEF IsText
  <2>3. Rev = 0 /\ Rev < MaxRevs
    BY <1>3, EditAssumption DEF Rev
  <2> QED BY <1>1, <2>1, <2>2, <2>3, SavedGrows, CallEnds
<1> QED
  BY <1>2, <1>3

LEMMA MoveStep ==
  ASSUME EditIInv, NEW c \in Call, Move(c)
  PROVE  EditIInv'
<1>1. revs' = revs /\ RestIsTyped'
  BY Zenon DEF EditIInv, RestIsTyped, Move
<1>2. \E answer \in CallAnswer : Ends(c, answer)
  BY DEF CallAnswer, Move
<1> QED
  BY <1>1, <1>2, NotGrown, CallEnds

LEMMA DeleteStep ==
  ASSUME EditIInv, NEW c \in Call, Delete(c)
  PROVE  EditIInv'
<1>1. revs' = revs /\ RestIsTyped'
  BY Zenon DEF EditIInv, RestIsTyped, Delete
<1>2. \E answer \in CallAnswer : Ends(c, answer)
  BY DEF CallAnswer, Delete
<1> QED
  BY <1>1, <1>2, NotGrown, CallEnds

LEMMA ReadProtectionStep ==
  ASSUME EditIInv, NEW c \in Call, NEW named \in Action, ReadProtection(c, named)
  PROVE  EditIInv'
<1>1. UNCHANGED <<revs, deleted, protection, moved>>
  BY DEF ReadProtection
<1>2. PICK x \in CallState : x = call[c] /\ CallOK(x)
  BY CallIs
<1> DEFINE k0 == [protection EXCEPT ![named] = 0]
<1>3. PICK k : k = k0
  OBVIOUS
<1>4. k \in KeptState
  BY <1>3 DEF EditIInv, KeptState
<1> DEFINE s == [x EXCEPT !.pc = "submitProtect", !.named = named, !.kept = k]
<1>5. call' = [call EXCEPT ![c] = s]
  <2>1. call' = [call EXCEPT ![c].pc = "submitProtect", ![c].named = named, ![c].kept = k]
    BY <1>3 DEF ReadProtection
  <2> QED BY <1>2, <2>1
<1>6. s \in CallState /\ s.pc = "submitProtect" /\ s.base = x.base /\ s.answer = x.answer
  <2>1. "submitProtect" \in CallPc
    BY DEF CallPc
  <2> QED BY <1>2, <1>4, <2>1 DEF CallState
<1> HIDE DEF s
<1>7. x.answer = "none" /\ x.base \in 0 .. Rev
  <2>1. x.pc = "protect"
    BY <1>2 DEF ReadProtection
  <2> QED BY <1>2, <2>1 DEF CallOK
<1>8. CallOK(s)
  BY <1>6, <1>7 DEF CallOK
<1> QED
  BY <1>1, <1>5, <1>6, <1>8, OnlyCalls, CallBecomes

LEMMA SubmitProtectStep ==
  ASSUME EditIInv, NEW c \in Call, NEW level \in {0, 1}, SubmitProtect(c, level)
  PROVE  EditIInv'
<1>1. revs' = revs /\ Ends(c, "ok") /\ "ok" \in CallAnswer
  BY DEF SubmitProtect, CallAnswer
<1>2. RestIsTyped'
  <2>1. PICK k : k = call[c].kept
    OBVIOUS
  <2>2. k \in [Action -> 0 .. 1]
    BY <2>1, CallIs DEF CallState, KeptState
  <2>3. PICK n : n = call[c].named
    OBVIOUS
  <2>4. protection' = [k EXCEPT ![n] = level]
    BY <2>1, <2>3 DEF SubmitProtect
  <2>5. protection' \in [Action -> 0 .. 1]
    <3>1. level \in 0 .. 1
      OBVIOUS
    <3> QED BY <2>2, <2>4, <3>1
  <2>6. deleted' \in BOOLEAN /\ moved' \in BOOLEAN
    BY DEF SubmitProtect, EditIInv
  <2> QED BY <2>5, <2>6 DEF RestIsTyped
<1> QED
  BY <1>1, <1>2, NotGrown, CallEnds

LEMMA OtherEditsStep ==
  ASSUME EditIInv, NEW i \in 1 .. Width, NEW p \in Piece, OtherEdits(i, p)
  PROVE  EditIInv'
<1>1. Exists /\ Room /\ i \in 1 .. Len(Current) /\ UNCHANGED <<deleted, protection, moved, call>>
  BY DEF OtherEdits
<1>2. IsPage(Current) /\ Rev < MaxRevs
  BY <1>1, RevsIs DEF Exists, Room
<1>3. PICK d : d = Current
  OBVIOUS
<1>4. d \in Content /\ LeadFirst(d) /\ IsText(d) /\ i \in 1 .. Len(d) /\ Len(d) \in Nat
  BY <1>1, <1>2, <1>3, PageIs DEF IsPage
<1>5. PICK text : IsText(text) /\ Save(text)
  <2>1. CASE Save([Current EXCEPT ![i].body = Append(@, p)])
    <3> DEFINE t == [d EXCEPT ![i].body = Append(d[i].body, p)]
    <3>1. Save(t)
      BY <1>3, <2>1
    <3>2. Append(d[i].body, p) \in Seq(Piece)
      BY <1>4, SectionOf
    <3>3. IsText(t)
      BY <1>4, <3>2, EditedText
    <3> QED BY <3>1, <3>3
  <2>2. CASE Save(Spliced(Current, i + 1, i, <<[level |-> 2, body |-> <<p>>]>>))
    <3> DEFINE new == [level |-> 2, body |-> <<p>>]
    <3>1. new \in Section
      BY DEF Section, Level
    <3> HIDE DEF new
    <3>2. IsText(<<new>>)
      <4>1. <<new>> \in Content /\ <<new>> # <<>> /\ Len(<<new>>) = 1
        BY <3>1 DEF Content
      <4> QED BY <4>1 DEF IsText, LeadFirst
    <3>3. i + 1 \in Nat \ {0} /\ i \in Nat /\ i + 1 <= i + 1 /\ i <= Len(d)
      BY <1>4
    <3>4. IsText(Spliced(d, i + 1, i, <<new>>))
      BY <1>4, <3>2, <3>3, SplicedText
    <3>5. Save(Spliced(d, i + 1, i, <<new>>))
      BY <1>3, <2>2 DEF new
    <3> QED BY <3>4, <3>5
  <2> QED BY <2>1, <2>2 DEF OtherEdits
<1>6. Grown
  BY <1>2, <1>5, SavedGrows
<1>7. \A c \in Call : CallOK(call[c])'
  <2>1. SUFFICES ASSUME NEW c \in Call PROVE CallOK(call[c])'
    OBVIOUS
  <2>2. PICK x : x = call[c]
    OBVIOUS
  <2>3. CallOK(x)'
    BY <1>6, <2>2, CallIs, CallKept
  <2>4. call'[c] = x
    BY <1>1, <2>2
  <2> QED BY <2>3, <2>4 DEF CallOK
<1> QED
  BY <1>1, <1>6, <1>7 DEF EditIInv, Grown, Rev

-----------------------------------------------------------------------------
LEMMA EditStarts ==
  EditInit => EditIInv
<1> SUFFICES ASSUME EditInit PROVE EditIInv
  OBVIOUS
<1>1. /\ First \in Content /\ IsPage(First) /\ MaxRevs \in Nat /\ MaxRevs >= 1
  BY EditAssumption DEF IsPage, IsText
<1>2. revs \in Seq(Content) /\ Rev <= MaxRevs /\ \A r \in 1 .. Rev : IsPage(revs[r])
  <2>1. CASE revs = <<>>
    BY <1>1, <2>1 DEF Rev
  <2>2. CASE revs = <<First>>
    <3>1. revs \in Seq(Content) /\ Rev = 1 /\ revs[1] = First
      BY <1>1, <2>2 DEF Rev
    <3> QED BY <1>1, <3>1
  <2> QED BY <2>1, <2>2 DEF EditInit
<1>3. deleted \in BOOLEAN /\ moved \in BOOLEAN /\ protection \in [Action -> 0 .. 1]
  <2>1. protection \in [Action -> 0 .. 1]
    BY DEF EditInit, Unprotected
  <2>2. deleted \in BOOLEAN /\ moved \in BOOLEAN
    BY Zenon DEF EditInit
  <2> QED BY <2>1, <2>2
<1>4. NewCall \in CallState
  <2>1. NoArgs \in ArgsState /\ <<>> \in Content /\ Unprotected \in KeptState
    BY DEF ArgsState, Content, KeptState, Unprotected
  <2>2. "new" \in CallPc /\ "none" \in CallAnswer /\ "edit" \in Action
    BY DEF CallPc, CallAnswer, Action
  <2> QED BY <2>1, <2>2 DEF NewCall, CallState
<1>5. CallOK(NewCall)
  <2>1. Rev \in Nat
    BY <1>2 DEF Rev
  <2>2. NewCall.pc = "new" /\ NewCall.answer = "none" /\ NewCall.base = 0
    BY DEF NewCall
  <2> QED BY <2>1, <2>2 DEF CallOK
<1>6. call \in [Call -> CallState] /\ \A c \in Call : CallOK(call[c])
  BY <1>4, <1>5 DEF EditInit
<1> QED
  BY <1>2, <1>3, <1>6 DEF EditIInv

LEMMA EditSteps ==
  EditIInv /\ [EditNext]_editVars => EditIInv'
<1> SUFFICES ASSUME EditIInv, [EditNext]_editVars PROVE EditIInv'
  OBVIOUS
<1>1. CASE \E c \in Call :
         \/ \E a \in Args : Update(c, a)
         \/ GuardUnread(c) \/ GuardHeading(c) \/ GuardRemoval(c)
         \/ Splice(c) \/ SpliceRefused(c) \/ SubmitUpdate(c)
         \/ \E tool \in {"create", "move", "delete", "protect"} : Begin(c, tool)
         \/ \E src \in Source : Create(c, src)
         \/ Move(c) \/ Delete(c)
         \/ \E a \in Action : ReadProtection(c, a)
         \/ \E level \in {0, 1} : SubmitProtect(c, level)
  BY <1>1, UpdateStep, GuardUnreadStep, GuardHeadingStep, GuardRemovalStep, SpliceStep, SpliceRefusedStep,
     SubmitUpdateStep, BeginStep, CreateStep, MoveStep, DeleteStep, ReadProtectionStep, SubmitProtectStep
<1>2. CASE \E i \in 1 .. Width, p \in Piece : OtherEdits(i, p)
  BY <1>2, OtherEditsStep
<1>3. CASE UNCHANGED editVars
  <2>1. revs' = revs /\ deleted' = deleted /\ protection' = protection /\ moved' = moved /\ call' = call
    BY <1>3 DEF editVars
  <2>2. Grown
    BY <2>1, NotGrown
  <2>3. \A c \in Call : CallOK(call[c])'
    <3>1. SUFFICES ASSUME NEW c \in Call PROVE CallOK(call[c])'
      OBVIOUS
    <3>2. PICK x : x = call[c]
      OBVIOUS
    <3>3. CallOK(x)'
      BY <2>2, <3>2, CallIs, CallKept
    <3>4. call'[c] = x
      BY <2>1, <3>2
    <3> QED BY <3>3, <3>4 DEF CallOK
  <2> QED BY <2>1, <2>2, <2>3 DEF EditIInv, Grown, Rev
<1> QED
  BY <1>1, <1>2, <1>3 DEF EditNext

LEMMA EditInvariant ==
  EditSpec => []EditIInv
<1>1. EditInit => EditIInv
  BY EditStarts
<1>2. EditIInv /\ [EditNext]_editVars => EditIInv'
  BY EditSteps
<1> QED
  BY <1>1, <1>2, PTL DEF EditSpec

(* Type correctness of the edits: every revision has one lead, in front,     *)
(* whatever is replaced, appended, prepended or merged (Spliced, Saved).     *)
THEOREM EditTypeCorrect ==
  EditSpec => []EditTypeOK
<1>1. EditIInv => EditTypeOK
  <2> SUFFICES ASSUME EditIInv PROVE EditTypeOK
    OBVIOUS
  <2>1. ASSUME NEW r \in 1 .. Rev
        PROVE  /\ revs[r] # <<>>
               /\ \A i \in 1 .. Len(revs[r]) :
                    revs[r][i] \in Section /\ (revs[r][i].level = 0 <=> i = 1)
    <3>1. PICK d : d = revs[r]
      OBVIOUS
    <3>2. IsPage(d)
      BY <2>1, <3>1, RevsIs
    <3>3. ASSUME NEW i \in 1 .. Len(d) PROVE d[i] \in Section /\ (d[i].level = 0 <=> i = 1)
      <4>1. d \in Content /\ LeadFirst(d) /\ d[1].level = 0 /\ Len(d) \in Nat
        BY <3>2, PageIs
      <4>2. d[i] \in Section
        BY <4>1, SectionOf
      <4>3. i = 1 \/ i \in 2 .. Len(d)
        BY <4>1
      <4>4. i \in 2 .. Len(d) => d[i].level # 0 /\ i # 1
        BY <4>1 DEF LeadFirst
      <4> QED BY <4>1, <4>2, <4>3, <4>4
    <3>4. d # <<>>
      BY <3>2, PageIs
    <3> QED BY <3>1, <3>3, <3>4
  <2>2. ASSUME NEW c \in Call PROVE call[c].base \in 0 .. MaxRevs /\ call[c].kept \in [Action -> 0 .. 1]
    <3>1. call[c].base \in 0 .. Rev
      BY CallIs DEF CallOK
    <3>2. Rev \in Nat /\ Rev <= MaxRevs /\ MaxRevs \in Nat
      BY RevsIs, EditAssumption DEF EditIInv
    <3>3. call[c].kept \in KeptState
      BY CallIs DEF CallState
    <3> QED BY <3>1, <3>2, <3>3 DEF KeptState
  <2> QED BY <2>1, <2>2 DEF EditIInv, EditTypeOK
<1> QED
  BY <1>1, EditInvariant, PTL

(* The step that saves what a call has written is its own request.           *)
LEMMA SubmitEnds ==
  ASSUME NEW c, NEW base, NEW op, NEW src, Submit(c, base, op, src)
  PROVE  \E answer : Ends(c, answer)
BY DEF Submit

LEMMA OthersStay ==
  ASSUME EditIInv, NEW c \in Call, NEW d \in Call, c # d,
         \/ \E a \in Args : Update(d, a)
         \/ GuardUnread(d) \/ GuardHeading(d) \/ GuardRemoval(d)
         \/ Splice(d) \/ SpliceRefused(d) \/ SubmitUpdate(d)
         \/ \E tool \in {"create", "move", "delete", "protect"} : Begin(d, tool)
         \/ \E src \in Source : Create(d, src)
         \/ Move(d) \/ Delete(d)
         \/ \E a \in Action : ReadProtection(d, a)
         \/ \E level \in {0, 1} : SubmitProtect(d, level)
  PROVE  call'[c] = call[c]
<1>1. call \in [Call -> CallState]
  BY CallIs
<1>2. ASSUME NEW answer, Ends(d, answer) PROVE call'[c] = call[c]
  BY <1>1, <1>2 DEF Ends
<1>3. ASSUME NEW pc, NEW next, NEW missing, NEW refuses, Guarded(d, pc, next, missing, refuses)
      PROVE  call'[c] = call[c]
  <2>1. (\E answer : Ends(d, answer)) \/ call' = [call EXCEPT ![d].pc = next]
    BY <1>3 DEF Guarded
  <2> QED BY <1>1, <1>2, <2>1
<1>4. ASSUME NEW a \in Args, Update(d, a) PROVE call'[c] = call[c]
  <2>1. Ends(d, "invalid") \/ \E pc : call' = [call EXCEPT ![d].args = a, ![d].pc = pc]
    BY <1>4 DEF Update
  <2> QED BY <1>1, <1>2, <2>1
<1>5. GuardUnread(d) \/ GuardHeading(d) \/ GuardRemoval(d) => call'[c] = call[c]
  BY <1>3, Zenon DEF GuardUnread, GuardHeading, GuardRemoval
<1>6. ASSUME Splice(d) PROVE call'[c] = call[c]
  <2>1. PICK a : a = call[d].args
    OBVIOUS
  <2>2. PICK at \in Occurrences(Scope(Current, a.section), a.find) :
          call' = [call EXCEPT ![d].pc = "submitSplice", ![d].base = Rev, ![d].read = Rev, ![d].text =
                    [Scope(Current, a.section) EXCEPT ![at[1]].body =
                       SubSeq(@, 1, at[2] - 1) \o a.with \o SubSeq(@, at[2] + 1, Len(@))]]
    BY <1>6, <2>1, Zenon DEF Splice
  <2>3. PICK t : t = [Scope(Current, a.section) EXCEPT ![at[1]].body =
                       SubSeq(@, 1, at[2] - 1) \o a.with \o SubSeq(@, at[2] + 1, Len(@))]
    OBVIOUS
  <2>4. call' = [call EXCEPT ![d].pc = "submitSplice", ![d].base = Rev, ![d].read = Rev, ![d].text = t]
    BY <2>2, <2>3
  <2> QED BY <1>1, <2>4
<1>7. SpliceRefused(d) => call'[c] = call[c]
  BY <1>2 DEF SpliceRefused
<1>8. SubmitUpdate(d) => call'[c] = call[c]
  BY <1>2, SubmitEnds DEF SubmitUpdate
<1>9. ASSUME NEW tool, Begin(d, tool) PROVE call'[c] = call[c]
  BY <1>1, <1>9 DEF Begin
<1>10. ASSUME NEW src, Create(d, src) PROVE call'[c] = call[c]
  BY <1>2, <1>10 DEF Create
<1>11. Move(d) \/ Delete(d) => call'[c] = call[c]
  BY <1>2 DEF Move, Delete
<1>12. ASSUME NEW a, ReadProtection(d, a) PROVE call'[c] = call[c]
  <2>1. \E n, k, pc : call' = [call EXCEPT ![d].pc = pc, ![d].named = n, ![d].kept = k]
    BY <1>12, Zenon DEF ReadProtection
  <2> QED BY <1>1, <2>1
<1>13. ASSUME NEW level, SubmitProtect(d, level) PROVE call'[c] = call[c]
  BY <1>2, <1>13 DEF SubmitProtect
<1> QED
  BY <1>4, <1>5, <1>6, <1>7, <1>8, <1>9, <1>10, <1>11, <1>12, <1>13

LEMMA ReplacesIsSubmit ==
  ASSUME EditIInv, [EditNext]_editVars, NEW c \in Call, Replaces(c)
  PROVE  SubmitUpdate(c)
<1>1. call[c].pc \in {"submit", "submitSplice"} /\ call'[c].answer = "ok"
  BY DEF Replaces
<1>2. call[c].answer = "none"
  BY <1>1, CallIs DEF CallOK
<1>3. call'[c] # call[c]
  BY <1>1, <1>2
<1>4. call' # call /\ ~UNCHANGED editVars
  BY <1>3 DEF editVars
<1>5. PICK d \in Call :
         \/ \E a \in Args : Update(d, a)
         \/ GuardUnread(d) \/ GuardHeading(d) \/ GuardRemoval(d)
         \/ Splice(d) \/ SpliceRefused(d) \/ SubmitUpdate(d)
         \/ \E tool \in {"create", "move", "delete", "protect"} : Begin(d, tool)
         \/ \E src \in Source : Create(d, src)
         \/ Move(d) \/ Delete(d)
         \/ \E a \in Action : ReadProtection(d, a)
         \/ \E level \in {0, 1} : SubmitProtect(d, level)
  <2>1. ~ \E i \in 1 .. Width, p \in Piece : OtherEdits(i, p)
    BY <1>4 DEF OtherEdits
  <2> QED BY <1>4, <2>1 DEF EditNext
<1>6. d = c
  BY <1>3, <1>5, OthersStay
<1>7. ASSUME NEW pc \in {"unread", "heading", "removal"}, NEW next, NEW missing, NEW refuses,
             Guarded(c, pc, next, missing, refuses)
      PROVE  FALSE
  BY <1>1, <1>7 DEF Guarded
<1>8. ~(GuardUnread(c) \/ GuardHeading(c) \/ GuardRemoval(c))
  BY <1>7 DEF GuardUnread, GuardHeading, GuardRemoval
<1>9. ~(Splice(c) \/ SpliceRefused(c) \/ Move(c) \/ Delete(c)) /\ ~(\E a \in Args : Update(c, a))
  <2>1. call[c].pc # "find" /\ call[c].pc # "move" /\ call[c].pc # "delete" /\ call[c].pc # "new"
    BY <1>1
  <2>2. ~Splice(c) /\ ~SpliceRefused(c)
    BY <2>1, Zenon DEF Splice, SpliceRefused
  <2>3. ~Move(c) /\ ~Delete(c) /\ ~ \E a \in Args : Update(c, a)
    BY <2>1, Zenon DEF Move, Delete, Update
  <2> QED BY <2>2, <2>3
<1>10. /\ ~ \E tool \in {"create", "move", "delete", "protect"} : Begin(c, tool)
       /\ ~ \E src \in Source : Create(c, src)
       /\ ~ \E a \in Action : ReadProtection(c, a)
       /\ ~ \E level \in {0, 1} : SubmitProtect(c, level)
  <2>1. call[c].pc # "new" /\ call[c].pc # "create" /\ call[c].pc # "protect" /\ call[c].pc # "submitProtect"
    BY <1>1
  <2> QED BY <2>1, Zenon DEF Begin, Create, ReadProtection, SubmitProtect
<1> QED
  BY <1>5, <1>6, <1>8, <1>9, <1>10

(* The revision a replacing edit is based on, and what it has written there. *)
BaseOf(x) == IF x.args.op = "find-replace" THEN x.read ELSE x.args.latestId

LEMMA ReplacesWrites ==
  ASSUME EditIInv, [EditNext]_editVars, NEW c \in Call, Replaces(c),
         NEW x, x = call[c], BaseOf(x) # 0
  PROVE  /\ BaseOf(x) \in 1 .. Rev
         /\ \E src : /\ IsText(src)
                     /\ Written(x.args.section, BaseOf(x), src)
                     /\ x.args.op = "replace" => src = x.args.source
<1>1. SubmitUpdate(c)
  BY ReplacesIsSubmit
<1>2. CallOK(x) /\ x.pc \in {"submit", "submitSplice"} /\ x.args.op \in {"replace", "find-replace"}
      /\ call'[c].answer = "ok" /\ Rev \in Nat
  BY CallIs, RevsIs DEF Replaces
<1>3. PlanOK(x.args) /\ x.args \in Args /\ x.args.latestId \in 0 .. Rev /\ x.base \in 0 .. Rev
  <2>1. PlanOK(x.args) /\ x.base \in 0 .. Rev
    BY <1>2 DEF CallOK
  <2> QED BY <1>2, <2>1, ArgsIs DEF PlanOK
<1>4. CASE x.pc = "submit"
  <2>1. x.args.op = "replace"
    BY <1>2, <1>4 DEF CallOK
  <2>2. BaseOf(x) = x.args.latestId
    BY <2>1 DEF BaseOf
  <2>3. Written(x.args.section, x.args.latestId, x.args.source)
    BY <1>1, <1>2, <1>4, <2>1, SubmitUpdateStep
  <2>4. IsText(x.args.source)
    BY <1>3, <2>1, ArgsIs
  <2> QED BY <1>2, <1>3, <2>2, <2>3, <2>4
<1>5. CASE x.pc = "submitSplice"
  <2>1. x.args.op = "find-replace" /\ x.read = x.base /\ IsText(x.text)
    BY <1>5, <1>2 DEF CallOK
  <2>2. BaseOf(x) = x.base
    BY <2>1 DEF BaseOf
  <2>3. Written(x.args.section, x.base, x.text)
    BY <1>1, <1>2, <1>5, SubmitUpdateStep
  <2>4. x.args.op # "replace"
    BY <2>1
  <2> QED BY <1>2, <1>3, <2>1, <2>2, <2>3, <2>4
<1> QED
  BY <1>2, <1>4, <1>5

LEMMA WrittenKeeps ==
  ASSUME NEW section, NEW base \in 1 .. Rev, NEW src, IsText(src), Written(section, base, src)
  PROVE  \A s \in Range(Current) \ Range(revs[base]) : \E t \in Range(Last(revs')) : Follows(t, s)
<1>1. PICK from : from = revs[base]
  OBVIOUS
<1>2. PICK now : now = Current
  OBVIOUS
<1>3. At(base) = from /\ IsPage(from) /\ IsPage(now)
  BY <1>1, <1>2 DEF At, Written
<1>4. PICK i \in 1 .. Len(from) : \E j \in i .. Len(from) :
        \E text \in Merges(from, i, j, src, now) : text # <<>> /\ Last(revs') = Saved(text)
  BY <1>2, <1>3 DEF Written
<1>11. PICK j \in i .. Len(from) :
        \E text \in Merges(from, i, j, src, now) : text # <<>> /\ Last(revs') = Saved(text)
  BY <1>4
<1>5. PICK text \in Merges(from, i, j, src, now) : text # <<>> /\ Last(revs') = Saved(text)
  BY <1>11
<1>6. PICK page : page = Saved(text)
  OBVIOUS
<1>7. /\ IsText(text)
      /\ \A x \in 1 .. Len(now) : now[x] \in Range(from) \/ Carries(page, now[x])
  BY <1>3, <1>4, <1>5, <1>6, MergeKeeps
<1>8. IsPage(page) /\ page \in Content /\ now \in Content
  BY <1>3, <1>6, <1>7, SavedPage, PageIs
<1>9. DOMAIN page = 1 .. Len(page) /\ DOMAIN now = 1 .. Len(now)
  BY <1>8 DEF Content
<1>10. ASSUME NEW s \in Range(now), s \notin Range(from) PROVE \E t \in Range(page) : Follows(t, s)
  <2>1. PICK x \in 1 .. Len(now) : s = now[x]
    BY <1>9 DEF Range
  <2>2. Carries(page, s)
    BY <1>7, <1>10, <2>1
  <2>3. PICK y \in 1 .. Len(page) : Follows(page[y], s)
    BY <2>2 DEF Carries
  <2> QED BY <1>9, <2>3 DEF Range
<1> QED
  BY <1>1, <1>2, <1>5, <1>6, <1>10

(* An edit that names its base revision never takes out a section that is    *)
(* not in that revision, whatever others do meanwhile (submitPageEdit).      *)
THEOREM NothingOthersWroteIsLostHolds ==
  EditSpec => NothingOthersWroteIsLost
<1>1. ASSUME EditIInv, [EditNext]_editVars
      PROVE  \A c \in Call :
         LET args == call[c].args
             base == IF args.op = "find-replace" THEN call[c].read ELSE args.latestId
         IN  Replaces(c) /\ base # 0 =>
               \A s \in Range(Current) \ Range(revs[base]) : \E t \in Range(Last(revs')) :
                 t.level = s.level /\ IsPrefix(s.body, t.body)
  <2>1. ASSUME NEW c \in Call, Replaces(c), NEW x, x = call[c], BaseOf(x) # 0
        PROVE  \A s \in Range(Current) \ Range(revs[BaseOf(x)]) : \E t \in Range(Last(revs')) : Follows(t, s)
    BY <1>1, <2>1, ReplacesWrites, WrittenKeeps
  <2> QED BY <2>1 DEF BaseOf, Follows
<1>2. EditIInv /\ [EditNext]_editVars =>
        [\A c \in Call :
         LET args == call[c].args
             base == IF args.op = "find-replace" THEN call[c].read ELSE args.latestId
         IN  Replaces(c) /\ base # 0 =>
               \A s \in Range(Current) \ Range(revs[base]) : \E t \in Range(Last(revs')) :
                 t.level = s.level /\ IsPrefix(s.body, t.body)]_editVars
  BY <1>1
<1> QED
  BY <1>2, EditInvariant, PTL DEF EditSpec, NothingOthersWroteIsLost

(* Two sets of places are as many if they agree up to k, and behind e the one *)
(* is the other moved on by d.                                               *)
LEMMA AsMany ==
  ASSUME NEW n \in Nat, NEW S \in SUBSET (1 .. n), NEW T \in SUBSET Nat,
         NEW k \in Nat, NEW e \in Nat, NEW d \in Int, k <= e, k <= e + d,
         \A x \in S : x <= k \/ x > e, \A y \in T : y <= k \/ y > e + d,
         \A x \in Nat : x <= k => (x \in S <=> x \in T),
         \A x \in Nat : x > e => (x \in S <=> x + d \in T)
  PROVE  Cardinality(S) = Cardinality(T)
<1> DEFINE f == [x \in S |-> IF x <= k THEN x ELSE x + d]
<1>1. S \subseteq Nat
  OBVIOUS
<1>2. f \in [S -> T]
  BY <1>1
<1>3. \A a, b \in S : f[a] = f[b] => a = b
  BY <1>1
<1>4. ASSUME NEW t \in T PROVE \E s \in S : f[s] = t
  <2>1. CASE t <= k
    BY <2>1
  <2>2. CASE ~(t <= k)
    <3>1. t > e + d /\ t \in Nat
      BY <2>2
    <3>2. t - d \in Nat /\ t - d > e /\ (t - d) + d = t /\ ~(t - d <= k)
      BY <3>1
    <3>3. t - d \in S
      BY <3>2
    <3> QED BY <3>2, <3>3
  <2> QED BY <2>1, <2>2
<1> HIDE DEF f
<1>5. f \in Bijection(S, T)
  BY <1>2, <1>3, <1>4, Fun_IsBij
<1>6. ExistsBijection(S, T)
  BY <1>5, Fun_ExistsBij
<1>7. IsFiniteSet(S)
  <2>1. IsFiniteSet(1 .. n)
    BY FS_Interval
  <2> QED BY <2>1, FS_Subset
<1> QED
  BY <1>6, <1>7, FS_Bijection

LevelsAt(c) == \A x \in 1 .. Len(c) : c[x].level \in Nat

LEMMA LevelsAre ==
  ASSUME NEW c \in Content
  PROVE  LevelsAt(c)
<1>1. \A x \in 1 .. Len(c) : c[x].level \in Level
  BY SectionOf
<1> QED
  BY <1>1 DEF LevelsAt, Level

(* What the guards found of sections i to j and of what is to stand there.   *)
Fits(from, i, j, L, src) ==
    /\ i \in 2 .. Len(from) /\ j \in i .. Len(from)
    /\ L \in Nat /\ L > 0 /\ from[i].level = L
    /\ \A x \in i + 1 .. j : from[x].level > L
    /\ src[1].level = L
    /\ \A x \in 2 .. Len(src) : src[x].level > L

LEMMA GuardsFound ==
  ASSUME NEW a, IsText(a.source), NEW from, IsPage(from), from = Judged(a),
         a.op = "replace", a.section \in Int, a.section > 0, ~a.prune, HasSection(from, a.section),
         HeadingJudged(a), RemovalJudged(a),
         NEW i, i = a.section + 1, NEW j, j = SubtreeEnd(from, i)
  PROVE  /\ Fits(from, i, j, from[i].level, a.source)
         /\ ~Veiled(from, i) => Len(a.source) >= j - i + 1
<1> DEFINE L == from[i].level
<1>1. from \in Content /\ LeadFirst(from) /\ Len(from) \in Nat /\ LevelsAt(from)
  BY PageIs, LevelsAre
<1>2. i \in 1 .. Len(from) /\ i \in 2 .. Len(from)
  BY <1>1 DEF HasSection
<1>3. L \in Nat /\ L # 0 /\ L > 0
  BY <1>1, <1>2 DEF LevelsAt, LeadFirst
<1>4. j \in i .. Len(from) /\ \A x \in i + 1 .. j : from[x].level > L
  BY <1>1, <1>2, <1>3, SubtreeEndIs
<1>5. PICK src : src = a.source
  OBVIOUS
<1>6. IsText(src) /\ src \in Content /\ LevelsAt(src) /\ Len(src) \in Nat /\ Len(src) # 0
  <2>1. src \in Content /\ src # <<>>
    BY <1>5 DEF IsText
  <2>2. Len(src) \in Nat /\ Len(src) # 0
    BY <2>1 DEF Content
  <2> QED BY <1>5, <2>1, <2>2, LevelsAre
<1>7. src[1].level = L /\ ~ \E x \in 2 .. Len(src) : src[x].level <= L
  BY <1>5 DEF HeadingJudged, HeadingRefuses
<1>8. \A x \in 2 .. Len(src) : src[x].level > L
  <2>1. ASSUME NEW x \in 2 .. Len(src) PROVE src[x].level > L
    <3>1. x \in 1 .. Len(src)
      BY <1>6
    <3>2. src[x].level \in Nat /\ ~(src[x].level <= L)
      BY <1>6, <1>7, <3>1 DEF LevelsAt
    <3> QED BY <1>3, <3>2
  <2> QED BY <2>1
<1>9. ~Veiled(from, i) => Len(src) >= j - i + 1
  <2> SUFFICES ASSUME ~Veiled(from, i) PROVE Len(src) >= j - i + 1
    OBVIOUS
  <2> DEFINE deep == {x \in 1 .. Len(src) : src[x].level > L}
  <2>1. ~(Cardinality(deep) < j - i)
    <3>1. Children(from, i) = i + 1 .. j
      <4>1. \A h \in i .. j - 1 : ~Closes(from, i, h)
        BY DEF Veiled
      <4>2. \A x \in i + 1 .. j : \A h \in i .. x - 1 : h \in i .. j - 1
        BY <1>2, <1>4
      <4> QED BY <4>1, <4>2 DEF Children
    <3>2. ~RemovalRefuses(a)
      BY DEF RemovalJudged
    <3>3. Judged(a) = from /\ Judged(a)[a.section + 1].level = L /\ a.source = src
      BY <1>5
    <3>4. deep = {x \in 1 .. Len(a.source) : a.source[x].level > Judged(a)[a.section + 1].level}
      BY <3>3
    <3>5. Cardinality(Children(Judged(a), a.section + 1)) = j - i
      <4>1. Cardinality(i + 1 .. j) = IF i + 1 > j THEN 0 ELSE j - (i + 1) + 1
        <5>1. i + 1 \in Int /\ j \in Int
          BY <1>1, <1>2, <1>4
        <5> QED BY <5>1, FS_Interval, Zenon
      <4>2. Cardinality(i + 1 .. j) = j - i
        BY <1>1, <1>2, <1>4, <4>1
      <4> QED BY <3>1, <3>3, <4>2
    <3>6. ~(/\ a.section > 0 /\ ~a.prune /\ HasSection(Judged(a), a.section)
            /\ Cardinality({x \in 1 .. Len(a.source) : a.source[x].level > Judged(a)[a.section + 1].level})
                 < Cardinality(Children(Judged(a), a.section + 1)))
      BY <3>2, Zenon DEF RemovalRefuses
    <3> HIDE DEF deep
    <3>7. HasSection(Judged(a), a.section)
      BY <3>3
    <3> QED BY <3>4, <3>5, <3>6, <3>7, Zenon
  <2>2. deep = 2 .. Len(src)
    <3>1. ~(L > L)
      BY <1>3
    <3>2. \A x \in 1 .. Len(src) : x = 1 \/ x \in 2 .. Len(src)
      BY <1>6
    <3>3. \A x \in 2 .. Len(src) : x \in 1 .. Len(src) /\ x # 1
      BY <1>6
    <3>4. ~(src[1].level > L)
      BY <1>7, <3>1
    <3> QED BY <1>8, <3>2, <3>3, <3>4
  <2>3. Cardinality(2 .. Len(src)) = Len(src) - 1
    <3>1. Cardinality(2 .. Len(src)) = IF 2 > Len(src) THEN 0 ELSE Len(src) - 2 + 1
      <4>1. 2 \in Int /\ Len(src) \in Int
        BY <1>6
      <4> QED BY <4>1, FS_Interval, Zenon
    <3> QED BY <1>6, <3>1
  <2> HIDE DEF deep
  <2>4. i \in Int /\ j \in Int
    BY <1>1, <1>2, <1>4
  <2> QED BY <1>6, <2>1, <2>2, <2>3, <2>4
<1> QED
  <2>1. Fits(from, i, j, L, src)
    BY <1>2, <1>3, <1>4, <1>7, <1>8 DEF Fits
  <2> QED BY <1>5, <1>9, <2>1

(* Where the text goes, the page has what the section had; so its headings   *)
(* of that level and above stay as many, moved on by what the text adds.     *)
OuterOf(c, L) == {x \in 1 .. Len(c) : c[x].level <= L}

LEMMA OutlineStays ==
  ASSUME NEW from, IsPage(from), NEW now, IsPage(now), NEW src, IsText(src),
         NEW i \in 2 .. Len(from), NEW j \in i .. Len(from), NEW L \in Nat, Fits(from, i, j, L, src),
         NEW text \in Merges(from, i, j, src, now), text # <<>>
  PROVE  /\ Len(src) >= j - i + 1 => Len(Saved(text)) >= Len(now)
         /\ Cardinality(OuterOf(Saved(text), L)) = Cardinality(OuterOf(now, L))
<1>0. /\ L > 0 /\ from[i].level = L
      /\ \A x \in i + 1 .. j : from[x].level > L
      /\ src[1].level = L /\ (\A x \in 2 .. Len(src) : src[x].level > L)
  BY DEF Fits
<1>1. /\ from \in Content /\ Len(from) \in Nat /\ i \in 1 .. Len(from)
      /\ i \in Nat /\ j \in Nat /\ i <= j /\ j - i \in Nat
  <2>1. from \in Content /\ Len(from) \in Nat
    BY PageIs
  <2> QED BY <1>0, <2>1
<1>2. now \in Content /\ LeadFirst(now) /\ now[1].level = 0 /\ Len(now) \in Nat /\ LevelsAt(now)
  BY PageIs, LevelsAre
<1>3. src \in Content /\ src # <<>> /\ Len(src) \in Nat /\ Len(src) >= 1 /\ LevelsAt(src)
  <2>1. src \in Content /\ src # <<>>
    BY DEF IsText
  <2>2. Len(src) \in Nat /\ Len(src) >= 1
    BY <2>1 DEF Content
  <2> QED BY <2>1, <2>2, LevelsAre
<1>4. PICK k \in Nat \ {0} : WrittenAt(k, from, i, j, src, now, text)
  BY <1>1, <1>2, MergesAt
<1>5. PICK m : m = k + (j - i)
  OBVIOUS
<1>6. /\ m \in Nat /\ k <= m /\ m <= Len(now) /\ m - k = j - i /\ k \in Nat /\ k # 0
      /\ text = Spliced(now, k, m, src)
      /\ \A x \in k .. m : now[x] = from[i + (x - k)] /\ i + (x - k) \in i .. j
  BY <1>1, <1>4, <1>5 DEF WrittenAt
<1>7. now[k].level = L
  <2>1. k \in k .. m /\ i + (k - k) = i
    BY <1>1, <1>6
  <2>2. now[k] = from[i]
    BY <1>6, <2>1
  <2> QED BY <1>0, <2>2
<1>8. ASSUME NEW x \in k + 1 .. m PROVE now[x].level > L
  <2>1. x \in k .. m /\ i + (x - k) \in i + 1 .. j
    BY <1>1, <1>6
  <2> QED BY <1>0, <1>6, <2>1
<1>9. k >= 2
  <2>1. k # 1
    BY <1>0, <1>2, <1>7
  <2> QED BY <1>6, <2>1
<1> DEFINE pre0  == SubSeq(now, 1, k - 1)
           post0 == SubSeq(now, m + 1, Len(now))
<1>10. PICK pre : pre = pre0
  OBVIOUS
<1>11. PICK post : post = post0
  OBVIOUS
<1>12. /\ text = Join(pre, src) \o post
       /\ pre \in Content /\ Len(pre) = k - 1 /\ \A x \in 1 .. k - 1 : pre[x] = now[x]
       /\ post \in Content /\ Len(post) = Len(now) - m /\ \A x \in 1 .. Len(now) - m : post[x] = now[m + x]
  <2>1. /\ Spliced(now, k, m, src) = Join(pre0, src) \o post0
        /\ pre0 \in Content /\ Len(pre0) = k - 1 /\ \A x \in 1 .. k - 1 : pre0[x] = now[x]
        /\ post0 \in Content /\ Len(post0) = Len(now) - m /\ \A x \in 1 .. Len(now) - m : post0[x] = now[m + x]
    BY <1>2, <1>6, SplicedIs
  <2> QED BY <1>6, <1>10, <1>11, <2>1, Zenon
<1>13. Join(pre, src) = pre \o src
  <2>1. src[1].level # 0
    BY <1>0
  <2> QED BY <1>3, <1>12, <2>1, JoinIs
<1>14. PICK front : front = pre \o src
  OBVIOUS
<1>15. /\ front \in Content /\ Len(front) = (k - 1) + Len(src)
       /\ \A x \in 1 .. k - 1 : front[x] = now[x]
       /\ \A x \in 1 .. Len(src) : front[(k - 1) + x] = src[x]
  <2>1. /\ front \in Content /\ Len(front) = Len(pre) + Len(src)
        /\ \A x \in 1 .. Len(pre) : front[x] = pre[x]
        /\ \A x \in 1 .. Len(src) : front[Len(pre) + x] = src[x]
    BY <1>3, <1>12, <1>14, ConcatIs
  <2> QED BY <1>12, <2>1
<1>16. /\ text \in Content /\ Len(text) = Len(front) + Len(post)
       /\ \A x \in 1 .. Len(front) : text[x] = front[x]
       /\ \A x \in 1 .. Len(post) : text[Len(front) + x] = post[x]
  <2>1. text = front \o post
    BY <1>12, <1>13, <1>14
  <2>2. /\ front \o post \in Content /\ Len(front \o post) = Len(front) + Len(post)
        /\ \A x \in 1 .. Len(front) : (front \o post)[x] = front[x]
        /\ \A x \in 1 .. Len(post) : (front \o post)[Len(front) + x] = post[x]
    BY <1>12, <1>15, ConcatIs
  <2> QED BY <2>1, <2>2
<1>17. PICK d : d = Len(src) - (m - k + 1)
  OBVIOUS
<1>18. /\ d \in Int /\ m + d = (k - 1) + Len(src) /\ Len(front) = m + d /\ Len(text) = Len(now) + d
       /\ m + d \in Nat /\ k <= m + d
       /\ Len(front) \in Nat /\ Len(text) \in Nat
       /\ Len(src) >= j - i + 1 => Len(text) >= Len(now)
  <2>1. /\ k \in Nat /\ m \in Nat /\ k <= m /\ m - k = j - i /\ j - i \in Nat /\ m <= Len(now)
        /\ Len(now) \in Nat /\ Len(src) \in Nat /\ k >= 2
    BY <1>1, <1>2, <1>3, <1>6, <1>9
  <2>2. Len(front) = (k - 1) + Len(src) /\ Len(post) = Len(now) - m /\ Len(text) = Len(front) + Len(post)
    BY <1>12, <1>15, <1>16
  <2>3. i \in Int /\ j \in Int /\ Len(src) >= 1
    BY <1>1, <1>3
  <2>4. /\ d \in Int /\ m + d = (k - 1) + Len(src) /\ k <= m + d
        /\ Len(src) >= j - i + 1 => d \in Nat
    <3>1. PICK n : n = Len(src)
      OBVIOUS
    <3>2. n \in Nat /\ n >= 1 /\ d = n - (m - k + 1) /\ k \in Nat /\ m \in Nat
      BY <1>17, <2>1, <2>3, <3>1
    <3>3. d \in Int /\ m + d = (k - 1) + n /\ k <= m + d /\ (n >= m - k + 1 => d \in Nat)
      BY <3>2
    <3>4. m - k + 1 = j - i + 1
      BY <2>1
    <3> QED BY <3>1, <3>3, <3>4
  <2>5. Len(front) = m + d
    BY <2>2, <2>4
  <2>6. Len(text) = (m + d) + (Len(now) - m)
    BY <2>2, <2>5
  <2>7. /\ (m + d) + (Len(now) - m) = Len(now) + d /\ m + d \in Nat /\ Len(now) + d \in Nat
        /\ d \in Nat => Len(now) + d >= Len(now)
    BY <2>1, <2>4
  <2> QED BY <2>4, <2>5, <2>6, <2>7
<1>19. ASSUME NEW x \in 1 .. k - 1 PROVE x \in 1 .. Len(text) /\ x \in 1 .. Len(now) /\ text[x] = now[x]
  <2>1. x \in 1 .. Len(front) /\ x \in 1 .. Len(text) /\ x \in 1 .. Len(now)
    <3>1. Len(front) = m + d /\ Len(text) = Len(now) + d /\ m \in Nat /\ d \in Int /\ k \in Nat
          /\ k <= m /\ k <= m + d /\ m <= Len(now) /\ Len(now) \in Nat
      BY <1>2, <1>6, <1>18
    <3>2. x \in 1 .. m + d /\ x \in 1 .. Len(now) + d /\ x \in 1 .. Len(now)
      BY <3>1
    <3> QED BY <3>1, <3>2
  <2> QED BY <1>15, <1>16, <2>1
<1>20. ASSUME NEW x \in k .. m + d PROVE x \in 1 .. Len(text) /\ x - k + 1 \in 1 .. Len(src) /\ text[x] = src[x - k + 1]
  <2>1. x - k + 1 \in 1 .. Len(src) /\ (k - 1) + (x - k + 1) = x /\ x \in 1 .. Len(front) /\ x \in 1 .. Len(text)
    BY <1>2, <1>3, <1>6, <1>18
  <2> QED BY <1>15, <1>16, <2>1
<1>21. ASSUME NEW x \in m + 1 .. Len(now) PROVE x + d \in 1 .. Len(text) /\ text[x + d] = now[x]
  <2>1. x - m \in 1 .. Len(post) /\ x - m \in 1 .. Len(now) - m /\ m + (x - m) = x
        /\ Len(front) + (x - m) = x + d /\ x + d \in 1 .. Len(text)
    <3>1. Len(post) = Len(now) - m /\ Len(front) = m + d /\ Len(text) = Len(now) + d
      BY <1>12, <1>18
    <3>2. m \in Nat /\ d \in Int /\ m + d \in Nat /\ Len(now) \in Nat /\ x \in Nat /\ x >= m + 1 /\ x <= Len(now)
      BY <1>2, <1>6, <1>18
    <3>3. x - m \in 1 .. Len(now) - m /\ m + (x - m) = x /\ (m + d) + (x - m) = x + d /\ x + d \in 1 .. Len(now) + d
      BY <3>2
    <3> QED BY <3>1, <3>3
  <2>2. post[x - m] = now[x]
    BY <1>12, <2>1
  <2> QED BY <1>16, <2>1, <2>2
<1>22. Saved(text) = text
  <2>1. text[1].level = 0
    <3>1. 1 \in 1 .. k - 1
      BY <1>6, <1>9
    <3> QED BY <1>2, <1>19, <3>1
  <2>2. IsText(text)
    BY <1>1, <1>0, MergeKeeps
  <2> QED BY <2>1, <2>2, SavedPage
<1> DEFINE S == {x \in 1 .. Len(now) : now[x].level <= L}
           T == {x \in 1 .. Len(text) : text[x].level <= L}
<1>23. text[k].level = L /\ k \in 1 .. Len(text) /\ k \in 1 .. Len(now)
  <2>1. k \in k .. m + d /\ k - k + 1 = 1 /\ k \in 1 .. Len(now)
    BY <1>2, <1>6, <1>18
  <2> QED BY <1>0, <1>20, <2>1
<1>24. \A x \in S : x <= k \/ x > m
  <2>1. SUFFICES ASSUME NEW x \in S, ~(x <= k \/ x > m) PROVE FALSE
    OBVIOUS
  <2>2. x \in k + 1 .. m /\ x \in 1 .. Len(now) /\ now[x].level <= L
    BY <1>2, <1>6, <2>1
  <2>3. now[x].level \in Nat /\ now[x].level > L
    BY <1>2, <1>8, <2>2 DEF LevelsAt
  <2>4. L \in Nat /\ now[x].level <= L
    BY <2>2
  <2> QED BY <2>3, <2>4
<1>25. \A y \in T : y <= k \/ y > m + d
  <2>1. SUFFICES ASSUME NEW y \in T, ~(y <= k \/ y > m + d) PROVE FALSE
    OBVIOUS
  <2>2. y \in k .. m + d /\ y - k + 1 \in 2 .. Len(src) /\ text[y].level <= L
    <3>1. y \in 1 .. Len(text) /\ text[y].level <= L /\ y > k /\ y <= m + d
      <4>1. y \in 1 .. Len(text) /\ text[y].level <= L /\ ~(y <= k) /\ ~(y > m + d)
        BY <2>1
      <4>2. k \in Nat /\ m + d \in Nat
        BY <1>6, <1>18
      <4> QED BY <4>1, <4>2
    <3>2. k \in Nat /\ m + d = (k - 1) + Len(src) /\ Len(src) \in Nat /\ y \in Nat /\ m + d \in Nat
      BY <1>3, <1>6, <1>18, <3>1
    <3> QED BY <3>1, <3>2
  <2>3. text[y] = src[y - k + 1] /\ y - k + 1 \in 1 .. Len(src)
    BY <1>20, <2>2
  <2>4. src[y - k + 1].level > L /\ src[y - k + 1].level \in Nat
    BY <1>0, <1>3, <2>2, <2>3 DEF LevelsAt
  <2>5. src[y - k + 1].level <= L
    BY <2>2, <2>3
  <2> QED BY <2>4, <2>5
<1>26. \A x \in Nat : x <= k => (x \in S <=> x \in T)
  <2>1. SUFFICES ASSUME NEW x \in Nat, x <= k PROVE x \in S <=> x \in T
    OBVIOUS
  <2>2. x = 0 \/ x = k \/ x \in 1 .. k - 1
    BY <1>6, <2>1
  <2>3. x = 0 => x \notin S /\ x \notin T
    OBVIOUS
  <2>4. x = k => x \in S /\ x \in T
    <3>1. L <= L
      OBVIOUS
    <3> QED BY <1>7, <1>23, <3>1
  <2>5. x \in 1 .. k - 1 => (x \in S <=> x \in T)
    BY <1>19
  <2> QED BY <2>2, <2>3, <2>4, <2>5
<1>27. \A x \in Nat : x > m => (x \in S <=> x + d \in T)
  <2>1. SUFFICES ASSUME NEW x \in Nat, x > m PROVE x \in S <=> x + d \in T
    OBVIOUS
  <2>2. CASE x <= Len(now)
    <3>1. x \in m + 1 .. Len(now) /\ x \in 1 .. Len(now)
      BY <1>2, <1>6, <2>1, <2>2
    <3>2. x + d \in 1 .. Len(text) /\ text[x + d] = now[x]
      BY <1>21, <3>1
    <3> QED BY <3>1, <3>2
  <2>3. CASE ~(x <= Len(now))
    <3>1. x \notin 1 .. Len(now) /\ x + d \notin 1 .. Len(text)
      BY <1>2, <1>18, <2>3
    <3> QED BY <3>1
  <2> QED BY <2>2, <2>3
<1>28. S \in SUBSET (1 .. Len(now)) /\ T \in SUBSET Nat
  OBVIOUS
<1> HIDE DEF S, T
<1>29. Cardinality(S) = Cardinality(T)
  BY <1>2, <1>6, <1>18, <1>24, <1>25, <1>26, <1>27, <1>28, AsMany
<1> QED
  BY <1>18, <1>22, <1>29 DEF S, T, OuterOf

LEMMA OutlineStep ==
  ASSUME EditIInv, [EditNext]_editVars, NEW c \in Call, Replaces(c), NEW x, x = call[c],
         x.args.op = "replace", x.args.section > 0, ~x.args.prune
  PROVE  LET outer(page) == {i \in 1 .. Len(page) :
                               page[i].level <= revs[x.args.latestId][x.args.section + 1].level}
         IN  /\ \/ Veiled(revs[x.args.latestId], x.args.section + 1)
                \/ Len(Last(revs')) >= Len(Current)
             /\ Cardinality(outer(Last(revs'))) = Cardinality(outer(Current))
<1>1. PICK a : a = x.args
  OBVIOUS
<1>2. CallOK(x) /\ x.pc \in {"submit", "submitSplice"}
  BY CallIs DEF Replaces
<1>3. x.pc = "submit" /\ PlanOK(a) /\ HeadingJudged(a) /\ RemovalJudged(a)
  BY <1>1, <1>2 DEF CallOK
<1>4. a \in Args /\ a.section \in Int /\ a.section > 0 /\ a.op = "replace" /\ ~a.prune /\ IsText(a.source)
  BY <1>1, <1>3, ArgsIs DEF PlanOK
<1>5. a.latestId \in 1 .. Rev
  BY <1>3, <1>4, PlanIs
<1>6. BaseOf(x) = a.latestId /\ BaseOf(x) # 0
  BY <1>1, <1>4, <1>5 DEF BaseOf
<1>7. Written(a.section, a.latestId, a.source)
  BY <1>1, <1>4, <1>6, ReplacesWrites
<1>8. PICK from : from = revs[a.latestId]
  OBVIOUS
<1>9. PICK now : now = Current
  OBVIOUS
<1>10. At(a.latestId) = from /\ Judged(a) = from
  BY <1>5, <1>8 DEF At, Judged
<1>11. /\ IsPage(from) /\ IsPage(now) /\ HasSection(from, a.section)
       /\ \E i \in 1 .. Len(from) : \E j \in i .. Len(from) :
            /\ Target(from, a.section, i, j)
            /\ \E text \in Merges(from, i, j, a.source, now) : text # <<>> /\ Last(revs') = Saved(text)
  <2>1. a.section # -1
    BY <1>4
  <2> QED BY <1>7, <1>9, <1>10, <2>1 DEF Written
<1>12. PICK i \in 1 .. Len(from) : \E j \in i .. Len(from) :
            /\ Target(from, a.section, i, j)
            /\ \E text \in Merges(from, i, j, a.source, now) : text # <<>> /\ Last(revs') = Saved(text)
  BY <1>11
<1>13. PICK j \in i .. Len(from) :
            /\ Target(from, a.section, i, j)
            /\ \E text \in Merges(from, i, j, a.source, now) : text # <<>> /\ Last(revs') = Saved(text)
  BY <1>12
<1>14. PICK text \in Merges(from, i, j, a.source, now) : text # <<>> /\ Last(revs') = Saved(text)
  BY <1>13
<1>15. i = a.section + 1 /\ j = SubtreeEnd(from, i)
  BY <1>4, <1>13 DEF Target
<1>16. PICK src : src = a.source
  OBVIOUS
<1>17. PICK L : L = from[i].level
  OBVIOUS
<1>18. Fits(from, i, j, L, src) /\ (~Veiled(from, i) => Len(src) >= j - i + 1)
  <2>1. IsText(a.source) /\ IsPage(from) /\ from = Judged(a) /\ a.op = "replace" /\ a.section \in Int
        /\ a.section > 0 /\ ~a.prune /\ HasSection(from, a.section) /\ HeadingJudged(a) /\ RemovalJudged(a)
        /\ i = a.section + 1 /\ j = SubtreeEnd(from, i)
    BY <1>3, <1>4, <1>10, <1>11, <1>15
  <2>2. /\ Fits(from, i, j, from[i].level, a.source)
        /\ ~Veiled(from, i) => Len(a.source) >= j - i + 1
    BY <2>1, GuardsFound
  <2> QED BY <1>16, <1>17, <2>2, Zenon
<1>19. /\ Len(src) >= j - i + 1 => Len(Saved(text)) >= Len(now)
       /\ Cardinality(OuterOf(Saved(text), L)) = Cardinality(OuterOf(now, L))
  <2>1. IsPage(from) /\ IsPage(now) /\ IsText(src)
    BY <1>4, <1>11, <1>16
  <2>2. text \in Merges(from, i, j, src, now) /\ text # <<>>
    BY <1>14, <1>16
  <2>3. i \in 2 .. Len(from) /\ j \in i .. Len(from) /\ L \in Nat
    BY <1>18 DEF Fits
  <2> QED BY <1>18, <2>1, <2>2, <2>3, OutlineStays
<1>20. revs[x.args.latestId][x.args.section + 1].level = L
  BY <1>1, <1>8, <1>15, <1>17
<1> QED
  BY <1>1, <1>8, <1>9, <1>14, <1>15, <1>18, <1>19, <1>20 DEF OuterOf

(* A replacement without leave to prune leaves the headings of the section's *)
(* level and above as many as they are when it is saved, and no fewer        *)
(* headings in all unless a transcluded heading veils a subsection           *)
(* (sectionHeadingError, subsectionRemovalError, childrenOf).                *)
THEOREM OutlineKeptHolds ==
  EditSpec => OutlineKept
<1>1. EditIInv /\ [EditNext]_editVars =>
        [\A c \in Call :
         LET args == call[c].args
             outer(page) == {i \in 1 .. Len(page) :
                               page[i].level <= revs[args.latestId][args.section + 1].level}
         IN  Replaces(c) /\ args.op = "replace" /\ args.section > 0 /\ ~args.prune =>
               /\ \/ Veiled(revs[args.latestId], args.section + 1)
                  \/ Len(Last(revs')) >= Len(Current)
               /\ Cardinality(outer(Last(revs'))) = Cardinality(outer(Current))]_editVars
  BY OutlineStep
<1> QED
  BY <1>1, EditInvariant, PTL DEF EditSpec, OutlineKept
=============================================================================
