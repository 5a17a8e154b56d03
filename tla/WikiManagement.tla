---------------------------- MODULE WikiManagement ----------------------------
(***************************************************************************)
(* Adding and removing wikis while calls, sign-ins and probes are under    *)
(* way: the registry and the per-wiki caches of WikiCaches, and the set of *)
(* tools the one server instance of a stdio connection offers, which       *)
(* reconcileTools recomputes after every change.  A pass of it awaits one  *)
(* probe per registered wiki and applies, when all have answered, what it  *)
(* read of the registry when it started; passes may overlap.               *)
(***************************************************************************)
EXTENDS WikiCaches, Sequences

CONSTANTS
    Initial,       \* the keys configured at the start
    Default,       \* the configured default wiki, not always one of them
    MaxGen,        \* bound: registrations of one key
    MaxReconciles  \* bound: passes of reconcileTools awaiting probes at a time

ASSUME ManagementAssumption ==
    /\ Initial \subseteq Key /\ Initial # {}
    /\ MaxGen \in Nat \ {0}
    /\ MaxReconciles \in Nat \ {0}

VARIABLES
    running,  \* the passes of reconcileTools in progress, oldest first
    offered,  \* the tools the connection offers
    locked    \* history: every wiki was read-only at the start, and the
              \* registry has never been empty since

vars == <<registry, conn, probe, running, offered, locked>>

(* What a pass read when it started, the keys whose answers it awaits, and  *)
(* whether a wiki that answered has the extension.                          *)
Pass == [several: BOOLEAN, writable: BOOLEAN, ext: BOOLEAN, awaits: SUBSET Key]

(* serving: the first pass is done and the connection is open; several:     *)
(* list-wikis and remove-wiki; write: the write tools; ext: the tools of an *)
(* extension pack.                                                          *)
Tools == [serving: BOOLEAN, several: BOOLEAN, write: BOOLEAN, ext: BOOLEAN]
Unbuilt == [serving |-> FALSE, several |-> TRUE, write |-> TRUE, ext |-> FALSE]
ToolsOf(r) == [serving |-> TRUE, several |-> r.several, write |-> r.writable, ext |-> r.ext]

TypeOK ==
    /\ CachesTypeOK
    /\ running \in Seq(Pass)
    /\ offered \in Tools
    /\ locked \in BOOLEAN

-----------------------------------------------------------------------------
(* reconcileTools, the turn it starts in.  It counts the wikis, evaluates   *)
(* the read-only rule and asks every registered wiki's probe.               *)
Several(reg) == \E j, k \in Key : j # k /\ reg[j].present /\ reg[k].present
Writable(reg) == \E k \in Key : reg[k].present /\ ~reg[k].readOnly

PassOver(reg, prb) ==
    [several  |-> Several(reg),
     writable |-> Writable(reg),
     ext      |-> \E k \in Key : reg[k].present /\ Fresh(prb[k]) /\ prb[k].entry.ext,
     awaits   |-> {k \in Key : reg[k].present /\ ~Fresh(prb[k])}]

AskedConns(reg, cns, prb) ==
    [k \in Key |-> IF reg[k].present THEN AskedConn(reg[k], cns[k], prb[k]) ELSE cns[k]]
AskedProbes(reg, cns, prb) ==
    [k \in Key |-> IF reg[k].present THEN AskedProbe(reg[k], cns[k], prb[k]) ELSE prb[k]]

(* A pass whose answers are all cached applies in the same turn. *)
Reconcile(reg, cns, prb) ==
    LET r == PassOver(reg, prb) IN
    /\ Len(running) < MaxReconciles
    /\ \A k \in Key : reg[k].present => CanAsk(reg[k], cns[k], prb[k])
    /\ registry' = reg
    /\ locked' = (locked /\ \E k \in Key : reg[k].present)
    /\ conn'  = AskedConns(reg, cns, prb)
    /\ probe' = AskedProbes(reg, cns, prb)
    /\ IF r.awaits = {}
       THEN offered' = ToolsOf(r) /\ UNCHANGED running
       ELSE running' = Append(running, r) /\ UNCHANGED offered

(* The passes that wait for k hear its answer; those with no key left apply *)
(* what they computed, in the order they started.                           *)
Heard(r, k, ext) ==
    IF k \in r.awaits THEN [r EXCEPT !.awaits = @ \ {k}, !.ext = @ \/ ext] ELSE r

(* Mutant of Deliver: a failed probe rejects the pass, which never applies. *)
DeliverSuccess(k, reachable, ext) ==
    LET heard == [i \in DOMAIN running |->
                     IF reachable THEN Heard(running[i], k, ext) ELSE running[i]]
        done == SelectSeq(heard, LAMBDA r : r.awaits = {})
    IN  /\ running' = SelectSeq(heard, LAMBDA r : r.awaits # {})
        /\ offered' = IF done = <<>> THEN offered ELSE ToolsOf(done[Len(done)])

Deliver(k, reachable, ext) ==
    LET heard == [i \in DOMAIN running |-> Heard(running[i], k, ext)]
        done == SelectSeq(heard, LAMBDA r : r.awaits = {})
    IN  /\ running' = SelectSeq(heard, LAMBDA r : r.awaits # {})
        /\ offered' = IF done = <<>> THEN offered ELSE ToolsOf(done[Len(done)])

(* The siteinfo of k and its sessions become c and entry; the probe ends. *)
ProbeEnds(k, c, entry) ==
    /\ conn' = [conn EXCEPT ![k] = c]
    /\ probe' = [probe EXCEPT ![k] = [entry |-> entry, flight |-> NoFlight]]
    /\ Deliver(k, entry.reachable, entry.ext)
    /\ UNCHANGED <<registry, locked>>

-----------------------------------------------------------------------------
(* createServer gates the tools before the connection is opened. *)
Init ==
    /\ registry \in [Key -> Configured \cup {Unregistered}]
    /\ \A k \in Key : registry[k].present <=> k \in Initial
    /\ conn = AskedConns(registry, [k \in Key |-> NoConn],
                         [k \in Key |-> [entry |-> NoEntry, flight |-> NoFlight]])
    /\ probe = AskedProbes(registry, [k \in Key |-> NoConn],
                           [k \in Key |-> [entry |-> NoEntry, flight |-> NoFlight]])
    /\ running = <<PassOver(registry, [k \in Key |-> [entry |-> NoEntry, flight |-> NoFlight]])>>
    /\ offered = Unbuilt
    /\ locked = ~Writable(registry)

(* Mutant of Inherited: an added wiki carries no readOnly field. *)
InheritedNever == FALSE

(* An added wiki is read-only when every configured wiki is. *)
Inherited == Registered # {} /\ ~Writable(registry)

(* add-wiki, after it discovered the wiki's key. *)
AddWiki(k) ==
    /\ offered.serving
    /\ ~registry[k].present
    /\ registry[k].gen < MaxGen
    /\ Reconcile([registry EXCEPT ![k] =
                    [present |-> TRUE, gen |-> registry[k].gen + 1, readOnly |-> Inherited,
                     private |-> FALSE, exec |-> FALSE]], conn, probe)

(* remove-wiki, refused for the default wiki and when it is not offered. *)
RemoveWiki(k) ==
    /\ offered.serving /\ offered.several
    /\ registry[k].present
    /\ k # Default
    /\ Reconcile([registry EXCEPT ![k].present = FALSE],
                 [conn EXCEPT ![k] = InvalidatedConn(conn[k])],
                 [probe EXCEPT ![k] = InvalidatedProbe(probe[k])])

(* A call gets the session of the wiki it resolved. *)
UseWiki(k) ==
    /\ offered.serving
    /\ registry[k].present
    /\ CanOpen(conn[k])
    /\ conn' = [conn EXCEPT ![k] = Opened(registry[k], conn[k])]
    /\ UNCHANGED <<registry, probe, running, offered, locked>>

(* A call reads the siteinfo of a wiki, which may have been removed since   *)
(* the call resolved it.                                                    *)
LookUp(k) ==
    /\ offered.serving
    /\ registry[k].gen > 0
    /\ NeedsProbe(probe[k])
    /\ CanAsk(registry[k], conn[k], probe[k])
    /\ IF registry[k].present
       THEN /\ conn'  = [conn EXCEPT ![k] = AskedConn(registry[k], conn[k], probe[k])]
            /\ probe' = [probe EXCEPT ![k] = AskedProbe(registry[k], conn[k], probe[k])]
       ELSE /\ probe' = [probe EXCEPT ![k].entry = FailureEntry(probe[k])]
            /\ UNCHANGED conn
    /\ UNCHANGED <<registry, running, offered, locked>>

(* The hour of a success or the minute of a failure is over. *)
EntryExpires(k) ==
    /\ Fresh(probe[k])
    /\ probe' = [probe EXCEPT ![k].entry.fresh = FALSE]
    /\ UNCHANGED <<registry, conn, running, offered, locked>>

-----------------------------------------------------------------------------
(* Answers.  The wiki answers a probe with its siteinfo, or the request     *)
(* fails or times out.                                                      *)
ProbeSucceeds(k, ext) ==
    /\ probe[k].flight.stage \in {"anonymous", "asking"}
    /\ ProbeEnds(k, conn[k], SuccessEntry(ext, probe[k].flight.gen))

ProbeFails(k) ==
    /\ probe[k].flight.stage \in {"anonymous", "asking"}
    /\ ProbeEnds(k, conn[k], FailureEntry(probe[k]))

(* A wiki that keeps anonymous users from reading is asked again through    *)
(* the session of whatever is registered by then.                           *)
ProbeDenied(k) ==
    /\ probe[k].flight.stage = "anonymous"
    /\ IF registry[k].present
       THEN /\ CanOpen(conn[k])
            /\ conn' = [conn EXCEPT ![k] = Opened(registry[k], conn[k])]
            /\ probe' = [probe EXCEPT ![k].flight =
                            ThroughSession(Opened(registry[k], conn[k]))]
            /\ UNCHANGED <<registry, running, offered, locked>>
       ELSE ProbeEnds(k, conn[k], FailureEntry(probe[k]))

(* The promises in failed reject; a probe that waited for one fails too. *)
SessionsReject(k, failed, secret) ==
    LET c == Rejected(conn[k], failed, secret) IN
    IF probe[k].flight.attempt \in failed
    THEN ProbeEnds(k, c, FailureEntry(probe[k]))
    ELSE /\ conn' = [conn EXCEPT ![k] = c]
         /\ UNCHANGED <<registry, probe, running, offered, locked>>

SecretResolves(k) ==
    /\ conn[k].secret.state = "pending"
    /\ conn' = [conn EXCEPT ![k].secret.state = "ready"]
    /\ UNCHANGED <<registry, probe, running, offered, locked>>

SecretRejects(k) ==
    /\ conn[k].secret.state = "pending"
    /\ SessionsReject(k, AwaitingSecret(conn[k]), NoSecret)

Connecting(k, n) ==
    /\ conn[k].promise[n].state = "pending"
    /\ conn[k].promise[n].secret # 0 => conn[k].secret.state = "ready"

SessionConnects(k, n) ==
    /\ Connecting(k, n)
    /\ conn' = [conn EXCEPT ![k] = Connected(conn[k], n)]
    /\ probe' = IF probe[k].flight.attempt = n
                THEN [probe EXCEPT ![k].flight =
                        [stage |-> "asking", gen |-> conn[k].promise[n].gen,
                         attempt |-> NoAttempt]]
                ELSE probe
    /\ UNCHANGED <<registry, running, offered, locked>>

SessionFails(k, n) ==
    /\ Connecting(k, n)
    /\ SessionsReject(k, {n}, conn[k].secret)

Next ==
    \E k \in Key :
        \/ AddWiki(k) \/ RemoveWiki(k)
        \/ UseWiki(k) \/ LookUp(k) \/ EntryExpires(k)
        \/ \E ext \in BOOLEAN : ProbeSucceeds(k, ext)
        \/ ProbeFails(k) \/ ProbeDenied(k)
        \/ SecretResolves(k) \/ SecretRejects(k)
        \/ \E n \in Attempt : SessionConnects(k, n) \/ SessionFails(k, n)

(* Every await is bounded: a probe by PROBE_TIMEOUT_MS, a session by        *)
(* WIKI_CONNECT_TIMEOUT_MS, a secret command by its own timeout.            *)
Fairness ==
    \A k \in Key :
        /\ WF_vars((\E ext \in BOOLEAN : ProbeSucceeds(k, ext)) \/ ProbeFails(k))
        /\ WF_vars(SecretResolves(k) \/ SecretRejects(k))
        /\ \A n \in Attempt : WF_vars(SessionConnects(k, n) \/ SessionFails(k, n))

Spec == Init /\ [][Next]_vars /\ Fairness

-----------------------------------------------------------------------------
(* Safety.                                                                  *)

(* The session a call is given connects with the configuration that is      *)
(* registered now: get() caches in the turn that reads the configuration,   *)
(* and remove-wiki drops what was cached for the one it removes.            *)
SessionMatchesConfig ==
    \A k \in Key : conn[k].cached # NoAttempt =>
        /\ registry[k].present
        /\ conn[k].promise[conn[k].cached].gen \in {0, registry[k].gen}

(* No call is given a session that has failed: whichever await of create()  *)
(* rejects, the promise leaves the cache with it.                           *)
CachedIsAlive ==
    \A k \in Key : conn[k].cached # NoAttempt =>
        conn[k].promise[conn[k].cached].state # "none"

(* A secret that was resolved for one registration of a key is not used to  *)
(* sign in for another, although it outlives the registration.              *)
SecretStaysHome ==
    \A k \in Key : \A n \in Attempt :
        conn[k].promise[n].secret \in {0, conn[k].promise[n].gen}

(* A probe that goes through the wiki's session waits for one that is       *)
(* still connecting: whatever happens to the cache meanwhile, the promise   *)
(* it holds will settle and end it.                                         *)
ProbeHasSession ==
    \A k \in Key : probe[k].flight.stage = "connecting" =>
        conn[k].promise[probe[k].flight.attempt].state = "pending"

(* add-wiki: a deployment whose wikis are all read-only never gets one that *)
(* can be written to, as long as some wiki stays registered: an added wiki  *)
(* takes the restriction over from those there are.  It ends with the last  *)
(* of them: two overlapping removals can empty the registry when the        *)
(* default wiki is not one of those configured, and a wiki added to an      *)
(* empty registry can be written to.                                        *)
ReadOnlyStays == locked => ~Writable(registry)

(* When no pass is under way, the connection offers list-wikis, remove-wiki *)
(* and the write tools as the registered wikis call for.                    *)
OfferedMatchesRegistry ==
    offered.serving /\ running = <<>> =>
        /\ offered.several = Several(registry)
        /\ offered.write = Writable(registry)

-----------------------------------------------------------------------------
(* Liveness.                                                                *)

(* Every pass applies: add-wiki and remove-wiki answer, and a connection is *)
(* opened, also when no wiki can be reached.                                *)
PassesEnd == running # <<>> ~> running = <<>>
=============================================================================
