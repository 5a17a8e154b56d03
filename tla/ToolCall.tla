------------------------------- MODULE ToolCall -------------------------------
(***************************************************************************)
(* A tool call from its arrival to its answer: how the deployment is       *)
(* checked at start, who the call acts as (resolveCaller, the runtime      *)
(* token, the configured credentials), what the capability guard refuses,  *)
(* and the handler's requests to the wiki under the call's deadline, the   *)
(* caller's cancellation and the retries of the API client.                *)
(*                                                                         *)
(* A wiki may apply a write and answer late or not at all, and a request   *)
(* that was abandoned may still be applied.  The handler is reduced to one *)
(* request and, for a write whose answer tells no result, the reading that *)
(* finds out; what the tools do with theirs is in PageEdits and            *)
(* EntityWrites.  Sessions shared between calls are in WikiCaches, the     *)
(* hosted proxy's tokens in ProxyGrants, the stdio sign-in in StdioTokens. *)
(***************************************************************************)
EXTENDS Naturals, Sequences, FiniteSets

CONSTANTS
    Call,          \* tool calls
    Wiki,          \* configured wikis
    Default,       \* the default wiki, the one the hosted proxy signs in to
    Scene,         \* what is deployed and called: a set of [dep, calls, tools], Init picks one
    MaxAttempts    \* the API client's attempts at a request

Config == [oauth: BOOLEAN, static: BOOLEAN, private: BOOLEAN, readOnly: BOOLEAN]
Deployment == [transport: {"http", "stdio"}, proxy: BOOLEAN, passthrough: BOOLEAN,
               fallback: BOOLEAN, wiki: [Wiki -> Config]]
Tool == {"read", "write", "packRead", "packWrite"}

ASSUME CallAssumption ==
    /\ Default \in Wiki
    /\ MaxAttempts \in Nat \ {0}
    /\ \A s \in Scene : s.dep \in Deployment /\ s.calls \subseteq Call /\ s.tools \subseteq Tool

VARIABLES
    scene,    \* the member of Scene that is played
    server,   \* what checkHttpDeployment said: whether it started, and the stranded wikis
    call,     \* the state of each call
    queue     \* the runs of execSecret.ts, first the one whose command runs

vars == <<scene, server, call, queue>>

dep == scene.dep

Writes(tool) == tool \in {"write", "packWrite"}
Packed(tool) == tool \in {"packRead", "packWrite"}

-----------------------------------------------------------------------------
(* The start of the HTTP transport *)

(* evaluateBearerGuard: static credentials block the start unless shared    *)
(* identity is acknowledged.                                                *)
Blocks(d) == ~d.fallback /\ \E w \in Wiki : d.wiki[w].static

(* Mutant of Stranded: static credentials are taken to save a private default wiki. *)
StrandedSaved(d) ==
    IF d.proxy \/ d.passthrough THEN {}
    ELSE {w \in Wiki : (d.wiki[w].oauth \/ d.wiki[w].private)
                         /\ ~(d.wiki[w].static /\ d.fallback)}

(* The wikis the operator is warned about. *)
Stranded(d) ==
    IF d.proxy \/ d.passthrough THEN {}
    ELSE {w \in Wiki : \/ d.wiki[w].private /\ w = Default
                       \/ /\ d.wiki[w].oauth \/ d.wiki[w].private
                          /\ ~(d.wiki[w].static /\ d.fallback)}

-----------------------------------------------------------------------------
(* Who a call acts as *)

(* Bearers: none, one the hosted proxy resolves, refuses, or asks to retry  *)
(* later, and one the wiki issued to the caller.                            *)
Bearer == {"none", "granted", "unknown", "unavailable", "forwarded"}

EveryWikiNeedsAuth(d) == \A w \in Wiki : d.wiki[w].oauth /\ ~(d.wiki[w].static /\ d.fallback)

(* resolveCaller: the caller's identity, or a refusal. *)
Resolved(d, b) ==
    IF b = "none" /\ d.wiki[Default].private THEN "refused"
    ELSE IF d.proxy
    THEN CASE b = "none" -> "anonymous" [] b = "granted" -> "signedIn" [] OTHER -> "refused"
    ELSE IF ~d.passthrough THEN (IF b = "none" THEN "anonymous" ELSE "refused")
    ELSE IF b # "none" THEN "forwarding"
    ELSE IF EveryWikiNeedsAuth(d) THEN "refused" ELSE "anonymous"

(* Mutant of HasToken: the token is handed out for every wiki. *)
HasTokenAnywhere(who, w) == who # "anonymous"

(* getRuntimeToken: whether a request to w may carry the caller's token. *)
HasToken(who, w) == who \in {"forwarding", "stdio"} \/ (who = "signedIn" /\ w = Default)

(* The session the wiki is asked through (MwnProvider.create). *)
Identity(d, who, w) ==
    IF HasToken(who, w) THEN "caller" ELSE IF d.wiki[w].static THEN "configured" ELSE "nobody"

(* checkWikiCapability up to its await. *)
GuardRefuses(d, who, w, tool) ==
    /\ d.transport = "http"
    /\ IF d.proxy
       THEN Writes(tool) /\ (w # Default \/ ~HasToken(who, w))
       ELSE d.wiki[w].oauth /\ ~d.wiki[w].static /\ ~HasToken(who, w)

(* What is left of it after the pack's probe. *)
ReadOnlyRefuses(d, w, tool) == Writes(tool) /\ d.wiki[w].readOnly

-----------------------------------------------------------------------------
(* One call.  Its answer: a refusal of one of the guards, a failure to sign *)
(* in or connect, what the wiki said, a network failure, the deadline, or   *)
(* nothing when the caller has gone.                                        *)

NewCall == [pc |-> "new", wiki |-> Default, tool |-> "read", who |-> "anonymous", attempt |-> 0,
            transit |-> 0, applied |-> 0, sent |-> FALSE, armed |-> FALSE, expired |-> FALSE,
            cancelled |-> FALSE, blank |-> FALSE, answer |-> "none", caveat |-> FALSE]

Ends(c, answer) == call' = [call EXCEPT ![c].pc = "done", ![c].answer = answer]
Goes(c, pc) == call' = [call EXCEPT ![c].pc = pc]

(* A request arrives; stdio has one caller and no tokens yet. *)
Begin(c, w, tool, b) ==
    /\ server.started /\ c \in scene.calls /\ tool \in scene.tools /\ call[c].pc = "new"
    /\ dep.transport = "stdio" => b = "none"
    /\ LET who == IF dep.transport = "stdio" THEN "anonymous" ELSE Resolved(dep, b) IN
       IF who = "refused"
       THEN Ends(c, "refused")
       ELSE call' = [call EXCEPT ![c] = [NewCall EXCEPT !.pc = "guard", !.wiki = w,
                                                        !.tool = tool, !.who = who]]
    /\ UNCHANGED <<scene, server, queue>>

(* The guard has let the call through: on stdio an OAuth wiki needs a token *)
(* first; otherwise the handler begins, and with it the deadline.           *)
Pass(c) ==
    IF dep.transport = "stdio" /\ dep.wiki[call[c].wiki].oauth
    THEN Goes(c, "signIn")
    ELSE call' = [call EXCEPT ![c].pc = "handle", ![c].armed = TRUE]

Guard(c) ==
    /\ call[c].pc = "guard"
    /\ LET w == call[c].wiki  t == call[c].tool IN
       IF GuardRefuses(dep, call[c].who, w, t) THEN Ends(c, "refused")
       ELSE IF Packed(t) THEN Goes(c, "probe")
       ELSE IF ReadOnlyRefuses(dep, w, t) THEN Ends(c, "refused")
       ELSE Pass(c)
    /\ UNCHANGED <<scene, server, queue>>

(* The wiki's inspection is there: the pack's extension may be missing. *)
Probed(c) ==
    /\ call[c].pc = "probe"
    /\ \/ Ends(c, "refused")
       \/ IF ReadOnlyRefuses(dep, call[c].wiki, call[c].tool) THEN Ends(c, "refused") ELSE Pass(c)
    /\ UNCHANGED <<scene, server, queue>>

(* The stdio sign-in settles; the token is scoped to the wiki it is for. *)
SignedIn(c) ==
    /\ call[c].pc = "signIn"
    /\ \/ Ends(c, "authentication")
       \/ call' = [call EXCEPT ![c].pc = "handle", ![c].armed = TRUE, ![c].who = "stdio"]
    /\ UNCHANGED <<scene, server, queue>>

(* The handler asks for the wiki's session: it may be cached, and otherwise *)
(* the configured credential may be a command.                              *)
Acquire(c) ==
    /\ call[c].pc = "handle"
    /\ LET id == Identity(dep, call[c].who, call[c].wiki) IN
       \/ id # "caller" /\ Goes(c, "ready") /\ UNCHANGED queue
       \/ id = "configured" /\ Goes(c, "secret") /\ queue' = Append(queue, c)
       \/ Goes(c, "connect") /\ UNCHANGED queue
    /\ UNCHANGED <<scene, server>>

(* Mutant of CommandEnds: a command that fails leaves the chain rejected. *)
CommandEndsStuck(c) ==
    /\ call[c].pc = "secret" /\ Head(queue) = c
    /\ \/ Goes(c, "connect") /\ queue' = Tail(queue)
       \/ Ends(c, "authentication") /\ UNCHANGED queue
    /\ UNCHANGED <<scene, server>>

(* The first command of the queue ends, with a secret or without, or is     *)
(* killed at its time limit; the next one starts.                           *)
CommandEnds(c) ==
    /\ call[c].pc = "secret" /\ Head(queue) = c
    /\ Goes(c, "connect") \/ Ends(c, "authentication")
    /\ queue' = Tail(queue)
    /\ UNCHANGED <<scene, server>>

(* Signing in to the wiki, under a deadline of its own. *)
Connected(c) ==
    /\ call[c].pc = "connect"
    /\ Goes(c, "ready") \/ Ends(c, "connectTimeout") \/ Ends(c, "failed")
    /\ UNCHANGED <<scene, server, queue>>

(* A request that the deadline or the caller ended before its answer: the   *)
(* client does not retry it (withCallBounds, runDispatchInner).             *)
Abandon(c) ==
    IF call[c].expired
    THEN call' = [call EXCEPT ![c].pc = "done", ![c].answer = "timeout",
                              ![c].caveat = Writes(call[c].tool)]
    ELSE Ends(c, "cancelled")

(* The handler's request goes out, unless its signal has fired. *)
Send(c) ==
    /\ call[c].pc = "ready"
    /\ IF call[c].expired \/ call[c].cancelled
       THEN Abandon(c)
       ELSE call' = [call EXCEPT ![c].pc = "sent", ![c].attempt = @ + 1, ![c].sent = TRUE,
                                 ![c].transit = @ + 1]
    /\ UNCHANGED <<scene, server, queue>>

(* The wiki takes up a request that reached it, whoever still waits for it. *)
WikiApplies(c) ==
    /\ call[c].transit > 0 /\ Writes(call[c].tool)
    /\ call' = [call EXCEPT ![c].transit = @ - 1, ![c].applied = @ + 1]
    /\ UNCHANGED <<scene, server, queue>>

(* It answers that it did what was asked, or something before it answers    *)
(* that it did not.                                                         *)
Answered(c) ==
    /\ call[c].pc = "sent"
    /\ \/ Ends(c, "ok") /\ (Writes(call[c].tool) => call[c].applied > 0)
       \/ Ends(c, "failed")
    /\ UNCHANGED <<scene, server, queue>>

(* The connection breaks without an answer: the client sends it again.      *)
Lost(c) ==
    /\ call[c].pc = "sent"
    /\ IF call[c].attempt < MaxAttempts THEN Goes(c, "ready") ELSE Ends(c, "failed")
    /\ UNCHANGED <<scene, server, queue>>

(* Mutant of Aborted: an abandoned write is reported like any failure. *)
AbortedPlainly(c) ==
    /\ call[c].pc \in {"sent", "looking"} /\ (call[c].expired \/ call[c].cancelled)
    /\ Ends(c, IF call[c].expired THEN "timeout" ELSE "cancelled")
    /\ UNCHANGED <<scene, server, queue>>

Aborted(c) ==
    /\ call[c].pc \in {"sent", "looking"} /\ (call[c].expired \/ call[c].cancelled)
    /\ Abandon(c)
    /\ UNCHANGED <<scene, server, queue>>

(* The wiki answers a write of an extension pack with neither a result nor  *)
(* an error: the handler reads what became of it.                           *)
Blank(c) ==
    /\ call[c].pc = "sent" /\ call[c].tool = "packWrite"
    /\ call' = [call EXCEPT ![c].pc = "reread", ![c].blank = TRUE]
    /\ UNCHANGED <<scene, server, queue>>

(* It asks for the session again: a session with the caller's token is      *)
(* opened anew, any other is the cached one.                                *)
Reacquire(c) ==
    /\ call[c].pc = "reread"
    /\ IF Identity(dep, call[c].who, call[c].wiki) = "caller"
       THEN Goes(c, "reconnect") ELSE Goes(c, "look")
    /\ UNCHANGED <<scene, server, queue>>

(* A session that does not open is told as such: not a word about the write. *)
Reconnected(c) ==
    /\ call[c].pc = "reconnect"
    /\ Goes(c, "look") \/ Ends(c, "connectTimeout") \/ Ends(c, "failed")
    /\ UNCHANGED <<scene, server, queue>>

Look(c) ==
    /\ call[c].pc = "look"
    /\ IF call[c].expired \/ call[c].cancelled THEN Abandon(c) ELSE Goes(c, "looking")
    /\ UNCHANGED <<scene, server, queue>>

(* The verdict of what was read, or a failure to read it. *)
Looked(c) ==
    /\ call[c].pc = "looking"
    /\ Ends(c, "ok") \/ Ends(c, "failed")
    /\ UNCHANGED <<scene, server, queue>>

Expire(c) ==
    /\ call[c].armed /\ ~call[c].expired /\ ~call[c].cancelled /\ call[c].pc # "done"
    /\ call' = [call EXCEPT ![c].expired = TRUE]
    /\ UNCHANGED <<scene, server, queue>>

(* The client cancels the request, or its connection drops. *)
Cancel(c) ==
    /\ call[c].pc \notin {"new", "done"} /\ ~call[c].cancelled /\ ~call[c].expired
    /\ call' = [call EXCEPT ![c].cancelled = TRUE]
    /\ UNCHANGED <<scene, server, queue>>

-----------------------------------------------------------------------------
Init ==
    /\ scene \in Scene
    /\ server = IF dep.transport = "stdio" THEN [started |-> TRUE, warned |-> {}]
                ELSE [started |-> ~Blocks(dep), warned |-> Stranded(dep)]
    /\ call = [c \in Call |-> NewCall]
    /\ queue = <<>>

Step(c) ==
    \/ Guard(c) \/ Probed(c) \/ SignedIn(c) \/ Acquire(c) \/ CommandEnds(c) \/ Connected(c)
    \/ Send(c) \/ Aborted(c) \/ Reacquire(c) \/ Reconnected(c) \/ Look(c)

Next == \E c \in Call :
    \/ \E w \in Wiki, t \in Tool, b \in Bearer : Begin(c, w, t, b)
    \/ Step(c)
    \/ WikiApplies(c) \/ Answered(c) \/ Blank(c) \/ Lost(c) \/ Looked(c)
    \/ Cancel(c) \/ Expire(c)

(* The process runs, and every wait has a timer: the probe's and the        *)
(* session's connecting, the command's, the sign-in's, and the call's.      *)
(* Nothing is assumed of the wiki or the caller.                            *)
Fairness == \A c \in Call : WF_vars(Step(c)) /\ WF_vars(Expire(c))

Spec == Init /\ [][Next]_vars /\ Fairness

-----------------------------------------------------------------------------
(* Properties *)

CallState ==
    [pc: {"new", "guard", "probe", "signIn", "handle", "secret", "connect", "ready", "sent",
          "reread", "reconnect", "look", "looking", "done"},
     wiki: Wiki, tool: Tool, who: {"anonymous", "signedIn", "forwarding", "stdio"},
     attempt: 0 .. MaxAttempts, transit: 0 .. MaxAttempts, applied: 0 .. MaxAttempts,
     sent: BOOLEAN, armed: BOOLEAN, expired: BOOLEAN, cancelled: BOOLEAN, blank: BOOLEAN,
     caveat: BOOLEAN,
     answer: {"none", "refused", "authentication", "connectTimeout", "ok", "failed", "timeout",
              "cancelled"}]

(* Type correctness; a call that waits for a secret has a command in the       *)
(* queue.                                                                    *)
TypeOK ==
    /\ scene \in Scene
    /\ server \in [started: BOOLEAN, warned: SUBSET Wiki]
    /\ call \in [Call -> CallState]
    /\ \A c \in Call : call[c].pc = "secret" => c \in {queue[i] : i \in DOMAIN queue}

(* On HTTP nobody acts as the configured identity unless the operator        *)
(* acknowledged a shared one; with hosted sign-in the token it obtained goes *)
(* to its wiki only and every write is sent with its caller's token; and a   *)
(* bearer is forwarded only where that was opted into (evaluateBearerGuard,  *)
(* resolveCaller, checkWikiCapability, getRuntimeToken).                     *)
ActsAsItsCaller ==
    \A c \in Call : call[c].sent /\ dep.transport = "http" =>
      LET id == Identity(dep, call[c].who, call[c].wiki) IN
      /\ id = "configured" => dep.fallback
      /\ id = "caller" => IF dep.proxy THEN call[c].wiki = Default ELSE dep.passthrough
      /\ dep.proxy /\ Writes(call[c].tool) => id = "caller"

(* A write that is answered by a refusal, by a failure to connect or by the  *)
(* deadline has not been applied and will not be, or the answer says that it *)
(* may have been (WRITE_TIMEOUT_CAVEAT, the phases of WikiTimeoutError).     *)
(* One answer is excepted, and is not honest: a write the wiki answered with *)
(* no result, whose outcome could not be read because the second session     *)
(* did not connect, is told like one that never left.                        *)
UntoldTimeout(c) == call[c].blank /\ call[c].answer = "connectTimeout"

CaveatIsHonest ==
    \A c \in Call :
      /\ call[c].answer \in {"refused", "authentication", "connectTimeout", "timeout"}
      /\ ~UntoldTimeout(c)
      /\ Writes(call[c].tool) /\ ~call[c].caveat
      => call[c].applied = 0 /\ call[c].transit = 0

(* What a caller of the started HTTP server can get at: some bearer is       *)
(* admitted and passes the guard, and a wiki that wants a signed-in user     *)
(* gets one.                                                                 *)
Served(d, w) ==
    \E b \in Bearer : LET who == Resolved(d, b) IN
      /\ who # "refused" /\ ~GuardRefuses(d, who, w, "read")
      /\ (d.wiki[w].oauth \/ d.wiki[w].private) => Identity(d, who, w) # "nobody"

(* The operator is warned that nothing can authenticate to some wiki exactly *)
(* when, with neither hosted sign-in nor forwarding, some wiki is out of     *)
(* every caller's reach (checkHttpDeployment against resolveCaller and       *)
(* checkWikiCapability).                                                     *)
StrandedIsWarned ==
    server.started /\ dep.transport = "http" /\ ~dep.proxy /\ ~dep.passthrough =>
      (server.warned = {} <=> \A w \in Wiki : Served(dep, w))

(* Every call ends, whatever the wiki and the commands of other calls do. *)
CallsEnd == \A c \in Call : call[c].pc \notin {"new", "done"} ~> call[c].pc = "done"

===============================================================================
