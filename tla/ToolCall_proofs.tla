---------------------------- MODULE ToolCall_proofs ----------------------------
(***************************************************************************)
(* Theorems about ToolCall, for any wikis, any deployments of them and any  *)
(* number of calls and attempts; and about ResultPages, what a caller makes *)
(* of the answers of several calls.                                        *)
(***************************************************************************)
EXTENDS ToolCall, ResultPages, FiniteSetTheorems, WellFoundedInduction, TLAPS

-----------------------------------------------------------------------------
(* What the start of the transport said is final.  With neither hosted       *)
(* sign-in nor forwarding a wiki is served when anyone may call, and the     *)
(* wiki needs nobody or there is a configured credential for it; the warning *)
(* says the same while static credentials imply a shared identity.           *)

LEMMA ServedWithoutTokens ==
    ASSUME NEW d \in Deployment, d.transport = "http", ~d.proxy, ~d.passthrough, NEW w \in Wiki
    PROVE  Served(d, w) <=>
             /\ ~d.wiki[Default].private
             /\ d.wiki[w].oauth \/ d.wiki[w].private => d.wiki[w].static
<1>1. \A b \in Bearer :
        Resolved(d, b) = IF b = "none" /\ ~d.wiki[Default].private THEN "anonymous" ELSE "refused"
  BY DEF Resolved
<1>2. Served(d, w) <=> /\ ~d.wiki[Default].private
                       /\ ~GuardRefuses(d, "anonymous", w, "read")
                       /\ d.wiki[w].oauth \/ d.wiki[w].private => Identity(d, "anonymous", w) # "nobody"
  BY <1>1 DEF Served, Bearer
<1>3. ~HasToken("anonymous", w)
  BY DEF HasToken
<1> QED
  BY <1>2, <1>3 DEF GuardRefuses, Identity

(* The warning of the start against what resolveCaller and the capability    *)
(* guard admit, for any deployment.                                          *)
LEMMA WarningIsRight ==
    ASSUME NEW d \in Deployment, d.transport = "http", ~d.proxy, ~d.passthrough, ~Blocks(d)
    PROVE  Stranded(d) = {} <=> \A w \in Wiki : Served(d, w)
<1> USE CallAssumption
<1>1. \A w \in Wiki : d.wiki[w].static => d.fallback
  BY DEF Blocks
<1>2. Stranded(d) = {} <=>
        \A w \in Wiki : /\ ~(d.wiki[w].private /\ w = Default)
                        /\ d.wiki[w].oauth \/ d.wiki[w].private => d.wiki[w].static /\ d.fallback
  BY DEF Stranded
<1> QED
  BY <1>1, <1>2, ServedWithoutTokens

-----------------------------------------------------------------------------
(* The inductive invariant *)

Waiting == {"new", "guard", "probe", "signIn", "handle", "secret", "connect"}
Rereading == {"reread", "reconnect", "look", "looking"}
Admitted == {"probe", "signIn", "handle", "secret", "connect", "ready", "sent"} \cup Rereading

(* Requests are counted: each sent once, in transit or applied at most once. *)
Counted(r) ==
    /\ r.pc \in Waiting => r.attempt = 0
    /\ r.pc = "ready" => r.attempt < MaxAttempts
    /\ r.transit + r.applied <= r.attempt
    /\ r.sent => r.attempt > 0

(* Answers that come before a request is sent, and the caveat of a deadline; *)
(* only a write that was answered is read again.                             *)
AnswerFits(r) ==
    /\ r.answer # "none" => r.pc = "done"
    /\ r.answer \in {"refused", "authentication"} => r.attempt = 0
    /\ r.answer = "connectTimeout" => r.attempt = 0 \/ r.blank
    /\ r.pc \in Rereading => r.blank
    /\ r.answer = "timeout" /\ Writes(r.tool) => r.caveat

(* Where a caller's identity comes from, and what the guard has let through. *)
WhoFits(r) ==
    /\ r.pc # "new" => server.started
    /\ r.pc = "signIn" => dep.transport = "stdio"
    /\ dep.transport = "http" =>
         /\ r.who # "stdio"
         /\ r.who = "signedIn" => dep.proxy
         /\ r.who = "forwarding" => ~dep.proxy /\ dep.passthrough
         /\ dep.proxy /\ Writes(r.tool) /\ (r.pc \in Admitted \/ r.sent) =>
              Identity(dep, r.who, r.wiki) = "caller"

CallOK(r) == r \in CallState /\ Counted(r) /\ AnswerFits(r) /\ WhoFits(r)

(* What the start said, of the deployment that stays. *)
StartSaid ==
    /\ scene \in Scene
    /\ server = IF dep.transport = "stdio" THEN [started |-> TRUE, warned |-> {}]
                ELSE [started |-> ~Blocks(dep), warned |-> Stranded(dep)]

Queued ==
    /\ queue \in Seq(Call)
    /\ \A c \in Call : call[c].pc = "secret" => \E i \in 1 .. Len(queue) : queue[i] = c

CallsOK ==
    /\ call \in [Call -> CallState]
    /\ \A c \in Call : CallOK(call[c])

IInv == StartSaid /\ Queued /\ CallsOK

-----------------------------------------------------------------------------
(* The steps *)

LEMMA DeploymentTyped == StartSaid => dep \in Deployment
BY CallAssumption DEF StartSaid, dep

(* A step of one call: it is enough to look at that call. *)
LEMMA OneCall ==
    ASSUME IInv, NEW c \in Call, NEW r, call' = [call EXCEPT ![c] = r],
           UNCHANGED <<scene, server>>, CallOK(r)
    PROVE  StartSaid' /\ CallsOK'
<1>1. StartSaid'
  BY DEF IInv, StartSaid, dep
<1>2. call' \in [Call -> CallState]
  BY DEF IInv, CallsOK, CallOK
<1>3. ASSUME NEW x \in Call PROVE CallOK(call[x])'
  <2>1. CallOK(call'[x])
    BY DEF IInv, CallsOK
  <2> QED
    BY <2>1 DEF CallOK, Counted, AnswerFits, WhoFits, dep, Rereading
<1> QED
  BY <1>1, <1>2, <1>3 DEF CallsOK

LEMMA QueueKept ==
    ASSUME IInv, NEW c \in Call, NEW r, call' = [call EXCEPT ![c] = r],
           UNCHANGED queue, r.pc = "secret" => call[c].pc = "secret"
    PROVE  Queued'
BY DEF IInv, Queued, CallsOK

(* A call that ends or goes on with nothing else changed. *)
LEMMA EndsIs ==
    ASSUME NEW c \in Call, NEW answer, call \in [Call -> CallState], Ends(c, answer)
    PROVE  call' = [call EXCEPT ![c] = [call[c] EXCEPT !.pc = "done", !.answer = answer]]
BY DEF Ends, CallState

LEMMA GoesIs ==
    ASSUME NEW c \in Call, NEW pc, call \in [Call -> CallState], Goes(c, pc)
    PROVE  call' = [call EXCEPT ![c] = [call[c] EXCEPT !.pc = pc]]
BY DEF Goes, CallState

Answers == {"refused", "authentication", "connectTimeout", "ok", "failed", "timeout", "cancelled"}

LEMMA EndSafe ==
    ASSUME IInv, NEW c \in Call, NEW answer \in Answers, Ends(c, answer),
           UNCHANGED <<scene, server>>, server.started,
           answer \in {"refused", "authentication"} => call[c].attempt = 0,
           answer = "connectTimeout" => call[c].attempt = 0 \/ call[c].blank,
           answer = "timeout" => ~Writes(call[c].tool)
    PROVE  StartSaid' /\ CallsOK'
<1> DEFINE r == [call[c] EXCEPT !.pc = "done", !.answer = answer]
<1>1. call' = [call EXCEPT ![c] = r]
  <2>1. call \in [Call -> CallState]
    BY DEF IInv, CallsOK
  <2> QED BY <2>1, EndsIs, Zenon
<1>2. CallOK(call[c])
  BY DEF IInv, CallsOK
<1>3. r \in CallState
  BY <1>2 DEF CallOK, CallState, Answers
<1>4. /\ r.pc = "done" /\ r.answer = answer /\ r.blank = call[c].blank /\ r.attempt = call[c].attempt /\ r.tool = call[c].tool
      /\ r.transit = call[c].transit /\ r.applied = call[c].applied /\ r.sent = call[c].sent
      /\ r.who = call[c].who /\ r.wiki = call[c].wiki
  BY <1>2 DEF CallOK, CallState
<1>5. CallOK(r)
  <2>1. Counted(r)
    BY <1>2, <1>4 DEF CallOK, Counted, Waiting, Rereading
  <2>2. AnswerFits(r)
    BY <1>4 DEF AnswerFits, Rereading
  <2>3. WhoFits(r)
    BY <1>2, <1>4 DEF CallOK, WhoFits, Admitted, Rereading
  <2> QED
    BY <1>3, <2>1, <2>2, <2>3 DEF CallOK
<1> HIDE DEF r
<1> QED
  BY <1>1, <1>5, OneCall

(* A call that goes on: it is where it may be after the guard. *)
LEMMA GoSafe ==
    ASSUME IInv, NEW c \in Call, NEW pc \in Admitted, Goes(c, pc), call[c].pc # "new",
           call[c].pc # "done", UNCHANGED <<scene, server>>,
           pc \in Waiting => call[c].pc \in Waiting,
           pc \in Rereading => call[c].pc \in Rereading,
           pc = "ready" => call[c].attempt < MaxAttempts,
           pc = "signIn" => dep.transport = "stdio",
           dep.transport = "http" /\ dep.proxy /\ Writes(call[c].tool) =>
             Identity(dep, call[c].who, call[c].wiki) = "caller"
    PROVE  StartSaid' /\ CallsOK'
<1> DEFINE r == [call[c] EXCEPT !.pc = pc]
<1>1. call' = [call EXCEPT ![c] = r]
  BY GoesIs DEF IInv, CallsOK
<1>2. CallOK(call[c])
  BY DEF IInv, CallsOK
<1>3. r \in CallState
  BY <1>2 DEF CallOK, CallState, Admitted, Rereading
<1>4. /\ r.pc = pc /\ r.answer = call[c].answer /\ r.blank = call[c].blank /\ r.attempt = call[c].attempt
      /\ r.transit = call[c].transit /\ r.applied = call[c].applied /\ r.sent = call[c].sent
      /\ r.who = call[c].who /\ r.wiki = call[c].wiki /\ r.tool = call[c].tool
      /\ r.caveat = call[c].caveat
  BY <1>2 DEF CallOK, CallState
<1>5. CallOK(r)
  <2>1. Counted(r)
    BY <1>2, <1>4 DEF CallOK, Counted
  <2>2. AnswerFits(r)
    BY <1>2, <1>4 DEF CallOK, AnswerFits, Rereading
  <2>3. WhoFits(r)
    BY <1>2, <1>4 DEF CallOK, WhoFits
  <2> QED
    BY <1>3, <2>1, <2>2, <2>3 DEF CallOK
<1> HIDE DEF r
<1> QED
  BY <1>1, <1>5, OneCall

(* The handler begins, and with it the deadline. *)
Handles(c, who) ==
    call' = [call EXCEPT ![c] = [call[c] EXCEPT !.pc = "handle", !.armed = TRUE, !.who = who]]

LEMMA HandleSafe ==
    ASSUME IInv, NEW c \in Call, NEW who,
           call[c].pc \in {"guard", "probe", "signIn"}, UNCHANGED <<scene, server>>,
           who = call[c].who \/ (dep.transport = "stdio" /\ who = "stdio"),
           Handles(c, who),
           dep.transport = "http" /\ dep.proxy /\ Writes(call[c].tool) =>
             Identity(dep, call[c].who, call[c].wiki) = "caller"
    PROVE  StartSaid' /\ CallsOK'
<1> DEFINE r == [call[c] EXCEPT !.pc = "handle", !.armed = TRUE, !.who = who]
<1>1. CallOK(call[c])
  BY DEF IInv, CallsOK
<1>2. r \in CallState
  BY <1>1 DEF CallOK, CallState
<1>3. /\ r.pc = "handle" /\ r.answer = call[c].answer /\ r.blank = call[c].blank /\ r.attempt = call[c].attempt
      /\ r.transit = call[c].transit /\ r.applied = call[c].applied /\ r.sent = call[c].sent
      /\ r.who = who /\ r.wiki = call[c].wiki /\ r.tool = call[c].tool
      /\ r.caveat = call[c].caveat
  BY <1>1 DEF CallOK, CallState
<1>4. CallOK(r)
  <2>1. Counted(r)
    BY <1>1, <1>3 DEF CallOK, Counted, Waiting, Rereading
  <2>2. AnswerFits(r)
    BY <1>1, <1>3 DEF CallOK, AnswerFits, Rereading
  <2>3. WhoFits(r)
    BY <1>1, <1>3 DEF CallOK, WhoFits
  <2> QED
    BY <1>2, <2>1, <2>2, <2>3 DEF CallOK
<1>5. call' = [call EXCEPT ![c] = r]
  BY DEF Handles
<1> HIDE DEF r
<1> QED
  BY <1>4, <1>5, OneCall

-----------------------------------------------------------------------------
(* The actions *)

(* What is known of a call under way. *)
LEMMA CallKnown ==
    ASSUME IInv, NEW c \in Call
    PROVE  /\ call[c] \in CallState /\ Counted(call[c]) /\ AnswerFits(call[c]) /\ WhoFits(call[c])
           /\ call[c].pc \in Admitted /\ dep.transport = "http" /\ dep.proxy /\ Writes(call[c].tool) =>
                Identity(dep, call[c].who, call[c].wiki) = "caller"
BY DEF IInv, CallsOK, CallOK, WhoFits

(* A call that waits for no command leaves the queue as it is. *)
LEMMA QueueStays ==
    ASSUME IInv, NEW c \in Call, UNCHANGED queue, \A x \in Call \ {c} : call'[x] = call[x],
           call'[c].pc # "secret"
    PROVE  Queued'
BY DEF IInv, Queued

LEMMA EndsPc ==
    ASSUME IInv, NEW c \in Call, NEW answer, Ends(c, answer)
    PROVE  (\A x \in Call \ {c} : call'[x] = call[x]) /\ call'[c].pc = "done"
BY DEF IInv, CallsOK, Ends, CallState

LEMMA GoesPc ==
    ASSUME IInv, NEW c \in Call, NEW pc, Goes(c, pc)
    PROVE  (\A x \in Call \ {c} : call'[x] = call[x]) /\ call'[c].pc = pc
BY DEF IInv, CallsOK, Goes, CallState

(* A call that ends, or goes on, and had no command in the queue. *)
LEMMA EndStep ==
    ASSUME IInv, NEW c \in Call, NEW answer \in Answers, Ends(c, answer),
           UNCHANGED <<scene, server, queue>>, server.started,
           answer \in {"refused", "authentication"} => call[c].attempt = 0,
           answer = "connectTimeout" => call[c].attempt = 0 \/ call[c].blank,
           answer = "timeout" => ~Writes(call[c].tool)
    PROVE  IInv'
BY EndSafe, EndsPc, QueueStays DEF IInv

LEMMA GoStep ==
    ASSUME IInv, NEW c \in Call, NEW pc \in Admitted, Goes(c, pc), call[c].pc # "new",
           call[c].pc # "done", UNCHANGED <<scene, server, queue>>, pc # "secret",
           pc \in Waiting => call[c].pc \in Waiting,
           pc \in Rereading => call[c].pc \in Rereading,
           pc = "ready" => call[c].attempt < MaxAttempts,
           pc = "signIn" => dep.transport = "stdio",
           dep.transport = "http" /\ dep.proxy /\ Writes(call[c].tool) =>
             Identity(dep, call[c].who, call[c].wiki) = "caller"
    PROVE  IInv'
BY GoSafe, GoesPc, QueueStays DEF IInv

LEMMA HandleStep ==
    ASSUME IInv, NEW c \in Call, NEW who,
           call[c].pc \in {"guard", "probe", "signIn"}, UNCHANGED <<scene, server, queue>>,
           who = call[c].who \/ (dep.transport = "stdio" /\ who = "stdio"),
           Handles(c, who),
           dep.transport = "http" /\ dep.proxy /\ Writes(call[c].tool) =>
             Identity(dep, call[c].who, call[c].wiki) = "caller"
    PROVE  IInv'
<1>1. StartSaid' /\ CallsOK'
  BY HandleSafe
<1>2. call[c] \in CallState
  BY CallKnown
<1>3. call'[c].pc # "secret" /\ \A x \in Call \ {c} : call'[x] = call[x]
  BY <1>2 DEF IInv, CallsOK, CallState, Handles
<1> QED
  BY <1>1, <1>3, QueueStays DEF IInv

(* Who a caller may be on HTTP (resolveCaller). *)
LEMMA ResolvedFits ==
    ASSUME NEW d \in Deployment, NEW b \in Bearer
    PROVE  LET who == Resolved(d, b) IN
           /\ who \in {"refused", "anonymous", "signedIn", "forwarding"}
           /\ who = "signedIn" => d.proxy
           /\ who = "forwarding" => ~d.proxy /\ d.passthrough
BY DEF Resolved, Bearer

LEMMA BeginSafe ==
    ASSUME IInv, NEW c \in Call, NEW w \in Wiki, NEW t \in Tool, NEW b \in Bearer,
           Begin(c, w, t, b)
    PROVE  IInv'
<1> DEFINE who == IF dep.transport = "stdio" THEN "anonymous" ELSE Resolved(dep, b)
           r == [NewCall EXCEPT !.pc = "guard", !.wiki = w, !.tool = t, !.who = who]
<1>1. call[c].pc = "new" /\ server.started /\ UNCHANGED <<scene, server, queue>>
  BY DEF Begin
<1>2. call[c].attempt = 0
  BY <1>1, CallKnown DEF Counted, Waiting, Rereading
<1>3. CASE Ends(c, "refused")
  BY <1>1, <1>2, <1>3, EndStep DEF Answers
<1>4. CASE who # "refused" /\ call' = [call EXCEPT ![c] = r]
  <2>1. /\ who \in {"anonymous", "signedIn", "forwarding"}
        /\ dep.transport = "http" => (who = "signedIn" => dep.proxy)
        /\ dep.transport = "http" => (who = "forwarding" => ~dep.proxy /\ dep.passthrough)
    BY <1>4, DeploymentTyped, ResolvedFits DEF IInv
  <2>2. r \in CallState
    <3>1. NewCall \in CallState
      BY CallAssumption DEF NewCall, CallState, Tool
    <3> HIDE DEF who
    <3> QED
      BY <2>1, <3>1 DEF CallState
  <2>3. /\ r.pc = "guard" /\ r.attempt = 0 /\ r.transit = 0 /\ r.applied = 0 /\ r.sent = FALSE
        /\ r.answer = "none" /\ r.who = who
    BY DEF NewCall
  <2>4. Counted(r) /\ AnswerFits(r) /\ WhoFits(r)
    BY <1>1, <2>1, <2>3 DEF Counted, AnswerFits, WhoFits, Waiting, Admitted, Rereading
  <2>5. CallOK(r)
    BY <2>2, <2>4 DEF CallOK
  <2> HIDE DEF r
  <2>6. StartSaid' /\ CallsOK'
    BY <1>1, <1>4, <2>5, OneCall
  <2>7. Queued'
    BY <1>1, <1>4, <2>3, QueueKept
  <2> QED
    BY <2>6, <2>7 DEF IInv
<1> QED
  BY <1>3, <1>4 DEF Begin

(* On HTTP the guard lets no write of the hosted proxy through without its   *)
(* caller's token.                                                           *)
LEMMA GuardFits ==
    ASSUME NEW d \in Deployment, NEW who, NEW w, NEW t, ~GuardRefuses(d, who, w, t),
           d.transport = "http", d.proxy, Writes(t)
    PROVE  Identity(d, who, w) = "caller"
BY DEF GuardRefuses, Identity

LEMMA PassSafe ==
    ASSUME IInv, NEW c \in Call, Pass(c), call[c].pc \in {"guard", "probe"},
           UNCHANGED <<scene, server, queue>>,
           dep.transport = "http" /\ dep.proxy /\ Writes(call[c].tool) =>
             Identity(dep, call[c].who, call[c].wiki) = "caller"
    PROVE  IInv'
<1>1. CASE dep.transport = "stdio" /\ Goes(c, "signIn")
  BY <1>1, GoStep DEF Admitted, Waiting, Rereading
<1>2. CASE call' = [call EXCEPT ![c].pc = "handle", ![c].armed = TRUE]
  <2>1. call \in [Call -> CallState]
    BY DEF IInv, CallsOK
  <2>2. Handles(c, call[c].who)
    BY <1>2, <2>1 DEF CallState, Handles
  <2> QED
    BY <2>2, HandleStep
<1> QED
  BY <1>1, <1>2 DEF Pass

LEMMA GuardSafe ==
    ASSUME IInv, NEW c \in Call, Guard(c)
    PROVE  IInv'
<1> DEFINE w == call[c].wiki
           t == call[c].tool
<1>1. call[c].pc = "guard" /\ UNCHANGED <<scene, server, queue>>
  BY DEF Guard
<1>2. server.started /\ call[c].attempt = 0
  BY <1>1, CallKnown DEF Counted, WhoFits, Waiting, Rereading
<1>3. CASE Ends(c, "refused")
  BY <1>1, <1>2, <1>3, EndStep DEF Answers
<1>4. CASE ~GuardRefuses(dep, call[c].who, w, t) /\ (Goes(c, "probe") \/ Pass(c))
  <2>1. dep.transport = "http" /\ dep.proxy /\ Writes(t) => Identity(dep, call[c].who, w) = "caller"
    BY <1>4, DeploymentTyped, GuardFits DEF IInv
  <2>2. CASE Goes(c, "probe")
    BY <1>1, <2>1, <2>2, GoStep DEF Admitted, Waiting, Rereading
  <2>3. CASE Pass(c)
    BY <1>1, <2>1, <2>3, PassSafe
  <2> QED
    BY <1>4, <2>2, <2>3
<1> QED
  BY <1>3, <1>4 DEF Guard

LEMMA ProbedSafe ==
    ASSUME IInv, NEW c \in Call, Probed(c)
    PROVE  IInv'
<1>1. call[c].pc = "probe" /\ UNCHANGED <<scene, server, queue>>
  BY DEF Probed
<1>2. server.started /\ call[c].attempt = 0
  BY <1>1, CallKnown DEF Counted, WhoFits, Waiting, Rereading
<1>3. CASE Ends(c, "refused")
  BY <1>1, <1>2, <1>3, EndStep DEF Answers
<1>4. CASE Pass(c)
  BY <1>1, <1>4, CallKnown, PassSafe DEF Admitted, Rereading
<1> QED
  BY <1>3, <1>4 DEF Probed

LEMMA SignedInSafe ==
    ASSUME IInv, NEW c \in Call, SignedIn(c)
    PROVE  IInv'
<1>1. call[c].pc = "signIn" /\ UNCHANGED <<scene, server, queue>>
  BY DEF SignedIn
<1>2. server.started /\ call[c].attempt = 0 /\ dep.transport = "stdio"
  BY <1>1, CallKnown DEF Counted, WhoFits, Waiting, Rereading
<1>3. CASE Ends(c, "authentication")
  BY <1>1, <1>2, <1>3, EndStep DEF Answers
<1>4. CASE call' = [call EXCEPT ![c].pc = "handle", ![c].armed = TRUE, ![c].who = "stdio"]
  <2>1. call \in [Call -> CallState]
    BY DEF IInv, CallsOK
  <2>2. Handles(c, "stdio")
    BY <1>4, <2>1 DEF CallState, Handles
  <2> QED
    BY <1>1, <1>2, <2>2, HandleStep
<1> QED
  BY <1>3, <1>4 DEF SignedIn

LEMMA AcquireSafe ==
    ASSUME IInv, NEW c \in Call, Acquire(c)
    PROVE  IInv'
<1>1. call[c].pc = "handle" /\ UNCHANGED <<scene, server>>
  BY DEF Acquire
<1>2. /\ call[c].attempt = 0
      /\ dep.transport = "http" /\ dep.proxy /\ Writes(call[c].tool) =>
           Identity(dep, call[c].who, call[c].wiki) = "caller"
  BY <1>1, CallKnown DEF Counted, Waiting, Admitted, Rereading
<1>3. CASE Goes(c, "ready") /\ UNCHANGED queue
  BY <1>1, <1>2, <1>3, GoStep, CallAssumption DEF Admitted, Waiting, Rereading
<1>4. CASE Goes(c, "connect") /\ UNCHANGED queue
  BY <1>1, <1>2, <1>4, GoStep DEF Admitted, Waiting, Rereading
<1>5. CASE Goes(c, "secret") /\ queue' = Append(queue, c)
  <2>1. StartSaid' /\ CallsOK'
    BY <1>1, <1>2, <1>5, GoSafe DEF Admitted, Waiting, Rereading
  <2>2. Queued'
    <3>1. queue' \in Seq(Call) /\ Len(queue') = Len(queue) + 1 /\ queue'[Len(queue) + 1] = c
          /\ \A i \in 1 .. Len(queue) : queue'[i] = queue[i]
      BY <1>5 DEF IInv, Queued
    <3>2. ASSUME NEW x \in Call, call'[x].pc = "secret"
          PROVE  \E i \in 1 .. Len(queue') : queue'[i] = x
      <4>0. Len(queue) \in Nat
        BY DEF IInv, Queued
      <4>1. CASE x = c
        BY <3>1, <4>0, <4>1
      <4>2. CASE x # c
        <5>1. call[x].pc = "secret"
          BY <1>5, <3>2, <4>2, GoesPc
        <5>2. PICK i \in 1 .. Len(queue) : queue[i] = x
          BY <5>1 DEF IInv, Queued
        <5> QED
          BY <3>1, <4>0, <5>2
      <4> QED
        BY <4>1, <4>2
    <3> QED
      BY <3>1, <3>2 DEF Queued
  <2> QED
    BY <2>1, <2>2 DEF IInv
<1> QED
  BY <1>3, <1>4, <1>5 DEF Acquire

(* The first command leaves the queue, and its call does not wait any more. *)
LEMMA CommandEndsSafe ==
    ASSUME IInv, NEW c \in Call, CommandEnds(c)
    PROVE  IInv'
<1>1. call[c].pc = "secret" /\ Head(queue) = c /\ queue' = Tail(queue) /\ UNCHANGED <<scene, server>>
  BY DEF CommandEnds
<1>2. /\ server.started /\ call[c].attempt = 0
      /\ dep.transport = "http" /\ dep.proxy /\ Writes(call[c].tool) =>
           Identity(dep, call[c].who, call[c].wiki) = "caller"
  BY <1>1, CallKnown DEF Counted, WhoFits, Waiting, Admitted, Rereading
<1>3. StartSaid' /\ CallsOK'
  <2>1. CASE Goes(c, "connect")
    BY <1>1, <1>2, <2>1, GoSafe DEF Admitted, Waiting, Rereading
  <2>2. CASE Ends(c, "authentication")
    BY <1>1, <1>2, <2>2, EndSafe DEF Answers
  <2> QED
    BY <2>1, <2>2 DEF CommandEnds
<1>4. call'[c].pc # "secret" /\ \A x \in Call \ {c} : call'[x] = call[x]
  BY EndsPc, GoesPc DEF CommandEnds
<1>5. Queued'
  <2>1. queue \in Seq(Call) /\ Len(queue) > 0
    BY <1>1 DEF IInv, Queued
  <2>2. /\ queue' \in Seq(Call) /\ Len(queue') = Len(queue) - 1
        /\ \A i \in 1 .. Len(queue') : queue'[i] = queue[i + 1]
    BY <1>1, <2>1
  <2>3. ASSUME NEW x \in Call, call'[x].pc = "secret"
        PROVE  \E i \in 1 .. Len(queue') : queue'[i] = x
    <3>1. x # c /\ call[x].pc = "secret"
      BY <1>4, <2>3
    <3>2. PICK i \in 1 .. Len(queue) : queue[i] = x
      BY <3>1 DEF IInv, Queued
    <3>3. i # 1
      BY <1>1, <2>1, <3>1, <3>2
    <3>4. i - 1 \in 1 .. Len(queue') /\ queue'[i - 1] = x
      BY <2>1, <2>2, <3>2, <3>3
    <3> QED
      BY <3>4
  <2> QED
    BY <2>2, <2>3 DEF Queued
<1> QED
  BY <1>3, <1>5 DEF IInv

LEMMA ConnectedSafe ==
    ASSUME IInv, NEW c \in Call, Connected(c)
    PROVE  IInv'
<1>1. call[c].pc = "connect" /\ UNCHANGED <<scene, server, queue>>
  BY DEF Connected
<1>2. /\ server.started /\ call[c].attempt = 0
      /\ dep.transport = "http" /\ dep.proxy /\ Writes(call[c].tool) =>
           Identity(dep, call[c].who, call[c].wiki) = "caller"
  BY <1>1, CallKnown DEF Counted, WhoFits, Waiting, Admitted, Rereading
<1>3. CASE Goes(c, "ready")
  BY <1>1, <1>2, <1>3, GoStep, CallAssumption DEF Admitted, Waiting, Rereading
<1>4. CASE Ends(c, "connectTimeout") \/ Ends(c, "failed")
  BY <1>1, <1>2, <1>4, EndStep DEF Answers
<1> QED
  BY <1>3, <1>4 DEF Connected

(* A step that changes a call and leaves the queue alone. *)
LEMMA CallStep ==
    ASSUME IInv, NEW c \in Call, NEW r, call' = [call EXCEPT ![c] = r],
           UNCHANGED <<scene, server, queue>>, CallOK(r), r.pc = "secret" => call[c].pc = "secret"
    PROVE  IInv'
BY OneCall, QueueKept DEF IInv

LEMMA AbandonSafe ==
    ASSUME IInv, NEW c \in Call, Abandon(c), call[c].pc \in {"ready", "sent", "look", "looking"},
           UNCHANGED <<scene, server, queue>>
    PROVE  IInv'
<1>1. call[c] \in CallState /\ Counted(call[c]) /\ WhoFits(call[c]) /\ server.started
  BY CallKnown DEF WhoFits
<1>2. CASE call[c].expired
  <2> DEFINE r == [call[c] EXCEPT !.pc = "done", !.answer = "timeout", !.caveat = Writes(call[c].tool)]
  <2>1. call' = [call EXCEPT ![c] = r]
    <3>1. call' = [call EXCEPT ![c].pc = "done", ![c].answer = "timeout",
                               ![c].caveat = Writes(call[c].tool)]
      BY <1>2 DEF Abandon
    <3> QED
      BY <1>1, <3>1 DEF IInv, CallsOK, CallState
  <2>2. r \in CallState
    <3>1. Writes(call[c].tool) \in BOOLEAN
      BY DEF Writes
    <3> QED
      BY <1>1, <3>1 DEF CallState
  <2>3. /\ r.pc = "done" /\ r.answer = "timeout" /\ r.caveat = Writes(call[c].tool)
        /\ r.attempt = call[c].attempt /\ r.tool = call[c].tool
        /\ r.transit = call[c].transit /\ r.applied = call[c].applied /\ r.sent = call[c].sent
        /\ r.who = call[c].who /\ r.wiki = call[c].wiki
    BY <1>1 DEF CallState
  <2>4. Counted(r) /\ AnswerFits(r) /\ WhoFits(r)
    <3>1. Counted(r)
      BY <1>1, <2>3 DEF Counted, Waiting, Rereading
    <3>2. AnswerFits(r)
      BY <2>3 DEF AnswerFits, Rereading
    <3>3. WhoFits(r)
      BY <1>1, <2>3 DEF WhoFits, Admitted, Rereading
    <3> QED
      BY <3>1, <3>2, <3>3
  <2>5. CallOK(r) /\ r.pc # "secret"
    BY <2>2, <2>3, <2>4 DEF CallOK
  <2> HIDE DEF r
  <2> QED
    BY <2>1, <2>5, CallStep
<1>3. CASE Ends(c, "cancelled")
  BY <1>1, <1>3, EndStep DEF Answers
<1> QED
  BY <1>2, <1>3 DEF Abandon

LEMMA SendSafe ==
    ASSUME IInv, NEW c \in Call, Send(c)
    PROVE  IInv'
<1>1. call[c].pc = "ready" /\ UNCHANGED <<scene, server, queue>>
  BY DEF Send
<1>2. CASE Abandon(c)
  BY <1>1, <1>2, AbandonSafe
<1>3. CASE call' = [call EXCEPT ![c].pc = "sent", ![c].attempt = @ + 1, ![c].sent = TRUE,
                                ![c].transit = @ + 1]
  <2> DEFINE r == [call[c] EXCEPT !.pc = "sent", !.attempt = call[c].attempt + 1, !.sent = TRUE,
                                  !.transit = call[c].transit + 1]
  <2>1. /\ call[c] \in CallState /\ Counted(call[c]) /\ AnswerFits(call[c]) /\ WhoFits(call[c])
        /\ dep.transport = "http" /\ dep.proxy /\ Writes(call[c].tool) =>
             Identity(dep, call[c].who, call[c].wiki) = "caller"
    BY <1>1, CallKnown DEF Admitted, Rereading
  <2>2. call' = [call EXCEPT ![c] = r]
    BY <1>3, <2>1 DEF IInv, CallsOK, CallState
  <2>3. /\ call[c].attempt \in Nat /\ call[c].transit \in Nat /\ call[c].applied \in Nat
        /\ call[c].attempt < MaxAttempts /\ call[c].transit + call[c].applied <= call[c].attempt
    BY <1>1, <2>1 DEF CallState, Counted
  <2>4. call[c].attempt + 1 \in 0 .. MaxAttempts /\ call[c].transit + 1 \in 0 .. MaxAttempts
    BY <2>3, CallAssumption
  <2>5. r \in CallState
    BY <2>1, <2>4 DEF CallState
  <2>6. /\ r.pc = "sent" /\ r.answer = call[c].answer /\ r.blank = call[c].blank /\ r.caveat = call[c].caveat
        /\ r.attempt = call[c].attempt + 1 /\ r.tool = call[c].tool
        /\ r.transit = call[c].transit + 1 /\ r.applied = call[c].applied
        /\ r.who = call[c].who /\ r.wiki = call[c].wiki
    BY <2>1 DEF CallState
  <2>7. Counted(r)
    BY <2>3, <2>6 DEF Counted, Waiting, Rereading
  <2>8. AnswerFits(r) /\ WhoFits(r)
    <3>1. AnswerFits(r)
      BY <1>1, <2>1, <2>6 DEF AnswerFits, Rereading
    <3>2. WhoFits(r)
      BY <1>1, <2>1, <2>6 DEF WhoFits
    <3> QED
      BY <3>1, <3>2
  <2>9. CallOK(r) /\ r.pc # "secret"
    BY <2>5, <2>6, <2>7, <2>8 DEF CallOK
  <2> HIDE DEF r
  <2> QED
    BY <1>1, <2>2, <2>9, CallStep
<1> QED
  BY <1>2, <1>3 DEF Send

LEMMA WikiAppliesSafe ==
    ASSUME IInv, NEW c \in Call, WikiApplies(c)
    PROVE  IInv'
<1> DEFINE r == [call[c] EXCEPT !.transit = call[c].transit - 1, !.applied = call[c].applied + 1]
<1>1. /\ call[c] \in CallState /\ Counted(call[c]) /\ AnswerFits(call[c]) /\ WhoFits(call[c])
      /\ call[c].transit > 0 /\ UNCHANGED <<scene, server, queue>>
  BY CallKnown DEF WikiApplies
<1>2. call' = [call EXCEPT ![c] = r]
  BY <1>1 DEF WikiApplies, IInv, CallsOK, CallState
<1>3. /\ call[c].attempt \in 0 .. MaxAttempts /\ call[c].transit \in Nat /\ call[c].applied \in Nat
      /\ call[c].transit + call[c].applied <= call[c].attempt
  BY <1>1 DEF CallState, Counted
<1>4. call[c].transit - 1 \in 0 .. MaxAttempts /\ call[c].applied + 1 \in 0 .. MaxAttempts
  BY <1>1, <1>3, CallAssumption
<1>5. r \in CallState
  BY <1>1, <1>4 DEF CallState
<1>6. /\ r.pc = call[c].pc /\ r.answer = call[c].answer /\ r.blank = call[c].blank /\ r.caveat = call[c].caveat
      /\ r.attempt = call[c].attempt /\ r.tool = call[c].tool /\ r.sent = call[c].sent
      /\ r.transit = call[c].transit - 1 /\ r.applied = call[c].applied + 1
      /\ r.who = call[c].who /\ r.wiki = call[c].wiki
  BY <1>1 DEF CallState
<1>7. Counted(r)
  BY <1>1, <1>3, <1>6 DEF Counted
<1>8. AnswerFits(r)
  BY <1>1, <1>6 DEF AnswerFits, Rereading
<1>9. WhoFits(r)
  BY <1>1, <1>6 DEF WhoFits
<1>10. CallOK(r)
  BY <1>5, <1>7, <1>8, <1>9 DEF CallOK
<1>11. r.pc = "secret" => call[c].pc = "secret"
  BY <1>6
<1> HIDE DEF r
<1> QED
  BY <1>1, <1>2, <1>10, <1>11, CallStep

LEMMA AnsweredSafe ==
    ASSUME IInv, NEW c \in Call, Answered(c)
    PROVE  IInv'
<1>1. call[c].pc = "sent" /\ UNCHANGED <<scene, server, queue>> /\ server.started
  BY CallKnown DEF Answered, WhoFits
<1> QED
  BY <1>1, EndStep DEF Answered, Answers

LEMMA LostSafe ==
    ASSUME IInv, NEW c \in Call, Lost(c)
    PROVE  IInv'
<1>1. call[c].pc = "sent" /\ UNCHANGED <<scene, server, queue>> /\ server.started
  BY CallKnown DEF Lost, WhoFits
<1>2. dep.transport = "http" /\ dep.proxy /\ Writes(call[c].tool) =>
        Identity(dep, call[c].who, call[c].wiki) = "caller"
  BY <1>1, CallKnown DEF Admitted, Rereading
<1>3. CASE call[c].attempt < MaxAttempts /\ Goes(c, "ready")
  BY <1>1, <1>2, <1>3, GoStep DEF Admitted, Waiting, Rereading
<1>4. CASE Ends(c, "failed")
  BY <1>1, <1>4, EndStep DEF Answers
<1> QED
  BY <1>3, <1>4 DEF Lost

LEMMA BlankSafe ==
    ASSUME IInv, NEW c \in Call, Blank(c)
    PROVE  IInv'
<1> DEFINE r == [call[c] EXCEPT !.pc = "reread", !.blank = TRUE]
<1>1. /\ call[c] \in CallState /\ Counted(call[c]) /\ AnswerFits(call[c]) /\ WhoFits(call[c])
      /\ dep.transport = "http" /\ dep.proxy /\ Writes(call[c].tool) =>
           Identity(dep, call[c].who, call[c].wiki) = "caller"
      /\ call[c].pc = "sent" /\ UNCHANGED <<scene, server, queue>>
  BY CallKnown DEF Blank, Admitted, Rereading
<1>2. call' = [call EXCEPT ![c] = r]
  BY <1>1 DEF Blank, IInv, CallsOK, CallState
<1>3. r \in CallState
  BY <1>1 DEF CallState
<1>4. /\ r.pc = "reread" /\ r.answer = call[c].answer /\ r.blank /\ r.caveat = call[c].caveat
      /\ r.attempt = call[c].attempt /\ r.tool = call[c].tool /\ r.sent = call[c].sent
      /\ r.transit = call[c].transit /\ r.applied = call[c].applied
      /\ r.who = call[c].who /\ r.wiki = call[c].wiki
  BY <1>1 DEF CallState
<1>5. Counted(r)
  BY <1>1, <1>4 DEF Counted, Waiting, Rereading
<1>6. AnswerFits(r)
  BY <1>1, <1>4 DEF AnswerFits, Rereading
<1>7. WhoFits(r)
  BY <1>1, <1>4 DEF WhoFits
<1>8. CallOK(r) /\ r.pc # "secret"
  BY <1>3, <1>4, <1>5, <1>6, <1>7 DEF CallOK
<1> HIDE DEF r
<1> QED
  BY <1>1, <1>2, <1>8, CallStep

(* The steps of reading again what became of the write. *)
LEMMA ReadingSafe ==
    ASSUME IInv, NEW c \in Call, Reacquire(c) \/ Reconnected(c) \/ Look(c) \/ Looked(c)
    PROVE  IInv'
<1>1. call[c].pc \in Rereading /\ UNCHANGED <<scene, server, queue>>
  BY DEF Reacquire, Reconnected, Look, Looked, Rereading
<1>2. /\ server.started /\ call[c].blank
      /\ dep.transport = "http" /\ dep.proxy /\ Writes(call[c].tool) =>
           Identity(dep, call[c].who, call[c].wiki) = "caller"
  BY <1>1, CallKnown DEF WhoFits, AnswerFits, Admitted, Rereading
<1>3. ASSUME NEW pc \in Rereading, Goes(c, pc) PROVE IInv'
  BY <1>1, <1>2, <1>3, GoStep DEF Admitted, Rereading, Waiting
<1>4. ASSUME NEW answer \in {"connectTimeout", "failed", "ok"}, Ends(c, answer) PROVE IInv'
  BY <1>1, <1>2, <1>4, EndStep DEF Answers
<1>5. CASE call[c].pc = "look" /\ Abandon(c)
  BY <1>1, <1>5, AbandonSafe
<1> QED
  BY <1>3, <1>4, <1>5 DEF Reacquire, Reconnected, Look, Looked, Rereading

(* The deadline and a cancellation set a flag that the call reads later. *)
LEMMA SignalSafe ==
    ASSUME IInv, NEW c \in Call, Expire(c) \/ Cancel(c)
    PROVE  IInv'
<1>1. PICK r : /\ r = [call[c] EXCEPT !.expired = TRUE] \/ r = [call[c] EXCEPT !.cancelled = TRUE]
               /\ call' = [call EXCEPT ![c] = r]
  BY DEF Expire, Cancel, IInv, CallsOK, CallState
<1>2. /\ call[c] \in CallState /\ Counted(call[c]) /\ AnswerFits(call[c]) /\ WhoFits(call[c])
      /\ UNCHANGED <<scene, server, queue>>
  BY CallKnown DEF Expire, Cancel
<1>3. r \in CallState
  <2>1. CASE r = [call[c] EXCEPT !.expired = TRUE]
    BY <1>2, <2>1 DEF CallState
  <2>2. CASE r = [call[c] EXCEPT !.cancelled = TRUE]
    BY <1>2, <2>2 DEF CallState
  <2> QED BY <1>1, <2>1, <2>2
<1>4. /\ r.pc = call[c].pc /\ r.answer = call[c].answer /\ r.blank = call[c].blank /\ r.caveat = call[c].caveat
      /\ r.attempt = call[c].attempt /\ r.tool = call[c].tool /\ r.sent = call[c].sent
      /\ r.transit = call[c].transit /\ r.applied = call[c].applied
      /\ r.who = call[c].who /\ r.wiki = call[c].wiki
  BY <1>1, <1>2 DEF CallState
<1>5. Counted(r)
  BY <1>2, <1>4 DEF Counted
<1>6. AnswerFits(r)
  BY <1>2, <1>4 DEF AnswerFits, Rereading
<1>7. WhoFits(r)
  BY <1>2, <1>4 DEF WhoFits
<1>8. CallOK(r)
  BY <1>3, <1>5, <1>6, <1>7 DEF CallOK
<1> QED
  BY <1>1, <1>2, <1>4, <1>8, CallStep

-----------------------------------------------------------------------------
(* The invariant, and what follows from it *)

LEMMA InitIInv == Init => IInv
<1> SUFFICES ASSUME Init PROVE IInv
  OBVIOUS
<1>1. StartSaid
  BY DEF Init, StartSaid
<1>2. NewCall \in CallState
  BY CallAssumption DEF NewCall, CallState, Tool
<1>3. call = [c \in Call |-> NewCall] /\ queue = <<>>
  BY DEF Init
<1>4. /\ NewCall.pc = "new" /\ NewCall.attempt = 0 /\ NewCall.transit = 0 /\ NewCall.applied = 0
      /\ NewCall.sent = FALSE /\ NewCall.answer = "none" /\ NewCall.who = "anonymous"
  BY DEF NewCall
<1>5. Counted(NewCall) /\ AnswerFits(NewCall) /\ WhoFits(NewCall)
  <2>1. Counted(NewCall)
    BY <1>4, CallAssumption DEF Counted, Waiting, Rereading
  <2>2. AnswerFits(NewCall)
    BY <1>4 DEF AnswerFits, Rereading
  <2>3. WhoFits(NewCall)
    BY <1>4 DEF WhoFits, Admitted, Rereading
  <2> QED
    BY <2>1, <2>2, <2>3
<1>6. CallsOK
  BY <1>2, <1>3, <1>5 DEF CallsOK, CallOK
<1>7. Queued
  BY <1>3, <1>4 DEF Queued
<1> QED
  BY <1>1, <1>6, <1>7 DEF IInv

LEMMA NextIInv == IInv /\ [Next]_vars => IInv'
<1> SUFFICES ASSUME IInv, [Next]_vars PROVE IInv'
  OBVIOUS
<1>1. ASSUME NEW c \in Call, NEW w \in Wiki, NEW t \in Tool, NEW b \in Bearer, Begin(c, w, t, b)
      PROVE  IInv'
  BY <1>1, BeginSafe
<1>2. ASSUME NEW c \in Call, Step(c) PROVE IInv'
  <2>1. CASE Guard(c) \/ Probed(c) \/ SignedIn(c)
    BY <2>1, GuardSafe, ProbedSafe, SignedInSafe
  <2>2. CASE Acquire(c) \/ CommandEnds(c) \/ Connected(c)
    BY <2>2, AcquireSafe, CommandEndsSafe, ConnectedSafe
  <2>3. CASE Send(c)
    BY <2>3, SendSafe
  <2>4. CASE Aborted(c)
    BY <2>4, AbandonSafe DEF Aborted
  <2>5. CASE Reacquire(c) \/ Reconnected(c) \/ Look(c)
    BY <2>5, ReadingSafe
  <2> QED
    BY <1>2, <2>1, <2>2, <2>3, <2>4, <2>5 DEF Step
<1>3. ASSUME NEW c \in Call, WikiApplies(c) \/ Answered(c) \/ Blank(c) \/ Lost(c) \/ Looked(c)
      PROVE  IInv'
  BY <1>3, WikiAppliesSafe, AnsweredSafe, BlankSafe, LostSafe, ReadingSafe
<1>4. ASSUME NEW c \in Call, Cancel(c) \/ Expire(c) PROVE IInv'
  BY <1>4, SignalSafe
<1>5. CASE UNCHANGED vars
  BY <1>5 DEF vars, IInv, StartSaid, Queued, CallsOK, CallOK, Counted, AnswerFits, WhoFits, dep, Rereading
<1> QED
  BY <1>1, <1>2, <1>3, <1>4, <1>5 DEF Next

(* The inductive invariant: what a call has sent, whom it acts for and what it *)
(* has said agree at every stage of its dispatch (registerTool, apiClient).    *)
THEOREM Invariant == Spec => []IInv
BY InitIInv, NextIInv, PTL DEF Spec

(* Every variable keeps its type: no request of the API client is sent more  *)
(* often than it retries, and a call that waits for a secret has a command   *)
(* in the queue (execSecret.ts).                                             *)
THEOREM TypeCorrect == Spec => []TypeOK
<1>1. IInv => TypeOK
  <2> SUFFICES ASSUME IInv PROVE TypeOK
    OBVIOUS
  <2>1. server \in [started: BOOLEAN, warned: SUBSET Wiki]
    BY DEF IInv, StartSaid, Stranded, Blocks
  <2>2. \A c \in Call : call[c].pc = "secret" => c \in {queue[i] : i \in DOMAIN queue}
    BY DEF IInv, Queued
  <2> QED
    BY <2>1, <2>2 DEF IInv, StartSaid, CallsOK, TypeOK
<1> QED
  BY <1>1, Invariant, PTL

(* In every deployment nobody on HTTP acts as the configured identity unless *)
(* a shared one was acknowledged, the token of the hosted proxy goes to its  *)
(* own wiki only, its writes carry their caller's token, and a bearer is     *)
(* forwarded only where that was opted into (resolveCaller,                  *)
(* checkWikiCapability, getRuntimeToken).                                    *)
THEOREM ActsAsItsCallerHolds == Spec => []ActsAsItsCaller
<1>1. IInv => ActsAsItsCaller
  <2> SUFFICES ASSUME IInv, NEW c \in Call, call[c].sent, dep.transport = "http"
               PROVE  LET id == Identity(dep, call[c].who, call[c].wiki) IN
                      /\ id = "configured" => dep.fallback
                      /\ id = "caller" => IF dep.proxy THEN call[c].wiki = Default ELSE dep.passthrough
                      /\ dep.proxy /\ Writes(call[c].tool) => id = "caller"
    BY DEF ActsAsItsCaller
  <2>1. call[c] \in CallState /\ Counted(call[c]) /\ WhoFits(call[c])
    BY CallKnown
  <2>2. server.started
    BY <2>1, CallAssumption DEF Counted, WhoFits, Waiting
  <2>3. ~Blocks(dep)
    BY <2>2 DEF IInv, StartSaid
  <2>4. Identity(dep, call[c].who, call[c].wiki) = "configured" => dep.fallback
    BY <2>1, <2>3 DEF Identity, Blocks, CallState
  <2>5. Identity(dep, call[c].who, call[c].wiki) = "caller" =>
          IF dep.proxy THEN call[c].wiki = Default ELSE dep.passthrough
    BY <2>1 DEF Identity, HasToken, WhoFits
  <2>6. dep.proxy /\ Writes(call[c].tool) => Identity(dep, call[c].who, call[c].wiki) = "caller"
    BY <2>1 DEF WhoFits
  <2> QED
    BY <2>4, <2>5, <2>6
<1> QED
  BY <1>1, Invariant, PTL

(* A write answered by a refusal, a failed connection or the deadline was    *)
(* not applied and never will be, or the answer says that it may have been   *)
(* (WRITE_TIMEOUT_CAVEAT, WikiTimeoutError), for any number of attempts; but *)
(* not when it is the session for reading the outcome that did not connect.  *)
THEOREM CaveatIsHonestHolds == Spec => []CaveatIsHonest
<1>1. IInv => CaveatIsHonest
  <2> SUFFICES ASSUME IInv, NEW c \in Call, Writes(call[c].tool), ~call[c].caveat,
                      ~UntoldTimeout(c),
                      call[c].answer \in {"refused", "authentication", "connectTimeout", "timeout"}
               PROVE  call[c].applied = 0 /\ call[c].transit = 0
    BY DEF CaveatIsHonest
  <2>1. call[c] \in CallState /\ Counted(call[c]) /\ AnswerFits(call[c])
    BY CallKnown
  <2>2. call[c].attempt = 0
    BY <2>1 DEF AnswerFits, UntoldTimeout
  <2> QED
    BY <2>1, <2>2 DEF Counted, CallState
<1> QED
  BY <1>1, Invariant, PTL

(* The warning of the start is right about every deployment of any wikis     *)
(* (checkHttpDeployment).                                                    *)
THEOREM StrandedIsWarnedHolds == Spec => []StrandedIsWarned
<1>1. IInv => StrandedIsWarned
  <2> SUFFICES ASSUME IInv, server.started, dep.transport = "http", ~dep.proxy, ~dep.passthrough
               PROVE  server.warned = {} <=> \A w \in Wiki : Served(dep, w)
    BY DEF StrandedIsWarned
  <2>1. ~Blocks(dep) /\ server.warned = Stranded(dep)
    BY DEF IInv, StartSaid
  <2> QED
    BY <2>1, DeploymentTyped, WarningIsRight DEF IInv
<1> QED
  BY <1>1, Invariant, PTL

-----------------------------------------------------------------------------
(***************************************************************************)
(* Rereading on (ResultPages), for any lists, limits, titles and budget.      *)
(*                                                                         *)
(* A caller who follows every answer to the end has been given, or told of, *)
(* everything but what the four answers of NothingIsLost pass over.  The     *)
(* invariant says where each item is meanwhile: it is with the caller, or he *)
(* was told that it fits no answer, or it was passed over, or it lies ahead  *)
(* of where his next calls will read.                                       *)
(***************************************************************************)

Below == {pair \in Nat \X Nat : pair[1] < pair[2]}

LEMMA LeastElement ==
  ASSUME NEW S \in SUBSET Nat, S # {}
  PROVE  \E n \in S : \A m \in S : n <= m
<1>1. IsWellFoundedOn(Below, Nat)
  BY NatLessThanWellFounded, Zenon DEF OpToRel, Below
<1>2. PICK n \in S : \A m \in S : <<m, n>> \notin Below
  BY <1>1, WFMin
<1>3. \A m, k \in Nat : m < k => <<m, k>> \in Below
  BY DEF Below
<1>4. \A m \in S : ~(m < n)
  BY <1>2, <1>3, Zenon
<1> QED
  BY <1>4

LEMMA GreatestElement ==
  ASSUME NEW b \in Nat, NEW S \in SUBSET (0 .. b), S # {}
  PROVE  \E n \in S : \A m \in S : m <= n
<1> DEFINE T == {k \in 0 .. b : b - k \in S}
<1>1. T \in SUBSET Nat
  OBVIOUS
<1>2. T # {}
  <2>1. PICK n \in S : TRUE
    OBVIOUS
  <2>2. b - n \in T
    BY <2>1
  <2> QED BY <2>2
<1>3. PICK k \in T : \A m \in T : k <= m
  <2> HIDE DEF T
  <2> QED BY <1>1, <1>2, LeastElement
<1>4. ASSUME NEW m \in S PROVE m <= b - k
  <2>1. b - m \in T
    OBVIOUS
  <2>2. k <= b - m
    BY <1>3, <2>1
  <2> QED BY <2>2
<1> QED
  BY <1>3, <1>4

Summed(sum, sizes, m) == sum = [n \in 0 .. m |-> IF n = 0 THEN 0 ELSE sum[n - 1] + sizes[n]]

LEMMA SumsExist ==
  ASSUME NEW sizes, NEW m \in Nat
  PROVE  \E sum : Summed(sum, sizes, m)
<1> DEFINE T == {n \in Nat : ~\E sum : Summed(sum, sizes, n)}
<1>1. SUFFICES ASSUME T # {} PROVE FALSE
  OBVIOUS
<1>2. PICK n \in T : \A k \in T : n <= k
  <2> T \in SUBSET Nat
    OBVIOUS
  <2> HIDE DEF T
  <2> QED BY <1>1, LeastElement
<1>3. CASE n = 0
  <2>1. Summed([k \in 0 .. 0 |-> 0], sizes, 0)
    BY DEF Summed
  <2> QED BY <1>2, <1>3, <2>1
<1>4. CASE n # 0
  <2>1. n - 1 \in Nat /\ n - 1 \notin T
    BY <1>2, <1>4
  <2>2. PICK sum : Summed(sum, sizes, n - 1)
    BY <2>1
  <2> DEFINE more == [k \in 0 .. n |-> IF k = n THEN sum[n - 1] + sizes[n] ELSE sum[k]]
  <2>3. \A k \in 0 .. n : more[k] = IF k = 0 THEN 0 ELSE more[k - 1] + sizes[k]
    BY <2>1, <2>2, <1>4 DEF Summed
  <2>4. Summed(more, sizes, n)
    BY <2>3 DEF Summed
  <2> QED BY <1>2, <2>4
<1> QED BY <1>3, <1>4

LEMMA SumsSummed ==
  ASSUME NEW sizes \in Seq(Nat)
  PROVE  Summed(Sums(sizes), sizes, Len(sizes))
<1>1. \E sum : Summed(sum, sizes, Len(sizes))
  <2>1. Len(sizes) \in Nat
    OBVIOUS
  <2> QED BY <2>1, SumsExist
<1> QED BY <1>1 DEF Sums, Summed

LEMMA SumsRecursion ==
  ASSUME NEW sizes \in Seq(Nat)
  PROVE  /\ Sums(sizes)[0] = 0
         /\ \A n \in 1 .. Len(sizes) : Sums(sizes)[n] = Sums(sizes)[n - 1] + sizes[n]
<1> DEFINE sums == Sums(sizes)
<1>1. sums = [n \in 0 .. Len(sizes) |-> IF n = 0 THEN 0 ELSE sums[n - 1] + sizes[n]]
  BY SumsSummed DEF Summed
<1> HIDE DEF sums
<1>2. Len(sizes) \in Nat
  OBVIOUS
<1>3. sums[0] = 0
  BY <1>1, <1>2
<1>4. ASSUME NEW n \in 1 .. Len(sizes) PROVE sums[n] = sums[n - 1] + sizes[n]
  BY <1>1, <1>2
<1> QED
  BY <1>3, <1>4 DEF sums

LEMMA SumsGrow ==
  ASSUME NEW sizes \in Seq(Nat)
  PROVE  /\ \A n \in 0 .. Len(sizes) : Sums(sizes)[n] \in Nat
         /\ \A n \in 0 .. Len(sizes) : Sums(sizes)[n] <= Total(sizes)
<1> DEFINE sums == Sums(sizes)
<1>1. Len(sizes) \in Nat /\ sums[0] = 0
  BY SumsRecursion
<1>2. \A n \in 1 .. Len(sizes) : sums[n] = sums[n - 1] + sizes[n] /\ sizes[n] \in Nat
  BY SumsRecursion
<1> HIDE DEF sums
<1>3. \A n \in 0 .. Len(sizes) : sums[n] \in Nat
  <2> DEFINE T == {n \in 0 .. Len(sizes) : sums[n] \notin Nat}
  <2>1. SUFFICES ASSUME T # {} PROVE FALSE
    OBVIOUS
  <2>2. T \in SUBSET Nat
    BY <1>1
  <2>3. PICK n \in T : \A m \in T : n <= m
    <3> HIDE DEF T
    <3> QED BY <2>1, <2>2, LeastElement
  <2>4. n \in 1 .. Len(sizes) /\ n - 1 \in 0 .. Len(sizes) /\ n - 1 \notin T
    BY <1>1, <2>3
  <2>5. sums[n - 1] \in Nat /\ sums[n] \notin Nat
    BY <2>3, <2>4
  <2>6. sums[n] = sums[n - 1] + sizes[n] /\ sizes[n] \in Nat
    BY <1>2, <2>4
  <2> QED BY <2>5, <2>6
<1>4. \A n \in 0 .. Len(sizes) : sums[n] <= sums[Len(sizes)]
  <2> DEFINE T == {n \in 0 .. Len(sizes) : ~(sums[n] <= sums[Len(sizes)])}
  <2>1. SUFFICES ASSUME T # {} PROVE FALSE
    OBVIOUS
  <2>2. T \in SUBSET (0 .. Len(sizes))
    OBVIOUS
  <2>3. PICK n \in T : \A m \in T : m <= n
    <3> HIDE DEF T
    <3> QED BY <1>1, <2>1, <2>2, GreatestElement
  <2>4. n # Len(sizes)
    BY <1>3, <1>1, <2>3
  <2>5. n + 1 \in 1 .. Len(sizes) /\ n + 1 \notin T
    BY <1>1, <2>3, <2>4
  <2>6. sums[n + 1] = sums[n] + sizes[n + 1] /\ sizes[n + 1] \in Nat
    BY <1>2, <2>5, <1>1
  <2>7. sums[n + 1] <= sums[Len(sizes)]
    BY <2>5
  <2>8. n \in 0 .. Len(sizes) /\ sums[n] \in Nat /\ sums[n + 1] \in Nat /\ sums[Len(sizes)] \in Nat
    BY <1>1, <1>3, <2>3, <2>5
  <2>9. ~(sums[n] <= sums[Len(sizes)])
    BY <2>3
  <2>10. sums[n] <= sums[n + 1]
    BY <2>6, <2>8
  <2> QED BY <2>7, <2>8, <2>9, <2>10
<1> QED
  BY <1>3, <1>4 DEF sums, Total

LEMMA FittingPrefixFits ==
  ASSUME NEW sizes \in Seq(Nat), NEW max \in Nat, NEW kept, kept = FittingPrefix(sizes, max)
  PROVE  /\ kept \in 0 .. Len(sizes)
         /\ kept = 0 /\ sizes # <<>> => sizes[1] > max
<1> DEFINE sums == Sums(sizes)
           fitting == {n \in 0 .. Len(sizes) : n = 0 \/ sums[n] + n - 1 <= max}
<1>1. Len(sizes) \in Nat /\ fitting \in SUBSET (0 .. Len(sizes)) /\ 0 \in fitting
  OBVIOUS
<1>2. \E n \in fitting : \A m \in fitting : n >= m
  <2> HIDE DEF fitting
  <2>1. \E n \in fitting : \A m \in fitting : m <= n
    BY <1>1, GreatestElement
  <2> QED BY <1>1, <2>1
<1>3. kept \in fitting /\ \A m \in fitting : kept >= m
  <2>1. kept = Max(fitting)
    BY DEF FittingPrefix
  <2> HIDE DEF fitting
  <2> QED BY <1>2, <2>1, Zenon DEF Max
<1>4. ASSUME kept = 0, sizes # <<>> PROVE sizes[1] > max
  <2>1. 1 \in 1 .. Len(sizes) /\ sizes[1] \in Nat
    BY <1>4
  <2>2. sums[1] = sizes[1]
    <3> HIDE DEF sums
    <3>1. sums[0] = 0 /\ sums[1] = sums[0] + sizes[1]
      BY <2>1, SumsRecursion DEF sums
    <3> QED BY <2>1, <3>1
  <2>3. 1 \notin fitting
    BY <1>3, <1>4, <1>1
  <2> HIDE DEF sums
  <2> QED BY <2>1, <2>2, <2>3
<1> QED
  BY <1>1, <1>3, <1>4

LEMMA CapRowsKept ==
  ASSUME NEW sizes \in Seq(Nat), NEW capped, capped = CapRowsByBytes(sizes)
  PROVE  /\ capped.kept \in 0 .. Len(sizes) /\ capped.truncated \in BOOLEAN
         /\ ~capped.truncated => capped.kept = Len(sizes)
         /\ capped.truncated /\ capped.kept = 0 => sizes # <<>> /\ sizes[1] > Budget
<1> DEFINE kept == FittingPrefix(sizes, Budget)
<1>1. kept \in 0 .. Len(sizes) /\ (kept = 0 /\ sizes # <<>> => sizes[1] > Budget)
  BY FittingPrefixFits, BoundsAssumption
<1>2. capped = [kept |-> kept, truncated |-> kept < Len(sizes)]
  BY DEF CapRowsByBytes
<1> HIDE DEF kept
<1>3. capped.kept = kept /\ capped.truncated \in BOOLEAN /\ (capped.truncated <=> kept < Len(sizes))
  <2>1. capped.kept = kept /\ capped.truncated = (kept < Len(sizes))
    BY <1>2
  <2>2. (kept < Len(sizes)) \in BOOLEAN
    OBVIOUS
  <2> QED BY <2>1, <2>2, Zenon
<1>4. Len(sizes) \in Nat /\ (sizes = <<>> => Len(sizes) = 0)
  OBVIOUS
<1>5. ~capped.truncated => capped.kept = Len(sizes)
  BY <1>1, <1>3, <1>4
<1>6. capped.truncated => sizes # <<>>
  BY <1>1, <1>3, <1>4
<1> QED
  BY <1>1, <1>3, <1>5, <1>6

LEMMA CapLinesKept ==
  ASSUME NEW sizes \in Seq(Nat), NEW capped, capped = CapLinesByBytes(sizes)
  PROVE  /\ capped.kept \in 0 .. Len(sizes) /\ capped.truncated \in BOOLEAN
         /\ ~capped.truncated => capped.kept = Len(sizes)
         /\ capped.truncated => sizes # <<>> /\ Total(sizes) + Len(sizes) - 1 > Budget
         /\ capped.kept = 0 /\ sizes # <<>> => sizes[1] > Budget
<1> DEFINE kept == FittingPrefix(sizes, Budget)
<1>1. kept \in 0 .. Len(sizes) /\ (kept = 0 /\ sizes # <<>> => sizes[1] > Budget)
  BY FittingPrefixFits, BoundsAssumption
<1>2. Len(sizes) \in Nat /\ (sizes = <<>> <=> Len(sizes) = 0) /\ Budget \in Nat
  BY BoundsAssumption
<1>3. Total(sizes) \in Nat
  <2> Len(sizes) \in 0 .. Len(sizes)
    BY <1>2
  <2> QED BY SumsGrow DEF Total
<1>4. CASE sizes = <<>> \/ Total(sizes) + Len(sizes) - 1 <= Budget
  <2>1. capped = [kept |-> Len(sizes), truncated |-> FALSE]
    BY <1>4 DEF CapLinesByBytes
  <2>2. capped.kept = Len(sizes) /\ ~capped.truncated /\ capped.truncated \in BOOLEAN
    BY <2>1
  <2> QED BY <1>2, <2>2
<1>5. CASE ~(sizes = <<>> \/ Total(sizes) + Len(sizes) - 1 <= Budget)
  <2>1. capped = [kept |-> kept, truncated |-> TRUE]
    BY <1>5 DEF CapLinesByBytes
  <2> HIDE DEF kept
  <2>2. capped.kept = kept /\ capped.truncated /\ capped.truncated \in BOOLEAN
    BY <2>1
  <2> QED BY <1>1, <1>2, <1>3, <1>5, <2>2
<1> QED
  BY <1>4, <1>5

(* What became of an item: it was delivered, or the caller was told that it   *)
(* cannot be, or it is among what an answer left out without a word.         *)
Settled(id) == id \in got \/ (id \in beyond /\ ~Fits(id)) \/ id \in unsaid

(* What the next calls will come to.                                         *)
AheadOfOffset(id) == \E i \in DOMAIN rows : rows[i].id = id /\ i > request.cursor
Brings(i, id) == rows[i].id = id \/ (tool = "get-links-here" /\ id \in rows[i].via)
AheadOfCursor(id) ==
    \E i \in DOMAIN rows : Brings(i, id) /\ (request.cursor # None => i >= At(request.cursor))
AheadInHistory(id) == \E i \in ButBoundary(Matching) : rows[i].id = id
AheadInTitles(id) ==
    \E i \in request.asked : IF Missing(id) THEN Title(i) = id
                             ELSE ResolveChain(Title(i)) = ResolveChain(id)
AheadInTodo(id) ==
    \/ id \in todo \/ -1 \in todo \/ (tool = "wikibase-get-entity" /\ 0 \in todo)
    \/ tool = "get-page" /\ \E section \in Ids(rows) : todo = {section} /\ id \in OwnIds(PartsOf(section))

Ahead(id) ==
    /\ tool \in OffsetTools => AheadOfOffset(id)
    /\ tool \in CursorTools => AheadOfCursor(id)
    /\ tool = "get-page-history" => AheadInHistory(id)
    /\ tool = "get-pages" => AheadInTitles(id)
    /\ tool \in {"get-page", "wikibase-get-entity"} => AheadInTodo(id)

Covered ==
    /\ phase = "reading" => \A id \in wanted : Settled(id) \/ Ahead(id)
    /\ phase = "done" => \A id \in wanted : Settled(id)

RowsOK ==
    /\ rows \in Seq(Row)
    /\ \A i, j \in DOMAIN rows : rows[i].id = rows[j].id => i = j
    /\ \A i \in DOMAIN rows :
          /\ rows[i].id < FirstAdded + Len(rows)
          /\ tool # "get-page" => rows[i].id > 0
          /\ tool = "wikibase-get-entity" => rows[i].id = i
    /\ tool = "get-page" => rows # <<>> /\ rows[1].id = 0 /\ rows[1].listed

Files == [mime : Mimes, renders : BOOLEAN, extracts : BOOLEAN, fits : BOOLEAN, long : BOOLEAN]
Request ==
    [limit : Limits, narrowed : BOOLEAN, cursor : Int, newer : BOOLEAN, contains : BOOLEAN,
     titles : Titles \cup {<<>>}, asked : SUBSET Nat, alias : Aliases \cup {<<>>}, format : Formats, file : Files \cup {[mime |-> "other"]}]

(* Where a caller may be in what he reads.                                   *)
RequestOK ==
    /\ request \in Request
    /\ request.asked \subseteq DOMAIN request.titles
    /\ tool \in OffsetTools => request.cursor >= -1
    /\ tool \in CursorTools \cup {"get-page-history"} /\ request.cursor # None =>
          \E i \in DOMAIN rows : rows[i].id = request.cursor
    /\ tool = "get-file-content" => request.file \in Files

TodoOK ==
    /\ tool = "get-page" => todo \subseteq Ids(rows) \cup {-1} /\ (-1 \in todo => todo = {-1})
    /\ tool = "wikibase-get-entity" => todo \subseteq Ids(rows) \cup {0} /\ (0 \in todo => todo = {0})
    /\ tool \in {"get-page", "wikibase-get-entity"} => \A id \in beyond : Settled(id)

WantedOK ==
    /\ tool \in OffsetTools \cup MatchTools \cup {"wikibase-get-entity"} => wanted \subseteq Ids(rows)
    /\ tool = "get-page" => wanted \subseteq OwnIds(rows)
    /\ tool = "get-file-content" => wanted = SelectForms(request.format, request.file.mime)

ReadIInv ==
    /\ tool \in Tools /\ RowsOK /\ RequestOK /\ TodoOK /\ WantedOK /\ Covered


LEMMA FitsKept ==
  ASSUME NEW id,
         UNCHANGED <<tool, rows, wanted>>,
         request'.alias = request.alias, request'.file = request.file
  PROVE  Fits(id)' <=> Fits(id)
<1>1. At(id)' = At(id)
  BY DEF At
<1>2. Missing(id)' <=> Missing(id)
  BY DEF Missing, ResolveChain, Ids
<1>3. SizeOf(id)' = SizeOf(id)
  BY DEF SizeOf, At, ResolveChain
<1>4. Convertible(request.file, "url")' = Convertible(request.file, "url")
  BY DEF Convertible
<1> QED
  BY <1>1, <1>2, <1>3, <1>4, Zenon DEF Fits

LEMMA CoveredStep ==
  ASSUME Covered, phase = "reading", phase' \in {"reading", "done"},
         UNCHANGED <<tool, rows, wanted>>,
         request'.alias = request.alias, request'.file = request.file,
         got \subseteq got', beyond \subseteq beyond', unsaid \subseteq unsaid',
         \A id \in wanted : Ahead(id) => Settled(id)' \/ (phase' = "reading" /\ Ahead(id)')
  PROVE  Covered'
<1>1. \A id \in wanted : Settled(id) => Settled(id)'
  BY FitsKept, Zenon DEF Settled
<1>2. \A id \in wanted : Settled(id) \/ Ahead(id)
  BY DEF Covered
<1>3. \A id \in wanted : Settled(id)' \/ (phase' = "reading" /\ Ahead(id)')
  BY <1>1, <1>2
<1> QED
  BY <1>3 DEF Covered

SameBut(field) ==
    \A other \in {"limit", "narrowed", "cursor", "newer", "contains", "titles", "asked", "alias", "format",
                   "file"} \ {field} :
       request'[other] = request[other]

LEMMA RequestChanges ==
  ASSUME request \in Request
  PROVE  /\ \A cursor \in Int :
               request' = [request EXCEPT !.cursor = cursor] =>
                 request' \in Request /\ request'.cursor = cursor /\ SameBut("cursor")
         /\ request' = [request EXCEPT !.narrowed = TRUE] =>
               request' \in Request /\ SameBut("narrowed")
         /\ \A asked \in SUBSET Nat :
               request' = [request EXCEPT !.asked = asked] =>
                 request' \in Request /\ request'.asked = asked /\ SameBut("asked")
         /\ \A limit \in Limits :
               request' = [request EXCEPT !.limit = limit] =>
                 request' \in Request /\ request'.limit = limit /\ SameBut("limit")
         /\ request' = request => request' \in Request /\ SameBut("none")
<1>1. ASSUME NEW cursor \in Int, request' = [request EXCEPT !.cursor = cursor]
      PROVE  request' \in Request /\ request'.cursor = cursor /\ SameBut("cursor")
  BY <1>1 DEF Request, SameBut
<1>2. ASSUME request' = [request EXCEPT !.narrowed = TRUE]
      PROVE  request' \in Request /\ SameBut("narrowed")
  BY <1>2 DEF Request, SameBut
<1>3. ASSUME NEW asked \in SUBSET Nat, request' = [request EXCEPT !.asked = asked]
      PROVE  request' \in Request /\ request'.asked = asked /\ SameBut("asked")
  BY <1>3 DEF Request, SameBut
<1>4. ASSUME NEW limit \in Limits, request' = [request EXCEPT !.limit = limit]
      PROVE  request' \in Request /\ request'.limit = limit /\ SameBut("limit")
  BY <1>4 DEF Request, SameBut
<1>5. ASSUME request' = request PROVE request' \in Request /\ SameBut("none")
  BY <1>5 DEF SameBut
<1> QED
  BY <1>1, <1>2, <1>3, <1>4, <1>5

LEMMA SliceOf ==
  ASSUME NEW S, NEW seq \in Seq(S), NEW m \in Nat, NEW n \in Nat, 1 <= m, m <= n + 1, n <= Len(seq)
  PROVE  /\ SubSeq(seq, m, n) \in Seq(S)
         /\ Len(SubSeq(seq, m, n)) = n - m + 1
         /\ DOMAIN SubSeq(seq, m, n) = 1 .. n - m + 1
         /\ \A i \in 1 .. n - m + 1 : SubSeq(seq, m, n)[i] = seq[m + i - 1]
<1>1. SubSeq(seq, m, n) \in Seq(S)
  OBVIOUS
<1>2. Len(SubSeq(seq, m, n)) = n - m + 1
  OBVIOUS
<1>3. DOMAIN SubSeq(seq, m, n) = 1 .. n - m + 1
  BY <1>1, <1>2
<1>4. \A i \in 1 .. n - m + 1 : SubSeq(seq, m, n)[i] = seq[m + i - 1]
  OBVIOUS
<1> QED
  BY <1>1, <1>2, <1>3, <1>4, Zenon

IsPart(part, seq, n, m) ==
    /\ part \in Seq(Row) /\ Len(part) \in 0 .. m
    /\ DOMAIN part = 1 .. Len(part)
    /\ n + Len(part) <= Len(seq) \/ Len(part) = 0
    /\ n + Len(part) >= Len(seq) \/ Len(part) = m
    /\ \A i \in 1 .. Len(part) : n + i \in DOMAIN seq /\ part[i] = seq[n + i]

LEMMA PartOfList ==
  ASSUME NEW seq \in Seq(Row), NEW n \in Nat, NEW m \in Nat
  PROVE  IsPart(Take(Drop(seq, n), m), seq, n, m)
<1> DEFINE part == Take(Drop(seq, n), m)
<1> DEFINE rest == Drop(seq, n)
<1>1. rest \in Seq(Row) /\ Len(seq) \in Nat /\ Len(rest) = IF n < Len(seq) THEN Len(seq) - n ELSE 0
  BY DEF Drop
<1>2. \A i \in 1 .. Len(rest) : rest[i] = seq[n + i]
  BY DEF Drop
<1> HIDE DEF rest
<1> DEFINE k == AtMost(m, Len(rest))
<1>3. part = SubSeq(rest, 1, k)
  BY DEF Take, rest
<1> HIDE DEF part
<1>4. k \in 0 .. Len(rest) /\ k \in 0 .. m /\ (k = m \/ k = Len(rest))
  BY <1>1 DEF AtMost
<1> HIDE DEF k
<1>5. part \in Seq(Row) /\ Len(part) = k
  BY <1>1, <1>3, <1>4
<1>6. \A i \in 1 .. k : part[i] = rest[i]
  BY <1>1, <1>3, <1>4
<1>7. n + k <= Len(seq) \/ k = 0
  BY <1>1, <1>4
<1>8. n + k >= Len(seq) \/ k = m
  BY <1>1, <1>4
<1>9. ASSUME NEW i \in 1 .. k PROVE n + i \in DOMAIN seq /\ part[i] = seq[n + i]
  <2>1. i \in 1 .. Len(rest) /\ n + i \in 1 .. Len(seq)
    BY <1>1, <1>4
  <2>2. part[i] = seq[n + i]
    BY <1>2, <1>6, <2>1
  <2> QED BY <2>1, <2>2
<1> QED
  BY <1>4, <1>5, <1>7, <1>8, <1>9 DEF IsPart, part

LEMMA SizesOfRows ==
  ASSUME NEW part \in Seq(Row), request \in Request
  PROVE  /\ Sizes(part) \in Seq(Nat) /\ Len(Sizes(part)) = Len(part)
         /\ \A i \in 1 .. Len(part) : Sizes(part)[i] <= part[i].size
<1>1. \A i \in 1 .. Len(part) : part[i].size \in Nat
  <2>1. \A i \in 1 .. Len(part) : part[i] \in Row
    OBVIOUS
  <2> QED BY <2>1 DEF Row
<1>2. request.narrowed \in BOOLEAN
  BY DEF Request
<1>3. \A i \in 1 .. Len(part) : Size(part[i]) \in Nat /\ Size(part[i]) <= part[i].size
  BY <1>1, <1>2 DEF Size
<1>4. Sizes(part) = [i \in 1 .. Len(part) |-> Size(part[i])]
  BY DEF Sizes
<1>5. Len(part) \in Nat
  OBVIOUS
<1> QED
  BY <1>3, <1>4, <1>5

LEMMA AtOf ==
  ASSUME RowsOK, NEW i \in DOMAIN rows
  PROVE  At(rows[i].id) = i
BY DEF RowsOK, At

(* The marker of a page of rows says where the first row left out is, or that *)
(* it is too large.                                                          *)
MarkerSays(marker, capped, offset, next) ==
    \/ /\ marker.reason = "content-truncated" /\ marker.next = offset + 1
       /\ capped.truncated /\ capped.kept = 0
    \/ /\ marker.reason = "more-available" /\ marker.next = offset + capped.kept
       /\ capped.truncated /\ capped.kept > 0
    \/ marker.reason = "more-available" /\ marker.next = next /\ ~capped.truncated /\ next # 0
    \/ marker.reason = "none" /\ ~capped.truncated /\ next = 0

LEMMA RowPageTruncationSays ==
  ASSUME NEW offset \in Nat, NEW next \in Nat, NEW capped,
         capped.kept \in Nat, capped.truncated \in BOOLEAN
  PROVE  MarkerSays(RowPageTruncation(capped, offset, next), capped, offset, next)
<1>1. CASE capped.truncated /\ capped.kept = 0
  BY <1>1 DEF RowPageTruncation, None, MarkerSays
<1>2. CASE capped.truncated /\ capped.kept > 0
  BY <1>2 DEF RowPageTruncation, None, MarkerSays
<1>3. CASE ~capped.truncated /\ next # 0
  BY <1>3 DEF RowPageTruncation, None, MarkerSays
<1>4. CASE ~capped.truncated /\ next = 0
  BY <1>4 DEF RowPageTruncation, None, MarkerSays
<1> QED
  BY <1>1, <1>2, <1>3, <1>4

LEMMA LimitOK ==
  ASSUME request \in Request
  PROVE  request.limit \in Nat \ {0} /\ request.cursor \in Int
<1>1. request.limit \in Limits /\ request.cursor \in Int
  BY DEF Request
<1>2. Limits \subseteq Nat \ {0}
  BY ReadingAssumption, Zenon
<1> QED
  BY <1>1, <1>2

LEMMA NextOffsetIs ==
  ASSUME NEW of, NEW offset \in Nat, NEW fetched \in Seq(Row), rows \in Seq(Row),
         request \in Request, NEW next, next = NextOffset(of, fetched, offset)
  PROVE  \/ next = offset + Len(fetched)
         \/ next = 0 /\ (Len(fetched) < request.limit \/ offset + Len(fetched) >= Len(rows))
<1>1. Len(fetched) \in Nat /\ Len(rows) \in Nat /\ request.limit \in Nat
  BY LimitOK
<1>2. CASE of = "smw-query"
  <2>1. next = QueryContinueOffset(fetched, offset)
    BY <1>2 DEF NextOffset
  <2> QED BY <1>1, <2>1 DEF QueryContinueOffset, None
<1>3. CASE of # "smw-query"
  <2>1. next = AfterFullPage(fetched, offset)
    BY <1>3 DEF NextOffset
  <2> QED BY <1>1, <2>1 DEF AfterFullPage, None
<1> QED
  BY <1>2, <1>3

(* What a call in progress stays with, and what it leaves alone.             *)
Going == phase = "reading" /\ UNCHANGED <<tool, rows, wanted>>

LEMMA FrameKept ==
  ASSUME ReadIInv, UNCHANGED <<tool, rows, wanted>>
  PROVE  (tool \in Tools)' /\ RowsOK' /\ Ids(rows)' = Ids(rows)
         /\ (\A i \in DOMAIN rows : At(rows[i].id)' = i)
<1>1. (tool \in Tools)' /\ RowsOK'
  BY DEF ReadIInv, RowsOK
<1>2. Ids(rows)' = Ids(rows)
  BY DEF Ids
<1>3. \A id : At(id)' = At(id)
  BY DEF At
<1> QED
  BY <1>1, <1>2, <1>3, AtOf DEF ReadIInv

LEMMA OffsetStep ==
  ASSUME ReadIInv, Going, tool \in OffsetTools, todo' = todo,
         request'.alias = request.alias, request'.file = request.file,
         request' \in Request, request'.asked = request.asked, request'.titles = request.titles,
         request'.cursor >= -1, phase' \in {"reading", "done"},
         got \subseteq got', beyond \subseteq beyond', unsaid \subseteq unsaid',
         \A i \in DOMAIN rows : i > request.cursor =>
             \/ rows[i].id \in got'
             \/ rows[i].id \in beyond' /\ ~Fits(rows[i].id)
             \/ rows[i].id \in unsaid'
             \/ phase' = "reading" /\ i > request'.cursor
  PROVE  ReadIInv'
<1>1. Covered'
  <2>1. ASSUME NEW id \in wanted, Ahead(id)
        PROVE  Settled(id)' \/ (phase' = "reading" /\ Ahead(id)')
    <3>1. PICK i \in DOMAIN rows : rows[i].id = id /\ i > request.cursor
      BY <2>1 DEF Ahead, AheadOfOffset
    <3>2. CASE id \in got' \/ id \in unsaid'
      BY <3>2 DEF Settled
    <3>3. CASE id \in beyond' /\ ~Fits(id)
      BY <3>3, FitsKept DEF Settled, Going
    <3>4. CASE phase' = "reading" /\ i > request'.cursor
      <4>1. tool' \in OffsetTools /\ AheadOfOffset(id)'
        BY <3>1, <3>4 DEF Going, AheadOfOffset
      <4>2. Ahead(id)'
        BY <4>1 DEF Ahead, OffsetTools, CursorTools
      <4> QED BY <3>4, <4>2
    <3> QED BY <3>1, <3>2, <3>3, <3>4
  <2> QED BY <2>1, CoveredStep DEF ReadIInv, Going
<1>2. RequestOK'
  BY DEF ReadIInv, RequestOK, Going, OffsetTools, CursorTools
<1>3. TodoOK' /\ WantedOK'
  BY FrameKept DEF ReadIInv, TodoOK, WantedOK, Going, OffsetTools, MatchTools
<1> QED
  BY <1>1, <1>2, <1>3, FrameKept DEF ReadIInv, Going

LEMMA IdsMember ==
  ASSUME NEW seq \in Seq(Row), NEW i \in 1 .. Len(seq)
  PROVE  seq[i].id \in Ids(seq)
BY DEF Ids

LEMMA TakeLess ==
  ASSUME NEW seq \in Seq(Row), NEW n \in 0 .. Len(seq)
  PROVE  \A i \in 1 .. n : seq[i].id \in Ids(Take(seq, n))
<1>1. AtMost(n, Len(seq)) = n
  BY DEF AtMost
<1>2. Take(seq, n) \in Seq(Row) /\ Len(Take(seq, n)) = n /\ \A i \in 1 .. n : Take(seq, n)[i] = seq[i]
  BY <1>1 DEF Take
<1> HIDE DEF Take
<1> QED
  BY <1>2, IdsMember

(* Whatever order the rows of a page are in, they are the rows of the page.   *)
Reordered(order, part) ==
    /\ order \in Seq(Row) /\ Len(order) = Len(part)
    /\ \A k \in 1 .. Len(part) : \E i \in 1 .. Len(part) : order[k] = part[i]

LEMMA OrderOf ==
  ASSUME NEW of, NEW part \in Seq(Row), NEW order \in Orders(of, part)
  PROVE  Reordered(order, part)
<1>1. CASE of # "smw-query"
  BY <1>1 DEF Orders, Reordered
<1>2. CASE of = "smw-query"
  <2>1. PICK place \in [DOMAIN part -> DOMAIN part] : order = [k \in DOMAIN part |-> part[place[k]]]
    BY <1>2 DEF Orders
  <2>2. DOMAIN part = 1 .. Len(part) /\ Len(part) \in Nat
    OBVIOUS
  <2>3. \A k \in 1 .. Len(part) : place[k] \in 1 .. Len(part) /\ order[k] = part[place[k]] /\ part[place[k]] \in Row
    BY <2>1, <2>2
  <2>4. order = [k \in 1 .. Len(part) |-> part[place[k]]]
    BY <2>1, <2>2
  <2>5. order \in Seq(Row) /\ Len(order) = Len(part)
    BY <2>2, <2>3, <2>4
  <2> QED BY <2>3, <2>5 DEF Reordered
<1> QED
  BY <1>1, <1>2

LEMMA AtMostOne ==
  ASSUME NEW n \in Nat, n >= 1
  PROVE  AtMost(1, n) = 1
BY DEF AtMost

LEMMA TakeOne ==
  ASSUME NEW seq \in Seq(Row), Len(seq) >= 1
  PROVE  Ids(Take(seq, 1)) = {seq[1].id}
<1>0. Len(seq) \in Nat
  OBVIOUS
<1>1. AtMost(1, Len(seq)) = 1
  BY <1>0, AtMostOne
<1>2. Take(seq, 1) = SubSeq(seq, 1, 1) /\ Len(SubSeq(seq, 1, 1)) = 1 /\ SubSeq(seq, 1, 1)[1] = seq[1]
  BY <1>1 DEF Take
<1>3. SubSeq(seq, 1, 1) \in Seq(Row) /\ DOMAIN SubSeq(seq, 1, 1) = {1}
  BY <1>2
<1> HIDE DEF Take
<1> QED BY <1>2, <1>3 DEF Ids

ReadsOn(part, order, capped, marker) ==
    /\ capped.kept \in Nat
    /\ \A i \in 1 .. capped.kept : rows[request.cursor + i].id \in Ids(Take(part, capped.kept))
    /\ \/ marker.reason = "none" /\ request.cursor + capped.kept >= Len(rows)
       \/ marker.reason = "more-available" /\ marker.next = request.cursor + capped.kept
       \/ /\ marker.reason = "content-truncated" /\ marker.next = request.cursor + 1
          /\ capped.kept = 0 /\ request.cursor + 1 \in DOMAIN rows
          /\ rows[request.cursor + 1].id \in Ids(Take(part, 1)) /\ Ids(Take(order, 1)) = {order[1].id}
          /\ \E i \in DOMAIN rows : order[1] = rows[i] /\ rows[i].size > Budget

(* The markers of a page of rows move the caller on, past what he has, or    *)
(* past a row that fits no page.                                             *)
LEMMA RowsReadOn ==
  ASSUME RowsOK, request \in Request, NEW of, request.cursor \in Nat,
         NEW served \in Nat, served >= request.limit,
         NEW part, part = Take(Drop(rows, request.cursor), served),
         NEW order \in Orders(of, part),
         NEW capped, capped = CapRowsByBytes(Sizes(order)),
         NEW marker, marker = RowPageTruncation(capped, request.cursor, NextOffset(of, part, request.cursor))
  PROVE  ReadsOn(part, order, capped, marker)
<1>1. rows \in Seq(Row) /\ request.limit \in Nat \ {0}
  BY LimitOK DEF RowsOK
<1>13. IsPart(part, rows, request.cursor, served)
  BY <1>1, PartOfList, Zenon
<1>2. /\ part \in Seq(Row) /\ Len(part) \in 0 .. served
      /\ DOMAIN part = 1 .. Len(part)
      /\ request.cursor + Len(part) <= Len(rows) \/ Len(part) = 0
      /\ request.cursor + Len(part) >= Len(rows) \/ Len(part) = served
      /\ \A i \in 1 .. Len(part) : request.cursor + i \in DOMAIN rows /\ part[i] = rows[request.cursor + i]
  BY <1>13 DEF IsPart
<1>14. /\ order \in Seq(Row) /\ Len(order) = Len(part)
       /\ \A k \in 1 .. Len(part) : \E i \in 1 .. Len(part) : order[k] = part[i]
  <2>1. part \in Seq(Row)
    BY <1>2
  <2>2. Reordered(order, part)
    BY <2>1, OrderOf, Zenon
  <2> QED BY <2>2 DEF Reordered
<1>3. /\ Sizes(order) \in Seq(Nat) /\ Len(Sizes(order)) = Len(part)
      /\ \A i \in 1 .. Len(part) : Sizes(order)[i] <= order[i].size
  BY <1>14, SizesOfRows
<1>4. /\ capped.kept \in 0 .. Len(part) /\ capped.truncated \in BOOLEAN
      /\ ~capped.truncated => capped.kept = Len(part)
      /\ capped.truncated /\ capped.kept = 0 => Sizes(order) # <<>> /\ Sizes(order)[1] > Budget
  BY <1>3, CapRowsKept
<1> DEFINE next == NextOffset(of, part, request.cursor)
<1>5. \/ next = request.cursor + Len(part)
      \/ next = 0 /\ (Len(part) < request.limit \/ request.cursor + Len(part) >= Len(rows))
  BY <1>1, <1>2, NextOffsetIs
<1> HIDE DEF next
<1>6. next \in Nat /\ Len(rows) \in Nat /\ Len(part) \in Nat /\ capped.kept \in Nat
  BY <1>1, <1>2, <1>4, <1>5
<1>7. \A i \in 1 .. capped.kept : rows[request.cursor + i].id \in Ids(Take(part, capped.kept))
  <2>1. ASSUME NEW i \in 1 .. capped.kept PROVE part[i] = rows[request.cursor + i]
    BY <1>2, <1>4, <2>1
  <2> QED BY <1>2, <1>4, <2>1, TakeLess
<1>8. \/ /\ marker.reason = "content-truncated" /\ marker.next = request.cursor + 1
         /\ capped.truncated /\ capped.kept = 0
      \/ /\ marker.reason = "more-available" /\ marker.next = request.cursor + capped.kept
         /\ capped.truncated /\ capped.kept > 0
      \/ marker.reason = "more-available" /\ marker.next = next /\ ~capped.truncated /\ next # 0
      \/ marker.reason = "none" /\ ~capped.truncated /\ next = 0
  <2>1. MarkerSays(marker, capped, request.cursor, next)
    BY <1>4, <1>6, RowPageTruncationSays, Zenon DEF next
  <2> QED BY <2>1 DEF MarkerSays
<1>9. CASE /\ marker.reason = "content-truncated" /\ marker.next = request.cursor + 1
           /\ capped.truncated /\ capped.kept = 0
  <2>1. Len(Sizes(order)) >= 1 /\ Sizes(order)[1] > Budget
    BY <1>3, <1>4, <1>9
  <2>2. 1 \in 1 .. Len(part)
    BY <1>3, <1>6, <2>1
  <2>3. request.cursor + 1 \in DOMAIN rows /\ rows[request.cursor + 1].id \in Ids(Take(part, 1))
    BY <1>2, <2>2, TakeLess
  <2>4. PICK k \in 1 .. Len(part) : order[1] = part[k]
    BY <1>14, <2>2
  <2>5. request.cursor + k \in DOMAIN rows /\ order[1] = rows[request.cursor + k] /\ order[1] \in Row
    BY <1>2, <2>4
  <2>6. order[1].size \in Nat /\ Sizes(order)[1] \in Nat /\ Budget \in Nat
    BY <1>3, <2>1, <2>5, BoundsAssumption DEF Row
  <2>7. order[1].size > Budget
    BY <1>3, <2>1, <2>2, <2>6
  <2>8. Ids(Take(order, 1)) = {order[1].id}
    <3>1. order \in Seq(Row) /\ Len(order) = Len(part)
      BY <1>14, Zenon
    <3>2. Len(order) >= 1
      BY <3>1, <2>2, <1>6
    <3> QED BY <3>1, <3>2, TakeOne, Zenon
  <2>9. \E i \in DOMAIN rows : order[1] = rows[i] /\ rows[i].size > Budget
    BY <2>5, <2>7
  <2> QED BY <1>6, <1>7, <1>9, <2>3, <2>8, <2>9 DEF ReadsOn
<1>10. CASE marker.reason = "none" /\ ~capped.truncated /\ next = 0
  <2>1. request.cursor + capped.kept >= Len(rows)
    BY <1>1, <1>2, <1>4, <1>5, <1>6, <1>10
  <2> QED BY <1>6, <1>7, <1>10, <2>1 DEF ReadsOn
<1>11. CASE marker.reason = "more-available" /\ marker.next = next /\ ~capped.truncated /\ next # 0
  <2>1. marker.next = request.cursor + capped.kept
    BY <1>4, <1>5, <1>11
  <2> QED BY <1>6, <1>7, <1>11, <2>1 DEF ReadsOn
<1>12. CASE /\ marker.reason = "more-available" /\ marker.next = request.cursor + capped.kept
            /\ capped.truncated /\ capped.kept > 0
  BY <1>6, <1>7, <1>12 DEF ReadsOn
<1> QED
  BY <1>8, <1>9, <1>10, <1>11, <1>12

LEMMA FitsIs ==
  ASSUME NEW id
  PROVE  /\ tool \in {"cargo-query", "bucket-query", "smw-query", "wikibase-query"} =>
              (Fits(id) <=> rows[At(id)].size <= Budget)
         /\ tool = "get-page" => (Fits(id) <=> rows[At(id)].size <= Budget - 1)
         /\ tool = "get-pages" => (Fits(id) <=> ~Missing(id) /\ SizeOf(id) <= Budget)
         /\ tool = "wikibase-get-entity" => (Fits(id) <=> 1 + rows[At(id)].size <= Budget)
         /\ tool = "get-file-content" =>
              (Fits(id) <=> /\ id \in Convertible(request.file, "url")
                            /\ "image" \in wanted => request.file.fits
                            /\ id = "source" => ~request.file.long)
         /\ tool \in MatchTools => (Fits(id) <=> At(id) <= Max(Limits))
<1>1. tool \in {"cargo-query", "bucket-query", "smw-query", "wikibase-query"} =>
        (Fits(id) <=> rows[At(id)].size <= Budget)
  BY DEF Fits, MatchTools
<1>2. tool = "get-page" => (Fits(id) <=> rows[At(id)].size <= Budget - 1)
  BY DEF Fits, MatchTools
<1>3. tool = "get-pages" => (Fits(id) <=> ~Missing(id) /\ SizeOf(id) <= Budget)
  BY DEF Fits, MatchTools
<1>4. tool = "wikibase-get-entity" => (Fits(id) <=> 1 + rows[At(id)].size <= Budget)
  BY DEF Fits, MatchTools
<1>5. tool = "get-file-content" =>
              (Fits(id) <=> /\ id \in Convertible(request.file, "url")
                            /\ "image" \in wanted => request.file.fits
                            /\ id = "source" => ~request.file.long)
  BY DEF Fits, MatchTools
<1>6. tool \in MatchTools => (Fits(id) <=> At(id) <= Max(Limits))
  BY DEF Fits, MatchTools
<1> QED
  BY <1>1, <1>2, <1>3, <1>4, <1>5, <1>6

-----------------------------------------------------------------------------
(* Rows from an offset.                                                      *)

(* An offset tool's caller, where he is in the list.                         *)
LEMMA OffsetIsNat ==
  ASSUME ReadIInv, tool \in OffsetTools, ~Malformation
  PROVE  request.cursor \in Nat /\ request \in Request /\ request.asked \subseteq DOMAIN request.titles
<1>1. request \in Request /\ request.asked \subseteq DOMAIN request.titles /\ request.cursor >= -1
  BY Zenon DEF ReadIInv, RequestOK
<1>2. request.cursor # -1
  BY Zenon DEF Malformation, Malformed
<1> QED
  BY <1>1, <1>2, LimitOK

LEMMA ReadRowsKeeps ==
  ASSUME ReadIInv, NEW of \in {"cargo-query", "bucket-query", "smw-query"}, ReadRows(of)
  PROVE  ReadIInv'
<1>1. /\ Reading({of})
      /\ todo' = todo
  BY Zenon DEF ReadRows
<1>2. tool = of /\ Going /\ ~Malformation /\ phase = "reading"
  BY <1>1, Zenon DEF Reading, Going
<1>3. tool \in OffsetTools
  BY <1>2 DEF OffsetTools
<1>4. request.cursor \in Nat /\ request \in Request /\ RowsOK
  BY <1>2, <1>3, OffsetIsNat, Zenon DEF ReadIInv
<1> DEFINE offset == request.cursor
           fetched(served) == Take(Drop(rows, offset), served)
           capped(order) == CapRowsByBytes(Sizes(order))
           marker(served, order) ==
             RowPageTruncation(capped(order), offset, NextOffset(of, fetched(served), offset))
<1>5. PICK served \in {request.limit, request.limit + 1} : \E order \in Orders(of, fetched(served)) :
        /\ got' = got \cup Ids(Take(order, capped(order).kept))
        /\ CASE marker(served, order).reason \in {"none", "more-available"} ->
                  /\ IF marker(served, order).reason = "none" THEN Stop ELSE GoOnAt(marker(served, order).next)
                  /\ unsaid' = unsaid \cup Displaced(fetched(served), order, capped(order).kept)
                  /\ UNCHANGED beyond
             [] marker(served, order).reason = "content-truncated" ->
                  \/ ~request.narrowed /\ request' = [request EXCEPT !.narrowed = TRUE]
                     /\ UNCHANGED <<beyond, unsaid, phase>>
                  \/ /\ GoOnAt(marker(served, order).next)
                     /\ beyond' = beyond \cup {order[1].id}
                     /\ unsaid' = unsaid \cup Displaced(fetched(served), order, 1)
  BY <1>1, Zenon DEF ReadRows
<1> DEFINE part == fetched(served)
<1>16. PICK order \in Orders(of, part) :
        /\ got' = got \cup Ids(Take(order, capped(order).kept))
        /\ CASE marker(served, order).reason \in {"none", "more-available"} ->
                  /\ IF marker(served, order).reason = "none" THEN Stop ELSE GoOnAt(marker(served, order).next)
                  /\ unsaid' = unsaid \cup Displaced(part, order, capped(order).kept)
                  /\ UNCHANGED beyond
             [] marker(served, order).reason = "content-truncated" ->
                  \/ ~request.narrowed /\ request' = [request EXCEPT !.narrowed = TRUE]
                     /\ UNCHANGED <<beyond, unsaid, phase>>
                  \/ /\ GoOnAt(marker(served, order).next)
                     /\ beyond' = beyond \cup {order[1].id}
                     /\ unsaid' = unsaid \cup Displaced(part, order, 1)
  BY <1>5, Zenon
<1> DEFINE cap == capped(order)
           mark == marker(served, order)
<1>6. served \in Nat /\ served >= request.limit
  BY <1>4, LimitOK
<1>7. ReadsOn(part, order, cap, mark)
  <2> HIDE DEF part
  <2>1. cap = CapRowsByBytes(Sizes(order))
    BY Zenon
  <2>2. part = Take(Drop(rows, request.cursor), served)
    BY Zenon DEF part
  <2>3. mark = RowPageTruncation(cap, request.cursor, NextOffset(of, part, request.cursor))
    BY Zenon DEF part
  <2> HIDE DEF cap, mark
  <2> QED BY <1>4, <1>6, <1>16, <2>1, <2>2, <2>3, RowsReadOn, Zenon
<1>8. /\ got' = got \cup Ids(Take(order, cap.kept))
      /\ mark.reason \in {"none", "more-available"} =>
           /\ IF mark.reason = "none" THEN Stop ELSE GoOnAt(mark.next)
           /\ unsaid' = unsaid \cup Displaced(part, order, cap.kept)
           /\ UNCHANGED beyond
      /\ mark.reason = "content-truncated" =>
           \/ ~request.narrowed /\ request' = [request EXCEPT !.narrowed = TRUE]
              /\ UNCHANGED <<beyond, unsaid, phase>>
           \/ /\ GoOnAt(mark.next) /\ beyond' = beyond \cup {order[1].id}
              /\ unsaid' = unsaid \cup Displaced(part, order, 1)
  <2> HIDE DEF part, cap, mark
  <2>1. /\ got' = got \cup Ids(Take(order, cap.kept))
        /\ CASE mark.reason \in {"none", "more-available"} ->
                  /\ IF mark.reason = "none" THEN Stop ELSE GoOnAt(mark.next)
                  /\ unsaid' = unsaid \cup Displaced(part, order, cap.kept)
                  /\ UNCHANGED beyond
             [] mark.reason = "content-truncated" ->
                  \/ ~request.narrowed /\ request' = [request EXCEPT !.narrowed = TRUE]
                     /\ UNCHANGED <<beyond, unsaid, phase>>
                  \/ /\ GoOnAt(mark.next)
                     /\ beyond' = beyond \cup {order[1].id}
                     /\ unsaid' = unsaid \cup Displaced(part, order, 1)
    BY <1>16, Zenon DEF cap, mark, part
  <2> QED BY <2>1
<1> HIDE DEF part, cap, mark
<1>15. /\ cap.kept \in Nat
       /\ \A i \in 1 .. cap.kept : rows[request.cursor + i].id \in Ids(Take(part, cap.kept))
  BY <1>7 DEF ReadsOn
<1>9. ASSUME mark.reason \in {"none", "more-available"}
      PROVE  \A i \in DOMAIN rows : i > request.cursor /\ i <= request.cursor + cap.kept =>
               rows[i].id \in got' \cup unsaid'
  <2>1. SUFFICES ASSUME NEW i \in DOMAIN rows, i > request.cursor, i <= request.cursor + cap.kept
                 PROVE  rows[i].id \in got' \cup unsaid'
    OBVIOUS
  <2>2. i \in Nat
    BY <1>4 DEF RowsOK
  <2>3. i - request.cursor \in 1 .. cap.kept /\ request.cursor + (i - request.cursor) = i
    BY <1>4, <1>15, <2>1, <2>2
  <2>4. rows[request.cursor + (i - request.cursor)].id \in Ids(Take(part, cap.kept))
    BY <1>15, <2>3, Zenon
  <2>5. rows[i].id \in Ids(Take(order, cap.kept)) \/ rows[i].id \in Displaced(part, order, cap.kept)
    BY <2>3, <2>4 DEF Displaced
  <2> QED BY <1>8, <1>9, <2>5
<1>10. DOMAIN rows = 1 .. Len(rows) /\ Len(rows) \in Nat
  BY <1>4 DEF RowsOK
<1>11. got \subseteq got' /\ unsaid \subseteq unsaid'
  <2>1. mark.reason \in {"none", "more-available", "content-truncated"}
    BY <1>7 DEF ReadsOn
  <2>2. CASE mark.reason \in {"none", "more-available"}
    BY <1>8, <2>2
  <2>3. CASE mark.reason = "content-truncated"
    BY <1>8, <2>3
  <2> QED BY <1>8, <2>1, <2>2, <2>3
<1>12. CASE mark.reason = "none" /\ request.cursor + cap.kept >= Len(rows)
  <2>1. phase' = "done" /\ request' = request /\ beyond' = beyond
    BY <1>8, <1>12, Zenon DEF Stop
  <2>2. \A i \in DOMAIN rows : i > request.cursor => rows[i].id \in got' \cup unsaid'
    BY <1>4, <1>15, <1>9, <1>10, <1>12
  <2>3. /\ request'.alias = request.alias /\ request'.file = request.file
        /\ request' \in Request /\ request'.asked = request.asked /\ request'.titles = request.titles
        /\ request'.cursor >= -1 /\ phase' \in {"reading", "done"} /\ beyond \subseteq beyond'
    BY <1>4, <2>1
  <2> QED BY <1>1, <1>2, <1>3, <1>11, <2>2, <2>3, OffsetStep
<1>13. CASE mark.reason = "more-available" /\ mark.next = request.cursor + cap.kept
  <2>1. request' = [request EXCEPT !.cursor = request.cursor + cap.kept] /\ phase' = phase /\ beyond' = beyond
    BY <1>8, <1>13, Zenon DEF GoOnAt
  <2>2. request.cursor + cap.kept \in Int
    BY <1>4, <1>15
  <2>3. request' \in Request /\ request'.cursor = request.cursor + cap.kept /\ SameBut("cursor")
    BY <1>4, <2>1, <2>2, RequestChanges, Zenon
  <2>4. \A i \in DOMAIN rows : i > request.cursor => rows[i].id \in got' \cup unsaid' \/ i > request'.cursor
    BY <1>4, <1>15, <1>9, <1>10, <1>13, <2>3
  <2>5. /\ request'.alias = request.alias /\ request'.file = request.file
        /\ request'.asked = request.asked /\ request'.titles = request.titles
        /\ request'.cursor >= -1 /\ phase' = "reading" /\ beyond \subseteq beyond'
    BY <1>2, <1>4, <1>15, <2>1, <2>3 DEF SameBut
  <2> QED BY <1>1, <1>2, <1>3, <1>11, <2>3, <2>4, <2>5, OffsetStep
<1>14. CASE /\ mark.reason = "content-truncated" /\ mark.next = request.cursor + 1
            /\ cap.kept = 0 /\ request.cursor + 1 \in DOMAIN rows
            /\ rows[request.cursor + 1].id \in Ids(Take(part, 1)) /\ Ids(Take(order, 1)) = {order[1].id}
            /\ \E i \in DOMAIN rows : order[1] = rows[i] /\ rows[i].size > Budget
  <2>1. CASE request' = [request EXCEPT !.narrowed = TRUE] /\ UNCHANGED <<beyond, unsaid, phase>>
    <3>1. request' \in Request /\ SameBut("narrowed")
      BY <1>4, <2>1, RequestChanges
    <3>2. /\ request'.alias = request.alias /\ request'.file = request.file /\ request'.cursor = request.cursor
          /\ request'.asked = request.asked /\ request'.titles = request.titles
          /\ request'.cursor >= -1 /\ phase' = "reading" /\ beyond \subseteq beyond'
      BY <1>2, <1>4, <2>1, <3>1 DEF SameBut
    <3> QED BY <1>1, <1>2, <1>3, <1>11, <3>1, <3>2, OffsetStep
  <2>2. CASE /\ GoOnAt(mark.next) /\ beyond' = beyond \cup {order[1].id}
             /\ unsaid' = unsaid \cup Displaced(part, order, 1)
    <3>1. request' = [request EXCEPT !.cursor = request.cursor + 1] /\ phase' = phase
      BY <1>14, <2>2, Zenon DEF GoOnAt
    <3>2. request.cursor + 1 \in Int
      BY <1>4
    <3>3. request' \in Request /\ request'.cursor = request.cursor + 1 /\ SameBut("cursor")
      BY <1>4, <3>1, <3>2, RequestChanges, Zenon
    <3>4. /\ request'.alias = request.alias /\ request'.file = request.file
          /\ request'.asked = request.asked /\ request'.titles = request.titles
          /\ request'.cursor >= -1 /\ phase' = "reading" /\ beyond \subseteq beyond'
      BY <1>2, <1>4, <2>2, <3>1, <3>3 DEF SameBut
    <3>5. PICK n \in DOMAIN rows : order[1] = rows[n] /\ rows[n].size > Budget
      BY <1>14
    <3>6. At(order[1].id) = n /\ ~(rows[n].size <= Budget)
      <4>1. At(rows[n].id) = n
        BY <1>4, AtOf, Zenon
      <4>2. rows[n] \in Row
        BY <1>4 DEF RowsOK
      <4>3. rows[n].size \in Nat /\ Budget \in Nat
        BY <4>2, BoundsAssumption DEF Row
      <4> QED BY <3>5, <4>1, <4>3
    <3>7. ~Fits(order[1].id)
      BY <1>2, <3>6, FitsIs
    <3>8. \A i \in DOMAIN rows : i > request.cursor => i = request.cursor + 1 \/ i > request'.cursor
      BY <1>4, <1>10, <3>3
    <3>9. rows[request.cursor + 1].id \in unsaid' \/ rows[request.cursor + 1].id = order[1].id
      BY <1>14, <2>2 DEF Displaced
    <3>10. \A i \in DOMAIN rows : i > request.cursor =>
             \/ rows[i].id \in got'
             \/ rows[i].id \in beyond' /\ ~Fits(rows[i].id)
             \/ rows[i].id \in unsaid'
             \/ phase' = "reading" /\ i > request'.cursor
      BY <2>2, <3>4, <3>7, <3>8, <3>9
    <3> QED BY <1>1, <1>2, <1>3, <1>11, <3>3, <3>4, <3>10, OffsetStep
  <2> QED BY <1>8, <1>14, <2>1, <2>2
<1> QED
  BY <1>7, <1>12, <1>13, <1>14 DEF ReadsOn

LEMMA ReadPropertiesKeeps ==
  ASSUME ReadIInv, ReadProperties
  PROVE  ReadIInv'
<1> DEFINE fetched == Take(Drop(rows, request.cursor), request.limit)
           next == request.cursor + Len(fetched)
<1>1. /\ Reading({"smw-list-properties"})
      /\ got' = got \cup Ids(fetched)
      /\ IF next < Len(rows) THEN GoOnAt(next) ELSE Stop
      /\ todo' = todo /\ beyond' = beyond /\ unsaid' = unsaid
  BY Zenon DEF ReadProperties
<1> HIDE DEF fetched
<1>2. tool \in OffsetTools /\ Going /\ ~Malformation /\ phase = "reading"
  BY <1>1 DEF Reading, Going, OffsetTools
<1>3. request.cursor \in Nat /\ request \in Request /\ RowsOK
  BY <1>2, OffsetIsNat, Zenon DEF ReadIInv
<1>4. rows \in Seq(Row) /\ request.limit \in Nat \ {0}
  BY <1>3, LimitOK DEF RowsOK
<1>5. IsPart(fetched, rows, request.cursor, request.limit)
  BY <1>3, <1>4, PartOfList, Zenon DEF fetched
<1>6. Len(fetched) \in Nat /\ fetched \in Seq(Row) /\ next \in Int /\ next >= 0
  BY <1>3, <1>4, <1>5 DEF IsPart
<1>7. \A i \in DOMAIN rows : i > request.cursor /\ i <= next => rows[i].id \in got'
  <2>1. SUFFICES ASSUME NEW i \in DOMAIN rows, i > request.cursor, i <= next
                 PROVE  rows[i].id \in got'
    OBVIOUS
  <2>2. i - request.cursor \in 1 .. Len(fetched) /\ request.cursor + (i - request.cursor) = i
    BY <1>3, <1>4, <1>6, <2>1
  <2>3. fetched[i - request.cursor] = rows[request.cursor + (i - request.cursor)]
    BY <1>5, <2>2, Zenon DEF IsPart
  <2>4. rows[i].id \in Ids(fetched)
    BY <1>6, <2>2, <2>3, IdsMember
  <2> QED BY <1>1, <2>4
<1>8. DOMAIN rows = 1 .. Len(rows) /\ Len(rows) \in Nat
  BY <1>4
<1>9. got \subseteq got' /\ beyond \subseteq beyond' /\ unsaid \subseteq unsaid'
  BY <1>1
<1>10. CASE next < Len(rows)
  <2>1. request' = [request EXCEPT !.cursor = next] /\ phase' = phase
    BY <1>1, <1>10, Zenon DEF GoOnAt
  <2> HIDE DEF next
  <2>2. request' \in Request /\ request'.cursor = next /\ SameBut("cursor")
    BY <1>3, <1>6, <2>1, RequestChanges, Zenon
  <2>3. \A i \in DOMAIN rows : i > request.cursor => rows[i].id \in got' \/ i > request'.cursor
    BY <1>3, <1>6, <1>7, <1>8, <2>2
  <2>4. /\ request'.alias = request.alias /\ request'.file = request.file
        /\ request'.asked = request.asked /\ request'.titles = request.titles
        /\ request'.cursor >= -1 /\ phase' = "reading"
    BY <1>2, <1>6, <2>1, <2>2 DEF SameBut
  <2> QED BY <1>1, <1>2, <1>9, <2>2, <2>3, <2>4, OffsetStep
<1>11. CASE ~(next < Len(rows))
  <2>1. phase' = "done" /\ request' = request
    BY <1>1, <1>11, Zenon DEF Stop
  <2>2. \A i \in DOMAIN rows : i > request.cursor => rows[i].id \in got'
    BY <1>3, <1>6, <1>7, <1>8, <1>11
  <2>3. /\ request'.alias = request.alias /\ request'.file = request.file
        /\ request' \in Request /\ request'.asked = request.asked /\ request'.titles = request.titles
        /\ request'.cursor >= -1 /\ phase' \in {"reading", "done"}
    BY <1>3, <2>1
  <2> QED BY <1>1, <1>2, <1>9, <2>2, <2>3, OffsetStep
<1> QED
  BY <1>10, <1>11

LEMMA MaxWithOne ==
  ASSUME NEW n \in Nat
  PROVE  Max({1, n}) = IF n = 0 THEN 1 ELSE n
<1> DEFINE S == {1, n}
           m == IF n = 0 THEN 1 ELSE n
<1>1. m \in S /\ \A k \in S : m >= k
  OBVIOUS
<1>2. \A x \in S : (\A k \in S : x >= k) => x = m
  BY <1>1
<1>3. Max(S) \in S /\ \A k \in S : Max(S) >= k
  <2> HIDE DEF S, m
  <2> QED BY <1>1, Zenon DEF Max
<1> QED
  BY <1>2, <1>3

LEMMA ReadSolutionsKeeps ==
  ASSUME ReadIInv, ReadSolutions
  PROVE  ReadIInv'
<1> DEFINE matched == Drop(rows, request.cursor)
           part    == Take(matched, request.limit)
           capped  == CapLinesByBytes(Sizes(part))
           lines   == Take(matched, AtMost(capped.kept, request.limit))
           more    == capped.truncated \/ Len(matched) > request.limit
           next    == request.cursor + AtMost(Len(matched), Max({1, Len(lines)}))
<1>1. /\ Reading({"wikibase-query"})
      /\ got' = got \cup Ids(lines)
      /\ beyond' = beyond \cup (IF more /\ lines = <<>> THEN {matched[1].id} ELSE {})
      /\ IF more THEN GoOnAt(next) ELSE Stop
      /\ todo' = todo /\ unsaid' = unsaid
  BY Zenon DEF ReadSolutions
<1>2. tool \in OffsetTools /\ tool = "wikibase-query" /\ Going /\ ~Malformation /\ phase = "reading"
  BY <1>1 DEF Reading, Going, OffsetTools
<1>3. request.cursor \in Nat /\ request \in Request /\ RowsOK
  BY <1>2, OffsetIsNat, Zenon DEF ReadIInv
<1>4. rows \in Seq(Row) /\ request.limit \in Nat \ {0}
  BY <1>3, LimitOK DEF RowsOK
<1>5. Len(matched) \in Nat /\ (request.cursor < Len(rows) => Len(matched) = Len(rows) - request.cursor)
      /\ (~(request.cursor < Len(rows)) => Len(matched) = 0)
  <2>1. matched = SubSeq(rows, request.cursor + 1, Len(rows)) /\ Len(rows) \in Nat
    BY <1>4 DEF Drop
  <2> HIDE DEF matched
  <2>2. CASE request.cursor < Len(rows)
    <3>1. request.cursor + 1 \in Nat /\ 1 <= request.cursor + 1 /\ request.cursor + 1 <= Len(rows) + 1
          /\ Len(rows) - (request.cursor + 1) + 1 = Len(rows) - request.cursor
      BY <1>3, <2>1, <2>2
    <3>2. Len(matched) = Len(rows) - (request.cursor + 1) + 1
      BY <1>4, <2>1, <3>1, SliceOf
    <3>3. Len(matched) = Len(rows) - request.cursor
      BY <3>1, <3>2
    <3>4. Len(rows) - request.cursor \in Nat
      BY <1>3, <2>1, <2>2
    <3>5. Len(matched) \in Nat
      BY <3>3, <3>4
    <3> QED BY <2>2, <3>3, <3>5
  <2>3. CASE ~(request.cursor < Len(rows))
    BY <1>3, <1>4, <2>1, <2>3
  <2> QED BY <1>3, <2>1, <2>2, <2>3
<1>6. IsPart(part, rows, request.cursor, request.limit)
  BY <1>3, <1>4, PartOfList, Zenon
<1>7. part \in Seq(Row) /\ Len(part) \in 0 .. request.limit
  BY <1>6, Zenon DEF IsPart
<1>8. Len(part) = AtMost(request.limit, Len(matched))
  <2>1. /\ request.cursor + Len(part) <= Len(rows) \/ Len(part) = 0
        /\ request.cursor + Len(part) >= Len(rows) \/ Len(part) = request.limit
    BY <1>6, Zenon DEF IsPart
  <2> HIDE DEF matched, part
  <2> QED BY <1>3, <1>4, <1>5, <1>7, <2>1 DEF AtMost
<1>9. Sizes(part) \in Seq(Nat) /\ Len(Sizes(part)) = Len(part) /\ \A i \in 1 .. Len(part) : Sizes(part)[i] <= part[i].size
  <2> HIDE DEF part
  <2> QED BY <1>3, <1>7, SizesOfRows, Zenon
<1>10. /\ capped.kept \in 0 .. Len(part) /\ capped.truncated \in BOOLEAN
       /\ ~capped.truncated => capped.kept = Len(part)
       /\ capped.truncated => Sizes(part) # <<>>
       /\ capped.kept = 0 /\ Sizes(part) # <<>> => Sizes(part)[1] > Budget
  <2> HIDE DEF part
  <2> QED BY <1>9, CapLinesKept
<1>11. AtMost(capped.kept, request.limit) = capped.kept /\ capped.kept \in Nat
  <2> HIDE DEF part, capped
  <2> QED BY <1>4, <1>7, <1>10 DEF AtMost
<1>12. IsPart(lines, rows, request.cursor, capped.kept)
  <2> HIDE DEF capped
  <2> QED BY <1>3, <1>4, <1>11, PartOfList, Zenon
<1>13. lines \in Seq(Row) /\ Len(lines) = capped.kept
  <2>1. /\ lines \in Seq(Row) /\ Len(lines) \in 0 .. capped.kept
        /\ request.cursor + Len(lines) >= Len(rows) \/ Len(lines) = capped.kept
    BY <1>12, Zenon DEF IsPart
  <2>2. request.cursor + Len(part) <= Len(rows) \/ Len(part) = 0
    BY <1>6, Zenon DEF IsPart
  <2> HIDE DEF lines, part, capped
  <2> QED BY <1>3, <1>4, <1>7, <1>10, <2>1, <2>2
<1> HIDE DEF lines, part, capped, matched
<1>14. \A i \in DOMAIN rows : i > request.cursor /\ i <= request.cursor + capped.kept => rows[i].id \in got'
  <2>1. SUFFICES ASSUME NEW i \in DOMAIN rows, i > request.cursor, i <= request.cursor + capped.kept
                 PROVE  rows[i].id \in got'
    OBVIOUS
  <2>2. i - request.cursor \in 1 .. Len(lines) /\ request.cursor + (i - request.cursor) = i
    BY <1>3, <1>4, <1>11, <1>13, <2>1
  <2>3. lines[i - request.cursor] = rows[request.cursor + (i - request.cursor)]
    BY <1>12, <2>2, Zenon DEF IsPart
  <2>4. rows[i].id \in Ids(lines)
    BY <1>13, <2>2, <2>3, IdsMember
  <2> QED BY <1>1, <2>4
<1>15. DOMAIN rows = 1 .. Len(rows) /\ Len(rows) \in Nat
  BY <1>4
<1>16. got \subseteq got' /\ beyond \subseteq beyond' /\ unsaid \subseteq unsaid'
  BY <1>1
<1>17. CASE ~more
  <2>1. phase' = "done" /\ request' = request
    BY <1>1, <1>17, Zenon DEF Stop
  <2>2. request.cursor + capped.kept >= Len(rows)
    BY <1>3, <1>4, <1>5, <1>8, <1>10, <1>17 DEF AtMost
  <2>3. \A i \in DOMAIN rows : i > request.cursor => rows[i].id \in got'
    BY <1>3, <1>11, <1>14, <1>15, <2>2
  <2>4. /\ request'.alias = request.alias /\ request'.file = request.file
        /\ request' \in Request /\ request'.asked = request.asked /\ request'.titles = request.titles
        /\ request'.cursor >= -1 /\ phase' \in {"reading", "done"}
    BY <1>3, <2>1
  <2> QED BY <1>1, <1>2, <1>16, <2>3, <2>4, OffsetStep
<1>18. CASE more
  <2>1. request' = [request EXCEPT !.cursor = next] /\ phase' = phase
    BY <1>1, <1>18, Zenon DEF GoOnAt
  <2>2. Len(part) >= 1 /\ Len(matched) >= 1
    <3>1. CASE capped.truncated
      <4>1. Len(Sizes(part)) # 0
        BY <1>9, <1>10, <3>1
      <4> QED BY <1>4, <1>5, <1>7, <1>8, <1>9, <4>1 DEF AtMost
    <3>2. CASE Len(matched) > request.limit
      BY <1>4, <1>5, <1>8, <3>2 DEF AtMost
    <3> QED BY <1>18, <3>1, <3>2
  <2>3. next = request.cursor + (IF capped.kept = 0 THEN 1 ELSE capped.kept)
    <3>1. Max({1, Len(lines)}) = IF capped.kept = 0 THEN 1 ELSE capped.kept
      BY <1>11, <1>13, MaxWithOne
    <3>2. capped.kept <= Len(matched)
      BY <1>4, <1>5, <1>8, <1>10 DEF AtMost
    <3> QED BY <1>3, <1>5, <1>11, <2>2, <3>1, <3>2 DEF AtMost
  <2> HIDE DEF next
  <2>4. next \in Int
    BY <1>3, <1>11, <2>3
  <2>5. request' \in Request /\ request'.cursor = next /\ SameBut("cursor")
    BY <1>3, <2>1, <2>4, RequestChanges, Zenon
  <2>6. /\ request'.alias = request.alias /\ request'.file = request.file
        /\ request'.asked = request.asked /\ request'.titles = request.titles
        /\ request'.cursor >= -1 /\ phase' = "reading"
    BY <1>2, <1>3, <1>11, <2>1, <2>3, <2>5 DEF SameBut
  <2>7. CASE capped.kept > 0
    <3>1. \A i \in DOMAIN rows : i > request.cursor => rows[i].id \in got' \/ i > request'.cursor
      BY <1>3, <1>11, <1>14, <1>15, <2>3, <2>5, <2>7
    <3> QED BY <1>1, <1>2, <1>16, <2>5, <2>6, <3>1, OffsetStep
  <2>8. CASE capped.kept = 0
    <3>1. lines = <<>> /\ matched[1].id \in beyond'
      <4>1. lines = <<>>
        BY <1>13, <2>8
      <4> QED BY <1>1, <1>18, <4>1
    <3>2. Sizes(part)[1] > Budget /\ 1 \in 1 .. Len(part)
      <4>1. Sizes(part) # <<>>
        BY <1>7, <1>9, <2>2
      <4> QED BY <1>7, <1>10, <2>2, <2>8, <4>1
    <3>3. /\ request.cursor + 1 \in DOMAIN rows
          /\ part[1] = rows[request.cursor + 1] /\ Sizes(part)[1] <= part[1].size
      BY <1>6, <1>9, <3>2, Zenon DEF IsPart
    <3>4. matched[1] = rows[request.cursor + 1]
      <4>1. 1 \in 1 .. Len(matched) /\ request.cursor < Len(rows)
        BY <1>3, <1>4, <1>5, <2>2
      <4>2. matched = SubSeq(rows, request.cursor + 1, Len(rows))
        BY DEF Drop, matched
      <4>3. request.cursor + 1 \in Nat /\ 1 <= request.cursor + 1 /\ request.cursor + 1 <= Len(rows)
        BY <1>3, <1>4, <4>1
      <4> QED BY <1>4, <4>1, <4>2, <4>3
    <3>5. ~(rows[request.cursor + 1].size <= Budget)
      <4>1. rows[request.cursor + 1] \in Row /\ Sizes(part)[1] \in Nat
        BY <1>4, <1>9, <3>2, <3>3
      <4>2. rows[request.cursor + 1].size \in Nat /\ Budget \in Nat
        BY <4>1, BoundsAssumption DEF Row
      <4> QED BY <3>2, <3>3, <4>1, <4>2
    <3>6. At(rows[request.cursor + 1].id) = request.cursor + 1
      BY <1>3, <3>3, AtOf, Zenon
    <3>7. ~Fits(rows[request.cursor + 1].id)
      BY <1>2, <3>5, <3>6, FitsIs
    <3>8. \A i \in DOMAIN rows : i > request.cursor => i = request.cursor + 1 \/ i > request'.cursor
      BY <1>3, <1>15, <2>3, <2>5, <2>8
    <3>9. \A i \in DOMAIN rows : i > request.cursor =>
             \/ rows[i].id \in got'
             \/ rows[i].id \in beyond' /\ ~Fits(rows[i].id)
             \/ phase' = "reading" /\ i > request'.cursor
      BY <2>6, <3>1, <3>4, <3>7, <3>8
    <3> QED BY <1>1, <1>2, <1>16, <2>5, <2>6, <3>9, OffsetStep
  <2> QED BY <1>11, <2>7, <2>8
<1> QED
  BY <1>17, <1>18

-----------------------------------------------------------------------------
(* A cursor of the wiki's.                                                   *)

LEMMA DropNone ==
  ASSUME NEW seq \in Seq(Row)
  PROVE  Drop(seq, 0) = seq
<1>1. Drop(seq, 0) \in Seq(Row) /\ Len(Drop(seq, 0)) = Len(seq)
  BY DEF Drop
<1>2. \A i \in 1 .. Len(seq) : Drop(seq, 0)[i] = seq[i]
  BY DEF Drop
<1> HIDE DEF Drop
<1> QED
  BY <1>1, <1>2

LEMMA DropAfter ==
  ASSUME NEW seq \in Seq(Row), NEW n \in Nat, NEW k \in Nat, n <= Len(seq),
         NEW rest, rest = Drop(Drop(seq, n), k)
  PROVE  /\ rest # <<>> <=> n + k < Len(seq)
         /\ rest # <<>> => rest[1] = seq[n + k + 1]
<1> DEFINE d == Drop(seq, n)
<1>1. d \in Seq(Row) /\ Len(d) = Len(seq) - n /\ \A i \in 1 .. Len(d) : d[i] = seq[n + i]
  BY DEF Drop
<1>2. rest = SubSeq(d, k + 1, Len(d))
  BY DEF Drop
<1> HIDE DEF d
<1>3. Len(seq) \in Nat /\ Len(d) \in Nat
  BY <1>1
<1>4. CASE n + k < Len(seq)
  <2>1. k + 1 \in 1 .. Len(d)
    BY <1>1, <1>3, <1>4
  <2>2. Len(rest) = Len(d) - k /\ rest[1] = d[k + 1]
    BY <1>1, <1>2, <1>3, <2>1
  <2>3. d[k + 1] = seq[n + (k + 1)] /\ n + (k + 1) = n + k + 1
    BY <1>1, <2>1
  <2>4. rest # <<>>
    BY <1>1, <1>3, <1>4, <2>2
  <2> QED BY <1>4, <2>2, <2>3, <2>4
<1>5. CASE ~(n + k < Len(seq))
  <2>1. rest = <<>>
    BY <1>1, <1>2, <1>3, <1>5
  <2> QED BY <1>5, <2>1
<1> QED
  BY <1>4, <1>5

LEMMA CursorNamesARow ==
  ASSUME ReadIInv, tool \in CursorTools \cup {"get-page-history"}, request.cursor # None
  PROVE  \E i \in DOMAIN rows : rows[i].id = request.cursor
<1>1. RequestOK
  BY Zenon DEF ReadIInv
<1>2. tool \in CursorTools \cup {"get-page-history"} /\ request.cursor # None =>
          \E i \in DOMAIN rows : rows[i].id = request.cursor
  BY <1>1 DEF RequestOK
<1> QED
  BY <1>2

LEMMA ReadFromCursorKeeps ==
  ASSUME ReadIInv, NEW of \in CursorTools, ReadFromCursor(of)
  PROVE  ReadIInv'
<1>1. Reading({of}) /\ todo' = todo /\ beyond' = beyond /\ unsaid' = unsaid
  BY Zenon DEF ReadFromCursor
<1>2. tool = of /\ Going /\ phase = "reading" /\ tool \in CursorTools /\ tool \notin OffsetTools /\ tool # "get-page-history"
  BY <1>1 DEF Reading, Going, CursorTools, OffsetTools
<1>3. RowsOK /\ request \in Request /\ rows \in Seq(Row) /\ request.limit \in Nat \ {0}
  BY LimitOK DEF ReadIInv, RequestOK, RowsOK
<1> DEFINE remaining == From(rows, request.cursor)
           fetched(served) == Take(remaining, served)
           rest(served) == Drop(remaining, Len(fetched(served)))
<1>4. PICK served \in 1 .. request.limit :
        /\ got' = got \cup (IF of = "get-links-here" THEN Flattened(fetched(served)) ELSE Ids(fetched(served)))
        /\ IF rest(served) # <<>> THEN GoOnAt(rest(served)[1].id) ELSE Stop
  BY Zenon DEF ReadFromCursor
<1> DEFINE part == fetched(served)
           left == rest(served)
           start == IF request.cursor = None THEN 0 ELSE At(request.cursor) - 1
<1>5. start \in Nat /\ start <= Len(rows) /\ remaining = Drop(rows, start)
      /\ (request.cursor # None => At(request.cursor) = start + 1)
  <2>1. CASE request.cursor = None
    BY <1>3, <2>1, DropNone DEF From
  <2>2. CASE request.cursor # None
    <3>1. PICK i \in DOMAIN rows : rows[i].id = request.cursor
      BY <1>2, <2>2, CursorNamesARow
    <3>2. At(request.cursor) = i
      BY <1>3, <3>1, AtOf
    <3> QED BY <1>3, <2>2, <3>1, <3>2 DEF From
  <2> QED BY <2>1, <2>2
<1>6. IsPart(part, rows, start, served)
  <2> HIDE DEF start
  <2> QED BY <1>3, <1>5, PartOfList
<1>7. part \in Seq(Row) /\ Len(part) \in Nat
  <2> HIDE DEF start, part
  <2>1. part \in Seq(Row) /\ Len(part) \in 0 .. served
    BY <1>6, Zenon DEF IsPart
  <2> QED BY <2>1
<1>8. /\ left # <<>> <=> start + Len(part) < Len(rows)
      /\ left # <<>> => left[1] = rows[start + Len(part) + 1]
  <2> HIDE DEF start, part
  <2>1. left = Drop(Drop(rows, start), Len(part))
    BY <1>5, Zenon DEF part
  <2> QED BY <1>3, <1>5, <1>7, <2>1, DropAfter
<1>9. /\ got' = got \cup (IF of = "get-links-here" THEN Flattened(part) ELSE Ids(part))
      /\ left # <<>> => GoOnAt(left[1].id)
      /\ left = <<>> => Stop
  BY <1>4
<1> HIDE DEF start, part, left
<1>10. ASSUME NEW i \in DOMAIN rows, i >= start + 1, i <= start + Len(part), NEW id, Brings(i, id)
       PROVE  id \in got'
  <2>1. i - start \in 1 .. Len(part) /\ start + (i - start) = i
    <3>1. i \in Int /\ start \in Int /\ Len(part) \in Int
      BY <1>3, <1>5, <1>7
    <3> QED BY <1>10, <3>1
  <2>2. part[i - start] = rows[start + (i - start)]
    BY <1>6, <2>1, Zenon DEF IsPart
  <2>3. part[i - start] = rows[i]
    BY <2>1, <2>2
  <2>4. rows[i].id \in Ids(part)
    BY <1>7, <2>1, <2>3, IdsMember
  <2>5. \A via \in rows[i].via : via \in Flattened(part)
    <3>1. i - start \in DOMAIN part
      BY <1>7, <2>1
    <3> QED BY <2>3, <3>1 DEF Flattened
  <2>6. Ids(part) \subseteq Flattened(part)
    BY DEF Flattened
  <2> QED BY <1>2, <1>9, <1>10, <2>4, <2>5, <2>6 DEF Brings
<1>11. \A id \in wanted : Ahead(id) => \E i \in DOMAIN rows : Brings(i, id) /\ i >= start + 1
  <2>1. SUFFICES ASSUME NEW id \in wanted, AheadOfCursor(id)
                 PROVE  \E i \in DOMAIN rows : Brings(i, id) /\ i >= start + 1
    BY <1>2 DEF Ahead
  <2>2. PICK i \in DOMAIN rows : Brings(i, id) /\ (request.cursor # None => i >= At(request.cursor))
    BY <2>1 DEF AheadOfCursor
  <2>3. i >= start + 1
    BY <1>3, <1>5, <2>2 DEF start
  <2> QED BY <2>2, <2>3
<1>12. TodoOK' /\ WantedOK'
  BY <1>1, <1>2 DEF ReadIInv, TodoOK, WantedOK, Going, CursorTools, OffsetTools, MatchTools
<1>13. got \subseteq got' /\ beyond \subseteq beyond' /\ unsaid \subseteq unsaid' /\ DOMAIN rows = 1 .. Len(rows) /\ Len(rows) \in Nat
  BY <1>1, <1>3, <1>9
<1>14. CASE left # <<>>
  <2> DEFINE n == start + Len(part) + 1
  <2>1. n \in DOMAIN rows /\ left[1] = rows[n]
    BY <1>5, <1>7, <1>8, <1>13, <1>14
  <2>2. rows[n].id \in Int /\ rows[n].id > 0 /\ At(rows[n].id) = n
    <3>1. rows[n] \in Row /\ rows[n].id > 0
      BY <1>2, <1>3, <2>1 DEF RowsOK, CursorTools
    <3> QED BY <1>3, <2>1, <3>1, AtOf DEF Row
  <2> HIDE DEF n
  <2>3. request' = [request EXCEPT !.cursor = rows[n].id] /\ phase' = phase
    BY <1>9, <1>14, <2>1, Zenon DEF GoOnAt
  <2>4. request' \in Request /\ request'.cursor = rows[n].id /\ SameBut("cursor")
    BY <1>3, <2>2, <2>3, RequestChanges, Zenon
  <2>5. /\ request'.alias = request.alias /\ request'.file = request.file
        /\ request'.asked = request.asked /\ request'.titles = request.titles
        /\ phase' = "reading"
    BY <1>2, <2>3, <2>4 DEF SameBut
  <2>6. RequestOK'
    BY <1>2, <2>1, <2>4, <2>5 DEF ReadIInv, RequestOK, Going, CursorTools, OffsetTools
  <2>7. ASSUME NEW id \in wanted, Ahead(id)
        PROVE  Settled(id)' \/ (phase' = "reading" /\ Ahead(id)')
    <3>1. PICK i \in DOMAIN rows : Brings(i, id) /\ i >= start + 1
      BY <1>11, <2>7
    <3>2. CASE i <= start + Len(part)
      BY <1>10, <3>1, <3>2 DEF Settled
    <3>3. CASE ~(i <= start + Len(part))
      <4>1. i >= n
        BY <1>5, <1>7, <1>13, <3>1, <3>3 DEF n
      <4>2. At(request.cursor)' = n /\ Brings(i, id)' /\ i \in DOMAIN rows'
        BY <1>2, <2>2, <2>4, <3>1 DEF At, Brings, Going
      <4>3. AheadOfCursor(id)'
        BY <4>1, <4>2 DEF AheadOfCursor
      <4> QED BY <1>2, <2>5, <4>3 DEF Ahead, Going, OffsetTools, CursorTools
    <3> QED BY <3>2, <3>3
  <2>8. Covered'
    BY <1>2, <1>13, <2>5, <2>7, CoveredStep DEF ReadIInv, Going
  <2> QED BY <1>2, <1>12, <2>6, <2>8, FrameKept DEF ReadIInv, Going
<1>15. CASE left = <<>>
  <2>1. phase' = "done" /\ request' = request
    BY <1>9, <1>15, Zenon DEF Stop
  <2>2. RequestOK'
    BY <1>2, <2>1 DEF ReadIInv, RequestOK, Going
  <2>3. ASSUME NEW id \in wanted, Ahead(id) PROVE Settled(id)'
    <3>1. PICK i \in DOMAIN rows : Brings(i, id) /\ i >= start + 1
      BY <1>11, <2>3
    <3>2. i <= start + Len(part)
      BY <1>5, <1>7, <1>8, <1>13, <1>15, <3>1
    <3> QED BY <1>10, <3>1, <3>2 DEF Settled
  <2>4. Covered'
    BY <1>2, <1>13, <2>1, <2>3, CoveredStep DEF ReadIInv, Going
  <2> QED BY <1>2, <1>12, <2>2, <2>4, FrameKept DEF ReadIInv, Going
<1> QED
  BY <1>14, <1>15

-----------------------------------------------------------------------------
(* Matches, forms of a file, and a cursor that is refused.                   *)

LEMMA TheLimits ==
  /\ Max(Limits) \in Limits /\ Max(Limits) \in Nat
  /\ \A limit \in Limits : limit <= Max(Limits)
  /\ \A raised \in SUBSET Limits : raised # {} => Min(raised) \in raised
<1>1. Limits \subseteq Nat \ {0} /\ \E most \in Limits : \A limit \in Limits : limit <= most
  BY ReadingAssumption, Zenon
<1>2. \E most \in Limits : \A limit \in Limits : most >= limit
  BY <1>1
<1>3. Max(Limits) \in Limits /\ \A limit \in Limits : Max(Limits) >= limit
  BY <1>2, Zenon DEF Max
<1>4. ASSUME NEW raised \in SUBSET Limits, raised # {} PROVE Min(raised) \in raised
  <2>1. raised \in SUBSET Nat
    BY <1>1
  <2>2. \E x \in raised : \A y \in raised : x <= y
    BY <1>4, <2>1, LeastElement, Zenon
  <2> QED BY <2>2, Zenon DEF Min
<1>5. Max(Limits) \in Nat /\ \A limit \in Limits : limit <= Max(Limits)
  BY <1>1, <1>3
<1> QED
  BY <1>3, <1>4, <1>5

LEMMA ReadMatchesKeeps ==
  ASSUME ReadIInv, NEW of \in MatchTools, ReadMatches(of)
  PROVE  ReadIInv'
<1> DEFINE matches == Take(rows, request.limit)
           left    == IF Len(rows) > request.limit THEN Ids(rows) \ Ids(matches) ELSE {}
           capped  == left # {} /\ ~request.contains
           raised  == {limit \in Limits : limit > request.limit}
<1>1. /\ Reading({of})
      /\ got' = got \cup Ids(matches)
      /\ unsaid' = unsaid \cup (IF request.contains THEN left ELSE {})
      /\ IF capped /\ raised # {}
         THEN request' = [request EXCEPT !.limit = Min(raised)] /\ UNCHANGED <<beyond, phase>>
         ELSE /\ beyond' = beyond \cup (IF capped THEN left ELSE {})
              /\ Stop
      /\ todo' = todo
  BY Zenon DEF ReadMatches
<1>2. /\ tool \in MatchTools /\ Going /\ phase = "reading" /\ tool \notin OffsetTools /\ tool \notin CursorTools
      /\ tool \notin {"get-page-history", "get-pages", "get-page", "wikibase-get-entity", "get-file-content"}
  BY <1>1 DEF Reading, Going, MatchTools, OffsetTools, CursorTools
<1>3. RowsOK /\ request \in Request /\ rows \in Seq(Row) /\ request.limit \in Nat \ {0} /\ request.limit \in Limits
      /\ wanted \subseteq Ids(rows) /\ request.asked \subseteq DOMAIN request.titles
  <2>1. RowsOK /\ RequestOK /\ WantedOK
    BY Zenon DEF ReadIInv
  <2>2. wanted \subseteq Ids(rows)
    BY <1>2, <2>1, Zenon DEF WantedOK
  <2>3. request \in Request /\ request.asked \subseteq DOMAIN request.titles
    BY <2>1, Zenon DEF RequestOK
  <2>4. request.limit \in Limits
    BY <2>3 DEF Request
  <2> QED BY <2>1, <2>2, <2>3, <2>4, LimitOK DEF RowsOK
<1>4. TodoOK' /\ WantedOK'
  BY <1>1, <1>2 DEF ReadIInv, TodoOK, WantedOK, Going, CursorTools, OffsetTools, MatchTools, Ids
<1>5. got \subseteq got' /\ beyond \subseteq beyond' /\ unsaid \subseteq unsaid'
  BY <1>1
<1>6. CASE capped /\ raised # {}
  <2>1. request' = [request EXCEPT !.limit = Min(raised)] /\ phase' = phase
    BY <1>1, <1>6
  <2>2. Min(raised) \in Limits
    BY <1>6, TheLimits
  <2> HIDE DEF raised
  <2>3. request' \in Request /\ SameBut("limit")
    BY <1>3, <2>1, <2>2, RequestChanges
  <2>4. /\ request'.alias = request.alias /\ request'.file = request.file
        /\ request'.asked = request.asked /\ request'.titles = request.titles
        /\ phase' = "reading"
    BY <1>2, <2>1, <2>3 DEF SameBut
  <2>5. RequestOK'
    BY <1>2, <1>3, <2>3, <2>4 DEF RequestOK, Going
  <2>6. \A id : Ahead(id)'
    BY <1>2 DEF Ahead, Going
  <2>7. Covered'
    BY <1>2, <1>5, <2>4, <2>6, CoveredStep DEF ReadIInv, Going
  <2> QED BY <1>2, <1>4, <2>5, <2>7, FrameKept DEF ReadIInv, Going
<1>7. CASE ~(capped /\ raised # {})
  <2>1. phase' = "done" /\ request' = request
        /\ beyond' = beyond \cup (IF capped THEN left ELSE {})
    BY <1>1, <1>7, Zenon DEF Stop
  <2>2. RequestOK'
    BY <1>2, <1>3, <2>1 DEF RequestOK, Going
  <2>3. ASSUME NEW id \in wanted PROVE Settled(id)'
    <3>1. PICK i \in DOMAIN rows : rows[i].id = id
      BY <1>3 DEF Ids
    <3>2. At(id) = i /\ i \in 1 .. Len(rows) /\ Len(rows) \in Nat
      BY <1>3, <3>1, AtOf
    <3>3. CASE i <= request.limit
      <4>1. AtMost(request.limit, Len(rows)) \in 0 .. Len(rows) /\ i <= AtMost(request.limit, Len(rows))
        BY <1>3, <3>2, <3>3 DEF AtMost
      <4>2. i \in 1 .. Len(matches) /\ matches \in Seq(Row) /\ matches[i] = rows[i]
        BY <1>3, <3>2, <4>1 DEF Take
      <4>3. id \in Ids(matches)
        <5> HIDE DEF matches
        <5> QED BY <3>1, <4>2, IdsMember
      <4> QED BY <1>1, <4>3 DEF Settled
    <3>4. CASE ~(i <= request.limit)
      <4>1. id \in got' \/ id \in left
        BY <1>1, <1>3, <3>2, <3>4
      <4>2. id \in left /\ request.contains => id \in unsaid'
        BY <1>1
      <4>3. ASSUME id \in left, ~request.contains PROVE id \in beyond' /\ ~Fits(id)'
        <5>1. capped /\ raised = {}
          BY <1>7, <4>3
        <5>2. id \in beyond'
          BY <2>1, <4>3, <5>1
        <5>3. ~(At(id) <= Max(Limits))
          BY <1>3, <3>2, <3>4, <5>1, TheLimits
        <5>4. ~Fits(id)
          BY <1>2, <5>3, FitsIs
        <5> QED BY <1>2, <2>1, <5>2, <5>4, FitsKept DEF Going
      <4> QED BY <4>1, <4>2, <4>3 DEF Settled
    <3> QED BY <3>3, <3>4
  <2>4. Covered'
    BY <1>2, <2>1, <2>3 DEF Covered, Going
  <2> QED BY <1>2, <1>4, <2>2, <2>4, FrameKept DEF ReadIInv, Going
<1> QED
  BY <1>6, <1>7

(* What the caller of get-file-content wanted is what FileAnswer is asked for. *)
LEMMA ReadFileKeeps ==
  ASSUME ReadIInv, ReadFile
  PROVE  ReadIInv'
<1> DEFINE answer == FileAnswer(request.file, request.format)
<1>1. /\ Reading({"get-file-content"})
      /\ got' = answer.carries /\ beyond' = answer.says
      /\ phase' = "done" /\ request' = request /\ todo' = todo
  BY Zenon DEF ReadFile, Stop
<1>2. /\ tool = "get-file-content" /\ Going /\ phase = "reading"
  BY <1>1 DEF Reading, Going
<1>3. /\ RequestOK /\ request.file \in Files /\ request.format \in Formats
      /\ wanted = SelectForms(request.format, request.file.mime)
  BY <1>2 DEF ReadIInv, RequestOK, WantedOK, Request
<1>4. RequestOK' /\ TodoOK' /\ WantedOK'
  BY <1>1, <1>2 DEF ReadIInv, RequestOK, TodoOK, WantedOK, Going, OffsetTools, CursorTools, MatchTools
<1>5. ASSUME NEW file \in Files, NEW format \in Formats,
             NEW form \in SelectForms(format, file.mime),
             form \notin FileAnswer(file, format).carries
      PROVE  /\ form \in FileAnswer(file, format).says
             /\ ~(/\ form \in Convertible(file, "url")
                  /\ "image" \in SelectForms(format, file.mime) => file.fits
                  /\ form = "source" => ~file.long)
  <2>1. /\ file.mime \in Mimes /\ file.renders \in BOOLEAN
        /\ file.extracts \in BOOLEAN /\ file.fits \in BOOLEAN /\ file.long \in BOOLEAN
    BY DEF Files
  <2> DEFINE mime == file.mime
             asked == SelectForms(format, mime)
             readable == Convertible(file, SourceUrlFor(asked, mime))
             fallback == IF format = "auto" /\ "image" \notin asked \cap readable THEN {"source"} ELSE {}
             made == (asked \cup fallback) \cap readable
             tooLarge == "image" \in made /\ ~file.fits
             whole == IF file.long THEN made \ {"source"} ELSE made
  <2>2. /\ FileAnswer(file, format).carries = IF tooLarge THEN {} ELSE whole
        /\ FileAnswer(file, format).says =
             IF tooLarge \/ made = {} THEN {"image", "source"} ELSE (asked \cup made) \ whole
    BY DEF FileAnswer
  <2>3. asked \subseteq {"image", "source"} /\ asked \subseteq ContentFormatsFor(mime)
    BY DEF SelectForms, ContentFormatsFor, Formats
  <2>4. ASSUME form \in Convertible(file, "url") PROVE form \in readable
    <3>1. CASE SourceUrlFor(asked, mime) = "url"
      BY <2>4, <3>1
    <3>2. CASE SourceUrlFor(asked, mime) # "url"
      <4>1. asked = {"image"}
        BY <3>2 DEF SourceUrlFor
      <4>2. form = "image"
        BY <1>5, <4>1
      <4> QED BY <2>4, <4>2 DEF Convertible
    <3> QED BY <3>1, <3>2
  <2> HIDE DEF asked, readable
  <2>5. CASE tooLarge
    <3>1. "image" \in asked
      <4>1. "image" \notin fallback
        OBVIOUS
      <4> QED BY <2>5, <4>1
    <3> QED BY <1>5, <2>2, <2>3, <2>5, <3>1 DEF asked
  <2>6. CASE ~tooLarge
    <3>1. form \notin whole /\ form \in asked
      BY <1>5, <2>2, <2>6 DEF asked
    <3>2. form \in FileAnswer(file, format).says
      BY <2>2, <2>3, <2>6, <3>1
    <3>3. form \notin readable \/ (form = "source" /\ file.long)
      BY <2>1, <3>1
    <3> QED BY <2>4, <3>2, <3>3
  <2> QED BY <2>5, <2>6
<1>6. ASSUME NEW id \in wanted PROVE Settled(id)'
  <2>1. CASE id \in got'
    BY <2>1 DEF Settled
  <2>2. CASE id \notin got'
    <3>1. id \in beyond' /\ ~(/\ id \in Convertible(request.file, "url")
                              /\ "image" \in wanted => request.file.fits
                              /\ id = "source" => ~request.file.long)
      BY <1>1, <1>3, <1>5, <1>6, <2>2
    <3>2. ~Fits(id)
      BY <1>2, <3>1, FitsIs
    <3>3. ~Fits(id)'
      BY <1>1, <1>2, <3>2, FitsKept DEF Going
    <3> QED BY <3>1, <3>3 DEF Settled
  <2> QED BY <2>1, <2>2
<1>7. Covered'
  BY <1>1, <1>2, <1>6 DEF Covered, Going
<1> QED
  BY <1>2, <1>4, <1>7, FrameKept DEF ReadIInv, Going

LEMMA RefuseKeeps ==
  ASSUME ReadIInv, Refuse
  PROVE  ReadIInv'
<1>1. phase' = "refused" /\ UNCHANGED <<tool, rows, wanted, request, todo, got, beyond, unsaid>>
  BY Zenon DEF Refuse
<1>2. \A id : Settled(id)' <=> Settled(id)
  BY <1>1, FitsKept DEF Settled
<1> QED
  BY <1>1, <1>2, FrameKept DEF ReadIInv, RequestOK, TodoOK, WantedOK, Covered, Ids, OwnIds

-----------------------------------------------------------------------------
(* Pages asked for by title.                                                 *)

(* A size a title has: there is a row for what it leads to.                  *)
LEMMA SizeOfTitle ==
  ASSUME RowsOK, NEW t, ~Missing(t)
  PROVE  SizeOf(t) \in Nat
<1>1. PICK i \in DOMAIN rows : rows[i].id = ResolveChain(t)
  BY DEF Missing, Ids
<1>2. At(ResolveChain(t)) = i
  BY <1>1, AtOf
<1>3. rows[i] \in Row
  BY <1>1 DEF RowsOK
<1> QED
  BY <1>2, <1>3 DEF SizeOf, Row

(* Each title that leads to a page is answered by an entry.                  *)
LEMMA EntryOf ==
  ASSUME request.asked \in SUBSET Nat, NEW id, ~Missing(id),
         NEW i \in request.asked, ResolveChain(Title(i)) = ResolveChain(id)
  PROVE  \E e \in Entries : ResolveChain(Title(e)) = ResolveChain(id)
<1> DEFINE same == {j \in request.asked : ResolveChain(Title(j)) = ResolveChain(id)}
<1>1. PICK e \in same : \A j \in same : e <= j
  <2>1. same \in SUBSET Nat /\ same # {}
    OBVIOUS
  <2> HIDE DEF same
  <2> QED BY <2>1, LeastElement
<1>2. e \in request.asked /\ ResolveChain(Title(e)) = ResolveChain(id) /\ e \in Nat
  BY <1>1
<1>3. ~Missing(Title(e))
  BY <1>2 DEF Missing
<1>4. ASSUME NEW j \in request.asked, j < e PROVE ResolveChain(Title(j)) # ResolveChain(Title(e))
  <2>1. j \in Nat
    OBVIOUS
  <2>2. j \notin same
    BY <1>1, <1>2, <1>4, <2>1
  <2> QED BY <1>2, <2>2
<1> QED
  BY <1>2, <1>3, <1>4 DEF Entries

LEMMA ReadPagesKeeps ==
  ASSUME ReadIInv, ReadPages
  PROVE  ReadIInv'
<1> DEFINE fit == Fit(Entries)
<1>1. /\ Reading({"get-pages"})
      /\ got' = got \cup Named(fit.pages)
      /\ beyond' = beyond \cup Named(fit.cut)
                          \cup {Title(i) : i \in {j \in request.asked : Missing(Title(j))}}
      /\ IF fit.omitted # {}
         THEN request' = [request EXCEPT !.asked = fit.omitted] /\ UNCHANGED phase
         ELSE Stop
      /\ todo' = todo /\ unsaid' = unsaid
  BY Zenon DEF ReadPages
<1>2. /\ tool = "get-pages" /\ Going /\ phase = "reading"
      /\ tool \notin OffsetTools /\ tool \notin CursorTools /\ tool \notin MatchTools
  BY <1>1 DEF Reading, Going, MatchTools, OffsetTools, CursorTools
<1>3. RowsOK /\ request \in Request /\ request.asked \subseteq DOMAIN request.titles /\ request.asked \in SUBSET Nat
  <2>1. RowsOK /\ RequestOK
    BY Zenon DEF ReadIInv
  <2>2. request \in Request /\ request.asked \subseteq DOMAIN request.titles
    BY <2>1, Zenon DEF RequestOK
  <2> QED BY <2>1, <2>2 DEF Request
<1>4. Entries \subseteq request.asked /\ fit.omitted \subseteq Entries
  BY DEF Entries, Fit
<1>5. ASSUME NEW e \in Entries
      PROVE  \/ e \in fit.pages
             \/ e \in fit.cut /\ SizeOf(Title(e)) > Budget
             \/ e \in fit.omitted
  BY <1>3, <1>4 DEF Fit
<1> HIDE DEF fit
<1>6. TodoOK' /\ WantedOK'
  BY <1>1, <1>2 DEF ReadIInv, TodoOK, WantedOK, Going, CursorTools, OffsetTools, MatchTools
<1>7. got \subseteq got' /\ beyond \subseteq beyond' /\ unsaid \subseteq unsaid'
  BY <1>1
<1>8. /\ RequestOK' /\ request'.alias = request.alias /\ request'.file = request.file
      /\ request'.titles = request.titles
      /\ fit.omitted # {} => phase' = "reading" /\ request'.asked = fit.omitted
      /\ phase' \in {"reading", "done"}
  <2>1. CASE fit.omitted # {}
    <3>1. request' = [request EXCEPT !.asked = fit.omitted] /\ phase' = phase
      BY <1>1, <2>1
    <3>2. fit.omitted \in SUBSET Nat
      BY <1>3, <1>4
    <3>3. request' \in Request /\ request'.asked = fit.omitted /\ SameBut("asked")
      BY <1>3, <3>1, <3>2, RequestChanges
    <3>4. request'.alias = request.alias /\ request'.file = request.file /\ request'.titles = request.titles
      BY <3>3 DEF SameBut
    <3>5. RequestOK'
      BY <1>2, <1>3, <1>4, <3>3, <3>4 DEF RequestOK, Going
    <3> QED BY <1>2, <2>1, <3>1, <3>3, <3>4, <3>5
  <2>2. CASE fit.omitted = {}
    <3>1. phase' = "done" /\ request' = request
      BY <1>1, <2>2, Zenon DEF Stop
    <3>2. RequestOK'
      BY <1>2, <1>3, <3>1 DEF RequestOK, Going
    <3> QED BY <2>2, <3>1, <3>2
  <2> QED BY <2>1, <2>2
<1>9. ASSUME NEW id \in wanted, Ahead(id)
      PROVE  Settled(id)' \/ (phase' = "reading" /\ Ahead(id)')
  <2>1. PICK i \in request.asked : IF Missing(id) THEN Title(i) = id
                                   ELSE ResolveChain(Title(i)) = ResolveChain(id)
    BY <1>2, <1>9 DEF Ahead, AheadInTitles
  <2>2. CASE Missing(id)
    <3>1. id \in beyond'
      BY <1>1, <2>1, <2>2
    <3>2. ~Fits(id)
      BY <1>2, <2>2, FitsIs
    <3>3. ~Fits(id)'
      BY <1>2, <1>8, <3>2, FitsKept DEF Going
    <3> QED BY <3>1, <3>3 DEF Settled
  <2>3. CASE ~Missing(id)
    <3>1. PICK e \in Entries : ResolveChain(Title(e)) = ResolveChain(id)
      BY <1>3, <2>1, <2>3, EntryOf
    <3>2. SizeOf(Title(e)) = SizeOf(id)
      BY <3>1 DEF SizeOf
    <3>3. CASE e \in fit.pages
      <4>1. id \in Named(fit.pages)
        BY <2>3, <3>1, <3>3 DEF Named
      <4> QED BY <1>1, <4>1 DEF Settled
    <3>4. CASE e \in fit.cut /\ SizeOf(Title(e)) > Budget
      <4>1. id \in Named(fit.cut)
        BY <2>3, <3>1, <3>4 DEF Named
      <4>2. ~(SizeOf(id) <= Budget)
        BY <1>3, <2>3, <3>2, <3>4, SizeOfTitle, BoundsAssumption
      <4>3. ~Fits(id)
        BY <1>2, <4>2, FitsIs
      <4>4. ~Fits(id)'
        BY <1>2, <1>8, <4>3, FitsKept DEF Going
      <4> QED BY <1>1, <4>1, <4>4 DEF Settled
    <3>5. CASE e \in fit.omitted
      <4>1. phase' = "reading" /\ e \in request'.asked
        BY <1>8, <3>5
      <4>2. ResolveChain(Title(e))' = ResolveChain(Title(e)) /\ ResolveChain(id)' = ResolveChain(id)
        BY <1>8 DEF ResolveChain, Title
      <4>3. Missing(id)' <=> Missing(id)
        BY <1>2, <4>2 DEF Missing, Ids, Going
      <4>4. AheadInTitles(id)'
        BY <2>3, <3>1, <4>1, <4>2, <4>3 DEF AheadInTitles
      <4>5. Ahead(id)'
        BY <1>2, <4>4 DEF Ahead, Going
      <4> QED BY <4>1, <4>5
    <3> QED BY <1>5, <3>3, <3>4, <3>5
  <2> QED BY <2>2, <2>3
<1>10. Covered'
  BY <1>2, <1>7, <1>8, <1>9, CoveredStep DEF ReadIInv, Going
<1> QED
  BY <1>2, <1>6, <1>8, <1>10, FrameKept DEF ReadIInv, Going

-----------------------------------------------------------------------------
(* The properties of an entity, and the sections of a page.                  *)

(* What an answer of wikibase-get-entity shows, and says of what it does not. *)
LEMMA EntityRendered ==
  ASSUME NEW claims \in Seq(Nat), NEW property \in 0 .. Len(claims),
         NEW rendered, rendered = RenderClaims(claims, property),
         NEW total, total = Len(SelectClaims(claims, property))
  PROVE  /\ rendered.lines \in Seq(Nat) /\ Len(rendered.lines) = Len(rendered.properties)
         /\ Len(rendered.lines) \in Nat /\ total \in Nat /\ Len(rendered.lines) <= total
         /\ property = 0 =>
              /\ total = Len(claims)
              /\ \A i \in 1 .. Len(rendered.properties) : rendered.properties[i] = i
         /\ property # 0 =>
              /\ total = 1 /\ rendered.lines = <<1 + claims[property]>> /\ rendered.properties = <<property>>
              /\ rendered.hidden = {}
<1> DEFINE selected == SelectClaims(claims, property)
           shown == CapProperties(selected)
           n == AtMost(Len(selected), MAX_PROPERTIES)
<1>1. claims \in Seq(Nat) /\ Len(claims) \in Nat /\ DOMAIN claims = 1 .. Len(claims)
      /\ \A p \in 1 .. Len(claims) : claims[p] \in Nat
  OBVIOUS
<1>2. /\ selected \in Seq(0 .. Len(claims)) /\ Len(selected) = IF property = 0 THEN Len(claims) ELSE 1
      /\ \A i \in 1 .. Len(selected) : selected[i] = IF property = 0 THEN i ELSE property
  <2>1. CASE property = 0
    <3>1. selected = [p \in 1 .. Len(claims) |-> p]
      BY <1>1, <2>1 DEF SelectClaims
    <3> HIDE DEF selected
    <3> QED BY <1>1, <2>1, <3>1
  <2>2. CASE property # 0
    <3>1. selected = <<property>>
      BY <2>2 DEF SelectClaims
    <3> HIDE DEF selected
    <3> QED BY <1>1, <2>2, <3>1
  <2> QED BY <2>1, <2>2
<1> HIDE DEF selected
<1>3. n \in Nat /\ n <= Len(selected) /\ (property # 0 => n = 1)
  BY <1>1, <1>2, BoundsAssumption DEF AtMost
<1>4. /\ Len(shown) = n /\ DOMAIN shown = 1 .. n /\ shown \in Seq(0 .. Len(claims))
      /\ \A i \in 1 .. n : shown[i] = IF property = 0 THEN i ELSE property
  <2>1. shown = SubSeq(selected, 1, n)
    BY DEF CapProperties
  <2> HIDE DEF n, shown
  <2>2. Len(shown) = n /\ DOMAIN shown = 1 .. n /\ shown \in Seq(0 .. Len(claims)) /\ \A i \in 1 .. n : shown[i] = selected[i]
    <3>1. selected \in Seq(0 .. Len(claims))
      BY <1>2, Zenon
    <3> HIDE DEF selected
    <3>2. /\ shown \in Seq(0 .. Len(claims)) /\ Len(shown) = n - 1 + 1 /\ DOMAIN shown = 1 .. n - 1 + 1
          /\ \A i \in 1 .. n - 1 + 1 : shown[i] = selected[1 + i - 1]
      <4>1. 1 \in Nat /\ n \in Nat /\ 1 <= n + 1 /\ n <= Len(selected)
        BY <1>3
      <4> QED BY <2>1, <3>1, <4>1, SliceOf
    <3>3. n - 1 + 1 = n /\ \A i \in 1 .. n : 1 + i - 1 = i
      BY <1>3
    <3> QED BY <3>2, <3>3
  <2>3. \A i \in 1 .. n : i \in 1 .. Len(selected)
    BY <1>2, <1>3
  <2> QED BY <1>2, <2>2, <2>3
<1>5. /\ rendered.lines = [i \in DOMAIN shown |-> 1 + ShownStatements(claims, property, shown[i])]
      /\ rendered.properties = shown
      /\ rendered.hidden = {p \in Range(shown) : ShownStatements(claims, property, p) < claims[p]}
  BY DEF RenderClaims, selected
<1>6. total = Len(selected)
  BY DEF selected
<1> HIDE DEF n, shown
<1>7. ASSUME NEW i \in 1 .. n PROVE shown[i] \in 1 .. Len(claims)
  <2>1. shown[i] = IF property = 0 THEN i ELSE property
    BY <1>4
  <2>2. n <= IF property = 0 THEN Len(claims) ELSE 1
    BY <1>2, <1>3
  <2> QED BY <1>1, <1>3, <2>1, <2>2
<1>8. \A p \in 1 .. Len(claims) : ShownStatements(claims, property, p) \in Nat
  BY <1>1, BoundsAssumption DEF ShownStatements, AtMost
<1>9. rendered.lines \in Seq(Nat) /\ Len(rendered.lines) = n
  <2>1. \A i \in 1 .. n : 1 + ShownStatements(claims, property, shown[i]) \in Nat
    BY <1>7, <1>8
  <2>2. rendered.lines = [i \in 1 .. n |-> 1 + ShownStatements(claims, property, shown[i])]
    BY <1>4, <1>5, Zenon
  <2> QED BY <1>3, <2>1, <2>2
<1>10. CASE property = 0
  BY <1>1, <1>2, <1>3, <1>4, <1>5, <1>6, <1>9, <1>10
<1>11. CASE property # 0
  <2>1. n = 1 /\ shown = <<property>> /\ Len(selected) = 1
    <3>1. n = 1 /\ Len(selected) = 1
      BY <1>2, <1>3, <1>11
    <3>2. shown \in Seq(0 .. Len(claims)) /\ Len(shown) = 1 /\ shown[1] = property
      BY <1>4, <1>11, <3>1
    <3> QED BY <3>1, <3>2
  <2>2. ShownStatements(claims, property, property) = claims[property]
    BY <1>11 DEF ShownStatements
  <2>3. rendered.lines = <<1 + claims[property]>>
    BY <1>5, <2>1, <2>2
  <2>4. Range(shown) = {property}
    BY <2>1 DEF Range
  <2>5. rendered.hidden = {}
    <3>1. claims[property] \in Nat
      BY <1>1, <1>11
    <3>2. ~(ShownStatements(claims, property, property) < claims[property])
      BY <2>2, <3>1
    <3>3. \A p \in Range(shown) : p = property
      BY <2>4
    <3>4. \A p \in rendered.hidden : FALSE
      BY <1>5, <3>2, <3>3
    <3> QED BY <3>4
  <2> QED BY <1>3, <1>4, <1>5, <1>6, <1>9, <1>11, <2>1, <2>3, <2>5
<1> QED
  BY <1>10, <1>11

LEMMA CapsNamed ==
  ASSUME NEW claims \in Seq(Nat), NEW property \in 0 .. Len(claims)
  PROVE  EntityAnswer(claims, property).lost = EntityAnswer(claims, property).says
<1> DEFINE rendered == RenderClaims(claims, property)
           total == Len(SelectClaims(claims, property))
           capped == CapLinesByBytes(rendered.lines)
           fewer == Len(rendered.lines) < total
           values == Said(rendered.hidden # {}, "values")
<1>1. /\ EntityAnswer(claims, property).says = EntityMarker(capped.truncated, rendered, total, property)
      /\ EntityAnswer(claims, property).lost =
           Said(capped.truncated, "bytes") \cup values \cup Said(fewer, "properties")
  BY DEF EntityAnswer
<1>2. /\ rendered.lines \in Seq(Nat)
      /\ property # 0 => total = 1 /\ rendered.lines = <<1 + claims[property]>> /\ rendered.hidden = {}
  <2> HIDE DEF rendered, total
  <2>1. rendered = RenderClaims(claims, property) /\ total = Len(SelectClaims(claims, property))
    BY Zenon DEF rendered, total
  <2> QED BY <2>1, EntityRendered
<1>3. capped.truncated \in BOOLEAN
  <2> HIDE DEF rendered
  <2> QED BY <1>2, CapLinesKept
<1>4. property # 0 => ~fewer /\ values = {}
  <2> HIDE DEF rendered, total
  <2>1. SUFFICES ASSUME property # 0 PROVE ~fewer /\ values = {}
    OBVIOUS
  <2>2. total = 1 /\ rendered.lines = <<1 + claims[property]>> /\ rendered.hidden = {}
    BY <1>2, <2>1
  <2>3. Len(rendered.lines) = 1
    BY <2>2
  <2> QED BY <2>2, <2>3 DEF Said
<1>5. EntityMarker(capped.truncated, rendered, total, property) =
        CASE capped.truncated -> {"bytes"} \cup (IF property # 0 THEN {} ELSE Said(fewer, "properties") \cup values)
          [] ~capped.truncated /\ fewer -> {"properties"} \cup values
          [] OTHER -> values
  BY DEF EntityMarker
<1> HIDE DEF rendered, total, capped, values, fewer
<1>6. CASE capped.truncated
  BY <1>1, <1>3, <1>4, <1>5, <1>6 DEF Said
<1>7. CASE ~capped.truncated /\ fewer
  BY <1>1, <1>3, <1>5, <1>7 DEF Said
<1>8. CASE ~capped.truncated /\ ~fewer
  BY <1>1, <1>3, <1>5, <1>8 DEF Said
<1> QED
  BY <1>6, <1>7, <1>8

(* Nothing said: everything was there.  Something said of a property asked    *)
(* for alone: it fits no answer.                                             *)
LEMMA EntityDelivers ==
  ASSUME NEW claims \in Seq(Nat), NEW property \in 0 .. Len(claims),
         NEW answer, answer = EntityAnswer(claims, property)
  PROVE  /\ property = 0 /\ answer.says = {} => 1 .. Len(claims) \subseteq answer.full
         /\ property # 0 /\ answer.says = {} => property \in answer.full
         /\ property # 0 /\ answer.says # {} => ~(1 + claims[property] <= Budget)
<1> DEFINE rendered == RenderClaims(claims, property)
           total == Len(SelectClaims(claims, property))
           capped == CapLinesByBytes(rendered.lines)
<1>1. /\ answer.full = {rendered.properties[i] : i \in 1 .. capped.kept} \ rendered.hidden
      /\ answer.lost = Said(capped.truncated, "bytes") \cup Said(rendered.hidden # {}, "values")
                         \cup Said(Len(rendered.lines) < total, "properties")
  BY DEF EntityAnswer
<1>2. /\ rendered.lines \in Seq(Nat) /\ Len(rendered.lines) = Len(rendered.properties)
      /\ Len(rendered.lines) \in Nat /\ total \in Nat /\ Len(rendered.lines) <= total
      /\ property = 0 =>
           /\ total = Len(claims)
           /\ \A i \in 1 .. Len(rendered.properties) : rendered.properties[i] = i
      /\ property # 0 =>
           /\ total = 1 /\ rendered.lines = <<1 + claims[property]>> /\ rendered.properties = <<property>>
           /\ rendered.hidden = {}
  <2> HIDE DEF rendered, total
  <2>1. rendered = RenderClaims(claims, property) /\ total = Len(SelectClaims(claims, property))
    BY Zenon DEF rendered, total
  <2> QED BY <2>1, EntityRendered
<1>3. /\ capped.kept \in 0 .. Len(rendered.lines) /\ capped.truncated \in BOOLEAN
      /\ ~capped.truncated => capped.kept = Len(rendered.lines)
      /\ capped.truncated => Total(rendered.lines) + Len(rendered.lines) - 1 > Budget
  <2> HIDE DEF rendered
  <2> QED BY <1>2, CapLinesKept
<1>4. answer.says = answer.lost
  BY CapsNamed
<1> HIDE DEF rendered, total, capped
<1>5. ASSUME answer.says = {}
      PROVE  ~capped.truncated /\ rendered.hidden = {} /\ ~(Len(rendered.lines) < total)
  BY <1>1, <1>4, <1>5 DEF Said
<1>6. CASE answer.says = {}
  <2>1. capped.kept = total /\ Len(rendered.properties) = total
    BY <1>2, <1>3, <1>5, <1>6
  <2>2. answer.full = {rendered.properties[i] : i \in 1 .. total}
    BY <1>1, <1>5, <1>6, <2>1
  <2>3. ASSUME property = 0, NEW i \in 1 .. Len(claims) PROVE i \in answer.full
    BY <1>2, <2>1, <2>2, <2>3
  <2>4. ASSUME property # 0 PROVE property \in answer.full
    BY <1>2, <2>1, <2>2, <2>4
  <2> QED BY <1>6, <2>3, <2>4
<1>7. CASE property # 0 /\ answer.says # {}
  <2>1. claims[property] \in Nat /\ Budget \in Nat
    BY <1>7, BoundsAssumption
  <2>2. Len(rendered.lines) = 1 /\ rendered.lines[1] = 1 + claims[property]
    <3>1. rendered.lines = <<1 + claims[property]>>
      BY <1>2, <1>7, Zenon
    <3> QED BY <3>1
  <2>3. capped.truncated
    <3>1. rendered.hidden = {} /\ ~(Len(rendered.lines) < total)
      BY <1>2, <1>7, <2>2
    <3> QED BY <1>1, <1>3, <1>4, <1>7, <3>1 DEF Said
  <2>4. Total(rendered.lines) = 1 + claims[property]
    <3> DEFINE sums == Sums(rendered.lines)
    <3>1. sums[0] = 0 /\ \A n \in 1 .. Len(rendered.lines) : sums[n] = sums[n - 1] + rendered.lines[n]
      BY <1>2, SumsRecursion
    <3>2. Total(rendered.lines) = sums[1]
      BY <2>2 DEF Total
    <3> HIDE DEF sums
    <3>3. sums[1] = sums[1 - 1] + rendered.lines[1]
      BY <2>2, <3>1
    <3> QED BY <2>1, <2>2, <3>1, <3>2, <3>3
  <2> QED BY <1>3, <1>7, <2>1, <2>2, <2>3, <2>4
<1> QED
  BY <1>6, <1>7

(* A tool read section by section, or property by property.                  *)
LEMMA TodoStep ==
  ASSUME ReadIInv, Going, tool \in {"get-page", "wikibase-get-entity"}, request' = request,
         NEW told, beyond' = beyond \cup told, got \subseteq got', unsaid \subseteq unsaid',
         \A id \in told : id \in got' \/ ~Fits(id),
         todo' \subseteq Ids(rows),
         \A id \in wanted : Ahead(id) => id \in got' \cup beyond' \cup todo' \cup unsaid',
         phase' = IF todo' = {} THEN "done" ELSE "reading"
  PROVE  ReadIInv'
<1>1. phase = "reading" /\ UNCHANGED <<tool, rows, wanted>> /\ tool \notin OffsetTools /\ tool \notin CursorTools
      /\ tool \notin MatchTools /\ tool # "get-page-history" /\ tool # "get-pages" /\ tool # "get-file-content"
  BY DEF Going, OffsetTools, CursorTools, MatchTools
<1>2. RowsOK /\ RequestOK /\ TodoOK /\ WantedOK /\ Covered
  BY Zenon DEF ReadIInv
<1>3. \A id : Fits(id)' <=> Fits(id)
  BY <1>1, FitsKept
<1>4. \A id \in beyond' : Settled(id)'
  <2>1. \A id \in beyond : Settled(id)
    BY <1>2 DEF TodoOK
  <2> QED BY <1>3, <2>1 DEF Settled
<1>5. Ids(rows)' = Ids(rows) /\ \A id \in Ids(rows) : id \in Nat /\ (tool = "wikibase-get-entity" => id > 0)
  <2>1. \A i \in DOMAIN rows : rows[i] \in Row /\ (tool = "wikibase-get-entity" => rows[i].id > 0)
    BY <1>2 DEF RowsOK
  <2> QED BY <1>1, <2>1 DEF Ids, Row
<1>6. TodoOK'
  <2>1. -1 \notin todo' /\ (tool = "wikibase-get-entity" => 0 \notin todo')
    BY <1>5
  <2> QED BY <1>1, <1>4, <1>5, <2>1 DEF TodoOK
<1>7. RequestOK' /\ WantedOK'
  <2>1. OwnIds(rows)' = OwnIds(rows)
    BY <1>1 DEF OwnIds
  <2> QED BY <1>1, <1>2, <1>5, <2>1 DEF RequestOK, WantedOK
<1>8. ASSUME NEW id \in wanted, Ahead(id)
      PROVE  Settled(id)' \/ (phase' = "reading" /\ Ahead(id)')
  <2>1. CASE id \in got' \cup beyond' \cup unsaid'
    BY <1>4, <2>1 DEF Settled
  <2>2. CASE id \in todo'
    BY <1>1, <2>2 DEF Ahead, AheadInTodo
  <2> QED BY <1>8, <2>1, <2>2
<1>9. Covered'
  <2>1. phase' \in {"reading", "done"} /\ beyond \subseteq beyond'
        /\ request'.alias = request.alias /\ request'.file = request.file
    OBVIOUS
  <2> QED BY <1>1, <1>2, <1>8, <2>1, CoveredStep
<1> QED
  BY <1>1, <1>6, <1>7, <1>9, FrameKept DEF ReadIInv

LEMMA EntityClaims ==
  ASSUME RowsOK, tool = "wikibase-get-entity",
         NEW claims, claims = [i \in DOMAIN rows |-> rows[i].size]
  PROVE  /\ claims \in Seq(Nat) /\ Len(claims) = Len(rows) /\ Ids(rows) = 1 .. Len(claims)
         /\ \A i \in Ids(rows) : At(i) = i /\ claims[i] = rows[i].size
<1>1. rows \in Seq(Row) /\ \A i \in DOMAIN rows : rows[i].id = i
  BY DEF RowsOK
<1>2. DOMAIN rows = 1 .. Len(rows) /\ Len(rows) \in Nat /\ \A i \in DOMAIN rows : rows[i].size \in Nat
  <2>1. \A i \in DOMAIN rows : rows[i] \in Row
    BY <1>1
  <2> QED BY <1>1, <2>1 DEF Row
<1>3. claims \in Seq(Nat) /\ Len(claims) = Len(rows)
  BY <1>2
<1>4. Ids(rows) = 1 .. Len(rows)
  BY <1>1, <1>2 DEF Ids
<1>5. \A i \in DOMAIN rows : At(i) = i
  BY <1>1, AtOf
<1> QED
  BY <1>2, <1>3, <1>4, <1>5

LEMMA ReadEntityKeeps ==
  ASSUME ReadIInv, ReadEntity
  PROVE  ReadIInv'
<1> DEFINE claims == [i \in DOMAIN rows |-> rows[i].size]
           answer(p) == EntityAnswer(claims, p)
<1>1. Reading({"wikibase-get-entity"})
  BY Zenon DEF ReadEntity
<1>2. tool = "wikibase-get-entity" /\ Going /\ phase = "reading" /\ RowsOK /\ TodoOK /\ WantedOK
  BY <1>1 DEF Reading, Going, ReadIInv
<1>3. PICK property \in todo :
        /\ got' = got \cup answer(property).full
        /\ beyond' = beyond \cup (IF property # 0 /\ answer(property).says # {} THEN {property} ELSE {})
        /\ todo' = (IF property = 0 /\ answer(property).says # {} THEN Ids(rows) ELSE todo \ {property})
                      \ (got' \cup beyond' \cup {0})
        /\ IF todo' = {} THEN Stop ELSE UNCHANGED <<request, phase>>
        /\ unsaid' = unsaid
  BY Zenon DEF ReadEntity
<1> DEFINE ans == answer(property)
           told == IF property # 0 /\ ans.says # {} THEN {property} ELSE {}
<1>4. /\ claims \in Seq(Nat) /\ Len(claims) = Len(rows) /\ Ids(rows) = 1 .. Len(claims)
      /\ \A i \in Ids(rows) : At(i) = i /\ claims[i] = rows[i].size
  <2> HIDE DEF claims
  <2>1. claims = [i \in DOMAIN rows |-> rows[i].size]
    BY Zenon DEF claims
  <2> QED BY <1>2, <2>1, EntityClaims
<1>5. property \in 0 .. Len(claims) /\ todo \subseteq Ids(rows) \cup {0} /\ (0 \in todo => todo = {0})
      /\ wanted \subseteq Ids(rows)
  <2> HIDE DEF claims, ans
  <2>1. todo \subseteq Ids(rows) \cup {0} /\ (0 \in todo => todo = {0})
    BY <1>2 DEF TodoOK
  <2>2. wanted \subseteq Ids(rows)
    BY <1>2 DEF WantedOK
  <2>3. Len(claims) \in Nat
    BY <1>4
  <2> QED BY <1>4, <2>1, <2>2, <2>3
<1> HIDE DEF claims
<1>6. /\ property = 0 /\ ans.says = {} => 1 .. Len(claims) \subseteq ans.full
      /\ property # 0 /\ ans.says = {} => property \in ans.full
      /\ property # 0 /\ ans.says # {} => ~(1 + claims[property] <= Budget)
  BY <1>4, <1>5, EntityDelivers
<1>7. /\ got' = got \cup ans.full
      /\ beyond' = beyond \cup told
      /\ todo' = (IF property = 0 /\ ans.says # {} THEN Ids(rows) ELSE todo \ {property})
                      \ (got' \cup beyond' \cup {0})
      /\ IF todo' = {} THEN Stop ELSE UNCHANGED <<request, phase>>
      /\ unsaid' = unsaid
  BY <1>3
<1> HIDE DEF ans
<1>8. \A id \in told : id \in got' \/ ~Fits(id)
  <2>1. ASSUME property # 0, ans.says # {} PROVE ~Fits(property)
    <3>1. property \in Ids(rows)
      BY <1>4, <1>5, <2>1
    <3>2. ~(1 + rows[At(property)].size <= Budget)
      BY <1>4, <1>6, <2>1, <3>1
    <3> QED BY <1>2, <3>2, FitsIs
  <2> QED BY <2>1
<1>9. todo' \subseteq Ids(rows)
  BY <1>5, <1>7
<1>10. \A id \in wanted : Ahead(id) => id \in got' \cup beyond' \cup todo' \cup unsaid'
  <2>1. SUFFICES ASSUME NEW id \in wanted, AheadInTodo(id) PROVE id \in got' \cup beyond' \cup todo' \cup unsaid'
    BY <1>2 DEF Ahead
  <2>2. id \in Ids(rows) /\ id # 0
    BY <1>4, <1>5
  <2>3. CASE property = 0 /\ ans.says = {}
    BY <1>4, <1>6, <1>7, <2>2, <2>3
  <2>4. CASE property = 0 /\ ans.says # {}
    BY <1>7, <2>2, <2>4
  <2>5. CASE property # 0
    <3>1. id \in todo
      <4>1. 0 \notin todo
        BY <1>5, <2>5
      <4>2. -1 \notin todo
        BY <1>4, <1>5
      <4> QED BY <1>2, <2>1, <4>1, <4>2 DEF AheadInTodo
    <3>2. CASE id = property
      BY <1>6, <1>7, <2>5, <3>2
    <3>3. CASE id # property
      BY <1>7, <2>2, <2>5, <3>1, <3>3
    <3> QED BY <3>2, <3>3
  <2> QED BY <2>3, <2>4, <2>5
<1>11. request' = request /\ phase' = IF todo' = {} THEN "done" ELSE "reading"
  BY <1>2, <1>7 DEF Stop
<1>12. got \subseteq got' /\ unsaid \subseteq unsaid' /\ beyond' = beyond \cup told
  BY <1>7
<1> HIDE DEF told
<1> QED
  BY <1>2, <1>8, <1>9, <1>10, <1>11, <1>12, TodoStep

(* A set of positions that holds every one before its members is a first run *)
(* of them.                                                                  *)
LEMMA RunFrom ==
  ASSUME NEW a \in Nat, NEW b \in Nat, NEW S \in SUBSET (a + 1 .. b),
         \A j \in S : \A k \in a + 1 .. j : k \in S
  PROVE  Cardinality(S) \in Nat /\ S = a + 1 .. a + Cardinality(S) /\ (S = {} \/ a + Cardinality(S) <= b)
<1>1. CASE S = {}
  <2>1. Cardinality(S) = 0
    BY <1>1, FS_EmptySet
  <2>2. a + 1 .. a + 0 = {}
    OBVIOUS
  <2> QED BY <1>1, <2>1, <2>2
<1>2. CASE S # {}
  <2>1. S \in SUBSET (0 .. b)
    OBVIOUS
  <2>2. PICK m \in S : \A j \in S : j <= m
    BY <1>2, <2>1, GreatestElement
  <2>3. m \in Nat /\ a + 1 <= m /\ m <= b
    BY <2>2
  <2>4. S = a + 1 .. m
    <3>1. a + 1 .. m \subseteq S
      BY <2>2
    <3>2. ASSUME NEW j \in S PROVE j \in a + 1 .. m
      <4>1. j \in a + 1 .. b /\ j <= m
        BY <2>2
      <4> QED BY <2>3, <4>1
    <3> QED BY <3>1, <3>2
  <2>5. a + 1 \in Int /\ m \in Int
    BY <2>3
  <2>6. Cardinality(a + 1 .. m) = IF a + 1 > m THEN 0 ELSE m - (a + 1) + 1
    BY <2>5, FS_Interval
  <2>7. Cardinality(S) = m - a
    <3>1. Cardinality(S) = Cardinality(a + 1 .. m)
      BY <2>4, Zenon
    <3>2. ~(a + 1 > m) /\ m - (a + 1) + 1 = m - a
      BY <2>3
    <3> QED BY <2>6, <3>1, <3>2
  <2> QED BY <2>3, <2>4, <2>7
<1> QED
  BY <1>1, <1>2

(* What a section has to give begins with itself; all of it is in the page,   *)
(* and is its own, among its children, or behind a heading of a template.     *)
SectionParts(section, parts) ==
    /\ parts \in Seq(Row) /\ parts # <<>>
    /\ section = -1 => parts = rows
    /\ section # -1 => parts[1] = rows[At(section)] /\ parts[1].id = section
    /\ section # -1 => \A id \in OwnIds(parts) : id = section \/ id \in Narrower(section) \cup Veiled(section)
    /\ OwnIds(parts) \subseteq OwnIds(rows)
    /\ Narrower(section) \subseteq Ids(rows)
    /\ section = -1 => Narrower(section) = IF OwnIds(rows) = {0} THEN {} ELSE OwnIds(rows)

LEMMA PartsOfSection ==
  ASSUME RowsOK, tool = "get-page", NEW section \in Ids(rows) \cup {-1},
         NEW parts, parts = PartsOf(section)
  PROVE  SectionParts(section, parts)
<1>1. rows \in Seq(Row) /\ rows # <<>> /\ rows[1].id = 0 /\ rows[1].listed /\ Len(rows) \in Nat
  BY DEF RowsOK
<1>2. DOMAIN rows = 1 .. Len(rows) /\ 1 \in DOMAIN rows
  BY <1>1
<1>3. CASE section = -1
  <2>1. parts = rows
    BY <1>3 DEF PartsOf
  <2>2. Narrower(section) = IF OwnIds(rows) = {0} THEN {} ELSE OwnIds(rows)
    BY <1>1, <1>3 DEF Narrower
  <2>3. OwnIds(rows) \subseteq Ids(rows)
    BY DEF OwnIds, Ids
  <2> QED BY <1>1, <1>3, <2>1, <2>2, <2>3 DEF SectionParts
<1>4. CASE section = 0
  <2>1. parts = <<rows[1]>> /\ Narrower(section) = {}
    BY <1>4 DEF PartsOf, Narrower
  <2>2. At(0) = 1
    BY <1>1, <1>2, AtOf
  <2>3. rows[1] \in Row
    BY <1>1, <1>2
  <2>4. parts \in Seq(Row) /\ parts # <<>> /\ parts[1] = rows[1] /\ DOMAIN parts = {1}
    BY <2>1, <2>3
  <2>5. OwnIds(parts) \subseteq {0}
    BY <1>1, <2>4 DEF OwnIds
  <2>6. 0 \in OwnIds(rows)
    BY <1>1, <1>2 DEF OwnIds
  <2> QED BY <1>1, <1>4, <2>1, <2>2, <2>4, <2>5, <2>6 DEF SectionParts
<1>5. CASE section \in Ids(rows) /\ section # 0 /\ section # -1
  <2>1. PICK a \in DOMAIN rows : rows[a].id = section
    BY <1>5 DEF Ids
  <2>2. At(section) = a /\ a \in 1 .. Len(rows)
    BY <1>2, <2>1, AtOf
  <2> DEFINE subtree == SubtreeOf(a)
             n == Cardinality(subtree)
  <2>3. n \in Nat /\ subtree = a + 1 .. a + n /\ a + n <= Len(rows)
    <3>1. a \in Nat /\ subtree \in SUBSET (a + 1 .. Len(rows))
      BY <2>2 DEF SubtreeOf
    <3>2. \A j \in subtree : \A k \in a + 1 .. j : k \in subtree
      BY <1>1, <3>1 DEF SubtreeOf
    <3> HIDE DEF subtree
    <3>3. Cardinality(subtree) \in Nat /\ subtree = a + 1 .. a + Cardinality(subtree)
          /\ (subtree = {} \/ a + Cardinality(subtree) <= Len(rows))
      BY <1>1, <3>1, <3>2, RunFrom
    <3>4. subtree = {} => n = 0
      BY FS_EmptySet
    <3> QED BY <2>2, <3>3, <3>4
  <2>4. parts = SubSeq(rows, a, a + n)
    BY <1>5, <2>2 DEF PartsOf
  <2>5. subtree = SubtreeOf(a)
    OBVIOUS
  <2> HIDE DEF n, subtree
  <2> DEFINE last == a + n
  <2>6. a \in Nat /\ last \in Nat /\ 1 <= a /\ a <= last /\ last <= Len(rows) /\ last - a + 1 = n + 1
    BY <1>1, <2>2, <2>3
  <2>7. parts = SubSeq(rows, a, last)
    BY <2>4
  <2>8. subtree = a + 1 .. last
    BY <2>3
  <2> HIDE DEF last
  <2>9. /\ parts \in Seq(Row) /\ Len(parts) = last - a + 1
        /\ DOMAIN parts = 1 .. last - a + 1
        /\ \A i \in 1 .. last - a + 1 : parts[i] = rows[a + i - 1]
    <3>1. a <= last + 1
      BY <2>6
    <3> QED BY <1>1, <2>6, <2>7, <3>1, SliceOf
  <2>10. parts[1] = rows[a] /\ parts # <<>>
    <3>1. 1 \in 1 .. last - a + 1 /\ a + 1 - 1 = a /\ Len(parts) # 0
      BY <2>6, <2>9
    <3>2. parts # <<>>
      BY <3>1
    <3> QED BY <2>9, <3>1, <3>2
  <2>11. \A i \in DOMAIN parts : a + i - 1 \in DOMAIN rows /\ parts[i] = rows[a + i - 1]
                                 /\ (i = 1 \/ a + i - 1 \in subtree) /\ (i = 1 => a + i - 1 = a)
    BY <1>2, <2>6, <2>8, <2>9
  <2>12. Narrower(section) = {rows[j].id : j \in OwnChildrenOf(a)}
    BY <1>5, <2>2 DEF Narrower
  <2>13. Narrower(section) \subseteq Ids(rows)
    <3>1. \A j \in OwnChildrenOf(a) : j \in DOMAIN rows
      BY <1>1, <1>2, <2>6 DEF OwnChildrenOf, ChildrenOf
    <3> QED BY <2>12, <3>1 DEF Ids
  <2>14. Veiled(section) = {rows[j].id : j \in {k \in subtree : rows[k].listed} \ ChildrenOf(a)}
    <3>1. ~(section <= 0)
      <4>1. section \in Nat
        <5>1. rows[a] \in Row
          BY <1>1, <2>1
        <5> QED BY <2>1, <5>1 DEF Row
      <4> QED BY <1>5, <4>1
    <3> QED BY <2>2, <2>5, <3>1 DEF Veiled
  <2>15. ASSUME NEW id \in OwnIds(parts)
         PROVE  id \in OwnIds(rows) /\ (id = section \/ id \in Narrower(section) \cup Veiled(section))
    <3>1. PICK i \in DOMAIN parts : parts[i].listed /\ id = parts[i].id
      BY <2>15 DEF OwnIds
    <3> DEFINE j == a + i - 1
    <3>2. j \in DOMAIN rows /\ rows[j].listed /\ id = rows[j].id /\ (j = a \/ j \in subtree)
      BY <2>11, <3>1
    <3> HIDE DEF j
    <3>3. id \in OwnIds(rows)
      BY <3>2 DEF OwnIds
    <3>4. CASE j = a
      BY <2>1, <3>2, <3>3, <3>4
    <3>5. CASE j \in subtree /\ j \in ChildrenOf(a)
      <4>1. j \in OwnChildrenOf(a)
        BY <3>2, <3>5 DEF OwnChildrenOf
      <4> QED BY <2>12, <3>2, <3>3, <4>1
    <3>6. CASE j \in subtree /\ j \notin ChildrenOf(a)
      BY <2>14, <3>2, <3>3, <3>6
    <3> QED BY <3>2, <3>4, <3>5, <3>6
  <2>16. /\ \A id \in OwnIds(parts) : id = section \/ id \in Narrower(section) \cup Veiled(section)
         /\ OwnIds(parts) \subseteq OwnIds(rows)
    BY <2>15
  <2> QED BY <1>5, <2>1, <2>2, <2>9, <2>10, <2>13, <2>16 DEF SectionParts
<1> QED
  BY <1>3, <1>4, <1>5

(* What a cut text holds whole: all of it when it fits, and a first part      *)
(* that would fit by itself.                                                 *)
LEMMA WholeParts ==
  ASSUME NEW parts \in Seq(Row), parts # <<>>, NEW short \in 0 .. 1,
         NEW sums, sums = Sums([i \in DOMAIN parts |-> parts[i].size]),
         NEW total, total = sums[Len(parts)],
         NEW whole, whole = {parts[i].id : i \in {j \in DOMAIN parts : sums[j] <= TruncateByBytes(total, short)}}
  PROVE  /\ total <= Budget => \A i \in DOMAIN parts : parts[i].id \in whole
         /\ parts[1].size <= Budget - 1 => parts[1].id \in whole
         /\ total > Budget \/ total <= Budget
<1> DEFINE sizes == [i \in DOMAIN parts |-> parts[i].size]
<1>1. DOMAIN parts = 1 .. Len(parts) /\ Len(parts) \in Nat /\ 1 \in DOMAIN parts
  OBVIOUS
<1>2. \A i \in DOMAIN parts : parts[i].size \in Nat
  <2>1. \A i \in DOMAIN parts : parts[i] \in Row
    OBVIOUS
  <2> QED BY <2>1 DEF Row
<1>3. sizes \in Seq(Nat) /\ Len(sizes) = Len(parts)
  BY <1>1, <1>2
<1>4. sizes[1] = parts[1].size
  BY <1>1
<1>5. sums = Sums(sizes)
  OBVIOUS
<1> HIDE DEF sizes
<1>6. /\ \A n \in 0 .. Len(sizes) : sums[n] \in Nat
      /\ \A n \in 0 .. Len(sizes) : sums[n] <= Total(sizes)
  BY <1>3, <1>5, SumsGrow
<1>7. total = Total(sizes)
  BY <1>3, <1>5 DEF Total
<1>8. sums[1] = parts[1].size
  <2>1. sums[0] = 0 /\ \A n \in 1 .. Len(sizes) : sums[n] = sums[n - 1] + sizes[n]
    BY <1>3, <1>5, SumsRecursion
  <2>2. sums[1] = sums[1 - 1] + sizes[1]
    BY <1>1, <1>3, <2>1
  <2> QED BY <1>1, <1>2, <1>4, <2>1, <2>2
<1>9. total \in Nat /\ Budget \in Nat /\ \A i \in DOMAIN parts : sums[i] \in Nat /\ sums[i] <= total
  <2>1. ASSUME NEW i \in 0 .. Len(parts) PROVE sums[i] \in Nat /\ sums[i] <= total
    BY <1>3, <1>6, <1>7
  <2>2. total \in Nat
    BY <1>1, <2>1
  <2>3. \A i \in DOMAIN parts : i \in 0 .. Len(parts)
    BY <1>1
  <2> QED BY <2>1, <2>2, <2>3, BoundsAssumption
<1>10. ASSUME total <= Budget, NEW i \in DOMAIN parts PROVE parts[i].id \in whole
  <2>1. sums[i] <= TruncateByBytes(total, short)
    BY <1>9, <1>10 DEF TruncateByBytes
  <2> QED BY <2>1
<1>11. ASSUME parts[1].size <= Budget - 1 PROVE parts[1].id \in whole
  <2>1. sums[1] <= TruncateByBytes(total, short)
    BY <1>1, <1>8, <1>9, <1>11 DEF TruncateByBytes
  <2> QED BY <1>1, <2>1
<1> QED
  BY <1>9, <1>10, <1>11

(* The answer of get-page for a section, seen by its caller.                 *)
LEMMA SectionSays ==
  ASSUME RowsOK, tool = "get-page", NEW section \in Ids(rows) \cup {-1}, NEW short \in 0 .. 1,
         NEW answer, answer = SectionAnswer(section, short),
         NEW spent, spent = IF section = -1 THEN (IF answer.names = {} THEN {0} ELSE {}) ELSE {section}
  PROVE  /\ answer.names \subseteq Ids(rows)
         /\ \A id \in spent : id \in answer.whole \/ ~Fits(id)
         /\ section = -1 => OwnIds(rows) \subseteq answer.names \cup answer.whole \cup spent
         /\ section # -1 =>
              OwnIds(PartsOf(section)) \subseteq answer.names \cup answer.whole \cup spent \cup answer.veils
<1> DEFINE parts == PartsOf(section)
           sums == Sums([i \in DOMAIN parts |-> parts[i].size])
           total == sums[Len(parts)]
           whole == {parts[i].id : i \in {j \in DOMAIN parts : sums[j] <= TruncateByBytes(total, short)}}
<1>1. /\ answer.whole = whole /\ answer.names = IF total > Budget THEN Narrower(section) ELSE {}
      /\ answer.veils = IF total > Budget THEN Veiled(section) ELSE {}
  BY DEF SectionAnswer
<1>2. /\ parts \in Seq(Row) /\ parts # <<>>
      /\ section = -1 => parts = rows
      /\ section # -1 => parts[1] = rows[At(section)] /\ parts[1].id = section
      /\ section # -1 => \A id \in OwnIds(parts) : id = section \/ id \in Narrower(section) \cup Veiled(section)
      /\ Narrower(section) \subseteq Ids(rows)
      /\ section = -1 => Narrower(section) = IF OwnIds(rows) = {0} THEN {} ELSE OwnIds(rows)
  <2> HIDE DEF parts
  <2>1. parts = PartsOf(section)
    BY Zenon DEF parts
  <2>2. SectionParts(section, parts)
    BY <2>1, PartsOfSection
  <2> QED BY <2>2 DEF SectionParts
<1>9. parts = PartsOf(section)
  OBVIOUS
<1> HIDE DEF parts
<1>3. /\ total <= Budget => \A i \in DOMAIN parts : parts[i].id \in whole
      /\ parts[1].size <= Budget - 1 => parts[1].id \in whole
      /\ total > Budget \/ total <= Budget
  BY <1>2, WholeParts
<1> HIDE DEF sums, total, whole
<1>10. total <= Budget => OwnIds(parts) \subseteq answer.whole
  BY <1>1, <1>3 DEF OwnIds
<1>4. rows \in Seq(Row) /\ rows # <<>> /\ rows[1].id = 0 /\ Len(rows) \in Nat /\ DOMAIN rows = 1 .. Len(rows)
  BY DEF RowsOK
<1>5. At(0) = 1
  BY <1>4, AtOf
<1>6. ASSUME NEW id, rows[At(id)] = parts[1], parts[1].id = id PROVE id \in answer.whole \/ ~Fits(id)
  BY <1>1, <1>3, <1>6, FitsIs
<1>7. CASE section # -1
  <2>1. \A id \in spent : id \in answer.whole \/ ~Fits(id)
    BY <1>2, <1>6, <1>7
  <2>2. OwnIds(parts) \subseteq answer.names \cup answer.whole \cup spent \cup answer.veils
    BY <1>1, <1>2, <1>3, <1>7, <1>10
  <2> QED BY <1>1, <1>2, <1>7, <1>9, <2>1, <2>2
<1>8. CASE section = -1
  <2>1. \A id \in spent : id \in answer.whole \/ ~Fits(id)
    BY <1>2, <1>4, <1>5, <1>6, <1>8
  <2>2. OwnIds(rows) \subseteq answer.names \cup answer.whole \cup spent
    BY <1>1, <1>2, <1>3, <1>8, <1>10
  <2> QED BY <1>1, <1>2, <1>8, <2>1, <2>2
<1> QED
  BY <1>7, <1>8

LEMMA ReadSectionKeeps ==
  ASSUME ReadIInv, ReadSection
  PROVE  ReadIInv'
<1>1. Reading({"get-page"})
  BY Zenon DEF ReadSection
<1>2. tool = "get-page" /\ Going /\ phase = "reading" /\ RowsOK /\ TodoOK /\ WantedOK
  BY <1>1 DEF Reading, Going, ReadIInv
<1> DEFINE answer(section, short) == SectionAnswer(section, short)
           spent(section, short) ==
             IF section = -1 THEN (IF answer(section, short).names = {} THEN {0} ELSE {}) ELSE {section}
<1>3. PICK section \in todo, short \in 0 .. 1 :
        /\ got' = got \cup answer(section, short).whole
        /\ beyond' = beyond \cup (spent(section, short) \ got')
        /\ todo' = ((todo \ {section}) \cup answer(section, short).names) \ (got' \cup beyond')
        /\ unsaid' = unsaid \cup (answer(section, short).veils \ (got' \cup beyond' \cup todo'))
        /\ IF todo' = {} THEN Stop ELSE UNCHANGED <<request, phase>>
  BY Zenon DEF ReadSection
<1> DEFINE ans == answer(section, short)
           done == spent(section, short)
<1>4. todo \subseteq Ids(rows) \cup {-1} /\ (-1 \in todo => todo = {-1})
      /\ wanted \subseteq OwnIds(rows) /\ OwnIds(rows) \subseteq Ids(rows)
      /\ section \in Ids(rows) \cup {-1}
  <2>1. todo \subseteq Ids(rows) \cup {-1} /\ (-1 \in todo => todo = {-1})
    BY <1>2 DEF TodoOK
  <2>2. wanted \subseteq OwnIds(rows)
    BY <1>2 DEF WantedOK
  <2>3. OwnIds(rows) \subseteq Ids(rows)
    BY DEF OwnIds, Ids
  <2> QED BY <2>1, <2>2, <2>3
<1>5. done = IF section = -1 THEN (IF ans.names = {} THEN {0} ELSE {}) ELSE {section}
  OBVIOUS
<1>6. ans = SectionAnswer(section, short)
  OBVIOUS
<1>7. /\ got' = got \cup ans.whole
      /\ beyond' = beyond \cup (done \ got')
      /\ todo' = ((todo \ {section}) \cup ans.names) \ (got' \cup beyond')
      /\ unsaid' = unsaid \cup (ans.veils \ (got' \cup beyond' \cup todo'))
      /\ IF todo' = {} THEN Stop ELSE UNCHANGED <<request, phase>>
  BY <1>3, Zenon
<1> HIDE DEF ans, done
<1>8. /\ ans.names \subseteq Ids(rows)
      /\ \A id \in done : id \in ans.whole \/ ~Fits(id)
      /\ section = -1 => OwnIds(rows) \subseteq ans.names \cup ans.whole \cup done
      /\ section # -1 => OwnIds(PartsOf(section)) \subseteq ans.names \cup ans.whole \cup done \cup ans.veils
  BY <1>2, <1>4, <1>5, <1>6, SectionSays
<1> DEFINE told == done \ got'
<1>9. \A id \in told : id \in got' \/ ~Fits(id)
  BY <1>7, <1>8
<1>10. todo' \subseteq Ids(rows)
  BY <1>4, <1>7, <1>8
<1>14. ans.names \cup ans.whole \cup done \cup ans.veils \subseteq got' \cup beyond' \cup todo' \cup unsaid'
  BY <1>7
<1>11. \A id \in wanted : Ahead(id) => id \in got' \cup beyond' \cup todo' \cup unsaid'
  <2>1. SUFFICES ASSUME NEW id \in wanted, AheadInTodo(id)
                 PROVE  id \in got' \cup beyond' \cup todo' \cup unsaid'
    BY <1>2 DEF Ahead
  <2>2. id \in OwnIds(rows)
    BY <1>4
  <2>3. CASE section = -1
    BY <1>8, <1>14, <2>2, <2>3
  <2>4. CASE section # -1
    <3>1. id \in todo \/ id \in OwnIds(PartsOf(section))
      BY <1>2, <1>4, <2>1, <2>4 DEF AheadInTodo
    <3>2. CASE id \in OwnIds(PartsOf(section)) \/ id = section
      BY <1>5, <1>8, <1>14, <2>4, <3>2
    <3>3. CASE id \in todo /\ id # section
      BY <1>7, <3>3
    <3> QED BY <3>1, <3>2, <3>3
  <2> QED BY <2>3, <2>4
<1>12. request' = request /\ phase' = IF todo' = {} THEN "done" ELSE "reading"
  BY <1>2, <1>7 DEF Stop
<1>13. got \subseteq got' /\ unsaid \subseteq unsaid' /\ beyond' = beyond \cup told
  BY <1>7
<1> HIDE DEF told
<1> QED
  BY <1>2, <1>9, <1>10, <1>11, <1>12, <1>13, TodoStep

-----------------------------------------------------------------------------
(* Revisions from a boundary.                                                *)

(* A history is read in one of two orders of its positions.                  *)
LEMMA EndsOf ==
  ASSUME request.newer \in BOOLEAN, NEW b \in Nat, NEW P \in SUBSET (0 .. b), P # {}
  PROVE  /\ \E m \in P : \A j \in P : ~Later(m, j)
         /\ \E m \in P : \A j \in P : ~Later(j, m)
<1>1. P \in SUBSET Nat
  OBVIOUS
<1>2. PICK low \in P : \A j \in P : low <= j
  BY <1>1, LeastElement
<1>3. PICK high \in P : \A j \in P : j <= high
  BY GreatestElement
<1>4. \A j \in P : ~(j < low) /\ ~(high < j)
  BY <1>1, <1>2, <1>3
<1>5. CASE request.newer
  BY <1>2, <1>3, <1>4, <1>5 DEF Later
<1>6. CASE ~request.newer
  <2>1. \A j \in P : ~Later(low, j) /\ ~Later(j, high)
    BY <1>1, <1>2, <1>3, <1>6 DEF Later
  <2> QED BY <2>1
<1> QED
  BY <1>5, <1>6

LEMMA LaterOrders ==
  ASSUME request.newer \in BOOLEAN
  PROVE  /\ \A i, j \in Nat : Later(i, j) \/ Later(j, i) \/ i = j
         /\ \A i, j, k \in Nat : Later(i, j) /\ Later(j, k) => Later(i, k)
         /\ \A i \in Nat : ~Later(i, i)
BY DEF Later

LEMMA FirstOfPrefix ==
  ASSUME request.newer \in BOOLEAN, NEW b \in Nat, NEW P \in SUBSET (0 .. b), NEW n \in Nat,
         NEW j \in FirstOf(P, n), NEW i \in P, Later(j, i)
  PROVE  i \in FirstOf(P, n)
<1> DEFINE before(k) == {l \in P : Later(k, l)}
<1>1. j \in P /\ Cardinality(before(j)) < n
  BY DEF FirstOf
<1>2. before(i) \subseteq before(j)
  <2> P \subseteq Nat
    OBVIOUS
  <2> QED BY <1>1, LaterOrders
<1>3. IsFiniteSet(0 .. b) /\ before(j) \subseteq 0 .. b
  <2>1. IsFiniteSet(0 .. b)
    BY FS_Interval
  <2>2. before(j) \subseteq 0 .. b
    OBVIOUS
  <2> QED BY <2>1, <2>2
<1>4. IsFiniteSet(before(j))
  <2> HIDE DEF before
  <2> QED BY <1>3, FS_Subset
<1>5. IsFiniteSet(before(i)) /\ Cardinality(before(i)) <= Cardinality(before(j))
  <2> HIDE DEF before
  <2> QED BY <1>2, <1>4, FS_Subset
<1>6. Cardinality(before(i)) \in Nat /\ Cardinality(before(j)) \in Nat
  <2> HIDE DEF before
  <2> QED BY <1>4, <1>5, FS_CardinalityType
<1>7. Cardinality(before(i)) < n
  BY <1>1, <1>5, <1>6
<1> QED
  BY <1>7 DEF FirstOf

LEMMA FirstIsFirst ==
  ASSUME NEW P, NEW n \in Nat \ {0}, NEW m \in P, \A j \in P : ~Later(m, j)
  PROVE  m \in FirstOf(P, n)
<1>1. {j \in P : Later(m, j)} = {}
  OBVIOUS
<1>2. Cardinality({j \in P : Later(m, j)}) = 0
  BY <1>1, FS_EmptySet
<1> QED
  BY <1>2 DEF FirstOf

(* The revisions of an answer lead what there is to read, and the caller is   *)
(* told when there are more.                                                 *)
HistoryReads(page) ==
    /\ page.revisions \subseteq ButBoundary(Matching)
    /\ \A j \in page.revisions, i \in ButBoundary(Matching) : Later(j, i) => i \in page.revisions
    /\ \/ page.rvcontinue /\ page.revisions # {}
       \/ page.revisions = ButBoundary(Matching)
       \/ /\ ~page.rvcontinue /\ request.cursor # None /\ ~rows[At(request.cursor)].listed
          /\ page.revisions = FirstOf(Matching, request.limit)

LEMMA HistoryPageReads ==
  ASSUME RowsOK, request \in Request, tool = "get-page-history",
         request.cursor # None => \E i \in DOMAIN rows : rows[i].id = request.cursor
  PROVE  HistoryReads(HistoryPage)
<1> DEFINE l == request.limit
           b == Len(rows)
           M == Matching
           B == ButBoundary(M)
           page == HistoryPage
<1>1. request.newer \in BOOLEAN /\ l \in Nat \ {0} /\ b \in Nat /\ DOMAIN rows = 1 .. b
  BY LimitOK DEF Request, RowsOK
<1>2. M \in SUBSET (0 .. b) /\ B \subseteq M /\ M \subseteq DOMAIN rows /\ M \subseteq Nat
  BY <1>1 DEF Matching, ButBoundary
<1>3. \A P, n : FirstOf(P, n) \subseteq P
  BY DEF FirstOf
<1>4. \A P : ButBoundary(P) \subseteq P
  BY DEF ButBoundary
<1>5. CASE request.cursor = None
  <2> DEFINE W == FirstOf(M, l)
  <2>1. B = M
    <3>1. \A i \in M : rows[i].id # None
      BY <1>2 DEF RowsOK, None
    <3> QED BY <1>5, <3>1 DEF ButBoundary
  <2>2. l + 0 = l
    BY <1>1
  <2>3. page.revisions = W /\ page.rvcontinue = (W # M)
    BY <1>5, <2>2 DEF HistoryPage
  <2>4. page.rvcontinue <=> W # M
    BY <2>3, Zenon
  <2>5. \A j \in W, i \in M : Later(j, i) => i \in W
    BY <1>1, <1>2, FirstOfPrefix
  <2>6. M # {} => W # {}
    <3>1. SUFFICES ASSUME M # {} PROVE W # {}
      OBVIOUS
    <3>2. PICK m \in M : \A j \in M : ~Later(m, j)
      BY <1>1, <1>2, <3>1, EndsOf
    <3>3. m \in W
      BY <1>1, <3>2, FirstIsFirst
    <3> QED BY <3>3
  <2>7. W \subseteq M
    BY <1>3
  <2> HIDE DEF W, M, page
  <2>8. (page.rvcontinue /\ page.revisions # {}) \/ page.revisions = M
    BY <2>3, <2>4, <2>6, <2>7
  <2>9. HistoryReads(page)
    BY <2>1, <2>3, <2>5, <2>7, <2>8 DEF HistoryReads, M
  <2> QED BY <2>9 DEF page
<1>6. PICK a : request.cursor # None =>
                 a \in DOMAIN rows /\ a \in Nat /\ rows[a].id = request.cursor /\ At(request.cursor) = a
  BY <1>1, AtOf
<1>7. CASE request.cursor # None /\ ~rows[a].listed
  <2> DEFINE W == FirstOf(M, l + 1)
             R == FirstOf(W, l)
  <2>1. \A i \in M : rows[i].id # request.cursor
    BY <1>6, <1>7 DEF Matching, RowsOK
  <2>2. B = M /\ W \subseteq M /\ R \subseteq W
    <3>1. B = M
      BY <1>4, <2>1 DEF ButBoundary
    <3> QED BY <1>3, <3>1
  <2>3. ButBoundary(W) = W
    BY <1>4, <2>1, <2>2 DEF ButBoundary
  <2>4. page.revisions = R /\ page.rvcontinue = (W # M)
    BY <1>7, <2>3 DEF HistoryPage
  <2>5. page.rvcontinue <=> W # M
    BY <2>4, Zenon
  <2>6. W \in SUBSET (0 .. b) /\ l + 1 \in Nat /\ l \in Nat /\ l + 1 \in Nat \ {0}
    BY <1>1, <1>2, <2>2
  <2> HIDE DEF page, M
  <2>7. \A j \in R, i \in B : Later(j, i) => i \in R
    <3>1. SUFFICES ASSUME NEW j \in R, NEW i \in M, Later(j, i) PROVE i \in R
      BY <2>2
    <3>2. j \in W
      BY <2>2
    <3>3. i \in W
      BY <1>1, <1>2, <2>6, <3>1, <3>2, FirstOfPrefix, Zenon
    <3> HIDE DEF W
    <3> QED BY <1>1, <2>6, <3>1, <3>3, FirstOfPrefix
  <2>8. ASSUME W # M PROVE R # {}
    <3>1. M # {}
      BY <2>2, <2>8
    <3>2. PICK m \in M : \A j \in M : ~Later(m, j)
      BY <1>1, <1>2, <3>1, EndsOf
    <3>3. m \in W
      BY <2>6, <3>2, FirstIsFirst
    <3>4. \A j \in W : ~Later(m, j)
      BY <2>2, <3>2
    <3> HIDE DEF W
    <3>5. m \in R
      BY <1>1, <3>3, <3>4, FirstIsFirst
    <3> QED BY <3>5
  <2>9. W = M => R = FirstOf(M, l)
    OBVIOUS
  <2>10. ~rows[At(request.cursor)].listed
    BY <1>6, <1>7
  <2> HIDE DEF W, R, B
  <2>11. /\ page.revisions \subseteq B
         /\ \/ page.rvcontinue /\ page.revisions # {}
            \/ ~page.rvcontinue /\ page.revisions = FirstOf(M, l)
    BY <2>2, <2>4, <2>5, <2>8, <2>9
  <2>12. HistoryReads(page)
    BY <1>7, <2>4, <2>7, <2>10, <2>11 DEF HistoryReads, M, B
  <2> QED BY <2>12 DEF page
<1>8. CASE request.cursor # None /\ rows[a].listed
  <2> DEFINE W == FirstOf(M, l + 1)
             R == FirstOf(ButBoundary(W), l)
  <2>1. a \in DOMAIN rows /\ rows[a].id = request.cursor /\ rows[a].listed
    BY <1>6, <1>8
  <2>2. At(request.cursor) = a /\ a \in Nat
    BY <1>6, <1>8
  <2>3. a \in M /\ \A i \in DOMAIN rows : rows[i].id = request.cursor => i = a
    BY <2>1 DEF Matching, RowsOK
  <2>4. \A i \in M : i \in B \/ i = a
    BY <1>2, <2>3 DEF ButBoundary
  <2>5. \A i \in B : Later(i, a) /\ i # a
    BY <1>8, <2>1, <2>2 DEF ButBoundary, Matching
  <2>6. page.revisions = R /\ page.rvcontinue = (W # M)
    BY <1>8 DEF HistoryPage
  <2>7. page.rvcontinue <=> W # M
    BY <2>6, Zenon
  <2>8. W \subseteq M /\ ButBoundary(W) \subseteq B /\ R \subseteq ButBoundary(W)
    BY <1>3 DEF ButBoundary
  <2>9. ASSUME NEW i \in B, i \in W PROVE i \in ButBoundary(W)
    BY <2>9 DEF ButBoundary
  <2> HIDE DEF page, M
  <2>10. \A j \in R, i \in B : Later(j, i) => i \in R
    <3>1. SUFFICES ASSUME NEW j \in R, NEW i \in B, Later(j, i) PROVE i \in R
      OBVIOUS
    <3>2. j \in W /\ i \in M
      BY <1>2, <1>4, <2>8
    <3>3. i \in W
      <4>1. l + 1 \in Nat
        BY <1>1
      <4> QED BY <1>1, <1>2, <3>1, <3>2, <4>1, FirstOfPrefix, Zenon
    <3>4. i \in ButBoundary(W)
      BY <2>9, <3>3
    <3>5. ButBoundary(W) \in SUBSET (0 .. b) /\ l \in Nat
      BY <1>1, <1>2, <2>8
    <3> HIDE DEF W
    <3> QED BY <1>1, <3>1, <3>4, <3>5, FirstOfPrefix
  <2>11. ASSUME B # {} PROVE R # {}
    <3>1. PICK m \in B : \A j \in B : ~Later(m, j)
      <4>1. B \in SUBSET (0 .. b)
        BY <1>2
      <4> HIDE DEF B
      <4> QED BY <1>1, <2>11, <4>1, EndsOf
    <3> DEFINE before == {j \in M : Later(m, j)}
    <3>2. before \subseteq {a}
      BY <2>4, <3>1
    <3>3. Cardinality(before) < l + 1
      <4> HIDE DEF before
      <4>1. IsFiniteSet({a}) /\ Cardinality({a}) = 1
        BY FS_Singleton
      <4>2. IsFiniteSet(before) /\ Cardinality(before) <= 1
        BY <3>2, <4>1, FS_Subset
      <4>3. Cardinality(before) \in Nat
        BY <4>2, FS_CardinalityType
      <4> QED BY <1>1, <4>2, <4>3
    <3>4. m \in M
      BY <1>2
    <3>5. m \in W
      BY <3>3, <3>4 DEF FirstOf
    <3>6. m \in ButBoundary(W)
      BY <2>9, <3>5
    <3>7. \A j \in ButBoundary(W) : ~Later(m, j)
      BY <2>8, <3>1
    <3> HIDE DEF W
    <3>8. m \in R
      BY <1>1, <3>6, <3>7, FirstIsFirst
    <3> QED BY <3>8
  <2>12. ASSUME W = M PROVE R = B
    <3>1. ButBoundary(W) = B
      BY <2>12
    <3>2. ASSUME NEW i \in B PROVE i \in FirstOf(B, l)
      <4> DEFINE before == {j \in M : Later(i, j)}
      <4>1. a \in before /\ {j \in B : Later(i, j)} = before \ {a}
        BY <1>2, <2>3, <2>4, <2>5 DEF M
      <4>2. Cardinality(before) < l + 1
        <5>1. i \in W
          BY <1>2, <2>12
        <5> QED BY <5>1 DEF FirstOf
      <4>3. IsFiniteSet(before)
        <5>1. IsFiniteSet(0 .. b) /\ before \subseteq 0 .. b
          BY <1>1, <1>2, FS_Interval
        <5> HIDE DEF before
        <5> QED BY <5>1, FS_Subset
      <4> HIDE DEF before
      <4>4. Cardinality(before) \in Nat /\ Cardinality(before \ {a}) = Cardinality(before) - 1
        BY <4>1, <4>3, FS_CardinalityType, FS_RemoveElement
      <4> DEFINE others == {j \in B : Later(i, j)}
      <4>5. others = before \ {a}
        BY <4>1
      <4> HIDE DEF others
      <4>6. Cardinality(others) = Cardinality(before) - 1
        BY <4>4, <4>5
      <4>7. Cardinality(others) < l
        BY <1>1, <4>2, <4>4, <4>6
      <4> QED BY <4>7 DEF FirstOf, others
    <3>3. FirstOf(B, l) \subseteq B
      BY <1>3
    <3> QED BY <3>1, <3>2, <3>3
  <2> HIDE DEF W, R, B
  <2>13. (page.rvcontinue /\ page.revisions # {}) \/ page.revisions = B
    <3>1. R \subseteq B
      BY <2>8
    <3> QED BY <2>6, <2>7, <2>11, <2>12, <3>1
  <2>14. HistoryReads(page)
    BY <2>6, <2>8, <2>10, <2>13 DEF HistoryReads, M, B
  <2> QED BY <2>14 DEF page
<1> QED
  BY <1>5, <1>7, <1>8

LEMMA ReadHistoryKeeps ==
  ASSUME ReadIInv, ReadHistory
  PROVE  ReadIInv'
<1> DEFINE page == HistoryPage
           B == ButBoundary(Matching)
<1>1. /\ Reading({"get-page-history"})
      /\ got' = got \cup {rows[i].id : i \in page.revisions}
      /\ IF page.rvcontinue /\ page.revisions # {} THEN GoOnAt(rows[LastOf(page.revisions)].id) ELSE Stop
      /\ todo' = todo /\ beyond' = beyond
      /\ unsaid' = unsaid \cup (IF page.rvcontinue THEN {} ELSE Overlooked)
  BY Zenon DEF ReadHistory
<1>2. /\ tool = "get-page-history" /\ Going /\ phase = "reading"
      /\ tool \notin OffsetTools /\ tool \notin CursorTools /\ tool \notin MatchTools
  BY <1>1 DEF Reading, Going, OffsetTools, CursorTools, MatchTools
<1>3. RowsOK /\ RequestOK /\ request \in Request /\ request.newer \in BOOLEAN
      /\ DOMAIN rows = 1 .. Len(rows) /\ Len(rows) \in Nat
  <2>1. RowsOK /\ RequestOK /\ request \in Request
    BY Zenon DEF ReadIInv, RequestOK
  <2> QED BY <2>1 DEF Request, RowsOK
<1>4. HistoryReads(page)
  <2>1. request.cursor # None => \E i \in DOMAIN rows : rows[i].id = request.cursor
    BY <1>2, CursorNamesARow
  <2> HIDE DEF page
  <2> QED BY <1>2, <1>3, <2>1, HistoryPageReads DEF page
<1> HIDE DEF page
<1>5. B \subseteq DOMAIN rows /\ \A i \in B : rows[i].listed
  BY DEF ButBoundary, Matching
<1>6. /\ page.revisions \subseteq B
      /\ \A j \in page.revisions, i \in B : Later(j, i) => i \in page.revisions
      /\ \/ page.rvcontinue /\ page.revisions # {}
         \/ page.revisions = B
         \/ /\ ~page.rvcontinue /\ request.cursor # None /\ ~rows[At(request.cursor)].listed
            /\ page.revisions = FirstOf(Matching, request.limit)
  BY <1>4, Zenon DEF HistoryReads
<1>7. \A id \in wanted : Ahead(id) => \E i \in B : rows[i].id = id
  BY <1>2 DEF Ahead, AheadInHistory
<1>8. TodoOK' /\ WantedOK'
  BY <1>1, <1>2 DEF ReadIInv, TodoOK, WantedOK, Going, CursorTools, OffsetTools, MatchTools
<1>9. got \subseteq got' /\ beyond \subseteq beyond' /\ unsaid \subseteq unsaid'
  BY <1>1
<1>10. \A i \in page.revisions : rows[i].id \in got'
  BY <1>1
<1>11. CASE page.rvcontinue /\ page.revisions # {}
  <2>1. page.revisions \in SUBSET (0 .. Len(rows)) /\ page.revisions \subseteq Nat
    BY <1>3, <1>5, <1>6
  <2>2. \E m \in page.revisions : \A j \in page.revisions : ~Later(j, m)
    BY <1>3, <1>11, <2>1, EndsOf
  <2>3. PICK last \in page.revisions :
          last = LastOf(page.revisions) /\ \A j \in page.revisions : ~Later(j, last)
    BY <2>2, Zenon DEF LastOf
  <2>4. request' = [request EXCEPT !.cursor = rows[last].id] /\ phase' = phase
    BY <1>1, <1>11, <2>3, Zenon DEF GoOnAt
  <2>5. last \in DOMAIN rows /\ last \in Nat /\ rows[last].listed /\ last \in B
    BY <1>5, <1>6, <2>1, <2>3
  <2>6. rows[last].id \in Int /\ rows[last].id # None /\ At(rows[last].id) = last
    <3>1. rows[last] \in Row /\ rows[last].id > 0
      BY <1>2, <1>3, <2>5 DEF RowsOK
    <3> QED BY <1>3, <2>5, <3>1, AtOf DEF Row, None
  <2>7. request' \in Request /\ request'.cursor = rows[last].id /\ SameBut("cursor")
    BY <1>3, <2>4, <2>6, RequestChanges, Zenon
  <2>8. /\ request'.alias = request.alias /\ request'.file = request.file
        /\ request'.asked = request.asked /\ request'.titles = request.titles /\ request'.newer = request.newer
        /\ phase' = "reading"
    BY <1>2, <2>4, <2>7 DEF SameBut
  <2>9. RequestOK'
    BY <1>2, <1>3, <2>5, <2>7, <2>8 DEF RequestOK, Going
  <2>10. ASSUME NEW id \in wanted, Ahead(id)
         PROVE  Settled(id)' \/ (phase' = "reading" /\ Ahead(id)')
    <3>1. PICK i \in B : rows[i].id = id
      BY <1>7, <2>10
    <3>2. CASE i \in page.revisions
      BY <1>10, <3>1, <3>2 DEF Settled
    <3>3. CASE i \notin page.revisions
      <4>1. i \in Nat /\ i \in DOMAIN rows /\ rows[i].listed
        BY <1>3, <1>5
      <4>2. ~Later(last, i) /\ i # last
        BY <1>6, <2>3, <3>1, <3>3
      <4>3. Later(i, last)
        BY <1>3, <2>5, <4>1, <4>2, LaterOrders
      <4>4. Later(i, last)'
        BY <2>8, <4>3 DEF Later
      <4>5. At(request.cursor)' = last
        BY <1>2, <2>6, <2>7 DEF At, Going
      <4>6. i \in Matching'
        BY <1>2, <4>1, <4>4, <4>5 DEF Matching, Going
      <4>7. rows[i].id # rows[last].id
        BY <1>3, <2>5, <4>1, <4>2 DEF RowsOK
      <4>8. i \in ButBoundary(Matching)'
        BY <1>2, <2>7, <4>6, <4>7 DEF ButBoundary, Going
      <4>9. AheadInHistory(id)'
        BY <1>2, <3>1, <4>8 DEF AheadInHistory, Going
      <4> QED BY <1>2, <2>8, <4>9 DEF Ahead, Going
    <3> QED BY <3>2, <3>3
  <2>11. Covered'
    BY <1>2, <1>9, <2>8, <2>10, CoveredStep DEF ReadIInv, Going
  <2> QED BY <1>2, <1>8, <2>9, <2>11, FrameKept DEF ReadIInv, Going
<1>12. CASE ~(page.rvcontinue /\ page.revisions # {})
  <2>1. phase' = "done" /\ request' = request
    BY <1>1, <1>12, Zenon DEF Stop
  <2>2. \A i \in B : i \in page.revisions \/ rows[i].id \in unsaid'
    <3>1. B \subseteq Matching
      BY DEF ButBoundary
    <3> QED BY <1>1, <1>2, <1>6, <1>12, <3>1 DEF Overlooked
  <2>3. RequestOK'
    BY <1>2, <1>3, <2>1 DEF RequestOK, Going
  <2>4. ASSUME NEW id \in wanted, Ahead(id) PROVE Settled(id)'
    <3>1. PICK i \in B : rows[i].id = id
      BY <1>7, <2>4
    <3> QED BY <1>10, <2>2, <3>1 DEF Settled
  <2>5. Covered'
    BY <1>2, <1>9, <2>1, <2>4, CoveredStep DEF ReadIInv, Going
  <2> QED BY <1>2, <1>8, <2>3, <2>5, FrameKept DEF ReadIInv, Going
<1> QED
  BY <1>11, <1>12

-----------------------------------------------------------------------------
(* Rows that others add.                                                     *)

Shift(k, at) == IF k < at THEN k ELSE k + 1

IsLonger(longer, seq, at, row) ==
    /\ longer \in Seq(Row) /\ Len(longer) = Len(seq) + 1 /\ longer[at] = row
    /\ \A k \in 1 .. Len(seq) : Shift(k, at) \in 1 .. Len(seq) + 1 /\ longer[Shift(k, at)] = seq[k]
    /\ \A p \in 1 .. Len(seq) + 1 : p = at \/ \E k \in 1 .. Len(seq) : p = Shift(k, at)

LEMMA Inserted ==
  ASSUME NEW seq \in Seq(Row), NEW at \in 1 .. Len(seq) + 1, NEW row \in Row,
         NEW longer, longer = InsertAt(seq, at, row)
  PROVE  IsLonger(longer, seq, at, row)
<1> DEFINE front == SubSeq(seq, 1, at - 1)
           back == SubSeq(seq, at, Len(seq))
<1>1. Len(seq) \in Nat /\ at \in Nat /\ 1 <= at /\ at <= Len(seq) + 1
  OBVIOUS
<1>2. longer = front \o <<row>> \o back
  BY DEF InsertAt
<1>3. front \in Seq(Row) /\ Len(front) = at - 1 /\ \A k \in 1 .. at - 1 : front[k] = seq[k]
  BY <1>1
<1>4. back \in Seq(Row) /\ Len(back) = Len(seq) - at + 1 /\ \A k \in 1 .. Len(seq) - at + 1 : back[k] = seq[at - 1 + k]
  <2>1. back \in Seq(Row) /\ Len(back) = Len(seq) - at + 1
    BY <1>1
  <2>2. \A k \in 1 .. Len(seq) - at + 1 : back[k] = seq[at + k - 1] /\ at + k - 1 = at - 1 + k
    BY <1>1
  <2> QED BY <2>1, <2>2
<1> HIDE DEF front, back
<1> DEFINE head == front \o <<row>>
<1>5. head \in Seq(Row) /\ Len(head) = at /\ head[at] = row /\ \A k \in 1 .. at - 1 : head[k] = seq[k]
  <2>1. <<row>> \in Seq(Row) /\ Len(<<row>>) = 1
    OBVIOUS
  <2> QED BY <1>1, <1>3, <2>1
<1> HIDE DEF head
<1>6. longer = head \o back
  BY <1>2 DEF head
<1>7. longer \in Seq(Row) /\ Len(longer) = Len(seq) + 1
  BY <1>1, <1>4, <1>5, <1>6
<1>8. \A k \in 1 .. at : longer[k] = head[k]
  BY <1>1, <1>4, <1>5, <1>6
<1>9. \A k \in 1 .. Len(seq) - at + 1 : longer[at + k] = back[k]
  BY <1>1, <1>4, <1>5, <1>6
<1>10. longer[at] = row
  BY <1>1, <1>5, <1>8
<1>11. ASSUME NEW k \in 1 .. Len(seq) PROVE Shift(k, at) \in 1 .. Len(seq) + 1 /\ longer[Shift(k, at)] = seq[k]
  <2>1. CASE k < at
    <3>1. k \in 1 .. at - 1 /\ k \in 1 .. at /\ Shift(k, at) = k
      BY <1>1, <2>1 DEF Shift
    <3> QED BY <1>1, <1>5, <1>8, <3>1
  <2>2. CASE ~(k < at)
    <3> DEFINE n == k - at + 1
    <3>1. n \in 1 .. Len(seq) - at + 1 /\ Shift(k, at) = at + n /\ at - 1 + n = k /\ Shift(k, at) \in 1 .. Len(seq) + 1
      BY <1>1, <2>2 DEF Shift
    <3> HIDE DEF n
    <3>2. longer[at + n] = back[n] /\ back[n] = seq[at - 1 + n]
      BY <1>4, <1>9, <3>1
    <3> QED BY <3>1, <3>2
  <2> QED BY <2>1, <2>2
<1>12. ASSUME NEW p \in 1 .. Len(seq) + 1 PROVE p = at \/ \E k \in 1 .. Len(seq) : p = Shift(k, at)
  <2>1. CASE p < at
    <3>1. p \in 1 .. Len(seq) /\ Shift(p, at) = p
      BY <1>1, <2>1 DEF Shift
    <3> QED BY <3>1
  <2>2. CASE p > at
    <3>1. p - 1 \in 1 .. Len(seq) /\ Shift(p - 1, at) = p
      BY <1>1, <2>2 DEF Shift
    <3> QED BY <3>1
  <2> QED BY <1>1, <2>1, <2>2
<1> QED
  BY <1>7, <1>10, <1>11, <1>12 DEF IsLonger

LEMMA AlwaysFits ==
  ASSUME NEW id, tool \in {"smw-list-properties", "get-page-history"} \cup CursorTools
  PROVE  Fits(id)
BY DEF Fits, CursorTools, MatchTools

(* Others add a row: what was ahead of a caller stays ahead of him.           *)
LEMMA AddKeeps ==
  ASSUME ReadIInv, Add
  PROVE  ReadIInv'
<1>1. /\ phase = "reading" /\ tool \in OffsetTools \cup CursorTools \cup {"get-page-history"}
      /\ UNCHANGED <<tool, wanted, request, todo, got, beyond, unsaid, phase>>
  BY Zenon DEF Add
<1> DEFINE row(size) == [id |-> FirstAdded + Len(rows), size |-> size, listed |-> TRUE, level |-> 0, via |-> {},
                         number |-> 0]
<1>2. PICK size \in {1, Budget + 1},
           at \in IF tool = "get-page-history" THEN {1} ELSE 1 .. Len(rows) + 1 :
        rows' = InsertAt(rows, at, row(size))
  BY Zenon DEF Add
<1>3. RowsOK /\ RequestOK /\ WantedOK /\ request \in Request /\ rows \in Seq(Row) /\ Len(rows) \in Nat
      /\ DOMAIN rows = 1 .. Len(rows)
  <2>1. RowsOK /\ RequestOK /\ WantedOK /\ request \in Request
    BY Zenon DEF ReadIInv, RequestOK
  <2> QED BY <2>1 DEF RowsOK
<1>4. at \in 1 .. Len(rows) + 1 /\ at \in Nat /\ (tool = "get-page-history" => at = 1)
  BY <1>2, <1>3
<1>5. tool # "get-page" /\ tool # "wikibase-get-entity" /\ tool # "get-pages" /\ tool # "get-file-content"
      /\ tool \notin MatchTools
  BY <1>1 DEF OffsetTools, CursorTools, MatchTools
<1> DEFINE new == row(size)
<1>6. FirstAdded \in Nat /\ FirstAdded > 0
  <2>1. FirstAdded \in Nat \ {0}
    BY ReadingAssumption, Zenon
  <2> QED BY <2>1
<1>7. new \in Row /\ new.id = FirstAdded + Len(rows)
  BY <1>3, <1>6, BoundsAssumption DEF Row
<1>8. rows' = InsertAt(rows, at, new)
  BY <1>2
<1> HIDE DEF new
<1>9. /\ rows' \in Seq(Row) /\ Len(rows') = Len(rows) + 1 /\ rows'[at] = new
      /\ \A k \in 1 .. Len(rows) : Shift(k, at) \in 1 .. Len(rows) + 1 /\ rows'[Shift(k, at)] = rows[k]
      /\ \A p \in 1 .. Len(rows) + 1 : p = at \/ \E k \in 1 .. Len(rows) : p = Shift(k, at)
  <2>1. IsLonger(rows', rows, at, new)
    BY <1>3, <1>4, <1>7, <1>8, Inserted
  <2> QED BY <2>1 DEF IsLonger
<1>10. DOMAIN rows' = 1 .. Len(rows) + 1 /\ at \in DOMAIN rows'
  BY <1>4, <1>9
<1>11. \A k \in DOMAIN rows : Shift(k, at) \in DOMAIN rows' /\ rows'[Shift(k, at)] = rows[k]
  BY <1>3, <1>9, <1>10
<1>12. \A k \in DOMAIN rows : rows[k].id \in Nat /\ rows[k].id > 0 /\ rows[k].id < FirstAdded + Len(rows)
  <2>1. \A k \in DOMAIN rows : rows[k] \in Row /\ rows[k].id > 0 /\ rows[k].id < FirstAdded + Len(rows)
    BY <1>3, <1>5 DEF RowsOK
  <2> QED BY <2>1 DEF Row
<1>13. RowsOK'
  <2>1. \A p \in DOMAIN rows' : p = at \/ \E k \in DOMAIN rows : p = Shift(k, at) /\ rows'[p] = rows[k]
    BY <1>3, <1>9, <1>10
  <2>2. \A p \in DOMAIN rows' : rows'[p].id < FirstAdded + Len(rows') /\ rows'[p].id > 0
    <3>1. rows'[at].id < FirstAdded + Len(rows') /\ rows'[at].id > 0
      BY <1>3, <1>6, <1>7, <1>9
    <3>2. \A k \in DOMAIN rows : rows[k].id < FirstAdded + Len(rows') /\ rows[k].id > 0
      BY <1>3, <1>6, <1>9, <1>12
    <3> QED BY <2>1, <3>1, <3>2
  <2>3. ASSUME NEW p \in DOMAIN rows', NEW q \in DOMAIN rows', rows'[p].id = rows'[q].id PROVE p = q
    <3>1. \A k \in DOMAIN rows : rows[k].id # new.id
      BY <1>3, <1>6, <1>7, <1>12
    <3>2. \A k, l \in DOMAIN rows : rows[k].id = rows[l].id => k = l
      BY <1>3 DEF RowsOK
    <3>3. CASE p = at
      BY <1>9, <2>1, <2>3, <3>1, <3>3
    <3>4. CASE q = at
      BY <1>9, <2>1, <2>3, <3>1, <3>4
    <3>5. CASE p # at /\ q # at
      <4>1. PICK k \in DOMAIN rows : p = Shift(k, at) /\ rows'[p] = rows[k]
        BY <2>1, <3>5
      <4>2. PICK l \in DOMAIN rows : q = Shift(l, at) /\ rows'[q] = rows[l]
        BY <2>1, <3>5
      <4>3. k = l
        BY <2>3, <3>2, <4>1, <4>2
      <4> QED BY <4>1, <4>2, <4>3
    <3> QED BY <3>3, <3>4, <3>5
  <2> QED BY <1>1, <1>5, <1>9, <2>2, <2>3 DEF RowsOK
<1>14. \A k \in DOMAIN rows : \A id : rows[k].id = id => At(id)' = Shift(k, at) /\ At(id) = k
  <2>1. ASSUME NEW k \in DOMAIN rows PROVE (CHOOSE i \in DOMAIN rows' : rows'[i].id = rows[k].id) = Shift(k, at)
    <3>1. Shift(k, at) \in DOMAIN rows' /\ rows'[Shift(k, at)].id = rows[k].id
      BY <1>11
    <3>2. \A i \in DOMAIN rows' : rows'[i].id = rows[k].id => i = Shift(k, at)
      BY <1>13, <3>1 DEF RowsOK
    <3> QED BY <3>1, <3>2
  <2> QED BY <1>3, <2>1, AtOf DEF At
<1>15. Ids(rows) \subseteq Ids(rows)'
  BY <1>11 DEF Ids
<1>16. \A k, l \in DOMAIN rows : Shift(k, at) \in Int /\ (k >= l => Shift(k, at) >= Shift(l, at))
                                 /\ (k > l => Shift(k, at) > Shift(l, at)) /\ Shift(k, at) >= k
  BY <1>3, <1>4 DEF Shift
<1>17. RequestOK'
  <2>1. ASSUME tool \in CursorTools \cup {"get-page-history"}, request.cursor # None
        PROVE  \E i \in DOMAIN rows' : rows'[i].id = request.cursor
    <3>1. PICK i \in DOMAIN rows : rows[i].id = request.cursor
      BY <2>1, CursorNamesARow
    <3> QED BY <1>11, <3>1
  <2>2. /\ request \in Request /\ request.asked \subseteq DOMAIN request.titles
        /\ tool \in OffsetTools => request.cursor >= -1
    BY <1>3 DEF RequestOK
  <2> QED BY <1>1, <1>5, <2>1, <2>2 DEF RequestOK, Request
<1>18. TodoOK' /\ WantedOK'
  BY <1>1, <1>3, <1>5, <1>15 DEF TodoOK, WantedOK
<1>19. ASSUME NEW id \in wanted, Settled(id) PROVE Settled(id)'
  <2>1. CASE id \in got \cup unsaid
    BY <1>1, <2>1 DEF Settled
  <2>2. CASE id \notin got \cup unsaid
    <3>1. id \in beyond /\ ~Fits(id)
      BY <1>19, <2>2 DEF Settled
    <3>2. tool \in {"cargo-query", "bucket-query", "smw-query", "wikibase-query"}
      BY <1>1, <3>1, AlwaysFits DEF OffsetTools
    <3>3. id \in Ids(rows)
      BY <1>3, <3>2 DEF WantedOK, OffsetTools
    <3>4. PICK k \in DOMAIN rows : rows[k].id = id
      BY <3>3 DEF Ids
    <3>5. rows'[At(id)'] = rows[At(id)]
      BY <1>11, <1>14, <3>4
    <3>6. ~(rows[At(id)].size <= Budget)
      BY <3>1, <3>2, FitsIs
    <3>7. ~(rows'[At(id)'].size <= Budget)
      BY <3>5, <3>6
    <3>8. tool' \in {"cargo-query", "bucket-query", "smw-query", "wikibase-query"}
      BY <1>1, <3>2
    <3>9. ~Fits(id)'
      BY <3>7, <3>8 DEF Fits, MatchTools
    <3> QED BY <1>1, <3>1, <3>9 DEF Settled
  <2> QED BY <2>1, <2>2
<1>20. ASSUME NEW id \in wanted, Ahead(id) PROVE Ahead(id)'
  <2>1. CASE tool \in OffsetTools
    <3>1. PICK i \in DOMAIN rows : rows[i].id = id /\ i > request.cursor
      BY <1>20, <2>1 DEF Ahead, AheadOfOffset
    <3>2. request.cursor \in Int
      BY <1>3, LimitOK
    <3>3. Shift(i, at) > request.cursor
      BY <1>3, <1>16, <3>1, <3>2
    <3>4. AheadOfOffset(id)'
      BY <1>1, <1>11, <3>1, <3>3 DEF AheadOfOffset
    <3>5. tool' \notin CursorTools /\ tool' # "get-page-history"
      BY <1>1, <2>1 DEF OffsetTools, CursorTools
    <3> QED BY <1>1, <1>5, <3>4, <3>5 DEF Ahead
  <2>2. CASE tool \in CursorTools
    <3>1. PICK i \in DOMAIN rows : Brings(i, id) /\ (request.cursor # None => i >= At(request.cursor))
      BY <1>20, <2>2 DEF Ahead, AheadOfCursor
    <3>2. Brings(Shift(i, at), id)'
      BY <1>1, <1>11, <3>1 DEF Brings
    <3>3. ASSUME request.cursor # None PROVE Shift(i, at) >= At(request.cursor)'
      <4>1. PICK c \in DOMAIN rows : rows[c].id = request.cursor
        BY <2>2, <3>3, CursorNamesARow
      <4>2. i >= c /\ At(request.cursor)' = Shift(c, at)
        <5>1. At(request.cursor) = c
          BY <1>14, <4>1
        <5>2. At(request.cursor)' = Shift(c, at)
          BY <1>1, <1>14, <4>1 DEF At
        <5> QED BY <3>1, <3>3, <5>1, <5>2
      <4> QED BY <1>16, <4>2
    <3>4. AheadOfCursor(id)'
      BY <1>1, <1>11, <3>2, <3>3 DEF AheadOfCursor
    <3>5. tool' \notin OffsetTools /\ tool' # "get-page-history"
      BY <1>1, <2>2 DEF OffsetTools, CursorTools
    <3> QED BY <1>1, <1>5, <3>4, <3>5 DEF Ahead
  <2>3. CASE tool = "get-page-history"
    <3>1. PICK i \in ButBoundary(Matching) : rows[i].id = id
      BY <1>20, <2>3 DEF Ahead, AheadInHistory
    <3>2. i \in Matching /\ i \in DOMAIN rows /\ rows[i].listed /\ rows[i].id # request.cursor
      BY <3>1 DEF ButBoundary, Matching
    <3>3. ASSUME request.cursor # None PROVE Later(Shift(i, at), At(request.cursor)')
      <4>1. PICK c \in DOMAIN rows : rows[c].id = request.cursor
        BY <2>3, <3>3, CursorNamesARow
      <4>2. Later(i, c) /\ At(request.cursor)' = Shift(c, at)
        <5>1. At(request.cursor) = c
          BY <1>14, <4>1
        <5>2. At(request.cursor)' = Shift(c, at)
          BY <1>1, <1>14, <4>1 DEF At
        <5>3. Later(i, c)
          BY <3>2, <3>3, <5>1 DEF Matching
        <5> QED BY <5>2, <5>3
      <4>3. Later(Shift(i, at), Shift(c, at))
        BY <1>3, <1>16, <3>2, <4>2 DEF Later
      <4> QED BY <4>2, <4>3
    <3>4. ASSUME request.cursor # None
          PROVE  IF request'.newer THEN Shift(i, at) < At(request.cursor)' ELSE Shift(i, at) > At(request.cursor)'
      BY <1>1, <3>3, <3>4 DEF Later
    <3>5. Shift(i, at) \in Matching'
      BY <1>1, <1>11, <3>2, <3>4 DEF Matching, Later
    <3>6. Shift(i, at) \in ButBoundary(Matching)' /\ rows'[Shift(i, at)].id = id
      BY <1>1, <1>11, <3>1, <3>2, <3>5 DEF ButBoundary
    <3>7. AheadInHistory(id)'
      BY <3>6 DEF AheadInHistory
    <3>8. tool' \notin OffsetTools /\ tool' \notin CursorTools
      BY <1>1, <2>3 DEF OffsetTools, CursorTools
    <3> QED BY <1>1, <1>5, <3>7, <3>8 DEF Ahead
  <2> QED BY <1>1, <2>1, <2>2, <2>3
<1>21. Covered'
  <2>1. \A id \in wanted : Settled(id) \/ Ahead(id)
    BY <1>1 DEF ReadIInv, Covered
  <2> QED BY <1>1, <1>19, <1>20, <2>1 DEF Covered
<1>22. (tool \in Tools)'
  BY <1>1 DEF ReadIInv
<1> QED
  BY <1>13, <1>17, <1>18, <1>21, <1>22 DEF ReadIInv

-----------------------------------------------------------------------------
(* The start, and every step.                                                *)

LEMMA FirstRequest ==
  ASSUME tool \in Tools, rows \in ListsOf(tool), NEW first \in Requests
  PROVE  /\ first.limit \in Limits /\ first.narrowed \in BOOLEAN /\ first.newer \in BOOLEAN /\ first.contains \in BOOLEAN
         /\ first.cursor \in Int /\ first.titles \in Titles \cup {<<>>} /\ first.alias \in Aliases \cup {<<>>}
         /\ first.format \in Formats /\ first.file \in Files \cup {[mime |-> "other"]}
         /\ tool \in OffsetTools => first.cursor \in {0, -1}
         /\ tool = "get-page-history" /\ first.cursor # None =>
              \E i \in DOMAIN rows : rows[i].id = first.cursor
         /\ tool \in CursorTools => first.cursor = None
         /\ tool = "get-file-content" => first.file \in Files
<1>1. first.limit \in Limits
  BY TheLimits DEF Requests
<1>2. first.narrowed \in BOOLEAN /\ first.newer \in BOOLEAN /\ first.contains \in BOOLEAN
  BY DEF Requests
<1>3. first.titles \in Titles \cup {<<>>} /\ first.alias \in Aliases \cup {<<>>}
  BY DEF Requests
<1>4. first.format \in Formats
  BY DEF Requests, Formats
<1>5. first.file \in Files \cup {[mime |-> "other"]} /\ (tool = "get-file-content" => first.file \in Files)
  BY DEF Requests, Files
<1>6. first.cursor \in CASE tool \in OffsetTools -> {None, Malformed}
                        [] tool = "get-page-history" -> {None} \cup Ids(rows)
                        [] OTHER -> {None}
  BY DEF Requests
<1>7. tool \in OffsetTools => first.cursor \in {0, -1}
  BY <1>6 DEF None, Malformed, OffsetTools
<1>8. tool = "get-page-history" /\ first.cursor # None =>
        \E i \in DOMAIN rows : rows[i].id = first.cursor
  BY <1>6 DEF OffsetTools, Ids
<1>9. tool \in CursorTools => first.cursor = None
  BY <1>6 DEF OffsetTools, CursorTools
<1>10. \A i \in DOMAIN rows : rows[i].id \in Int
  <2>1. rows \in Seq(Row)
    BY ReadingAssumption, Zenon
  <2>2. \A i \in DOMAIN rows : rows[i] \in Row
    BY <2>1
  <2> QED BY <2>2 DEF Row
<1>11. first.cursor \in Int
  <2>1. CASE tool = "get-page-history"
    BY <1>8, <1>10, <2>1 DEF None
  <2>2. CASE tool \in OffsetTools
    BY <1>7, <2>2
  <2>3. CASE tool # "get-page-history" /\ tool \notin OffsetTools
    BY <1>6, <2>3 DEF None
  <2> QED BY <2>1, <2>2, <2>3
<1> QED
  BY <1>1, <1>2, <1>3, <1>4, <1>5, <1>7, <1>8, <1>9, <1>11

LEMMA ReadInitIInv ==
  ASSUME ReadInit
  PROVE  ReadIInv
<1>1. /\ tool \in Tools /\ rows \in ListsOf(tool)
      /\ wanted = Wanted /\ got = {} /\ beyond = {} /\ unsaid = {} /\ phase = "reading"
      /\ todo \in CASE tool = "get-page" -> {{section} : section \in {-1} \cup OwnIds(rows)}
                    [] tool = "wikibase-get-entity" -> {{0}}
                    [] OTHER -> {{}}
  BY Zenon DEF ReadInit
<1>15. /\ tool = "get-page" => \E section \in {-1} \cup OwnIds(rows) : todo = {section}
       /\ tool = "wikibase-get-entity" => todo = {0}
  BY <1>1
<1>2. PICK first \in Requests : request = Asking(first)
  BY Zenon DEF ReadInit
<1>3. /\ first.limit \in Limits /\ first.narrowed \in BOOLEAN /\ first.newer \in BOOLEAN /\ first.contains \in BOOLEAN
      /\ first.cursor \in Int /\ first.titles \in Titles \cup {<<>>} /\ first.alias \in Aliases \cup {<<>>}
      /\ first.format \in Formats /\ first.file \in Files \cup {[mime |-> "other"]}
      /\ tool \in OffsetTools => first.cursor \in {0, -1}
      /\ tool = "get-page-history" /\ first.cursor # None =>
           \E i \in DOMAIN rows : rows[i].id = first.cursor
      /\ tool \in CursorTools => first.cursor = None
      /\ tool = "get-file-content" => first.file \in Files
  BY <1>1, FirstRequest
<1>4. /\ request.limit = first.limit /\ request.narrowed = first.narrowed /\ request.newer = first.newer
      /\ request.cursor = first.cursor /\ request.titles = first.titles /\ request.asked = DOMAIN first.titles
      /\ request.alias = first.alias /\ request.format = first.format /\ request.file = first.file
      /\ request.contains = first.contains
  BY <1>2 DEF Asking
<1>5. DOMAIN first.titles \subseteq Nat
  <2>1. CASE first.titles = <<>>
    BY <2>1
  <2>2. CASE first.titles \in Titles
    <3>1. first.titles \in Seq(Nat)
      BY <2>2, ReadingAssumption, Zenon
    <3>2. \A i \in DOMAIN first.titles : i \in Nat
      BY <3>1
    <3> QED BY <3>2
  <2> QED BY <1>3, <2>1, <2>2
<1>6. request \in Request
  BY <1>2, <1>3, <1>5 DEF Asking, Request
<1>7. RequestOK
  <2>1. tool \in CursorTools \cup {"get-page-history"} /\ request.cursor # None =>
          \E i \in DOMAIN rows : rows[i].id = request.cursor
    BY <1>3, <1>4 DEF CursorTools
  <2>2. tool \in OffsetTools => request.cursor >= -1
    BY <1>3, <1>4
  <2> QED BY <1>3, <1>4, <1>6, <2>1, <2>2 DEF RequestOK
<1>8. /\ rows \in Seq(Row)
      /\ \A i \in DOMAIN rows :
            /\ rows[i].id < FirstAdded
            /\ \A j \in DOMAIN rows :
                  (rows[i].id = rows[j].id \/ (rows[i].number # 0 /\ rows[i].number = rows[j].number)) => i = j
            /\ tool # "get-page" => rows[i].id > 0
            /\ tool = "wikibase-get-entity" => rows[i].id = i
      /\ tool = "get-page" => rows # <<>> /\ rows[1].id = 0 /\ rows[1].listed
  BY <1>1, ReadingAssumption, Zenon
<1>9. RowsOK
  <2>1. \A i \in DOMAIN rows : rows[i].id < FirstAdded + Len(rows)
    <3>1. \A i \in DOMAIN rows : rows[i] \in Row /\ rows[i].id < FirstAdded
      BY <1>8
    <3>2. FirstAdded \in Nat
      <4>1. FirstAdded \in Nat \ {0}
        BY ReadingAssumption, Zenon
      <4> QED BY <4>1
    <3>3. Len(rows) \in Nat
      BY <1>8
    <3> QED BY <3>1, <3>2, <3>3 DEF Row
  <2> QED BY <1>8, <2>1, Zenon DEF RowsOK
<1>16. OwnIds(rows) \subseteq Ids(rows)
  BY DEF OwnIds, Ids
<1>17. \A id \in Ids(rows) : id # -1
  <2>1. \A i \in DOMAIN rows : rows[i] \in Row
    BY <1>8
  <2> QED BY <2>1 DEF Ids, Row
<1>10. TodoOK
  BY <1>1, <1>15, <1>16, <1>17 DEF TodoOK
<1>18. ASSUME tool = "get-page" PROVE wanted \subseteq OwnIds(rows) /\ \A id \in wanted : AheadInTodo(id)
  <2>1. PICK section \in {-1} \cup OwnIds(rows) : todo = {section}
    BY <1>15, <1>18
  <2>2. wanted = OwnIds(PartsOf(section))
    BY <1>1, <1>18, <2>1 DEF Wanted
  <2>3. section \in Ids(rows) \cup {-1}
    BY <1>16
  <2>4. SectionParts(section, PartsOf(section))
    BY <1>9, <1>18, <2>3, PartsOfSection
  <2>5. OwnIds(PartsOf(section)) \subseteq OwnIds(rows)
    BY <2>4, Zenon DEF SectionParts
  <2>6. CASE section = -1
    BY <2>1, <2>2, <2>5, <2>6 DEF AheadInTodo
  <2>7. CASE section # -1
    BY <1>18, <2>1, <2>2, <2>3, <2>5, <2>7 DEF AheadInTodo
  <2> QED BY <2>6, <2>7
<1>11. WantedOK
  <2>1. tool = "get-file-content" => Wanted = SelectForms(request.format, request.file.mime)
    BY DEF Wanted
  <2>2. tool \in OffsetTools \cup MatchTools \cup {"wikibase-get-entity"} => Wanted = Ids(rows)
    BY DEF Wanted, OffsetTools, MatchTools
  <2> QED BY <1>1, <1>18, <2>1, <2>2 DEF WantedOK
<1>12. DOMAIN rows = 1 .. Len(rows)
  BY <1>8
<1>13. ASSUME NEW id \in wanted PROVE Ahead(id)
  <2>1. CASE tool \in OffsetTools
    <3>1. id \in Ids(rows)
      BY <1>11, <2>1 DEF WantedOK
    <3>2. PICK i \in DOMAIN rows : rows[i].id = id
      BY <3>1 DEF Ids
    <3>3. i > request.cursor
      BY <1>3, <1>4, <1>12, <2>1
    <3> QED BY <2>1, <3>2, <3>3 DEF Ahead, AheadOfOffset, OffsetTools, CursorTools
  <2>2. CASE tool \in CursorTools
    <3>1. request.cursor = None
      BY <1>3, <1>4, <2>2
    <3>2. \E i \in DOMAIN rows : Brings(i, id)
      BY <1>1, <2>2 DEF Wanted, Brings, Ids, CursorTools
    <3> QED BY <2>2, <3>1, <3>2 DEF Ahead, AheadOfCursor, OffsetTools, CursorTools
  <2>3. CASE tool = "get-page-history"
    <3>1. AheadInHistory(id)
      BY <1>1, <2>3 DEF Wanted, AheadInHistory
    <3> QED BY <2>3, <3>1 DEF Ahead, OffsetTools, CursorTools
  <2>4. CASE tool = "get-pages"
    <3>1. id \in Range(request.titles)
      BY <1>1, <2>4 DEF Wanted
    <3>2. \E i \in request.asked : Title(i) = id
      BY <1>4, <3>1 DEF Range, Title
    <3>3. AheadInTitles(id)
      BY <3>2 DEF AheadInTitles
    <3> QED BY <2>4, <3>3 DEF Ahead, OffsetTools, CursorTools
  <2>5. CASE tool \in {"get-page", "wikibase-get-entity"}
    <3>1. AheadInTodo(id)
      BY <1>15, <1>18, <2>5 DEF AheadInTodo
    <3> QED BY <2>5, <3>1 DEF Ahead, OffsetTools, CursorTools
  <2>6. CASE tool \notin OffsetTools \cup CursorTools \cup {"get-page-history", "get-pages", "get-page", "wikibase-get-entity"}
    BY <2>6 DEF Ahead
  <2> QED BY <2>1, <2>2, <2>3, <2>4, <2>5, <2>6
<1>14. Covered
  BY <1>1, <1>13 DEF Covered
<1> QED
  BY <1>1, <1>7, <1>9, <1>10, <1>11, <1>14 DEF ReadIInv

LEMMA ReadNextIInv ==
  ASSUME ReadIInv, [ReadNext]_readVars
  PROVE  ReadIInv'
<1>1. CASE UNCHANGED readVars
  <2>1. UNCHANGED <<tool, rows, wanted, request, todo, got, beyond, unsaid, phase>>
    BY <1>1 DEF readVars
  <2>2. \A id : (Settled(id)' <=> Settled(id)) /\ (Ahead(id)' <=> Ahead(id))
    <3>1. \A id : Settled(id)' <=> Settled(id)
      BY <2>1, FitsKept DEF Settled
    <3>2. \A id : At(id)' = At(id)
      BY <2>1 DEF At
    <3>3. Matching' = Matching
      BY <2>1, <3>2 DEF Matching, Later, At
    <3>4. \A id : Missing(id)' <=> Missing(id)
      BY <2>1 DEF Missing, ResolveChain, Ids
    <3>6. \A id : AheadInTodo(id)' <=> AheadInTodo(id)
      <4>1. \A section : PartsOf(section)' = PartsOf(section)
        BY <2>1 DEF PartsOf, SubtreeOf, At
      <4>2. Ids(rows)' = Ids(rows) /\ \A section : OwnIds(PartsOf(section))' = OwnIds(PartsOf(section))
        BY <2>1, <4>1 DEF Ids, OwnIds
      <4> QED BY <2>1, <4>2 DEF AheadInTodo
    <3>5. \A id : Ahead(id)' <=> Ahead(id)
      BY <2>1, <3>2, <3>3, <3>4, <3>6
         DEF Ahead, AheadOfOffset, AheadOfCursor, Brings, AheadInHistory, ButBoundary, AheadInTitles,
             Title, ResolveChain, At
    <3> QED BY <3>1, <3>5
  <2>3. Covered'
    BY <2>1, <2>2 DEF ReadIInv, Covered
  <2> QED BY <2>1, <2>2, <2>3, FrameKept DEF ReadIInv, RequestOK, TodoOK, WantedOK, Ids, OwnIds
<1>2. CASE Refuse
  BY <1>2, RefuseKeeps
<1>3. CASE CargoQuery \/ BucketQuery \/ SmwQuery
  BY <1>3, ReadRowsKeeps DEF CargoQuery, BucketQuery, SmwQuery
<1>4. CASE ReadProperties \/ ReadSolutions
  BY <1>4, ReadPropertiesKeeps, ReadSolutionsKeeps
<1>5. CASE LinksHere \/ CategoryMembers \/ RecentChanges
  BY <1>5, ReadFromCursorKeeps DEF LinksHere, CategoryMembers, RecentChanges, CursorTools
<1>6. CASE ReadHistory \/ ReadPages \/ ReadSection \/ ReadEntity \/ ReadFile
  BY <1>6, ReadHistoryKeeps, ReadPagesKeeps, ReadSectionKeeps, ReadEntityKeeps, ReadFileKeeps
<1>7. CASE SearchPage \/ SearchByPrefix \/ SearchEntities
  BY <1>7, ReadMatchesKeeps DEF SearchPage, SearchByPrefix, SearchEntities, MatchTools
<1>8. CASE Add
  BY <1>8, AddKeeps
<1> QED
  BY <1>1, <1>2, <1>3, <1>4, <1>5, <1>6, <1>7, <1>8 DEF ReadNext, Read, Done

LEMMA ReadIInvGives ==
  ASSUME ReadIInv
  PROVE  NothingIsLost /\ EveryCapIsNamed
<1>1. NothingIsLost
  BY DEF ReadIInv, Covered, Settled, NothingIsLost
<1>2. ASSUME tool = "wikibase-get-entity", NEW property \in {0} \cup Ids(rows)
      PROVE  EntityAnswer([i \in DOMAIN rows |-> rows[i].size], property).lost
               = EntityAnswer([i \in DOMAIN rows |-> rows[i].size], property).says
  <2> DEFINE claims == [i \in DOMAIN rows |-> rows[i].size]
  <2>1. claims \in Seq(Nat) /\ Ids(rows) = 1 .. Len(claims)
    <3> HIDE DEF claims
    <3>1. claims = [i \in DOMAIN rows |-> rows[i].size]
      BY Zenon DEF claims
    <3> QED BY <1>2, <3>1, EntityClaims DEF ReadIInv
  <2> HIDE DEF claims
  <2>2. property \in 0 .. Len(claims)
    BY <1>2, <2>1
  <2>3. EntityAnswer(claims, property).lost = EntityAnswer(claims, property).says
    BY <2>1, <2>2, CapsNamed
  <2> QED BY <2>3 DEF claims
<1>3. EveryCapIsNamed
  BY <1>2, Zenon DEF EveryCapIsNamed
<1> QED
  BY <1>1, <1>3

(* Whatever is read, with whatever limits, and whatever others add meanwhile, *)
(* nothing falls behind where the caller is sent on to, but what one of the   *)
(* four answers that NothingIsLost excepts passes over without a word.        *)
THEOREM ReadingStaysCovered == ReadSpec => []ReadIInv
<1>1. ReadInit => ReadIInv
  BY ReadInitIInv
<1>2. ReadIInv /\ [ReadNext]_readVars => ReadIInv'
  BY ReadNextIInv
<1> QED
  BY <1>1, <1>2, PTL DEF ReadSpec

(* truncation.ts, rowPageTruncation.ts and the tools that use them: a caller   *)
(* who follows every direction to the end has all that was there from the     *)
(* beginning and fits an answer, and has been told of the rest, but for what  *)
(* the four answers that NothingIsLost names pass over without a word.        *)
THEOREM EverythingIsRead == ReadSpec => []NothingIsLost
<1>1. ReadIInv => NothingIsLost
  BY ReadIInvGives
<1> QED
  BY <1>1, ReadingStaysCovered, PTL

(* The marker of wikibase-get-entity names every cap that took something away, *)
(* for every entity and every bound on bytes, properties and values.         *)
THEOREM CapsAreNamed == ReadSpec => []EveryCapIsNamed
<1>1. ReadIInv => EveryCapIsNamed
  BY ReadIInvGives
<1> QED
  BY <1>1, ReadingStaysCovered, PTL

==============================================================================
