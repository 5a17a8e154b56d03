----------------------------- MODULE ProxyGrants -----------------------------
(***************************************************************************)
(* The life of a grant in the hosted OAuth proxy: the upstream (wiki)      *)
(* token a sign-in stored, the downstream refresh token that rotates over  *)
(* it, the two code paths that refresh it at the wiki (the token endpoint  *)
(* and the proactive refresh of a /mcp request), the encrypted file the    *)
(* store writes through to, and a restart from that file.                  *)
(*                                                                         *)
(* One action is one synchronous run of the Node event loop: the code      *)
(* between two awaits.  The only await that matters is the request to the  *)
(* wiki's token endpoint; the wiki is external and is modelled by how      *)
(* oauthFlow.ts uses it.                                                   *)
(***************************************************************************)
EXTENDS Integers, FiniteSets

CONSTANTS
    Grant,       \* upstream-token ids (randomUUID, never reused)
    TokenReq,    \* slots for concurrent POST /mcp/token refresh requests
    BearerReq,   \* slots for concurrent POST /mcp requests
    Wiki,        \* wikis the proxy may be configured for, one at a time
    NoWiki,      \* a record that names no wiki
    Rotating,    \* the wikis that replace a refresh token when it is used
    FlushFails,  \* may writing the store file fail
    MaxVersion,  \* bound: tokens the wiki issues for one grant
    MaxRid,      \* bound: downstream refresh tokens minted for one grant
    MaxRestarts  \* bound: restarts of the server

ASSUME ConstantsAssumption ==
    /\ Grant # {}
    /\ Wiki # {}
    /\ NoWiki \notin Wiki
    /\ Rotating \subseteq Wiki
    /\ FlushFails \in BOOLEAN
    /\ MaxVersion \in Nat /\ MaxVersion >= 1
    /\ MaxRid \in Nat /\ MaxRid >= 1
    /\ MaxRestarts \in Nat

VARIABLES
    upstream,    \* the in-memory Map of upstream tokens, total over Grant
    refreshing,  \* grants with a rotation claimed
    code,        \* the one-time code of each grant
    disk,        \* the durable snapshot of upstream
    tokenReq,    \* the /mcp/token requests in progress
    bearerReq,   \* the /mcp requests waiting for a proactive refresh
    proactive,   \* inFlightUpstreamRefresh: the coalesced refresh of each grant
    wikiKey,     \* the wiki this server is the proxy of
    home,        \* history: the wiki that issued each grant, and does its record name it
    restarts,
    wiki,        \* external: what the wiki issued and what it still accepts
    clock,       \* external: which access tokens are near expiry, or expired
    held,        \* external: the refresh tokens clients have received
    minted,      \* downstream refresh ids minted so far, per grant
    spent,       \* history: refresh ids that were answered with a new pair
    unread       \* history: grants with a wiki answer the proxy never stored

storeVars == <<upstream, refreshing, code, disk>>
callVars  == <<tokenReq, bearerReq, proactive>>
envVars   == <<wiki, clock, held>>
histVars  == <<minted, spent, unread>>
vars == <<upstream, refreshing, code, disk, tokenReq, bearerReq, proactive,
          wikiKey, home, restarts, wiki, clock, held, minted, spent, unread>>

-----------------------------------------------------------------------------
(* Versions count the tokens the wiki issued for a grant.  Version 0 stands *)
(* for an absent token, refresh id 0 for an absent refreshId.               *)
Version == Nat
Rid     == Nat

UpstreamToken ==
    [present: BOOLEAN, access: Version, refresh: Version, rid: Rid,
     wiki: Wiki \cup {NoWiki}]

Absent(rec) == [rec EXCEPT !.present = FALSE, !.access = 0, !.refresh = 0, !.rid = 0]

(* A request to the wiki's token endpoint: not sent, on the wire, or        *)
(* settled as post() settles it.                                            *)
CallState == {"none", "sent", "ok", "rejected", "failed"}
Call == [state: CallState, sent: Version, access: Version, refresh: Version]
NoCall == [state |-> "none", sent |-> 0, access |-> 0, refresh |-> 0]
NewCall(v) == [NoCall EXCEPT !.state = "sent", !.sent = v]

Settled(c)  == c.state \in {"ok", "rejected", "failed"}
InFlight(c) == c.state # "none"

(* A /mcp request: not here, waiting for the refresh, served with the       *)
(* access token in its access field, or refused with 503 or 401.            *)
Answer == {"none", "waiting", "served", "unavailable", "unauthenticated"}
Waiting(b) == bearerReq[b].answer = "waiting"

AnyGrant == CHOOSE g \in Grant : TRUE
NoBearer == [grant |-> AnyGrant, answer |-> "none", access |-> 0]
FreeRequest == [grant |-> AnyGrant, rid |-> 0, call |-> NoCall]

TypeOK ==
    /\ upstream \in [Grant -> UpstreamToken]
    /\ disk \in [Grant -> UpstreamToken]
    /\ refreshing \subseteq Grant
    /\ code \in [Grant -> {"none", "live", "gone"}]
    /\ tokenReq \in [TokenReq -> [grant: Grant, rid: Rid, call: Call]]
    /\ bearerReq \in [BearerReq -> [grant: Grant, answer: Answer, access: Version]]
    /\ proactive \in [Grant -> Call]
    /\ wikiKey \in Wiki
    /\ home \in [Grant -> [wiki: Wiki, named: BOOLEAN]]
    /\ restarts \in Nat
    /\ wiki \in [Grant -> [access: Version, refresh: Version]]
    /\ clock \in [Grant -> [skewed: Version, expired: Version]]
    /\ held \subseteq (Grant \X Rid)
    /\ minted \in [Grant -> Rid]
    /\ spent \subseteq (Grant \X Rid)
    /\ unread \subseteq Grant

Init ==
    /\ \E w \in Wiki :
         /\ wikiKey = w
         /\ upstream = [g \in Grant |->
              [present |-> FALSE, access |-> 0, refresh |-> 0, rid |-> 0, wiki |-> w]]
         /\ home = [g \in Grant |-> [wiki |-> w, named |-> TRUE]]
    /\ disk = upstream
    /\ refreshing = {}
    /\ code = [g \in Grant |-> "none"]
    /\ tokenReq = [r \in TokenReq |-> FreeRequest]
    /\ bearerReq = [b \in BearerReq |-> NoBearer]
    /\ proactive = [g \in Grant |-> NoCall]
    /\ restarts = 0
    /\ wiki = [g \in Grant |-> [access |-> 0, refresh |-> 0]]
    /\ clock = [g \in Grant |-> [skewed |-> 0, expired |-> 0]]
    /\ held = {}
    /\ minted = [g \in Grant |-> 0]
    /\ spent = {}
    /\ unread = {}

-----------------------------------------------------------------------------
(* flushSync: the whole snapshot is written and renamed over the file, or   *)
(* the write failed, was counted, and the file is as it was.                *)
Flush(snapshot) ==
    \/ disk' = snapshot
    \/ FlushFails /\ disk' = disk

(* Mutant of Updated: the wiki's new refresh token is dropped.              *)
UpdatedUnrotated(g, c, kept) ==
    IF upstream[g].present
    THEN [upstream EXCEPT ![g] = [@ EXCEPT !.access = c.access, !.refresh = kept]]
    ELSE upstream

(* updateUpstreamToken: merges into a present record, never resurrects one. *)
Updated(g, c, kept) ==
    IF upstream[g].present
    THEN [upstream EXCEPT ![g] =
            [@ EXCEPT !.access = c.access,
                      !.refresh = IF c.refresh # 0 THEN c.refresh ELSE kept]]
    ELSE upstream

(* setRefreshId: a no-op on a record that is gone. *)
WithRid(store, g, rid) ==
    IF store[g].present THEN [store EXCEPT ![g].rid = rid] ELSE store

(* issuedFor: the record may be used for the wiki this server now serves,   *)
(* and one that an earlier release wrote, without a wiki, for any.          *)
IssuedFor(g) == upstream[g].wiki \in {NoWiki, wikiKey}

(* The proxy mints a refresh JWT for g; it reaches the client, or the       *)
(* response is lost on the way.                                             *)
MintPair(g, rid) ==
    /\ minted' = [minted EXCEPT ![g] = rid]
    /\ \/ held' = held \cup {<<g, rid>>}
       \/ held' = held

-----------------------------------------------------------------------------
(* handleCallback after its exchange: the upstream token is stored (written *)
(* through) and a one-time code for it handed to the client.  The wiki may  *)
(* have granted no refresh token.                                           *)
StoreGrant(g, recorded) ==
    /\ code[g] = "none"
    /\ \E granted \in {0, 1} :
         /\ wiki' = [wiki EXCEPT ![g] = [access |-> 1, refresh |-> granted]]
         /\ upstream' = [upstream EXCEPT ![g] =
              [present |-> TRUE, access |-> 1, refresh |-> granted, rid |-> 0,
               wiki |-> recorded]]
    /\ Flush(upstream')
    /\ code' = [code EXCEPT ![g] = "live"]
    /\ home' = [home EXCEPT ![g] = [wiki |-> wikiKey, named |-> recorded # NoWiki]]
    /\ UNCHANGED <<refreshing, callVars, wikiKey, restarts, clock, held, histVars>>

SignIn(g) == StoreGrant(g, wikiKey)

(* The release before the wikiKey field, which a restart replaces: its       *)
(* records are replayed as they are.                                         *)
SignInEarlier(g) == restarts = 0 /\ StoreGrant(g, NoWiki)

(* The authorization_code grant: the code is consumed whatever follows.  A  *)
(* wrong verifier, client or redirect burns it; otherwise the first refresh *)
(* id is recorded and the pair minted.                                      *)
RedeemCode(g) ==
    /\ code[g] = "live"
    /\ code' = [code EXCEPT ![g] = "gone"]
    /\ \/ UNCHANGED <<upstream, disk, held, minted>>
       \/ /\ minted[g] < MaxRid
          /\ upstream' = WithRid(upstream, g, minted[g] + 1)
          /\ Flush(upstream')
          /\ MintPair(g, minted[g] + 1)
    /\ UNCHANGED <<refreshing, callVars, wikiKey, home, restarts, wiki, clock, spent, unread>>

(* The code's five minutes are over: consumeCode will answer undefined. *)
CodeExpires(g) ==
    /\ code[g] = "live"
    /\ code' = [code EXCEPT ![g] = "gone"]
    /\ UNCHANGED <<upstream, refreshing, disk, callVars, wikiKey, home, restarts, envVars, histVars>>

-----------------------------------------------------------------------------
(* Mutant of Refusable: the wiki of the record is not looked at. *)
RefusableAnyWiki(g, sameClient) ==
    \/ ~upstream[g].present
    \/ upstream[g].refresh = 0
    \/ ~sameClient

(* The refresh_token grant up to its await.  sameClient is FALSE when the   *)
(* request names a client other than the one the grant was issued to.       *)
Refusable(g, sameClient) ==
    \/ ~upstream[g].present
    \/ upstream[g].refresh = 0
    \/ ~sameClient
    \/ ~IssuedFor(g)

(* Mutant of Claimable: a rotation that runs is not looked at. *)
ClaimableTwice(g, rid) ==
    /\ upstream[g].present
    /\ upstream[g].rid = rid

(* beginRefreshRotation: the presented id is current and no rotation runs. *)
Claimable(g, rid) ==
    /\ upstream[g].present
    /\ upstream[g].rid = rid
    /\ g \notin refreshing

(* Mutant of RefuseRefresh: the client is checked after the claim. *)
RefuseAfterClaim(r, g, rid, sameClient) ==
    /\ Refusable(g, sameClient)
    /\ refreshing' = IF sameClient \/ ~Claimable(g, rid) THEN refreshing
                     ELSE refreshing \cup {g}
    /\ UNCHANGED <<upstream, code, disk, callVars, wikiKey, home, restarts, envVars, histVars>>

(* 400 before the claim: nothing is changed. *)
RefuseRefresh(r, g, rid, sameClient) ==
    /\ Refusable(g, sameClient)
    /\ UNCHANGED vars

(* A superseded or concurrently presented token: the family is revoked. *)
RevokeFamily(r, g, rid, sameClient) ==
    /\ ~Refusable(g, sameClient)
    /\ ~Claimable(g, rid)
    /\ upstream' = [upstream EXCEPT ![g] = Absent(@)]
    /\ refreshing' = refreshing \ {g}
    /\ Flush(upstream')
    /\ UNCHANGED <<code, callVars, wikiKey, home, restarts, envVars, histVars>>

(* The claim is taken and the request to the wiki goes out with the refresh *)
(* token read before the await.                                             *)
ClaimRotation(r, g, rid, sameClient) ==
    /\ ~Refusable(g, sameClient)
    /\ Claimable(g, rid)
    /\ minted[g] < MaxRid
    /\ refreshing' = refreshing \cup {g}
    /\ tokenReq' = [tokenReq EXCEPT ![r] =
         [grant |-> g, rid |-> rid, call |-> NewCall(upstream[g].refresh)]]
    /\ UNCHANGED <<upstream, code, disk, bearerReq, proactive, wikiKey, home, restarts,
                   envVars, histVars>>

PresentRefreshToken(r) ==
    /\ ~InFlight(tokenReq[r].call)
    /\ \E pair \in held, sameClient \in BOOLEAN :
         \/ RefuseRefresh(r, pair[1], pair[2], sameClient)
         \/ RevokeFamily(r, pair[1], pair[2], sameClient)
         \/ ClaimRotation(r, pair[1], pair[2], sameClient)

Release(r) == tokenReq' = [tokenReq EXCEPT ![r] = FreeRequest]

(* The wiki answered: store its tokens, commit the rotation, mint the pair. *)
(* The two write-throughs are two flushes of one event-loop turn.           *)
CommitRotation(r) ==
    LET g    == tokenReq[r].grant
        c    == tokenReq[r].call
        new  == Updated(g, c, c.sent)
        done == WithRid(new, g, minted[g] + 1)
    IN  /\ c.state = "ok"
        /\ upstream' = done
        /\ \/ Flush(done)
           \/ FlushFails /\ disk' = new
        /\ refreshing' = refreshing \ {g}
        /\ MintPair(g, minted[g] + 1)
        /\ spent' = spent \cup {<<g, tokenReq[r].rid>>}
        /\ unread' = IF upstream[g].present THEN unread ELSE unread \cup {g}
        /\ Release(r)
        /\ UNCHANGED <<code, bearerReq, proactive, wikiKey, home, restarts, wiki, clock>>

(* Mutant of AbandonRotation: the claim is not released. *)
AbandonStranding(r) ==
    /\ tokenReq[r].call.state \in {"rejected", "failed"}
    /\ Release(r)
    /\ UNCHANGED <<upstream, refreshing, code, disk, bearerReq, proactive, wikiKey,
                   home, restarts, envVars, histVars>>

(* The wiki failed or rejected: 503 or 400, and the claim is abandoned. *)
AbandonRotation(r) ==
    /\ tokenReq[r].call.state \in {"rejected", "failed"}
    /\ refreshing' = refreshing \ {tokenReq[r].grant}
    /\ Release(r)
    /\ UNCHANGED <<upstream, code, disk, bearerReq, proactive, wikiKey, home, restarts,
                   envVars, histVars>>

-----------------------------------------------------------------------------
(* resolveUpstreamBearer: a /mcp request is served the stored access token,  *)
(* unless that is near its expiry and can be refreshed.  Without a refresh   *)
(* token nobody looks at the expiry.  A 401 changes nothing.                 *)
Usable(b, g) ==
    /\ bearerReq[b].answer = "none"
    /\ minted[g] > 0
    /\ upstream[g].present
    /\ IssuedFor(g)

NeedsRefresh(g) ==
    /\ upstream[g].refresh # 0
    /\ upstream[g].access <= clock[g].skewed

ServeStored(b, g) ==
    /\ Usable(b, g)
    /\ ~NeedsRefresh(g)
    /\ bearerReq' = [bearerReq EXCEPT ![b] =
         [grant |-> g, answer |-> "served", access |-> upstream[g].access]]
    /\ UNCHANGED <<storeVars, tokenReq, proactive, wikiKey, home, restarts, envVars, histVars>>

(* The request joins the refresh of its grant, or starts it. *)
JoinRefresh(b, g) ==
    /\ Usable(b, g)
    /\ NeedsRefresh(g)
    /\ proactive' = IF InFlight(proactive[g]) THEN proactive
                    ELSE [proactive EXCEPT ![g] = NewCall(upstream[g].refresh)]
    /\ bearerReq' = [bearerReq EXCEPT ![b] =
         [grant |-> g, answer |-> "waiting", access |-> upstream[g].access]]
    /\ UNCHANGED <<storeVars, tokenReq, wikiKey, home, restarts, envVars, histVars>>

ResolveBearer(b, g) == ServeStored(b, g) \/ JoinRefresh(b, g)

(* Mutant of Answered: the stored token is a fallback even when expired. *)
AnsweredStale(req, c) ==
    IF c.state = "ok" THEN [req EXCEPT !.answer = "served", !.access = c.access]
    ELSE [req EXCEPT !.answer = "served"]

(* What a waiter is answered when the coalesced refresh settles as c: the   *)
(* fresh token; else the one it read, while that lives; else 503 or 401.    *)
Answered(req, c) ==
    IF c.state = "ok" THEN [req EXCEPT !.answer = "served", !.access = c.access]
    ELSE IF req.access > clock[req.grant].expired THEN [req EXCEPT !.answer = "served"]
    ELSE [req EXCEPT !.access = 0,
                     !.answer = IF c.state = "failed" THEN "unavailable"
                                ELSE "unauthenticated"]

(* performUpstreamRefresh settles, for every waiter of the coalesced call. *)
SettleProactive(g) ==
    LET c == proactive[g]
    IN  /\ Settled(c)
        /\ IF c.state = "ok"
           THEN /\ upstream' = Updated(g, c, c.sent)
                /\ Flush(upstream')
                /\ unread' = IF upstream[g].present THEN unread ELSE unread \cup {g}
           ELSE UNCHANGED <<upstream, disk, unread>>
        /\ proactive' = [proactive EXCEPT ![g] = NoCall]
        /\ bearerReq' = [b \in BearerReq |->
             IF Waiting(b) /\ bearerReq[b].grant = g
             THEN Answered(bearerReq[b], c) ELSE bearerReq[b]]
        /\ UNCHANGED <<refreshing, code, tokenReq, wikiKey, home, restarts, envVars,
                       minted, spent>>

(* The client of an answered /mcp request goes away. *)
Depart(b) ==
    /\ bearerReq[b].answer \notin {"none", "waiting"}
    /\ bearerReq' = [bearerReq EXCEPT ![b] = NoBearer]
    /\ UNCHANGED <<storeVars, tokenReq, proactive, wikiKey, home, restarts, envVars, histVars>>

-----------------------------------------------------------------------------
(* A client registration's deferred flush rewrites the whole snapshot, and  *)
(* with it what an earlier flush failed to write.                           *)
DeferredFlush ==
    /\ Flush(upstream)
    /\ UNCHANGED <<upstream, refreshing, code, callVars, wikiKey, home, restarts, envVars, histVars>>

(* The process ends and starts again, possibly as the proxy of another      *)
(* wiki.  onDisk is the file it hydrates from; everything else in memory is *)
(* lost, and with it the answers to requests that were on the wire.         *)
RestartFrom(onDisk) ==
    /\ restarts < MaxRestarts
    /\ restarts' = restarts + 1
    /\ upstream' = onDisk
    /\ disk' = onDisk
    /\ refreshing' = {}
    /\ code' = [g \in Grant |-> IF code[g] = "live" THEN "gone" ELSE code[g]]
    /\ tokenReq' = [r \in TokenReq |-> FreeRequest]
    /\ bearerReq' = [b \in BearerReq |-> NoBearer]
    /\ proactive' = [g \in Grant |-> NoCall]
    /\ wikiKey' \in Wiki
    /\ unread' = unread
         \cup {g \in Grant : proactive[g].state = "ok"}
         \cup {tokenReq[r].grant : r \in {q \in TokenReq : tokenReq[q].call.state = "ok"}}
    /\ UNCHANGED <<home, envVars, minted, spent>>

Restart == RestartFrom(disk)

(* Killed inside CommitRotation, after the first write-through. *)
RestartMidCommit(r) ==
    LET c == tokenReq[r].call
    IN  /\ c.state = "ok"
        /\ RestartFrom(Updated(tokenReq[r].grant, c, c.sent))

-----------------------------------------------------------------------------
(* The wiki's token endpoint, and the clock. *)

(* What the wiki makes of a refresh token: the one it accepts earns a new   *)
(* access token and, if it rotates, a new refresh token; any other, another *)
(* wiki's too, is an invalid_grant.                                         *)
Accepts(g, c) == home[g].wiki = wikiKey /\ c.sent = wiki[g].refresh
Rotates(g) == home[g].wiki \in Rotating
Granted(g) ==
    LET v == wiki[g].access + 1
    IN  [access |-> v, refresh |-> IF Rotates(g) THEN v ELSE wiki[g].refresh]
Reply(g, c) ==
    IF Accepts(g, c)
    THEN [c EXCEPT !.state = "ok", !.access = Granted(g).access,
                   !.refresh = IF Rotates(g) THEN Granted(g).refresh ELSE 0]
    ELSE [c EXCEPT !.state = "rejected"]

WikiServes(g, c) ==
    /\ c.state = "sent"
    /\ Accepts(g, c) => wiki[g].access < MaxVersion
    /\ wiki' = IF Accepts(g, c) THEN [wiki EXCEPT ![g] = Granted(g)] ELSE wiki
    /\ UNCHANGED <<storeVars, bearerReq, wikiKey, home, restarts, clock, held, histVars>>

WikiServesToken(r) ==
    LET g == tokenReq[r].grant  c == tokenReq[r].call
    IN  /\ WikiServes(g, c)
        /\ tokenReq' = [tokenReq EXCEPT ![r].call = Reply(g, c)]
        /\ UNCHANGED proactive

WikiServesProactive(g) ==
    /\ WikiServes(g, proactive[g])
    /\ proactive' = [proactive EXCEPT ![g] = Reply(g, @)]
    /\ UNCHANGED tokenReq

(* post() gives up: refused connection, 5xx, garbled body, or its timeout,  *)
(* before or after the wiki acted on the request.                           *)
Failing(g, c) ==
    /\ c.state \in {"sent", "ok"}
    /\ unread' = IF c.state = "ok" THEN unread \cup {g} ELSE unread
    /\ UNCHANGED <<storeVars, bearerReq, wikiKey, home, restarts, envVars, minted, spent>>

TokenCallFails(r) ==
    /\ Failing(tokenReq[r].grant, tokenReq[r].call)
    /\ tokenReq' = [tokenReq EXCEPT ![r].call.state = "failed"]
    /\ UNCHANGED proactive

ProactiveCallFails(g) ==
    /\ Failing(g, proactive[g])
    /\ proactive' = [proactive EXCEPT ![g].state = "failed"]
    /\ UNCHANGED tokenReq

(* Time: the oldest unexpired access token of g comes near its expiry, or   *)
(* expires.  The seconds a token answer takes never outlast a new token.    *)
OnTheWire(g, v) ==
    \/ proactive[g].state = "ok" /\ proactive[g].access = v
    \/ \E r \in TokenReq : /\ tokenReq[r].grant = g
                           /\ tokenReq[r].call.state = "ok"
                           /\ tokenReq[r].call.access = v

Tick(g) ==
    /\ \/ /\ clock[g].skewed < wiki[g].access
          /\ ~OnTheWire(g, clock[g].skewed + 1)
          /\ clock' = [clock EXCEPT ![g].skewed = @ + 1]
       \/ /\ clock[g].expired < clock[g].skewed
          /\ clock' = [clock EXCEPT ![g].expired = @ + 1]
    /\ UNCHANGED <<storeVars, callVars, wikiKey, home, restarts, wiki, held, histVars>>

-----------------------------------------------------------------------------
TokenEndpoint(r) ==
    \/ PresentRefreshToken(r)
    \/ CommitRotation(r)
    \/ AbandonRotation(r)

Next ==
    \/ \E g \in Grant :
         SignIn(g) \/ SignInEarlier(g) \/ RedeemCode(g) \/ CodeExpires(g) \/ SettleProactive(g)
    \/ \E r \in TokenReq : TokenEndpoint(r)
    \/ \E b \in BearerReq : Depart(b) \/ \E g \in Grant : ResolveBearer(b, g)
    \/ DeferredFlush
    \/ Restart
    \/ \E r \in TokenReq : RestartMidCommit(r)
    \/ \E r \in TokenReq : WikiServesToken(r) \/ TokenCallFails(r)
    \/ \E g \in Grant : WikiServesProactive(g) \/ ProactiveCallFails(g) \/ Tick(g)

Spec == Init /\ [][Next]_vars

(* post() aborts after TIMEOUT_MS, so every call settles, and a settled     *)
(* promise runs its continuation.                                           *)
Fairness ==
    /\ \A r \in TokenReq :
         /\ WF_vars(TokenCallFails(r))
         /\ WF_vars(CommitRotation(r) \/ AbandonRotation(r))
    /\ \A g \in Grant :
         /\ WF_vars(ProactiveCallFails(g))
         /\ WF_vars(SettleProactive(g))

FairSpec == Spec /\ Fairness

-----------------------------------------------------------------------------
(* At most one /mcp/token request has a grant's rotation in progress, and   *)
(* a claim never outlives its request: a claim stranded in `refreshing`     *)
(* would make the next honest refresh read as a replay and revoke the       *)
(* family (token.ts, the placement of the client check before the claim).   *)
OneOwnerPerClaim ==
    /\ \A q, r \in TokenReq :
         InFlight(tokenReq[q].call) /\ InFlight(tokenReq[r].call) /\ q # r
           => tokenReq[q].grant # tokenReq[r].grant
    /\ \A g \in refreshing :
         \E r \in TokenReq : InFlight(tokenReq[r].call) /\ tokenReq[r].grant = g

(* OAuth 2.1 rotation: a refresh id answered with a new pair is never the   *)
(* current one again, nor carried by a request still to be answered -- not  *)
(* after concurrent presentations, and not after a restart, as long as the  *)
(* store file can be written.                                               *)
SpentOnce ==
    ~FlushFails =>
      /\ \A g \in Grant : upstream[g].present => <<g, upstream[g].rid>> \notin spent
      /\ \A r \in TokenReq : InFlight(tokenReq[r].call) =>
           <<tokenReq[r].grant, tokenReq[r].rid>> \notin spent

(* The record of a grant that still stands names the refresh token minted   *)
(* last, so the client holding that one is not signed out by a restart, an  *)
(* abandoned refresh or a request that lost a race.                         *)
LatestRidCurrent ==
    ~FlushFails => \A g \in Grant : upstream[g].present => upstream[g].rid = minted[g]

(* A grant's tokens go only to the wiki that issued them, whichever wiki a  *)
(* restart made this server the proxy of, and by whichever of the two paths *)
(* they are refreshed or used (issuedFor).  Excepted are the records an     *)
(* earlier release wrote, which name no wiki: those go anywhere.            *)
AtHome(g) == home[g].named => home[g].wiki = wikiKey
SentToItsWiki ==
    /\ \A r \in TokenReq : InFlight(tokenReq[r].call) => AtHome(tokenReq[r].grant)
    /\ \A g \in Grant : InFlight(proactive[g]) => AtHome(g)
    /\ \A b \in BearerReq :
         bearerReq[b].answer \in {"waiting", "served"} => AtHome(bearerReq[b].grant)

(* As long as no answer of the wiki went unread and none is on its way, the *)
(* stored refresh token is the one the wiki accepts: the two refresh paths, *)
(* which share no lock, never leave a superseded token in the store.        *)
StoredTokenAccepted ==
    ~FlushFails =>
      \A g \in Grant :
        /\ upstream[g].present /\ g \notin unread
        /\ proactive[g].state # "ok"
        /\ \A r \in TokenReq : ~(tokenReq[r].grant = g /\ tokenReq[r].call.state = "ok")
        => upstream[g].refresh = wiki[g].refresh

(* A revoked family stays revoked: a late answer does not resurrect it, and *)
(* neither does a restart, as long as the store file can be written.        *)
RevokedForGood ==
    [][ \A g \in Grant :
          ~FlushFails /\ code[g] # "none" /\ ~upstream[g].present => ~upstream'[g].present ]_vars

(* A /mcp request is served with an access token that has expired only if   *)
(* the wiki granted no refresh token to replace it with: resolveUpstream-   *)
(* Bearer then hands on the stored one, whatever its age.  However long a   *)
(* request waited for a refresh, and however that ended, it gets no other.  *)
ServesLiveToken ==
    [][ \A b \in BearerReq :
          LET g == bearerReq'[b].grant
          IN  bearerReq'[b].answer = "served" /\ bearerReq[b].answer # "served"
                => \/ bearerReq'[b].access > clock[g].expired
                   \/ upstream[g].present /\ upstream[g].refresh = 0 ]_vars

(* A client that presents only its latest refresh token, one request at a    *)
(* time, is never signed out: a family is revoked only while another refresh *)
(* of it is in flight, or when some client holds a superseded token of it to *)
(* replay.                                                                   *)
RevocationIsReplay ==
    [][ \A g \in Grant :
          ~FlushFails /\ upstream[g].present /\ ~upstream'[g].present
            => \/ \E r \in TokenReq : InFlight(tokenReq[r].call) /\ tokenReq[r].grant = g
               \/ \E pair \in held : pair[1] = g /\ pair[2] < minted[g] ]_vars

(* What the store promises of a family, whatever the interleaving: the       *)
(* abstract specification GrantFamily, with a family live from the sign-in   *)
(* until its record is dropped.  Two presentations of one refresh token that *)
(* both rotated would redeem an id that is no longer current.                *)
Redeemed(g) == {pair[2] : pair \in {p \in spent : p[1] = g}}

FamilyOf(g) ==
    [ status   |-> IF upstream[g].present THEN "live"
                   ELSE IF code[g] = "none" THEN "none" ELSE "revoked",
      current  |-> upstream[g].rid,
      redeemed |-> IF upstream[g].present THEN Redeemed(g) ELSE {} ]

Family == INSTANCE GrantFamily WITH family <- [g \in Grant |-> FamilyOf(g)]
ImplementsFamily == Family!Spec

(* Every claim is released and every waiting /mcp request answered. *)
ClaimsReleased == \A g \in Grant : g \in refreshing ~> g \notin refreshing
WaitersAnswered == \A b \in BearerReq : Waiting(b) ~> ~Waiting(b)

(* A wiki that does not answer leaves nobody hanging: each of the two       *)
(* refresh paths ends, and lets go of whoever waits for it.                 *)
RequestsSettle == ClaimsReleased /\ WaitersAnswered
=============================================================================
