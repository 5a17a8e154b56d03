-------------------------- MODULE ProxyGrants_proofs --------------------------
(***************************************************************************)
(* Theorems about ProxyGrants, for every set of grants, requests and wikis *)
(* and every bound.                                                        *)
(***************************************************************************)
EXTENDS ProxyGrants, TLAPS

(* Who has a grant in hand.  A record, in memory or in the file, only exists *)
(* for a grant whose sign-in handed out a code; a request is in flight only  *)
(* for a redeemed one; and a claim and its request come and go together,     *)
(* unless the family was revoked under it.                                   *)
Begun ==
    \A g \in Grant :
      /\ upstream[g].present \/ disk[g].present => code[g] # "none"
      /\ InFlight(proactive[g]) => code[g] # "none"

Claimed ==
    \A r \in TokenReq : InFlight(tokenReq[r].call) =>
      /\ tokenReq[r].grant \in refreshing \/ ~upstream[tokenReq[r].grant].present
      /\ code[tokenReq[r].grant] # "none"

(* A claim has exactly one request, and a request its claim or a revoked     *)
(* family.                                                                   *)
Ownership == Claimed /\ OneOwnerPerClaim

(* Where the newest refresh id of a grant is: in the record that stands, and *)
(* in the request that may rotate it; what clients hold is never newer, what *)
(* was spent is always older, and the file mirrors the memory.               *)
Mirrored == disk = upstream

Dropped ==
    \A g \in Grant : ~upstream[g].present => upstream[g].rid = 0

Unredeemed ==
    \A g \in Grant : code[g] # "gone" => minted[g] = 0

Newest ==
    /\ \A pair \in held : pair[2] >= 1 /\ pair[2] <= minted[pair[1]]
    /\ \A pair \in spent : pair[2] < minted[pair[1]]
    /\ \A r \in TokenReq : InFlight(tokenReq[r].call) =>
         tokenReq[r].rid >= 1 /\ tokenReq[r].rid = minted[tokenReq[r].grant]

RotationInv == Mirrored /\ Dropped /\ Unredeemed /\ LatestRidCurrent /\ Newest

(* The inductive invariant: the last conjunct needs a file that can be       *)
(* written.                                                                  *)
IInv == TypeOK /\ Begun /\ Ownership /\ (~FlushFails => RotationInv)

-----------------------------------------------------------------------------
(* What the helpers of the store return, for any record and any answer. *)
LEMMA UpdatedType ==
    ASSUME TypeOK, NEW g \in Grant, NEW c \in Call, NEW kept \in Version
    PROVE  Updated(g, c, kept) \in [Grant -> UpstreamToken]
<1> DEFINE rec == [upstream[g] EXCEPT
                    !.access = c.access,
                    !.refresh = IF c.refresh # 0 THEN c.refresh ELSE kept]
<1>1. upstream[g] \in UpstreamToken
  BY DEF TypeOK
<1>2. c.access \in Version /\ (IF c.refresh # 0 THEN c.refresh ELSE kept) \in Version
  BY DEF Call
<1>3. rec \in UpstreamToken
  BY <1>1, <1>2 DEF UpstreamToken
<1>4. Updated(g, c, kept) = IF upstream[g].present THEN [upstream EXCEPT ![g] = rec]
                            ELSE upstream
  BY DEF Updated
<1> QED
  BY <1>3, <1>4 DEF TypeOK

LEMMA WithRidType ==
    ASSUME NEW store \in [Grant -> UpstreamToken], NEW g \in Grant, NEW rid \in Rid
    PROVE  WithRid(store, g, rid) \in [Grant -> UpstreamToken]
BY DEF WithRid, UpstreamToken, Rid

LEMMA AbsentType ==
    ASSUME NEW rec \in UpstreamToken
    PROVE  Absent(rec) \in UpstreamToken
BY DEF Absent, UpstreamToken, Version, Rid

LEMMA CallTypes ==
    /\ NoCall \in Call
    /\ \A v \in Version : NewCall(v) \in Call
    /\ AnyGrant \in Grant
    /\ FreeRequest \in [grant: Grant, rid: Rid, call: Call]
    /\ NoBearer \in [grant: Grant, answer: Answer, access: Version]
<1>1. AnyGrant \in Grant
  BY ConstantsAssumption DEF AnyGrant
<1>2. NoCall \in Call
  BY DEF NoCall, Call, CallState, Version
<1>3. \A v \in Version : NewCall(v) \in Call
  BY DEF NoCall, NewCall, Call, CallState, Version
<1> QED
  BY <1>1, <1>2, <1>3 DEF FreeRequest, NoBearer, Answer, Rid, Version

LEMMA ReplyType ==
    ASSUME TypeOK, NEW g \in Grant, NEW c \in Call
    PROVE  Reply(g, c) \in Call
<1>1. Granted(g) \in [access: Version, refresh: Version]
  BY DEF TypeOK, Granted, Version
<1>2. (IF Rotates(g) THEN Granted(g).refresh ELSE 0) \in Version
  BY <1>1 DEF Version
<1>3. /\ Granted(g).access \in Version
      /\ c.sent \in Version /\ c.access \in Version /\ c.refresh \in Version
  BY <1>1 DEF Call
<1>4. CASE Accepts(g, c)
  BY <1>2, <1>3, <1>4 DEF Reply, Call, CallState
<1>5. CASE ~Accepts(g, c)
  BY <1>3, <1>5 DEF Reply, Call, CallState
<1> QED
  BY <1>4, <1>5

LEMMA FailedType ==
    ASSUME NEW c \in Call
    PROVE  [c EXCEPT !.state = "failed"] \in Call
BY DEF Call, CallState

(* The steps of the specification, one by one. *)
(* Either release signs in by storing a grant.  *)
LEMMA SignsIn ==
    ASSUME TypeOK, NEW g \in Grant, SignIn(g) \/ SignInEarlier(g)
    PROVE  \E recorded \in Wiki \cup {NoWiki} : StoreGrant(g, recorded)
BY DEF TypeOK, SignIn, SignInEarlier

LEMMA InitTypeOK == Init => TypeOK
<1> SUFFICES ASSUME Init PROVE TypeOK
  OBVIOUS
<1>1. upstream \in [Grant -> UpstreamToken]
  BY DEF Init, UpstreamToken, Version, Rid
<1>2. /\ tokenReq \in [TokenReq -> [grant: Grant, rid: Rid, call: Call]]
      /\ bearerReq \in [BearerReq -> [grant: Grant, answer: Answer, access: Version]]
      /\ proactive \in [Grant -> Call]
  BY CallTypes DEF Init
<1>3. wikiKey \in Wiki /\ home \in [Grant -> [wiki: Wiki, named: BOOLEAN]]
  BY DEF Init
<1>4. /\ disk \in [Grant -> UpstreamToken]
      /\ wiki \in [Grant -> [access: Version, refresh: Version]]
      /\ clock \in [Grant -> [skewed: Version, expired: Version]]
      /\ minted \in [Grant -> Rid]
  BY <1>1 DEF Init, Version, Rid
<1> QED
  BY <1>1, <1>2, <1>3, <1>4 DEF Init, TypeOK

LEMMA StepTypeOK == TypeOK /\ [Next]_vars => TypeOK'
<1> SUFFICES ASSUME TypeOK, [Next]_vars PROVE TypeOK'
  OBVIOUS
<1> USE DEF storeVars, callVars, envVars, histVars
<1>1. ASSUME NEW g \in Grant, NEW recorded, recorded \in Wiki \cup {NoWiki},
              StoreGrant(g, recorded) PROVE TypeOK'
  <2>1. upstream' \in [Grant -> UpstreamToken]
    BY <1>1 DEF StoreGrant, TypeOK, UpstreamToken, Version, Rid
  <2>2. disk' \in [Grant -> UpstreamToken]
    BY <1>1, <2>1 DEF StoreGrant, Flush, TypeOK
  <2> QED
    BY <1>1, <2>1, <2>2 DEF StoreGrant, TypeOK, Version
<1>2. ASSUME NEW g \in Grant, RedeemCode(g) PROVE TypeOK'
  <2>0. minted[g] + 1 \in Rid /\ upstream \in [Grant -> UpstreamToken]
    BY DEF TypeOK, Rid
  <2>1. upstream' \in [Grant -> UpstreamToken]
    BY <1>2, <2>0, WithRidType DEF RedeemCode
  <2>2. disk' \in [Grant -> UpstreamToken]
    BY <1>2, <2>1 DEF RedeemCode, Flush, TypeOK
  <2>3. held' \subseteq (Grant \X Rid) /\ minted' \in [Grant -> Rid]
    <3>1. held \subseteq (Grant \X Rid) /\ minted \in [Grant -> Rid]
      BY DEF TypeOK
    <3> QED
      BY <1>2, <2>0, <3>1 DEF RedeemCode, MintPair
  <2> QED
    BY <1>2, <2>1, <2>2, <2>3 DEF RedeemCode, TypeOK
<1>3. ASSUME NEW g \in Grant, CodeExpires(g) PROVE TypeOK'
  BY <1>3 DEF CodeExpires, TypeOK
<1>4. ASSUME NEW g \in Grant, SettleProactive(g) PROVE TypeOK'
  <2>1. proactive[g] \in Call /\ proactive[g].sent \in Version
    BY DEF TypeOK, Call
  <2>2. upstream' \in [Grant -> UpstreamToken]
    BY <1>4, <2>1, UpdatedType DEF SettleProactive, TypeOK
  <2>3. disk' \in [Grant -> UpstreamToken]
    BY <1>4, <2>2 DEF SettleProactive, Flush, TypeOK
  <2>4. proactive' \in [Grant -> Call]
    BY <1>4, CallTypes DEF SettleProactive, TypeOK
  <2>5. bearerReq' \in [BearerReq -> [grant: Grant, answer: Answer, access: Version]]
    <3>1. \A b \in BearerReq : Answered(bearerReq[b], proactive[g])
                                 \in [grant: Grant, answer: Answer, access: Version]
      <4> TAKE b \in BearerReq
      <4>1. bearerReq[b] \in [grant: Grant, answer: Answer, access: Version]
        BY DEF TypeOK
      <4>2. proactive[g].access \in Version
        BY <2>1 DEF Call
      <4> QED
        BY <4>1, <4>2 DEF Answered, Answer, Version
    <3> QED
      BY <1>4, <3>1 DEF SettleProactive, TypeOK
  <2> QED
    BY <1>4, <2>2, <2>3, <2>4, <2>5 DEF SettleProactive, TypeOK
<1>5. ASSUME NEW r \in TokenReq, PresentRefreshToken(r) PROVE TypeOK'
  <2>1. PICK pair \in held, sameClient \in BOOLEAN :
           \/ RefuseRefresh(r, pair[1], pair[2], sameClient)
           \/ RevokeFamily(r, pair[1], pair[2], sameClient)
           \/ ClaimRotation(r, pair[1], pair[2], sameClient)
    BY <1>5 DEF PresentRefreshToken
  <2>2. pair[1] \in Grant /\ pair[2] \in Rid
    BY DEF TypeOK
  <2>3. CASE RefuseRefresh(r, pair[1], pair[2], sameClient)
    BY <2>3 DEF RefuseRefresh, TypeOK, vars
  <2>4. CASE RevokeFamily(r, pair[1], pair[2], sameClient)
    <3>1. upstream' \in [Grant -> UpstreamToken]
      BY <2>2, <2>4, AbsentType DEF RevokeFamily, TypeOK
    <3> QED
      BY <2>4, <3>1 DEF RevokeFamily, Flush, TypeOK
  <2>5. CASE ClaimRotation(r, pair[1], pair[2], sameClient)
    <3>1. NewCall(upstream[pair[1]].refresh) \in Call
      BY <2>2, CallTypes DEF TypeOK, UpstreamToken
    <3> QED
      BY <2>2, <2>5, <3>1 DEF ClaimRotation, TypeOK
  <2> QED
    BY <2>1, <2>3, <2>4, <2>5
<1>6. ASSUME NEW r \in TokenReq, CommitRotation(r) PROVE TypeOK'
  <2> DEFINE g == tokenReq[r].grant
             c == tokenReq[r].call
             new == Updated(g, c, c.sent)
  <2>1. g \in Grant /\ c \in Call /\ c.sent \in Version /\ minted[g] + 1 \in Rid
    BY DEF TypeOK, Call, Rid
  <2>2. new \in [Grant -> UpstreamToken]
    BY <2>1, UpdatedType
  <2>3. WithRid(new, g, minted[g] + 1) \in [Grant -> UpstreamToken]
    BY <2>1, <2>2, WithRidType
  <2>4. upstream' \in [Grant -> UpstreamToken] /\ disk' \in [Grant -> UpstreamToken]
    BY <1>6, <2>2, <2>3 DEF CommitRotation, Flush, TypeOK
  <2>5. held' \subseteq (Grant \X Rid) /\ minted' \in [Grant -> Rid]
    BY <1>6, <2>1 DEF CommitRotation, MintPair, TypeOK
  <2>6. tokenReq' \in [TokenReq -> [grant: Grant, rid: Rid, call: Call]]
    BY <1>6, CallTypes DEF CommitRotation, Release, TypeOK
  <2>7. spent' \subseteq (Grant \X Rid) /\ unread' \subseteq Grant /\ refreshing' \subseteq Grant
    BY <1>6, <2>1 DEF CommitRotation, TypeOK
  <2> QED
    BY <1>6, <2>4, <2>5, <2>6, <2>7 DEF CommitRotation, TypeOK
<1>7. ASSUME NEW r \in TokenReq, AbandonRotation(r) PROVE TypeOK'
  BY <1>7, CallTypes DEF AbandonRotation, Release, TypeOK
<1>8. ASSUME NEW b \in BearerReq, Depart(b) PROVE TypeOK'
  BY <1>8, CallTypes DEF Depart, TypeOK
<1>9. ASSUME NEW b \in BearerReq, NEW g \in Grant, ResolveBearer(b, g) PROVE TypeOK'
  <2>1. NewCall(upstream[g].refresh) \in Call /\ upstream[g].access \in Version
    BY CallTypes DEF TypeOK, UpstreamToken
  <2>2. proactive' \in [Grant -> Call]
    BY <1>9, <2>1 DEF ResolveBearer, ServeStored, JoinRefresh, TypeOK
  <2>3. bearerReq' \in [BearerReq -> [grant: Grant, answer: Answer, access: Version]]
    <3>1. bearerReq \in [BearerReq -> [grant: Grant, answer: Answer, access: Version]]
      BY DEF TypeOK
    <3>2. \A a \in {"waiting", "served"} :
            [grant |-> g, answer |-> a, access |-> upstream[g].access]
              \in [grant: Grant, answer: Answer, access: Version]
      BY <2>1 DEF Answer
    <3> QED
      BY <1>9, <3>1, <3>2 DEF ResolveBearer, ServeStored, JoinRefresh
  <2> QED
    BY <1>9, <2>2, <2>3 DEF ResolveBearer, ServeStored, JoinRefresh, TypeOK
<1>10. ASSUME DeferredFlush PROVE TypeOK'
  BY <1>10 DEF DeferredFlush, Flush, TypeOK
<1>11. ASSUME NEW onDisk \in [Grant -> UpstreamToken], RestartFrom(onDisk) PROVE TypeOK'
  <2>1. /\ tokenReq' \in [TokenReq -> [grant: Grant, rid: Rid, call: Call]]
        /\ bearerReq' \in [BearerReq -> [grant: Grant, answer: Answer, access: Version]]
        /\ proactive' \in [Grant -> Call]
    BY <1>11, CallTypes DEF RestartFrom
  <2>2. unread' \subseteq Grant
    BY <1>11 DEF RestartFrom, TypeOK
  <2>3. code' \in [Grant -> {"none", "live", "gone"}]
    BY <1>11 DEF RestartFrom, TypeOK
  <2> QED
    BY <1>11, <2>1, <2>2, <2>3 DEF RestartFrom, TypeOK
<1>12. ASSUME Restart PROVE TypeOK'
  BY <1>11, <1>12 DEF Restart, TypeOK
<1>13. ASSUME NEW r \in TokenReq, RestartMidCommit(r) PROVE TypeOK'
  <2>1. /\ tokenReq[r].grant \in Grant
        /\ tokenReq[r].call \in Call
        /\ tokenReq[r].call.sent \in Version
    BY DEF TypeOK, Call
  <2> QED
    BY <1>11, <1>13, <2>1, UpdatedType DEF RestartMidCommit
<1>14. ASSUME NEW g \in Grant, NEW c \in Call, WikiServes(g, c)
       PROVE  wiki' \in [Grant -> [access: Version, refresh: Version]]
  BY <1>14 DEF WikiServes, Granted, TypeOK, Version
<1>15. ASSUME NEW r \in TokenReq, WikiServesToken(r) PROVE TypeOK'
  <2>1. tokenReq[r].grant \in Grant /\ tokenReq[r].call \in Call
    BY DEF TypeOK
  <2>2. Reply(tokenReq[r].grant, tokenReq[r].call) \in Call
    BY <2>1, ReplyType
  <2>3. tokenReq' \in [TokenReq -> [grant: Grant, rid: Rid, call: Call]]
    <3>1. tokenReq \in [TokenReq -> [grant: Grant, rid: Rid, call: Call]]
      BY DEF TypeOK
    <3> QED
      BY <1>15, <2>2, <3>1 DEF WikiServesToken
  <2>4. wiki' \in [Grant -> [access: Version, refresh: Version]]
    BY <1>14, <1>15, <2>1 DEF WikiServesToken
  <2> QED
    BY <1>15, <2>3, <2>4 DEF WikiServesToken, WikiServes, TypeOK
<1>16. ASSUME NEW r \in TokenReq, TokenCallFails(r) PROVE TypeOK'
  <2>1. tokenReq[r].call \in Call /\ tokenReq[r].grant \in Grant
    BY DEF TypeOK
  <2>2. [tokenReq[r].call EXCEPT !.state = "failed"] \in Call
    BY <2>1, FailedType
  <2>3. tokenReq' \in [TokenReq -> [grant: Grant, rid: Rid, call: Call]]
    <3>1. tokenReq \in [TokenReq -> [grant: Grant, rid: Rid, call: Call]]
      BY DEF TypeOK
    <3> QED
      BY <1>16, <2>2, <3>1 DEF TokenCallFails
  <2>4. unread' \subseteq Grant
    BY <1>16, <2>1 DEF TokenCallFails, Failing, TypeOK
  <2> QED
    BY <1>16, <2>3, <2>4 DEF TokenCallFails, Failing, TypeOK
<1>17. ASSUME NEW g \in Grant, WikiServesProactive(g) PROVE TypeOK'
  <2>1. proactive[g] \in Call
    BY DEF TypeOK
  <2>2. Reply(g, proactive[g]) \in Call
    BY <2>1, ReplyType
  <2>3. proactive' \in [Grant -> Call]
    BY <1>17, <2>2 DEF WikiServesProactive, TypeOK
  <2>4. wiki' \in [Grant -> [access: Version, refresh: Version]]
    BY <1>14, <1>17, <2>1 DEF WikiServesProactive
  <2> QED
    BY <1>17, <2>3, <2>4 DEF WikiServesProactive, WikiServes, TypeOK
<1>18. ASSUME NEW g \in Grant, ProactiveCallFails(g) PROVE TypeOK'
  <2>1. [proactive[g] EXCEPT !.state = "failed"] \in Call
    BY FailedType DEF TypeOK
  <2>2. proactive' \in [Grant -> Call]
    BY <1>18, <2>1 DEF ProactiveCallFails, TypeOK
  <2>3. unread' \subseteq Grant
    BY <1>18 DEF ProactiveCallFails, Failing, TypeOK
  <2> QED
    BY <1>18, <2>2, <2>3 DEF ProactiveCallFails, Failing, TypeOK
<1>19. ASSUME NEW g \in Grant, Tick(g) PROVE TypeOK'
  <2>1. /\ clock \in [Grant -> [skewed: Version, expired: Version]]
        /\ clock[g].skewed + 1 \in Version
        /\ clock[g].expired + 1 \in Version
    BY DEF TypeOK, Version
  <2>2. clock' \in [Grant -> [skewed: Version, expired: Version]]
    BY <1>19, <2>1 DEF Tick
  <2> QED
    BY <1>19, <2>2 DEF Tick, TypeOK
<1>20. CASE UNCHANGED vars
  BY <1>20 DEF vars, TypeOK
<1> QED
  BY <1>1, <1>2, <1>3, <1>4, <1>5, <1>6, <1>7, <1>8, <1>9, <1>10, <1>12, <1>13,
     <1>15, <1>16, <1>17, <1>18, <1>19, <1>20, SignsIn DEF Next, TokenEndpoint

(* The state always has its declared shape. *)
THEOREM TypeCorrect == Spec => []TypeOK
BY InitTypeOK, StepTypeOK, PTL DEF Spec

-----------------------------------------------------------------------------
(* What the store's merges leave alone. *)
LEMMA UpdatedKeeps ==
    ASSUME TypeOK, NEW g \in Grant, NEW c, NEW kept, NEW h \in Grant
    PROVE  /\ Updated(g, c, kept)[h].present = upstream[h].present
           /\ Updated(g, c, kept)[h].rid = upstream[h].rid
           /\ Updated(g, c, kept)[h].wiki = upstream[h].wiki
BY DEF TypeOK, Updated, UpstreamToken

LEMMA WithRidKeeps ==
    ASSUME NEW store \in [Grant -> UpstreamToken], NEW g \in Grant, NEW rid, NEW h \in Grant
    PROVE  /\ WithRid(store, g, rid)[h].present = store[h].present
           /\ WithRid(store, g, rid)[h].wiki = store[h].wiki
           /\ WithRid(store, g, rid)[h].rid =
                IF h = g /\ store[g].present THEN rid ELSE store[h].rid
BY DEF WithRid, UpstreamToken

LEMMA AbsentKeeps ==
    ASSUME NEW rec \in UpstreamToken
    PROVE  ~Absent(rec).present /\ Absent(rec).rid = 0
BY DEF Absent, UpstreamToken

LEMMA CallPhases ==
    /\ ~InFlight(NoCall)
    /\ \A v : InFlight(NewCall(v))
    /\ ~InFlight(FreeRequest.call)
BY DEF InFlight, NoCall, NewCall, FreeRequest

(* A grant that is in flight is claimed, unless its family is gone. *)
LEMMA StepBegun == TypeOK /\ Begun /\ [Next]_vars => Begun'
<1> SUFFICES ASSUME TypeOK, Begun, [Next]_vars PROVE Begun'
  OBVIOUS
<1> USE DEF storeVars, callVars, envVars, histVars
<1>1. ASSUME NEW g \in Grant, NEW recorded, recorded \in Wiki \cup {NoWiki},
              StoreGrant(g, recorded) PROVE Begun'
  <2>1. \A h \in Grant : h # g => upstream'[h] = upstream[h] /\ code'[h] = code[h]
    BY <1>1 DEF StoreGrant, TypeOK
  <2>2. code'[g] = "live" /\ proactive' = proactive
    BY <1>1 DEF StoreGrant, TypeOK
  <2>3. disk' = upstream' \/ disk' = disk
    BY <1>1 DEF StoreGrant, Flush
  <2> QED
    BY <2>1, <2>2, <2>3 DEF Begun
<1>2. ASSUME NEW g \in Grant, RedeemCode(g) PROVE Begun'
  <2>1. \A h \in Grant : upstream'[h].present = upstream[h].present
    <3>1. upstream \in [Grant -> UpstreamToken]
      BY DEF TypeOK
    <3> QED
      BY <1>2, <3>1, WithRidKeeps DEF RedeemCode
  <2>2. \A h \in Grant : code'[h] = "none" => code[h] = "none"
    BY <1>2 DEF RedeemCode, TypeOK
  <2>3. (disk' = upstream' \/ disk' = disk) /\ proactive' = proactive
    BY <1>2 DEF RedeemCode, Flush
  <2> QED
    BY <2>1, <2>2, <2>3 DEF Begun
<1>3. ASSUME NEW g \in Grant, CodeExpires(g) PROVE Begun'
  BY <1>3 DEF CodeExpires, Begun, TypeOK
<1>4. ASSUME NEW g \in Grant, SettleProactive(g) PROVE Begun'
  <2>1. \A h \in Grant : upstream'[h].present = upstream[h].present
    BY <1>4, UpdatedKeeps DEF SettleProactive
  <2>2. disk' = upstream' \/ disk' = disk
    BY <1>4 DEF SettleProactive, Flush
  <2>3. code' = code /\ \A h \in Grant : InFlight(proactive'[h]) => InFlight(proactive[h])
    BY <1>4, CallPhases DEF SettleProactive, TypeOK
  <2> QED
    BY <2>1, <2>2, <2>3 DEF Begun
<1>5. ASSUME NEW r \in TokenReq, PresentRefreshToken(r) PROVE Begun'
  <2>1. PICK pair \in held, sameClient \in BOOLEAN :
           \/ RefuseRefresh(r, pair[1], pair[2], sameClient)
           \/ RevokeFamily(r, pair[1], pair[2], sameClient)
           \/ ClaimRotation(r, pair[1], pair[2], sameClient)
    BY <1>5 DEF PresentRefreshToken
  <2>2. pair[1] \in Grant
    BY DEF TypeOK
  <2>3. CASE RefuseRefresh(r, pair[1], pair[2], sameClient)
    BY <2>3 DEF RefuseRefresh, Begun, vars
  <2>4. CASE RevokeFamily(r, pair[1], pair[2], sameClient)
    <3>1. \A h \in Grant : upstream'[h].present => upstream[h].present
      BY <2>2, <2>4, AbsentKeeps DEF RevokeFamily, TypeOK
    <3>2. (disk' = upstream' \/ disk' = disk) /\ code' = code /\ proactive' = proactive
      BY <2>4 DEF RevokeFamily, Flush
    <3> QED
      BY <3>1, <3>2 DEF Begun
  <2>5. CASE ClaimRotation(r, pair[1], pair[2], sameClient)
    BY <2>5 DEF ClaimRotation, Begun
  <2> QED
    BY <2>1, <2>3, <2>4, <2>5
<1>6. ASSUME NEW r \in TokenReq, CommitRotation(r) PROVE Begun'
  <2> DEFINE g == tokenReq[r].grant
             c == tokenReq[r].call
             new == Updated(g, c, c.sent)
             done == WithRid(new, g, minted[g] + 1)
  <2>1. g \in Grant /\ c \in Call /\ c.sent \in Version
    BY DEF TypeOK, Call
  <2>2. new \in [Grant -> UpstreamToken]
    BY <2>1, UpdatedType
  <2>3. \A h \in Grant : new[h].present = upstream[h].present
                         /\ done[h].present = upstream[h].present
    BY <2>1, <2>2, UpdatedKeeps, WithRidKeeps
  <2>4. /\ upstream' = done
        /\ disk' = done \/ disk' = new \/ disk' = disk
        /\ code' = code /\ proactive' = proactive
    BY <1>6 DEF CommitRotation, Flush
  <2> QED
    BY <2>3, <2>4 DEF Begun
<1>7. ASSUME NEW r \in TokenReq, AbandonRotation(r) PROVE Begun'
  BY <1>7 DEF AbandonRotation, Begun
<1>8. ASSUME NEW b \in BearerReq, Depart(b) PROVE Begun'
  BY <1>8 DEF Depart, Begun
<1>9. ASSUME NEW b \in BearerReq, NEW g \in Grant, ResolveBearer(b, g) PROVE Begun'
  <2>1. upstream[g].present
    BY <1>9 DEF ResolveBearer, ServeStored, JoinRefresh, Usable
  <2>2. \A h \in Grant : h # g => proactive'[h] = proactive[h]
    BY <1>9 DEF ResolveBearer, ServeStored, JoinRefresh, TypeOK
  <2> QED
    BY <1>9, <2>1, <2>2 DEF ResolveBearer, ServeStored, JoinRefresh, Begun
<1>10. ASSUME DeferredFlush PROVE Begun'
  BY <1>10 DEF DeferredFlush, Flush, Begun
<1>11. ASSUME NEW onDisk,
              \A h \in Grant : onDisk[h].present => code[h] # "none",
              RestartFrom(onDisk)
       PROVE  Begun'
  BY <1>11, CallPhases DEF RestartFrom, Begun, TypeOK
<1>12. ASSUME Restart PROVE Begun'
  BY <1>11, <1>12 DEF Restart, Begun
<1>13. ASSUME NEW r \in TokenReq, RestartMidCommit(r) PROVE Begun'
  <2>1. tokenReq[r].grant \in Grant
    BY DEF TypeOK
  <2> QED
    BY <1>11, <1>13, <2>1, UpdatedKeeps DEF RestartMidCommit, Begun
<1>15. ASSUME NEW r \in TokenReq, WikiServesToken(r) PROVE Begun'
  BY <1>15 DEF WikiServesToken, WikiServes, Begun
<1>16. ASSUME NEW r \in TokenReq, TokenCallFails(r) PROVE Begun'
  BY <1>16 DEF TokenCallFails, Failing, Begun
<1>17. ASSUME NEW g \in Grant, WikiServesProactive(g) PROVE Begun'
  <2>1. proactive[g].state = "sent" /\ InFlight(proactive[g])
    BY <1>17 DEF WikiServesProactive, WikiServes, InFlight
  <2>2. \A h \in Grant : h # g => proactive'[h] = proactive[h]
    BY <1>17 DEF WikiServesProactive, TypeOK
  <2> QED
    BY <1>17, <2>1, <2>2 DEF WikiServesProactive, WikiServes, Begun
<1>18. ASSUME NEW g \in Grant, ProactiveCallFails(g) PROVE Begun'
  <2>1. InFlight(proactive[g])
    BY <1>18 DEF ProactiveCallFails, Failing, InFlight
  <2>2. \A h \in Grant : h # g => proactive'[h] = proactive[h]
    BY <1>18 DEF ProactiveCallFails, TypeOK
  <2> QED
    BY <1>18, <2>1, <2>2 DEF ProactiveCallFails, Failing, Begun
<1>19. ASSUME NEW g \in Grant, Tick(g) PROVE Begun'
  BY <1>19 DEF Tick, Begun
<1>20. CASE UNCHANGED vars
  BY <1>20 DEF vars, Begun
<1> QED
  BY <1>1, <1>2, <1>3, <1>4, <1>5, <1>6, <1>7, <1>8, <1>9, <1>10, <1>12, <1>13,
     <1>15, <1>16, <1>17, <1>18, <1>19, <1>20, SignsIn DEF Next, TokenEndpoint

(* Which steps leave every request's grant, refresh id and progress alone. *)
SlotsKept ==
    \A r \in TokenReq :
      /\ tokenReq'[r].grant = tokenReq[r].grant
      /\ tokenReq'[r].rid = tokenReq[r].rid
      /\ InFlight(tokenReq'[r].call) <=> InFlight(tokenReq[r].call)

LEMMA WireKeepsSlots ==
    ASSUME TypeOK,
           \E r \in TokenReq : WikiServesToken(r) \/ TokenCallFails(r)
    PROVE  SlotsKept
<1>1. PICK r \in TokenReq : WikiServesToken(r) \/ TokenCallFails(r)
  OBVIOUS
<1>2. InFlight(tokenReq[r].call)
  BY <1>1 DEF WikiServesToken, WikiServes, TokenCallFails, Failing, InFlight
<1>3. tokenReq[r].call \in Call /\ tokenReq[r].grant \in Grant
  BY DEF TypeOK
<1>4. InFlight(Reply(tokenReq[r].grant, tokenReq[r].call))
  BY <1>3 DEF Reply, InFlight, Call
<1>5. \E c : tokenReq' = [tokenReq EXCEPT ![r].call = c] /\ InFlight(c)
  <2>1. CASE WikiServesToken(r)
    BY <1>4, <2>1 DEF WikiServesToken
  <2>2. CASE TokenCallFails(r)
    <3>1. tokenReq' = [tokenReq EXCEPT ![r].call = [tokenReq[r].call EXCEPT !.state = "failed"]]
      BY <2>2 DEF TokenCallFails, TypeOK
    <3>2. InFlight([tokenReq[r].call EXCEPT !.state = "failed"])
      BY <1>3 DEF InFlight, Call
    <3> QED
      BY <3>1, <3>2
  <2> QED
    BY <1>1, <2>1, <2>2
<1> QED
  BY <1>2, <1>5 DEF SlotsKept, TypeOK

LEMMA FreedSlot ==
    ASSUME TypeOK, NEW r \in TokenReq, Release(r)
    PROVE  /\ ~InFlight(tokenReq'[r].call)
           /\ \A q \in TokenReq : q # r => tokenReq'[q] = tokenReq[q]
BY CallPhases DEF TypeOK, Release

LEMMA OwnershipKept ==
    ASSUME Ownership, SlotsKept, UNCHANGED <<refreshing, code>>,
           TypeOK, TypeOK',
           \A g \in Grant : upstream'[g].present = upstream[g].present
    PROVE  Ownership'
<1>1. \A r \in TokenReq : tokenReq[r].grant \in Grant
  BY DEF TypeOK
<1> QED
  BY <1>1 DEF Ownership, Claimed, OneOwnerPerClaim, SlotsKept

LEMMA StepOwnership == TypeOK /\ TypeOK' /\ Begun /\ Ownership /\ [Next]_vars => Ownership'
<1> SUFFICES ASSUME TypeOK, TypeOK', Begun, Ownership, [Next]_vars PROVE Ownership'
  OBVIOUS
<1> USE DEF storeVars, callVars, envVars, histVars
<1>1. ASSUME NEW g \in Grant, NEW recorded, recorded \in Wiki \cup {NoWiki},
              StoreGrant(g, recorded) PROVE Ownership'
  <2>1. code[g] = "none" /\ code'[g] = "live"
    BY <1>1 DEF StoreGrant, TypeOK
  <2>2. \A h \in Grant : h # g => upstream'[h] = upstream[h] /\ code'[h] = code[h]
    BY <1>1 DEF StoreGrant, TypeOK
  <2>3. UNCHANGED <<refreshing, tokenReq>>
    BY <1>1 DEF StoreGrant
  <2>4. \A r \in TokenReq : tokenReq[r].grant \in Grant
    BY DEF TypeOK
  <2> QED
    BY <2>1, <2>2, <2>3, <2>4 DEF Ownership, Claimed, OneOwnerPerClaim
<1>2. ASSUME NEW g \in Grant, RedeemCode(g) PROVE Ownership'
  <2>0. upstream \in [Grant -> UpstreamToken]
    BY DEF TypeOK
  <2>1. \A h \in Grant : upstream'[h].present = upstream[h].present
    BY <1>2, <2>0, WithRidKeeps DEF RedeemCode
  <2>2. \A h \in Grant : code'[h] = "none" => code[h] = "none"
    BY <1>2 DEF RedeemCode, TypeOK
  <2>3. UNCHANGED <<refreshing, tokenReq>>
    BY <1>2 DEF RedeemCode
  <2>4. \A r \in TokenReq : tokenReq[r].grant \in Grant
    BY DEF TypeOK
  <2> QED
    BY <2>1, <2>2, <2>3, <2>4 DEF Ownership, Claimed, OneOwnerPerClaim
<1>3. ASSUME NEW g \in Grant, CodeExpires(g) PROVE Ownership'
  <2>1. \A h \in Grant : code'[h] = "none" => code[h] = "none"
    BY <1>3 DEF CodeExpires, TypeOK
  <2>2. UNCHANGED <<refreshing, tokenReq, upstream>>
    BY <1>3 DEF CodeExpires
  <2>3. \A r \in TokenReq : tokenReq[r].grant \in Grant
    BY DEF TypeOK
  <2> QED
    BY <2>1, <2>2, <2>3 DEF Ownership, Claimed, OneOwnerPerClaim
<1>4. ASSUME NEW g \in Grant, SettleProactive(g) PROVE Ownership'
  <2>1. \A h \in Grant : upstream'[h].present = upstream[h].present
    BY <1>4, UpdatedKeeps DEF SettleProactive
  <2>2. UNCHANGED <<refreshing, tokenReq, code>>
    BY <1>4 DEF SettleProactive
  <2> QED
    BY <2>1, <2>2, OwnershipKept DEF SlotsKept
<1>5. ASSUME NEW r \in TokenReq, PresentRefreshToken(r) PROVE Ownership'
  <2>1. PICK pair \in held, sameClient \in BOOLEAN :
           \/ RefuseRefresh(r, pair[1], pair[2], sameClient)
           \/ RevokeFamily(r, pair[1], pair[2], sameClient)
           \/ ClaimRotation(r, pair[1], pair[2], sameClient)
    BY <1>5 DEF PresentRefreshToken
  <2>2. pair[1] \in Grant /\ ~InFlight(tokenReq[r].call)
    BY <1>5 DEF PresentRefreshToken, TypeOK
  <2>3. CASE RefuseRefresh(r, pair[1], pair[2], sameClient)
    BY <2>3 DEF RefuseRefresh, Ownership, Claimed, OneOwnerPerClaim, vars
  <2>4. CASE RevokeFamily(r, pair[1], pair[2], sameClient)
    <3>1. /\ ~upstream'[pair[1]].present
          /\ \A h \in Grant : h # pair[1] => upstream'[h] = upstream[h]
      BY <2>2, <2>4, AbsentKeeps DEF RevokeFamily, TypeOK
    <3>2. refreshing' = refreshing \ {pair[1]} /\ UNCHANGED <<tokenReq, code>>
      BY <2>4 DEF RevokeFamily
    <3>3. \A q \in TokenReq : tokenReq[q].grant \in Grant
      BY DEF TypeOK
    <3> QED
      BY <3>1, <3>2, <3>3 DEF Ownership, Claimed, OneOwnerPerClaim
  <2>5. CASE ClaimRotation(r, pair[1], pair[2], sameClient)
    <3>1. upstream[pair[1]].present /\ pair[1] \notin refreshing
      BY <2>5 DEF ClaimRotation, Claimable
    <3>2. refreshing' = refreshing \cup {pair[1]} /\ UNCHANGED <<upstream, code>>
      BY <2>5 DEF ClaimRotation
    <3>3. /\ tokenReq'[r].grant = pair[1] /\ InFlight(tokenReq'[r].call)
          /\ \A q \in TokenReq : q # r => tokenReq'[q] = tokenReq[q]
      BY <2>5, CallPhases DEF ClaimRotation, TypeOK
    <3>4. \A q \in TokenReq : InFlight(tokenReq[q].call) => tokenReq[q].grant # pair[1]
      BY <3>1 DEF Ownership, Claimed
    <3>5. code[pair[1]] # "none"
      BY <2>2, <3>1 DEF Begun
    <3>6. Claimed'
      BY <3>2, <3>3, <3>5 DEF Ownership, Claimed
    <3>7. OneOwnerPerClaim'
      BY <2>2, <3>2, <3>3, <3>4 DEF Ownership, OneOwnerPerClaim
    <3> QED
      BY <3>6, <3>7 DEF Ownership
  <2> QED
    BY <2>1, <2>3, <2>4, <2>5
<1>6. ASSUME NEW r \in TokenReq, InFlight(tokenReq[r].call), Release(r),
             refreshing' = refreshing \ {tokenReq[r].grant}, code' = code,
             \A h \in Grant : upstream'[h].present = upstream[h].present
      PROVE  Ownership'
  <2>1. \A q \in TokenReq : tokenReq[q].grant \in Grant
    BY DEF TypeOK
  <2>2. \A q \in TokenReq : q # r /\ InFlight(tokenReq[q].call) =>
          tokenReq[q].grant # tokenReq[r].grant
    BY <1>6 DEF Ownership, OneOwnerPerClaim
  <2>3. Claimed'
    BY <1>6, <2>1, <2>2, FreedSlot DEF Ownership, Claimed
  <2>4. OneOwnerPerClaim'
    BY <1>6, <2>1, <2>2, FreedSlot DEF Ownership, OneOwnerPerClaim
  <2> QED
    BY <2>3, <2>4 DEF Ownership
<1>7. ASSUME NEW r \in TokenReq, CommitRotation(r) PROVE Ownership'
  <2> DEFINE g == tokenReq[r].grant
             c == tokenReq[r].call
             new == Updated(g, c, c.sent)
  <2>1. g \in Grant /\ c \in Call /\ c.sent \in Version
    BY DEF TypeOK, Call
  <2>2. new \in [Grant -> UpstreamToken]
    BY <2>1, UpdatedType
  <2>3. \A h \in Grant : new[h].present = upstream[h].present
                         /\ WithRid(new, g, minted[g] + 1)[h].present = upstream[h].present
    BY <2>1, <2>2, UpdatedKeeps, WithRidKeeps
  <2> QED
    BY <1>6, <1>7, <2>3 DEF CommitRotation, InFlight
<1>8. ASSUME NEW r \in TokenReq, AbandonRotation(r) PROVE Ownership'
  BY <1>6, <1>8 DEF AbandonRotation, InFlight
<1>9. ASSUME NEW b \in BearerReq, Depart(b) PROVE Ownership'
  BY <1>9 DEF Depart, Ownership, Claimed, OneOwnerPerClaim
<1>10. ASSUME NEW b \in BearerReq, NEW g \in Grant, ResolveBearer(b, g) PROVE Ownership'
  BY <1>10 DEF ResolveBearer, ServeStored, JoinRefresh, Ownership, Claimed, OneOwnerPerClaim
<1>11. ASSUME DeferredFlush PROVE Ownership'
  BY <1>11 DEF DeferredFlush, Ownership, Claimed, OneOwnerPerClaim
<1>12. ASSUME NEW onDisk, RestartFrom(onDisk) PROVE Ownership'
  <2>1. refreshing' = {} /\ \A r \in TokenReq : ~InFlight(tokenReq'[r].call)
    BY <1>12, CallPhases DEF RestartFrom
  <2> QED
    BY <2>1 DEF Ownership, Claimed, OneOwnerPerClaim
<1>13. ASSUME NEW r \in TokenReq, RestartMidCommit(r) PROVE Ownership'
  BY <1>12, <1>13 DEF RestartMidCommit
<1>14. ASSUME NEW r \in TokenReq, WikiServesToken(r) \/ TokenCallFails(r) PROVE Ownership'
  <2>1. UNCHANGED <<refreshing, code, upstream>>
    BY <1>14 DEF WikiServesToken, WikiServes, TokenCallFails, Failing
  <2> QED
    BY <1>14, <2>1, WireKeepsSlots, OwnershipKept
<1>15. ASSUME NEW g \in Grant, WikiServesProactive(g) \/ ProactiveCallFails(g)
       PROVE  Ownership'
  BY <1>15 DEF WikiServesProactive, WikiServes, ProactiveCallFails, Failing,
               Ownership, Claimed, OneOwnerPerClaim
<1>16. ASSUME NEW g \in Grant, Tick(g) PROVE Ownership'
  BY <1>16 DEF Tick, Ownership, Claimed, OneOwnerPerClaim
<1>17. CASE UNCHANGED vars
  BY <1>17 DEF vars, Ownership, Claimed, OneOwnerPerClaim
<1>18. ASSUME Restart PROVE Ownership'
  BY <1>12, <1>18 DEF Restart
<1> QED
  BY <1>1, <1>2, <1>3, <1>4, <1>5, <1>7, <1>8, <1>9, <1>10, <1>11, <1>13, <1>14,
     <1>15, <1>16, <1>17, <1>18, SignsIn DEF Next, TokenEndpoint

-----------------------------------------------------------------------------
(* A step that leaves the records' ids, the ids minted, held and spent, and  *)
(* the requests as they were.                                                *)
LEMMA RotationKept ==
    ASSUME TypeOK, TypeOK', RotationInv, SlotsKept, Mirrored',
           UNCHANGED <<minted, held, spent, code>>,
           \A g \in Grant : /\ upstream'[g].present = upstream[g].present
                            /\ upstream'[g].rid = upstream[g].rid
    PROVE  RotationInv'
BY DEF RotationInv, Dropped, Unredeemed, LatestRidCurrent, Newest, SlotsKept

LEMMA StepRotationInv ==
    ASSUME TypeOK, TypeOK', Begun, Ownership, RotationInv, ~FlushFails, [Next]_vars
    PROVE  RotationInv'
<1> USE DEF storeVars, callVars, envVars, histVars
<1>0. /\ upstream \in [Grant -> UpstreamToken] /\ disk = upstream
      /\ minted \in [Grant -> Nat]
      /\ \A r \in TokenReq : tokenReq[r].grant \in Grant /\ tokenReq[r].rid \in Nat
      /\ \A pair \in held \cup spent : pair[1] \in Grant /\ pair[2] \in Nat
  BY DEF TypeOK, RotationInv, Mirrored, Rid
<1>1. ASSUME NEW g \in Grant, NEW recorded, recorded \in Wiki \cup {NoWiki},
              StoreGrant(g, recorded) PROVE RotationInv'
  <2>1. /\ \A h \in Grant : h # g => upstream'[h] = upstream[h] /\ code'[h] = code[h]
        /\ upstream'[g].present /\ upstream'[g].rid = 0
        /\ code[g] = "none" /\ minted[g] = 0
    BY <1>1 DEF StoreGrant, TypeOK, RotationInv, Unredeemed
  <2>2. Mirrored' /\ UNCHANGED <<minted, held, spent, tokenReq>>
    BY <1>1 DEF StoreGrant, Flush, Mirrored
  <2> QED
    BY <2>1, <2>2 DEF RotationInv, Dropped, Unredeemed, LatestRidCurrent, Newest
<1>2. ASSUME NEW g \in Grant, RedeemCode(g) PROVE RotationInv'
  <2>1. /\ code[g] = "live" /\ code'[g] = "gone" /\ minted[g] = 0
        /\ \A h \in Grant : h # g => code'[h] = code[h]
    BY <1>2 DEF RedeemCode, TypeOK, RotationInv, Unredeemed
  <2>2. UNCHANGED <<spent, tokenReq>>
    BY <1>2 DEF RedeemCode
  <2>3. CASE UNCHANGED <<upstream, disk, held, minted>>
    BY <1>0, <2>1, <2>2, <2>3
       DEF RotationInv, Mirrored, Dropped, Unredeemed, LatestRidCurrent, Newest
  <2>4. CASE /\ upstream' = WithRid(upstream, g, minted[g] + 1)
             /\ Flush(upstream')
             /\ MintPair(g, minted[g] + 1)
    <3>1. \A h \in Grant :
            /\ upstream'[h].present = upstream[h].present
            /\ upstream'[h].rid = IF h = g /\ upstream[g].present THEN 1 ELSE upstream[h].rid
      BY <1>0, <2>1, <2>4, WithRidKeeps
    <3>2. /\ minted'[g] = 1
          /\ \A h \in Grant : h # g => minted'[h] = minted[h]
          /\ held' \subseteq held \cup {<<g, 1>>}
      BY <1>0, <2>1, <2>4 DEF MintPair
    <3>3. Mirrored'
      BY <2>4 DEF Flush, Mirrored
    <3>4. Dropped' /\ Unredeemed' /\ LatestRidCurrent'
      BY <2>1, <3>1, <3>2 DEF RotationInv, Dropped, Unredeemed, LatestRidCurrent
    <3>5. \A r \in TokenReq : InFlight(tokenReq[r].call) => tokenReq[r].grant # g
      BY <1>0, <2>1 DEF RotationInv, Newest
    <3>6. Newest'
      BY <1>0, <2>1, <2>2, <3>2, <3>5 DEF RotationInv, Newest
    <3> QED
      BY <3>3, <3>4, <3>6 DEF RotationInv
  <2> QED
    BY <1>2, <2>3, <2>4 DEF RedeemCode
<1>3. ASSUME NEW g \in Grant, CodeExpires(g) PROVE RotationInv'
  <2>1. \A h \in Grant : code[h] = "gone" => code'[h] = "gone"
    BY <1>3 DEF CodeExpires, TypeOK
  <2> QED
    BY <1>3, <2>1 DEF CodeExpires, RotationInv, Mirrored, Dropped, Unredeemed,
                      LatestRidCurrent, Newest
<1>4. ASSUME NEW g \in Grant, SettleProactive(g) PROVE RotationInv'
  <2>1. \A h \in Grant : /\ upstream'[h].present = upstream[h].present
                         /\ upstream'[h].rid = upstream[h].rid
    BY <1>4, UpdatedKeeps DEF SettleProactive
  <2>2. Mirrored'
    BY <1>0, <1>4 DEF SettleProactive, Flush, Mirrored
  <2> QED
    BY <1>4, <2>1, <2>2, RotationKept DEF SettleProactive, SlotsKept
<1>5. ASSUME NEW r \in TokenReq, PresentRefreshToken(r) PROVE RotationInv'
  <2>1. PICK pair \in held, sameClient \in BOOLEAN :
           \/ RefuseRefresh(r, pair[1], pair[2], sameClient)
           \/ RevokeFamily(r, pair[1], pair[2], sameClient)
           \/ ClaimRotation(r, pair[1], pair[2], sameClient)
    BY <1>5 DEF PresentRefreshToken
  <2>2. pair[1] \in Grant /\ pair[2] \in Nat
    BY <1>0
  <2>3. CASE RefuseRefresh(r, pair[1], pair[2], sameClient)
    BY <2>3 DEF RefuseRefresh, vars, RotationInv, Mirrored, Dropped, Unredeemed,
                LatestRidCurrent, Newest
  <2>4. CASE RevokeFamily(r, pair[1], pair[2], sameClient)
    <3>1. /\ ~upstream'[pair[1]].present /\ upstream'[pair[1]].rid = 0
          /\ \A h \in Grant : h # pair[1] => upstream'[h] = upstream[h]
      BY <1>0, <2>2, <2>4, AbsentKeeps DEF RevokeFamily
    <3>2. Mirrored' /\ UNCHANGED <<minted, held, spent, code, tokenReq>>
      BY <2>4 DEF RevokeFamily, Flush, Mirrored
    <3> QED
      BY <3>1, <3>2 DEF RotationInv, Dropped, Unredeemed, LatestRidCurrent, Newest
  <2>5. CASE ClaimRotation(r, pair[1], pair[2], sameClient)
    <3>1. upstream[pair[1]].present /\ pair[2] = upstream[pair[1]].rid
      BY <2>5 DEF ClaimRotation, Claimable
    <3>2. pair[2] >= 1 /\ pair[2] = minted[pair[1]]
      BY <2>2, <3>1 DEF RotationInv, Newest, LatestRidCurrent
    <3>3. /\ tokenReq'[r].grant = pair[1] /\ tokenReq'[r].rid = pair[2]
          /\ \A q \in TokenReq : q # r => tokenReq'[q] = tokenReq[q]
      BY <2>5 DEF ClaimRotation, TypeOK
    <3>4. UNCHANGED <<upstream, disk, minted, held, spent, code>>
      BY <2>5 DEF ClaimRotation
    <3> QED
      BY <3>2, <3>3, <3>4
         DEF RotationInv, Mirrored, Dropped, Unredeemed, LatestRidCurrent, Newest
  <2> QED
    BY <2>1, <2>3, <2>4, <2>5
<1>6. ASSUME NEW r \in TokenReq, CommitRotation(r) PROVE RotationInv'
  <2> DEFINE g == tokenReq[r].grant
             c == tokenReq[r].call
             new == Updated(g, c, c.sent)
  <2>1. g \in Grant /\ c \in Call /\ c.sent \in Version /\ InFlight(c)
    BY <1>6 DEF TypeOK, Call, CommitRotation, InFlight
  <2>2. new \in [Grant -> UpstreamToken]
    BY <2>1, UpdatedType
  <2>3. \A h \in Grant : new[h].present = upstream[h].present /\ new[h].rid = upstream[h].rid
    BY <2>1, UpdatedKeeps
  <2>4. upstream' = WithRid(new, g, minted[g] + 1)
    BY <1>6 DEF CommitRotation
  <2>5. \A h \in Grant :
          /\ upstream'[h].present = upstream[h].present
          /\ upstream'[h].rid = IF h = g /\ upstream[g].present THEN minted[g] + 1
                                ELSE upstream[h].rid
    BY <2>1, <2>2, <2>3, <2>4, WithRidKeeps
  <2>6. /\ minted'[g] = minted[g] + 1
        /\ \A h \in Grant : h # g => minted'[h] = minted[h]
        /\ held' \subseteq held \cup {<<g, minted[g] + 1>>}
    BY <1>0, <1>6, <2>1 DEF CommitRotation, MintPair
  <2>7. /\ tokenReq[r].rid = minted[g] /\ minted[g] >= 1
        /\ spent' = spent \cup {<<g, tokenReq[r].rid>>}
        /\ UNCHANGED code
    BY <1>6, <2>1 DEF CommitRotation, RotationInv, Newest
  <2>8. /\ ~InFlight(tokenReq'[r].call)
        /\ \A q \in TokenReq : q # r => tokenReq'[q] = tokenReq[q]
    BY <1>6, FreedSlot DEF CommitRotation
  <2>9. \A q \in TokenReq : q # r /\ InFlight(tokenReq[q].call) => tokenReq[q].grant # g
    BY <2>1 DEF Ownership, OneOwnerPerClaim
  <2>10. Mirrored'
    BY <1>6 DEF CommitRotation, Flush, Mirrored
  <2>11. Dropped' /\ LatestRidCurrent'
    BY <1>0, <2>1, <2>5, <2>6 DEF RotationInv, Dropped, LatestRidCurrent
  <2>12. Unredeemed'
    BY <1>0, <2>1, <2>6, <2>7 DEF RotationInv, Unredeemed
  <2>13. \A pair \in held' : pair[2] >= 1 /\ pair[2] <= minted'[pair[1]]
    BY <1>0, <2>1, <2>6, <2>7 DEF RotationInv, Newest
  <2>14. \A pair \in spent' : pair[2] < minted'[pair[1]]
    BY <1>0, <2>1, <2>6, <2>7 DEF RotationInv, Newest
  <2>15. \A q \in TokenReq : InFlight(tokenReq'[q].call) =>
           tokenReq'[q].rid >= 1 /\ tokenReq'[q].rid = minted'[tokenReq'[q].grant]
    BY <1>0, <2>6, <2>8, <2>9 DEF RotationInv, Newest
  <2> QED
    BY <2>10, <2>11, <2>12, <2>13, <2>14, <2>15 DEF RotationInv, Newest
<1>7. ASSUME NEW r \in TokenReq, AbandonRotation(r) PROVE RotationInv'
  BY <1>7, FreedSlot DEF AbandonRotation, RotationInv, Mirrored, Dropped, Unredeemed,
                         LatestRidCurrent, Newest
<1>8. ASSUME NEW b \in BearerReq, Depart(b) PROVE RotationInv'
  BY <1>8 DEF Depart, RotationInv, Mirrored, Dropped, Unredeemed, LatestRidCurrent, Newest
<1>9. ASSUME NEW b \in BearerReq, NEW g \in Grant, ResolveBearer(b, g) PROVE RotationInv'
  BY <1>9 DEF ResolveBearer, ServeStored, JoinRefresh, RotationInv, Mirrored, Dropped, Unredeemed,
              LatestRidCurrent, Newest
<1>10. ASSUME DeferredFlush PROVE RotationInv'
  BY <1>0, <1>10 DEF DeferredFlush, Flush, RotationInv, Mirrored, Dropped, Unredeemed,
              LatestRidCurrent, Newest
<1>11. ASSUME NEW onDisk \in [Grant -> UpstreamToken], RestartFrom(onDisk),
              \A h \in Grant : /\ onDisk[h].present = upstream[h].present
                               /\ onDisk[h].rid = upstream[h].rid
       PROVE  RotationInv'
  <2>1. \A r \in TokenReq : ~InFlight(tokenReq'[r].call)
    BY <1>11, CallPhases DEF RestartFrom
  <2>2. \A h \in Grant : code[h] = "gone" => code'[h] = "gone"
    BY <1>11 DEF RestartFrom, TypeOK
  <2>3. upstream' = onDisk /\ disk' = onDisk /\ UNCHANGED <<minted, held, spent>>
    BY <1>11 DEF RestartFrom
  <2> QED
    BY <1>11, <2>1, <2>2, <2>3
       DEF RotationInv, Mirrored, Dropped, Unredeemed, LatestRidCurrent, Newest
<1>12. ASSUME Restart PROVE RotationInv'
  BY <1>0, <1>11, <1>12 DEF Restart
<1>13. ASSUME NEW r \in TokenReq, RestartMidCommit(r) PROVE RotationInv'
  <2>1. /\ tokenReq[r].grant \in Grant
        /\ tokenReq[r].call \in Call
        /\ tokenReq[r].call.sent \in Version
    BY DEF TypeOK, Call
  <2> QED
    BY <1>11, <1>13, <2>1, UpdatedType, UpdatedKeeps DEF RestartMidCommit
<1>14. ASSUME NEW r \in TokenReq, WikiServesToken(r) \/ TokenCallFails(r) PROVE RotationInv'
  <2>1. UNCHANGED <<upstream, disk, minted, held, spent, code>>
    BY <1>14 DEF WikiServesToken, WikiServes, TokenCallFails, Failing
  <2>2. Mirrored'
    BY <1>0, <2>1 DEF Mirrored
  <2> QED
    BY <1>14, <2>1, <2>2, WireKeepsSlots, RotationKept
<1>15. ASSUME NEW g \in Grant, WikiServesProactive(g) \/ ProactiveCallFails(g)
       PROVE  RotationInv'
  BY <1>15 DEF WikiServesProactive, WikiServes, ProactiveCallFails, Failing, RotationInv,
               Mirrored, Dropped, Unredeemed, LatestRidCurrent, Newest
<1>16. ASSUME NEW g \in Grant, Tick(g) PROVE RotationInv'
  BY <1>16 DEF Tick, RotationInv, Mirrored, Dropped, Unredeemed, LatestRidCurrent, Newest
<1>17. CASE UNCHANGED vars
  BY <1>17 DEF vars, RotationInv, Mirrored, Dropped, Unredeemed, LatestRidCurrent, Newest
<1> QED
  BY <1>1, <1>2, <1>3, <1>4, <1>5, <1>6, <1>7, <1>8, <1>9, <1>10, <1>12, <1>13, <1>14,
     <1>15, <1>16, <1>17, SignsIn DEF Next, TokenEndpoint

LEMMA InitIInv == Init => IInv
<1> SUFFICES ASSUME Init PROVE IInv
  OBVIOUS
<1>1. TypeOK
  BY InitTypeOK
<1>2. \A r \in TokenReq : ~InFlight(tokenReq[r].call)
  BY CallPhases DEF Init
<1>3. \A g \in Grant : /\ ~upstream[g].present /\ ~disk[g].present
                       /\ upstream[g].rid = 0 /\ ~InFlight(proactive[g])
  BY CallPhases DEF Init
<1>4. Begun
  BY <1>3 DEF Begun
<1>5. Ownership
  BY <1>2 DEF Init, Ownership, Claimed, OneOwnerPerClaim
<1>6. RotationInv
  BY <1>2, <1>3 DEF Init, RotationInv, Mirrored, Dropped, Unredeemed, LatestRidCurrent, Newest
<1> QED
  BY <1>1, <1>4, <1>5, <1>6 DEF IInv

LEMMA StepIInv == IInv /\ [Next]_vars => IInv'
BY StepTypeOK, StepBegun, StepOwnership, StepRotationInv DEF IInv

(* The inductive invariant holds of every behaviour. *)
THEOREM Invariance == Spec => []IInv
BY InitIInv, StepIInv, PTL DEF Spec

(* No two requests rotate one family, and no claim outlives its request. *)
THEOREM OneOwner == Spec => []OneOwnerPerClaim
<1>1. IInv => OneOwnerPerClaim
  BY DEF IInv, Ownership
<1> QED
  BY <1>1, Invariance, PTL

(* No spent refresh id becomes current again, as long as the file can be     *)
(* written.                                                                  *)
THEOREM SpentOnceHolds == Spec => []SpentOnce
<1>1. IInv => SpentOnce
  <2> SUFFICES ASSUME IInv, ~FlushFails PROVE SpentOnce
    BY DEF SpentOnce
  <2>1. \A pair \in spent : pair[1] \in Grant /\ pair[2] # minted[pair[1]]
    BY DEF IInv, RotationInv, Newest, TypeOK, Rid
  <2>2. \A r \in TokenReq : tokenReq[r].grant \in Grant
    BY DEF IInv, TypeOK
  <2> QED
    BY <2>1, <2>2 DEF IInv, RotationInv, LatestRidCurrent, Newest, SpentOnce
<1> QED
  BY <1>1, Invariance, PTL

(* A standing family names the refresh id minted last. *)
THEOREM LatestRidHolds == Spec => []LatestRidCurrent
<1>1. IInv => LatestRidCurrent
  BY DEF IInv, RotationInv, LatestRidCurrent
<1> QED
  BY <1>1, Invariance, PTL

-----------------------------------------------------------------------------
(* A step of the proxy is a step of the family it drives, or none. *)
LEMMA StepOfFamily ==
    ASSUME IInv, IInv', ~FlushFails, NEW g \in Grant,
           \A h \in Grant : h # g =>
             /\ upstream'[h].present = upstream[h].present
             /\ upstream'[h].rid = upstream[h].rid
             /\ (code'[h] = "none") = (code[h] = "none")
             /\ Redeemed(h)' = Redeemed(h),
           \/ FamilyOf(g)' = FamilyOf(g)
           \/ /\ FamilyOf(g).status = "none"
              /\ FamilyOf(g)' = [status |-> "live", current |-> 0, redeemed |-> {}]
           \/ /\ FamilyOf(g).status = "live" /\ FamilyOf(g)'.status = "live"
              /\ FamilyOf(g)'.current > FamilyOf(g).current
              /\ FamilyOf(g)'.redeemed = FamilyOf(g).redeemed \cup ({FamilyOf(g).current} \ {0})
           \/ /\ FamilyOf(g).status = "live"
              /\ FamilyOf(g)' = [status |-> "revoked", current |-> 0, redeemed |-> {}]
    PROVE  [Family!Next]_([h \in Grant |-> FamilyOf(h)])
<1> DEFINE fam == [h \in Grant |-> FamilyOf(h)]
<1>1. \A h \in Grant : h # g => FamilyOf(h)' = FamilyOf(h)
  BY DEF FamilyOf
<1>2. fam' = [fam EXCEPT ![g] = FamilyOf(g)']
  BY <1>1
<1>3. FamilyOf(g).status = "none" => FamilyOf(g).current = 0 /\ FamilyOf(g).redeemed = {}
  BY DEF IInv, RotationInv, Dropped, FamilyOf
<1>4. CASE FamilyOf(g)' = FamilyOf(g)
  <2>1. fam' = fam
    BY <1>1, <1>4
  <2> QED
    BY <2>1
<1>5. CASE /\ FamilyOf(g).status = "none"
           /\ FamilyOf(g)' = [status |-> "live", current |-> 0, redeemed |-> {}]
  <2>1. Family!SignIn(g)
    BY <1>2, <1>3, <1>5, ZenonT(60) DEF Family!SignIn, Family!None, FamilyOf
  <2> QED
    BY <2>1 DEF Family!Next
<1>6. CASE /\ FamilyOf(g).status = "live" /\ FamilyOf(g)'.status = "live"
           /\ FamilyOf(g)'.current > FamilyOf(g).current
           /\ FamilyOf(g)'.redeemed = FamilyOf(g).redeemed \cup ({FamilyOf(g).current} \ {0})
  <2>1. FamilyOf(g)' = [status |-> "live", current |-> FamilyOf(g)'.current,
                        redeemed |-> FamilyOf(g)'.redeemed]
    BY <1>6 DEF FamilyOf
  <2>2. fam' = [fam EXCEPT ![g] =
           [ status |-> "live", current |-> fam'[g].current,
             redeemed |-> fam[g].redeemed \cup ({fam[g].current} \ {0}) ]]
    BY <1>2, <1>6, <2>1
  <2>3. Family!Rotate(g)
    BY <1>2, <1>6, <2>2 DEF Family!Rotate
  <2> QED
    BY <2>3 DEF Family!Next
<1>7. CASE /\ FamilyOf(g).status = "live"
           /\ FamilyOf(g)' = [status |-> "revoked", current |-> 0, redeemed |-> {}]
  <2>1. Family!Revoke(g)
    BY <1>2, <1>7 DEF Family!Revoke
  <2> QED
    BY <2>1 DEF Family!Next
<1> QED
  BY <1>4, <1>5, <1>6, <1>7

(* Most steps leave the spent refresh ids alone.                             *)
LEMMA RedeemedKept ==
    ASSUME spent' = spent
    PROVE  \A h \in Grant : Redeemed(h)' = Redeemed(h)
BY DEF Redeemed

LEMMA StutterOfFamily ==
    ASSUME \A h \in Grant : /\ upstream'[h].present = upstream[h].present
                            /\ upstream'[h].rid = upstream[h].rid
                            /\ (code'[h] = "none") = (code[h] = "none"),
           \A h \in Grant : upstream[h].present => Redeemed(h)' = Redeemed(h)
    PROVE  [Family!Next]_([h \in Grant |-> FamilyOf(h)])
<1>1. \A h \in Grant : FamilyOf(h)' = FamilyOf(h)
  BY DEF FamilyOf
<1> QED
  BY <1>1

LEMMA StepImplements ==
    ASSUME IInv, IInv', ~FlushFails, [Next]_vars
    PROVE  [Family!Next]_([h \in Grant |-> FamilyOf(h)])
<1> DEFINE Goal == [Family!Next]_([h \in Grant |-> FamilyOf(h)])
<1> USE DEF storeVars, callVars, envVars, histVars
<1>0. /\ TypeOK /\ TypeOK' /\ RotationInv /\ RotationInv' /\ Begun
      /\ upstream \in [Grant -> UpstreamToken] /\ disk = upstream
      /\ minted \in [Grant -> Nat]
      /\ \A r \in TokenReq : tokenReq[r].grant \in Grant /\ tokenReq[r].call \in Call
                             /\ tokenReq[r].call.sent \in Version
  BY DEF IInv, TypeOK, RotationInv, Mirrored, Rid, Call
<1>1. ASSUME NEW g \in Grant, NEW recorded, recorded \in Wiki \cup {NoWiki},
              StoreGrant(g, recorded) PROVE Goal
  <2>1. /\ \A h \in Grant : h # g => upstream'[h] = upstream[h] /\ code'[h] = code[h]
        /\ upstream'[g].present /\ upstream'[g].rid = 0
        /\ code[g] = "none" /\ ~upstream[g].present /\ spent' = spent
    BY <1>0, <1>1 DEF StoreGrant, TypeOK, Begun
  <2>3. Redeemed(g) = {}
    <3>1. minted[g] = 0
      BY <1>0, <2>1 DEF RotationInv, Unredeemed
    <3>2. \A pair \in spent : pair[2] < minted[pair[1]] /\ pair[2] \in Nat
      BY <1>0 DEF RotationInv, Newest, TypeOK, Rid
    <3>3. \A pair \in spent : pair[1] # g
      BY <3>1, <3>2
    <3> QED BY <3>3 DEF Redeemed
  <2>2. /\ FamilyOf(g).status = "none"
        /\ FamilyOf(g)' = [status |-> "live", current |-> 0, redeemed |-> {}]
    BY <2>1, <2>3, RedeemedKept DEF FamilyOf
  <2> QED
    BY <2>1, <2>2, RedeemedKept, StepOfFamily
<1>2. ASSUME NEW g \in Grant, RedeemCode(g) PROVE Goal
  <2>1. /\ code[g] = "live" /\ code'[g] = "gone" /\ minted[g] = 0
        /\ \A h \in Grant : h # g => code'[h] = code[h]
        /\ spent' = spent
    BY <1>0, <1>2 DEF RedeemCode, TypeOK, RotationInv, Unredeemed
  <2>2. CASE UNCHANGED <<upstream, disk, held, minted>>
    BY <2>1, <2>2, RedeemedKept, StutterOfFamily
  <2>3. CASE upstream' = WithRid(upstream, g, minted[g] + 1)
    <3>1. \A h \in Grant :
            /\ upstream'[h].present = upstream[h].present
            /\ upstream'[h].rid = IF h = g /\ upstream[g].present THEN 1 ELSE upstream[h].rid
      BY <1>0, <2>1, <2>3, WithRidKeeps
    <3>2. CASE upstream[g].present
      <4>1. upstream[g].rid = 0
        BY <1>0, <2>1, <3>2 DEF IInv, RotationInv, LatestRidCurrent
      <4>2. /\ FamilyOf(g).status = "live" /\ FamilyOf(g)'.status = "live"
            /\ FamilyOf(g)'.current > FamilyOf(g).current
            /\ FamilyOf(g)'.redeemed = FamilyOf(g).redeemed \cup ({FamilyOf(g).current} \ {0})
        BY <2>1, <3>1, <3>2, <4>1, RedeemedKept DEF FamilyOf
      <4> QED
        BY <2>1, <3>1, <4>2, RedeemedKept, StepOfFamily
    <3>3. CASE ~upstream[g].present
      BY <2>1, <3>1, <3>3, RedeemedKept, StutterOfFamily
    <3> QED
      BY <3>2, <3>3
  <2> QED
    BY <1>2, <2>2, <2>3 DEF RedeemCode
<1>3. ASSUME NEW g \in Grant, CodeExpires(g) PROVE Goal
  <2>1. \A h \in Grant : (code'[h] = "none") = (code[h] = "none")
    BY <1>0, <1>3 DEF CodeExpires, TypeOK
  <2> QED
    BY <1>3, <2>1, RedeemedKept, StutterOfFamily DEF CodeExpires
<1>4. ASSUME NEW g \in Grant, SettleProactive(g) PROVE Goal
  BY <1>0, <1>4, UpdatedKeeps, RedeemedKept, StutterOfFamily DEF SettleProactive
<1>5. ASSUME NEW r \in TokenReq, PresentRefreshToken(r) PROVE Goal
  <2>1. PICK pair \in held, sameClient \in BOOLEAN :
           \/ RefuseRefresh(r, pair[1], pair[2], sameClient)
           \/ RevokeFamily(r, pair[1], pair[2], sameClient)
           \/ ClaimRotation(r, pair[1], pair[2], sameClient)
    BY <1>5 DEF PresentRefreshToken
  <2>2. pair[1] \in Grant
    BY <1>0 DEF TypeOK
  <2>3. CASE RefuseRefresh(r, pair[1], pair[2], sameClient)
    BY <2>3, RedeemedKept, StutterOfFamily DEF RefuseRefresh, vars
  <2>4. CASE RevokeFamily(r, pair[1], pair[2], sameClient)
    <3>1. /\ upstream[pair[1]].present
          /\ ~upstream'[pair[1]].present /\ upstream'[pair[1]].rid = 0
          /\ \A h \in Grant : h # pair[1] => upstream'[h] = upstream[h]
          /\ code' = code
      BY <1>0, <2>2, <2>4, AbsentKeeps DEF RevokeFamily, Refusable
    <3>2. code[pair[1]] # "none"
      BY <1>0, <2>2, <3>1 DEF Begun
    <3>3. FamilyOf(pair[1]).status = "live"
          /\ FamilyOf(pair[1])' = [status |-> "revoked", current |-> 0, redeemed |-> {}]
      BY <3>1, <3>2 DEF FamilyOf
    <3> QED
      BY <2>2, <2>4, <3>1, <3>3, RedeemedKept, StepOfFamily DEF RevokeFamily
  <2>5. CASE ClaimRotation(r, pair[1], pair[2], sameClient)
    BY <2>5, RedeemedKept, StutterOfFamily DEF ClaimRotation
  <2> QED
    BY <2>1, <2>3, <2>4, <2>5
<1>6. ASSUME NEW r \in TokenReq, CommitRotation(r) PROVE Goal
  <2>0. PICK g \in Grant : g = tokenReq[r].grant
    BY <1>0
  <2> DEFINE new == Updated(g, tokenReq[r].call, tokenReq[r].call.sent)
  <2>1. new \in [Grant -> UpstreamToken]
    BY <1>0, UpdatedType
  <2>2. \A h \in Grant : new[h].present = upstream[h].present /\ new[h].rid = upstream[h].rid
    BY <1>0, UpdatedKeeps
  <2>3. /\ upstream' = WithRid(new, g, minted[g] + 1) /\ code' = code
        /\ spent' = spent \cup {<<g, tokenReq[r].rid>>} /\ InFlight(tokenReq[r].call)
    BY <1>6, <2>0 DEF CommitRotation, InFlight
  <2>7. \A h \in Grant : h # g => Redeemed(h)' = Redeemed(h)
    BY <2>3 DEF Redeemed
  <2>4. \A h \in Grant :
          /\ upstream'[h].present = upstream[h].present
          /\ upstream'[h].rid = IF h = g /\ upstream[g].present THEN minted[g] + 1
                                ELSE upstream[h].rid
    BY <1>0, <2>1, <2>2, <2>3, WithRidKeeps
  <2>5. CASE upstream[g].present
    <3>1. upstream[g].rid = minted[g] /\ minted[g] \in Nat
      BY <1>0, <2>5 DEF RotationInv, LatestRidCurrent
    <3>3. tokenReq[r].rid = minted[g] /\ tokenReq[r].rid >= 1
      BY <1>0, <2>0, <2>3 DEF RotationInv, Newest
    <3>4. Redeemed(g)' = Redeemed(g) \cup {tokenReq[r].rid}
      <4> DEFINE pair == <<g, tokenReq[r].rid>>
      <4>1. spent' = spent \cup {pair} /\ pair[1] = g /\ pair[2] = tokenReq[r].rid
        BY <2>3
      <4> HIDE DEF pair
      <4> QED BY <4>1 DEF Redeemed
    <3>2. /\ FamilyOf(g).status = "live" /\ FamilyOf(g)'.status = "live"
          /\ FamilyOf(g)'.current > FamilyOf(g).current
          /\ FamilyOf(g)'.redeemed = FamilyOf(g).redeemed \cup ({FamilyOf(g).current} \ {0})
      BY <1>0, <2>4, <2>5, <3>1, <3>3, <3>4 DEF FamilyOf
    <3> QED
      BY <1>0, <2>3, <2>4, <2>7, <3>2, StepOfFamily
  <2>6. CASE ~upstream[g].present
    BY <2>3, <2>4, <2>6, <2>7, StutterOfFamily
  <2> QED
    BY <2>5, <2>6
<1>7. ASSUME NEW r \in TokenReq, AbandonRotation(r) PROVE Goal
  BY <1>7, RedeemedKept, StutterOfFamily DEF AbandonRotation
<1>8. ASSUME NEW b \in BearerReq, Depart(b) PROVE Goal
  BY <1>8, RedeemedKept, StutterOfFamily DEF Depart
<1>9. ASSUME NEW b \in BearerReq, NEW g \in Grant, ResolveBearer(b, g) PROVE Goal
  BY <1>9, RedeemedKept, StutterOfFamily DEF ResolveBearer, ServeStored, JoinRefresh
<1>10. ASSUME DeferredFlush PROVE Goal
  BY <1>10, RedeemedKept, StutterOfFamily DEF DeferredFlush
<1>11. ASSUME NEW onDisk, RestartFrom(onDisk),
              \A h \in Grant : /\ onDisk[h].present = upstream[h].present
                               /\ onDisk[h].rid = upstream[h].rid
       PROVE  Goal
  <2>1. \A h \in Grant : (code'[h] = "none") = (code[h] = "none")
    BY <1>0, <1>11 DEF RestartFrom, TypeOK
  <2> QED
    BY <1>11, <2>1, RedeemedKept, StutterOfFamily DEF RestartFrom
<1>12. ASSUME Restart PROVE Goal
  BY <1>0, <1>11, <1>12 DEF Restart
<1>13. ASSUME NEW r \in TokenReq, RestartMidCommit(r) PROVE Goal
  BY <1>0, <1>11, <1>13, UpdatedKeeps DEF RestartMidCommit
<1>14. ASSUME NEW r \in TokenReq, WikiServesToken(r) \/ TokenCallFails(r) PROVE Goal
  BY <1>14, RedeemedKept, StutterOfFamily DEF WikiServesToken, WikiServes, TokenCallFails, Failing
<1>15. ASSUME NEW g \in Grant, WikiServesProactive(g) \/ ProactiveCallFails(g) PROVE Goal
  BY <1>15, RedeemedKept, StutterOfFamily DEF WikiServesProactive, WikiServes, ProactiveCallFails, Failing
<1>16. ASSUME NEW g \in Grant, Tick(g) PROVE Goal
  BY <1>16, RedeemedKept, StutterOfFamily DEF Tick
<1>17. CASE UNCHANGED vars
  BY <1>17, RedeemedKept, StutterOfFamily DEF vars
<1> QED
  BY <1>0, <1>1, <1>2, <1>3, <1>4, <1>5, <1>6, <1>7, <1>8, <1>9, <1>10, <1>12, <1>13, <1>14,
     <1>15, <1>16, <1>17, SignsIn DEF Next, TokenEndpoint

(* Every behaviour of the proxy is one of the abstract families, as long as  *)
(* the store file can be written.                                            *)
THEOREM FamilyImplemented == Spec /\ [](~FlushFails) => ImplementsFamily
<1>1. Init => Family!Init
  <2> SUFFICES ASSUME Init PROVE Family!Init
    OBVIOUS
  <2>1. \A g \in Grant : FamilyOf(g) = Family!None
    <3>1. \A g \in Grant : ~upstream[g].present /\ upstream[g].rid = 0 /\ code[g] = "none"
      BY DEF Init
    <3> QED BY <3>1 DEF FamilyOf, Family!None
  <2> QED
    BY <2>1 DEF Family!Init
<1>2. ~FlushFails /\ IInv /\ IInv' /\ [Next]_vars
        => [Family!Next]_([g \in Grant |-> FamilyOf(g)])
  BY StepImplements
<1> QED
  BY <1>1, <1>2, Invariance, PTL DEF Spec, ImplementsFamily, Family!Spec

(* A revoked family never comes back: a consequence of the refinement.       *)
THEOREM RevokedForGoodHolds == Spec => RevokedForGood
<1> DEFINE Step == \A g \in Grant :
      ~FlushFails /\ code[g] # "none" /\ ~upstream[g].present => ~upstream'[g].present
<1>1. IInv /\ IInv' /\ [Next]_vars => [Step]_vars
  <2> SUFFICES ASSUME IInv, IInv', [Next]_vars, ~FlushFails,
                      NEW g \in Grant, code[g] # "none", ~upstream[g].present
               PROVE  ~upstream'[g].present
    OBVIOUS
  <2> DEFINE fam == [h \in Grant |-> FamilyOf(h)]
  <2>1. [Family!Next]_fam
    BY StepImplements
  <2>2. fam[g].status = "revoked"
    BY DEF FamilyOf
  <2>3. ASSUME NEW h \in Grant, Family!SignIn(h) \/ Family!Rotate(h) \/ Family!Revoke(h)
        PROVE  fam'[g] = fam[g]
    <3>1. fam[h].status # "revoked"
      BY <2>3 DEF Family!SignIn, Family!Rotate, Family!Revoke, Family!None
    <3>2. h # g
      BY <2>2, <3>1
    <3>3. \E rec : fam' = [fam EXCEPT ![h] = rec]
      <4>1. Family!SignIn(h) => fam' = [fam EXCEPT ![h] = [fam[h] EXCEPT !.status = "live"]]
        BY DEF Family!SignIn
      <4>2. Family!Rotate(h) =>
              fam' = [fam EXCEPT ![h] =
                 [ status |-> "live", current |-> fam'[h].current,
                   redeemed |-> fam[h].redeemed \cup ({fam[h].current} \ {0}) ]]
        BY DEF Family!Rotate
      <4>3. Family!Revoke(h) => fam' = [fam EXCEPT ![h] = [status |-> "revoked", current |-> 0, redeemed |-> {}]]
        BY DEF Family!Revoke
      <4> QED
        BY <2>3, <4>1, <4>2, <4>3
    <3> QED
      BY <3>2, <3>3
  <2>4. fam'[g] = fam[g]
    BY <2>1, <2>3 DEF Family!Next
  <2> QED
    BY <2>2, <2>4 DEF FamilyOf
<1> QED
  BY <1>1, Invariance, PTL DEF Spec, RevokedForGood

(* A family is revoked only while it is being refreshed, or because someone  *)
(* holds a superseded token of it.                                           *)
THEOREM RevocationIsReplayHolds == Spec => RevocationIsReplay
<1> DEFINE Step == \A g \in Grant :
      ~FlushFails /\ upstream[g].present /\ ~upstream'[g].present
        => \/ \E r \in TokenReq : InFlight(tokenReq[r].call) /\ tokenReq[r].grant = g
           \/ \E pair \in held : pair[1] = g /\ pair[2] < minted[g]
<1>1. IInv /\ [Next]_vars => [Step]_vars
  <2> SUFFICES ASSUME IInv, [Next]_vars, ~FlushFails, NEW g \in Grant,
                      upstream[g].present, ~upstream'[g].present
               PROVE  \/ \E r \in TokenReq : InFlight(tokenReq[r].call) /\ tokenReq[r].grant = g
                      \/ \E pair \in held : pair[1] = g /\ pair[2] < minted[g]
    OBVIOUS
  <2> USE DEF storeVars, callVars, envVars, histVars
  <2>0. /\ TypeOK /\ RotationInv /\ Ownership
        /\ upstream \in [Grant -> UpstreamToken] /\ disk = upstream
        /\ minted \in [Grant -> Nat]
        /\ \A r \in TokenReq : tokenReq[r].grant \in Grant /\ tokenReq[r].call \in Call
                               /\ tokenReq[r].call.sent \in Version
    BY DEF IInv, TypeOK, RotationInv, Mirrored, Rid, Call
  <2>1. \A h \in Grant : ~SignIn(h) /\ ~SignInEarlier(h) /\ ~RedeemCode(h)
    <3> TAKE h \in Grant
    <3>1. ~SignIn(h) /\ ~SignInEarlier(h)
      BY <2>0 DEF SignIn, SignInEarlier, StoreGrant
    <3>2. ~RedeemCode(h)
      BY <2>0, WithRidKeeps DEF RedeemCode
    <3> QED
      BY <3>1, <3>2
  <2>2. \A h \in Grant : ~SettleProactive(h)
    BY <2>0, UpdatedKeeps DEF SettleProactive
  <2>3. \A r \in TokenReq : ~CommitRotation(r)
    <3> SUFFICES ASSUME NEW r \in TokenReq, CommitRotation(r) PROVE FALSE
      OBVIOUS
    <3>1. PICK f \in Grant : f = tokenReq[r].grant
      BY <2>0
    <3> DEFINE new == Updated(f, tokenReq[r].call, tokenReq[r].call.sent)
    <3>2. new \in [Grant -> UpstreamToken]
      BY <2>0, UpdatedType
    <3>3. upstream' = WithRid(new, f, minted[f] + 1)
      BY <3>1 DEF CommitRotation
    <3>4. \A h \in Grant : new[h].present = upstream[h].present
      BY <2>0, UpdatedKeeps
    <3>5. \A h \in Grant : upstream'[h].present = upstream[h].present
      BY <3>2, <3>3, <3>4, WithRidKeeps
    <3> QED
      BY <3>5
  <2>4. ~Restart /\ \A r \in TokenReq : ~RestartMidCommit(r)
    <3>1. ~Restart
      BY <2>0 DEF Restart, RestartFrom
    <3>2. \A r \in TokenReq : ~RestartMidCommit(r)
      BY <2>0, UpdatedKeeps DEF RestartMidCommit, RestartFrom
    <3> QED
      BY <3>1, <3>2
  <2>5. upstream' # upstream
    OBVIOUS
  <2>6. PICK r \in TokenReq : PresentRefreshToken(r)
    BY <2>1, <2>2, <2>3, <2>4, <2>5
       DEF Next, TokenEndpoint, vars, CodeExpires, AbandonRotation, Depart, ResolveBearer, ServeStored, JoinRefresh,
           DeferredFlush, WikiServesToken, TokenCallFails, WikiServesProactive,
           ProactiveCallFails, WikiServes, Failing, Tick
  <2>7. PICK pair \in held, sameClient \in BOOLEAN :
          RevokeFamily(r, pair[1], pair[2], sameClient)
    BY <2>5, <2>6 DEF PresentRefreshToken, RefuseRefresh, ClaimRotation, vars
  <2>8. pair[1] = g /\ pair[2] \in Nat
    BY <2>0, <2>7 DEF RevokeFamily, TypeOK, Rid
  <2>9. g \in refreshing \/ pair[2] # upstream[g].rid
    BY <2>7, <2>8 DEF RevokeFamily, Claimable
  <2>10. upstream[g].rid = minted[g] /\ pair[2] <= minted[g]
    BY <2>0, <2>8 DEF RotationInv, LatestRidCurrent, Newest
  <2> QED
    BY <2>0, <2>8, <2>9, <2>10 DEF Ownership, OneOwnerPerClaim
<1> QED
  BY <1>1, Invariance, PTL DEF Spec, RevocationIsReplay

-----------------------------------------------------------------------------
(* Wikis and tokens *)

(* A grant's tokens go to the wiki that issued them: a record that stands,   *)
(* in memory or in the file, names the wiki of its sign-in or none, and      *)
(* whatever is asked for or served was looked up under the same wiki, which  *)
(* only a restart changes.                                                   *)
NameOf(g) == IF home[g].named THEN home[g].wiki ELSE NoWiki

RecordsNamed ==
    \A g \in Grant :
      /\ upstream[g].present => upstream[g].wiki = NameOf(g)
      /\ disk[g].present => disk[g].wiki = NameOf(g)

Admitted(b) == bearerReq[b].answer \in {"waiting", "served"}

HomeInv ==
    /\ RecordsNamed
    /\ SentToItsWiki
    /\ \A b \in BearerReq : Admitted(b) => code[bearerReq[b].grant] # "none"

(* What a step that admits nobody and sends nothing leaves of all that.      *)
RecordsKept ==
    \A h \in Grant :
      /\ upstream'[h].present => upstream[h].present
      /\ upstream'[h].wiki = upstream[h].wiki
      /\ \/ disk'[h] = disk[h]
         \/ /\ disk'[h].present => upstream[h].present
            /\ disk'[h].wiki = upstream[h].wiki

BearersKept ==
    \A b \in BearerReq : Admitted(b)' => Admitted(b) /\ bearerReq'[b].grant = bearerReq[b].grant

LEMMA IssuedIsAtHome ==
    ASSUME TypeOK, RecordsNamed, NEW g \in Grant, upstream[g].present, IssuedFor(g)
    PROVE  AtHome(g)
BY ConstantsAssumption DEF TypeOK, RecordsNamed, NameOf, IssuedFor, AtHome

LEMMA RecordsStayNamed ==
    ASSUME RecordsNamed, RecordsKept, UNCHANGED home
    PROVE  RecordsNamed'
BY DEF RecordsNamed, RecordsKept, NameOf

LEMMA HomeKept ==
    ASSUME TypeOK, HomeInv, RecordsKept, BearersKept, SlotsKept, UNCHANGED <<wikiKey, home>>,
           \A h \in Grant : /\ InFlight(proactive'[h]) => InFlight(proactive[h])
                            /\ code'[h] = "none" => code[h] = "none"
    PROVE  HomeInv'
<1>1. RecordsNamed'
  BY RecordsStayNamed DEF HomeInv
<1>2. \A h : AtHome(h)' = AtHome(h)
  BY DEF AtHome
<1>3. SentToItsWiki'
  BY <1>2 DEF HomeInv, SentToItsWiki, SlotsKept, BearersKept, Admitted
<1>4. \A b \in BearerReq : Admitted(b)' => code'[bearerReq'[b].grant] # "none"
  BY DEF HomeInv, BearersKept, TypeOK
<1> QED
  BY <1>1, <1>3, <1>4 DEF HomeInv, Admitted

LEMMA StepHomeInv == TypeOK /\ TypeOK' /\ Begun /\ Ownership /\ HomeInv /\ [Next]_vars => HomeInv'
<1> SUFFICES ASSUME TypeOK, TypeOK', Begun, Ownership, HomeInv, [Next]_vars PROVE HomeInv'
  OBVIOUS
<1> USE DEF storeVars, callVars, envVars, histVars
<1>0. /\ upstream \in [Grant -> UpstreamToken]
      /\ \A r \in TokenReq : tokenReq[r].grant \in Grant /\ tokenReq[r].call \in Call
                             /\ tokenReq[r].call.sent \in Version
  BY DEF TypeOK, Call
<1>1. ASSUME UNCHANGED <<wikiKey, home, tokenReq, bearerReq>>, RecordsKept,
             \A h \in Grant : /\ InFlight(proactive'[h]) => InFlight(proactive[h])
                              /\ code'[h] = "none" => code[h] = "none"
      PROVE  HomeInv'
  BY <1>1, HomeKept DEF SlotsKept, BearersKept, Admitted
<1>2. ASSUME disk' = upstream' \/ disk' = disk,
             \A h \in Grant : /\ upstream'[h].present => upstream[h].present
                              /\ upstream'[h].wiki = upstream[h].wiki
      PROVE  RecordsKept
  BY <1>2 DEF RecordsKept
<1>3. ASSUME NEW g \in Grant, NEW recorded, recorded \in Wiki \cup {NoWiki}, StoreGrant(g, recorded),
             recorded = wikiKey \/ recorded = NoWiki
      PROVE  HomeInv'
  <2>1. /\ \A h \in Grant : h # g => upstream'[h] = upstream[h] /\ home'[h] = home[h]
        /\ upstream'[g].wiki = recorded
        /\ home'[g] = [wiki |-> wikiKey, named |-> recorded # NoWiki]
        /\ code[g] = "none" /\ \A h \in Grant : code'[h] = "none" => code[h] = "none"
        /\ disk' = upstream' \/ disk' = disk
        /\ UNCHANGED <<tokenReq, bearerReq, proactive, wikiKey>>
    BY <1>3, <1>0 DEF StoreGrant, Flush, TypeOK
  <2>2. /\ ~disk[g].present /\ ~InFlight(proactive[g])
        /\ \A r \in TokenReq : InFlight(tokenReq[r].call) => tokenReq[r].grant # g
        /\ \A b \in BearerReq : Admitted(b) => bearerReq[b].grant # g
    BY <2>1 DEF Begun, Ownership, Claimed, HomeInv
  <2>3. \A h \in Grant : h # g => NameOf(h)' = NameOf(h) /\ AtHome(h)' = AtHome(h)
    BY <2>1 DEF NameOf, AtHome
  <2>4. NameOf(g)' = recorded
    <3>1. wikiKey # NoWiki
      BY ConstantsAssumption DEF TypeOK
    <3>2. CASE recorded = wikiKey
      <4>1. home'[g] = [wiki |-> wikiKey, named |-> TRUE]
        BY <2>1, <3>1, <3>2
      <4> QED
        BY <3>2, <4>1 DEF NameOf
    <3>3. CASE recorded = NoWiki
      <4>1. home'[g] = [wiki |-> wikiKey, named |-> FALSE]
        BY <2>1, <3>1, <3>3
      <4> QED
        BY <3>3, <4>1 DEF NameOf
    <3> QED
      BY <1>3, <3>2, <3>3
  <2>5. RecordsNamed'
    BY <2>1, <2>2, <2>3, <2>4 DEF RecordsNamed, HomeInv
  <2>6. /\ \A r \in TokenReq : InFlight(tokenReq[r].call) => AtHome(tokenReq[r].grant)'
        /\ \A h \in Grant : InFlight(proactive[h]) => AtHome(h)'
    BY <1>0, <2>1, <2>2, <2>3 DEF HomeInv, SentToItsWiki
  <2>7. \A b \in BearerReq : Admitted(b) => AtHome(bearerReq[b].grant)'
    <3> SUFFICES ASSUME NEW b \in BearerReq, Admitted(b) PROVE AtHome(bearerReq[b].grant)'
      OBVIOUS
    <3>1. bearerReq[b].grant \in Grant \ {g} /\ AtHome(bearerReq[b].grant)
      BY <2>2 DEF HomeInv, SentToItsWiki, Admitted, TypeOK
    <3> QED
      BY <2>1, <2>3, <3>1
  <2>8. SentToItsWiki'
    BY <2>1, <2>6, <2>7 DEF SentToItsWiki, Admitted, AtHome
  <2>9. \A b \in BearerReq : Admitted(b)' => code'[bearerReq'[b].grant] # "none"
    BY <2>1 DEF HomeInv, Admitted, TypeOK
  <2> QED
    BY <2>5, <2>8, <2>9 DEF HomeInv, Admitted
<1>4. ASSUME NEW g \in Grant, RedeemCode(g) PROVE HomeInv'
  <2>1. \A h \in Grant : upstream'[h].present = upstream[h].present /\ upstream'[h].wiki = upstream[h].wiki
    BY <1>0, <1>4, WithRidKeeps DEF RedeemCode
  <2>2. /\ disk' = upstream' \/ disk' = disk
        /\ UNCHANGED <<wikiKey, home, tokenReq, bearerReq, proactive>>
        /\ \A h \in Grant : code'[h] = "none" => code[h] = "none"
    BY <1>4 DEF RedeemCode, Flush, TypeOK
  <2> QED
    BY <1>1, <1>2, <2>1, <2>2
<1>5. ASSUME NEW g \in Grant, SettleProactive(g) PROVE HomeInv'
  <2>1. \A h \in Grant : InFlight(proactive'[h]) => InFlight(proactive[h])
    BY <1>5, CallPhases DEF SettleProactive, TypeOK
  <2>2. \A h \in Grant : upstream'[h].present = upstream[h].present /\ upstream'[h].wiki = upstream[h].wiki
    BY <1>5, UpdatedKeeps DEF SettleProactive
  <2>3. UNCHANGED <<wikiKey, home, tokenReq, code>> /\ (disk' = upstream' \/ disk' = disk)
    BY <1>5 DEF SettleProactive, Flush
  <2>4. ASSUME NEW b \in BearerReq, bearerReq'[b] # bearerReq[b]
        PROVE  Admitted(b) /\ bearerReq'[b].grant = bearerReq[b].grant
    <3>1. bearerReq[b] \in [grant: Grant, answer: Answer, access: Version]
      BY DEF TypeOK
    <3>2. Waiting(b) /\ bearerReq'[b] = Answered(bearerReq[b], proactive[g])
      BY <1>5, <2>4 DEF SettleProactive
    <3> QED
      BY <3>1, <3>2 DEF Waiting, Answered, Admitted
  <2>5. BearersKept
    BY <2>4 DEF BearersKept, Admitted
  <2> QED
    BY <1>2, <2>1, <2>2, <2>3, <2>5, HomeKept DEF SlotsKept
<1>6. ASSUME NEW r \in TokenReq, PresentRefreshToken(r) PROVE HomeInv'
  <2>1. PICK pair \in held, sameClient \in BOOLEAN :
           \/ RefuseRefresh(r, pair[1], pair[2], sameClient)
           \/ RevokeFamily(r, pair[1], pair[2], sameClient)
           \/ ClaimRotation(r, pair[1], pair[2], sameClient)
    BY <1>6 DEF PresentRefreshToken
  <2>2. pair[1] \in Grant
    BY DEF TypeOK
  <2>3. CASE RefuseRefresh(r, pair[1], pair[2], sameClient)
    BY <1>1, <1>2, <2>3 DEF RefuseRefresh, vars
  <2>4. CASE RevokeFamily(r, pair[1], pair[2], sameClient)
    <3>1. upstream' = [upstream EXCEPT ![pair[1]] = Absent(upstream[pair[1]])]
      BY <2>4 DEF RevokeFamily
    <3>2. /\ ~Absent(upstream[pair[1]]).present
          /\ Absent(upstream[pair[1]]).wiki = upstream[pair[1]].wiki
      BY <1>0, <2>2 DEF Absent, UpstreamToken
    <3>3. \A h \in Grant : (upstream'[h].present => upstream[h].present) /\ upstream'[h].wiki = upstream[h].wiki
      BY <1>0, <2>2, <3>1, <3>2
    <3> QED
      BY <1>1, <1>2, <2>4, <3>3 DEF RevokeFamily, Flush
  <2>5. CASE ClaimRotation(r, pair[1], pair[2], sameClient)
    <3>1. /\ IssuedFor(pair[1]) /\ upstream[pair[1]].present
          /\ UNCHANGED <<upstream, disk, proactive, bearerReq, wikiKey, home, code>>
      BY <2>5 DEF ClaimRotation, Refusable
    <3>2. /\ tokenReq'[r].grant = pair[1]
          /\ \A q \in TokenReq : q # r => tokenReq'[q] = tokenReq[q]
      BY <2>5 DEF ClaimRotation, TypeOK
    <3>3. AtHome(pair[1])
      BY <2>2, <3>1, IssuedIsAtHome DEF HomeInv
    <3>4. SentToItsWiki'
      BY <3>1, <3>2, <3>3 DEF HomeInv, SentToItsWiki, AtHome
    <3> QED
      BY <3>1, <3>4 DEF HomeInv, RecordsNamed, NameOf, Admitted
  <2> QED
    BY <2>1, <2>3, <2>4, <2>5
<1>7. ASSUME NEW r \in TokenReq, CommitRotation(r) PROVE HomeInv'
  <2> DEFINE new == Updated(tokenReq[r].grant, tokenReq[r].call, tokenReq[r].call.sent)
  <2>1. new \in [Grant -> UpstreamToken]
    BY <1>0, UpdatedType
  <2>2. \A h \in Grant : new[h].present = upstream[h].present /\ new[h].wiki = upstream[h].wiki
    BY <1>0, UpdatedKeeps
  <2>3. /\ upstream' = WithRid(new, tokenReq[r].grant, minted[tokenReq[r].grant] + 1)
        /\ disk' = upstream' \/ disk' = disk \/ disk' = new
    BY <1>7 DEF CommitRotation, Flush
  <2> HIDE DEF new
  <2>4. \A h \in Grant : upstream'[h].present = upstream[h].present /\ upstream'[h].wiki = upstream[h].wiki
    BY <1>0, <2>1, <2>2, <2>3, WithRidKeeps
  <2>5. UNCHANGED <<wikiKey, home, proactive, bearerReq, code>>
    BY <1>7 DEF CommitRotation
  <2>6. /\ ~InFlight(tokenReq'[r].call)
        /\ \A q \in TokenReq : q # r => tokenReq'[q] = tokenReq[q]
    BY <1>7, FreedSlot DEF CommitRotation
  <2>7. RecordsNamed'
    BY <2>2, <2>3, <2>4, <2>5, RecordsStayNamed DEF RecordsKept, HomeInv
  <2>8. SentToItsWiki'
    BY <1>0, <2>5, <2>6 DEF HomeInv, SentToItsWiki, AtHome
  <2> QED
    BY <2>5, <2>7, <2>8 DEF HomeInv, Admitted
<1>8. ASSUME NEW r \in TokenReq, AbandonRotation(r) PROVE HomeInv'
  BY <1>8, FreedSlot DEF AbandonRotation, HomeInv, RecordsNamed, NameOf, SentToItsWiki, AtHome, Admitted
<1>9. ASSUME NEW b \in BearerReq, NEW g \in Grant, ResolveBearer(b, g) PROVE HomeInv'
  <2>1. /\ IssuedFor(g) /\ upstream[g].present
        /\ \A h \in Grant : h # g => proactive'[h] = proactive[h]
        /\ UNCHANGED <<upstream, disk, tokenReq, wikiKey, home, code>>
        /\ bearerReq'[b].grant = g /\ \A x \in BearerReq : x # b => bearerReq'[x] = bearerReq[x]
    BY <1>9 DEF ResolveBearer, ServeStored, JoinRefresh, Usable, TypeOK
  <2>2. AtHome(g) /\ code[g] # "none"
    BY <2>1, IssuedIsAtHome DEF HomeInv, Begun
  <2>3. SentToItsWiki'
    BY <2>1, <2>2 DEF HomeInv, SentToItsWiki, AtHome
  <2> QED
    BY <2>1, <2>2, <2>3 DEF HomeInv, RecordsNamed, NameOf, Admitted
<1>10. ASSUME NEW onDisk, RestartFrom(onDisk),
              \A h \in Grant : onDisk[h].present => onDisk[h].wiki = NameOf(h)
       PROVE  HomeInv'
  <2>1. \A b \in BearerReq : ~Admitted(b)'
    BY <1>10 DEF RestartFrom, NoBearer, Admitted
  <2>2. RecordsNamed'
    BY <1>10 DEF RestartFrom, RecordsNamed, NameOf
  <2>3. SentToItsWiki'
    BY <1>10, <2>1, CallPhases DEF RestartFrom, SentToItsWiki, Admitted
  <2> QED
    BY <2>1, <2>2, <2>3 DEF HomeInv, Admitted
<1>11. ASSUME Restart PROVE HomeInv'
  BY <1>10, <1>11 DEF Restart, HomeInv, RecordsNamed
<1>12. ASSUME NEW r \in TokenReq, RestartMidCommit(r) PROVE HomeInv'
  <2>1. \A h \in Grant : LET new == Updated(tokenReq[r].grant, tokenReq[r].call, tokenReq[r].call.sent)
                         IN  new[h].present => new[h].wiki = NameOf(h)
    BY <1>0, UpdatedKeeps DEF HomeInv, RecordsNamed
  <2> QED
    BY <1>10, <1>12, <2>1 DEF RestartMidCommit
<1>13. ASSUME NEW r \in TokenReq, WikiServesToken(r) \/ TokenCallFails(r) PROVE HomeInv'
  <2>1. UNCHANGED <<wikiKey, home, bearerReq, proactive, code, upstream, disk>>
    BY <1>13 DEF WikiServesToken, WikiServes, TokenCallFails, Failing
  <2> QED
    BY <1>2, <1>13, <2>1, WireKeepsSlots, HomeKept DEF BearersKept, Admitted
<1>14. ASSUME NEW g \in Grant, WikiServesProactive(g) \/ ProactiveCallFails(g) PROVE HomeInv'
  <2>1. /\ InFlight(proactive[g]) /\ \A h \in Grant : h # g => proactive'[h] = proactive[h]
        /\ UNCHANGED <<wikiKey, home, bearerReq, tokenReq, code, upstream, disk>>
    BY <1>14 DEF WikiServesProactive, WikiServes, ProactiveCallFails, Failing, InFlight, TypeOK
  <2> QED
    BY <1>1, <1>2, <2>1
<1>15. ASSUME NEW b \in BearerReq, Depart(b) PROVE HomeInv'
  <2>1. BearersKept
    BY <1>15 DEF Depart, BearersKept, Admitted, NoBearer, TypeOK
  <2> QED
    BY <1>2, <1>15, <2>1, HomeKept DEF Depart, SlotsKept
<1>16. ASSUME (\E g \in Grant : CodeExpires(g) \/ Tick(g)) \/ DeferredFlush \/ UNCHANGED vars
       PROVE  HomeInv'
  <2>1. /\ UNCHANGED <<upstream, tokenReq, bearerReq, proactive, wikiKey, home>>
        /\ disk' = upstream' \/ disk' = disk
        /\ \A h \in Grant : code'[h] = "none" => code[h] = "none"
    BY <1>16 DEF CodeExpires, Tick, DeferredFlush, Flush, vars, TypeOK
  <2> QED
    BY <1>1, <1>2, <2>1
<1>17. ASSUME NEW g \in Grant, SignIn(g) \/ SignInEarlier(g) PROVE HomeInv'
  BY <1>3, <1>17 DEF SignIn, SignInEarlier, TypeOK
<1> QED
  BY <1>4, <1>5, <1>6, <1>7, <1>8, <1>9, <1>11, <1>12, <1>13, <1>14, <1>15, <1>16, <1>17
     DEF Next, TokenEndpoint

(* No token goes to a wiki other than the one that issued it, refreshed or   *)
(* used, whichever wiki a restart made the server the proxy of, with a store *)
(* file that can be written or not, unless its record names no wiki          *)
(* (issuedFor).                                                              *)
THEOREM SentToItsWikiHolds == Spec => []SentToItsWiki
<1>1. Init => HomeInv
  BY CallPhases DEF Init, HomeInv, RecordsNamed, SentToItsWiki, Admitted, NoBearer
<1>2. IInv /\ IInv' /\ HomeInv /\ [Next]_vars => HomeInv'
  BY StepHomeInv DEF IInv
<1>3. HomeInv => SentToItsWiki
  BY DEF HomeInv
<1> QED
  BY <1>1, <1>2, <1>3, Invariance, PTL DEF Spec

(* An answer on its way brings an access token that is not near its expiry,  *)
(* for time does not pass while an answer with the oldest live token waits.  *)
ClockInv ==
    \A g \in Grant :
      /\ clock[g].expired <= clock[g].skewed /\ clock[g].skewed <= wiki[g].access
      /\ code[g] = "none" => wiki[g].access = 0
      /\ proactive[g].state = "ok" => proactive[g].access > clock[g].skewed

LEMMA GrantedNewer ==
    ASSUME TypeOK, NEW g \in Grant, NEW c \in Call, c.state = "sent"
    PROVE  /\ Granted(g).access = wiki[g].access + 1
           /\ Reply(g, c).state = "ok" => Accepts(g, c) /\ Reply(g, c).access = wiki[g].access + 1
BY DEF Granted, Reply, Call

LEMMA StepClockInv == TypeOK /\ TypeOK' /\ Begun /\ Ownership /\ ClockInv /\ [Next]_vars => ClockInv'
<1> SUFFICES ASSUME TypeOK, TypeOK', Begun, Ownership, ClockInv, [Next]_vars PROVE ClockInv'
  OBVIOUS
<1> USE DEF storeVars, callVars, envVars, histVars
<1>0. /\ wiki \in [Grant -> [access: Nat, refresh: Nat]]
      /\ clock \in [Grant -> [skewed: Nat, expired: Nat]]
      /\ proactive \in [Grant -> Call]
      /\ \A h \in Grant : proactive[h].access \in Nat
      /\ \A r \in TokenReq : tokenReq[r].grant \in Grant /\ tokenReq[r].call \in Call
  BY DEF TypeOK, Version, Call
<1>1. ASSUME UNCHANGED <<clock, wiki>>,
             \A h \in Grant : /\ code'[h] = "none" => code[h] = "none"
                              /\ proactive'[h].state = "ok" => proactive'[h] = proactive[h]
      PROVE  ClockInv'
  BY <1>0, <1>1 DEF ClockInv
<1>2. ASSUME NEW g \in Grant, NEW recorded, recorded \in Wiki \cup {NoWiki},
              StoreGrant(g, recorded) PROVE ClockInv'
  <2>1. /\ \A h \in Grant : h # g => wiki'[h] = wiki[h] /\ code'[h] = code[h]
        /\ wiki'[g].access = 1 /\ code'[g] # "none" /\ code[g] = "none"
        /\ UNCHANGED <<clock, proactive>>
    BY <1>0, <1>2 DEF StoreGrant, TypeOK
  <2> QED
    BY <1>0, <2>1 DEF ClockInv
<1>3. ASSUME \/ \E g \in Grant : RedeemCode(g) \/ CodeExpires(g)
             \/ \E r \in TokenReq : CommitRotation(r) \/ AbandonRotation(r)
             \/ \E b \in BearerReq : Depart(b)
             \/ DeferredFlush \/ UNCHANGED vars
      PROVE  ClockInv'
  <2>1. /\ UNCHANGED <<clock, wiki, proactive>>
        /\ \A h \in Grant : code'[h] = "none" => code[h] = "none"
    BY <1>3 DEF RedeemCode, CodeExpires, CommitRotation, AbandonRotation, Depart, DeferredFlush, vars, TypeOK
  <2> QED
    BY <1>1, <2>1
<1>4. ASSUME NEW g \in Grant, SettleProactive(g) PROVE ClockInv'
  <2>1. \A h \in Grant : proactive'[h].state = "ok" => proactive'[h] = proactive[h]
    BY <1>0, <1>4 DEF SettleProactive, NoCall
  <2> QED
    BY <1>1, <1>4, <2>1 DEF SettleProactive
<1>5. ASSUME NEW r \in TokenReq, PresentRefreshToken(r) PROVE ClockInv'
  <2>1. UNCHANGED <<clock, wiki, proactive, code>>
    BY <1>5 DEF PresentRefreshToken, RefuseRefresh, RevokeFamily, ClaimRotation, vars
  <2> QED
    BY <1>1, <2>1
<1>6. ASSUME NEW b \in BearerReq, NEW g \in Grant, ResolveBearer(b, g) PROVE ClockInv'
  <2>1. \A h \in Grant : proactive'[h].state = "ok" => proactive'[h] = proactive[h]
    BY <1>0, <1>6 DEF ResolveBearer, ServeStored, JoinRefresh, NewCall, NoCall
  <2> QED
    BY <1>1, <1>6, <2>1 DEF ResolveBearer, ServeStored, JoinRefresh
<1>7. ASSUME NEW onDisk, RestartFrom(onDisk) PROVE ClockInv'
  <2>1. \A h \in Grant : proactive'[h].state # "ok" /\ (code'[h] = "none" => code[h] = "none")
    BY <1>7 DEF RestartFrom, NoCall
  <2> QED
    BY <1>1, <1>7, <2>1 DEF RestartFrom
<1>8. ASSUME Restart \/ \E r \in TokenReq : RestartMidCommit(r) PROVE ClockInv'
  BY <1>7, <1>8 DEF Restart, RestartMidCommit
<1>9. ASSUME NEW g \in Grant, NEW c \in Call, WikiServes(g, c), code[g] # "none",
             \A h \in Grant : proactive'[h].state = "ok" =>
               proactive'[h] = proactive[h] \/ (h = g /\ proactive'[h] = Reply(g, c))
      PROVE  ClockInv'
  <2>1. /\ c.state = "sent" /\ UNCHANGED <<clock, code>>
        /\ \A h \in Grant : h # g => wiki'[h] = wiki[h]
        /\ wiki'[g].access = IF Accepts(g, c) THEN wiki[g].access + 1 ELSE wiki[g].access
    BY <1>0, <1>9, GrantedNewer DEF WikiServes
  <2>2. \A h \in Grant : wiki[h].access \in Nat /\ clock[h].skewed \in Nat /\ clock[h].expired \in Nat
    BY <1>0
  <2>3. \A h \in Grant : wiki'[h].access >= wiki[h].access
    BY <2>1, <2>2
  <2>4. Reply(g, c).state = "ok" => Reply(g, c).access > clock[g].skewed
    BY <2>1, <2>2, GrantedNewer DEF ClockInv
  <2>5. ASSUME NEW h \in Grant, proactive'[h].state = "ok" PROVE proactive'[h].access > clock'[h].skewed
    BY <1>9, <2>1, <2>4, <2>5 DEF ClockInv
  <2>6. ASSUME NEW h \in Grant
        PROVE  /\ clock'[h].expired <= clock'[h].skewed /\ clock'[h].skewed <= wiki'[h].access
               /\ code'[h] = "none" => wiki'[h].access = 0
    <3>1. wiki'[h].access \in Nat
      BY <2>1, <2>2
    <3> QED
      BY <1>9, <2>1, <2>2, <2>3, <3>1 DEF ClockInv
  <2> QED
    BY <2>5, <2>6 DEF ClockInv
<1>10. ASSUME NEW r \in TokenReq, WikiServesToken(r) PROVE ClockInv'
  <2>1. tokenReq[r].call.state = "sent"
    BY <1>10 DEF WikiServesToken, WikiServes
  <2>2. code[tokenReq[r].grant] # "none"
    BY <2>1 DEF Ownership, Claimed, InFlight
  <2> QED
    BY <1>0, <1>9, <1>10, <2>2 DEF WikiServesToken
<1>11. ASSUME NEW g \in Grant, WikiServesProactive(g) PROVE ClockInv'
  <2>1. proactive[g].state = "sent"
    BY <1>11 DEF WikiServesProactive, WikiServes
  <2>2. code[g] # "none"
    BY <2>1 DEF Begun, InFlight
  <2>3. /\ proactive'[g] = Reply(g, proactive[g])
        /\ \A h \in Grant : h # g => proactive'[h] = proactive[h]
    BY <1>0, <1>11 DEF WikiServesProactive
  <2>4. \A h \in Grant : proactive'[h].state = "ok" =>
          proactive'[h] = proactive[h] \/ (h = g /\ proactive'[h] = Reply(g, proactive[g]))
    BY <2>3
  <2>5. proactive[g] \in Call /\ WikiServes(g, proactive[g])
    BY <1>0, <1>11 DEF WikiServesProactive
  <2> QED
    BY <1>9, <2>2, <2>4, <2>5
<1>12. ASSUME NEW r \in TokenReq, TokenCallFails(r) PROVE ClockInv'
  <2>1. UNCHANGED <<clock, wiki, proactive, code>>
    BY <1>12 DEF TokenCallFails, Failing
  <2> QED
    BY <1>1, <2>1
<1>13. ASSUME NEW g \in Grant, ProactiveCallFails(g) PROVE ClockInv'
  <2>1. UNCHANGED <<clock, wiki, code>>
    BY <1>13 DEF ProactiveCallFails, Failing
  <2>2. \A h \in Grant : proactive'[h].state = "ok" => proactive'[h] = proactive[h]
    BY <1>0, <1>13 DEF ProactiveCallFails, Call
  <2> QED
    BY <1>1, <2>1, <2>2
<1>14. ASSUME NEW g \in Grant, Tick(g) PROVE ClockInv'
  <2>1. UNCHANGED <<wiki, proactive, code>> /\ \A h \in Grant : h # g => clock'[h] = clock[h]
    BY <1>0, <1>14 DEF Tick
  <2>2. \/ /\ clock[g].skewed < wiki[g].access
           /\ ~(proactive[g].state = "ok" /\ proactive[g].access = clock[g].skewed + 1)
           /\ clock'[g].skewed = clock[g].skewed + 1 /\ clock'[g].expired = clock[g].expired
        \/ /\ clock[g].expired < clock[g].skewed
           /\ clock'[g].expired = clock[g].expired + 1 /\ clock'[g].skewed = clock[g].skewed
    BY <1>0, <1>14 DEF Tick, OnTheWire
  <2>3. /\ wiki[g].access \in Nat /\ clock[g].skewed \in Nat /\ clock[g].expired \in Nat
        /\ proactive[g].access \in Nat
    BY <1>0
  <2>4. /\ clock'[g].expired <= clock'[g].skewed /\ clock'[g].skewed <= wiki[g].access
        /\ proactive[g].state = "ok" => proactive[g].access > clock'[g].skewed
    BY <2>2, <2>3 DEF ClockInv
  <2> QED
    BY <2>1, <2>4 DEF ClockInv
<1> QED
  BY <1>2, <1>3, <1>4, <1>5, <1>6, <1>8, <1>10, <1>11, <1>12, <1>13, <1>14, SignsIn DEF Next, TokenEndpoint

(* A /mcp request is served an expired access token only where there is no   *)
(* refresh token: the refreshed one is live when it arrives, the one read    *)
(* before a failed refresh is served only while it lives, and one stored     *)
(* with a refresh token only while it is not near its expiry                 *)
(* (resolveUpstreamBearer).                                                  *)
THEOREM ServesLiveTokenHolds == Spec => ServesLiveToken
<1> DEFINE Live(b, g) == \/ bearerReq'[b].access > clock[g].expired
                         \/ upstream[g].present /\ upstream[g].refresh = 0
           Step == \A b \in BearerReq :
             bearerReq'[b].answer = "served" /\ bearerReq[b].answer # "served"
               => Live(b, bearerReq'[b].grant)
<1>1. Init => ClockInv
  BY DEF Init, ClockInv, NoCall
<1>2. IInv /\ IInv' /\ ClockInv /\ [Next]_vars => ClockInv'
  BY StepClockInv DEF IInv
<1>3. IInv /\ ClockInv /\ [Next]_vars => [Step]_vars
  <2> SUFFICES ASSUME TypeOK, ClockInv, [Next]_vars, NEW b \in BearerReq,
                      bearerReq'[b].answer = "served", bearerReq[b].answer # "served"
               PROVE  Live(b, bearerReq'[b].grant)
    BY DEF IInv
  <2> USE DEF storeVars, callVars, envVars, histVars
  <2>1. /\ bearerReq \in [BearerReq -> [grant: Grant, answer: Answer, access: Version]]
        /\ \A g \in Grant : /\ upstream[g].access \in Nat /\ upstream[g].refresh \in Nat
                            /\ clock[g].expired \in Nat /\ clock[g].skewed \in Nat
                            /\ clock[g].expired <= clock[g].skewed
    BY DEF TypeOK, Version, UpstreamToken, ClockInv
  <2>2. bearerReq' # bearerReq
    OBVIOUS
  <2>3. \A x \in BearerReq : ~Depart(x)
    BY <2>1 DEF Depart, NoBearer
  <2>4. ~Restart /\ \A r \in TokenReq : ~RestartMidCommit(r)
    BY DEF Restart, RestartMidCommit, RestartFrom, NoBearer
  <2>5. \/ \E g \in Grant : SettleProactive(g)
        \/ \E x \in BearerReq, g \in Grant : ResolveBearer(x, g)
    BY <2>2, <2>3, <2>4
       DEF Next, TokenEndpoint, SignIn, SignInEarlier, StoreGrant, RedeemCode, CodeExpires,
           PresentRefreshToken, RefuseRefresh, RevokeFamily, ClaimRotation, CommitRotation,
           AbandonRotation, DeferredFlush, WikiServesToken, WikiServesProactive, WikiServes,
           TokenCallFails, ProactiveCallFails, Failing, Tick, vars
  <2>6. CASE \E g \in Grant : SettleProactive(g)
    <3>1. PICK g \in Grant : SettleProactive(g)
      BY <2>6
    <3>2. /\ bearerReq[b].grant = g /\ bearerReq'[b] = Answered(bearerReq[b], proactive[g])
          /\ Waiting(b)
      BY <2>1, <3>1 DEF SettleProactive
    <3>3. /\ proactive[g].access \in Nat /\ bearerReq[b].access \in Nat
          /\ bearerReq[b] \in [grant: Grant, answer: Answer, access: Version]
      BY <2>1, <3>1 DEF TypeOK, Version, Call
    <3>4. CASE proactive[g].state = "ok"
      BY <2>1, <3>2, <3>3, <3>4 DEF Answered, ClockInv
    <3>5. CASE proactive[g].state # "ok"
      BY <2>1, <3>2, <3>3, <3>5 DEF Answered
    <3> QED
      BY <3>4, <3>5
  <2>7. CASE \E x \in BearerReq, g \in Grant : ResolveBearer(x, g)
    <3>1. PICK x \in BearerReq, g \in Grant : ResolveBearer(x, g)
      BY <2>7
    <3>2. x = b
      BY <2>1, <3>1 DEF ResolveBearer, ServeStored, JoinRefresh
    <3>3. ServeStored(b, g)
      BY <2>1, <3>1, <3>2 DEF ResolveBearer, JoinRefresh
    <3>4. /\ bearerReq'[b].grant = g /\ bearerReq'[b].access = upstream[g].access
          /\ upstream[g].present /\ ~NeedsRefresh(g)
      BY <2>1, <3>3 DEF ServeStored, Usable
    <3> QED
      BY <2>1, <3>4 DEF NeedsRefresh
  <2> QED
    BY <2>5, <2>6, <2>7
<1> QED
  BY <1>1, <1>2, <1>3, Invariance, PTL DEF Spec, ServesLiveToken

-----------------------------------------------------------------------------
(* The stored refresh token *)

(* The calls to the wiki that are out for a grant: its proactive refresh,    *)
(* and those of token requests.                                              *)
ProactiveSlot == CHOOSE x : x \notin TokenReq
Slots == TokenReq \cup {ProactiveSlot}
CallAt(g, s) ==
    IF s = ProactiveSlot THEN proactive[g]
    ELSE IF tokenReq[s].grant = g THEN tokenReq[s].call ELSE NoCall

LEMMA SlotsApart == \A r \in TokenReq : r # ProactiveSlot
<1>1. \E x : x \notin TokenReq
  BY NoSetContainsEverything
<1> QED
  BY <1>1 DEF ProactiveSlot

(* What an answer brings to the store. *)
Fresh(g, c) ==
    IF Rotates(g) THEN c.refresh # 0 /\ c.refresh = wiki[g].refresh
    ELSE c.refresh = 0 /\ c.sent = wiki[g].refresh

(* Nothing in the proxy is newer than what the wiki issued. *)
Issued(g) ==
    /\ upstream[g].refresh <= wiki[g].access /\ wiki[g].refresh <= wiki[g].access
    /\ \A s \in Slots : CallAt(g, s).sent <= wiki[g].access /\ CallAt(g, s).refresh <= wiki[g].access

(* While the answer of a wiki that rotates is on its way, what the store     *)
(* holds and what other calls carry is behind it, so no second call is       *)
(* accepted; and with no answer on its way the store is up to date.          *)
Ahead(g, s) ==
    /\ upstream[g].refresh < wiki[g].refresh
    /\ \A t \in Slots : CallAt(g, t).state = "ok" => s = t
    /\ \A t \in Slots : CallAt(g, t).state = "sent" => CallAt(g, t).sent < wiki[g].refresh

UpToDate(g) ==
    /\ \A s \in Slots : CallAt(g, s).state = "ok" => Fresh(g, CallAt(g, s)) /\ (Rotates(g) => Ahead(g, s))
    /\ (\A s \in Slots : CallAt(g, s).state # "ok") => upstream[g].refresh = wiki[g].refresh

TokensOK(g) == Issued(g) /\ (upstream[g].present /\ g \notin unread => UpToDate(g))
TokensInv == \A g \in Grant : TokensOK(g)

LEMMA CallAtTyped ==
    ASSUME TypeOK, NEW g \in Grant, NEW s \in Slots
    PROVE  /\ CallAt(g, s) \in Call
           /\ CallAt(g, s).sent \in Nat /\ CallAt(g, s).refresh \in Nat
           /\ upstream[g].refresh \in Nat /\ wiki[g].refresh \in Nat /\ wiki[g].access \in Nat
<1>1. CallAt(g, s) \in Call
  BY CallTypes DEF CallAt, Slots, TypeOK
<1> QED
  BY <1>1 DEF Call, Version, TypeOK, UpstreamToken

(* What a step may do to one grant. *)

(* A call that is out stays as it is, or settles without an answer.          *)
Dwindles(g) ==
    \A s \in Slots :
      \/ CallAt(g, s)' = CallAt(g, s)
      \/ /\ CallAt(g, s)'.state \notin {"sent", "ok"}
         /\ CallAt(g, s)'.sent <= wiki[g].access /\ CallAt(g, s)'.refresh <= wiki[g].access
         /\ CallAt(g, s).state = "ok" => g \in unread'

(* The record keeps its refresh token, or is dropped.                        *)
RecordKept(g) ==
    /\ upstream'[g].present => upstream[g].present
    /\ upstream'[g].refresh = upstream[g].refresh \/ (~upstream'[g].present /\ upstream'[g].refresh = 0)

LEMMA GrantKept ==
    ASSUME TypeOK, NEW g \in Grant, TokensOK(g), RecordKept(g), Dwindles(g), wiki'[g] = wiki[g],
           unread \subseteq unread', home'[g] = home[g]
    PROVE  TokensOK(g)'
<1>1. wiki[g].access \in Nat /\ upstream[g].refresh \in Nat
  BY SlotsApart, CallAtTyped DEF Slots
<1>2. Issued(g)'
  BY <1>1 DEF TokensOK, Issued, RecordKept, Dwindles
<1>3. ASSUME upstream'[g].present, g \notin unread' PROVE UpToDate(g)'
  <2>1. UpToDate(g) /\ upstream'[g].refresh = upstream[g].refresh
    BY <1>3 DEF TokensOK, RecordKept
  <2>2. \A s \in Slots : CallAt(g, s)'.state \in {"sent", "ok"} => CallAt(g, s)' = CallAt(g, s)
    BY DEF Dwindles
  <2>3. \A s \in Slots : CallAt(g, s).state = "ok" => CallAt(g, s)' = CallAt(g, s)
    BY <1>3 DEF Dwindles
  <2>4. ASSUME NEW s \in Slots, CallAt(g, s)'.state = "ok"
        PROVE  Fresh(g, CallAt(g, s))' /\ (Rotates(g) => Ahead(g, s)')
    <3>1. CallAt(g, s)' = CallAt(g, s) /\ CallAt(g, s).state = "ok"
      BY <2>2, <2>4
    <3>2. Fresh(g, CallAt(g, s)) /\ (Rotates(g) => Ahead(g, s))
      BY <2>1, <3>1 DEF UpToDate
    <3>3. Fresh(g, CallAt(g, s))'
      BY <3>1, <3>2 DEF Rotates, Fresh
    <3>4. Rotates(g) => Ahead(g, s)'
      BY <2>1, <2>2, <3>2 DEF Ahead
    <3> QED
      BY <3>3, <3>4
  <2>5. (\A s \in Slots : CallAt(g, s)'.state # "ok") => upstream'[g].refresh = wiki'[g].refresh
    BY <2>1, <2>3 DEF UpToDate
  <2> QED
    BY <2>4, <2>5 DEF Rotates, UpToDate
<1> QED
  BY <1>2, <1>3 DEF TokensOK

(* A call goes out with the refresh token of the record.                     *)
LEMMA GrantSends ==
    ASSUME TypeOK, NEW g \in Grant, TokensOK(g), NEW s \in Slots, ~InFlight(CallAt(g, s)),
           CallAt(g, s)' = NewCall(upstream[g].refresh),
           \A t \in Slots : t # s => CallAt(g, t)' = CallAt(g, t),
           UNCHANGED <<upstream, wiki, home, unread>>
    PROVE  TokensOK(g)'
<1>1. /\ CallAt(g, s)'.state = "sent" /\ CallAt(g, s)'.sent = upstream[g].refresh
      /\ CallAt(g, s)'.refresh = 0 /\ CallAt(g, s).state = "none"
  BY DEF NewCall, NoCall, InFlight
<1>2. wiki[g].access \in Nat /\ upstream[g].refresh \in Nat
  BY CallAtTyped
<1>3. Issued(g)'
  BY <1>1, <1>2 DEF TokensOK, Issued
<1>4. ASSUME upstream[g].present, g \notin unread PROVE UpToDate(g)'
  <2>1. UpToDate(g)
    BY <1>4 DEF TokensOK
  <2>2. ASSUME NEW t \in Slots, CallAt(g, t)'.state = "ok"
        PROVE  Fresh(g, CallAt(g, t))' /\ (Rotates(g) => Ahead(g, t)')
    <3>1. t # s /\ CallAt(g, t)' = CallAt(g, t)
      BY <1>1, <2>2
    <3>2. Fresh(g, CallAt(g, t)) /\ (Rotates(g) => Ahead(g, t))
      BY <2>1, <2>2, <3>1 DEF UpToDate
    <3>3. Fresh(g, CallAt(g, t))'
      BY <3>1, <3>2 DEF Rotates, Fresh
    <3>4. Rotates(g) => Ahead(g, t)'
      BY <1>1, <3>1, <3>2 DEF Ahead
    <3> QED
      BY <3>3, <3>4
  <2>3. (\A t \in Slots : CallAt(g, t)'.state # "ok") => upstream'[g].refresh = wiki'[g].refresh
    BY <1>1, <2>1 DEF UpToDate
  <2> QED
    BY <2>2, <2>3 DEF Rotates, UpToDate
<1> QED
  BY <1>3, <1>4 DEF TokensOK

(* The wiki takes up a call: at most one for each refresh token it issued.   *)
LEMMA GrantServed ==
    ASSUME TypeOK, NEW g \in Grant, TokensOK(g), NEW s \in Slots, CallAt(g, s).state = "sent",
           CallAt(g, s)' = Reply(g, CallAt(g, s)),
           \A t \in Slots : t # s => CallAt(g, t)' = CallAt(g, t),
           wiki' = IF Accepts(g, CallAt(g, s)) THEN [wiki EXCEPT ![g] = Granted(g)] ELSE wiki,
           UNCHANGED <<upstream, home, unread>>
    PROVE  TokensOK(g)'
<1> DEFINE c == CallAt(g, s)
<1>1. c \in Call /\ wiki \in [Grant -> [access: Nat, refresh: Nat]]
  BY CallAtTyped DEF TypeOK, Version
<1>2. CASE ~Accepts(g, c)
  <2>1. /\ c'.state = "rejected" /\ c'.sent = c.sent /\ c'.refresh = c.refresh
    BY <1>1, <1>2 DEF Reply, Call
  <2>2. Dwindles(g)
    BY <2>1 DEF Dwindles, TokensOK, Issued
  <2> QED
    BY <1>2, <2>2, GrantKept DEF RecordKept
<1>3. CASE Accepts(g, c)
  <2>1. /\ wiki'[g].access = wiki[g].access + 1
        /\ wiki'[g].refresh = IF Rotates(g) THEN wiki[g].access + 1 ELSE wiki[g].refresh
        /\ c.sent = wiki[g].refresh
    BY <1>1, <1>3 DEF Granted, Accepts
  <2>2. /\ c'.state = "ok" /\ c'.sent = c.sent
        /\ c'.refresh = IF Rotates(g) THEN wiki[g].access + 1 ELSE 0
    BY <1>1, <1>3 DEF Reply, Granted, Call
  <2>3. /\ wiki[g].access \in Nat /\ wiki[g].refresh \in Nat /\ upstream[g].refresh \in Nat
        /\ \A t \in Slots : CallAt(g, t).sent \in Nat /\ CallAt(g, t).refresh \in Nat
    BY CallAtTyped
  <2> HIDE DEF c
  <2>4. Issued(g)'
    <3>1. /\ upstream[g].refresh <= wiki[g].access /\ wiki[g].refresh <= wiki[g].access
          /\ \A t \in Slots : CallAt(g, t).sent <= wiki[g].access /\ CallAt(g, t).refresh <= wiki[g].access
      BY DEF TokensOK, Issued
    <3>2. upstream'[g].refresh <= wiki'[g].access /\ wiki'[g].refresh <= wiki'[g].access
      BY <2>1, <2>3, <3>1
    <3>3. ASSUME NEW t \in Slots
          PROVE  CallAt(g, t)'.sent <= wiki'[g].access /\ CallAt(g, t)'.refresh <= wiki'[g].access
      <4>1. CASE t = s
        BY <2>1, <2>2, <2>3, <3>1, <4>1 DEF c
      <4>2. CASE t # s
        BY <2>1, <2>3, <3>1, <4>2
      <4> QED
        BY <4>1, <4>2
    <3> QED
      BY <3>2, <3>3 DEF Issued
  <2>5. ASSUME upstream[g].present, g \notin unread PROVE UpToDate(g)'
    <3>1. UpToDate(g)
      BY <2>5 DEF TokensOK
    <3>2. Rotates(g) => \A t \in Slots : CallAt(g, t).state # "ok"
      <4> SUFFICES ASSUME Rotates(g), NEW t \in Slots, CallAt(g, t).state = "ok" PROVE FALSE
        OBVIOUS
      <4>1. Ahead(g, t)
        BY <3>1 DEF UpToDate
      <4>2. c.sent < wiki[g].refresh
        BY <4>1 DEF Ahead, c
      <4> QED
        BY <2>1, <2>3, <4>2
    <3>3. ASSUME NEW t \in Slots, CallAt(g, t)'.state = "ok" PROVE Fresh(g, CallAt(g, t))'
      <4>1. CASE t = s
        BY <2>1, <2>2, <2>3, <4>1 DEF Rotates, Fresh, c
      <4>2. CASE t # s
        <5>1. CallAt(g, t)' = CallAt(g, t) /\ CallAt(g, t).state = "ok"
          BY <3>3, <4>2
        <5>2. ~Rotates(g) /\ Fresh(g, CallAt(g, t))
          BY <3>1, <3>2, <5>1 DEF UpToDate
        <5> QED
          BY <2>1, <5>1, <5>2 DEF Rotates, Fresh
      <4> QED
        BY <4>1, <4>2
    <3>4. ASSUME Rotates(g), NEW t \in Slots, CallAt(g, t)'.state = "ok" PROVE Ahead(g, t)'
      <4>1. \A x \in Slots : CallAt(g, x)'.state = "ok" => x = s
        BY <3>2, <3>4
      <4>2. upstream[g].refresh < wiki'[g].refresh
        BY <2>1, <2>3, <3>4 DEF TokensOK, Issued
      <4>3. ASSUME NEW x \in Slots, CallAt(g, x)'.state = "sent"
            PROVE  CallAt(g, x)'.sent < wiki'[g].refresh
        <5>1. x # s
          BY <2>2, <4>3 DEF c
        <5>2. CallAt(g, x)' = CallAt(g, x) /\ CallAt(g, x).sent <= wiki[g].access
          BY <5>1 DEF TokensOK, Issued
        <5> QED
          BY <2>1, <2>3, <3>4, <5>2
      <4> QED
        BY <3>4, <4>1, <4>2, <4>3 DEF Ahead
    <3>5. CallAt(g, s)'.state = "ok"
      BY <2>2 DEF c
    <3> QED
      BY <3>3, <3>4, <3>5 DEF Rotates, UpToDate
  <2> QED
    BY <2>4, <2>5 DEF TokensOK
<1> QED
  BY <1>2, <1>3

(* An answer is stored, or found no record to store it in. *)
LEMMA GrantStores ==
    ASSUME TypeOK, NEW g \in Grant, TokensOK(g), NEW s \in Slots, CallAt(g, s).state = "ok",
           CallAt(g, s)' = NoCall,
           \A t \in Slots : t # s => CallAt(g, t)' = CallAt(g, t),
           upstream'[g].present = upstream[g].present,
           upstream'[g].refresh = IF ~upstream[g].present THEN upstream[g].refresh
                                  ELSE IF CallAt(g, s).refresh # 0 THEN CallAt(g, s).refresh
                                  ELSE CallAt(g, s).sent,
           unread \subseteq unread', ~upstream[g].present => g \in unread', UNCHANGED <<wiki, home>>
    PROVE  TokensOK(g)'
<1>1. /\ NoCall.state = "none" /\ NoCall.sent = 0 /\ NoCall.refresh = 0
  BY DEF NoCall
<1>2. /\ wiki[g].access \in Nat /\ wiki[g].refresh \in Nat /\ upstream[g].refresh \in Nat
      /\ \A t \in Slots : CallAt(g, t).sent \in Nat /\ CallAt(g, t).refresh \in Nat
  BY CallAtTyped
<1>3. Issued(g)'
  BY <1>1, <1>2 DEF TokensOK, Issued
<1>4. ASSUME upstream'[g].present, g \notin unread' PROVE UpToDate(g)'
  <2>1. UpToDate(g) /\ Fresh(g, CallAt(g, s)) /\ (Rotates(g) => Ahead(g, s))
    BY <1>4 DEF TokensOK, UpToDate
  <2>2. upstream'[g].refresh = wiki'[g].refresh
    BY <1>4, <2>1 DEF Rotates, Fresh
  <2>3. ASSUME NEW t \in Slots, CallAt(g, t)'.state = "ok"
        PROVE  Fresh(g, CallAt(g, t))' /\ ~Rotates(g)
    <3>1. t # s /\ CallAt(g, t)' = CallAt(g, t)
      BY <1>1, <2>3
    <3>2. Fresh(g, CallAt(g, t)) /\ ~Rotates(g)
      BY <2>1, <2>3, <3>1 DEF UpToDate, Ahead
    <3> QED
      BY <3>1, <3>2 DEF Rotates, Fresh
  <2> QED
    BY <2>2, <2>3 DEF Rotates, UpToDate
<1> QED
  BY <1>3, <1>4 DEF TokensOK
(* What the helpers of the store do to the refresh token of a record. *)
LEMMA RefreshStored ==
    ASSUME TypeOK, NEW g \in Grant, NEW c \in Call, NEW h \in Grant
    PROVE  /\ Updated(g, c, c.sent)[h].present = upstream[h].present
           /\ Updated(g, c, c.sent)[h].refresh =
                IF h # g \/ ~upstream[h].present THEN upstream[h].refresh
                ELSE IF c.refresh # 0 THEN c.refresh ELSE c.sent
BY DEF Updated, TypeOK, UpstreamToken

LEMMA RidLeavesRefresh ==
    ASSUME NEW store \in [Grant -> UpstreamToken], NEW g \in Grant, NEW rid, NEW h \in Grant
    PROVE  /\ WithRid(store, g, rid)[h].present = store[h].present
           /\ WithRid(store, g, rid)[h].refresh = store[h].refresh
BY DEF WithRid, UpstreamToken

(* What setting one slot does to the calls that are out. *)
LEMMA TokenSlotSet ==
    ASSUME TypeOK, NEW r \in TokenReq, NEW x, tokenReq' = [tokenReq EXCEPT ![r] = x],
           UNCHANGED proactive, NEW h \in Grant
    PROVE  /\ CallAt(h, r)' = IF x.grant = h THEN x.call ELSE NoCall
           /\ \A t \in Slots : t # r => CallAt(h, t)' = CallAt(h, t)
<1>1. r # ProactiveSlot /\ tokenReq'[r] = x /\ \A q \in TokenReq : q # r => tokenReq'[q] = tokenReq[q]
  BY SlotsApart DEF TypeOK
<1> QED
  BY <1>1 DEF CallAt, Slots

LEMMA ProactiveSlotSet ==
    ASSUME TypeOK, NEW g \in Grant, NEW x, proactive' = [proactive EXCEPT ![g] = x],
           UNCHANGED tokenReq
    PROVE  /\ CallAt(g, ProactiveSlot)' = x
           /\ \A t \in Slots : t # ProactiveSlot => CallAt(g, t)' = CallAt(g, t)
           /\ \A h \in Grant, t \in Slots : h # g => CallAt(h, t)' = CallAt(h, t)
<1>1. proactive'[g] = x /\ \A h \in Grant : h # g => proactive'[h] = proactive[h]
  BY DEF TypeOK
<1> QED
  BY <1>1 DEF CallAt, Slots

LEMMA SlotCalls ==
    /\ ProactiveSlot \in Slots /\ TokenReq \subseteq Slots
    /\ \A h \in Grant : CallAt(h, ProactiveSlot) = proactive[h]
    /\ \A h \in Grant, r \in TokenReq :
         CallAt(h, r) = IF tokenReq[r].grant = h THEN tokenReq[r].call ELSE NoCall
    /\ NoCall.state = "none" /\ NoCall.sent = 0 /\ NoCall.refresh = 0
BY SlotsApart DEF CallAt, Slots, NoCall

LEMMA TokenSlotFreed ==
    ASSUME TypeOK, NEW r \in TokenReq, tokenReq' = [tokenReq EXCEPT ![r] = FreeRequest],
           UNCHANGED proactive, NEW h \in Grant
    PROVE  /\ CallAt(h, r)' = NoCall
           /\ \A t \in Slots : t # r => CallAt(h, t)' = CallAt(h, t)
<1>1. FreeRequest.call = NoCall
  BY DEF FreeRequest
<1> QED
  BY <1>1, TokenSlotSet

(* A grant a step has nothing to do with. *)
LEMMA GrantAside ==
    ASSUME TypeOK, NEW g \in Grant, TokensOK(g), upstream'[g] = upstream[g], wiki'[g] = wiki[g],
           unread \subseteq unread', home'[g] = home[g],
           \A s \in Slots : CallAt(g, s)' = CallAt(g, s)
    PROVE  TokensOK(g)'
BY GrantKept DEF RecordKept, Dwindles

(* A call that is over, or was never made, leaves its slot. *)
LEMMA GrantFrees ==
    ASSUME TypeOK, NEW g \in Grant, TokensOK(g), RecordKept(g), NEW s \in Slots,
           CallAt(g, s)' = NoCall, CallAt(g, s).state # "ok",
           \A t \in Slots : t # s => CallAt(g, t)' = CallAt(g, t),
           wiki'[g] = wiki[g], unread \subseteq unread', home'[g] = home[g]
    PROVE  TokensOK(g)'
<1>1. NoCall.state = "none" /\ NoCall.sent = 0 /\ NoCall.refresh = 0 /\ 0 <= wiki[g].access
  BY CallAtTyped, SlotCalls
<1>2. Dwindles(g)
  BY <1>1 DEF Dwindles
<1> QED
  BY <1>2, GrantKept
(* A restart: no call survives it, and a grant whose answer it cut off, or   *)
(* whose commit it cut in two, is one whose answer was never read.           *)
LEMMA RestartTokens ==
    ASSUME TypeOK, TokensInv, NEW onDisk, RestartFrom(onDisk),
           \A h \in Grant : \/ onDisk[h] = upstream[h]
                            \/ /\ h \in unread'
                               /\ onDisk[h].refresh <= wiki[h].access
    PROVE  TokensInv'
<1>1. \A h \in Grant, s \in Slots : CallAt(h, s)' = NoCall
  BY SlotsApart DEF RestartFrom, CallAt, Slots, FreeRequest
<1>2. UNCHANGED <<wiki, home>> /\ upstream' = onDisk /\ unread \subseteq unread'
  BY DEF RestartFrom, envVars
<1>3. \A h \in Grant, s \in Slots : CallAt(h, s).state = "ok" => h \in unread'
  <2> SUFFICES ASSUME NEW h \in Grant, NEW s \in Slots, CallAt(h, s).state = "ok" PROVE h \in unread'
    OBVIOUS
  <2>1. CASE s = ProactiveSlot
    BY <2>1, SlotCalls DEF RestartFrom
  <2>2. CASE s # ProactiveSlot
    <3>1. s \in TokenReq /\ tokenReq[s].grant = h /\ tokenReq[s].call.state = "ok"
      BY <2>2, SlotCalls DEF Slots
    <3> QED
      BY <3>1 DEF RestartFrom
  <2> QED
    BY <2>1, <2>2
<1> SUFFICES ASSUME NEW h \in Grant PROVE TokensOK(h)'
  BY DEF TokensInv
<1>4. TokensOK(h) /\ wiki[h].access \in Nat
  BY CallAtTyped, SlotCalls DEF TokensInv
<1>5. CASE onDisk[h] = upstream[h]
  <2>1. Dwindles(h)
    BY <1>1, <1>3, <1>4, SlotCalls DEF Dwindles
  <2> QED
    BY <1>2, <1>4, <1>5, <2>1, GrantKept DEF RecordKept
<1>6. CASE h \in unread' /\ onDisk[h].refresh <= wiki[h].access
  BY <1>1, <1>2, <1>4, <1>6, SlotCalls DEF TokensOK, Issued
<1> QED
  BY <1>5, <1>6

LEMMA StepTokensInv ==
    ASSUME TypeOK, TypeOK', Begun, Ownership, ClockInv, Mirrored, TokensInv, [Next]_vars
    PROVE  TokensInv'
<1> USE DEF storeVars, callVars, envVars, histVars
<1>0. /\ upstream \in [Grant -> UpstreamToken]
      /\ wiki \in [Grant -> [access: Nat, refresh: Nat]]
      /\ proactive \in [Grant -> Call]
      /\ \A r \in TokenReq : tokenReq[r].grant \in Grant /\ tokenReq[r].call \in Call
      /\ \A h \in Grant : TokensOK(h)
  BY DEF TypeOK, Version, TokensInv
<1>1. ASSUME UNCHANGED <<tokenReq, proactive, wiki, home, unread>>,
             \A h \in Grant : RecordKept(h)
      PROVE  TokensInv'
  <2>1. \A h \in Grant : Dwindles(h)
    BY <1>1 DEF Dwindles, CallAt
  <2> QED
    BY <1>0, <1>1, <2>1, GrantKept DEF TokensInv
<1>2. ASSUME NEW g \in Grant, NEW recorded, recorded \in Wiki \cup {NoWiki},
              StoreGrant(g, recorded) PROVE TokensInv'
  <2>1. PICK granted \in {0, 1} :
          /\ wiki' = [wiki EXCEPT ![g] = [access |-> 1, refresh |-> granted]]
          /\ upstream' = [upstream EXCEPT ![g] =
               [present |-> TRUE, access |-> 1, refresh |-> granted, rid |-> 0, wiki |-> recorded]]
    BY <1>2 DEF StoreGrant
  <2>2. UNCHANGED <<tokenReq, proactive, unread>> /\ \A h \in Grant, s \in Slots : CallAt(h, s)' = CallAt(h, s)
    BY <1>2 DEF StoreGrant, CallAt
  <2>3. \A h \in Grant : h # g => TokensOK(h)'
    <3>1. \A h \in Grant : h # g => home'[h] = home[h]
      BY <1>2 DEF StoreGrant
    <3> QED
      BY <1>0, <2>1, <2>2, <3>1, GrantAside
  <2>4. wiki[g].access = 0
    BY <1>2 DEF StoreGrant, ClockInv
  <2>5. \A s \in Slots : CallAt(g, s).state = "none"
    <3>1. ~InFlight(proactive[g]) /\ \A r \in TokenReq : InFlight(tokenReq[r].call) => tokenReq[r].grant # g
      BY <1>2 DEF StoreGrant, Begun, Ownership, Claimed
    <3> QED
      BY <3>1, SlotCalls DEF InFlight, Slots
  <2>6. wiki'[g].access = 1 /\ wiki'[g].refresh = granted /\ upstream'[g].refresh = granted
    BY <1>0, <2>1
  <2>7. \A s \in Slots : CallAt(g, s).sent = 0 /\ CallAt(g, s).refresh = 0
    BY <1>0, <2>4, CallAtTyped DEF TokensOK, Issued
  <2>8. Issued(g)'
    BY <2>2, <2>6, <2>7 DEF Issued
  <2>9. UpToDate(g)'
    BY <2>2, <2>5, <2>6 DEF UpToDate
  <2> QED
    BY <2>3, <2>8, <2>9 DEF TokensOK, TokensInv
<1>3. ASSUME NEW g \in Grant, RedeemCode(g) PROVE TokensInv'
  <2>1. \A h \in Grant : RecordKept(h)
    BY <1>0, <1>3, RidLeavesRefresh DEF RedeemCode, RecordKept
  <2> QED
    BY <1>1, <1>3, <2>1 DEF RedeemCode, MintPair
<1>4. ASSUME NEW g \in Grant, SettleProactive(g) PROVE TokensInv'
  <2> DEFINE c == proactive[g]
  <2>1. /\ \A h \in Grant, t \in Slots : h # g => CallAt(h, t)' = CallAt(h, t)
        /\ CallAt(g, ProactiveSlot)' = NoCall /\ CallAt(g, ProactiveSlot) = c
        /\ \A t \in Slots : t # ProactiveSlot => CallAt(g, t)' = CallAt(g, t)
    BY <1>4, ProactiveSlotSet, SlotCalls DEF SettleProactive
  <2>2. UNCHANGED <<wiki, home>> /\ unread \subseteq unread'
    BY <1>4 DEF SettleProactive
  <2>3. CASE c.state = "ok"
    <3>1. upstream' = Updated(g, c, c.sent) /\ (~upstream[g].present => g \in unread')
      BY <1>4, <2>3 DEF SettleProactive
    <3>2. c \in Call
      BY <1>0
    <3>3. \A h \in Grant : h # g => upstream'[h] = upstream[h]
      BY <1>0, <3>1 DEF Updated
    <3>4. /\ upstream'[g].present = upstream[g].present
          /\ upstream'[g].refresh = IF ~upstream[g].present THEN upstream[g].refresh
                                    ELSE IF c.refresh # 0 THEN c.refresh ELSE c.sent
      BY <3>1, <3>2, RefreshStored
    <3> HIDE DEF c
    <3>5. TokensOK(g)'
      BY <1>0, <2>1, <2>2, <2>3, <3>1, <3>4, SlotCalls, GrantStores
    <3>6. \A h \in Grant : h # g => TokensOK(h)'
      BY <1>0, <2>1, <2>2, <3>3, GrantAside
    <3> QED
      BY <3>5, <3>6 DEF TokensInv
  <2>4. CASE c.state # "ok"
    <3>1. UNCHANGED upstream
      BY <1>4, <2>4 DEF SettleProactive
    <3>2. RecordKept(g)
      BY <3>1 DEF RecordKept
    <3>3. TokensOK(g)'
      BY <1>0, <2>1, <2>2, <2>4, <3>2, SlotCalls, GrantFrees
    <3>4. \A h \in Grant : h # g => TokensOK(h)'
      BY <1>0, <2>1, <2>2, <3>1, GrantAside
    <3> QED
      BY <3>3, <3>4 DEF TokensInv
  <2> QED
    BY <2>3, <2>4
<1>5. ASSUME NEW r \in TokenReq, PresentRefreshToken(r) PROVE TokensInv'
  <2>1. PICK pair \in held, sameClient \in BOOLEAN :
           \/ RefuseRefresh(r, pair[1], pair[2], sameClient)
           \/ RevokeFamily(r, pair[1], pair[2], sameClient)
           \/ ClaimRotation(r, pair[1], pair[2], sameClient)
    BY <1>5 DEF PresentRefreshToken
  <2>2. pair[1] \in Grant
    BY DEF TypeOK
  <2>3. CASE RefuseRefresh(r, pair[1], pair[2], sameClient)
    BY <1>1, <2>3 DEF RefuseRefresh, RecordKept, vars
  <2>4. CASE RevokeFamily(r, pair[1], pair[2], sameClient)
    <3>1. upstream' = [upstream EXCEPT ![pair[1]] = Absent(upstream[pair[1]])]
      BY <2>4 DEF RevokeFamily
    <3>2. ~Absent(upstream[pair[1]]).present /\ Absent(upstream[pair[1]]).refresh = 0
      BY <1>0, <2>2 DEF Absent, UpstreamToken
    <3>3. \A h \in Grant : RecordKept(h)
      BY <1>0, <2>2, <3>1, <3>2 DEF RecordKept
    <3> QED
      BY <1>1, <2>4, <3>3 DEF RevokeFamily
  <2>5. CASE ClaimRotation(r, pair[1], pair[2], sameClient)
    <3> DEFINE g == pair[1]  x == [grant |-> g, rid |-> pair[2], call |-> NewCall(upstream[g].refresh)]
    <3>1. tokenReq' = [tokenReq EXCEPT ![r] = x] /\ UNCHANGED <<upstream, proactive, wiki, home, unread>>
      BY <2>5 DEF ClaimRotation
    <3>2. x.grant = g /\ x.call = NewCall(upstream[g].refresh)
      OBVIOUS
    <3> HIDE DEF x
    <3>3. ~InFlight(tokenReq[r].call) /\ r \in Slots
      BY <1>5, SlotCalls DEF PresentRefreshToken
    <3>4. \A h \in Grant : ~InFlight(CallAt(h, r)) /\ CallAt(h, r).state # "ok"
      BY <3>3, SlotCalls DEF InFlight
    <3>5. TokensOK(g)'
      BY <1>0, <2>2, <3>1, <3>2, <3>3, <3>4, TokenSlotSet, GrantSends
    <3>6. ASSUME NEW h \in Grant, h # g PROVE TokensOK(h)'
      <4>1. RecordKept(h) /\ wiki'[h] = wiki[h] /\ home'[h] = home[h] /\ unread \subseteq unread'
        BY <3>1 DEF RecordKept
      <4> QED
        BY <1>0, <3>1, <3>2, <3>3, <3>4, <3>6, <4>1, TokenSlotSet, GrantFrees
    <3> QED
      BY <3>5, <3>6 DEF TokensInv
  <2> QED
    BY <2>1, <2>3, <2>4, <2>5
<1>6. ASSUME NEW r \in TokenReq, CommitRotation(r) PROVE TokensInv'
  <2>0. PICK g \in Grant : g = tokenReq[r].grant
    BY <1>0
  <2> DEFINE c == tokenReq[r].call  new == Updated(g, c, c.sent)
  <2>1. /\ c.state = "ok" /\ upstream' = WithRid(new, g, minted[g] + 1)
        /\ tokenReq' = [tokenReq EXCEPT ![r] = FreeRequest] /\ UNCHANGED <<proactive, wiki, home>>
        /\ unread \subseteq unread' /\ (~upstream[g].present => g \in unread')
    BY <1>6, <2>0 DEF CommitRotation, Release
  <2>2. c \in Call /\ c.sent \in Version
    BY <1>0 DEF Call
  <2>3. new \in [Grant -> UpstreamToken]
    BY <2>2, UpdatedType
  <2>4. \A h \in Grant : /\ new[h].present = upstream[h].present
                         /\ new[h].refresh =
                              IF h # g \/ ~upstream[h].present THEN upstream[h].refresh
                              ELSE IF c.refresh # 0 THEN c.refresh ELSE c.sent
    BY <2>2, RefreshStored
  <2> HIDE DEF new
  <2>5. \A h \in Grant : upstream'[h].present = new[h].present /\ upstream'[h].refresh = new[h].refresh
    BY <2>1, <2>2, <2>3, RidLeavesRefresh
  <2>6. \A h \in Grant : /\ CallAt(h, r)' = NoCall
                         /\ \A t \in Slots : t # r => CallAt(h, t)' = CallAt(h, t)
    BY <2>1, TokenSlotFreed
  <2>7. r \in Slots /\ CallAt(g, r) = c /\ \A h \in Grant : h # g => CallAt(h, r) = NoCall
    BY <2>0, SlotCalls
  <2> HIDE DEF c
  <2>8. TokensOK(g)'
    BY <1>0, <2>1, <2>2, <2>4, <2>5, <2>6, <2>7, GrantStores
  <2>9. ASSUME NEW h \in Grant, h # g PROVE TokensOK(h)'
    <3>1. RecordKept(h)
      BY <2>4, <2>5, <2>9 DEF RecordKept
    <3>2. CallAt(h, r).state # "ok"
      BY <2>7, <2>9, SlotCalls
    <3> QED
      BY <1>0, <2>1, <2>6, <2>7, <3>1, <3>2, GrantFrees
  <2> QED
    BY <2>8, <2>9 DEF TokensInv
<1>7. ASSUME NEW r \in TokenReq, AbandonRotation(r) PROVE TokensInv'
  <2>1. /\ tokenReq[r].call.state # "ok" /\ tokenReq' = [tokenReq EXCEPT ![r] = FreeRequest]
        /\ UNCHANGED <<proactive, upstream, wiki, home, unread>> /\ r \in Slots
    BY <1>7, SlotCalls DEF AbandonRotation, Release
  <2> SUFFICES ASSUME NEW h \in Grant PROVE TokensOK(h)'
    BY DEF TokensInv
  <2>2. RecordKept(h) /\ wiki'[h] = wiki[h] /\ home'[h] = home[h] /\ unread \subseteq unread'
    BY <2>1 DEF RecordKept
  <2>3. CallAt(h, r)' = NoCall /\ \A t \in Slots : t # r => CallAt(h, t)' = CallAt(h, t)
    BY <2>1, TokenSlotFreed
  <2>4. CallAt(h, r).state # "ok"
    BY <2>1, SlotCalls
  <2> QED
    BY <1>0, <2>1, <2>2, <2>3, <2>4, GrantFrees
<1>8. ASSUME NEW b \in BearerReq, NEW g \in Grant, ResolveBearer(b, g) PROVE TokensInv'
  <2>1. UNCHANGED <<upstream, tokenReq, wiki, home, unread>>
    BY <1>8 DEF ResolveBearer, ServeStored, JoinRefresh
  <2>2. CASE ServeStored(b, g) \/ InFlight(proactive[g])
    <3>1. proactive' = proactive
      BY <1>8, <2>2 DEF ResolveBearer, ServeStored, JoinRefresh
    <3> QED
      BY <1>1, <2>1, <3>1 DEF RecordKept
  <2>3. CASE JoinRefresh(b, g) /\ ~InFlight(proactive[g])
    <3>1. proactive' = [proactive EXCEPT ![g] = NewCall(upstream[g].refresh)]
      BY <2>3 DEF JoinRefresh
    <3>2. ~InFlight(CallAt(g, ProactiveSlot)) /\ ProactiveSlot \in Slots
      BY <2>3, SlotCalls
    <3>3. TokensOK(g)'
      BY <1>0, <2>1, <3>1, <3>2, ProactiveSlotSet, GrantSends
    <3>4. \A h \in Grant : h # g => TokensOK(h)'
      BY <1>0, <2>1, <3>1, ProactiveSlotSet, GrantAside
    <3> QED
      BY <3>3, <3>4 DEF TokensInv
  <2> QED
    BY <1>8, <2>2, <2>3 DEF ResolveBearer
<1>9. ASSUME Restart PROVE TokensInv'
  BY <1>9, RestartTokens DEF Restart, Mirrored
<1>10. ASSUME NEW r \in TokenReq, RestartMidCommit(r) PROVE TokensInv'
  <2> DEFINE g == tokenReq[r].grant  c == tokenReq[r].call  new == Updated(g, c, c.sent)
  <2>1. c.state = "ok" /\ RestartFrom(new)
    BY <1>10 DEF RestartMidCommit
  <2>2. g \in unread'
    BY <2>1 DEF RestartFrom
  <2>3. g \in Grant /\ c \in Call
    BY <1>0
  <2>4. \A h \in Grant : h # g => new[h] = upstream[h]
    BY <1>0 DEF Updated
  <2>5. new[g].refresh <= wiki[g].access
    <3>1. new[g].refresh \in {upstream[g].refresh, c.refresh, c.sent}
      BY <2>3, RefreshStored
    <3>2. CallAt(g, r) = c /\ r \in Slots
      BY <2>3, SlotCalls
    <3>3. /\ upstream[g].refresh <= wiki[g].access
          /\ c.refresh <= wiki[g].access /\ c.sent <= wiki[g].access
      BY <1>0, <2>3, <3>2 DEF TokensOK, Issued
    <3> QED
      BY <3>1, <3>3
  <2> QED
    BY <2>1, <2>2, <2>4, <2>5, RestartTokens
<1>11. ASSUME NEW r \in TokenReq, WikiServesToken(r) PROVE TokensInv'
  <2>0. PICK g \in Grant : g = tokenReq[r].grant
    BY <1>0
  <2> DEFINE c == tokenReq[r].call  x == [tokenReq[r] EXCEPT !.call = Reply(g, c)]
  <2>1. /\ c.state = "sent" /\ tokenReq' = [tokenReq EXCEPT ![r] = x]
        /\ wiki' = IF Accepts(g, c) THEN [wiki EXCEPT ![g] = Granted(g)] ELSE wiki
        /\ UNCHANGED <<upstream, proactive, home, unread>>
    BY <1>11, <2>0 DEF WikiServesToken, WikiServes
  <2>2. r \in Slots /\ CallAt(g, r) = c /\ \A h \in Grant : h # g => CallAt(h, r) = NoCall
    BY <2>0, SlotCalls
  <2>3. x.grant = g /\ x.call = Reply(g, c)
    BY <2>0 DEF TypeOK
  <2> HIDE DEF x
  <2>4. \A h \in Grant : /\ CallAt(h, r)' = IF h = g THEN Reply(g, c) ELSE NoCall
                         /\ \A t \in Slots : t # r => CallAt(h, t)' = CallAt(h, t)
    BY <2>1, <2>3, TokenSlotSet
  <2> HIDE DEF c
  <2>5. TokensOK(g)'
    BY <1>0, <2>1, <2>2, <2>4, GrantServed
  <2>6. ASSUME NEW h \in Grant, h # g PROVE TokensOK(h)'
    <3>1. wiki'[h] = wiki[h]
      BY <1>0, <2>1, <2>6
    <3>2. \A t \in Slots : CallAt(h, t)' = CallAt(h, t)
      BY <2>2, <2>4, <2>6
    <3> QED
      BY <1>0, <2>1, <3>1, <3>2, GrantAside
  <2> QED
    BY <2>5, <2>6 DEF TokensInv
<1>12. ASSUME NEW g \in Grant, WikiServesProactive(g) PROVE TokensInv'
  <2> DEFINE c == proactive[g]
  <2>1. /\ c.state = "sent" /\ proactive' = [proactive EXCEPT ![g] = Reply(g, c)]
        /\ wiki' = IF Accepts(g, c) THEN [wiki EXCEPT ![g] = Granted(g)] ELSE wiki
        /\ UNCHANGED <<upstream, tokenReq, home, unread>>
    BY <1>0, <1>12 DEF WikiServesProactive, WikiServes
  <2>2. ProactiveSlot \in Slots /\ CallAt(g, ProactiveSlot) = c
    BY SlotCalls
  <2>3. /\ CallAt(g, ProactiveSlot)' = Reply(g, c)
        /\ \A t \in Slots : t # ProactiveSlot => CallAt(g, t)' = CallAt(g, t)
        /\ \A h \in Grant, t \in Slots : h # g => CallAt(h, t)' = CallAt(h, t)
    BY <2>1, ProactiveSlotSet
  <2> HIDE DEF c
  <2>4. TokensOK(g)'
    BY <1>0, <2>1, <2>2, <2>3, GrantServed
  <2>5. ASSUME NEW h \in Grant, h # g PROVE TokensOK(h)'
    <3>1. wiki'[h] = wiki[h]
      BY <1>0, <2>1, <2>5
    <3> QED
      BY <1>0, <2>1, <2>3, <2>5, <3>1, GrantAside
  <2> QED
    BY <2>4, <2>5 DEF TokensInv
<1>13. ASSUME NEW r \in TokenReq, TokenCallFails(r) PROVE TokensInv'
  <2> DEFINE g == tokenReq[r].grant  c == tokenReq[r].call  x == [tokenReq[r] EXCEPT !.call.state = "failed"]
  <2>1. /\ tokenReq' = [tokenReq EXCEPT ![r] = x] /\ UNCHANGED <<upstream, proactive, wiki, home>>
        /\ unread \subseteq unread' /\ (c.state = "ok" => g \in unread')
    BY <1>13 DEF TokenCallFails, Failing
  <2>2. x.grant = g /\ x.call.state = "failed" /\ x.call.sent = c.sent /\ x.call.refresh = c.refresh
    <3>1. tokenReq[r] \in [grant: Grant, rid: Rid, call: Call] /\ c \in Call
      BY DEF TypeOK
    <3>2. x.grant = g /\ x.call = [c EXCEPT !.state = "failed"]
      BY <3>1
    <3> QED
      BY <3>1, <3>2 DEF Call
  <2> HIDE DEF x
  <2>3. g \in Grant /\ r \in Slots /\ CallAt(g, r) = c /\ \A h \in Grant : h # g => CallAt(h, r) = NoCall
    BY <1>0, SlotCalls
  <2>4. \A h \in Grant : /\ CallAt(h, r)' = IF h = g THEN x.call ELSE NoCall
                         /\ \A t \in Slots : t # r => CallAt(h, t)' = CallAt(h, t)
    BY <2>1, <2>2, TokenSlotSet, ZenonT(60)
  <2> HIDE DEF g, c
  <2>5. \A h \in Grant : Dwindles(h)
    <3> SUFFICES ASSUME NEW h \in Grant PROVE Dwindles(h)
      OBVIOUS
    <3>1. Issued(h)
      BY <1>0 DEF TokensOK
    <3>2. CASE h = g
      BY <2>1, <2>2, <2>3, <2>4, <3>1, <3>2 DEF Dwindles, Issued
    <3>3. CASE h # g
      BY <2>3, <2>4, <3>3 DEF Dwindles
    <3> QED
      BY <3>2, <3>3
  <2> QED
    BY <1>0, <2>1, <2>5, GrantKept DEF TokensInv, RecordKept
<1>14. ASSUME NEW g \in Grant, ProactiveCallFails(g) PROVE TokensInv'
  <2> DEFINE c == proactive[g]  x == [c EXCEPT !.state = "failed"]
  <2>1. /\ proactive' = [proactive EXCEPT ![g] = x] /\ UNCHANGED <<upstream, tokenReq, wiki, home>>
        /\ unread \subseteq unread' /\ (c.state = "ok" => g \in unread')
    BY <1>0, <1>14 DEF ProactiveCallFails, Failing
  <2>2. x.state = "failed" /\ x.sent = c.sent /\ x.refresh = c.refresh
    BY <1>0 DEF Call
  <2> HIDE DEF x
  <2>3. /\ CallAt(g, ProactiveSlot)' = x /\ CallAt(g, ProactiveSlot) = c /\ ProactiveSlot \in Slots
        /\ \A t \in Slots : t # ProactiveSlot => CallAt(g, t)' = CallAt(g, t)
        /\ \A h \in Grant, t \in Slots : h # g => CallAt(h, t)' = CallAt(h, t)
    BY <2>1, ProactiveSlotSet, SlotCalls
  <2> HIDE DEF c
  <2>4. Dwindles(g)
    BY <1>0, <2>1, <2>2, <2>3 DEF Dwindles, TokensOK, Issued
  <2>5. TokensOK(g)'
    BY <1>0, <2>1, <2>4, GrantKept DEF RecordKept
  <2>6. \A h \in Grant : h # g => TokensOK(h)'
    BY <1>0, <2>1, <2>3, GrantAside
  <2> QED
    BY <2>5, <2>6 DEF TokensInv
<1>15. ASSUME \/ \E g \in Grant : CodeExpires(g) \/ Tick(g)
              \/ \E b \in BearerReq : Depart(b)
              \/ DeferredFlush \/ UNCHANGED vars
       PROVE  TokensInv'
  <2>1. UNCHANGED <<upstream, tokenReq, proactive, wiki, home, unread>>
    BY <1>15 DEF CodeExpires, Tick, Depart, DeferredFlush, vars
  <2> QED
    BY <1>1, <2>1 DEF RecordKept
<1> QED
  BY <1>2, <1>3, <1>4, <1>5, <1>6, <1>7, <1>8, <1>9, <1>10, <1>11, <1>12, <1>13, <1>14, <1>15, SignsIn
     DEF Next, TokenEndpoint

(* The store never keeps a refresh token the wiki has superseded, whichever  *)
(* of the two refresh paths got there first and whatever a revocation or a   *)
(* restart left half done, unless an answer of the wiki was never read.      *)
THEOREM StoredTokenAcceptedHolds == Spec => []StoredTokenAccepted
<1>1. Init => TokensInv
  <2> SUFFICES ASSUME Init, NEW g \in Grant PROVE TokensOK(g)
    BY DEF TokensInv
  <2>1. \A s \in Slots : CallAt(g, s).state = "none" /\ CallAt(g, s).sent = 0 /\ CallAt(g, s).refresh = 0
    BY SlotCalls DEF Init, CallAt, Slots, FreeRequest
  <2>2. upstream[g].refresh = 0 /\ wiki[g].refresh = 0 /\ wiki[g].access = 0
    BY DEF Init
  <2> QED
    BY <2>1, <2>2 DEF TokensOK, Issued, UpToDate
<1>2. Init => ClockInv
  BY DEF Init, ClockInv, NoCall
<1>3. IInv /\ IInv' /\ ClockInv /\ [Next]_vars => ClockInv'
  BY StepClockInv DEF IInv
<1>4. IInv /\ IInv' /\ ClockInv /\ (~FlushFails => TokensInv) /\ [Next]_vars => (~FlushFails => TokensInv)'
  BY StepTokensInv DEF IInv, RotationInv
<1>5. (~FlushFails => TokensInv) => StoredTokenAccepted
  <2> SUFFICES ASSUME TokensInv, NEW g \in Grant, upstream[g].present, g \notin unread,
                      proactive[g].state # "ok",
                      \A r \in TokenReq : ~(tokenReq[r].grant = g /\ tokenReq[r].call.state = "ok")
               PROVE  upstream[g].refresh = wiki[g].refresh
    BY DEF StoredTokenAccepted
  <2>1. \A s \in Slots : CallAt(g, s).state # "ok"
    BY SlotCalls DEF Slots
  <2> QED
    BY <2>1 DEF TokensInv, TokensOK, UpToDate
<1> QED
  BY <1>1, <1>2, <1>3, <1>4, <1>5, Invariance, PTL DEF Spec

===============================================================================
