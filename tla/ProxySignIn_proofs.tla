--------------------------- MODULE ProxySignIn_proofs ---------------------------
(***************************************************************************)
(* A client gets a code only with the consent of the user, and one for     *)
(* each grant; the registrations stay within their cap.  For any number of *)
(* sign-ins, clients, redirect hosts and callbacks.                        *)
(***************************************************************************)
EXTENDS ProxySignIn, FiniteSetTheorems, SequenceTheorems, TLAPS

(* The consent a callback relies on is followed back: from the exchange to   *)
(* the cookie it was verified against, from the cookie to the approval that  *)
(* set it, from the approval to the user.  The request of a sign-in is the   *)
(* same in all of them, and approvals are never forgotten.                   *)
Shapes ==
    /\ flow \in [Flow -> FlowState]
    /\ callback \in [Callback -> CallbackState]
    /\ cookie \in Cookies
    /\ approved \in SUBSET Pair
    /\ txn \in [Flow -> {"none", "open", "gone"}]
    /\ grants \in [Flow -> [given: 0 .. MaxGrants, unspent: SUBSET (1 .. MaxGrants)]]
    /\ codes \in [Flow -> Nat]

CookieApproved == cookie.consent = NoPair \/ cookie.consent \in approved
ApprovalMeant == \A f \in Flow : flow[f].stage = "approving" => PairOf(f) \in approved
CallbackApproved ==
    \A r \in Callback :
      LET c == callback[r] IN
      /\ c.stage = "exchanging" => c.consentOk
      /\ c.consentOk => c.txn \in Flow /\ PairOf(c.txn) \in approved

ConsentInv == Shapes /\ CookieApproved /\ ApprovalMeant /\ CallbackApproved /\ ConsentBeforeCode

-----------------------------------------------------------------------------
(* A consent cookie that names the request of a sign-in was approved.        *)
LEMMA HeldIsApproved ==
    ASSUME ConsentInv, NEW f \in Flow, ConsentHeld(PairOf(f))
    PROVE  PairOf(f) \in approved
BY SignInAssumption
DEF ConsentInv, Shapes, CookieApproved, ConsentHeld, PairOf, FlowState, Pair, NoPair

LEMMA NoCallbackShape ==
    NoCallback \in CallbackState /\ NoCallback.stage = "free" /\ ~NoCallback.consentOk
BY SignInAssumption DEF NoCallback, CallbackState

LEMMA InitConsent == Init => ConsentInv
<1> SUFFICES ASSUME Init PROVE ConsentInv
  OBVIOUS
<1>1. flow \in [Flow -> FlowState] /\ \A f \in Flow : flow[f].stage = "new"
  BY DEF Init, FlowState, Stage
<1>2. callback \in [Callback -> CallbackState] /\ \A r \in Callback : callback[r] = NoCallback
  BY NoCallbackShape DEF Init
<1>3. cookie \in Cookies /\ cookie.consent = NoPair
  BY DEF Init, Cookies
<1>4. grants \in [Flow -> [given: 0 .. MaxGrants, unspent: SUBSET (1 .. MaxGrants)]]
  BY SignInAssumption DEF Init
<1>5. txn \in [Flow -> {"none", "open", "gone"}] /\ codes \in [Flow -> Nat]
  BY DEF Init
<1>6. approved \in SUBSET Pair
  BY DEF Init
<1>7. CookieApproved /\ ApprovalMeant /\ CallbackApproved /\ ConsentBeforeCode
  BY <1>1, <1>2, <1>3
  DEF Init, CookieApproved, ApprovalMeant, CallbackApproved, NoCallback, ConsentBeforeCode
<1> QED
  BY <1>1, <1>2, <1>3, <1>4, <1>5, <1>6, <1>7 DEF ConsentInv, Shapes

(* A tab that moves to another stage keeps its request. *)
LEMMA TabMoves ==
    ASSUME flow \in [Flow -> FlowState], NEW f \in Flow, NEW s \in Stage, NEW ok \in BOOLEAN,
           flow' = [flow EXCEPT ![f].stage = s, ![f].cookieOk = ok]
    PROVE  /\ flow' \in [Flow -> FlowState]
           /\ \A g \in Flow : flow'[g].request = flow[g].request
           /\ \A g \in Flow : flow'[g].stage = IF g = f THEN s ELSE flow[g].stage
<1> DEFINE t == [flow[f] EXCEPT !.stage = s, !.cookieOk = ok]
<1>1. flow[f] \in FlowState
  OBVIOUS
<1>2. t \in FlowState /\ t.request = flow[f].request /\ t.stage = s
  BY <1>1 DEF FlowState
<1>3. flow' = [flow EXCEPT ![f] = t]
  BY <1>1 DEF FlowState
<1> HIDE DEF t
<1> QED
  BY <1>2, <1>3

(* A step of the tabs: it keeps requests, callbacks and codes, forgets no    *)
(* approval, and leaves in the cookie what it held or what was approved.     *)
TabsKeep ==
    /\ \A g \in Flow : flow'[g].request = flow[g].request
    /\ approved \subseteq approved'
    /\ callback' = callback /\ codes' = codes
    /\ \A g \in Flow : flow'[g].stage = "approving" =>
         flow[g].stage = "approving" \/ flow[g].request \in approved'
    /\ cookie'.consent \in {cookie.consent, NoPair} \cup approved'

LEMMA TabStep == ASSUME ConsentInv, Shapes', TabsKeep PROVE ConsentInv'
<1>1. CookieApproved'
  BY DEF TabsKeep, ConsentInv, CookieApproved
<1>2. ApprovalMeant'
  BY DEF TabsKeep, ConsentInv, ApprovalMeant, PairOf
<1>3. CallbackApproved'
  BY DEF TabsKeep, ConsentInv, CallbackApproved, PairOf
<1>4. ConsentBeforeCode'
  BY DEF TabsKeep, ConsentInv, ConsentBeforeCode, PairOf
<1> QED
  BY <1>1, <1>2, <1>3, <1>4 DEF ConsentInv

(* A step of one callback keeps the tabs, and relies on nothing that was not *)
(* approved.                                                                 *)
CallbackKeeps(r) ==
    /\ flow' = flow /\ approved \subseteq approved'
    /\ cookie'.consent = cookie.consent
    /\ \A q \in Callback \ {r} : callback'[q] = callback[q]
    /\ callback'[r].stage = "exchanging" => callback'[r].consentOk
    /\ callback'[r].consentOk =>
         callback'[r].txn \in Flow /\ flow[callback'[r].txn].request \in approved
    /\ \A g \in Flow : codes'[g] > 0 => codes[g] > 0 \/ flow[g].request \in approved

LEMMA CallbackStep ==
    ASSUME ConsentInv, Shapes', NEW r \in Callback, CallbackKeeps(r) PROVE ConsentInv'
<1>1. CookieApproved'
  BY DEF CallbackKeeps, ConsentInv, CookieApproved
<1>2. ApprovalMeant'
  BY DEF CallbackKeeps, ConsentInv, ApprovalMeant, PairOf
<1>3. CallbackApproved'
  <2> SUFFICES ASSUME NEW q \in Callback
               PROVE  /\ callback'[q].stage = "exchanging" => callback'[q].consentOk
                      /\ callback'[q].consentOk =>
                           /\ callback'[q].txn \in Flow
                           /\ flow'[callback'[q].txn].request \in approved'
    BY DEF CallbackApproved, PairOf
  <2>1. CASE q = r
    BY <2>1 DEF CallbackKeeps, PairOf
  <2>2. CASE q # r
    BY <2>2 DEF CallbackKeeps, ConsentInv, CallbackApproved, PairOf
  <2> QED
    BY <2>1, <2>2
<1>4. ConsentBeforeCode'
  BY DEF CallbackKeeps, ConsentInv, ConsentBeforeCode, PairOf
<1> QED
  BY <1>1, <1>2, <1>3, <1>4 DEF ConsentInv

(* planAuthorize moves one tab, and keeps the consent of the jar it is given.*)
LEMMA PlanKeeps ==
    ASSUME Shapes, NEW f \in Flow, NEW hosts, NEW ok \in BOOLEAN, NEW jar \in Cookies,
           PlanAuthorize(f, hosts, ok, jar)
    PROVE  /\ flow' \in [Flow -> FlowState] /\ cookie' \in Cookies
           /\ txn' \in [Flow -> {"none", "open", "gone"}]
           /\ cookie'.consent = jar.consent
           /\ \A g \in Flow : flow'[g].request = flow[g].request
           /\ \A g \in Flow : flow'[g].stage = "approving" => flow[g].stage = "approving"
<1>1. PICK s \in {"finished", "consentPage", "atWiki"} : InTab(f, s)
  BY DEF PlanAuthorize
<1>s. s \in Stage /\ FALSE \in BOOLEAN
  BY DEF Stage
<1>2. /\ flow' \in [Flow -> FlowState]
      /\ \A g \in Flow : flow'[g].request = flow[g].request
      /\ \A g \in Flow : flow'[g].stage = IF g = f THEN s ELSE flow[g].stage
  BY <1>1, <1>s, TabMoves DEF InTab, Shapes
<1>3. cookie' \in Cookies /\ cookie'.consent = jar.consent
  BY DEF PlanAuthorize, Cookies
<1>4. txn' \in [Flow -> {"none", "open", "gone"}]
  BY DEF PlanAuthorize, Shapes
<1> QED
  BY <1>2, <1>3, <1>4

-----------------------------------------------------------------------------
LEMMA NextConsent == ConsentInv /\ [Next]_vars => ConsentInv'
<1> SUFFICES ASSUME ConsentInv, [Next]_vars PROVE ConsentInv'
  OBVIOUS
<1>s. Shapes
  BY DEF ConsentInv
<1>1. CASE UNCHANGED vars
  BY <1>1, <1>s, TabStep DEF vars, TabsKeep, Shapes
<1>2. ASSUME NEW c \in Client, Register(c) PROVE ConsentInv'
  BY <1>2, <1>s, TabStep DEF Register, TabsKeep, Shapes
<1>3. ASSUME NEW f \in Flow, Authorize(f) PROVE ConsentInv'
  <2>1. ConsentHeld(PairOf(f)) \in BOOLEAN /\ "authorizing" \in Stage
    BY DEF ConsentHeld, Stage
  <2>2. /\ flow' \in [Flow -> FlowState]
        /\ \A g \in Flow : flow'[g].request = flow[g].request
        /\ \A g \in Flow : flow'[g].stage = IF g = f THEN "authorizing" ELSE flow[g].stage
    BY <1>3, <1>s, <2>1, TabMoves DEF Authorize, Shapes
  <2> QED
    BY <1>3, <1>s, <2>2, TabStep DEF Authorize, TabsKeep, Shapes
<1>4. ASSUME NEW f \in Flow, Authorized(f) PROVE ConsentInv'
  <2>1. PICK hosts : PlanAuthorize(f, hosts, flow[f].cookieOk, cookie)
    BY <1>4 DEF Authorized
  <2>2. flow[f].cookieOk \in BOOLEAN /\ cookie \in Cookies
    BY <1>s DEF Shapes, FlowState
  <2>3. /\ flow' \in [Flow -> FlowState] /\ cookie' \in Cookies
        /\ txn' \in [Flow -> {"none", "open", "gone"}]
        /\ cookie'.consent = cookie.consent
        /\ \A g \in Flow : flow'[g].request = flow[g].request
        /\ \A g \in Flow : flow'[g].stage = "approving" => flow[g].stage = "approving"
    BY <1>s, <2>1, <2>2, PlanKeeps
  <2> QED
    BY <1>4, <1>s, <2>3, TabStep DEF Authorized, TabsKeep, Shapes
<1>5. ASSUME NEW f \in Flow, Approve(f) PROVE ConsentInv'
  <2>1. (cookie.csrf = f) \in BOOLEAN /\ "approving" \in Stage
    BY DEF Stage
  <2>2. /\ flow' \in [Flow -> FlowState]
        /\ \A g \in Flow : flow'[g].request = flow[g].request
        /\ \A g \in Flow : flow'[g].stage = IF g = f THEN "approving" ELSE flow[g].stage
    BY <1>5, <1>s, <2>1, TabMoves DEF Approve, Shapes
  <2>3. PairOf(f) \in Pair
    BY <1>s DEF Shapes, FlowState, PairOf
  <2>4. /\ approved' \in SUBSET Pair
        /\ approved' = approved \cup {flow[f].request}
    BY <1>5, <1>s, <2>3 DEF Approve, Shapes, PairOf
  <2> QED
    BY <1>5, <1>s, <2>2, <2>4, TabStep DEF Approve, TabsKeep, Shapes
<1>6. ASSUME NEW f \in Flow, Approved(f) PROVE ConsentInv'
  <2>1. flow[f].request \in approved
    BY <1>6 DEF Approved, ConsentInv, ApprovalMeant, PairOf
  <2>2. CASE \E hosts : PlanAuthorize(f, hosts, TRUE, [cookie EXCEPT !.consent = PairOf(f)])
    <3> DEFINE jar == [cookie EXCEPT !.consent = PairOf(f)]
    <3>1. PairOf(f) \in Pair
      BY <1>s DEF Shapes, FlowState, PairOf
    <3>2. jar \in Cookies /\ jar.consent = flow[f].request
      BY <1>s, <3>1 DEF Shapes, Cookies, PairOf
    <3>3. PICK hosts : PlanAuthorize(f, hosts, TRUE, jar)
      BY <2>2
    <3> HIDE DEF jar
    <3>4. /\ flow' \in [Flow -> FlowState] /\ cookie' \in Cookies
          /\ txn' \in [Flow -> {"none", "open", "gone"}]
          /\ cookie'.consent = flow[f].request
          /\ \A g \in Flow : flow'[g].request = flow[g].request
          /\ \A g \in Flow : flow'[g].stage = "approving" => flow[g].stage = "approving"
      BY <1>s, <3>2, <3>3, PlanKeeps
    <3> QED
      BY <1>6, <1>s, <2>1, <3>4, TabStep DEF Approved, TabsKeep, Shapes
  <2>3. CASE InTab(f, "finished") /\ UNCHANGED <<cookie, txn>>
    <3>1. /\ flow' \in [Flow -> FlowState]
          /\ \A g \in Flow : flow'[g].request = flow[g].request
          /\ \A g \in Flow : flow'[g].stage = IF g = f THEN "finished" ELSE flow[g].stage
      BY <1>s, <2>3, TabMoves DEF InTab, Shapes, Stage
    <3> QED
      BY <1>6, <1>s, <2>3, <3>1, TabStep DEF Approved, TabsKeep, Shapes
  <2> QED
    BY <1>6, <2>2, <2>3 DEF Approved
<1>7. ASSUME NEW f \in Flow, Deny(f) \/ Denied(f) \/ UserGrants(f) \/ UserDeclines(f)
      PROVE  ConsentInv'
  <2>1. PICK s \in {"denying", "finished", "granted", "declined"} : InTab(f, s)
    BY <1>7 DEF Deny, Denied, UserGrants, UserDeclines
  <2>s. s \in Stage /\ FALSE \in BOOLEAN
    BY DEF Stage
  <2>2. /\ flow' \in [Flow -> FlowState]
        /\ \A g \in Flow : flow'[g].request = flow[g].request
        /\ \A g \in Flow : flow'[g].stage = IF g = f THEN s ELSE flow[g].stage
    BY <1>s, <2>1, <2>s, TabMoves DEF InTab, Shapes
  <2>3. approved' \in SUBSET Pair /\ approved' = approved
    BY <1>7, <1>s DEF Deny, Denied, UserGrants, UserDeclines, Shapes
  <2>4. grants' \in [Flow -> [given: 0 .. MaxGrants, unspent: SUBSET (1 .. MaxGrants)]]
    <3>1. CASE UserGrants(f)
      <4> DEFINE n == grants[f].given + 1
      <4>1. n \in 1 .. MaxGrants
        BY <1>s, <3>1, SignInAssumption DEF UserGrants, Shapes
      <4>2. grants[f].unspent \cup {n} \in SUBSET (1 .. MaxGrants)
        BY <1>s, <4>1 DEF Shapes
      <4>3. n \in 0 .. MaxGrants
        BY <4>1, SignInAssumption
      <4>4. grants' = [grants EXCEPT ![f] = [given |-> n, unspent |-> grants[f].unspent \cup {n}]]
        BY <1>s, <3>1 DEF UserGrants, Shapes
      <4> HIDE DEF n
      <4> QED
        BY <1>s, <4>2, <4>3, <4>4 DEF Shapes
    <3>2. CASE ~UserGrants(f)
      BY <1>7, <1>s, <3>2 DEF Deny, Denied, UserDeclines, Shapes
    <3> QED
      BY <3>1, <3>2
  <2> QED
    BY <1>7, <1>s, <2>2, <2>3, <2>4, TabStep
    DEF Deny, Denied, UserGrants, UserDeclines, TabsKeep, Shapes
<1>8. ASSUME NEW f \in Flow, TransactionExpires(f) PROVE ConsentInv'
  BY <1>8, <1>s, TabStep DEF TransactionExpires, TabsKeep, Shapes
<1>9. ASSUME NEW r \in Callback, NEW f \in Flow, ReturnGranted(r, f) PROVE ConsentInv'
  <2> DEFINE c == [stage |-> "verifying", txn |-> f, code |-> grants[f].given,
                   consentOk |-> txn[f] = "open" /\ ConsentHeld(PairOf(f))]
  <2>1. c.consentOk => flow[f].request \in approved
    BY HeldIsApproved DEF PairOf
  <2>2. grants[f].given \in 0 .. MaxGrants
    BY <1>s DEF Shapes
  <2>3. c \in CallbackState
    BY <2>2 DEF CallbackState
  <2>4. callback' = [callback EXCEPT ![r] = c]
    BY <1>9 DEF ReturnGranted
  <2>5. c.stage = "verifying" /\ c.txn = f
    OBVIOUS
  <2> HIDE DEF c
  <2> QED
    BY <1>9, <1>s, <2>1, <2>3, <2>4, <2>5, CallbackStep
    DEF ReturnGranted, CallbackKeeps, Shapes
<1>10. ASSUME NEW r \in Callback, NEW f \in Flow, ReturnDeclined(r, f) PROVE ConsentInv'
  <2>1. PICK t \in {f, cookie.txn} :
          callback' = [callback EXCEPT ![r] = [NoCallback EXCEPT !.stage = "denied", !.txn = t]]
    BY <1>10 DEF ReturnDeclined
  <2> DEFINE c == [NoCallback EXCEPT !.stage = "denied", !.txn = t]
  <2>2. cookie.txn \in Flow \cup {"none"}
    BY <1>s DEF Shapes, Cookies
  <2>3. c \in CallbackState /\ c.stage = "denied" /\ ~c.consentOk
    BY <2>2, NoCallbackShape DEF CallbackState
  <2>4. callback' = [callback EXCEPT ![r] = c]
    BY <2>1
  <2> HIDE DEF c
  <2> QED
    BY <1>10, <1>s, <2>3, <2>4, CallbackStep DEF ReturnDeclined, CallbackKeeps, Shapes
<1>11. ASSUME NEW r \in Callback, Answer(r)
       PROVE  /\ cookie' \in Cookies /\ cookie'.consent = cookie.consent
              /\ callback' \in [Callback -> CallbackState]
              /\ \A q \in Callback \ {r} : callback'[q] = callback[q]
              /\ callback'[r].stage = "free" /\ ~callback'[r].consentOk
  <2>1. cookie' \in Cookies /\ cookie'.consent = cookie.consent
    BY <1>11, <1>s DEF Answer, Cookies, Shapes
  <2>2. callback' = [callback EXCEPT ![r] = NoCallback] /\ callback \in [Callback -> CallbackState]
    BY <1>11, <1>s DEF Answer, Shapes
  <2> QED
    BY <2>1, <2>2, NoCallbackShape
<1>12. ASSUME NEW r \in Callback, DenialReturned(r) PROVE ConsentInv'
  <2>1. approved' \in SUBSET Pair /\ approved' = approved
    BY <1>12, <1>s DEF DenialReturned, Shapes, CallbackState
  <2>2. txn' \in [Flow -> {"none", "open", "gone"}]
    BY <1>12, <1>s DEF DenialReturned, Shapes
  <2> QED
    BY <1>11, <1>12, <1>s, <2>1, <2>2, CallbackStep DEF DenialReturned, CallbackKeeps, Shapes
<1>13. ASSUME NEW r \in Callback, Verified(r) PROVE ConsentInv'
  <2>1. CASE Answer(r)
    BY <1>11, <1>13, <1>s, <2>1, CallbackStep DEF Verified, CallbackKeeps, Shapes
  <2>2. CASE /\ callback[r].consentOk /\ UNCHANGED cookie
             /\ callback' = [callback EXCEPT ![r].stage = "exchanging"]
    <3> DEFINE c == [callback[r] EXCEPT !.stage = "exchanging"]
    <3>1. callback[r] \in CallbackState
      BY <1>s DEF Shapes
    <3>2. c \in CallbackState /\ c.consentOk /\ c.txn = callback[r].txn
      BY <2>2, <3>1 DEF CallbackState
    <3>3. callback' = [callback EXCEPT ![r] = c]
      BY <2>2
    <3>4. callback[r].txn \in Flow /\ flow[callback[r].txn].request \in approved
      BY <2>2 DEF ConsentInv, CallbackApproved, PairOf
    <3> HIDE DEF c
    <3> QED
      BY <1>13, <1>s, <2>2, <3>2, <3>3, <3>4, CallbackStep DEF Verified, CallbackKeeps, Shapes
  <2> QED
    BY <1>13, <2>1, <2>2 DEF Verified
<1>14. ASSUME NEW r \in Callback, Exchanged(r) PROVE ConsentInv'
  <2> DEFINE f == callback[r].txn
  <2>1. f \in Flow /\ flow[f].request \in approved
    BY <1>14 DEF Exchanged, ConsentInv, CallbackApproved, PairOf
  <2>2. grants' \in [Flow -> [given: 0 .. MaxGrants, unspent: SUBSET (1 .. MaxGrants)]]
    BY <1>14, <1>s, <2>1 DEF Exchanged, Spent, Shapes
  <2>3. /\ codes' \in [Flow -> Nat] /\ txn' \in [Flow -> {"none", "open", "gone"}]
        /\ \A g \in Flow \ {f} : codes'[g] = codes[g]
    BY <1>14, <1>s, <2>1 DEF Exchanged, Shapes
  <2>4. UNCHANGED <<flow, approved>> /\ Answer(r)
    BY <1>14 DEF Exchanged
  <2> HIDE DEF f
  <2> QED
    BY <1>11, <1>s, <2>1, <2>2, <2>3, <2>4, CallbackStep DEF CallbackKeeps, Shapes
<1>15. ASSUME NEW r \in Callback, ExchangeFails(r) PROVE ConsentInv'
  <2>1. callback[r].txn \in Flow
    BY <1>15 DEF ExchangeFails, ConsentInv, CallbackApproved
  <2>2. grants' \in [Flow -> [given: 0 .. MaxGrants, unspent: SUBSET (1 .. MaxGrants)]]
    BY <1>15, <1>s, <2>1 DEF ExchangeFails, Spent, Shapes
  <2> QED
    BY <1>11, <1>15, <1>s, <2>2, CallbackStep DEF ExchangeFails, CallbackKeeps, Shapes
<1>16. CASE Flush
  BY <1>16, <1>s, TabStep DEF Flush, TabsKeep, Shapes
<1>17. CASE CookieExpires
  <2>1. cookie' \in Cookies /\ cookie'.consent \in {cookie.consent, NoPair}
    BY <1>17, <1>s DEF CookieExpires, Cookies, Shapes
  <2> QED
    BY <1>17, <1>s, <2>1, TabStep DEF CookieExpires, TabsKeep, Shapes
<1>18. CASE Restart
  <2>1. /\ flow' \in [Flow -> FlowState]
        /\ \A g \in Flow : flow'[g].request = flow[g].request
        /\ \A g \in Flow : flow'[g].stage \in {flow[g].stage, "finished"}
    BY <1>18, <1>s, ZenonT(60) DEF Restart, Shapes, FlowState, Stage
  <2>2. /\ callback' \in [Callback -> CallbackState]
        /\ \A r \in Callback : callback'[r].stage = "free" /\ ~callback'[r].consentOk
    BY <1>18, NoCallbackShape DEF Restart
  <2>3. UNCHANGED <<cookie, grants, codes, approved>> /\ txn' \in [Flow -> {"none", "open", "gone"}]
    BY <1>18, <1>s DEF Restart, Shapes
  <2>4. Shapes'
    BY <1>s, <2>1, <2>2, <2>3 DEF Shapes
  <2>5. CookieApproved' /\ CallbackApproved'
    BY <2>2, <2>3 DEF ConsentInv, CookieApproved, CallbackApproved
  <2>6. ApprovalMeant' /\ ConsentBeforeCode'
    BY <2>1, <2>3 DEF ConsentInv, ApprovalMeant, ConsentBeforeCode, PairOf
  <2> QED
    BY <2>4, <2>5, <2>6 DEF ConsentInv
<1> QED
  BY <1>1, <1>2, <1>3, <1>4, <1>5, <1>6, <1>7, <1>8, <1>9, <1>10, <1>12, <1>13,
     <1>14, <1>15, <1>16, <1>17, <1>18 DEF Next

(* authorize.ts and callback.ts: whatever the interleaving, no client gets a *)
(* code for a redirect host the user did not approve it at.                  *)
THEOREM NoCodeWithoutConsent == Spec => []ConsentBeforeCode
<1>1. ConsentInv => ConsentBeforeCode
  BY DEF ConsentInv
<1> QED
  BY InitConsent, NextConsent, <1>1, PTL DEF Spec
-----------------------------------------------------------------------------
(* One code for one grant.  The grants of a sign-in are each unspent, turned *)
(* into a code, or lost; an exchange moves one from the first to the second, *)
(* and needs it to be there, however many callbacks carry it.                *)
Given == [given: 0 .. MaxGrants, unspent: SUBSET (1 .. MaxGrants)]

LEMMA UnspentFinite ==
    ASSUME NEW s \in SUBSET (1 .. MaxGrants)
    PROVE  IsFiniteSet(s) /\ Cardinality(s) \in Nat
<1>1. IsFiniteSet(1 .. MaxGrants)
  BY SignInAssumption, FS_Interval
<1> QED
  BY <1>1, FS_Subset, FS_CardinalityType

LEMMA GrantsCounted ==
    ASSUME NEW f \in Flow, NEW x, x \in Given, NEW y, y \in Given, NEW n \in Nat, NEW m \in Nat,
           n + Cardinality(x.unspent) <= x.given,
           \/ m = n /\ x = y
           \/ m = n /\ y = [given |-> x.given + 1, unspent |-> x.unspent \cup {x.given + 1}]
           \/ \E c : m = n /\ y = [x EXCEPT !.unspent = @ \ {c}]
           \/ \E c \in x.unspent : m = n + 1 /\ y = [x EXCEPT !.unspent = @ \ {c}]
    PROVE  m + Cardinality(y.unspent) <= y.given
<1> DEFINE s == x.unspent  g == x.given
<1>1. s \in SUBSET (1 .. MaxGrants) /\ g \in Nat
  BY SignInAssumption DEF Given
<1>2. IsFiniteSet(s) /\ Cardinality(s) \in Nat
  BY <1>1, UnspentFinite
<1>3. \A c : /\ Cardinality(s \cup {c}) \in Nat /\ Cardinality(s \cup {c}) <= Cardinality(s) + 1
             /\ Cardinality(s \ {c}) = IF c \in s THEN Cardinality(s) - 1 ELSE Cardinality(s)
  <2> TAKE c
  <2>1. Cardinality(s \cup {c}) = IF c \in s THEN Cardinality(s) ELSE Cardinality(s) + 1
    BY <1>2, FS_AddElement
  <2>2. Cardinality(s \ {c}) = IF c \in s THEN Cardinality(s) - 1 ELSE Cardinality(s)
    BY <1>2, FS_RemoveElement
  <2> QED
    BY <1>2, <2>1, <2>2
<1>4. CASE m = n /\ x = y
  BY <1>4
<1>5. CASE m = n /\ y = [given |-> g + 1, unspent |-> s \cup {g + 1}]
  <2>1. y.unspent = s \cup {g + 1} /\ y.given = g + 1 /\ m = n
    BY <1>5
  <2>2. n + Cardinality(s) <= g
    OBVIOUS
  <2> DEFINE d == Cardinality(s \cup {g + 1})
  <2>3. d \in Nat /\ d <= Cardinality(s) + 1
    BY <1>3
  <2>4. Cardinality(y.unspent) = d
    BY <2>1
  <2> HIDE DEF s, g, d
  <2>5. m + d <= g + 1
    BY <1>1, <1>2, <2>1, <2>2, <2>3
  <2> QED
    BY <2>1, <2>4, <2>5
<1>6. CASE \E c : m = n /\ y = [x EXCEPT !.unspent = @ \ {c}]
  <2>1. PICK c : m = n /\ y = [x EXCEPT !.unspent = @ \ {c}]
    BY <1>6
  <2>2. y.unspent = s \ {c} /\ y.given = g
    BY <2>1 DEF Given
  <2> HIDE DEF s, g
  <2> QED
    BY <1>1, <1>2, <1>3, <2>1, <2>2 DEF s, g
<1>7. CASE \E c \in x.unspent : m = n + 1 /\ y = [x EXCEPT !.unspent = @ \ {c}]
  <2>1. PICK c \in s : m = n + 1 /\ y = [x EXCEPT !.unspent = @ \ {c}]
    BY <1>7
  <2>2. y.unspent = s \ {c} /\ y.given = g
    BY <2>1 DEF Given
  <2>3. Cardinality(s \ {c}) = Cardinality(s) - 1
    BY <1>3, <2>1
  <2> HIDE DEF s, g
  <2> QED
    BY <1>1, <1>2, <2>1, <2>2, <2>3 DEF s, g
<1> QED
  BY <1>4, <1>5, <1>6, <1>7

(* What a step does to the grants and codes of one sign-in. *)
GrantMoves(f) ==
    \/ UNCHANGED <<grants[f], codes[f]>>
    \/ /\ codes'[f] = codes[f]
       /\ grants'[f] = [given |-> grants[f].given + 1,
                        unspent |-> grants[f].unspent \cup {grants[f].given + 1}]
    \/ \E c : codes'[f] = codes[f] /\ grants'[f] = [grants[f] EXCEPT !.unspent = @ \ {c}]
    \/ \E c \in grants[f].unspent :
         codes'[f] = codes[f] + 1 /\ grants'[f] = [grants[f] EXCEPT !.unspent = @ \ {c}]

LEMMA GrantMoved ==
    ASSUME ConsentInv, [Next]_vars, NEW f \in Flow
    PROVE  GrantMoves(f)
<1>1. grants \in [Flow -> Given] /\ codes \in [Flow -> Nat]
  BY DEF ConsentInv, Shapes, Given
<1>2. CASE UNCHANGED <<grants, codes>>
  BY <1>2 DEF GrantMoves
<1>3. ASSUME NEW g \in Flow, UserGrants(g) PROVE GrantMoves(f)
  BY <1>1, <1>3 DEF UserGrants, GrantMoves
<1>4. ASSUME NEW r \in Callback, Exchanged(r) PROVE GrantMoves(f)
  BY <1>1, <1>4 DEF Exchanged, Spent, GrantMoves
<1>5. ASSUME NEW r \in Callback, ExchangeFails(r) PROVE GrantMoves(f)
  BY <1>1, <1>5 DEF ExchangeFails, Spent, GrantMoves
<1>6. UNCHANGED vars => UNCHANGED <<grants, codes>>
  BY DEF vars
<1>7. ASSUME NEW c \in Client, Register(c) PROVE UNCHANGED <<grants, codes>>
  BY <1>7 DEF Register
<1>8. ASSUME NEW g \in Flow,
             \/ Authorize(g) \/ Authorized(g) \/ Approve(g) \/ Approved(g) \/ Deny(g) \/ Denied(g)
             \/ UserDeclines(g) \/ TransactionExpires(g)
      PROVE  UNCHANGED <<grants, codes>>
  BY <1>8 DEF Authorize, Authorized, Approve, Approved, Deny, Denied, UserDeclines, TransactionExpires
<1>9. ASSUME NEW r \in Callback,
             \/ \E g \in Flow : ReturnGranted(r, g) \/ ReturnDeclined(r, g)
             \/ DenialReturned(r) \/ Verified(r)
      PROVE  UNCHANGED <<grants, codes>>
  BY <1>9 DEF ReturnGranted, ReturnDeclined, DenialReturned, Verified
<1>10. Flush \/ CookieExpires \/ Restart => UNCHANGED <<grants, codes>>
  BY DEF Flush, CookieExpires, Restart
<1> QED
  BY <1>2, <1>3, <1>4, <1>5, <1>6, <1>7, <1>8, <1>9, <1>10 DEF Next

LEMMA InitGrants == Init => CodePerGrant
<1> SUFFICES ASSUME Init, NEW f \in Flow
             PROVE  codes[f] + Cardinality(grants[f].unspent) <= grants[f].given
  BY DEF CodePerGrant
<1>1. codes[f] = 0 /\ grants[f].unspent = {} /\ grants[f].given = 0
  BY DEF Init
<1> QED
  BY <1>1, FS_EmptySet

LEMMA NextGrants == ConsentInv /\ CodePerGrant /\ [Next]_vars => CodePerGrant'
<1> SUFFICES ASSUME ConsentInv, CodePerGrant, [Next]_vars, NEW f \in Flow
             PROVE  codes'[f] + Cardinality(grants'[f].unspent) <= grants'[f].given
  BY DEF CodePerGrant
<1>1. grants[f] \in Given /\ codes[f] \in Nat
  BY DEF ConsentInv, Shapes, Given
<1>2. grants'[f] \in Given /\ codes'[f] \in Nat
  <2>1. ConsentInv'
    BY NextConsent
  <2> QED
    BY <2>1 DEF ConsentInv, Shapes, Given
<1>3. codes[f] + Cardinality(grants[f].unspent) <= grants[f].given
  BY DEF CodePerGrant
<1>4. GrantMoves(f)
  BY GrantMoved
<1> QED
  BY <1>1, <1>2, <1>3, <1>4, GrantsCounted DEF GrantMoves

(* callback.ts: a client gets one code for each grant the user gave at the   *)
(* wiki, however often and however interleaved the callbacks come.           *)
THEOREM CodePerGrantHolds == Spec => []CodePerGrant
<1> QED
  BY InitConsent, NextConsent, InitGrants, NextGrants, PTL DEF Spec
-----------------------------------------------------------------------------
(* The registrations.  The store keeps no client twice, whatever it evicts:  *)
(* an id is issued once, and only issued ids are kept, in memory and in the  *)
(* file a restart reads.                                                     *)
Kept(s, ids) ==
    /\ s \in Seq(Client \ Cimd) /\ Len(s) <= MaxClients /\ IsInjective(s)
    /\ \A i \in DOMAIN s : s[i] \in ids

ClientsInv == issued \subseteq Client /\ Kept(clients, issued) /\ Kept(stored, issued)

LEMMA AppendKept ==
    ASSUME NEW ids, NEW s, Kept(s, ids), Len(s) < MaxClients, NEW c \in Client \ Cimd, c \notin ids
    PROVE  Kept(Append(s, c), ids \cup {c})
<1> DEFINE t == Append(s, c)  n == Len(s) + 1
<1>1. s \in Seq(Client \ Cimd) /\ Len(s) \in Nat /\ DOMAIN s = 1 .. Len(s)
  BY LenProperties DEF Kept
<1>2. /\ t \in Seq(Client \ Cimd) /\ Len(t) = n /\ DOMAIN t = 1 .. n
      /\ \A i \in 1 .. Len(s) : t[i] = s[i]
      /\ t[n] = c
  BY <1>1, AppendProperties, LenProperties
<1> HIDE DEF t
<1>3. n <= MaxClients
  BY <1>1, SignInAssumption
<1>4. \A i \in 1 .. n : i = n \/ i \in 1 .. Len(s)
  BY <1>1
<1> HIDE DEF n
<1>5. \A i \in 1 .. n : t[i] \in ids \cup {c}
  BY <1>1, <1>2, <1>4 DEF Kept
<1>6. ASSUME NEW i \in 1 .. n, NEW j \in 1 .. n, t[i] = t[j] PROVE i = j
  <2>1. \A a, b \in 1 .. Len(s) : s[a] = s[b] => a = b
    BY <1>1 DEF Kept, IsInjective
  <2>2. \A a \in 1 .. Len(s) : s[a] # c
    BY <1>1 DEF Kept
  <2> QED
    BY <1>2, <1>4, <1>6, <2>1, <2>2
<1>7. IsInjective(t)
  BY <1>2, <1>6 DEF IsInjective
<1> QED
  BY <1>2, <1>3, <1>5, <1>7 DEF Kept, t

LEMMA SuffixKept ==
    ASSUME NEW ids, NEW s, Kept(s, ids), Len(s) >= MaxClients
    PROVE  LET t == SubSeq(s, Len(s) - MaxClients + 2, Len(s)) IN Kept(t, ids) /\ Len(t) < MaxClients
<1> DEFINE m == Len(s) - MaxClients + 2  n == Len(s)  t == SubSeq(s, m, n)  l == n - m + 1
<1>1. s \in Seq(Client \ Cimd) /\ n \in Nat /\ DOMAIN s = 1 .. n /\ MaxClients \in Nat \ {0} /\ n = MaxClients
  BY LenProperties, SignInAssumption DEF Kept
<1>2. m = 2 /\ l = n - 1 /\ l \in Nat
  BY <1>1
<1>3. \A i \in m .. n : s[i] \in Client \ Cimd
  BY <1>1, <1>2, ElementOfSeq
<1>4. /\ t \in Seq(Client \ Cimd) /\ Len(t) = (IF m <= n THEN l ELSE 0)
      /\ \A i \in 1 .. l : t[i] = s[m + i - 1]
  BY <1>1, <1>2, <1>3, SubSeqProperties
<1> HIDE DEF t, m, l
<1>5. Len(t) = l /\ DOMAIN t = 1 .. l
  <2>1. Len(t) = l
    BY <1>1, <1>2, <1>4
  <2> QED
    BY <1>4, <2>1, LenProperties
<1>6. \A i \in 1 .. l : i + 1 \in 1 .. n /\ t[i] = s[i + 1]
  BY <1>1, <1>2, <1>4
<1>7. \A i \in 1 .. l : t[i] \in ids
  BY <1>1, <1>6 DEF Kept
<1>8. ASSUME NEW i \in 1 .. l, NEW j \in 1 .. l, t[i] = t[j] PROVE i = j
  <2>1. s[i + 1] = s[j + 1] /\ i + 1 \in DOMAIN s /\ j + 1 \in DOMAIN s
    BY <1>1, <1>6, <1>8
  <2>2. i + 1 = j + 1
    BY <2>1 DEF Kept, IsInjective
  <2> QED
    BY <1>2, <2>2
<1>9. IsInjective(t)
  BY <1>5, <1>8 DEF IsInjective
<1>10. Len(t) <= MaxClients /\ Len(t) < MaxClients
  BY <1>1, <1>2, <1>5
<1>11. Kept(t, ids)
  BY <1>4, <1>5, <1>7, <1>9, <1>10 DEF Kept
<1> QED
  BY <1>10, <1>11 DEF t, m

(* An issued id is kept however many more are issued. *)
LEMMA KeptMore ==
    ASSUME NEW ids, NEW s, Kept(s, ids), NEW more, ids \subseteq more
    PROVE  Kept(s, more)
BY DEF Kept

LEMMA InitClients == Init => ClientsInv
<1> SUFFICES ASSUME Init PROVE ClientsInv
  OBVIOUS
<1>1. clients = <<>> /\ stored = <<>> /\ issued = {}
  BY DEF Init
<1>2. <<>> \in Seq(Client \ Cimd) /\ Len(<<>>) = 0 /\ DOMAIN <<>> = {}
  BY EmptySeq
<1>3. Kept(<<>>, {})
  BY <1>2, SignInAssumption DEF Kept, IsInjective
<1> QED
  BY <1>1, <1>3 DEF ClientsInv

LEMMA NextClients == ClientsInv /\ [Next]_vars => ClientsInv'
<1> SUFFICES ASSUME ClientsInv, [Next]_vars PROVE ClientsInv'
  OBVIOUS
<1>1. ASSUME NEW c \in Client, Register(c) PROVE ClientsInv'
  <2>1. c \in Client \ Cimd /\ c \notin issued /\ UNCHANGED stored /\ issued' = issued \cup {c}
    BY <1>1 DEF Register
  <2>2. Kept(Registered(c), issued \cup {c})
    <3>1. CASE Len(clients) >= MaxClients
      <4> DEFINE t == SubSeq(clients, Len(clients) - MaxClients + 2, Len(clients))
      <4>1. Kept(t, issued) /\ Len(t) < MaxClients
        BY <3>1, SuffixKept DEF ClientsInv
      <4>2. Registered(c) = Append(t, c)
        BY <3>1 DEF Registered
      <4> HIDE DEF t
      <4> QED
        BY <2>1, <4>1, <4>2, AppendKept
    <3>2. CASE ~(Len(clients) >= MaxClients)
      <4>1. Len(clients) < MaxClients
        BY <3>2, LenProperties, SignInAssumption DEF ClientsInv, Kept
      <4>2. Registered(c) = Append(clients, c)
        BY <3>2 DEF Registered
      <4> QED
        BY <2>1, <4>1, <4>2, AppendKept DEF ClientsInv
    <3> QED
      BY <3>1, <3>2
  <2>3. Kept(stored, issued \cup {c})
    BY KeptMore DEF ClientsInv
  <2>4. clients' = Registered(c)
    BY <1>1 DEF Register
  <2> QED
    BY <2>1, <2>2, <2>3, <2>4 DEF ClientsInv
<1>2. CASE UNCHANGED issued /\ clients' \in {clients, stored} /\ stored' \in {stored, clients}
  BY <1>2 DEF ClientsInv
<1>3. Flush \/ Restart => UNCHANGED issued /\ clients' \in {clients, stored} /\ stored' \in {stored, clients}
  BY DEF Flush, Restart
<1>4. ASSUME NEW r \in Callback, Exchanged(r)
      PROVE  UNCHANGED <<issued, clients>> /\ stored' \in {stored, clients}
  BY <1>4 DEF Exchanged
<1>5. ASSUME NEW g \in Flow,
             \/ Authorize(g) \/ Authorized(g) \/ Approve(g) \/ Approved(g) \/ Deny(g) \/ Denied(g)
             \/ UserGrants(g) \/ UserDeclines(g) \/ TransactionExpires(g)
      PROVE  UNCHANGED <<issued, clients, stored>>
  BY <1>5 DEF Authorize, Authorized, Approve, Approved, Deny, Denied, UserGrants, UserDeclines,
             TransactionExpires
<1>6. ASSUME NEW r \in Callback,
             \/ \E g \in Flow : ReturnGranted(r, g) \/ ReturnDeclined(r, g)
             \/ DenialReturned(r) \/ Verified(r) \/ ExchangeFails(r)
      PROVE  UNCHANGED <<issued, clients, stored>>
  BY <1>6 DEF ReturnGranted, ReturnDeclined, DenialReturned, Verified, ExchangeFails
<1>7. CookieExpires \/ UNCHANGED vars => UNCHANGED <<issued, clients, stored>>
  BY DEF CookieExpires, vars
<1> QED
  BY <1>1, <1>2, <1>3, <1>4, <1>5, <1>6, <1>7 DEF Next

(* Every variable keeps its type: the registrations among them are no more   *)
(* than the cap and name no client twice, evicted, flushed and read again as *)
(* they may be (InMemoryProxyStore.putClient, the proxy store file).         *)
THEOREM TypeCorrect == Spec => []TypeOK
<1>1. ConsentInv /\ ClientsInv => TypeOK
  BY DEF ConsentInv, Shapes, ClientsInv, Kept, TypeOK
<1> QED
  BY <1>1, InitConsent, NextConsent, InitClients, NextClients, PTL DEF Spec

===============================================================================
