------------------------------ MODULE ProxySignIn ------------------------------
(***************************************************************************)
(* Signing in through the hosted OAuth proxy: MCP clients send one user's  *)
(* browser to /mcp/authorize, the proxy asks for consent, sends the        *)
(* browser on to the wiki, and turns the wiki's answer at                  *)
(* /mcp/oauth/callback into a code for the client.  The browser has one    *)
(* cookie jar for all the sign-ins open in it.                             *)
(*                                                                         *)
(* Handlers await the consent signature, the metadata document of a client *)
(* and the wiki's token endpoint, and other requests run meanwhile: a      *)
(* request is one action up to its await and another one after it.  The    *)
(* document itself, cached by CimdResolver or fetched, is an input.        *)
(***************************************************************************)
EXTENDS Integers, Sequences, SequencesExt

CONSTANTS
    Flow,           \* sign-ins clients may start; also their transaction ids
    Client,         \* client ids
    Cimd,           \* those that are URLs of a client metadata document
    Host,           \* hosts of redirect URIs
    Callback,       \* requests of /mcp/oauth/callback under way at once
    MaxClients,     \* registrations kept (ProxyStore.maxClients)
    MaxGrants       \* bound: times the user grants one sign-in at the wiki

ASSUME SignInAssumption ==
    /\ Flow # {} /\ Client # {} /\ Host # {} /\ Cimd \subseteq Client
    /\ "none" \notin Flow \cup Client
    /\ MaxClients \in Nat \ {0}
    /\ MaxGrants \in Nat

VARIABLES
    clients,   \* InMemoryProxyStore.clients, oldest first
    stored,    \* the clients in the store file
    issued,    \* external: client ids handed out by /register
    cookie,    \* the browser's cookies of this server
    flow,      \* each sign-in, as its browser tab is at
    txn,       \* InMemoryProxyStore.txns
    callback,  \* the callback requests under way
    grants,    \* external: grants of each sign-in at the wiki, codes not spent
    codes,     \* codes handed to the client of each sign-in
    approved   \* history: the clients, each at a redirect host, the user approved

vars == <<clients, stored, issued, cookie, flow, txn, callback,
          grants, codes, approved>>

-----------------------------------------------------------------------------
NoHosts == {}
Pair == [client: Client, host: Host]
NoPair == [client |-> "none", host |-> "none"]

(* mcp_consent names a client and a redirect host; mcp_consent_csrf and     *)
(* mcp_txn are known by the sign-in that set them.                          *)
Cookies == [consent: Pair \cup {NoPair}, csrf: Flow \cup {"none"}, txn: Flow \cup {"none"}]

(* The request parameters, where the tab is, and what a request that awaits *)
(* read of the cookies.  A malformed request has another response type,     *)
(* resource or challenge method than this server takes.                     *)
Stage == {"new", "authorizing", "consentPage", "approving", "denying", "atWiki",
          "granted", "declined", "finished"}
FlowState == [stage: Stage, request: Pair, wellFormed: BOOLEAN, cookieOk: BOOLEAN]
PairOf(f) == flow[f].request

CallbackState == [stage: {"free", "verifying", "exchanging", "denied"},
                  txn: Flow \cup {"none"}, code: 0 .. MaxGrants, consentOk: BOOLEAN]
NoCallback == [stage |-> "free", txn |-> "none", code |-> 0, consentOk |-> FALSE]

TypeOK ==
    /\ clients \in Seq(Client \ Cimd) /\ Len(clients) <= MaxClients /\ IsInjective(clients)
    /\ stored \in Seq(Client \ Cimd)
    /\ issued \subseteq Client
    /\ cookie \in Cookies
    /\ flow \in [Flow -> FlowState]
    /\ txn \in [Flow -> {"none", "open", "gone"}]
    /\ callback \in [Callback -> CallbackState]
    /\ grants \in [Flow -> [given: 0 .. MaxGrants, unspent: SUBSET (1 .. MaxGrants)]]
    /\ codes \in [Flow -> Nat]
    /\ approved \subseteq Pair

Init ==
    /\ clients = <<>> /\ stored = <<>> /\ issued = {}
    /\ cookie = [consent |-> NoPair, csrf |-> "none", txn |-> "none"]
    /\ flow \in [Flow -> [stage: {"new"}, request: Pair, wellFormed: BOOLEAN, cookieOk: {FALSE}]]
    /\ txn = [f \in Flow |-> "none"]
    /\ callback = [r \in Callback |-> NoCallback]
    /\ grants = [f \in Flow |-> [given |-> 0, unspent |-> {}]]
    /\ codes = [f \in Flow |-> 0]
    /\ approved = {}

-----------------------------------------------------------------------------
(* Clients.                                                                 *)

(* putClient: the oldest registrations go before the cap is exceeded. *)
Registered(c) ==
    IF Len(clients) >= MaxClients
    THEN Append(SubSeq(clients, Len(clients) - MaxClients + 2, Len(clients)), c)
    ELSE Append(clients, c)

Register(c) ==
    /\ c \notin Cimd \cup issued
    /\ issued' = issued \cup {c}
    /\ clients' = Registered(c)
    /\ UNCHANGED <<stored, cookie, flow, txn, callback, grants, codes, approved>>

(* The debounced write of the store. *)
Flush ==
    /\ stored # clients
    /\ stored' = clients
    /\ UNCHANGED <<clients, issued, cookie, flow, txn, callback, grants,
                   codes, approved>>

(* resolveClient: the redirect hosts it may find a client to have, none if   *)
(* it finds no client.  A metadata document is external, cached or fetched,  *)
(* edited or out of reach: it may list any hosts.                            *)
Resolved(c) ==
    CASE c \in Cimd           -> SUBSET Host
      [] c \in ToSet(clients) -> {Host}
      [] OTHER                -> {NoHosts}

-----------------------------------------------------------------------------
(* /mcp/authorize and /mcp/consent.                                         *)
InTab(f, s) == flow' = [flow EXCEPT ![f].stage = s, ![f].cookieOk = FALSE]

(* Mutant of ConsentHeld: a cookie of this server will do, whoever it names. *)
ConsentHeldAnywhere(p) == cookie.consent # NoPair

ConsentHeld(p) == cookie.consent = p

(* The client opens the browser; the request reads the consent cookie. *)
Authorize(f) ==
    /\ flow[f].stage = "new"
    /\ PairOf(f).client \in issued \cup Cimd
    /\ flow' = [flow EXCEPT ![f].stage = "authorizing", ![f].cookieOk = ConsentHeld(PairOf(f))]
    /\ UNCHANGED <<clients, stored, issued, cookie, txn, callback, grants,
                   codes, approved>>

(* planAuthorize: an error page for a redirect not established, an error to *)
(* the client for a malformed request, the consent page, or on to the wiki  *)
(* with a new transaction.                                                  *)
PlanAuthorize(f, hosts, consentOk, jar) ==
    IF PairOf(f).host \notin hosts \/ ~flow[f].wellFormed
    THEN InTab(f, "finished") /\ cookie' = jar /\ UNCHANGED txn
    ELSE IF ~consentOk
    THEN InTab(f, "consentPage") /\ cookie' = [jar EXCEPT !.csrf = f] /\ UNCHANGED txn
    ELSE /\ InTab(f, "atWiki")
         /\ txn' = [txn EXCEPT ![f] = "open"]
         /\ cookie' = [jar EXCEPT !.txn = f]

Authorized(f) ==
    /\ flow[f].stage = "authorizing"
    /\ \E hosts \in Resolved(PairOf(f).client) :
         PlanAuthorize(f, hosts, flow[f].cookieOk, cookie)
    /\ UNCHANGED <<clients, stored, issued, callback, grants, codes, approved>>

(* The user decides; the request carries the nonce of its page and the      *)
(* nonce cookie.                                                            *)
Approve(f) ==
    /\ flow[f].stage = "consentPage"
    /\ flow' = [flow EXCEPT ![f].stage = "approving", ![f].cookieOk = (cookie.csrf = f)]
    /\ approved' = approved \cup {PairOf(f)}
    /\ UNCHANGED <<clients, stored, issued, cookie, txn, callback, grants,
                   codes>>

Deny(f) ==
    /\ flow[f].stage = "consentPage"
    /\ InTab(f, "denying")
    /\ UNCHANGED <<clients, stored, issued, cookie, txn, callback, grants,
                   codes, approved>>

(* An approval whose nonce is not the cookie's, or whose metadata document  *)
(* cannot be had, ends with an error page.  One of a registration that was  *)
(* evicted leaves the consent cookie behind.                                *)
Approved(f) ==
    /\ flow[f].stage = "approving"
    /\ \E hosts \in Resolved(PairOf(f).client) :
         IF flow[f].cookieOk /\ (PairOf(f).client \in Cimd => hosts # NoHosts)
         THEN PlanAuthorize(f, hosts, TRUE, [cookie EXCEPT !.consent = PairOf(f)])
         ELSE InTab(f, "finished") /\ UNCHANGED <<cookie, txn>>
    /\ UNCHANGED <<clients, stored, issued, callback, grants, codes, approved>>

(* planDeny: the client is told if its redirect is established.             *)
Denied(f) ==
    /\ flow[f].stage = "denying"
    /\ InTab(f, "finished")
    /\ UNCHANGED <<clients, stored, issued, cookie, txn, callback, grants, codes,
                   approved>>

-----------------------------------------------------------------------------
(* The wiki's own consent page; the user may go back to it.                 *)
UserGrants(f) ==
    /\ flow[f].stage \in {"atWiki", "granted", "declined"}
    /\ grants[f].given < MaxGrants
    /\ grants' = [grants EXCEPT ![f] = [given   |-> @.given + 1,
                                        unspent |-> @.unspent \cup {@.given + 1}]]
    /\ InTab(f, "granted")
    /\ UNCHANGED <<clients, stored, issued, cookie, txn, callback, codes, approved>>

UserDeclines(f) ==
    /\ flow[f].stage \in {"atWiki", "granted"}
    /\ InTab(f, "declined")
    /\ UNCHANGED <<clients, stored, issued, cookie, txn, callback, grants,
                   codes, approved>>

-----------------------------------------------------------------------------
(* /mcp/oauth/callback.                                                     *)

(* The browser returns with a code; reloading the page sends it again.  The *)
(* consent cookie is checked against the transaction.                       *)
ReturnGranted(r, f) ==
    /\ callback[r].stage = "free" /\ flow[f].stage = "granted"
    /\ callback' = [callback EXCEPT ![r] =
         [stage |-> "verifying", txn |-> f, code |-> grants[f].given,
          consentOk |-> txn[f] = "open" /\ ConsentHeld(PairOf(f))]]
    /\ UNCHANGED <<clients, stored, issued, cookie, flow, txn, grants, codes, approved>>

(* A denial falls back on the transaction cookie when the wiki drops state,  *)
(* as MediaWiki does; a code never does.                                     *)
ReturnDeclined(r, f) ==
    /\ callback[r].stage = "free" /\ flow[f].stage = "declined"
    /\ \E state \in {f, cookie.txn} :
         callback' = [callback EXCEPT ![r] = [NoCallback EXCEPT !.stage = "denied", !.txn = state]]
    /\ UNCHANGED <<clients, stored, issued, cookie, flow, txn, grants, codes, approved>>

(* Every answer of the callback expires the transaction cookie. *)
Answer(r) ==
    /\ callback' = [callback EXCEPT ![r] = NoCallback]
    /\ cookie' = [cookie EXCEPT !.txn = "none"]

(* handleCallback on an error: the client of the transaction is told.       *)
DenialReturned(r) ==
    LET f == callback[r].txn IN
    /\ callback[r].stage = "denied"
    /\ IF f # "none" /\ txn[f] = "open"
       THEN txn' = [txn EXCEPT ![f] = "gone"]
       ELSE UNCHANGED txn
    /\ Answer(r)
    /\ UNCHANGED <<clients, stored, issued, flow, grants, codes, approved>>

(* handleCallback on a code, up to the exchange. *)
Verified(r) ==
    /\ callback[r].stage = "verifying"
    /\ IF callback[r].consentOk /\ txn[callback[r].txn] = "open"
       THEN callback' = [callback EXCEPT ![r].stage = "exchanging"] /\ UNCHANGED cookie
       ELSE Answer(r)
    /\ UNCHANGED <<clients, stored, issued, flow, txn, grants, codes, approved>>

Spent(r) == [grants EXCEPT ![callback[r].txn].unspent = @ \ {callback[r].code}]

(* The wiki takes each code once.  The upstream token is stored, with a     *)
(* flush that may fail, and the client gets its code, whatever became of    *)
(* the transaction meanwhile.                                               *)
Exchanged(r) ==
    LET f == callback[r].txn IN
    /\ callback[r].stage = "exchanging" /\ callback[r].code \in grants[f].unspent
    /\ grants' = Spent(r)
    /\ codes' = [codes EXCEPT ![f] = @ + 1]
    /\ txn' = [txn EXCEPT ![f] = "gone"]
    /\ stored' \in {stored, clients}
    /\ Answer(r)
    /\ UNCHANGED <<clients, issued, flow, approved>>

(* Mutant of ExchangeFails: the failure is caught, and the handler goes on. *)
ExchangeFailsUnreturned(r) ==
    LET f == callback[r].txn IN
    /\ callback[r].stage = "exchanging"
    /\ codes' = [codes EXCEPT ![f] = @ + 1]
    /\ txn' = [txn EXCEPT ![f] = "gone"]
    /\ Answer(r)
    /\ UNCHANGED <<clients, stored, issued, flow, grants, approved>>

(* The wiki refuses, or its answer is lost after it took the code. *)
ExchangeFails(r) ==
    /\ callback[r].stage = "exchanging"
    /\ Answer(r)
    /\ grants' \in {grants, Spent(r)}
    /\ UNCHANGED <<clients, stored, issued, flow, txn, codes, approved>>

-----------------------------------------------------------------------------
(* Transactions and cookies expire; the transaction cookie lives as long as *)
(* its transaction, after which it names nothing.                           *)
TransactionExpires(f) ==
    /\ txn[f] = "open"
    /\ txn' = [txn EXCEPT ![f] = "gone"]
    /\ UNCHANGED <<clients, stored, issued, cookie, flow, callback, grants,
                   codes, approved>>

CookieExpires ==
    /\ cookie' \in {[cookie EXCEPT !.consent = NoPair], [cookie EXCEPT !.csrf = "none"]}
    /\ UNCHANGED <<clients, stored, issued, flow, txn, callback, grants, codes, approved>>

(* The server ends and starts again from the store file: transactions are   *)
(* gone, and the requests under way are cut off.                            *)
CutOff(f) == flow[f].stage \in {"authorizing", "approving", "denying"}

Restart ==
    /\ clients' = stored
    /\ txn' = [f \in Flow |-> IF txn[f] = "open" THEN "gone" ELSE txn[f]]
    /\ flow' = [f \in Flow |-> IF CutOff(f) THEN [flow[f] EXCEPT !.stage = "finished",
                                                                   !.cookieOk = FALSE]
                                            ELSE flow[f]]
    /\ callback' = [r \in Callback |-> NoCallback]
    /\ UNCHANGED <<stored, issued, cookie, grants, codes, approved>>

Next ==
    \/ \E c \in Client : Register(c)
    \/ \E f \in Flow :
         \/ Authorize(f) \/ Authorized(f)
         \/ Approve(f) \/ Approved(f) \/ Deny(f) \/ Denied(f)
         \/ UserGrants(f) \/ UserDeclines(f)
         \/ TransactionExpires(f)
    \/ \E r \in Callback :
         \/ \E f \in Flow : ReturnGranted(r, f) \/ ReturnDeclined(r, f)
         \/ DenialReturned(r) \/ Verified(r) \/ Exchanged(r) \/ ExchangeFails(r)
    \/ Flush \/ CookieExpires \/ Restart

Spec == Init /\ [][Next]_vars

(* Sign-ins, redirect hosts and callback requests are alike. *)
Symmetry == Permutations(Flow) \cup Permutations(Host) \cup Permutations(Callback)
            \cup Permutations(Client \ Cimd)

-----------------------------------------------------------------------------
(* authorize.ts: a client gets a code only after the user approved that     *)
(* client at that redirect host, however many sign-ins share the browser.   *)
ConsentBeforeCode == \A f \in Flow : codes[f] > 0 => PairOf(f) \in approved

(* callback.ts: a client gets a code for a grant the user gave at the wiki, *)
(* and one only, with callbacks repeated, interleaved and cut off.          *)
CodePerGrant ==
    \A f \in Flow : codes[f] + Cardinality(grants[f].unspent) <= grants[f].given
=============================================================================
