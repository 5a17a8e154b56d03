# Verification of the MediaWiki MCP server

The repository is a Model Context Protocol server that lets an MCP client work
on MediaWiki wikis, over stdio or over HTTP, alone or as an OAuth proxy of one
wiki. This directory holds TLA+ models of the parts of it that keep state across
awaits, requests, restarts or processes, the TLC runs that check them, and TLAPS
proofs about them. Source paths below are relative to the repository; the code
is in `src/`.

Contents: 1 the system, 2 the modules, 3 the runs, 4 the disagreements found, 5
the proofs, 6 what is not modelled, 7 the plan.

## 1. The system

The server is one Node process: every synchronous stretch of code is atomic, and
everything interleaves at awaits. So an action of these models is one turn of
the event loop, and the interesting states are the ones between two turns.

| component | state it keeps | operations | what is hard | what makes it correct |
|---|---|---|---|---|
| hosted proxy: grants (`auth/authorizationServer/token.ts`, `proxyStore.ts`, `proxyStorePersistence.ts`, `auth/upstreamBearer.ts`, `auth/oauthFlow.ts`) | upstream tokens, the `refreshing` set, the coalesced refreshes, the encrypted file | redeem a code, rotate a refresh token, refresh before a wiki call, flush, hydrate | two code paths refresh one token across an await; revocation during it; a crash between two write-throughs; lost answers | one rotation at a time, a spent token ends the family and nothing else does, no stale or foreign token is served |
| hosted proxy: sign-in (`authorize.ts`, `consent.ts`, `callback.ts`, `register.ts`, `router.ts`, `cimd.ts`) | clients (FIFO-capped), transactions, the document cache, the browser's cookies | register, authorize, consent, callback | sign-ins that share a browser; one transaction used by two callbacks; expiry and eviction during an await | no code without consent, one code per grant |
| stdio sign-in (`auth/stdioSignIn.ts`, `browserAuth.ts`, `tokenRefresh.ts`, `tokenStore.ts`, `tools/oauth-logout.ts`) | pending sign-ins, the credentials file | acquire, refresh, log out | several processes share one file; logout racing a refresh; a key pointed at another wiki | tokens go home, good ones stay, logged-out ones do not come back, writes do not undo each other |
| wiki management (`wikis/wikiRegistry.ts`, `mwnProvider.ts`, `wikiProbe.ts`, `wikiCache.ts`, `runtime/reconcile.ts`, `tools/add-wiki.ts`, `remove-wiki.ts`) | registered wikis; the session, probe and secret caches; the tools a connection offers | add, remove, probe, look up, reconcile | an answer that arrives after the wiki it is about was removed; passes that overlap | a call gets the session of its registration, the offered tools follow the registry, read-only stays |
| rate limiting (`transport/rateLimit.ts`, `limitMiddleware.ts`) | token buckets per caller | take, sweep | cost against burst, the sweep at the cap, the clock | every caller has its bucket whatever is stored, Retry-After is enough |
| readiness (`transport/ready.ts`) | last answer, probe in flight | probe | coalescing against the timeout | every request is answered |
| shutdown (`runtime/shutdown.ts`, `transport/inFlight.ts`) | phase, requests in flight | signal, drain, exit | second signal, grace period, open streams | requests in flight get the grace period, the process ends |
| call bounds (`runtime/dispatcher.ts`, `callDeadline.ts`, `wikis/abortableMwn.ts`) and identity (`requestContext.ts`, `transport/bearerGuard.ts`, `httpDeployment.ts`) | one deadline per call | dispatch, guard, cancel, retry | cancellation against deadline, a write cut off after it was sent, five places that decide who a call acts as | every call ends and says truly how, and acts as its caller |
| exec secrets (`wikis/execSecret.ts`) | a process-wide queue | resolve | a rejection must not stall the queue | every call that waits ends |
| page edits (`tools/update-page.ts` and the other page tools, `services/`) | none of their own: the wiki's | edit, create, move, delete, undelete, protect | reads and guards against a concurrent edit | no edit takes out what it has not seen |
| uploads (`tools/upload-*.ts`, `update-file*.ts`, `imageFacts.ts`) | none of their own | upload, attach facts | one step of several fails; an upload is sent again | what was uploaded is reported |
| entity writes (`tools/extensions/wikibase/`, `embeddable-content/`, `neowiki/`) | the cached vocabulary | edit, add, read again | a response lost after the write | advice to repeat is safe, success is true |
| outbound HTTP (`outbound/`) | redirect chain of one request | fetch | host checks on every hop, DNS between check and connection | connections go where they were checked, credentials stay with their origin, nothing stays open |
| results (`results/`, the reading tools) | none | truncate, continue | offsets, cursors and byte budgets together | following the answers yields every row, every cap is named |
| configuration (`config/`, `transport/httpConfig.ts`) | none after start | load | precedence | |

How they interact: the transport (`transport/streamableHttp.ts`, `mcpRoute.ts`,
`stdio.ts`) authenticates a request (a proxy JWT is resolved by
`upstreamBearer.ts`), counts it in flight, applies the rate limit and hands it
to a session; the dispatcher resolves the wiki the call names, on stdio acquires
its OAuth token, bounds the call in time and runs the tool; the tool gets its
API client from `MwnProvider` and talks to the wiki. Adding or removing a wiki
changes the registry, clears the per-wiki caches and reconciles which tools the
connection offers. The proxy's callback hands a grant to the token endpoint
through the store.

## 2. The modules

| module | models | extends or instantiates |
|---|---|---|
| `GrantFamily` | abstract: what the store promises of a family of refresh tokens | |
| `ProxyGrants` | the hosted proxy from the stored grant to its revocation | implements `GrantFamily` |
| `ProxyGrants_proofs` | theorems | `ProxyGrants` |
| `ProxySignIn` | the hosted proxy from `/authorize` to the code | |
| `ProxySignIn_proofs` | theorems | `ProxySignIn` |
| `WikiCaches` | the registry and the caches of one wiki: session, secret, probe | |
| `WikiManagement` | adding, removing, calling and probing wikis; the offered tools | `WikiCaches` |
| `WikiManagement_proofs` | theorems about the wikis and about the edits of a page | `WikiManagement`, `PageEdits` |
| `CredentialStore` | abstract: a file to which each queued write is applied whole | |
| `StdioTokens` | stdio sign-in and the credentials file | implements `CredentialStore` |
| `StdioTokens_proofs` | theorems | `StdioTokens` |
| `TokenBuckets` | abstract: what the rate limiter promises of each caller's bucket | |
| `HttpService` | the HTTP transport around the tools: limiter, in-flight count, `/ready`, shutdown | implements `TokenBuckets` |
| `HttpService_proofs` | theorems | `HttpService` |
| `ToolCall` | one tool call from its bearer to its answer; the queue of secret commands | |
| `ToolCall_proofs` | theorems about a call and about reading on | `ToolCall`, `ResultPages` |
| `PageEdits` | the tools that write a page, against other editors | |
| `OutboundRequests` | a request to an address somebody else chose, hop by hop | |
| `FileUploads` | the upload tools and their image facts | `OutboundRequests` |
| `FileUploads_proofs` | theorems about both | `FileUploads` |
| `EntityWrites` | writes of Wikibase, EmbeddableContent and NeoWiki; the shared vocabulary | |
| `EntityWrites_proofs` | theorems | `EntityWrites` |
| `Truncation` | pure: byte budgets, offsets and cursors | |
| `ResultPages` | a caller who reads something to its end | `Truncation` |
| `MC...` | the arguments, pages and deployments of the runs | the module named |

`ToolCall` reduces the handler of a tool to one request to the wiki;
`PageEdits`, `EntityWrites` and `FileUploads` are what the handlers of the
writing tools do instead, `ResultPages` what those of the reading tools answer.
`ProxyGrants` is what resolves the bearer that `ToolCall` is given,
`StdioTokens` its sign-in, `WikiCaches` the session it asks for. They are not
composed in one state space: what one hands to the other (a caller, a token, a
session, an answer or its loss) is an input of the other that may take every
value.

Definitions whose comment begins "Mutant of" are plausible mistakes in the
definition they precede. No specification uses them; replacing the definition by
one of them makes the property it is meant for fail, which shows that the
property depends on that line of the code.

### ProxyGrants and GrantFamily

| variable | code |
|---|---|
| `upstream`, `refreshing` | the two maps of `InMemoryProxyStore` (`present` is FALSE for an id not in the map) |
| `code` | the one-time code of the grant in `codes` |
| `disk` | the last snapshot `flushSync` renamed into place |
| `tokenReq` | requests of `handleToken` between the claim and the answer |
| `bearerReq`, `proactive` | callers of `resolveUpstreamBearer`, and `inFlightUpstreamRefresh` |
| `wiki` | the wiki's token endpoint: the tokens it issued and the one it accepts |
| `clock` | which access tokens are within the skew of their expiry, and which expired |
| `held` | the refresh tokens that reached a client |
| `minted`, `spent`, `unread`, `home` | history: ids minted and redeemed, answers nobody read, the wiki that issued a grant and whether its record names it |

One action is one turn: `PresentRefreshToken` is `handleToken` up to its await
(refused, revoked or claimed), `CommitRotation` and `AbandonRotation` what
follows it, `SettleProactive` the continuation of a coalesced refresh for all
its waiters at once. `WikiServes...` and `...CallFails` are the wiki and the
network: a call may fail before or after the wiki acted on it. `Restart`
hydrates from `disk`, possibly for another wiki; `RestartMidCommit` is a kill
between the two write-throughs of a commit. A response to the client may be lost
(`MintPair`). The wiki may grant no refresh token at all (`StoreGrant`); the
stored access token is then served as it is (`ServeStored`). `SignInEarlier` is
a sign-in by a release before the `wikiKey` field, whose records a restart
replays: they pass `issuedFor` on any wiki. Some wikis replace a refresh token
when it is used, others keep it (`Rotating`).

`GrantFamily` is the promise: a family is signed in once, its current refresh id
only moves forward, an id is redeemed only while it is current, and once revoked
the family stays so. `ProxyGrants` implements it (`ImplementsFamily`) while the
file can be written; the ids redeemed are those of `spent`. Two presentations of
one token that both rotated would redeem an id that is not current.

### ProxySignIn

| variable | code |
|---|---|
| `clients`, `txn` | `InMemoryProxyStore.clients`, in insertion order, and `txns` |
| `stored` | the clients in the store file, written a turn after a registration or with the next token |
| `cookie` | the browser's `mcp_consent`, `mcp_consent_csrf` and `mcp_txn`: one of each, for all its tabs |
| `flow` | each sign-in: the request parameters, where its tab is, and what a handler that awaits read of the cookies |
| `callback` | requests of `/mcp/oauth/callback` between their awaits |
| `grants` | the wiki: grants given and codes not yet taken |
| `issued`, `codes`, `approved` | client ids handed out, codes handed to clients, what the user approved |

`Authorize`/`Authorized` and `Approve`/`Approved` (or `Deny`/`Denied`) are the
two halves of the authorize and consent handlers around the await of the
client's metadata document; `PlanAuthorize` is the function both call.
`ReturnGranted`, `Verified`, then `Exchanged` or `ExchangeFails`, are the
callback handler around the verification of the cookie and the exchange with the
wiki; the same code may be sent by two callbacks. The metadata document of a
client whose id is a URL is an input: any redirect hosts, or none.

### WikiCaches and WikiManagement

| variable | code |
|---|---|
| `registry` | `WikiRegistryImpl`: the configuration of each key, with the number of its registration |
| `conn` | `MwnProviderImpl`: the cached promise of a session and the promises that are under way, and the secret cache |
| `probe` | `WikiProbe`: the cached entry and the probe in flight |
| `running` | passes of `reconcileTools` that await their probes |
| `offered` | the tools the connection offers |
| `locked` | history: all wikis were read-only at the start, and the registry has not been empty since |

`AddWiki`, `RemoveWiki`, `UseWiki` (a tool call that asks for the session) and
`LookUp` are the entries; `SecretResolves`, `SessionConnects`, `SessionFails`,
`ProbeSucceeds`, `ProbeFails` and `ProbeDenied` are the answers awaited. Answers
carry the registration they are about, and arrive in any order, also after the
wiki was removed or registered again. `ProbeEnds` includes what the code runs in
the same turn: every pass that awaited the probe hears it, and the pass that has
heard all its probes applies.

### StdioTokens and CredentialStore

| variable | code |
|---|---|
| `conf` | the issuer the configuration of each process has for a key |
| `file`, `tmp` | `credentials.json`, and the temporary file all processes write under one name |
| `chain` | `writeChain` of each process: its queued read-modify-writes |
| `acq` | `StdioSignIn.pending`: `acquireToken` by the await it is at |
| `logout` | the `oauth-logout` call of each process |
| `wiki` | the wiki: refresh tokens issued, and those it still accepts |
| `lost`, `ended` | history: tokens nobody stored, sign-ins logged out |

An acquire reads the store (`ReadsStore`), discovers the wiki (`MetadataKnown`),
refreshes (`WikiRefreshes`, `WikiRefuses`, `RefreshFails`, then `RefreshSettles`
queues the write) or signs in with the browser (`OpensBrowser` to
`CodeExchanged`). A write is three actions (`WriteReads`, `WritesTmp`,
`Renames`), each of which may fail (`WriteFails`). `CredentialStore` is a file
to which each queued write is applied to what the file holds at that moment; one
process implements it.

### HttpService and TokenBuckets

| variable | code |
|---|---|
| `scene` | what the environment does in this behaviour; it never changes |
| `now` | `monotonicNow`, in ticks |
| `buckets`, `anonymous` | the limiter's map (only the keys stored in it), and the bucket of all anonymous callers |
| `request` | requests to `/mcp`: where in the middleware, open or closed by the client, what the limiter said |
| `inFlight` | the counter of `inFlight.ts` |
| `ready`, `poll` | `readyCache`, `readyProbeInFlight` and the requests to `/ready` |
| `proc` | the process: up, draining, closing its streams, exited |

A request passes the origin checks, is counted, resolves its caller, is charged
(`take`, and `sweep` when the map is full) and served. A batch costs one token
per tool call in it; with token forwarding two buckets are charged.
`TokenBuckets` has a bucket for everybody, always: that the code stores only
drained ones, refills them lazily and forgets the refilled is invisible in it.

### ToolCall

| variable | code |
|---|---|
| `scene` | the deployment (transport, proxy, forwarding, shared identity, each wiki's configuration), the calls and their tools |
| `server` | what `checkHttpDeployment` said: started, and the wikis it warned about |
| `call` | each call: its caller, the await it is at, its deadline and cancellation, its attempts, and those still on the way or applied |
| `queue` | the runs of `execSecret.ts`; the command of the first one runs |

`Begin` is the route's bearer guard (or stdio, which has none); `Guard`, the
probe of an extension pack (`Probed`), the stdio sign-in (`SignedIn`), the
secret (`CommandEnds`), the connection (`Connected`) and the handler's request
(`Send`) follow, each ending in the next or in an answer. `Expire` and `Cancel`
race all of them. A request to the wiki is applied, or not, at any time after it
was sent, also when its sender has given up. A write of an extension pack whose
answer carries no result (`Blank`) is looked up: the handler asks for the
session again (`Reacquire`), which for a caller with a token opens a new one
(`Reconnected`), and reads (`Look`, `Looked`).

### PageEdits

| variable | code |
|---|---|
| `revs` | the page: its revisions, each a sequence of sections with a heading level and a body |
| `deleted`, `protection`, `moved` | the rest of the page's state |
| `call` | a call: its arguments, the await it is at, and what it read |

`update-page` reads what its operation needs (the outline, the text of a
section, the whole page), applies its guards (`sectionHeadingGuard`,
`subsectionGuard`, the size cap), and submits. Others edit between these. A piece
of text may transclude headings (`Shows`): they are in the outline the guards
read, and `childrenOf` ends at one of them like at any other heading
(`Children`), though they cannot be edited. How the wiki resolves a section number and merges an edit based on an older revision
is external, and modelled as the code relies on it.

### OutboundRequests and FileUploads

| variable | code |
|---|---|
| `kind`, `pc` | who asked, and the await the request is at |
| `req`, `pinned` | the request of this hop, and the addresses its name was checked to have |
| `resp`, `open` | the response being decided on, and the hops whose body holds a connection |
| `wire` | what was sent, hop by hop, to which kind of address |
| `tries`, `late`, `outcome` | requests a discovery still makes, the deadline, the end |
| `file`, `facts` | the versions of the file on the wiki, and its image facts |
| `tool`, `given`, `stage`, `attempts` | the upload call |
| `answer`, `ours` | what it answered, and what it knows |

A hop is `Lookup`, `Send`, then `Deliver` and `Read`, `Refuse` or `Follow`;
`Screen`, `NextCandidate` and `CheckServer` are the first check, the next request
and the last check of a discovery, `Expire` and `Abort` the deadline. DNS answers anew at each look-up. `FileUploads` adds the fetch by the
wiki where the code leaves it to it, uploads the API client sends again,
versions others upload, and facts that fail.

### EntityWrites

| variable | code |
|---|---|
| `item`, `subject`, `pageId` | the wiki: Wikibase items, NeoWiki subjects, the page a title names |
| `call` | a call: arguments, the await it is at, what it saw when it read again, how often it was sent, which sendings broke and may come late |
| `vocabulary` | the promise `resolveVocabulary` shares: the IDs found, and the roles it lists as missing |
| `labelled`, `others` | history: labels there ever were; changes others made |

A write may be answered, refused, or lost, applied or not. When its connection
breaks, the API client sends it again by itself (`ConnectionBreaks`), and the
first sending may still be applied, at once or later (`Lands`). When an answer
comes without its result, the wiki is done with that sending, and the tool reads
the wiki again (`wikibaseWriteOutcome`) and says whether the call may be
repeated; callers repeat it exactly when they are told so. Arguments may hold
aliases, which the second read does not compare, and statements keyed by
property instead of listed (`odd`), which `hasClaims` takes for none. The
vocabulary starts as the default one (`Default`), and a role that is neither
verified nor found keeps its default ID and is listed as missing.

### Truncation and ResultPages

| variable | code |
|---|---|
| `tool`, `rows` | what is read: rows with a size, revisions with or without a tag, sections, properties |
| `wanted` | what was there when reading began |
| `request`, `todo`, `phase` | the next call, and what an answer left to be read on its own |
| `got`, `beyond` | what was delivered whole; what an answer said it could not deliver |
| `unsaid` | history: what an answer passed over without a word (section 4) |

One action is one call of a tool and the caller's reaction to the answer.
The rows of `smw-query` come in the order of an object's keys (`Orders`): titles
that are numbers first. A page may hold headings of templates, which have no
text and are not offered, and may be read from any section on. A search of
entities may be for what labels contain, which has its limit in the query and no
marker. `Truncation` holds the pure part: the cuts of rows, lines and text at the byte
budget, the caps on the claims of an entity with the marker that names them, and
the forms in which a file is delivered.

## 3. The runs

| run | question | bounds |
|---|---|---|
| `grants_rotating` | is the rotation safe under every interleaving, does it implement `GrantFamily`, does the wiki's token survive, is every claim released | one grant, two token requests, two `/mcp` requests, two wikis of which one rotates, three tokens and refresh ids, one restart |
| `signin_tabs` | do sign-ins that share a browser stay apart | two sign-ins, two registered clients with room for one, one client with a document, two callbacks, one grant each, any number of restarts |
| `wikis_caches` | do calls get the session of their registration, does every pass apply | two wikis of which one is configured at the start, not the default one; two registrations of each, two session attempts, one pass at a time (so the registry never empties) |
| `stdio_one` | are tokens kept, stored and sent home, are calls answered, do the writes of a process undo each other | one process, two keys, two issuers, three tokens, two calls or logouts, one restart |
| `http_service` | is the limiter a bucket per caller, is Retry-After enough, is the drain honest, does anything hang | four scenes: two requests against the limiter with and without forwarding; three polls; two signals against three requests. Two callers, burst 3, batches up to 3, a map of two keys, three ticks |
| `tool_call` | who does a call act as, is its answer true, does it end, is the operator warned | one call, reading or writing, in 896 deployments of two wikis; two calls in one deployment that share the queue of commands; two attempts; a write answered with no result |
| `page_edits` | does an edit take out what others wrote, does replacing a section keep the outline | one call of each of five tools with every argument, and others, on a page of a lead, a section and a subsection, with text that transcludes a heading; three revisions, a cap of two pieces |
| `outbound` | where do connections and credentials go, what stays open, what ends, what does an upload report | two names, one trusted, each with and without https; two redirects; two attempts; one version of another user |
| `entity_writes` | is the advice to repeat safe, is success true, is the vocabulary this wiki's | two calls of any write, three items, two names, searches of two hits, two sendings of which one connection of one call may break, one change of another user |
| `result_pages` | does a reader get everything, is every cap named, does reading end | sixteen tools, lists of up to three rows (four headings, a template's among them, read whole or from any section) of each size class, titles that are numbers or not, limits 1 and 2, a budget of four, one row added while reading |
| `wikis_offered`, `stdio_logout` | a statement of the documentation that the code does not keep (section 4) | smallest that show it |

Why the bounds are enough. Two concurrent requests suffice for `ProxyGrants`:
the claim is per grant and excludes any second one, and what a third presenter
may do (be refused, revoke) a free slot can do again; three tokens and refresh
ids let a rotation follow a rotation that raced another. With the wiki that does
not rotate, both of two racing refreshes may be answered. A cookie holds one
value, so two sign-ins show every way in which one replaces another's; a third
could only replace it again. With room for one registration, any second one
evicts the first. Two registrations of one key let every answer be about an
older one. `OfferedMatchesRegistry` fails with two passes at a time, which
is why it is in a run of its own. In `StdioTokens` a token is refreshed,
replaced and superseded within three, and two keys let two writes meet in the
queue.

A map of two keys is full with one caller and the shared key of forwarding, or
with two callers, and the next key is refused or sweeps; three ticks refill a
bucket. A drain sees requests that began before and after the signal, streams,
and a second signal. The limiter, the probe and the drain share no variable but
the requests, so each scene exercises one. A call's identity depends on its own
wiki and on the default, so two wikis give every deployment; calls meet only in
the queue. A page edit depends on the others through the page alone, and the
page may be any of the small ones when the call submits. A chain of three hops
leaves an origin and comes back. Two entity calls race each other, each may be
sent twice, and three items leave room for a twin and a label of somebody
else's. One broken connection (`MaxBroken`) is a sending of either call repeated by
the client, landing before, between or after what the callers do. Lists of three rows put a row before, at and behind each cut, and rows
come in every relation to the budget: several fit, one fits, one fits only when
narrowed, none does.

Bounds of the models are the constants named `Max...`, and `Width` of
`PageEdits`; `MaxClients`, `MaxTrackedKeys`, `MaxRetryAfter` and `MAX_REDIRECTS`
are the code's. They stand in guards of the environment's actions (the wiki
issues, the user grants, a wiki is added) and never cut a handler short.

`signin_tabs` uses symmetry among sign-ins, hosts, callbacks and registered
clients, `entity_writes` among calls; neither checks liveness. Deadlock is
checked in `result_pages` only: elsewhere a server with nothing to do is idle,
and the bounds end every behaviour.

The type invariants (`TypeOK`) are proved, or were checked with these bounds;
they document the state and are not repeated in the runs.

### Fairness

* `ProxyGrants!Fairness`: a request to the wiki ends (`post()` aborts after
  `TIMEOUT_MS` until the headers have arrived; after them the HTTP client's own
  limit on a silent body applies) and a settled promise runs its continuation.
* `WikiManagement!Fairness`: a probe, a secret command and a session attempt
  end. `WIKI_CONNECT_TIMEOUT_MS`, the fetch timeout and the time limit of a
  secret command bound them.
* `StdioTokens!Fairness`: requests to the wiki end (`post()` again), the browser
  sign-in times out after five minutes, and queued file operations go on.
* `HttpService!Fairness`: the clock ticks, and the timers that have fired run:
  the poll of the drain, the exit, the timeout of the probe.
* `ToolCall!Fairness`: a call's steps are taken and its deadline fires; a probe,
  a command in the queue and a connection are among the steps, each bounded in
  time.
* `OutFairness`: a look-up answers, a response that has come is decided on, and
  the timers of the request fire. Nothing is assumed of the server asked; an
  image search has no timer of its own, and `RequestEnds` leaves it out.
* `ResultPages`: the caller goes on reading.

Nothing is assumed of the wikis, the clients, the users or the clock of other
machines. `PageEdits` and `EntityWrites` state safety only and assume none.

## 4. Disagreements between the code and what is said of it

* `wikis_offered`: two `reconcileTools` passes that overlap apply what each read
  when it started, in the order their probes answer; `remove-wiki` and
  `list-wikis` may be offered with one wiki left, until the next change.
* `stdio_logout`: a refresh or sign-in under way when the user logs out stores
  its token after the entry was deleted.

Limits of the code that the models show and no run asserts away:

* A denial is matched to the last sign-in of the browser (the `mcp_txn` cookie),
  since MediaWiki answers it without `state`: the client of the second sign-in
  is told of the first one's denial. Approving client B replaces the consent of
  client A, whose callback then fails although the user granted it. No code is
  given for either.
* With a default that is none of the wikis, two overlapping removals empty the
  registry, and a wiki added then is writable in a deployment that was read-only
  throughout. `ReadOnlyStays` holds as long as some wiki stays registered, and
  says no more; the theorem covers any number of overlapping passes.
* Stored grants that an earlier release wrote name no wiki: after the proxy is
  pointed at another wiki, their tokens are refreshed and used there
  (`issuedFor`). `SentToItsWiki` excepts them.
* When the wiki granted no refresh token, `resolveUpstreamBearer` serves the
  stored access token after it has expired. `ServesLiveToken` excepts it.
* A write of an extension pack that the wiki answered with no result is looked
  up through a session opened anew when the caller has a token. If that one does
  not connect in time, the caller is told of a failure to connect, with no
  caveat, although the write was sent and may be applied (`UntoldTimeout`;
  `CaveatIsHonest` excepts this answer).
* A transcluded heading of the parent's level or above ends `childrenOf`: the
  subsections behind it are neither guarded (replacing the section without
  `removeSubsections` removes them) nor offered when a section read from
  there is cut. `OutlineKept` and `NothingIsLost` except what it veils (`Veiled`).
* A request that the API client repeats after a broken connection may be applied
  twice in one call, or after the second read called a repetition safe: a second
  item or statement. Statements keyed by property are none to `hasClaims`, and
  the call that adds them is called safe to repeat when it is not.
  `RetryMakesNoTwin` is about the calls' own sendings, of statements in a list.
* An update whose answer was lost is reported as saved when its label and
  description are there; its aliases, removed terms, and statements in another
  form than a list are not compared. `SuccessIsTrue` says which parts are.
* The default ID of a role that was neither verified nor found is reported by
  `describe-entity-type` beside the list that names the role as unresolved; on
  another wiki it is some other item. `VocabularyIsTheWikis` is about the roles
  not in that list.
* Two stdio processes that refresh the token they both read: the one the wiki
  refuses deletes the entry the other has replaced. `ImplementsStore` is about
  one process.
* A refresh that `classifyRefreshError` calls retryable may have used up the
  token.
* A session that fails late costs a second login; the secret cache outlives the
  wiki it was resolved for; a probe in flight caches the identity of a wiki that
  was removed.
* A find-and-replace whose replacement contains the text it looks for is applied
  twice when its answer is lost and the caller repeats it.
* The add tools of EmbeddableContent look for an existing label among ten hits:
  a call repeated on their advice may create a second item.
* Four answers pass something over without a word; `unsaid` collects it, and
  `NothingIsLost` excepts exactly that.
  - `get-page-history` with a tag, started at a revision that lacks the tag, asks
    for one row more than it returns and finds no boundary to take out: when the
    wiki has exactly that many, the last is dropped (`Overlooked`;
    `tests/tools/get-page-history.test.ts` expects the cut).
  - `smw-query` takes its rows from `Object.entries`, which puts titles that are
    integers first: a cut by bytes then resumes past a row it left out
    (`Displaced`), although `offsetCursor.ts` says that continuing resumes at the
    first row left out.
  - `wikibase-search-entities` with `mode=contains` stops at its limit.
  - `get-page` cut inside a section names no subsection behind a transcluded
    heading (`Veiled`).
* `search-page-by-prefix` drops the namespace when the prefix holds a colon that
  names none. `get-file-content` does not fall back to another form when an image
  is over the size limit, and a text longer than the budget is cut, with a marker
  that says so and no way to the rest.

## 5. The proofs

Every safety property of the passing runs is a theorem. The theorems hold for
every value of the constants that satisfies the assumptions named in the
modules; premises beyond those are stated below. What recursive functions and
`CHOOSE` compute (the cuts of `Truncation`, the subtree of a section) is proved
by the least counterexample: the natural numbers are well-founded, so a set of
them that is not empty has a least element (`LeastElement`).

**`ProxyGrants_proofs`**, for any sets of grants, requests and wikis and any
bounds, from `ConstantsAssumption` alone: type correctness; that one request at
a time rotates a family; that tokens go to the wiki that issued them, but for
records that name none; that no expired one is served, but for those stored
without a refresh token; and, while the file can be written, that spent ids stay
spent, that the record names the newest id, that a revoked family stays revoked,
that revocation only answers a concurrent or superseded presentation, and that
`ProxyGrants` implements `GrantFamily`.

None of these is inductive alone. `IInv` adds: a record or a call exists only
for a grant that was signed in (`Begun`); a request in flight holds the claim
unless its family was revoked under it (`Claimed`); the file mirrors memory, a
dropped record has no id, nothing is minted before the code is redeemed, and
held ids are at most, spent ids below, and ids in flight equal to, the newest
(`RotationInv`). The last is needed because a request may come back after its
family is gone, and only the ids tell that nobody rotated it meanwhile. For
`SentToItsWiki`, `HomeInv` says that a record names the wiki of its sign-in or
none, which of the two is settled at the sign-in (`home`).

`StoredTokenAccepted` is about two refresh paths that share no lock, so its
invariant `TokensInv` looks at all calls that are out for a grant at once, the
proactive one and those of token requests (`Slots`). While an answer of a wiki
that rotates is on its way, the store and every other call are behind the wiki
(`Ahead`): so the wiki accepts no second call, and there is never a second
answer to arrive in the wrong order. With no answer on its way the store is up
to date.

**`ProxySignIn_proofs`**, for any number of sign-ins, clients, hosts and
callbacks: no client gets a code for a redirect host the user did not approve it
at. `ConsentInv` follows the consent back, from an exchange under way to the
cookie it was verified against, and from the cookie to the approval that set it.
Each step is one of two kinds: a step of the tabs (`TabStep`), which leaves
callbacks alone and puts only approved requests in the cookie, or a step of a
callback (`CallbackStep`), which leaves the tabs alone. `CodePerGrant` counts:
each grant of the user is unspent, turned into a code, or lost, and an exchange
moves one from the first to the second only if it is there, however many
callbacks carry it. The type invariant says that the registrations never pass
their cap; for it, that no id is registered twice, in memory or in the file.

**`WikiManagement_proofs`**, for any set of wikis and any bounds: a cached
session belongs to the registration that stands and has not failed, a secret is
used only for the registration it was resolved for, and a probe waits only for a
session that will settle (`CachesInv`, stated of one key at a time, since
nothing but the passes relates two keys). `ReadOnlyStays` speaks of the time
until the registry is empty for the first time, and that is all its proof needs
(`Locked`): there is a wiki whose restriction an added one takes over. It holds
for any default and any number of overlapping passes; the run, with one pass at
a time, never gets to an empty registry.

The same module holds the theorems about `PageEdits`, for any page, any sources
transcluding whatever headings, and any number of calls: types (every revision has one lead, in front, whatever
is spliced and merged), `NothingOthersWroteIsLost` and `OutlineKept`. The
invariant `EditIInv` says what a call about to be submitted carries with it:
arguments that `writePlan` let pass, and verdicts of the heading and the
subsection guard that hold at the revision the caller named (`HeadingJudged`,
`RemovalJudged`). They are stated of that revision and not of the page, because
revisions never change (`JudgedKept`) while the page does; that is why the
guards have to read the revision the write is resolved against. The rest is
about text. A merge puts the source where the sections of the base stand now
(`MergesAt`); a section outside that place keeps its level and at most grows by
the text before the first heading that lands behind it (`SplicedKeeps`). If the
guards found the source to fit (`Fits`), the headings of the section's level and
above in the old and in the new page are matched one to one, those behind the
section moved on by what the source adds (`AsMany`). Where a transcluded heading
veils a subsection the guard counts too few, and only the headings of the
section's level and above are proved to stay.

**`StdioTokens_proofs`**. Two kinds of results. For any number of processes that
share the file: types, and `SentHome`. What is needed for it is that every entry
anywhere (in the file, in the temporary file, queued, or held by a call) names
the issuer that granted its token or none (`HomeInv`); writes that undo each
other only exchange honest entries. For one process (`OneProcess`): a good token
leaves the file only for a logout or a key configured anew, the stored one is
good, and the file is a `CredentialStore`. Two processes need not keep any of these,
since nothing serialises their read-modify-writes (section 4). The invariant
says per call what it waits with (`KeyOK`: what it presents is the file's, what
it deletes was refused, what it stores is good) and per queued write that only
the head of the chain has begun, read the file as it still is, and is the one
write of the call it came from (`ChainOK`). A crash empties the chain and leaves
the file; the refinement maps a rename to the abstract write taking effect, what comes
before it to a stutter, a failed write to one that fails, and a crash to the end
of the process.

**`HttpService_proofs`**, for any burst, rate, cap and number of requests: types,
the refinement of `TokenBuckets`, `DrainIsHonest`, and `RetryAfterIsEnough`. The
refinement rests on `SameLevels`: storing, refilling and sweeping
leave what each caller has left as it is, whether its bucket is in the map or
not, because only full buckets leave the map. `RetryAfterIsEnough` has the
premise `CeilingReaches`: a burst refills within the longest wait the limiter
tells. It holds of the defaults (a burst of two seconds' rate, an hour); a
deployment whose burst exceeds an hour of its rate is told the hour, which is
too short. Proving the property showed what it may say. A forwarded call that
one of its two buckets refuses is charged to the other all the same, so the
promise is about the bucket that refused; to see the difference takes three
requests and three keys, more than the run has.

**`ToolCall_proofs`**, for any deployments, wikis, calls and attempts: types,
`ActsAsItsCaller`, `CaveatIsHonest` (but for `UntoldTimeout`, section 4) and
`StrandedIsWarned`. `IInv` counts the
requests of a call, each in transit or applied at most once and none before the
call is ready (`Counted`), relates an answer to that count (`AnswerFits`), and
an identity to the deployment that admitted it (`WhoFits`): the guard is decided
at one await and the request is sent at another. `WarningIsRight` compares the
check at the start with what the guards admit, for every deployment.

The same module holds the theorems about `ResultPages`, for any lists, limits
and budgets: `NothingIsLost` and `EveryCapIsNamed`. The invariant (`ReadIInv`) is
that every item the caller wants is settled (delivered, or refused by name) or
lies ahead of where the caller reads next (`ReadingStaysCovered`). A page keeps
it because its continuation is where its cut was: what a cut by bytes leaves out
begins at the offset, cursor or revision that the answer names, for each of the
ways in which the tools continue. When an answer names no continuation, nothing
is ahead, so everything is settled. What an answer passes over (`unsaid`,
section 4) is neither: the theorems say of every other item that it is read, and
the proof has to say exactly which those are. `EveryCapIsNamed` follows from the caps
alone, entity by entity.

**`FileUploads_proofs`**, about `OutboundRequests` and the upload tools, for any
hosts, origins and number of redirects: types, `ConnectsToTheChecked`,
`ChainKeepsItsPromises`, `NothingHeld` and `UploadIsReported`. The request being
made continues each one already sent (`ChainContinued`): it has credentials only
if that one had and the chain is at its first origin, is secure if that one was,
and has the same body. Hence a detour to another origin loses the credentials
for good.

**`EntityWrites_proofs`**, for any number of calls, items, repetitions and
changes by others: types, `RetryMakesNoTwin`, `SuccessIsTrue` and
`VocabularyIsTheWikis`. The heart is `TwinsOK`: a call that may still be sent,
for the first time or again, has left no item, and a statement only where
sending it again clears the item first. It is about what the call itself sent
and had answered, whatever the client repeated besides (`broken`), and about
statements given as a list. A write then adds one at the most, and
the call is not ahead any more until an answer says that it may be repeated;
`VerdictIsRight` shows that such an answer is given only when no statement of
the call is left. Success means that a sending was applied, or that every
compared part was seen (`CallGood`). Others may remove, relabel and delete meanwhile, but never add
an item or a statement of a call (`Shrinks`). `LabelledOK` carries the
vocabulary from the wiki to the cache, for the roles that were found.

What the constants are assumed to be (checked by TLC on each run): the sets that
must not be empty are not, bounds are natural numbers, the callers of the limiter are none of its two fixed keys, and the
arguments of `EntityWrites` obey the input schemas (`ArgsAssumption`: an added
statement has a value and an item, a site link a page and an item, both nothing
else; a new subject a page). `EditAssumption` says that text before the first heading of a page or a
source stands first, which is what a lead is; `ReadingAssumption` that some
limit is the largest, that rows are numbered apart, and that the titles asked
for at once are a sequence of such numbers.

`FlushFails` (every write of the store file may fail) is a constant:
`TypeCorrect` and `OneOwner` are proved for both of its values, the theorems
that say "while the file can be written" have `~FlushFails` as a premise, and
the run has it FALSE, so that a deferred flush finds nothing to repair there.

Model-checked only, and why:

* every liveness property (`RequestsSettle`, `PassesEnd`, `CallsAnswered`,
  `NothingHangs`, `CallsEnd`, `RequestEnds`, `ReadingEnds`): liveness under
  fairness is out of the prover's reach;
* the part of the type invariant of `WikiManagement` that says `running` is a
  sequence of passes: it is filtered with `SelectSeq`, whose definition is
  recursive;
* `OfferedMatchesRegistry` and `LoggedOutStaysOut` do not hold (section 4).

## 6. What is not modelled

Signatures, encryption, JWT contents and redirect matching appear as their
verdicts. The discovery of a wiki and the metadata of a client are inputs.
Pages, wording, logging, metrics and formatting are left out. Parts that only
run at start (`config/`, `httpConfig.ts`, `createContext.ts`) have no
interleavings. The wikis, DNS, the browser and the user are the environment,
modelled from how the code uses them. Sessions opened with a caller's token are
never cached and left out of `WikiCaches`, and so are the per-request server
instances of the HTTP transport. The cache of `CimdResolver` (lifetimes, its
cap, concurrent fetches) has no module. Of the reading tools, those with one
request and one short answer (diffs, parsing, file metadata, site information)
keep nothing between calls and have no continuation: they are covered by
`ToolCall` and `OutboundRequests` as far as time and addresses go.

## 7. The plan

The modules above are done. What remains, in the order of importance:

| module | next |
|---|---|
| `StdioTokens` | which of the one-process results survive a second process that only reads |
| `CimdCache` | the document cache with lifetimes, the cap and concurrent fetches; two documents, cap 1; entries are never older than a day |
