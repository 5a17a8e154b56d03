--------------------------- MODULE OutboundRequests ----------------------------
(***************************************************************************)
(* Requests this server makes itself to addresses others choose: each hop   *)
(* of a redirect chain is looked up, checked, sent to the addresses that    *)
(* were checked, and its response followed, refused or read under a cap.    *)
(*                                                                         *)
(* A request is made for: an image search, the probe of a wiki, the         *)
(* discovery of a wiki (several requests under one deadline), a SPARQL      *)
(* query (a POST), or the bytes of a file to upload.                        *)
(***************************************************************************)
EXTENDS Integers, Sequences

CONSTANTS
    Host,           \* names
    Trusted,        \* MCP_TRUSTED_HOSTS
    MAX_REDIRECTS,  \* hops followed
    ApiTries        \* requests discovery makes before and after it reads the page

Origin == [secure: BOOLEAN, host: Host]
Address == {"public", "private"}
Kind == {"search", "probe", "discover", "sparql", "file"}

ASSUME OutboundAssumption ==
    /\ Host # {} /\ Trusted \subseteq Host
    /\ MAX_REDIRECTS \in Nat /\ ApiTries \in Nat

VARIABLES
    kind,    \* what the request is made for, or "none"
    pc,      \* idle, screen, lookup, connect, decide, read, failed, check, done
    req,     \* the request of this hop
    pinned,  \* the addresses its name was checked to have
    resp,    \* the response being decided on
    open,    \* the hops whose response body holds a connection
    wire,    \* the requests of this chain as they were sent
    tries,   \* discover: the requests still to make
    late,    \* the deadline has passed
    outcome  \* how it ended

outVars == <<kind, pc, req, pinned, resp, open, wire, tries, late, outcome>>

-----------------------------------------------------------------------------
(* makeApiRequest from image-search carries no signal. *)
HasDeadline(k) == k # "search"

HasBody(k) == k = "sparql"
IsCapped(k) == k \in {"sparql", "file"}

NoRequest == [origin |-> CHOOSE o \in Origin : TRUE, creds |-> FALSE, body |-> FALSE, followed |-> 0]
NoResponse == [class |-> "none", location |-> {}]

First(k, origin, creds) ==
    [origin |-> origin, creds |-> creds, body |-> HasBody(k), followed |-> 0]

(* A chain begins. *)
ChainAt(step, k, origin, creds) ==
    /\ req' = First(k, origin, creds)
    /\ pc' = step /\ wire' = <<>> /\ pinned' = {} /\ resp' = NoResponse

Chain(k, origin, creds) == ChainAt("lookup", k, origin, creds)

(* Candidate script paths, then the page, then the paths it names.           *)
Plan == [i \in 1 .. 2 * ApiTries + 1 |-> IF i = ApiTries + 1 THEN "page" ELSE "api"]

(* Headers that authenticate are a caller's to set (postForm); discovery     *)
(* checks the address it was given before the first of its requests.        *)
Ask(k, origin, creds) ==
    /\ kind = "none" /\ kind' = k
    /\ creds => k = "sparql"
    /\ ChainAt(IF k = "discover" THEN "screen" ELSE "lookup", k, origin, creds)
    /\ tries' = IF k = "discover" THEN Plan ELSE <<>>
    /\ UNCHANGED <<open, late, outcome>>

(* Discovery goes on to the next candidate unless this one answered as a    *)
(* wiki, or the deadline has passed; the address the wiki gives for itself  *)
(* is checked last.                                                         *)
Discovered(result) ==
    IF result = "aborted" \/ (late /\ Head(tries) = "page")
    THEN pc' = "done" /\ outcome' = "timeout" /\ UNCHANGED <<req, wire, pinned, resp, tries>>
    ELSE IF result = "ok" /\ Head(tries) = "api"
    THEN pc' = "check" /\ UNCHANGED <<req, wire, pinned, resp, tries, outcome>>
    ELSE IF Len(tries) = 1
    THEN pc' = "done" /\ outcome' = "notFound" /\ UNCHANGED <<req, wire, pinned, resp, tries>>
    ELSE /\ tries' = Tail(tries) /\ UNCHANGED outcome
         /\ \E origin \in Origin : Chain("discover", origin, FALSE)

(* The chain has ended. *)
Result(result) ==
    IF kind = "discover" THEN Discovered(result)
    ELSE pc' = "done" /\ outcome' = result /\ UNCHANGED <<req, wire, pinned, resp, tries>>

-----------------------------------------------------------------------------
(* One hop *)

IsPublic(host, found) == host \in Trusted \/ found \subseteq {"public"}

(* assertPublicDestination: every address of the name is checked.  DNS may  *)
(* answer differently each time.                                            *)
Lookup(found) ==
    /\ pc = "lookup"
    /\ IF found = {} THEN Result("unreachable")
       ELSE IF ~IsPublic(req.origin.host, found) THEN Result("blocked")
       ELSE pc' = "connect" /\ pinned' = found /\ UNCHANGED <<req, wire, resp, tries, outcome>>
    /\ UNCHANGED <<kind, open, late>>

(* Mutant of Pinned: the connection looks the name up again. *)
PinnedAgain == Address

(* buildPinnedAgent: the connection uses the addresses that were checked. *)
Pinned == pinned

(* fetch: the request is sent and a response comes, or the connection fails. *)
Send(address, response) ==
    /\ pc = "connect" /\ address \in Pinned
    /\ IF late /\ HasDeadline(kind) THEN Result("aborted") /\ UNCHANGED open
       ELSE /\ wire' = Append(wire, [origin |-> req.origin, address |-> address,
                                     creds |-> req.creds, body |-> req.body])
            /\ IF response.class = "lost"
               THEN /\ IF kind = "discover" THEN pc' = "failed" /\ UNCHANGED outcome
                       ELSE pc' = "done" /\ outcome' = "unreachable"
                    /\ UNCHANGED <<open, resp>>
               ELSE pc' = "decide" /\ resp' = response /\ open' = {req.followed} /\ UNCHANGED outcome
            /\ UNCHANGED <<req, pinned, tries>>
    /\ UNCHANGED <<kind, late>>

(* A candidate of discovery that could not be reached. *)
NextCandidate ==
    /\ pc = "failed" /\ Result("unreachable")
    /\ UNCHANGED <<kind, open, late>>

(* Mutant of Disposed: the body of a response that is not read stays. *)
DisposedNot == open

(* destroyBody *)
Disposed == {}

(* Mutant of SameOrigin: the scheme and the port are not compared. *)
SameHost(a, b) == a.host = b.host

SameOrigin(a, b) == a = b

(* nextHop: what the response asks for, and whether it is refused. *)
Redirects == resp.class = "garbled" \/ resp.location # {}

Refused ==
    \/ req.followed = MAX_REDIRECTS
    \/ resp.class = "garbled"
    \/ \E target \in resp.location : req.origin.secure /\ ~target.secure
    \/ req.body /\ resp.class # "kept"

Deliver ==
    /\ pc = "decide" /\ ~Redirects
    /\ pc' = "read"
    /\ UNCHANGED <<kind, req, pinned, resp, open, wire, tries, late, outcome>>

Refuse ==
    /\ pc = "decide" /\ Redirects /\ Refused
    /\ open' = Disposed
    /\ Result("refused")
    /\ UNCHANGED <<kind, late>>

Follow ==
    /\ pc = "decide" /\ Redirects /\ ~Refused
    /\ open' = Disposed
    /\ \E target \in resp.location :
         req' = [req EXCEPT !.origin = target, !.followed = @ + 1,
                            !.creds = @ /\ SameOrigin(req.origin, target)]
    /\ pc' = "lookup"
    /\ UNCHANGED <<kind, pinned, resp, wire, tries, late, outcome>>

(* The body: an error's is cut, a capped one refused when it is too large,   *)
(* any may break off, and one that stalls waits for the deadline.           *)
Read(how) ==
    /\ pc = "read"
    /\ how = "tooLarge" => IsCapped(kind) /\ resp.class = "ok"
    /\ open' = Disposed
    /\ Result(IF resp.class # "ok" THEN "status" ELSE IF how = "lost" THEN "unreachable" ELSE how)
    /\ UNCHANGED <<kind, late>>

(* The timer of the request. *)
Expire ==
    /\ pc \notin {"idle", "done"} /\ HasDeadline(kind) /\ ~late
    /\ late' = TRUE
    /\ UNCHANGED <<kind, pc, req, pinned, resp, open, wire, tries, outcome>>

(* Mutant of Abort: a body that stalls is not aborted. *)
AbortConnecting ==
    /\ late /\ pc = "connect"
    /\ open' = {}
    /\ Result("aborted")
    /\ UNCHANGED <<kind, late>>

(* What waits for the network is aborted. *)
Abort ==
    /\ late /\ pc \in {"connect", "read"}
    /\ open' = {}
    /\ Result(IF pc = "read" /\ resp.class # "ok" THEN "status" ELSE "aborted")
    /\ UNCHANGED <<kind, late>>

(* The first check of discovery throws: no other candidate is tried. *)
Screen(found) ==
    /\ pc = "screen"
    /\ IF found # {} /\ IsPublic(req.origin.host, found) THEN pc' = "lookup" /\ UNCHANGED outcome
       ELSE pc' = "done" /\ outcome' = IF found = {} THEN "unreachable" ELSE "blocked"
    /\ UNCHANGED <<kind, req, pinned, resp, open, wire, tries, late>>

(* The last check of discovery: the server the wiki names. *)
CheckServer(host, found) ==
    /\ pc = "check"
    /\ pc' = "done"
    /\ outcome' = IF found = {} THEN "unreachable" ELSE IF IsPublic(host, found) THEN "ok" ELSE "blocked"
    /\ UNCHANGED <<kind, req, pinned, resp, open, wire, tries, late>>

-----------------------------------------------------------------------------
(* External: what a server answers: a success, an error, a redirect that    *)
(* drops the body or keeps it, one whose Location is no URL, or nothing.    *)
Response ==
    {[class |-> c, location |-> {}] : c \in {"ok", "error", "garbled", "lost"}}
      \cup {[class |-> c, location |-> {l}] : c \in {"moved", "kept"}, l \in Origin}

OutInit ==
    /\ kind = "none" /\ pc = "idle" /\ req = NoRequest /\ pinned = {} /\ resp = NoResponse
    /\ open = {} /\ wire = <<>> /\ tries = <<>> /\ late = FALSE /\ outcome = "none"

Hop ==
    \/ \E found \in SUBSET Address : Screen(found) \/ Lookup(found)
    \/ \E a \in Address, r \in Response : Send(a, r)
    \/ NextCandidate \/ Deliver \/ Refuse \/ Follow
    \/ \E how \in {"ok", "lost", "tooLarge"} : Read(how)
    \/ Expire \/ Abort
    \/ \E h \in Host, found \in SUBSET Address : CheckServer(h, found)

(* Timers fire, names are looked up, and steps of this server are taken; a   *)
(* server that was asked need never answer.                                 *)
OutFairness ==
    /\ WF_outVars(\E found \in SUBSET Address : Screen(found) \/ Lookup(found))
    /\ WF_outVars(NextCandidate \/ Deliver \/ Refuse \/ Follow)
    /\ WF_outVars(Expire) /\ WF_outVars(Abort)
    /\ WF_outVars(\E h \in Host, found \in SUBSET Address : CheckServer(h, found))

-----------------------------------------------------------------------------
(* Properties *)

OutTypeOK ==
    /\ kind \in Kind \cup {"none"} /\ open \subseteq 0 .. MAX_REDIRECTS
    /\ req \in [origin: Origin, creds: BOOLEAN, body: BOOLEAN, followed: 0 .. MAX_REDIRECTS]
    /\ pinned \subseteq Address /\ late \in BOOLEAN
    /\ Len(wire) <= MAX_REDIRECTS + 1

(* Every connection goes to a public address, or to a host the operator      *)
(* trusts, whatever DNS answers between the check and the connection.       *)
ConnectsToTheChecked ==
    \A i \in 1 .. Len(wire) : wire[i].address = "public" \/ wire[i].origin.host \in Trusted

(* Along a chain credentials are sent to the origin it began at and to no    *)
(* other, also not after a detour; https is not left; and a body is sent at  *)
(* every hop or the chain is refused (requestChain).                        *)
ChainKeepsItsPromises ==
    \A i, j \in 1 .. Len(wire) : i <= j =>
      /\ wire[j].creds => wire[i].creds /\ wire[j].origin = wire[1].origin
      /\ wire[i].origin.secure => wire[j].origin.secure
      /\ wire[j].body = wire[1].body

(* A response that is not being decided on or read holds no connection.      *)
NothingHeld == open # {} => pc \in {"decide", "read"} /\ open = {req.followed}

(* Every request but an image search ends, also when the server goes silent, *)
(* and discovery ends within one deadline for all its requests.             *)
RequestEnds == (pc \in {"screen", "lookup"} /\ kind # "search") ~> (pc = "done")

===============================================================================
