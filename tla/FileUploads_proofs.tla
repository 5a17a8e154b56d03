-------------------------- MODULE FileUploads_proofs ---------------------------
(***************************************************************************)
(* Theorems about FileUploads and the OutboundRequests beneath it, for any *)
(* names, trusted or not, any number of redirects and of attempts.          *)
(***************************************************************************)
EXTENDS FileUploads, TLAPS

-----------------------------------------------------------------------------
(* The inductive invariant *)

(* A request as it was sent. *)
Sent == [origin: Origin, address: Address, creds: BOOLEAN, body: BOOLEAN]

OutTyping ==
    /\ OutTypeOK
    /\ wire \in Seq(Sent) /\ resp \in Response \cup {NoResponse}

(* Every hop of the chain was sent once, and the one being made is next. *)
HopsCounted ==
    /\ pc \in {"screen", "lookup", "connect"} => Len(wire) = req.followed
    /\ pc \in {"decide", "read", "failed"} => Len(wire) = req.followed + 1

(* What a request may be after those that were sent before it. *)
Continues(r, i) ==
    /\ r.creds => wire[i].creds /\ r.origin = wire[1].origin
    /\ wire[i].origin.secure => r.origin.secure
    /\ r.body = wire[1].body
ChainContinued ==
    pc \in {"screen", "lookup", "connect", "decide"} => \A i \in 1 .. Len(wire) : Continues(req, i)

(* The addresses a connection may use are those that were checked. *)
PinnedChecked == pc = "connect" => IsPublic(req.origin.host, pinned)

UploadTyping ==
    /\ tool \in Tool \cup {"none"} /\ attempts \in 0 .. MaxAttempts
    /\ answer \in [ok: BOOLEAN, uploaded: BOOLEAN] /\ given \in BOOLEAN /\ ours \in BOOLEAN

(* Nothing is done before a tool is called. *)
Called == (tool = "none") = (stage = "idle")

(* Before it is stored nobody knows of an upload, and facts alone upload     *)
(* nothing.                                                                 *)
UploadKnown ==
    /\ stage \in {"idle", "path", "exists", "fetch", "send", "byUrl"} => ~ours /\ ~answer.uploaded
    /\ stage = "facts" => ours = (tool # "facts-only") /\ ~answer.uploaded
    /\ stage \in {"fetch", "send", "byUrl"} => tool # "facts-only"
    /\ stage = "send" => attempts < MaxAttempts
    /\ stage \in {"idle", "path", "exists", "fetch"} => attempts = 0
    /\ stage \in {"idle", "path", "exists", "fetch", "send", "byUrl", "facts", "done"}

OutInv ==
    /\ OutTyping
    /\ HopsCounted
    /\ ChainContinued
    /\ PinnedChecked
    /\ ConnectsToTheChecked
    /\ ChainKeepsItsPromises
    /\ NothingHeld

UploadInv ==
    /\ UploadTyping
    /\ Called
    /\ UploadKnown
    /\ UploadIsReported

(* Without a request there is no chain. *)
Asked == kind = "none" => pc = "idle"

IInv == OutInv /\ Asked /\ UploadInv

-----------------------------------------------------------------------------
(* The end of a chain, and the beginning of the next. *)

Over == pc' \in {"done", "check"} /\ UNCHANGED <<req, wire, pinned, resp>>
Anew ==
    /\ pc' \in {"screen", "lookup"} /\ wire' = <<>> /\ pinned' = {} /\ resp' = NoResponse
    /\ \E origin \in Origin, creds \in BOOLEAN, body \in BOOLEAN :
         req' = [origin |-> origin, creds |-> creds, body |-> body, followed |-> 0]

LEMMA ResultCases ==
    ASSUME NEW result, Result(result)
    PROVE  Over \/ Anew
BY DEF Result, Discovered, Chain, ChainAt, First, HasBody, Over, Anew

LEMMA ChainEnds ==
    ASSUME OutInv, Over \/ Anew, open' = {}, kind' = kind, late' \in BOOLEAN
    PROVE  OutInv'
<1> USE OutboundAssumption DEF OutInv
<1>1. CASE Over
  <2>1. OutTyping'
    BY <1>1 DEF Over, OutTyping, OutTypeOK
  <2>2. HopsCounted' /\ ChainContinued' /\ PinnedChecked'
    BY <1>1 DEF Over, HopsCounted, ChainContinued, PinnedChecked
  <2>3. ConnectsToTheChecked' /\ ChainKeepsItsPromises' /\ NothingHeld'
    BY <1>1 DEF Over, ConnectsToTheChecked, ChainKeepsItsPromises, NothingHeld
  <2> QED
    BY <2>1, <2>2, <2>3
<1>2. CASE Anew
  <2>1. Len(wire') = 0 /\ wire' \in Seq(Sent)
    BY <1>2 DEF Anew
  <2>2. OutTyping'
    BY <1>2, <2>1 DEF Anew, OutTyping, OutTypeOK
  <2>3. HopsCounted' /\ ChainContinued' /\ PinnedChecked'
    BY <1>2, <2>1 DEF Anew, HopsCounted, ChainContinued, PinnedChecked
  <2>4. ConnectsToTheChecked' /\ ChainKeepsItsPromises' /\ NothingHeld'
    BY <1>2, <2>1 DEF ConnectsToTheChecked, ChainKeepsItsPromises, NothingHeld
  <2> QED
    BY <2>2, <2>3, <2>4
<1> QED
  BY <1>1, <1>2

(* A step that sends nothing and moves on along the chain. *)
LEMMA Moves ==
    ASSUME OutInv, UNCHANGED <<kind, req, wire, resp>>, late' \in BOOLEAN,
           OutTypeOK', HopsCounted', NothingHeld', PinnedChecked',
           pc' \in {"screen", "lookup", "connect", "decide"}
             => pc \in {"screen", "lookup", "connect", "decide"}
    PROVE  OutInv'
BY DEF OutInv, OutTyping, ChainContinued, Continues, ConnectsToTheChecked, ChainKeepsItsPromises

-----------------------------------------------------------------------------
(* The steps of a chain *)

LEMMA SendSafe ==
    ASSUME OutInv, NEW a \in Address, NEW r \in Response, Send(a, r)
    PROVE  OutInv'
<1> USE OutboundAssumption DEF OutInv
<1> DEFINE hop == [origin |-> req.origin, address |-> a, creds |-> req.creds, body |-> req.body]
<1>1. CASE late /\ HasDeadline(kind)
  <2>1. Result("aborted") /\ UNCHANGED <<open, kind, late>>
    BY <1>1 DEF Send
  <2>2. open' = {}
    BY <2>1 DEF Send, NothingHeld
  <2> QED
    BY <2>1, <2>2, ResultCases, ChainEnds DEF OutTyping, OutTypeOK
<1>2. CASE ~(late /\ HasDeadline(kind))
  <2>1. /\ pc = "connect" /\ a \in pinned
        /\ wire' = Append(wire, hop)
        /\ UNCHANGED <<req, pinned, kind, late>>
        /\ \/ pc' \in {"failed", "done"} /\ UNCHANGED <<open, resp>>
           \/ pc' = "decide" /\ resp' = r /\ open' = {req.followed}
    BY <1>2 DEF Send, Pinned
  <2>2. hop \in Sent /\ wire \in Seq(Sent) /\ Len(wire) = req.followed
    BY <2>1 DEF OutTyping, OutTypeOK, Sent, HopsCounted
  <2>3. /\ wire' \in Seq(Sent) /\ Len(wire') = Len(wire) + 1
        /\ wire'[Len(wire) + 1] = hop
        /\ \A i \in 1 .. Len(wire) : wire'[i] = wire[i]
    BY <2>1, <2>2
  <2>4. OutTyping'
    <3>1. req.followed \in 0 .. MAX_REDIRECTS /\ open \subseteq 0 .. MAX_REDIRECTS
      BY DEF OutTyping, OutTypeOK
    <3>2. open' \subseteq 0 .. MAX_REDIRECTS /\ Len(wire') <= MAX_REDIRECTS + 1
      <4>1. req.followed \in Nat /\ req.followed <= MAX_REDIRECTS
        BY <3>1
      <4>2. open' \subseteq 0 .. MAX_REDIRECTS
        <5>1. CASE UNCHANGED open
          BY <3>1, <5>1
        <5>2. CASE open' = {req.followed}
          BY <3>1, <5>2
        <5> QED
          BY <2>1, <5>1, <5>2
      <4> QED
        BY <2>2, <2>3, <4>1, <4>2
    <3>3. resp' \in Response \cup {NoResponse}
      BY <2>1 DEF OutTyping
    <3> QED
      BY <2>1, <2>3, <3>2, <3>3 DEF OutTyping, OutTypeOK
  <2>5. HopsCounted' /\ PinnedChecked' /\ NothingHeld'
    BY <2>1, <2>2, <2>3 DEF HopsCounted, PinnedChecked, NothingHeld
  <2>6. \A i \in 1 .. Len(wire) : Continues(req, i)
    BY <2>1 DEF ChainContinued
  <2>7. /\ Len(wire) \in Nat
        /\ Len(wire) = 0 => wire'[1] = hop
        /\ Len(wire) # 0 => 1 \in 1 .. Len(wire) /\ wire'[1] = wire[1]
    BY <2>2, <2>3
  <2>8. wire'[1].body = req.body
    BY <2>2, <2>3, <2>6, <2>7 DEF Continues
  <2>9. ConnectsToTheChecked'
    BY <2>1, <2>2, <2>3 DEF ConnectsToTheChecked, PinnedChecked, IsPublic
  <2>10. ASSUME NEW i \in 1 .. Len(wire'), NEW j \in 1 .. Len(wire'), i <= j
         PROVE  /\ wire'[j].creds => wire'[i].creds /\ wire'[j].origin = wire'[1].origin
                /\ wire'[i].origin.secure => wire'[j].origin.secure
                /\ wire'[j].body = wire'[1].body
    <3>1. CASE j <= Len(wire)
      <4>1. i \in 1 .. Len(wire) /\ j \in 1 .. Len(wire) /\ Len(wire) # 0
        BY <2>3, <2>7, <2>10, <3>1
      <4> QED
        BY <2>3, <2>7, <2>10, <4>1 DEF ChainKeepsItsPromises
    <3>2. CASE j = Len(wire) + 1 /\ i <= Len(wire)
      <4>1. i \in 1 .. Len(wire) /\ Len(wire) # 0 /\ wire'[j] = hop /\ wire'[i] = wire[i]
        BY <2>3, <2>7, <2>10, <3>2
      <4>2. Continues(req, i)
        BY <2>6, <4>1
      <4> QED
        BY <2>7, <2>8, <4>1, <4>2 DEF Continues
    <3>3. CASE j = Len(wire) + 1 /\ i = Len(wire) + 1
      BY <2>2, <2>3, <2>6, <2>7, <2>8, <3>3 DEF Continues
    <3> QED
      BY <2>2, <2>3, <2>10, <3>1, <3>2, <3>3
  <2>11. ChainKeepsItsPromises'
    BY <2>10 DEF ChainKeepsItsPromises
  <2>12. ChainContinued'
    <3> SUFFICES ASSUME NEW i \in 1 .. Len(wire') PROVE Continues(req, i)'
      BY <2>1 DEF ChainContinued
    <3>1. CASE i = Len(wire) + 1
      BY <2>1, <2>2, <2>3, <2>6, <2>7, <2>8, <3>1 DEF Continues
    <3>2. CASE i <= Len(wire)
      BY <2>1, <2>2, <2>3, <2>6, <2>7, <2>8, <3>2 DEF Continues
    <3> QED
      BY <2>2, <2>3, <3>1, <3>2
  <2> QED
    BY <2>4, <2>5, <2>9, <2>11, <2>12
<1> QED
  BY <1>1, <1>2

LEMMA FollowSafe == OutInv /\ Follow => OutInv'
<1> USE OutboundAssumption DEF OutInv
<1> SUFFICES ASSUME OutInv, Follow PROVE OutInv'
  OBVIOUS
<1>1. PICK target \in resp.location :
        req' = [req EXCEPT !.origin = target, !.followed = @ + 1,
                           !.creds = @ /\ SameOrigin(req.origin, target)]
  BY DEF Follow
<1>2. /\ pc = "decide" /\ pc' = "lookup" /\ open' = {}
      /\ UNCHANGED <<kind, pinned, resp, wire, late>>
      /\ req.followed # MAX_REDIRECTS /\ (req.origin.secure => target.secure)
  BY DEF Follow, Refused, Disposed
<1>3. target \in Origin
  BY DEF OutTyping, Response, NoResponse
<1>4. req'.followed \in 0 .. MAX_REDIRECTS /\ Len(wire) = req'.followed
  BY <1>1, <1>2 DEF OutTyping, OutTypeOK, HopsCounted
<1>5. /\ req'.origin = target /\ req'.body = req.body
      /\ req'.creds = (req.creds /\ req.origin = target)
      /\ req' \in [origin: Origin, creds: BOOLEAN, body: BOOLEAN, followed: 0 .. MAX_REDIRECTS]
  BY <1>1, <1>3, <1>4 DEF OutTyping, OutTypeOK, SameOrigin
<1>6. OutTyping'
  BY <1>2, <1>5 DEF OutTyping, OutTypeOK
<1>7. HopsCounted' /\ PinnedChecked' /\ NothingHeld'
  BY <1>2, <1>4 DEF HopsCounted, PinnedChecked, NothingHeld
<1>8. ChainContinued'
  <2> SUFFICES ASSUME NEW i \in 1 .. Len(wire) PROVE Continues(req, i)'
    BY <1>2 DEF ChainContinued
  <2>1. Continues(req, i)
    BY <1>2 DEF ChainContinued
  <2> QED
    BY <1>2, <1>5, <2>1 DEF Continues
<1>9. ConnectsToTheChecked' /\ ChainKeepsItsPromises'
  BY <1>2 DEF ConnectsToTheChecked, ChainKeepsItsPromises
<1> QED
  BY <1>6, <1>7, <1>8, <1>9

LEMMA HopSafe == OutInv /\ Hop => OutInv'
<1> USE OutboundAssumption DEF OutInv
<1> SUFFICES ASSUME OutInv, Hop PROVE OutInv'
  OBVIOUS
<1>1. ASSUME NEW found \in SUBSET Address, Lookup(found) PROVE OutInv'
  <2>1. open = {} /\ UNCHANGED <<kind, open, late>> /\ late \in BOOLEAN
    BY <1>1 DEF Lookup, NothingHeld, OutTyping, OutTypeOK
  <2>2. CASE \E result : Result(result)
    BY <2>1, <2>2, ResultCases, ChainEnds
  <2>3. CASE /\ pc' = "connect" /\ pinned' = found /\ UNCHANGED <<req, wire, resp>>
             /\ IsPublic(req.origin.host, found)
    <3>1. OutTypeOK' /\ HopsCounted' /\ NothingHeld' /\ PinnedChecked'
      BY <1>1, <2>1, <2>3
         DEF Lookup, OutTyping, OutTypeOK, HopsCounted, NothingHeld, PinnedChecked, IsPublic
    <3> QED
      BY <1>1, <2>1, <2>3, <3>1, Moves DEF Lookup
  <2> QED
    BY <1>1, <2>2, <2>3 DEF Lookup
<1>2. ASSUME NextCandidate PROVE OutInv'
  <2>1. open' = {} /\ UNCHANGED <<kind, late>> /\ Result("unreachable")
    BY <1>2 DEF NextCandidate, NothingHeld
  <2> QED
    BY <2>1, ResultCases, ChainEnds DEF OutTyping, OutTypeOK
<1>3. ASSUME Deliver PROVE OutInv'
  <2>1. OutTypeOK' /\ HopsCounted' /\ NothingHeld' /\ PinnedChecked'
    BY <1>3 DEF Deliver, OutTyping, OutTypeOK, HopsCounted, NothingHeld, PinnedChecked
  <2> QED
    BY <1>3, <2>1, Moves DEF Deliver, OutTyping, OutTypeOK
<1>4. ASSUME Refuse \/ Abort \/ \E how \in {"ok", "lost", "tooLarge"} : Read(how)
      PROVE  OutInv'
  <2>1. open' = {} /\ UNCHANGED <<kind, late>> /\ \E result : Result(result)
    BY <1>4 DEF Refuse, Abort, Read, Disposed
  <2> QED
    BY <2>1, ResultCases, ChainEnds DEF OutTyping, OutTypeOK
<1>5. ASSUME Expire PROVE OutInv'
  <2>1. OutTypeOK' /\ HopsCounted' /\ NothingHeld' /\ PinnedChecked'
    BY <1>5 DEF Expire, OutTyping, OutTypeOK, HopsCounted, NothingHeld, PinnedChecked
  <2> QED
    BY <1>5, <2>1, Moves DEF Expire
<1>6. ASSUME NEW h \in Host, NEW found \in SUBSET Address, CheckServer(h, found) PROVE OutInv'
  <2>1. Over /\ open' = {} /\ UNCHANGED <<kind, late>>
    BY <1>6 DEF CheckServer, Over, NothingHeld
  <2> QED
    BY <2>1, ChainEnds DEF OutTyping, OutTypeOK
<1>7. ASSUME NEW found \in SUBSET Address, Screen(found) PROVE OutInv'
  <2>1. OutTypeOK' /\ HopsCounted' /\ NothingHeld' /\ PinnedChecked'
    BY <1>7 DEF Screen, OutTyping, OutTypeOK, HopsCounted, NothingHeld, PinnedChecked
  <2> QED
    BY <1>7, <2>1, Moves DEF Screen, OutTyping, OutTypeOK
<1> QED
  BY <1>1, <1>2, <1>3, <1>4, <1>5, <1>6, <1>7, SendSafe, FollowSafe DEF Hop

LEMMA AskSafe ==
    ASSUME OutInv, NEW k \in Kind, NEW origin \in Origin, NEW creds \in BOOLEAN,
           pc = "idle", Ask(k, origin, creds)
    PROVE  OutInv'
<1> USE OutboundAssumption DEF OutInv
<1>1. Anew /\ UNCHANGED <<open, late>> /\ kind' = k
  BY DEF Ask, ChainAt, First, HasBody, Anew
<1>2. open' = {} /\ Len(wire') = 0 /\ wire' \in Seq(Sent)
  BY <1>1 DEF NothingHeld, Anew
<1>3. OutTyping'
  BY <1>1, <1>2 DEF Anew, OutTyping, OutTypeOK
<1> QED
  BY <1>1, <1>2, <1>3
     DEF Anew, HopsCounted, ChainContinued, PinnedChecked, ConnectsToTheChecked,
         ChainKeepsItsPromises, NothingHeld

LEMMA HopAsked == Hop /\ Asked => Asked'
BY DEF Hop, Asked, Lookup, Send, NextCandidate, Deliver, Refuse, Follow, Read, Expire, Abort,
       CheckServer, Screen

-----------------------------------------------------------------------------
(* The steps of an upload *)

LEMMA OutStutters == ASSUME OutInv, Asked, UNCHANGED outVars PROVE OutInv' /\ Asked'
<1> USE DEF OutInv, outVars
<1>1. OutTyping' /\ HopsCounted' /\ PinnedChecked' /\ Asked'
  BY DEF OutTyping, OutTypeOK, HopsCounted, PinnedChecked, Asked
<1>2. ChainContinued'
  BY DEF ChainContinued, Continues
<1>3. ConnectsToTheChecked' /\ ChainKeepsItsPromises' /\ NothingHeld'
  BY DEF ConnectsToTheChecked, ChainKeepsItsPromises, NothingHeld
<1> QED
  BY <1>1, <1>2, <1>3

(* All but the fetch leave the chain alone, and a fetch begins one. *)
LEMMA UploadOutSafe == OutInv /\ Asked /\ Upload => OutInv' /\ Asked'
<1> SUFFICES ASSUME OutInv, Asked, Upload PROVE OutInv' /\ Asked'
  OBVIOUS
<1>1. CASE Fetch
  <2>1. PICK origin \in Origin : Ask("file", origin, FALSE)
    BY <1>1 DEF Fetch
  <2>2. pc = "idle" /\ kind' = "file"
    BY <1>1, <2>1 DEF Fetch, Asked, Ask
  <2>3. OutInv'
    BY <2>1, <2>2, AskSafe DEF Kind
  <2> QED
    BY <2>2, <2>3 DEF Asked
<1>2. CASE UNCHANGED outVars
  BY <1>2, OutStutters
<1> QED
  BY <1>1, <1>2
     DEF Upload, Begin, ResolvePath, CheckExists, Fetched, SendUpload, UploadByUrl, AttachFacts, Others

(* The call goes on, its answer open, or it is over with an answer. *)
GoesOn(next) == stage' = next /\ UNCHANGED answer
Ends(uploaded) == stage' = "done" /\ \E ok \in BOOLEAN : answer' = [ok |-> ok, uploaded |-> uploaded]

LEMMA EndSafe ==
    ASSUME UploadInv, stage # "idle", NEW uploaded \in BOOLEAN, Ends(uploaded), UNCHANGED <<tool, given>>,
           ours' = uploaded, attempts' \in 0 .. MaxAttempts
    PROVE  UploadInv'
<1>1. /\ answer' \in [ok: BOOLEAN, uploaded: BOOLEAN] /\ answer'.uploaded = uploaded
      /\ stage' = "done"
  BY DEF Ends
<1> QED
  BY <1>1 DEF UploadInv, UploadTyping, Called, UploadKnown, UploadIsReported

(* An upload the wiki confirmed: the facts come next, or the call is over. *)
LEMMA LandedSafe ==
    ASSUME UploadInv, stage # "idle", Landed, UNCHANGED <<tool, given>>, attempts' \in 0 .. MaxAttempts,
           tool # "facts-only", ~answer.uploaded
    PROVE  UploadInv'
<1>1. CASE GoesOn("facts") /\ ours' = TRUE
  BY <1>1 DEF GoesOn, UploadInv, UploadTyping, Called, UploadKnown, UploadIsReported
<1>2. CASE Ends(TRUE) /\ ours' = TRUE
  BY <1>2, EndSafe
<1> QED
  BY <1>1, <1>2 DEF Landed, Answered, GoesOn, Ends

LEMMA UploadSafe == UploadInv /\ Upload => UploadInv'
<1> USE UploadAssumption
<1> SUFFICES ASSUME UploadInv, Upload PROVE UploadInv'
  OBVIOUS
<1>0. UploadTyping /\ Called /\ UploadKnown /\ UploadIsReported
  BY DEF UploadInv
<1>1. ASSUME NEW t \in Tool, NEW g \in BOOLEAN, Begin(t, g) PROVE UploadInv'
  <2>1. /\ tool = "none" /\ tool' \in Tool /\ given' \in BOOLEAN
        /\ stage' \in {"exists", "path"} /\ UNCHANGED <<attempts, answer, ours>>
    BY <1>1 DEF Begin
  <2> QED
    BY <1>0, <2>1 DEF UploadInv, UploadTyping, Called, UploadKnown, UploadIsReported, Tool
<1>2. ASSUME NEW inside \in BOOLEAN, ResolvePath(inside) PROVE UploadInv'
  <2>1. /\ stage = "path" /\ (GoesOn("exists") \/ Ends(FALSE))
        /\ UNCHANGED <<tool, given, attempts, ours>>
    BY <1>2 DEF ResolvePath, Failed, Answered, GoesOn, Ends
  <2>2. CASE GoesOn("exists")
    BY <1>0, <2>1, <2>2 DEF GoesOn, UploadInv, UploadTyping, Called, UploadKnown, UploadIsReported
  <2>3. CASE Ends(FALSE)
    BY <1>0, <2>1, <2>3, EndSafe DEF UploadTyping, Called, UploadKnown
  <2> QED
    BY <2>1, <2>2, <2>3
<1>3. ASSUME CheckExists PROVE UploadInv'
  <2>1. /\ stage = "exists" /\ UNCHANGED <<tool, given, attempts, ours>>
        /\ \/ Ends(FALSE)
           \/ tool = "facts-only" /\ GoesOn("facts")
           \/ tool # "facts-only" /\ (GoesOn("fetch") \/ GoesOn("send"))
    BY <1>3 DEF CheckExists, Failed, Answered, GoesOn, Ends, FromUrl
  <2>2. CASE Ends(FALSE)
    BY <1>0, <2>1, <2>2, EndSafe DEF UploadTyping, Called, UploadKnown
  <2>3. CASE tool = "facts-only" /\ GoesOn("facts")
    BY <1>0, <2>1, <2>3 DEF GoesOn, UploadInv, UploadTyping, Called, UploadKnown, UploadIsReported
  <2>4. CASE tool # "facts-only" /\ GoesOn("fetch")
    BY <1>0, <2>1, <2>4 DEF GoesOn, UploadInv, UploadTyping, Called, UploadKnown, UploadIsReported
  <2>5. CASE tool # "facts-only" /\ GoesOn("send")
    BY <1>0, <2>1, <2>5 DEF GoesOn, UploadInv, UploadTyping, Called, UploadKnown, UploadIsReported
  <2> QED
    BY <2>1, <2>2, <2>3, <2>4, <2>5
<1>4. ASSUME Fetch PROVE UploadInv'
  BY <1>0, <1>4 DEF Fetch, upVars, UploadInv, UploadTyping, Called, UploadKnown, UploadIsReported
<1>5. ASSUME Fetched PROVE UploadInv'
  <2>1. /\ stage = "fetch" /\ UNCHANGED <<tool, given, attempts, ours>>
        /\ Ends(FALSE) \/ GoesOn("send") \/ GoesOn("byUrl")
    BY <1>5 DEF Fetched, Failed, Answered, GoesOn, Ends
  <2>2. CASE Ends(FALSE)
    BY <1>0, <2>1, <2>2, EndSafe DEF UploadTyping, Called, UploadKnown
  <2>3. CASE GoesOn("send")
    BY <1>0, <2>1, <2>3 DEF GoesOn, UploadInv, UploadTyping, Called, UploadKnown, UploadIsReported
  <2>4. CASE GoesOn("byUrl")
    BY <1>0, <2>1, <2>4 DEF GoesOn, UploadInv, UploadTyping, Called, UploadKnown, UploadIsReported
  <2> QED
    BY <2>1, <2>2, <2>3, <2>4
<1>6. ASSUME NEW fate \in {"stored", "storedUnanswered", "lost", "refused"}, SendUpload(fate)
      PROVE  UploadInv'
  <2>1. /\ stage = "send" /\ attempts' = attempts + 1 /\ UNCHANGED <<tool, given>>
        /\ \/ Landed
           \/ Ends(FALSE) /\ UNCHANGED ours
           \/ attempts' < MaxAttempts /\ GoesOn("send") /\ UNCHANGED ours
    BY <1>6 DEF SendUpload, Failed, Answered, GoesOn, Ends
  <2>2. attempts' \in 0 .. MaxAttempts /\ ~ours /\ tool # "facts-only" /\ ~answer.uploaded
    BY <1>0, <2>1 DEF UploadTyping, Called, UploadKnown
  <2>3. CASE Landed
    BY <2>1, <2>2, <2>3, LandedSafe
  <2>4. CASE Ends(FALSE) /\ UNCHANGED ours
    BY <1>0, <2>1, <2>2, <2>4, EndSafe DEF UploadTyping
  <2>5. CASE attempts' < MaxAttempts /\ GoesOn("send") /\ UNCHANGED ours
    BY <1>0, <2>1, <2>2, <2>5 DEF GoesOn, UploadInv, UploadTyping, Called, UploadKnown, UploadIsReported
  <2> QED
    BY <2>1, <2>3, <2>4, <2>5
<1>7. ASSUME NEW stored \in BOOLEAN, UploadByUrl(stored) PROVE UploadInv'
  <2>1. /\ stage = "byUrl" /\ UNCHANGED <<tool, given, attempts>>
        /\ Landed \/ (Ends(FALSE) /\ UNCHANGED ours)
    BY <1>7 DEF UploadByUrl, Failed, Answered, Ends
  <2>2. attempts' \in 0 .. MaxAttempts /\ ~ours /\ tool # "facts-only" /\ ~answer.uploaded
    BY <1>0, <2>1 DEF UploadTyping, Called, UploadKnown
  <2>3. CASE Landed
    BY <2>1, <2>2, <2>3, LandedSafe
  <2>4. CASE Ends(FALSE) /\ UNCHANGED ours
    BY <1>0, <2>1, <2>2, <2>4, EndSafe DEF UploadTyping
  <2> QED
    BY <2>1, <2>3, <2>4
<1>8. ASSUME NEW fate \in {"written", "unknown", "failed"}, AttachFacts(fate) PROVE UploadInv'
  <2>1. stage = "facts" /\ Ends(tool # "facts-only") /\ UNCHANGED <<tool, given, attempts, ours>>
    BY <1>8 DEF AttachFacts, FactsFailure, Answered, Ends
  <2> QED
    BY <1>0, <2>1, EndSafe DEF UploadTyping, Called, UploadKnown
<1>9. ASSUME Others PROVE UploadInv'
  <2>1. UNCHANGED <<tool, given, stage, attempts, answer, ours>>
    BY <1>9 DEF Others
  <2> QED
    BY <1>0, <2>1 DEF UploadInv, UploadTyping, Called, UploadKnown, UploadIsReported
<1> QED
  BY <1>1, <1>2, <1>3, <1>4, <1>5, <1>6, <1>7, <1>8, <1>9 DEF Upload

LEMMA UploadStutters == UploadInv /\ UNCHANGED upVars => UploadInv'
BY DEF upVars, UploadInv, UploadTyping, Called, UploadKnown, UploadIsReported

-----------------------------------------------------------------------------
(* The invariant, and what follows from it *)

LEMMA InitIInv == Init => IInv
<1> SUFFICES ASSUME Init PROVE IInv
  OBVIOUS
<1> USE OutboundAssumption, UploadAssumption DEF Init, OutInit
<1>1. NoRequest.origin \in Origin
  <2>1. \E o \in Origin : TRUE
    <3>1. PICK h \in Host : TRUE
      OBVIOUS
    <3>2. [secure |-> TRUE, host |-> h] \in Origin
      BY DEF Origin
    <3> QED
      BY <3>2
  <2> QED
    BY <2>1 DEF NoRequest
<1>2. req \in [origin: Origin, creds: BOOLEAN, body: BOOLEAN, followed: 0 .. MAX_REDIRECTS]
  BY <1>1 DEF NoRequest
<1>3. Len(wire) = 0 /\ wire \in Seq(Sent)
  OBVIOUS
<1>4. OutTyping
  <2>1. kind = "none" /\ open = {} /\ pinned = {} /\ late \in BOOLEAN /\ resp = NoResponse
    OBVIOUS
  <2> HIDE DEF Init
  <2> QED
    BY <1>2, <1>3, <2>1 DEF OutTyping, OutTypeOK
<1>5. HopsCounted /\ ChainContinued /\ PinnedChecked /\ NothingHeld /\ Asked
  BY <1>3 DEF HopsCounted, ChainContinued, PinnedChecked, NothingHeld, Asked
<1>6. ConnectsToTheChecked /\ ChainKeepsItsPromises
  BY <1>3 DEF ConnectsToTheChecked, ChainKeepsItsPromises
<1>7. UploadTyping /\ Called /\ UploadKnown /\ UploadIsReported
  <2>1. /\ tool = "none" /\ stage = "idle" /\ attempts = 0 /\ given \in BOOLEAN /\ ours \in BOOLEAN /\ ~ours
        /\ answer = [ok |-> FALSE, uploaded |-> FALSE]
    BY DEF NoAnswer
  <2>2. answer \in [ok: BOOLEAN, uploaded: BOOLEAN] /\ ~answer.uploaded
    BY <2>1
  <2> HIDE DEF Init
  <2> QED
    BY <2>1, <2>2 DEF UploadTyping, Called, UploadKnown, UploadIsReported
<1> QED
  BY <1>4, <1>5, <1>6, <1>7 DEF IInv, OutInv, UploadInv

LEMMA NextIInv == IInv /\ [Next]_vars => IInv'
<1> SUFFICES ASSUME IInv, [Next]_vars PROVE IInv'
  OBVIOUS
<1> USE DEF IInv
<1>1. CASE Upload
  BY <1>1, UploadOutSafe, UploadSafe
<1>2. CASE Hop /\ UNCHANGED upVars
  BY <1>2, HopSafe, HopAsked, UploadStutters
<1>3. ASSUME NEW k \in Kind \ {"file"}, NEW o \in Origin, NEW creds \in BOOLEAN,
             Ask(k, o, creds), UNCHANGED upVars
      PROVE  IInv'
  <2>1. pc = "idle" /\ kind' = k /\ k # "none"
    BY <1>3 DEF Ask, Asked, Kind
  <2>2. OutInv'
    BY <1>3, <2>1, AskSafe
  <2> QED
    BY <1>3, <2>1, <2>2, UploadStutters DEF Asked
<1>4. CASE UNCHANGED vars
  BY <1>4, OutStutters, UploadStutters DEF vars
<1> QED
  BY <1>1, <1>2, <1>3, <1>4 DEF Next

(* The inductive invariant: the chain of an outbound request (safeFetch) and   *)
(* the upload that waits for it agree, whatever fails or times out between.    *)
THEOREM Invariant == Spec => []IInv
BY InitIInv, NextIInv, PTL DEF Spec

(* Every variable keeps its type, and no chain sends more requests than the  *)
(* redirects that may be followed and one (outboundRequest, upload tools).  *)
THEOREM TypeCorrect == Spec => []TypeOK
<1>1. IInv => TypeOK
  BY DEF IInv, OutInv, OutTyping, UploadInv, UploadTyping, TypeOK
<1> QED
  BY <1>1, Invariant, PTL

(* Whatever DNS answers between the check and the connection, every          *)
(* connection goes to a public address or a trusted host (ssrfGuard,        *)
(* buildPinnedAgent).                                                        *)
THEOREM ConnectsToTheCheckedHolds == Spec => []ConnectsToTheChecked
<1>1. IInv => ConnectsToTheChecked
  BY DEF IInv, OutInv
<1> QED
  BY <1>1, Invariant, PTL

(* Credentials go to the first origin of a chain only, also not back to it   *)
(* after a detour; https is not left, and no hop drops the body             *)
(* (requestChain, nextHop).                                                 *)
THEOREM ChainKeepsItsPromisesHolds == Spec => []ChainKeepsItsPromises
<1>1. IInv => ChainKeepsItsPromises
  BY DEF IInv, OutInv
<1> QED
  BY <1>1, Invariant, PTL

(* On every way a request may end, and on every redirect, the response that  *)
(* is not read is let go of (destroyBody).                                  *)
THEOREM NothingHeldHolds == Spec => []NothingHeld
<1>1. IInv => NothingHeld
  BY DEF IInv, OutInv
<1> QED
  BY <1>1, Invariant, PTL

(* A finished upload says that the file was uploaded exactly when the call   *)
(* knows it was (submitUpload, wrapImageFactsFailure).                      *)
THEOREM UploadIsReportedHolds == Spec => []UploadIsReported
<1>1. IInv => UploadIsReported
  BY DEF IInv, UploadInv
<1> QED
  BY <1>1, Invariant, PTL

===============================================================================
