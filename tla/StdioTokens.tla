------------------------------ MODULE StdioTokens ------------------------------
(***************************************************************************)
(* Signing in on the stdio transport: tool calls that need the OAuth token *)
(* of a wiki take it from the credentials file, refresh it, or open the    *)
(* user's browser; oauth-logout deletes it.  Every process of this server  *)
(* on the machine shares the one file.  A process serialises its own       *)
(* read-modify-writes of it (writeChain); nothing serialises two.          *)
(*                                                                         *)
(* One action is what a process does between two awaits, or what the wiki  *)
(* or the user does meanwhile.  When a token is about to expire is left    *)
(* open: any stored token may be found fresh or stale.                     *)
(***************************************************************************)
EXTENDS Integers, Sequences, SequencesExt

CONSTANTS
    Process,     \* processes of the server sharing the credentials file
    Key,         \* wiki keys
    Issuer,      \* authorization servers a key may be configured for
    FixedPort,   \* is oauth2CallbackPort set
    MaxToken,    \* bound: refresh tokens issued under one key
    MaxCalls,    \* bound: calls that need a token or log out, all processes together
    MaxRestarts  \* bound: restarts and crashes, all processes together

ASSUME TokensAssumption ==
    /\ Process # {} /\ Key # {} /\ Issuer # {}
    /\ FixedPort \in BOOLEAN
    /\ MaxToken \in Nat \ {0} /\ MaxCalls \in Nat /\ MaxRestarts \in Nat
    /\ "unrecorded" \notin Issuer

VARIABLES
    conf,      \* the issuer each process's configuration has for each key
    file,      \* credentials.json
    tmp,       \* credentials.json.tmp, the same name for every process
    chain,     \* writeChain of each process: its writes not finished
    acq,       \* StdioSignIn.pending of each process
    logout,    \* the oauth-logout call of each process
    wiki,      \* external: the refresh tokens issued, and those still good
    lost,      \* history: keys with a token nobody stored
    ended,     \* history: sign-ins that were logged out
    calls, restarts

vars == <<conf, file, tmp, chain, acq, logout, wiki, lost, ended, calls, restarts>>

-----------------------------------------------------------------------------
(* A stored token is known by its refresh token, numbered in the order of   *)
(* issue (0: no entry).  issuer is what the entry says of its origin, from  *)
(* and session are its real origin and the sign-in it descends from.        *)
Token == 0 .. MaxToken
Entry == [token: Token, issuer: Issuer \cup {"unrecorded"}, from: Issuer, session: Token]
AnyIssuer == CHOOSE w \in Issuer : TRUE
NoEntry == [token |-> 0, issuer |-> "unrecorded", from |-> AnyIssuer, session |-> 0]
Credentials == [Key -> Entry]

(* tmp absent, or the credentials written to it. *)
NoTmp == [exists |-> FALSE, content |-> [k \in Key |-> NoEntry]]

(* A queued write: put or delete of one key, for an acquire or a logout,    *)
(* and how far it has come; cur is the file as it read it.                  *)
WriteOp == [by: {"acquire", "logout"}, key: Key, entry: Entry,
            stage: {"queued", "read", "written"}, cur: Credentials]

NewWrite(by, k, entry) ==
    [by |-> by, key |-> k, entry |-> entry, stage |-> "queued",
     cur |-> [j \in Key |-> NoEntry]]

(* acquireToken, by where it waits.  cur is the entry it read, later the    *)
(* one it stores.                                                           *)
Stage == {"none", "reading", "metadata", "refreshing", "refreshed", "rejected", "failed",
          "deleting", "browse", "listening", "exchanging", "storing"}
Acquire == [stage: Stage, cur: Entry]
Idle == [stage |-> "none", cur |-> NoEntry]

Logout == [stage: {"none", "reading", "deleting"}, targets: SUBSET Key]
NoLogout == [stage |-> "none", targets |-> {}]

TypeOK ==
    /\ conf \in [Process -> [Key -> Issuer]]
    /\ file \in Credentials
    /\ tmp \in [exists: BOOLEAN, content: Credentials]
    /\ chain \in [Process -> Seq(WriteOp)]
    /\ acq \in [Process -> [Key -> Acquire]]
    /\ logout \in [Process -> Logout]
    /\ wiki \in [Key -> [issued: Token, good: SUBSET Token]]
    /\ lost \subseteq Key
    /\ ended \in [Key -> SUBSET Token]
    /\ calls \in 0 .. MaxCalls
    /\ restarts \in 0 .. MaxRestarts

(* The file may hold a token of an earlier configuration, or one saved      *)
(* before issuers were recorded.                                            *)
Init ==
    /\ conf \in [Process -> [Key -> Issuer]]
    /\ \A p, q \in Process : conf[p] = conf[q]
    /\ file \in [Key -> {NoEntry} \cup
         {[token |-> 1, issuer |-> i, from |-> w, session |-> 1] :
             i \in Issuer \cup {"unrecorded"}, w \in Issuer}]
    /\ \A k \in Key : file[k].token = 1 => file[k].issuer \in {file[k].from, "unrecorded"}
    /\ tmp = NoTmp
    /\ chain = [p \in Process |-> <<>>]
    /\ acq = [p \in Process |-> [k \in Key |-> Idle]]
    /\ logout = [p \in Process |-> NoLogout]
    /\ wiki = [k \in Key |-> [issued |-> file[k].token, good |-> {file[k].token} \ {0}]]
    /\ lost = {}
    /\ ended = [k \in Key |-> {}]
    /\ calls = 0 /\ restarts = 0

-----------------------------------------------------------------------------
(* acquireToken.  At(p, k, s, e): the acquire of k now waits at s with e.   *)
At(p, k, s, e) == acq' = [acq EXCEPT ![p][k] = [stage |-> s, cur |-> e]]
Reject(p, k) == At(p, k, "none", NoEntry)
Queue(p, op) == chain' = [chain EXCEPT ![p] = Append(@, op)]

\* Untouched by an acquire that neither writes nor talks to the token endpoint.
others == <<conf, file, tmp, logout, ended, calls, restarts>>

(* A call needs the token of k; later calls share the same promise. *)
Acquires(p, k) ==
    /\ acq[p][k].stage = "none"
    /\ At(p, k, "reading", NoEntry)
    /\ calls < MaxCalls /\ calls' = calls + 1
    /\ UNCHANGED <<conf, file, tmp, chain, logout, wiki, lost, ended, restarts>>

ReadsStore(p, k) ==
    /\ acq[p][k].stage = "reading"
    /\ IF file[k] = NoEntry THEN At(p, k, "browse", NoEntry)
                            ELSE At(p, k, "metadata", file[k])
    /\ UNCHANGED <<others, chain, wiki, lost>>

(* Mutant of Usable: an entry is taken whoever issued it. *)
UsableAnyIssuer(p, k, e) == TRUE

(* A token another issuer granted is replaced, not sent there. *)
Usable(p, k, e) == e.issuer \in {"unrecorded", conf[p][k]}

(* refreshIfNeeded, after the wiki's metadata is known: the stored token is *)
(* returned while fresh; a stale one is refreshed, or replaced if it came   *)
(* without a refresh token.                                                 *)
MetadataKnown(p, k) ==
    /\ acq[p][k].stage = "metadata"
    /\ LET e == acq[p][k].cur IN
       IF Usable(p, k, e)
       THEN \/ Reject(p, k)          \* fresh: the call has its token
            \/ At(p, k, "refreshing", e)
            \/ At(p, k, "browse", NoEntry)
       ELSE At(p, k, "browse", NoEntry)
    /\ UNCHANGED <<others, chain, wiki, lost>>

(* The store cannot be read, or the metadata not be fetched. *)
AcquireFails(p, k) ==
    /\ acq[p][k].stage \in {"reading", "metadata", "browse"}
    /\ Reject(p, k)
    /\ UNCHANGED <<others, chain, wiki, lost>>

(* The wiki's token endpoint: a good token it granted is replaced by a new  *)
(* one, others are refused.  The answer may be lost on the way back.        *)
Granted(k, v) == [issued |-> wiki[k].issued + 1,
                  good   |-> (wiki[k].good \ {v}) \cup {wiki[k].issued + 1}]
Accepts(p, k) == acq[p][k].cur.token \in wiki[k].good /\ acq[p][k].cur.from = conf[p][k]

WikiRefreshes(p, k) ==
    /\ acq[p][k].stage = "refreshing"
    /\ Accepts(p, k)
    /\ wiki[k].issued < MaxToken
    /\ wiki' = [wiki EXCEPT ![k] = Granted(k, acq[p][k].cur.token)]
    /\ \/ /\ At(p, k, "refreshed",
                [acq[p][k].cur EXCEPT !.token = wiki'[k].issued, !.issuer = conf[p][k]])
          /\ UNCHANGED lost
       \/ /\ At(p, k, "failed", acq[p][k].cur)
          /\ lost' = lost \cup {k}
    /\ UNCHANGED <<others, chain>>

(* A wiki that does not rotate answers without a refresh token, and the old *)
(* one is kept.                                                             *)
WikiRefreshesSame(p, k) ==
    /\ acq[p][k].stage = "refreshing"
    /\ Accepts(p, k)
    /\ At(p, k, "refreshed", [acq[p][k].cur EXCEPT !.issuer = conf[p][k]])
    /\ UNCHANGED <<others, chain, wiki, lost>>

WikiRefuses(p, k) ==
    /\ acq[p][k].stage = "refreshing"
    /\ ~Accepts(p, k)
    /\ At(p, k, "rejected", acq[p][k].cur)
    /\ UNCHANGED <<others, chain, wiki, lost>>

(* A failed request, or a consumer the wiki does not let refresh. *)
RefreshFails(p, k) ==
    /\ acq[p][k].stage = "refreshing"
    /\ At(p, k, "failed", acq[p][k].cur)
    /\ UNCHANGED <<others, chain, wiki, lost>>

(* Mutants of RefreshSettles: the new token is used but not stored, and any *)
(* failure deletes the entry.                                               *)
RefreshUnstored(p, k) ==
    /\ \/ /\ acq[p][k].stage = "rejected"
          /\ Queue(p, NewWrite("acquire", k, NoEntry))
          /\ At(p, k, "deleting", acq[p][k].cur)
       \/ /\ acq[p][k].stage \in {"refreshed", "failed"}
          /\ Reject(p, k)
          /\ UNCHANGED chain
    /\ UNCHANGED <<others, wiki, lost>>

RefreshDeletes(p, k) ==
    /\ \/ /\ acq[p][k].stage = "refreshed"
          /\ Queue(p, NewWrite("acquire", k, acq[p][k].cur))
          /\ At(p, k, "storing", acq[p][k].cur)
       \/ /\ acq[p][k].stage \in {"rejected", "failed"}
          /\ Queue(p, NewWrite("acquire", k, NoEntry))
          /\ At(p, k, "deleting", acq[p][k].cur)
    /\ UNCHANGED <<others, wiki, lost>>

(* doRefresh, after the answer: store the new token, delete the entry of a  *)
(* rejected one, or let the call fail.                                      *)
RefreshSettles(p, k) ==
    LET e == acq[p][k].cur IN
    /\ \/ /\ acq[p][k].stage = "refreshed"
          /\ Queue(p, NewWrite("acquire", k, e))
          /\ At(p, k, "storing", e)
       \/ /\ acq[p][k].stage = "rejected"
          /\ Queue(p, NewWrite("acquire", k, NoEntry))
          /\ At(p, k, "deleting", e)
       \/ /\ acq[p][k].stage = "failed"
          /\ Reject(p, k)
          /\ UNCHANGED chain
    /\ UNCHANGED <<others, wiki, lost>>

-----------------------------------------------------------------------------
(* browserAuth.  With a fixed callback port only one sign-in can listen.    *)
Listening == {pk \in Process \X Key : acq[pk[1]][pk[2]].stage = "listening"}

OpensBrowser(p, k) ==
    /\ acq[p][k].stage = "browse"
    /\ IF FixedPort /\ Listening # {} THEN Reject(p, k) ELSE At(p, k, "listening", NoEntry)
    /\ UNCHANGED <<others, chain, wiki, lost>>

(* The callback brings a code. *)
UserConsents(p, k) ==
    /\ acq[p][k].stage = "listening"
    /\ At(p, k, "exchanging", NoEntry)
    /\ UNCHANGED <<others, chain, wiki, lost>>

(* The user declines, or the callback lacks the state or the code. *)
SignInRefused(p, k) ==
    /\ acq[p][k].stage = "listening"
    /\ Reject(p, k)
    /\ UNCHANGED <<others, chain, wiki, lost>>

(* Mutant of SignInTimesOut: no timer is armed for a fixed callback port. *)
SignInWaits(p, k) == ~FixedPort /\ SignInRefused(p, k)

(* Five minutes pass without a callback. *)
SignInTimesOut(p, k) ==
    /\ acq[p][k].stage = "listening"
    /\ Reject(p, k)
    /\ UNCHANGED <<others, chain, wiki, lost>>

CodeExchanged(p, k) ==
    /\ acq[p][k].stage = "exchanging"
    /\ \/ /\ wiki[k].issued < MaxToken
          /\ wiki' = [wiki EXCEPT ![k] = Granted(k, 0)]
          /\ LET e == [token |-> wiki'[k].issued, issuer |-> conf[p][k],
                       from |-> conf[p][k], session |-> wiki'[k].issued]
             IN  Queue(p, NewWrite("acquire", k, e)) /\ At(p, k, "storing", e)
       \/ Reject(p, k) /\ UNCHANGED <<chain, wiki>>
    /\ UNCHANGED <<others, lost>>

-----------------------------------------------------------------------------
(* oauth-logout of one wiki or of all: it reads the file and deletes, one   *)
(* after the other, the entries it read.                                    *)
LogoutStarts(p, ks) ==
    /\ logout[p].stage = "none"
    /\ logout' = [logout EXCEPT ![p] = [stage |-> "reading", targets |-> ks]]
    /\ calls < MaxCalls /\ calls' = calls + 1
    /\ UNCHANGED <<conf, file, tmp, chain, acq, wiki, lost, ended, restarts>>

Deletes(p, ks) ==
    IF ks = {}
    THEN logout' = [logout EXCEPT ![p] = NoLogout] /\ UNCHANGED chain
    ELSE \E k \in ks :
           /\ logout' = [logout EXCEPT ![p] = [stage |-> "deleting", targets |-> ks \ {k}]]
           /\ Queue(p, NewWrite("logout", k, NoEntry))

LogoutReads(p) ==
    /\ logout[p].stage = "reading"
    /\ Deletes(p, {k \in logout[p].targets : file[k] # NoEntry})
    /\ UNCHANGED <<conf, file, tmp, acq, wiki, lost, ended, calls, restarts>>

(* The file cannot be read or parsed. *)
LogoutFails(p) ==
    /\ logout[p].stage = "reading"
    /\ logout' = [logout EXCEPT ![p] = NoLogout]
    /\ UNCHANGED <<conf, file, tmp, chain, acq, wiki, lost, ended, calls, restarts>>

-----------------------------------------------------------------------------
(* chainedWrite: a process runs its writes one at a time, in order.         *)

(* Mutant of Turn: a write does not wait for the one before it. *)
TurnAlways(p, i) == TRUE

Turn(p, i) == i = 1

WriteReads(p, i) ==
    /\ Turn(p, i) /\ chain[p][i].stage = "queued"
    /\ chain' = [chain EXCEPT ![p][i].stage = "read", ![p][i].cur = file]
    /\ UNCHANGED <<conf, file, tmp, acq, logout, wiki, lost, ended, calls, restarts>>

WritesTmp(p, i) ==
    /\ Turn(p, i) /\ chain[p][i].stage = "read"
    /\ tmp' = [exists |-> TRUE,
               content |-> [chain[p][i].cur EXCEPT ![chain[p][i].key] = chain[p][i].entry]]
    /\ chain' = [chain EXCEPT ![p][i].stage = "written"]
    /\ UNCHANGED <<conf, file, acq, logout, wiki, lost, ended, calls, restarts>>

(* Whoever asked for the write goes on: a stored token is handed to the     *)
(* call, a deleted one replaced by a sign-in, a logout deletes its next.    *)
WriteEnds(p, i, ok) ==
    LET op == chain[p][i]
        rest == RemoveAt(chain[p], i)
        here == acq[p][op.key]
    IN  IF op.by = "acquire"
        THEN /\ chain' = [chain EXCEPT ![p] = rest]
             /\ IF ok /\ here.stage = "deleting" THEN At(p, op.key, "browse", NoEntry)
                                                 ELSE Reject(p, op.key)
             /\ lost' = IF ~ok /\ here.stage = "storing" THEN lost \cup {op.key} ELSE lost
             /\ UNCHANGED <<logout, ended>>
        ELSE /\ \/ /\ ok /\ logout[p].targets # {}
                   /\ \E k \in logout[p].targets :
                        /\ logout' = [logout EXCEPT ![p].targets = @ \ {k}]
                        /\ chain' = [chain EXCEPT ![p] =
                                       Append(rest, NewWrite("logout", k, NoEntry))]
                \/ /\ ~ok \/ logout[p].targets = {}
                   /\ logout' = [logout EXCEPT ![p] = NoLogout]
                   /\ chain' = [chain EXCEPT ![p] = rest]
             /\ ended' = IF ok THEN [ended EXCEPT ![op.key] = @ \cup ({file[op.key].session} \ {0})]
                               ELSE ended
             /\ UNCHANGED <<acq, lost>>

(* rename(tmp, file) fails when another process has renamed tmp already. *)
Renames(p, i) ==
    /\ Turn(p, i) /\ chain[p][i].stage = "written"
    /\ file' = IF tmp.exists THEN tmp.content ELSE file
    /\ tmp' = NoTmp
    /\ WriteEnds(p, i, tmp.exists)
    /\ UNCHANGED <<conf, wiki, calls, restarts>>

WriteFails(p, i) ==
    /\ Turn(p, i)
    /\ WriteEnds(p, i, FALSE)
    /\ UNCHANGED <<conf, file, tmp, wiki, calls, restarts>>

-----------------------------------------------------------------------------
(* A process ends and is started again, perhaps with a key pointed at       *)
(* another wiki.  What it had in flight is gone.                            *)
Unstored(p) == {k \in Key : acq[p][k].stage \in {"refreshing", "refreshed", "storing"}}

Restart(p) ==
    /\ restarts < MaxRestarts
    /\ restarts' = restarts + 1
    /\ \E c \in [Key -> Issuer] : conf' = [conf EXCEPT ![p] = c]
    /\ chain' = [chain EXCEPT ![p] = <<>>]
    /\ acq' = [acq EXCEPT ![p] = [k \in Key |-> Idle]]
    /\ logout' = [logout EXCEPT ![p] = NoLogout]
    /\ lost' = lost \cup Unstored(p)
    /\ UNCHANGED <<file, tmp, wiki, ended, calls>>

Next ==
    \E p \in Process :
        \/ \E k \in Key :
             \/ Acquires(p, k) \/ ReadsStore(p, k) \/ MetadataKnown(p, k)
             \/ AcquireFails(p, k)
             \/ WikiRefreshes(p, k) \/ WikiRefreshesSame(p, k)
             \/ WikiRefuses(p, k) \/ RefreshFails(p, k)
             \/ RefreshSettles(p, k)
             \/ OpensBrowser(p, k) \/ UserConsents(p, k) \/ SignInRefused(p, k)
             \/ SignInTimesOut(p, k) \/ CodeExchanged(p, k)
        \/ \E ks \in {Key} \cup {{k} : k \in Key} : LogoutStarts(p, ks)
        \/ LogoutReads(p) \/ LogoutFails(p)
        \/ \E i \in DOMAIN chain[p] :
             WriteReads(p, i) \/ WritesTmp(p, i) \/ Renames(p, i) \/ WriteFails(p, i)
        \/ Restart(p)

(* Requests to the wiki and the sign-in in the browser are bounded in time, *)
(* and file operations end.                                                 *)
Fairness ==
    \A p \in Process :
        /\ \A k \in Key :
             /\ WF_vars(ReadsStore(p, k)) /\ WF_vars(MetadataKnown(p, k))
             /\ WF_vars(WikiRefuses(p, k) \/ RefreshFails(p, k))
             /\ WF_vars(RefreshSettles(p, k))
             /\ WF_vars(OpensBrowser(p, k)) /\ WF_vars(SignInTimesOut(p, k))
             /\ WF_vars(CodeExchanged(p, k))
        /\ WF_vars(LogoutReads(p))
        /\ WF_vars(\E i \in DOMAIN chain[p] :
                      WriteReads(p, i) \/ WritesTmp(p, i) \/ Renames(p, i))

Spec == Init /\ [][Next]_vars /\ Fairness

-----------------------------------------------------------------------------
(* A refresh token is only sent to the wiki that granted it, whatever the   *)
(* key was configured for before, unless it dates from before issuers were  *)
(* recorded.                                                                *)
SentHome ==
    \A p \in Process, k \in Key :
        acq[p][k].stage = "refreshing" =>
            acq[p][k].cur.from = conf[p][k] \/ acq[p][k].cur.issuer = "unrecorded"

(* docs/configuration.md: a user who signed in sees the consent page again  *)
(* only if the token is revoked or they log out.  So a token that its wiki  *)
(* still accepts leaves the file only for a logout: a refresh that was      *)
(* refused deletes the entry it presented, not one stored meanwhile.        *)
LoggingOut(k) ==
    \E p \in Process : \E i \in DOMAIN chain[p] :
        chain[p][i].by = "logout" /\ chain[p][i].key = k

GoodTokenKept ==
    [][ \A k \in Key :
          file[k].token \in wiki[k].good /\ file'[k] = NoEntry
            => \/ LoggingOut(k)
               \/ \E p \in Process : file[k].from # conf[p][k] ]_vars

(* oauth-logout: a sign-in that was logged out does not come back into the  *)
(* file.                                                                    *)
LoggedOutStaysOut == \A k \in Key : file[k].session \notin ended[k]

(* The stored refresh token is good, unless an answer of the wiki was lost  *)
(* or a new one is on its way into the file.                                *)
StoredTokenGood ==
    \A k \in Key :
        /\ file[k] # NoEntry /\ k \notin lost
        /\ \A p \in Process : acq[p][k].stage = "none"
        => file[k].token \in wiki[k].good

(* Writes of one process never undo each other: the file behaves as the     *)
(* abstract store, which applies each write to the file as it is.           *)
Asked(op) == [key |-> op.key, entry |-> op.entry]
Pending == [p \in Process |-> [i \in DOMAIN chain[p] |-> Asked(chain[p][i])]]
Store == INSTANCE CredentialStore WITH writes <- Pending
ImplementsStore == Store!Spec

(* Every call that waits for a token is answered, and every logout too.     *)
CallsAnswered ==
    \A p \in Process :
        /\ \A k \in Key : acq[p][k].stage # "none" ~> acq[p][k].stage = "none"
        /\ logout[p].stage # "none" ~> logout[p].stage = "none"
=============================================================================
