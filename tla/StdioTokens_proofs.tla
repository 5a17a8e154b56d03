-------------------------- MODULE StdioTokens_proofs --------------------------
(***************************************************************************)
(* Theorems about StdioTokens: a refresh token is sent only to the wiki    *)
(* that granted it, for every number of processes, keys and issuers; and   *)
(* the credentials file of one process implements its abstract store, and  *)
(* keeps the good token of every key, whatever calls, sign-ins, logouts    *)
(* and crashes there are.                                                  *)
(***************************************************************************)
EXTENDS StdioTokens, SequenceTheorems, TLAPS

(* The sequence of pending writes *)

LEMMA FirstRemoved ==
    ASSUME NEW S, NEW s \in Seq(S), 1 \in DOMAIN s
    PROVE  /\ RemoveAt(s, 1) = Tail(s) /\ RemoveAt(s, 1) \in Seq(S) /\ s # <<>> /\ Head(s) = s[1]
           /\ Len(s) \in Nat \ {0} /\ DOMAIN s = 1 .. Len(s)
           /\ Len(RemoveAt(s, 1)) = Len(s) - 1
           /\ \A i \in 1 .. Len(s) - 1 : RemoveAt(s, 1)[i] = s[i + 1]
<1>1. Len(s) \in Nat /\ DOMAIN s = 1 .. Len(s) /\ Len(s) >= 1 /\ s # <<>>
  BY LenProperties
<1>2. Tail(s) \in Seq(S) /\ Len(Tail(s)) = Len(s) - 1 /\ \A i \in 1 .. Len(s) - 1 : Tail(s)[i] = s[i + 1]
  BY <1>1, HeadTailProperties
<1>3. SubSeq(s, 1, 0) = <<>> /\ Tail(s) = SubSeq(s, 2, Len(s))
  BY <1>1, SubSeqEmpty, TailIsSubSeq
<1>4. RemoveAt(s, 1) = <<>> \o Tail(s)
  BY <1>3 DEF RemoveAt
<1>5. RemoveAt(s, 1) = Tail(s)
  BY <1>2, <1>4, ConcatEmptySeq
<1> DEFINE t == RemoveAt(s, 1)
<1>6. t = Tail(s)
  BY <1>5
<1> HIDE DEF t
<1>7. /\ t \in Seq(S) /\ Len(t) = Len(s) - 1
      /\ \A i \in 1 .. Len(s) - 1 : t[i] = s[i + 1]
  BY <1>2, <1>6
<1>8. Head(s) = s[1] /\ Len(s) \in Nat \ {0}
  BY <1>1 DEF Head
<1> QED
  BY <1>1, <1>6, <1>7, <1>8 DEF t

LEMMA Appended ==
    ASSUME NEW S, NEW s \in Seq(S), NEW e \in S
    PROVE  /\ Append(s, e) \in Seq(S) /\ Len(s) \in Nat
           /\ DOMAIN s = 1 .. Len(s) /\ DOMAIN Append(s, e) = 1 .. Len(s) + 1
           /\ \A i \in 1 .. Len(s) : Append(s, e)[i] = s[i]
           /\ Append(s, e)[Len(s) + 1] = e
BY AppendProperties, LenProperties

-----------------------------------------------------------------------------
(* The shape of the state.  What an entry says of its issuer is true, if it  *)
(* says anything, wherever the entry is: in the file, the temporary file, a  *)
(* write on its way or the hands of a call.                                  *)
HonestEntry == {e \in Entry : e.issuer \in {e.from, "unrecorded"}}
HonestFile == [Key -> HonestEntry]
HonestWrite == [by: {"acquire", "logout"}, key: Key, entry: HonestEntry,
                stage: {"queued", "read", "written"}, cur: HonestFile]
HonestAcquire == [stage: Stage, cur: HonestEntry]
WikiState == [issued: Token, good: SUBSET Token]

Shapes ==
    /\ conf \in [Process -> [Key -> Issuer]]
    /\ file \in HonestFile
    /\ tmp \in [exists: BOOLEAN, content: HonestFile]
    /\ chain \in [Process -> Seq(HonestWrite)]
    /\ acq \in [Process -> [Key -> HonestAcquire]]
    /\ logout \in [Process -> Logout]
    /\ wiki \in [Key -> WikiState]
    /\ lost \subseteq Key
    /\ ended \in [Key -> SUBSET Token]
    /\ calls \in 0 .. MaxCalls
    /\ restarts \in 0 .. MaxRestarts

(* A token that is being sent is one whose issuer the process checked.       *)
Checked ==
    \A p \in Process, k \in Key :
        acq[p][k].stage = "refreshing" => acq[p][k].cur.issuer \in {"unrecorded", conf[p][k]}

HomeInv == Shapes /\ Checked

LEMMA Bounds ==
    /\ MaxToken \in Nat /\ MaxCalls \in Nat /\ MaxRestarts \in Nat /\ 0 \in Token /\ 1 \in Token
    /\ \A n \in Token : n < MaxToken => n + 1 \in Token
    /\ AnyIssuer \in Issuer /\ "unrecorded" \notin Issuer
BY TokensAssumption DEF Token, AnyIssuer

LEMMA EntryType ==
    ASSUME NEW e \in HonestEntry
    PROVE  /\ e.token \in Token /\ e.from \in Issuer /\ e.session \in Token
           /\ e.issuer \in Issuer \cup {"unrecorded"} /\ e.issuer \in {e.from, "unrecorded"}
BY DEF HonestEntry, Entry

LEMMA EntryMade ==
    ASSUME NEW t \in Token, NEW w \in Issuer, NEW s \in Token, NEW i \in {w, "unrecorded"}
    PROVE  [token |-> t, issuer |-> i, from |-> w, session |-> s] \in HonestEntry
BY DEF HonestEntry, Entry

LEMMA NoEntryFacts == NoEntry \in HonestEntry /\ NoEntry.token = 0
<1>1. NoEntry \in HonestEntry
  BY EntryMade, Bounds DEF NoEntry
<1> QED
  BY <1>1 DEF NoEntry

LEMMA NewWriteFacts ==
    ASSUME NEW by \in {"acquire", "logout"}, NEW k \in Key, NEW e \in HonestEntry
    PROVE  LET op == NewWrite(by, k, e) IN
           /\ op \in HonestWrite /\ op.by = by /\ op.key = k /\ op.entry = e /\ op.stage = "queued"
<1> DEFINE none == [j \in Key |-> NoEntry]
<1>1. none \in HonestFile
  BY NoEntryFacts DEF HonestFile
<1>2. NewWrite(by, k, e) = [by |-> by, key |-> k, entry |-> e, stage |-> "queued", cur |-> none]
  BY DEF NewWrite
<1> HIDE DEF none
<1> QED
  BY <1>1, <1>2 DEF HonestWrite

LEMMA WriteType ==
    ASSUME NEW op \in HonestWrite
    PROVE  /\ op.by \in {"acquire", "logout"} /\ op.key \in Key /\ op.entry \in HonestEntry
           /\ op.stage \in {"queued", "read", "written"} /\ op.cur \in HonestFile
BY DEF HonestWrite

LEMMA AcquireType ==
    ASSUME Shapes, NEW p \in Process, NEW k \in Key
    PROVE  /\ acq[p][k] \in HonestAcquire /\ acq[p][k].stage \in Stage /\ acq[p][k].cur \in HonestEntry
           /\ file[k] \in HonestEntry /\ conf[p][k] \in Issuer /\ chain[p] \in Seq(HonestWrite)
           /\ wiki[k] \in WikiState /\ logout[p] \in Logout
BY DEF Shapes, HonestAcquire, HonestFile

LEMMA IdleFacts == Idle \in HonestAcquire /\ Idle.stage = "none" /\ NoLogout \in Logout
BY NoEntryFacts DEF Idle, HonestAcquire, Stage, NoLogout, Logout

(* The types of the module are those without the honesty. *)
LEMMA ShapesType == Shapes => TypeOK
<1> SUFFICES ASSUME Shapes PROVE TypeOK
  OBVIOUS
<1>1. HonestEntry \subseteq Entry
  BY DEF HonestEntry
<1>2. HonestFile \subseteq Credentials
  BY <1>1 DEF HonestFile, Credentials
<1>3. HonestWrite \subseteq WriteOp
  BY <1>1, <1>2 DEF HonestWrite, WriteOp
<1>4. Seq(HonestWrite) \subseteq Seq(WriteOp)
  BY <1>3, SeqMonotonic
<1>5. HonestAcquire \subseteq Acquire
  BY <1>1 DEF HonestAcquire, Acquire
<1>6. chain \in [Process -> Seq(WriteOp)]
  BY <1>4 DEF Shapes
<1>7. acq \in [Process -> [Key -> Acquire]]
  BY <1>5 DEF Shapes
<1>8. tmp \in [exists: BOOLEAN, content: Credentials]
  BY <1>2 DEF Shapes
<1> QED
  BY <1>2, <1>6, <1>7, <1>8 DEF Shapes, TypeOK, WikiState

LEMMA HomeInit == Init => HomeInv
<1> SUFFICES ASSUME Init PROVE HomeInv
  OBVIOUS
<1>1. file \in HonestFile
  <2> SUFFICES ASSUME NEW k \in Key PROVE file[k] \in HonestEntry
    BY DEF Init, HonestFile
  <2>1. CASE file[k] = NoEntry
    BY <2>1, NoEntryFacts
  <2>2. CASE file[k] # NoEntry
    <3>1. PICK i \in Issuer \cup {"unrecorded"}, w \in Issuer :
            file[k] = [token |-> 1, issuer |-> i, from |-> w, session |-> 1]
      BY <2>2 DEF Init
    <3>2. i \in {w, "unrecorded"}
      BY <3>1 DEF Init
    <3> QED
      BY <3>1, <3>2, EntryMade, Bounds
  <2> QED
    BY <2>1, <2>2
<1>2. tmp \in [exists: BOOLEAN, content: HonestFile]
  <2> DEFINE none == [k \in Key |-> NoEntry]
  <2>1. none \in HonestFile /\ tmp = [exists |-> FALSE, content |-> none]
    BY NoEntryFacts DEF HonestFile, Init, NoTmp
  <2> HIDE DEF none
  <2> QED
    BY <2>1
<1>3. chain \in [Process -> Seq(HonestWrite)]
  BY EmptySeq DEF Init
<1>4. acq \in [Process -> [Key -> HonestAcquire]] /\ \A p \in Process, k \in Key : acq[p][k] = Idle
  BY IdleFacts DEF Init
<1>5. logout \in [Process -> Logout]
  BY IdleFacts DEF Init
<1>6. wiki \in [Key -> WikiState]
  <2> SUFFICES ASSUME NEW k \in Key PROVE [issued |-> file[k].token, good |-> {file[k].token} \ {0}] \in WikiState
    BY DEF Init
  <2>1. file[k].token \in Token
    BY <1>1, EntryType DEF HonestFile
  <2> QED
    BY <2>1 DEF WikiState
<1>7. Shapes
  BY <1>1, <1>2, <1>3, <1>4, <1>5, <1>6, Bounds DEF Init, Shapes
<1>8. Checked
  BY <1>4, IdleFacts DEF Checked
<1> QED
  BY <1>7, <1>8 DEF HomeInv

-----------------------------------------------------------------------------
(* What a call that waits for a token does in one step: it goes on to s with *)
(* e; it may also queue a write, or have the wiki answer.                    *)
Moves(p, k, s, e) ==
    /\ s \in Stage /\ e \in HonestEntry
    /\ s = "refreshing" => e.issuer \in {"unrecorded", conf[p][k]}
    /\ At(p, k, s, e)
    /\ calls' \in 0 .. MaxCalls
    /\ UNCHANGED <<conf, file, tmp, logout, ended, restarts>>

(* What it goes on with follows from what it had and what it found. *)
Follows(p, k, s, e) ==
    LET a == acq[p][k] IN
    /\ a.stage \notin {"storing", "deleting"} /\ s \notin {"storing", "deleting"}
    /\ s = "refreshed" => a.stage = "refreshing" /\ e.token = a.cur.token /\ Accepts(p, k)
    /\ a.stage # "refreshed"
    /\ \/ s \in {"none", "reading", "browse", "listening", "exchanging", "failed", "refreshed"}
       \/ s = "metadata" /\ e = file[k]
       \/ s = "refreshing" /\ a.stage = "metadata" /\ e = a.cur
       \/ s = "rejected" /\ a.stage = "refreshing" /\ e = a.cur /\ ~Accepts(p, k)

Quiet(p, k, s, e) == Moves(p, k, s, e) /\ Follows(p, k, s, e) /\ UNCHANGED <<chain, wiki, lost>>

Refreshes(p, k, s, e) ==
    /\ Moves(p, k, s, e)
    /\ acq[p][k].stage = "refreshing" /\ Accepts(p, k) /\ wiki[k].issued < MaxToken
    /\ wiki' = [wiki EXCEPT ![k] = Granted(k, acq[p][k].cur.token)]
    /\ \/ s = "refreshed" /\ e.token = wiki[k].issued + 1 /\ UNCHANGED lost
       \/ s = "failed" /\ lost' = lost \cup {k}
    /\ UNCHANGED chain

Asks(p, k, s, e, w) ==
    /\ Moves(p, k, s, e) /\ w \in HonestEntry
    /\ Queue(p, NewWrite("acquire", k, w))
    /\ \/ s = "storing" /\ w = e /\ acq[p][k].stage = "refreshed" /\ e = acq[p][k].cur /\ UNCHANGED wiki
       \/ /\ s = "storing" /\ w = e /\ acq[p][k].stage = "exchanging" /\ e.token = wiki[k].issued + 1
          /\ wiki[k].issued < MaxToken /\ wiki' = [wiki EXCEPT ![k] = Granted(k, 0)]
       \/ /\ s = "deleting" /\ w = NoEntry /\ acq[p][k].stage = "rejected" /\ e = acq[p][k].cur
          /\ UNCHANGED wiki
    /\ UNCHANGED lost

AcquireStep(p, k) ==
    \/ Acquires(p, k) \/ ReadsStore(p, k) \/ MetadataKnown(p, k) \/ AcquireFails(p, k)
    \/ WikiRefreshes(p, k) \/ WikiRefreshesSame(p, k) \/ WikiRefuses(p, k) \/ RefreshFails(p, k)
    \/ RefreshSettles(p, k) \/ OpensBrowser(p, k) \/ UserConsents(p, k) \/ SignInRefused(p, k)
    \/ SignInTimesOut(p, k) \/ CodeExchanged(p, k)

LEMMA GrantFacts ==
    ASSUME Shapes, NEW k \in Key, NEW v \in Token, wiki[k].issued < MaxToken
    PROVE  LET g == Granted(k, v) IN
           /\ g \in WikiState /\ g.issued = wiki[k].issued + 1 /\ g.issued \in Token /\ g.issued # 0
           /\ g.good = (wiki[k].good \ {v}) \cup {wiki[k].issued + 1}
<1> DEFINE n == wiki[k].issued + 1
<1>1. wiki[k].issued \in Token /\ wiki[k].good \subseteq Token
  BY DEF Shapes, WikiState
<1>2. n \in Token /\ n # 0
  BY <1>1, Bounds DEF Token
<1>3. Granted(k, v) = [issued |-> n, good |-> (wiki[k].good \ {v}) \cup {n}]
  BY DEF Granted
<1> HIDE DEF n
<1>4. Granted(k, v) \in WikiState
  BY <1>1, <1>2, <1>3 DEF WikiState
<1> QED
  BY <1>2, <1>3, <1>4 DEF n

(* The steps that only move on. *)
LEMMA QuietCases ==
    ASSUME HomeInv, NEW p \in Process, NEW k \in Key,
           \/ Acquires(p, k) \/ ReadsStore(p, k) \/ MetadataKnown(p, k) \/ AcquireFails(p, k)
           \/ WikiRefreshesSame(p, k) \/ WikiRefuses(p, k) \/ RefreshFails(p, k)
           \/ OpensBrowser(p, k) \/ UserConsents(p, k) \/ SignInRefused(p, k) \/ SignInTimesOut(p, k)
           \/ RefreshSettles(p, k) /\ acq[p][k].stage = "failed"
    PROVE  \E s, e : Quiet(p, k, s, e)
<1> DEFINE a == acq[p][k]
<1>1. a.stage \in Stage /\ a.cur \in HonestEntry /\ file[k] \in HonestEntry /\ conf[p][k] \in Issuer
  BY AcquireType DEF HomeInv
<1>2. NoEntry \in HonestEntry
  BY NoEntryFacts
<1>3. calls \in 0 .. MaxCalls /\ (calls < MaxCalls => calls + 1 \in 0 .. MaxCalls)
  BY Bounds DEF HomeInv, Shapes
<1>4. CASE Acquires(p, k)
  <2>1. Quiet(p, k, "reading", NoEntry)
    BY <1>2, <1>3, <1>4 DEF Acquires, Quiet, Moves, Follows, Stage
  <2> QED
    BY <2>1
<1>5. CASE ReadsStore(p, k)
  <2>1. CASE At(p, k, "browse", NoEntry)
    <3>1. Quiet(p, k, "browse", NoEntry)
      BY <1>2, <1>3, <1>5, <2>1 DEF ReadsStore, Quiet, Moves, Follows, Stage, others
    <3> QED
      BY <3>1
  <2>2. CASE At(p, k, "metadata", file[k])
    <3>1. Quiet(p, k, "metadata", file[k])
      BY <1>1, <1>3, <1>5, <2>2 DEF ReadsStore, Quiet, Moves, Follows, Stage, others
    <3> QED
      BY <3>1
  <2> QED
    BY <1>5, <2>1, <2>2 DEF ReadsStore
<1>6. CASE MetadataKnown(p, k)
  <2>1. CASE At(p, k, "refreshing", a.cur) /\ Usable(p, k, a.cur)
    <3>1. Quiet(p, k, "refreshing", a.cur)
      BY <1>1, <1>3, <1>6, <2>1 DEF MetadataKnown, Quiet, Moves, Follows, Stage, others, Usable
    <3> QED
      BY <3>1
  <2>2. CASE At(p, k, "browse", NoEntry)
    <3>1. Quiet(p, k, "browse", NoEntry)
      BY <1>2, <1>3, <1>6, <2>2 DEF MetadataKnown, Quiet, Moves, Follows, Stage, others
    <3> QED
      BY <3>1
  <2>3. CASE At(p, k, "none", NoEntry)
    <3>1. Quiet(p, k, "none", NoEntry)
      BY <1>2, <1>3, <1>6, <2>3 DEF MetadataKnown, Quiet, Moves, Follows, Stage, others
    <3> QED
      BY <3>1
  <2> QED
    BY <1>6, <2>1, <2>2, <2>3 DEF MetadataKnown, Reject
<1>7. CASE WikiRefreshesSame(p, k)
  <2> DEFINE e == [a.cur EXCEPT !.issuer = conf[p][k]]
  <2>1. e \in HonestEntry /\ e.token = a.cur.token
    <3>1. a.cur.from = conf[p][k]
      BY <1>7 DEF WikiRefreshesSame, Accepts
    <3> QED
      BY <1>1, <3>1 DEF HonestEntry, Entry
  <2>2. /\ a.stage = "refreshing" /\ Accepts(p, k) /\ At(p, k, "refreshed", e)
        /\ UNCHANGED <<others, chain, wiki, lost>>
    BY <1>7 DEF WikiRefreshesSame
  <2> HIDE DEF e
  <2>3. Quiet(p, k, "refreshed", e)
    BY <1>3, <2>1, <2>2 DEF Quiet, Moves, Follows, Stage, others
  <2> QED
    BY <2>3
<1>8. CASE WikiRefuses(p, k)
  <2>1. Quiet(p, k, "rejected", a.cur)
    BY <1>1, <1>3, <1>8 DEF WikiRefuses, Quiet, Moves, Follows, Stage, others
  <2> QED
    BY <2>1
<1>9. CASE RefreshFails(p, k)
  <2>1. Quiet(p, k, "failed", a.cur)
    BY <1>1, <1>3, <1>9 DEF RefreshFails, Quiet, Moves, Follows, Stage, others
  <2> QED
    BY <2>1
<1>10. CASE UserConsents(p, k)
  <2>1. Quiet(p, k, "exchanging", NoEntry)
    BY <1>2, <1>3, <1>10 DEF UserConsents, Quiet, Moves, Follows, Stage, others
  <2> QED
    BY <2>1
<1>11. CASE OpensBrowser(p, k) /\ At(p, k, "listening", NoEntry)
  <2>1. Quiet(p, k, "listening", NoEntry)
    BY <1>2, <1>3, <1>11 DEF OpensBrowser, Quiet, Moves, Follows, Stage, others
  <2> QED
    BY <2>1
<1>12. CASE \/ AcquireFails(p, k) \/ SignInRefused(p, k) \/ SignInTimesOut(p, k)
            \/ RefreshSettles(p, k) /\ acq[p][k].stage = "failed"
            \/ OpensBrowser(p, k) /\ Reject(p, k)
  <2>1. /\ a.stage \in {"reading", "metadata", "browse", "listening", "failed"}
        /\ At(p, k, "none", NoEntry) /\ UNCHANGED <<others, chain, wiki, lost>>
    BY <1>12 DEF AcquireFails, SignInRefused, SignInTimesOut, RefreshSettles, OpensBrowser, Reject
  <2>2. Quiet(p, k, "none", NoEntry)
    BY <1>2, <1>3, <2>1 DEF Quiet, Moves, Follows, Stage, others
  <2> QED
    BY <2>2
<1> QED
  BY <1>4, <1>5, <1>6, <1>7, <1>8, <1>9, <1>10, <1>11, <1>12 DEF OpensBrowser

LEMMA AcquireCases ==
    ASSUME HomeInv, NEW p \in Process, NEW k \in Key, AcquireStep(p, k)
    PROVE  \/ \E s, e : Quiet(p, k, s, e)
           \/ \E s, e : Refreshes(p, k, s, e)
           \/ \E s, e, w : Asks(p, k, s, e, w)
<1> DEFINE a == acq[p][k]  n == wiki[k].issued + 1
<1>1. a.stage \in Stage /\ a.cur \in HonestEntry /\ file[k] \in HonestEntry /\ conf[p][k] \in Issuer
  BY AcquireType DEF HomeInv
<1>2. NoEntry \in HonestEntry
  BY NoEntryFacts
<1>3. calls \in 0 .. MaxCalls
  BY DEF HomeInv, Shapes
<1>4. ASSUME NEW v \in Token, wiki[k].issued < MaxToken, wiki' = [wiki EXCEPT ![k] = Granted(k, v)]
      PROVE  wiki'[k].issued = n /\ n \in Token
  BY <1>4, GrantFacts DEF HomeInv, Shapes
<1>5. CASE WikiRefreshes(p, k)
  <2> DEFINE e == [a.cur EXCEPT !.token = n, !.issuer = conf[p][k]]
  <2>1. /\ a.stage = "refreshing" /\ Accepts(p, k) /\ wiki[k].issued < MaxToken
        /\ wiki' = [wiki EXCEPT ![k] = Granted(k, a.cur.token)]
        /\ UNCHANGED <<others, chain>>
    BY <1>5 DEF WikiRefreshes
  <2>2. a.cur.token \in Token /\ a.cur.from = conf[p][k]
    BY <1>1, <2>1, EntryType DEF Accepts
  <2>3. wiki'[k].issued = n /\ n \in Token
    BY <1>4, <2>1, <2>2
  <2>4. \/ At(p, k, "refreshed", e) /\ UNCHANGED lost
        \/ At(p, k, "failed", a.cur) /\ lost' = lost \cup {k}
    BY <1>5, <2>3 DEF WikiRefreshes
  <2> HIDE DEF n
  <2>5. e \in HonestEntry /\ e.token = n
    BY <1>1, <2>2, <2>3 DEF HonestEntry, Entry
  <2> HIDE DEF e
  <2>6. CASE At(p, k, "refreshed", e) /\ UNCHANGED lost
    <3>1. Refreshes(p, k, "refreshed", e)
      BY <1>3, <2>1, <2>5, <2>6 DEF Refreshes, Moves, Stage, others, n
    <3> QED
      BY <3>1
  <2>7. CASE At(p, k, "failed", a.cur) /\ lost' = lost \cup {k}
    <3>1. Refreshes(p, k, "failed", a.cur)
      BY <1>1, <1>3, <2>1, <2>7 DEF Refreshes, Moves, Stage, others
    <3> QED
      BY <3>1
  <2> QED
    BY <2>4, <2>6, <2>7
<1>6. CASE RefreshSettles(p, k)
  <2>1. CASE a.stage = "refreshed"
    <3>1. Asks(p, k, "storing", a.cur, a.cur)
      BY <1>1, <1>3, <1>6, <2>1 DEF RefreshSettles, Asks, Moves, Stage, others
    <3> QED
      BY <3>1
  <2>2. CASE a.stage = "rejected"
    <3>1. Asks(p, k, "deleting", a.cur, NoEntry)
      BY <1>1, <1>2, <1>3, <1>6, <2>2 DEF RefreshSettles, Asks, Moves, Stage, others
    <3> QED
      BY <3>1
  <2>3. CASE a.stage = "failed"
    BY <1>6, <2>3, QuietCases
  <2> QED
    BY <1>6, <2>1, <2>2, <2>3 DEF RefreshSettles
<1>7. CASE CodeExchanged(p, k)
  <2>1. CASE wiki' = [wiki EXCEPT ![k] = Granted(k, 0)] /\ wiki[k].issued < MaxToken /\ UNCHANGED <<others, lost>>
             /\ a.stage = "exchanging"
             /\ LET e == [token |-> wiki'[k].issued, issuer |-> conf[p][k],
                          from |-> conf[p][k], session |-> wiki'[k].issued]
                IN  Queue(p, NewWrite("acquire", k, e)) /\ At(p, k, "storing", e)
    <3> DEFINE e == [token |-> n, issuer |-> conf[p][k], from |-> conf[p][k], session |-> n]
    <3>1. wiki'[k].issued = n /\ n \in Token
      BY <1>4, <2>1, Bounds
    <3>2. Queue(p, NewWrite("acquire", k, e)) /\ At(p, k, "storing", e)
      BY <2>1, <3>1
    <3> HIDE DEF n
    <3>3. e \in HonestEntry /\ e.token = n
      BY <1>1, <3>1, EntryMade
    <3> HIDE DEF e
    <3>4. Asks(p, k, "storing", e, e)
      BY <1>3, <2>1, <3>2, <3>3 DEF Asks, Moves, Stage, others, n
    <3> QED
      BY <3>4
  <2>2. CASE a.stage = "exchanging" /\ Reject(p, k) /\ UNCHANGED <<others, chain, wiki, lost>>
    <3>1. Quiet(p, k, "none", NoEntry)
      BY <1>2, <1>3, <2>2 DEF Quiet, Moves, Follows, Stage, others, Reject
    <3> QED
      BY <3>1
  <2> QED
    BY <1>7, <2>1, <2>2 DEF CodeExchanged
<1> QED
  BY <1>5, <1>6, <1>7, QuietCases DEF AcquireStep

-----------------------------------------------------------------------------
(* The token that is sent *)

LEMMA MovesFacts ==
    ASSUME HomeInv, NEW p \in Process, NEW k \in Key, NEW s, NEW e, Moves(p, k, s, e)
    PROVE  /\ acq' \in [Process -> [Key -> HonestAcquire]]
           /\ acq'[p][k].stage = s /\ acq'[p][k].cur = e
           /\ \A q \in Process, j \in Key : q # p \/ j # k => acq'[q][j] = acq[q][j]
           /\ Checked'
<1> DEFINE x == [stage |-> s, cur |-> e]
<1>1. x \in HonestAcquire /\ x.stage = s /\ x.cur = e
  BY DEF Moves, HonestAcquire
<1>2. acq' = [acq EXCEPT ![p][k] = x] /\ acq \in [Process -> [Key -> HonestAcquire]]
  BY DEF Moves, At, HomeInv, Shapes
<1> HIDE DEF x
<1>3. acq' \in [Process -> [Key -> HonestAcquire]] /\ acq'[p][k] = x
  BY <1>1, <1>2
<1>4. \A q \in Process, j \in Key : q # p \/ j # k => acq'[q][j] = acq[q][j]
  BY <1>2
<1>5. Checked'
  <2> SUFFICES ASSUME NEW q \in Process, NEW j \in Key, acq'[q][j].stage = "refreshing"
               PROVE  acq'[q][j].cur.issuer \in {"unrecorded", conf'[q][j]}
    BY DEF Checked
  <2>1. conf' = conf
    BY DEF Moves
  <2>2. CASE q = p /\ j = k
    BY <1>1, <1>3, <2>1, <2>2 DEF Moves
  <2>3. CASE q # p \/ j # k
    BY <1>4, <2>1, <2>3 DEF HomeInv, Checked
  <2> QED
    BY <2>2, <2>3
<1> QED
  BY <1>1, <1>3, <1>4, <1>5

LEMMA QueueFacts ==
    ASSUME HomeInv, NEW p \in Process, NEW op \in HonestWrite, Queue(p, op)
    PROVE  /\ chain' \in [Process -> Seq(HonestWrite)]
           /\ chain'[p] = Append(chain[p], op) /\ \A q \in Process : q # p => chain'[q] = chain[q]
<1>1. chain \in [Process -> Seq(HonestWrite)] /\ chain[p] \in Seq(HonestWrite)
  BY DEF HomeInv, Shapes
<1>2. Append(chain[p], op) \in Seq(HonestWrite)
  BY <1>1, AppendProperties
<1> QED
  BY <1>1, <1>2 DEF Queue

LEMMA MovesHome ==
    ASSUME HomeInv, NEW p \in Process, NEW k \in Key, NEW s, NEW e, Moves(p, k, s, e),
           chain' \in [Process -> Seq(HonestWrite)], wiki' \in [Key -> WikiState], lost' \subseteq Key
    PROVE  HomeInv'
<1>1. acq' \in [Process -> [Key -> HonestAcquire]] /\ Checked'
  BY MovesFacts
<1>2. Shapes'
  BY <1>1 DEF HomeInv, Shapes, Moves
<1> QED
  BY <1>1, <1>2 DEF HomeInv

LEMMA GrantedType ==
    ASSUME HomeInv, NEW k \in Key, NEW v \in Token, wiki[k].issued < MaxToken,
           wiki' = [wiki EXCEPT ![k] = Granted(k, v)]
    PROVE  wiki' \in [Key -> WikiState]
BY GrantFacts DEF HomeInv, Shapes

LEMMA AcquireHome ==
    ASSUME HomeInv, NEW p \in Process, NEW k \in Key, AcquireStep(p, k)
    PROVE  HomeInv'
<1>1. CASE \E s, e : Quiet(p, k, s, e)
  BY <1>1, MovesHome DEF Quiet, HomeInv, Shapes
<1>2. CASE \E s, e : Refreshes(p, k, s, e)
  <2>1. PICK s, e : Refreshes(p, k, s, e)
    BY <1>2
  <2>2. acq[p][k].cur.token \in Token
    BY AcquireType, EntryType DEF HomeInv
  <2>3. wiki' \in [Key -> WikiState]
    BY <2>1, <2>2, GrantedType DEF Refreshes
  <2>4. lost' \subseteq Key /\ chain' \in [Process -> Seq(HonestWrite)] /\ Moves(p, k, s, e)
    BY <2>1 DEF Refreshes, HomeInv, Shapes
  <2> QED
    BY <2>3, <2>4, MovesHome
<1>3. CASE \E s, e, w : Asks(p, k, s, e, w)
  <2>1. PICK s, e, w : Asks(p, k, s, e, w)
    BY <1>3
  <2>2. NewWrite("acquire", k, w) \in HonestWrite
    BY <2>1, NewWriteFacts DEF Asks
  <2>3. chain' \in [Process -> Seq(HonestWrite)]
    BY <2>1, <2>2, QueueFacts DEF Asks
  <2>4. wiki' \in [Key -> WikiState]
    BY <2>1, GrantedType, Bounds DEF Asks, HomeInv, Shapes
  <2>5. lost' \subseteq Key /\ Moves(p, k, s, e)
    BY <2>1 DEF Asks, HomeInv, Shapes
  <2> QED
    BY <2>3, <2>4, <2>5, MovesHome
<1> QED
  BY <1>1, <1>2, <1>3, AcquireCases

(* oauth-logout asks for deletes, and touches nothing else. *)
LogoutStep(p) ==
    \/ \E ks \in {Key} \cup {{k} : k \in Key} : LogoutStarts(p, ks)
    \/ LogoutReads(p) \/ LogoutFails(p)

LEMMA LogoutCases ==
    ASSUME HomeInv, NEW p \in Process, LogoutStep(p)
    PROVE  /\ UNCHANGED <<conf, file, tmp, acq, wiki, lost, ended, restarts>>
           /\ calls' \in 0 .. MaxCalls /\ logout' \in [Process -> Logout]
           /\ \/ UNCHANGED chain
              \/ \E k \in Key : Queue(p, NewWrite("logout", k, NoEntry))
<1>1. /\ logout \in [Process -> Logout] /\ calls \in 0 .. MaxCalls
      /\ (calls < MaxCalls => calls + 1 \in 0 .. MaxCalls) /\ NoLogout \in Logout
      /\ logout[p].targets \subseteq Key
  BY Bounds, IdleFacts DEF HomeInv, Shapes, Logout
<1>2. ASSUME NEW ks \in SUBSET Key, NEW s \in {"none", "reading", "deleting"}
      PROVE  [stage |-> s, targets |-> ks] \in Logout
  BY DEF Logout
<1>3. CASE \E ks \in {Key} \cup {{k} : k \in Key} : LogoutStarts(p, ks)
  <2>1. PICK ks \in {Key} \cup {{k} : k \in Key} : LogoutStarts(p, ks)
    BY <1>3
  <2>2. [stage |-> "reading", targets |-> ks] \in Logout
    BY <1>2
  <2> QED
    BY <1>1, <2>1, <2>2 DEF LogoutStarts
<1>4. CASE LogoutReads(p)
  <2> DEFINE ks == {k \in logout[p].targets : file[k] # NoEntry}
  <2>1. /\ UNCHANGED <<conf, file, tmp, acq, wiki, lost, ended, calls, restarts>>
        /\ Deletes(p, ks) /\ ks \subseteq Key
    BY <1>1, <1>4 DEF LogoutReads
  <2> HIDE DEF ks
  <2>2. CASE ks = {}
    BY <1>1, <2>1, <2>2 DEF Deletes
  <2>3. CASE ks # {}
    <3>1. PICK k \in ks : /\ logout' = [logout EXCEPT ![p] = [stage |-> "deleting", targets |-> ks \ {k}]]
                          /\ Queue(p, NewWrite("logout", k, NoEntry))
      BY <2>1, <2>3 DEF Deletes
    <3>2. [stage |-> "deleting", targets |-> ks \ {k}] \in Logout
      BY <1>2, <2>1
    <3> QED
      BY <1>1, <2>1, <3>1, <3>2
  <2> QED
    BY <2>2, <2>3
<1>5. CASE LogoutFails(p)
  BY <1>1, <1>5 DEF LogoutFails
<1> QED
  BY <1>3, <1>4, <1>5 DEF LogoutStep

LEMMA LogoutHome ==
    ASSUME HomeInv, NEW p \in Process, LogoutStep(p)
    PROVE  HomeInv'
<1>1. chain' \in [Process -> Seq(HonestWrite)]
  <2>1. \A k \in Key : NewWrite("logout", k, NoEntry) \in HonestWrite
    BY NewWriteFacts, NoEntryFacts
  <2> QED
    BY <2>1, LogoutCases, QueueFacts DEF HomeInv, Shapes
<1>2. Shapes'
  BY <1>1, LogoutCases DEF HomeInv, Shapes
<1>3. Checked'
  BY LogoutCases DEF HomeInv, Checked
<1> QED
  BY <1>2, <1>3 DEF HomeInv

(* A write that goes on: it is the first of its process. *)
Advances(p, x) ==
    /\ 1 \in DOMAIN chain[p] /\ x \in HonestWrite
    /\ x.by = chain[p][1].by /\ x.key = chain[p][1].key /\ x.entry = chain[p][1].entry
    /\ chain' = [chain EXCEPT ![p] = [chain[p] EXCEPT ![1] = x]]

FirstWrite(p) == chain[p][1]

LEMMA FirstType ==
    ASSUME HomeInv, NEW p \in Process, 1 \in DOMAIN chain[p]
    PROVE  /\ FirstWrite(p) \in HonestWrite /\ chain[p] \in Seq(HonestWrite)
           /\ Len(chain[p]) \in Nat \ {0} /\ DOMAIN chain[p] = 1 .. Len(chain[p])
<1>1. chain[p] \in Seq(HonestWrite)
  BY DEF HomeInv, Shapes
<1>2. Len(chain[p]) \in Nat \ {0} /\ DOMAIN chain[p] = 1 .. Len(chain[p])
  BY <1>1, FirstRemoved
<1> QED
  BY <1>1, <1>2, ElementOfSeq DEF FirstWrite

LEMMA AdvancesFacts ==
    ASSUME HomeInv, NEW p \in Process, NEW x, Advances(p, x)
    PROVE  /\ chain' \in [Process -> Seq(HonestWrite)]
           /\ DOMAIN chain'[p] = DOMAIN chain[p] /\ chain'[p][1] = x
           /\ \A i \in DOMAIN chain[p] : i # 1 => chain'[p][i] = chain[p][i]
           /\ \A q \in Process : q # p => chain'[q] = chain[q]
<1> DEFINE new == [chain[p] EXCEPT ![1] = x]
<1>1. /\ chain[p] \in Seq(HonestWrite) /\ 1 \in 1 .. Len(chain[p])
      /\ DOMAIN chain[p] = 1 .. Len(chain[p]) /\ x \in HonestWrite
  BY FirstType DEF Advances
<1>2. new \in Seq(HonestWrite)
  BY <1>1, ExceptSeq
<1>3. DOMAIN new = DOMAIN chain[p] /\ new[1] = x /\ \A i \in DOMAIN chain[p] : i # 1 => new[i] = chain[p][i]
  BY <1>1
<1>4. chain' = [chain EXCEPT ![p] = new] /\ chain \in [Process -> Seq(HonestWrite)]
  BY DEF Advances, HomeInv, Shapes
<1> HIDE DEF new
<1> QED
  BY <1>2, <1>3, <1>4

LEMMA ReadsCases ==
    ASSUME HomeInv, NEW p \in Process, NEW i \in DOMAIN chain[p], WriteReads(p, i)
    PROVE  \E x : /\ Advances(p, x) /\ FirstWrite(p).stage = "queued" /\ x.stage = "read" /\ x.cur = file
                  /\ UNCHANGED <<conf, file, tmp, acq, logout, wiki, lost, ended, calls, restarts>>
<1> DEFINE op == chain[p][1]  x == [op EXCEPT !.stage = "read", !.cur = file]
<1>1. i = 1 /\ 1 \in DOMAIN chain[p] /\ op.stage = "queued"
  BY DEF WriteReads, Turn
<1>2. op \in HonestWrite /\ file \in HonestFile
  BY <1>1, FirstType DEF FirstWrite, HomeInv, Shapes
<1>3. /\ x \in HonestWrite /\ x.by = op.by /\ x.key = op.key /\ x.entry = op.entry
      /\ x.stage = "read" /\ x.cur = file
  BY <1>2 DEF HonestWrite
<1>4. chain' = [chain EXCEPT ![p] = [chain[p] EXCEPT ![1] = x]]
  BY <1>1 DEF WriteReads, HomeInv, Shapes
<1> HIDE DEF x
<1>5. Advances(p, x)
  BY <1>1, <1>3, <1>4 DEF Advances
<1> QED
  BY <1>1, <1>3, <1>5 DEF WriteReads, FirstWrite

LEMMA TmpCases ==
    ASSUME HomeInv, NEW p \in Process, NEW i \in DOMAIN chain[p], WritesTmp(p, i)
    PROVE  /\ \E x : /\ Advances(p, x) /\ FirstWrite(p).stage = "read" /\ x.stage = "written"
                     /\ x.cur = FirstWrite(p).cur
           /\ tmp' = [exists |-> TRUE,
                      content |-> [FirstWrite(p).cur EXCEPT ![FirstWrite(p).key] = FirstWrite(p).entry]]
           /\ [FirstWrite(p).cur EXCEPT ![FirstWrite(p).key] = FirstWrite(p).entry] \in HonestFile
           /\ UNCHANGED <<conf, file, acq, logout, wiki, lost, ended, calls, restarts>>
<1> DEFINE op == chain[p][1]  x == [op EXCEPT !.stage = "written"]
<1>1. i = 1 /\ 1 \in DOMAIN chain[p] /\ op.stage = "read"
  BY DEF WritesTmp, Turn
<1>2. op \in HonestWrite
  BY <1>1, FirstType DEF FirstWrite
<1>3. /\ x \in HonestWrite /\ x.by = op.by /\ x.key = op.key /\ x.entry = op.entry
      /\ x.stage = "written" /\ x.cur = op.cur
  BY <1>2 DEF HonestWrite
<1>4. chain' = [chain EXCEPT ![p] = [chain[p] EXCEPT ![1] = x]]
  BY <1>1 DEF WritesTmp, HomeInv, Shapes
<1> HIDE DEF x
<1>5. Advances(p, x)
  BY <1>1, <1>3, <1>4 DEF Advances
<1>6. [op.cur EXCEPT ![op.key] = op.entry] \in HonestFile
  BY <1>2, WriteType DEF HonestFile
<1> QED
  BY <1>1, <1>3, <1>5, <1>6 DEF WritesTmp, FirstWrite

LEMMA AdvancesHome ==
    ASSUME HomeInv, NEW p \in Process, NEW i \in DOMAIN chain[p], WriteReads(p, i) \/ WritesTmp(p, i)
    PROVE  HomeInv'
<1>1. CASE WriteReads(p, i)
  <2>1. /\ chain' \in [Process -> Seq(HonestWrite)]
        /\ UNCHANGED <<conf, file, tmp, acq, logout, wiki, lost, ended, calls, restarts>>
    BY <1>1, ReadsCases, AdvancesFacts
  <2> QED
    BY <2>1 DEF HomeInv, Shapes, Checked
<1>2. CASE WritesTmp(p, i)
  <2> DEFINE c == [FirstWrite(p).cur EXCEPT ![FirstWrite(p).key] = FirstWrite(p).entry]
  <2>1. /\ chain' \in [Process -> Seq(HonestWrite)] /\ c \in HonestFile
        /\ tmp' = [exists |-> TRUE, content |-> c]
        /\ UNCHANGED <<conf, file, acq, logout, wiki, lost, ended, calls, restarts>>
    BY <1>2, TmpCases, AdvancesFacts
  <2> HIDE DEF c
  <2> QED
    BY <2>1 DEF HomeInv, Shapes, Checked
<1> QED
  BY <1>1, <1>2

(* A write that is over: the call that asked for it goes on, or the logout   *)
(* asks for its next.                                                        *)
EndsForCall(p, ok, s) ==
    LET k == FirstWrite(p).key IN
    /\ FirstWrite(p).by = "acquire" /\ s \in {"none", "browse"}
    /\ At(p, k, s, NoEntry)
    /\ s = "browse" => ok /\ acq[p][k].stage = "deleting"
    /\ lost' = IF ~ok /\ acq[p][k].stage = "storing" THEN lost \cup {k} ELSE lost
    /\ chain' = [chain EXCEPT ![p] = RemoveAt(chain[p], 1)]
    /\ UNCHANGED <<logout, ended>>

EndsForLogout(p) ==
    /\ FirstWrite(p).by = "logout"
    /\ \/ chain' = [chain EXCEPT ![p] = RemoveAt(chain[p], 1)]
       \/ \E k \in Key : chain' = [chain EXCEPT ![p] =
                                     Append(RemoveAt(chain[p], 1), NewWrite("logout", k, NoEntry))]
    /\ logout' \in [Process -> Logout] /\ ended' \in [Key -> SUBSET Token]
    /\ UNCHANGED <<acq, lost>>

LEMMA EndsCases ==
    ASSUME HomeInv, NEW p \in Process, 1 \in DOMAIN chain[p], NEW ok \in BOOLEAN, WriteEnds(p, 1, ok)
    PROVE  EndsForLogout(p) \/ \E s : EndsForCall(p, ok, s)
<1> DEFINE op == FirstWrite(p)
<1>1. op \in HonestWrite /\ op.by \in {"acquire", "logout"} /\ op.key \in Key /\ op = chain[p][1]
  BY FirstType, WriteType DEF FirstWrite
<1>2. CASE op.by = "acquire"
  <2>1. EndsForCall(p, ok, "browse") \/ EndsForCall(p, ok, "none")
    BY <1>1, <1>2 DEF WriteEnds, EndsForCall, Reject
  <2> QED
    BY <2>1
<1>3. CASE op.by = "logout"
  <2>1. UNCHANGED <<acq, lost>>
    BY <1>1, <1>3 DEF WriteEnds
  <2>2. ended' \in [Key -> SUBSET Token]
    <3>1. file[op.key].session \in Token
      BY <1>1, EntryType DEF HomeInv, Shapes, HonestFile
    <3>2. ended' = IF ok THEN [ended EXCEPT ![op.key] = @ \cup ({file[op.key].session} \ {0})] ELSE ended
      BY <1>1, <1>3 DEF WriteEnds
    <3>3. ended \in [Key -> SUBSET Token]
      BY DEF HomeInv, Shapes
    <3> QED
      BY <1>1, <3>1, <3>2, <3>3
  <2>3. logout' \in [Process -> Logout]
        /\ \/ chain' = [chain EXCEPT ![p] = RemoveAt(chain[p], 1)]
           \/ \E k \in Key : chain' = [chain EXCEPT ![p] =
                                         Append(RemoveAt(chain[p], 1), NewWrite("logout", k, NoEntry))]
    <3>1. logout \in [Process -> Logout] /\ logout[p] \in Logout /\ NoLogout \in Logout
      BY IdleFacts DEF HomeInv, Shapes
    <3>2. CASE logout' = [logout EXCEPT ![p] = NoLogout] /\ chain' = [chain EXCEPT ![p] = RemoveAt(chain[p], 1)]
      BY <3>1, <3>2
    <3>3. CASE \E k \in logout[p].targets :
                 /\ logout' = [logout EXCEPT ![p].targets = @ \ {k}]
                 /\ chain' = [chain EXCEPT ![p] =
                                Append(RemoveAt(chain[p], 1), NewWrite("logout", k, NoEntry))]
      <4>1. PICK k \in logout[p].targets :
                 /\ logout' = [logout EXCEPT ![p].targets = @ \ {k}]
                 /\ chain' = [chain EXCEPT ![p] =
                                Append(RemoveAt(chain[p], 1), NewWrite("logout", k, NoEntry))]
        BY <3>3
      <4> DEFINE l == [logout[p] EXCEPT !.targets = @ \ {k}]
      <4>2. l \in Logout /\ k \in Key
        BY <3>1, <4>1 DEF Logout
      <4>3. logout' = [logout EXCEPT ![p] = l]
        BY <3>1, <4>1
      <4> HIDE DEF l
      <4>4. logout' \in [Process -> Logout]
        BY <3>1, <4>2, <4>3
      <4> QED
        BY <4>1, <4>2, <4>4
    <3> QED
      BY <1>1, <1>3, <3>2, <3>3 DEF WriteEnds
  <2> QED
    BY <1>3, <2>1, <2>2, <2>3 DEF EndsForLogout
<1> QED
  BY <1>1, <1>2, <1>3

LEMMA RestFacts ==
    ASSUME HomeInv, NEW p \in Process, 1 \in DOMAIN chain[p],
           \/ chain' = [chain EXCEPT ![p] = RemoveAt(chain[p], 1)]
           \/ \E k \in Key : chain' = [chain EXCEPT ![p] =
                                         Append(RemoveAt(chain[p], 1), NewWrite("logout", k, NoEntry))]
    PROVE  /\ chain' \in [Process -> Seq(HonestWrite)]
           /\ \A q \in Process : q # p => chain'[q] = chain[q]
<1>1. chain \in [Process -> Seq(HonestWrite)] /\ chain[p] \in Seq(HonestWrite)
  BY DEF HomeInv, Shapes
<1>2. RemoveAt(chain[p], 1) \in Seq(HonestWrite)
  BY <1>1, FirstRemoved
<1>3. \A k \in Key : Append(RemoveAt(chain[p], 1), NewWrite("logout", k, NoEntry)) \in Seq(HonestWrite)
  <2> SUFFICES ASSUME NEW k \in Key
               PROVE  Append(RemoveAt(chain[p], 1), NewWrite("logout", k, NoEntry)) \in Seq(HonestWrite)
    OBVIOUS
  <2>1. NewWrite("logout", k, NoEntry) \in HonestWrite
    BY NewWriteFacts, NoEntryFacts
  <2> QED
    BY <1>2, <2>1, AppendProperties
<1> QED
  BY <1>1, <1>2, <1>3

LEMMA EndsHome ==
    ASSUME HomeInv, NEW p \in Process, 1 \in DOMAIN chain[p], NEW ok \in BOOLEAN, WriteEnds(p, 1, ok),
           UNCHANGED <<conf, wiki, calls, restarts>>,
           file' \in HonestFile, tmp' \in [exists: BOOLEAN, content: HonestFile]
    PROVE  HomeInv'
<1>1. FirstWrite(p).key \in Key
  BY FirstType, WriteType
<1>2. CASE EndsForLogout(p)
  BY <1>2, RestFacts DEF EndsForLogout, HomeInv, Shapes, Checked
<1>3. CASE \E s : EndsForCall(p, ok, s)
  <2>1. PICK s : EndsForCall(p, ok, s)
    BY <1>3
  <2> DEFINE k == FirstWrite(p).key  x == [stage |-> s, cur |-> NoEntry]
  <2>2. x \in HonestAcquire /\ x.stage # "refreshing"
    BY <2>1, NoEntryFacts DEF EndsForCall, HonestAcquire, Stage
  <2>3. acq' = [acq EXCEPT ![p][k] = x] /\ acq \in [Process -> [Key -> HonestAcquire]]
    BY <2>1 DEF EndsForCall, At, HomeInv, Shapes
  <2> HIDE DEF x, k
  <2>4. acq' \in [Process -> [Key -> HonestAcquire]]
    BY <1>1, <2>2, <2>3 DEF k
  <2>5. \A q \in Process, j \in Key : acq'[q][j] = acq[q][j] \/ acq'[q][j] = x
    BY <1>1, <2>3 DEF k
  <2>6. Checked'
    BY <2>2, <2>5 DEF HomeInv, Checked
  <2>7. chain' \in [Process -> Seq(HonestWrite)]
    BY <2>1, RestFacts DEF EndsForCall
  <2>8. lost' \subseteq Key
    BY <1>1, <2>1 DEF EndsForCall, HomeInv, Shapes
  <2>9. UNCHANGED <<logout, ended>>
    BY <2>1 DEF EndsForCall
  <2>10. Shapes'
    BY <2>4, <2>7, <2>8, <2>9 DEF HomeInv, Shapes
  <2> QED
    BY <2>6, <2>10 DEF HomeInv
<1> QED
  BY <1>2, <1>3, EndsCases

LEMMA WritesHome ==
    ASSUME HomeInv, NEW p \in Process, NEW i \in DOMAIN chain[p], Renames(p, i) \/ WriteFails(p, i)
    PROVE  HomeInv'
<1>1. i = 1 /\ 1 \in DOMAIN chain[p]
  BY DEF Renames, WriteFails, Turn
<1>2. file \in HonestFile /\ tmp \in [exists: BOOLEAN, content: HonestFile]
  BY DEF HomeInv, Shapes
<1>3. CASE Renames(p, i)
  <2>1. NoTmp \in [exists: BOOLEAN, content: HonestFile]
    <3> DEFINE none == [k \in Key |-> NoEntry]
    <3>1. none \in HonestFile /\ NoTmp = [exists |-> FALSE, content |-> none]
      BY NoEntryFacts DEF NoTmp, HonestFile
    <3> HIDE DEF none
    <3> QED
      BY <3>1
  <2>2. file' \in HonestFile /\ tmp' \in [exists: BOOLEAN, content: HonestFile]
    BY <1>2, <1>3, <2>1 DEF Renames
  <2>3. tmp.exists \in BOOLEAN /\ WriteEnds(p, 1, tmp.exists) /\ UNCHANGED <<conf, wiki, calls, restarts>>
    BY <1>1, <1>2, <1>3 DEF Renames
  <2> QED
    BY <1>1, <2>2, <2>3, EndsHome
<1>4. CASE WriteFails(p, i)
  BY <1>1, <1>2, <1>4, EndsHome DEF WriteFails
<1> QED
  BY <1>3, <1>4

LEMMA RestartHome ==
    ASSUME HomeInv, NEW p \in Process, Restart(p)
    PROVE  HomeInv'
<1> DEFINE x == [k \in Key |-> Idle]
<1>1. x \in [Key -> HonestAcquire] /\ \A k \in Key : x[k].stage = "none"
  BY IdleFacts
<1>2. acq' = [acq EXCEPT ![p] = x] /\ acq \in [Process -> [Key -> HonestAcquire]]
  BY DEF Restart, HomeInv, Shapes
<1> HIDE DEF x
<1>3. acq' \in [Process -> [Key -> HonestAcquire]]
      /\ \A q \in Process : acq'[q] = IF q = p THEN x ELSE acq[q]
  BY <1>1, <1>2
<1>4. conf' \in [Process -> [Key -> Issuer]] /\ \A q \in Process : q # p => conf'[q] = conf[q]
  BY DEF Restart, HomeInv, Shapes
<1>5. Checked'
  BY <1>1, <1>3, <1>4 DEF HomeInv, Checked
<1>6. chain' \in [Process -> Seq(HonestWrite)] /\ logout' \in [Process -> Logout]
  BY EmptySeq, IdleFacts DEF Restart, HomeInv, Shapes
<1>7. restarts' \in 0 .. MaxRestarts /\ lost' \subseteq Key
  BY Bounds DEF Restart, HomeInv, Shapes, Unstored
<1>8. Shapes'
  BY <1>3, <1>4, <1>6, <1>7 DEF Restart, HomeInv, Shapes
<1> QED
  BY <1>5, <1>8 DEF HomeInv

LEMMA NextCases ==
    ASSUME Next
    PROVE  \E p \in Process :
             \/ \E k \in Key : AcquireStep(p, k)
             \/ LogoutStep(p)
             \/ \E i \in DOMAIN chain[p] : WriteReads(p, i) \/ WritesTmp(p, i)
             \/ \E i \in DOMAIN chain[p] : Renames(p, i) \/ WriteFails(p, i)
             \/ Restart(p)
BY Zenon DEF Next, AcquireStep, LogoutStep

LEMMA HomeStep == HomeInv /\ [Next]_vars => HomeInv'
<1> SUFFICES ASSUME HomeInv, [Next]_vars PROVE HomeInv'
  OBVIOUS
<1>1. CASE Next
  BY <1>1, NextCases, AcquireHome, LogoutHome, AdvancesHome, WritesHome, RestartHome
<1>2. CASE UNCHANGED vars
  BY <1>2 DEF vars, HomeInv, Shapes, Checked
<1> QED
  BY <1>1, <1>2

(* What always holds of the sign-ins: entries are honest about their issuer, *)
(* and what is sent was checked.                                             *)
THEOREM HomeInvariant == Spec => []HomeInv
<1> QED
  BY HomeInit, HomeStep, PTL DEF Spec

(* Every variable keeps its type. *)
THEOREM TypeCorrect == Spec => []TypeOK
<1>1. HomeInv => TypeOK
  BY ShapesType DEF HomeInv
<1> QED
  BY <1>1, HomeInvariant, PTL

(* A refresh token goes to the wiki that granted it, for every number of     *)
(* processes that share the file, however their writes undo each other and   *)
(* wherever their keys are pointed (acquireToken).                           *)
THEOREM SentHomeHolds == Spec => []SentHome
<1>1. HomeInv => SentHome
  <2> SUFFICES ASSUME HomeInv, NEW p \in Process, NEW k \in Key, acq[p][k].stage = "refreshing",
                      acq[p][k].cur.issuer # "unrecorded"
               PROVE  acq[p][k].cur.from = conf[p][k]
    BY DEF SentHome
  <2>1. acq[p][k].cur.issuer = conf[p][k]
    BY DEF HomeInv, Checked
  <2>2. acq[p][k].cur \in HonestEntry
    BY AcquireType DEF HomeInv
  <2> QED
    BY <2>1, <2>2, EntryType
<1> QED
  BY <1>1, HomeInvariant, PTL
-----------------------------------------------------------------------------
(* One process.  Between two nothing serialises the writes of the file, so   *)
(* what follows is about a process that has the file to itself, with every   *)
(* call, sign-in, logout, failure and crash it can have.                     *)
OneProcess == \A p, q \in Process : p = q

(* What a call waits with: a stored token it presents is the file's unless a *)
(* logout took it away; one it deletes was refused; one it stores is good;   *)
(* and until it has got a new one the file's is good, unless it was lost.    *)
KeyOK(p, k) ==
    LET a == acq[p][k] IN
    /\ a.stage \in {"metadata", "refreshing", "rejected", "deleting"} => file[k] \in {NoEntry, a.cur}
    /\ a.stage \in {"rejected", "deleting"} => a.cur.token \notin wiki[k].good \/ a.cur.from # conf[p][k]
    /\ a.stage \in {"refreshed", "storing"} => a.cur.token \in wiki[k].good
    /\ a.stage \notin {"refreshed", "storing"} =>
           file[k] = NoEntry \/ k \in lost \/ file[k].token \in wiki[k].good
    /\ 0 \notin wiki[k].good

(* A write that has read the file read it as it still is; a logout only      *)
(* deletes; and the write of a call is the one that call waits for.          *)
WriteOK(p, i) ==
    LET op == chain[p][i]
        a  == acq[p][op.key]
    IN  /\ i # 1 => op.stage = "queued"
        /\ op.by = "logout" => op.entry = NoEntry
        /\ op.by = "acquire" => \/ a.stage = "storing" /\ op.entry = a.cur
                                \/ a.stage = "deleting" /\ op.entry = NoEntry
        /\ op.stage \in {"read", "written"} => op.cur = file
        /\ op.stage = "written" => tmp.exists /\ tmp.content = [file EXCEPT ![op.key] = op.entry]

ChainOK(p) ==
    /\ \A i \in DOMAIN chain[p] : WriteOK(p, i)
    /\ \A i, j \in DOMAIN chain[p] :
         /\ chain[p][i].by = "acquire" /\ chain[p][j].by = "acquire"
         /\ chain[p][i].key = chain[p][j].key
         => i = j

OneInv ==
    /\ HomeInv
    /\ \A p \in Process : ChainOK(p)
    /\ \A p \in Process, k \in Key : KeyOK(p, k)

LEMMA OnlyOne ==
    ASSUME OneProcess, NEW p \in Process, HomeInv', ChainOK(p)', \A k \in Key : KeyOK(p, k)'
    PROVE  OneInv'
<1>1. \A q \in Process : q = p
  BY DEF OneProcess
<1>2. \A q \in Process : ChainOK(q)'
  BY <1>1 DEF ChainOK, WriteOK
<1>3. \A q \in Process, k \in Key : KeyOK(q, k)'
  BY <1>1 DEF KeyOK
<1> QED
  BY <1>2, <1>3 DEF OneInv

LEMMA OneInit == Init => OneInv
<1> SUFFICES ASSUME Init PROVE OneInv
  OBVIOUS
<1>1. HomeInv
  BY HomeInit
<1>2. ASSUME NEW p \in Process PROVE ChainOK(p)
  <2>1. chain[p] = <<>>
    BY DEF Init
  <2>2. DOMAIN chain[p] = {}
    BY <2>1
  <2> QED
    BY <2>2 DEF ChainOK
<1>3. ASSUME NEW p \in Process, NEW k \in Key PROVE KeyOK(p, k)
  <2>1. acq[p][k].stage = "none"
    BY IdleFacts DEF Init
  <2>2. wiki[k].good = {file[k].token} \ {0} /\ wiki[k].issued = file[k].token
    BY DEF Init
  <2>3. file[k] = NoEntry \/ file[k].token = 1
    BY DEF Init
  <2> QED
    BY <2>1, <2>2, <2>3 DEF KeyOK
<1> QED
  BY <1>1, <1>2, <1>3 DEF OneInv

(* A step that leaves the writes and the file alone, and moves a call that   *)
(* does not wait for a write.                                                *)
LEMMA ChainKept ==
    ASSUME OneInv, NEW p \in Process, UNCHANGED <<chain, file, tmp>>,
           NEW k \in Key, acq[p][k].stage \notin {"storing", "deleting"},
           \A j \in Key : j # k => acq'[p][j] = acq[p][j]
    PROVE  ChainOK(p)'
<1>1. ASSUME NEW i \in DOMAIN chain'[p] PROVE WriteOK(p, i)'
  <2>1. i \in DOMAIN chain[p] /\ WriteOK(p, i) /\ chain'[p][i] = chain[p][i]
    BY DEF OneInv, ChainOK
  <2>2. chain[p][i].key \in Key
    <3>1. chain[p] \in Seq(HonestWrite)
      BY DEF OneInv, HomeInv, Shapes
    <3> QED
      BY <2>1, <3>1, ElementOfSeq, WriteType, LenProperties
  <2> QED
    BY <2>1, <2>2 DEF WriteOK
<1>2. ChainOK(p)
  BY DEF OneInv
<1> QED
  BY <1>1, <1>2 DEF ChainOK

LEMMA Enqueued ==
    ASSUME OneInv, NEW p \in Process, NEW op \in HonestWrite, Queue(p, op), op.stage = "queued",
           UNCHANGED <<file, tmp>>,
           \A j \in Key : j # op.key => acq'[p][j] = acq[p][j],
           \/ op.by = "logout" /\ op.entry = NoEntry /\ UNCHANGED acq
           \/ /\ op.by = "acquire" /\ acq[p][op.key].stage \notin {"storing", "deleting"}
              /\ \/ acq'[p][op.key].stage = "storing" /\ op.entry = acq'[p][op.key].cur
                 \/ acq'[p][op.key].stage = "deleting" /\ op.entry = NoEntry
    PROVE  ChainOK(p)'
<1> DEFINE s == chain[p]  n == Len(s) + 1
<1>1. s \in Seq(HonestWrite) /\ chain'[p] = Append(s, op)
  BY QueueFacts DEF OneInv, HomeInv, Shapes
<1>2. /\ Len(s) \in Nat /\ DOMAIN s = 1 .. Len(s) /\ DOMAIN chain'[p] = 1 .. n
      /\ \A i \in 1 .. Len(s) : chain'[p][i] = s[i]
      /\ chain'[p][n] = op
  BY <1>1, Appended
<1>3. \A i \in 1 .. Len(s) : s[i] \in HonestWrite /\ WriteOK(p, i) /\ s[i].key \in Key
  BY <1>1, <1>2, ElementOfSeq, WriteType DEF OneInv, ChainOK
<1>4. \A i \in 1 .. Len(s) : s[i].by = "acquire" => acq[p][s[i].key].stage \in {"storing", "deleting"}
  BY <1>3 DEF WriteOK
<1> HIDE DEF s
<1>5. ASSUME NEW i \in 1 .. n PROVE WriteOK(p, i)'
  <2>1. CASE i = n
    <3>1. chain'[p][i] = op
      BY <1>2, <2>1
    <3> QED
      BY <3>1 DEF WriteOK
  <2>2. CASE i # n
    <3>1. i \in 1 .. Len(s)
      BY <1>2, <2>2
    <3>2. chain'[p][i] = chain[p][i] /\ WriteOK(p, i) /\ chain[p][i].key \in Key
      BY <1>2, <1>3, <3>1 DEF s
    <3>3. op.by = "acquire" /\ chain[p][i].by = "acquire" => chain[p][i].key # op.key
      BY <1>4, <3>1 DEF s
    <3>4. chain[p][i].by = "acquire" => acq'[p][chain[p][i].key] = acq[p][chain[p][i].key]
      BY <3>2, <3>3
    <3> QED
      BY <3>2, <3>4 DEF WriteOK
  <2> QED
    BY <2>1, <2>2
<1>6. ASSUME NEW i \in 1 .. n, NEW j \in 1 .. n,
             chain'[p][i].by = "acquire", chain'[p][j].by = "acquire", chain'[p][i].key = chain'[p][j].key
      PROVE  i = j
  <2>1. \A m \in 1 .. n : m = n \/ m \in 1 .. Len(s)
    BY <1>2
  <2>2. \A m \in 1 .. Len(s) : op.by = "acquire" /\ s[m].by = "acquire" => s[m].key # op.key
    BY <1>4
  <2>3. \A a, b \in 1 .. Len(s) : s[a].by = "acquire" /\ s[b].by = "acquire" /\ s[a].key = s[b].key => a = b
    BY <1>2 DEF OneInv, ChainOK, s
  <2> QED
    BY <1>2, <1>6, <2>1, <2>2, <2>3
<1> QED
  BY <1>2, <1>5, <1>6 DEF ChainOK
LEMMA MovedKeys ==
    ASSUME OneInv, NEW p \in Process, NEW k \in Key, NEW s, NEW e, Moves(p, k, s, e),
           \A j \in Key : j # k => wiki'[j] = wiki[j] /\ (j \in lost' <=> j \in lost),
           KeyOK(p, k)'
    PROVE  \A j \in Key : KeyOK(p, j)'
<1> SUFFICES ASSUME NEW j \in Key, j # k PROVE KeyOK(p, j)'
  OBVIOUS
<1>1. acq'[p][j] = acq[p][j] /\ file' = file /\ conf' = conf
  BY MovesFacts DEF OneInv, Moves
<1>2. wiki'[j] = wiki[j] /\ (j \in lost' <=> j \in lost) /\ KeyOK(p, j)
  BY DEF OneInv
<1> QED
  BY <1>1, <1>2 DEF KeyOK

LEMMA QuietOne ==
    ASSUME OneProcess, OneInv, NEW p \in Process, NEW k \in Key, NEW s, NEW e, Quiet(p, k, s, e), HomeInv'
    PROVE  OneInv'
<1>1. HomeInv /\ KeyOK(p, k) /\ Moves(p, k, s, e) /\ Follows(p, k, s, e) /\ UNCHANGED <<chain, wiki, lost>>
  BY DEF OneInv, Quiet
<1>2. /\ acq'[p][k].stage = s /\ acq'[p][k].cur = e /\ \A j \in Key : j # k => acq'[p][j] = acq[p][j]
      /\ UNCHANGED <<conf, file, tmp>>
  BY <1>1, MovesFacts DEF Moves
<1>3. acq[p][k].stage \notin {"storing", "deleting", "refreshed"}
  BY <1>1 DEF Follows
<1>4. KeyOK(p, k)'
  <2>1. s \in {"metadata", "refreshing", "rejected", "deleting"} => file'[k] \in {NoEntry, e}
    BY <1>1, <1>2 DEF Follows, KeyOK
  <2>2. s \in {"rejected", "deleting"} => e.token \notin wiki'[k].good \/ e.from # conf'[p][k]
    BY <1>1, <1>2 DEF Follows, Accepts
  <2>3. s \in {"refreshed", "storing"} => e.token \in wiki'[k].good
    BY <1>1 DEF Follows, Accepts
  <2>4. file'[k] = NoEntry \/ k \in lost' \/ file'[k].token \in wiki'[k].good
    BY <1>1, <1>2, <1>3 DEF KeyOK
  <2>5. 0 \notin wiki'[k].good
    BY <1>1 DEF KeyOK
  <2> QED
    BY <1>2, <2>1, <2>2, <2>3, <2>4, <2>5 DEF KeyOK
<1>5. ChainOK(p)'
  BY <1>1, <1>2, <1>3, ChainKept
<1>6. \A j \in Key : KeyOK(p, j)'
  BY <1>1, <1>4, MovedKeys
<1> QED
  BY <1>5, <1>6, OnlyOne

LEMMA RefreshesOne ==
    ASSUME OneProcess, OneInv, NEW p \in Process, NEW k \in Key, NEW s, NEW e, Refreshes(p, k, s, e), HomeInv'
    PROVE  OneInv'
<1>1. HomeInv /\ Shapes /\ KeyOK(p, k) /\ Moves(p, k, s, e) /\ UNCHANGED chain
  BY DEF OneInv, HomeInv, Refreshes
<1>2. /\ acq'[p][k].stage = s /\ acq'[p][k].cur = e /\ \A j \in Key : j # k => acq'[p][j] = acq[p][j]
      /\ UNCHANGED <<conf, file, tmp>>
  BY <1>1, MovesFacts DEF Moves
<1> DEFINE v == acq[p][k].cur.token  n == wiki[k].issued + 1
<1>3. v \in Token /\ wiki[k].issued < MaxToken /\ wiki' = [wiki EXCEPT ![k] = Granted(k, v)]
      /\ acq[p][k].stage = "refreshing"
  BY <1>1, AcquireType, EntryType DEF Refreshes
<1>4. /\ wiki'[k].good = (wiki[k].good \ {v}) \cup {n} /\ n # 0
      /\ \A j \in Key : j # k => wiki'[j] = wiki[j]
  BY <1>1, <1>3, GrantFacts DEF Shapes
<1>5. \/ s = "refreshed" /\ e.token = n /\ lost' = lost
      \/ s = "failed" /\ lost' = lost \cup {k}
  BY DEF Refreshes
<1> HIDE DEF v, n
<1>6. KeyOK(p, k)'
  <2>1. 0 \notin wiki'[k].good
    BY <1>1, <1>4 DEF KeyOK
  <2>2. CASE s = "refreshed" /\ e.token = n
    BY <1>2, <1>4, <2>1, <2>2 DEF KeyOK
  <2>3. CASE s = "failed" /\ lost' = lost \cup {k}
    BY <1>2, <2>1, <2>3 DEF KeyOK
  <2> QED
    BY <1>5, <2>2, <2>3
<1>7. ChainOK(p)'
  BY <1>1, <1>2, <1>3, ChainKept
<1>8. \A j \in Key : KeyOK(p, j)'
  BY <1>1, <1>4, <1>5, <1>6, MovedKeys
<1> QED
  BY <1>7, <1>8, OnlyOne

LEMMA AsksOne ==
    ASSUME OneProcess, OneInv, NEW p \in Process, NEW k \in Key, NEW s, NEW e, NEW w, Asks(p, k, s, e, w), HomeInv'
    PROVE  OneInv'
<1>1. HomeInv /\ Shapes /\ KeyOK(p, k) /\ Moves(p, k, s, e) /\ w \in HonestEntry /\ lost' = lost
  BY DEF OneInv, HomeInv, Asks
<1>2. /\ acq'[p][k].stage = s /\ acq'[p][k].cur = e /\ \A j \in Key : j # k => acq'[p][j] = acq[p][j]
      /\ UNCHANGED <<conf, file, tmp>>
  BY <1>1, MovesFacts DEF Moves
<1> DEFINE op == NewWrite("acquire", k, w)  n == wiki[k].issued + 1
<1>3. /\ op \in HonestWrite /\ op.by = "acquire" /\ op.key = k /\ op.entry = w /\ op.stage = "queued"
      /\ Queue(p, op)
  BY <1>1, NewWriteFacts DEF Asks
<1>4. \/ s = "storing" /\ w = e /\ acq[p][k].stage = "refreshed" /\ e = acq[p][k].cur /\ UNCHANGED wiki
      \/ /\ s = "storing" /\ w = e /\ acq[p][k].stage = "exchanging" /\ e.token = n
         /\ wiki[k].issued < MaxToken /\ wiki' = [wiki EXCEPT ![k] = Granted(k, 0)]
      \/ /\ s = "deleting" /\ w = NoEntry /\ acq[p][k].stage = "rejected" /\ e = acq[p][k].cur
         /\ UNCHANGED wiki
  BY DEF Asks
<1> HIDE DEF op, n
<1>5. KeyOK(p, k)' /\ \A j \in Key : j # k => wiki'[j] = wiki[j]
  <2>1. CASE s = "storing" /\ acq[p][k].stage = "refreshed" /\ e = acq[p][k].cur /\ UNCHANGED wiki
    BY <1>1, <1>2, <2>1 DEF KeyOK
  <2>2. CASE s = "storing" /\ e.token = n /\ wiki[k].issued < MaxToken /\ wiki' = [wiki EXCEPT ![k] = Granted(k, 0)]
    <3>1. /\ wiki'[k].good = (wiki[k].good \ {0}) \cup {n} /\ n # 0
          /\ \A j \in Key : j # k => wiki'[j] = wiki[j]
      BY <1>1, <2>2, GrantFacts, Bounds DEF Shapes, n
    <3> QED
      BY <1>1, <1>2, <2>2, <3>1 DEF KeyOK
  <2>3. CASE s = "deleting" /\ acq[p][k].stage = "rejected" /\ e = acq[p][k].cur /\ UNCHANGED wiki
    BY <1>1, <1>2, <2>3 DEF KeyOK
  <2> QED
    BY <1>4, <2>1, <2>2, <2>3
<1>6. ChainOK(p)'
  <2>1. \A j \in Key : j # op.key => acq'[p][j] = acq[p][j]
    BY <1>2, <1>3
  <2>2. acq[p][op.key].stage \notin {"storing", "deleting"}
    BY <1>3, <1>4
  <2>3. \/ acq'[p][op.key].stage = "storing" /\ op.entry = acq'[p][op.key].cur
        \/ acq'[p][op.key].stage = "deleting" /\ op.entry = NoEntry
    BY <1>2, <1>3, <1>4
  <2> QED
    BY <1>2, <1>3, <2>1, <2>2, <2>3, Enqueued
<1>7. \A j \in Key : KeyOK(p, j)'
  BY <1>1, <1>5, MovedKeys
<1> QED
  BY <1>6, <1>7, OnlyOne

LEMMA AcquireOne ==
    ASSUME OneProcess, OneInv, NEW p \in Process, NEW k \in Key, AcquireStep(p, k)
    PROVE  OneInv'
<1>1. HomeInv /\ HomeInv'
  BY AcquireHome DEF OneInv
<1> QED
  BY <1>1, AcquireCases, QuietOne, RefreshesOne, AsksOne

LEMMA LogoutOne ==
    ASSUME OneProcess, OneInv, NEW p \in Process, LogoutStep(p)
    PROVE  OneInv'
<1>1. HomeInv /\ HomeInv'
  BY LogoutHome DEF OneInv
<1>2. /\ UNCHANGED <<conf, file, tmp, acq, wiki, lost>>
      /\ UNCHANGED chain \/ \E k \in Key : Queue(p, NewWrite("logout", k, NoEntry))
  BY <1>1, LogoutCases
<1>3. \A k \in Key : KeyOK(p, k)'
  BY <1>2 DEF OneInv, KeyOK
<1>4. CASE UNCHANGED chain
  <2>1. ChainOK(p)'
    BY <1>2, <1>4 DEF OneInv, ChainOK, WriteOK
  <2> QED
    BY <1>1, <1>3, <2>1, OnlyOne
<1>5. CASE \E k \in Key : Queue(p, NewWrite("logout", k, NoEntry))
  <2>1. PICK k \in Key : Queue(p, NewWrite("logout", k, NoEntry))
    BY <1>5
  <2> DEFINE op == NewWrite("logout", k, NoEntry)
  <2>2. /\ op \in HonestWrite /\ op.by = "logout" /\ op.key = k /\ op.entry = NoEntry /\ op.stage = "queued"
        /\ Queue(p, op)
    BY <2>1, NewWriteFacts, NoEntryFacts
  <2> HIDE DEF op
  <2>3. ChainOK(p)'
    BY <1>2, <2>2, Enqueued
  <2> QED
    BY <1>1, <1>3, <2>3, OnlyOne
<1> QED
  BY <1>2, <1>4, <1>5

LEMMA RestartOne ==
    ASSUME OneProcess, OneInv, NEW p \in Process, Restart(p)
    PROVE  OneInv'
<1>1. HomeInv /\ HomeInv' /\ Shapes
  BY RestartHome DEF OneInv, HomeInv
<1>2. /\ chain'[p] = <<>> /\ \A k \in Key : acq'[p][k] = Idle
      /\ lost' = lost \cup Unstored(p) /\ UNCHANGED <<file, wiki>>
  BY <1>1 DEF Restart, Shapes
<1>3. DOMAIN chain'[p] = {}
  BY <1>2
<1>4. ChainOK(p)'
  BY <1>3 DEF ChainOK
<1>5. ASSUME NEW k \in Key PROVE KeyOK(p, k)'
  <2>1. acq'[p][k].stage = "none" /\ KeyOK(p, k)
    BY <1>2, IdleFacts DEF OneInv
  <2>2. acq[p][k].stage \in {"refreshed", "storing"} => k \in lost'
    BY <1>2 DEF Unstored
  <2> QED
    BY <1>2, <2>1, <2>2 DEF KeyOK
<1> QED
  BY <1>1, <1>4, <1>5, OnlyOne
(* A write reads the file, or writes its change of it to the temporary file. *)
LEMMA AdvancesOne ==
    ASSUME OneProcess, OneInv, NEW p \in Process, NEW i \in DOMAIN chain[p], WriteReads(p, i) \/ WritesTmp(p, i)
    PROVE  OneInv'
<1>1. HomeInv /\ HomeInv' /\ ChainOK(p)
  BY AdvancesHome DEF OneInv
<1>2. UNCHANGED <<conf, file, acq, wiki, lost>>
  BY DEF WriteReads, WritesTmp
<1>3. \A k \in Key : KeyOK(p, k)'
  BY <1>2 DEF OneInv, KeyOK
<1>4. PICK x : /\ Advances(p, x)
               /\ \/ FirstWrite(p).stage = "queued" /\ x.stage = "read" /\ x.cur = file
                  \/ /\ FirstWrite(p).stage = "read" /\ x.stage = "written" /\ x.cur = FirstWrite(p).cur
                     /\ tmp' = [exists |-> TRUE,
                                content |-> [FirstWrite(p).cur EXCEPT ![FirstWrite(p).key] = FirstWrite(p).entry]]
  <2>1. CASE WriteReads(p, i)
    BY <1>1, <2>1, ReadsCases
  <2>2. CASE WritesTmp(p, i)
    BY <1>1, <2>2, TmpCases
  <2> QED
    BY <2>1, <2>2
<1>5. /\ DOMAIN chain'[p] = DOMAIN chain[p] /\ chain'[p][1] = x
      /\ \A j \in DOMAIN chain[p] : j # 1 => chain'[p][j] = chain[p][j]
      /\ 1 \in DOMAIN chain[p] /\ WriteOK(p, 1) /\ FirstWrite(p) = chain[p][1]
      /\ x.by = chain[p][1].by /\ x.key = chain[p][1].key /\ x.entry = chain[p][1].entry
  BY <1>1, <1>4, AdvancesFacts DEF Advances, FirstWrite, ChainOK
<1>6. WriteOK(p, 1)'
  <2>1. CASE FirstWrite(p).stage = "queued" /\ x.stage = "read" /\ x.cur = file
    BY <1>2, <1>5, <2>1 DEF WriteOK
  <2>2. CASE /\ FirstWrite(p).stage = "read" /\ x.stage = "written" /\ x.cur = FirstWrite(p).cur
             /\ tmp' = [exists |-> TRUE,
                        content |-> [FirstWrite(p).cur EXCEPT ![FirstWrite(p).key] = FirstWrite(p).entry]]
    <3>1. FirstWrite(p).cur = file /\ x.cur = file'
      BY <1>2, <1>5, <2>2 DEF WriteOK
    <3>2. tmp' = [exists |-> TRUE, content |-> [file' EXCEPT ![x.key] = x.entry]]
      BY <1>2, <1>5, <2>2, <3>1
    <3>3. tmp'.exists /\ tmp'.content = [file' EXCEPT ![x.key] = x.entry]
      BY <3>2
    <3>4. /\ (x.by = "logout" => x.entry = NoEntry)
          /\ (x.by = "acquire" => \/ acq'[p][x.key].stage = "storing" /\ x.entry = acq'[p][x.key].cur
                                  \/ acq'[p][x.key].stage = "deleting" /\ x.entry = NoEntry)
      BY <1>2, <1>5 DEF WriteOK
    <3> QED
      BY <1>5, <3>1, <3>3, <3>4 DEF WriteOK
  <2> QED
    BY <1>4, <2>1, <2>2
<1>7. ASSUME NEW j \in DOMAIN chain'[p], j # 1 PROVE WriteOK(p, j)'
  <2>1. chain'[p][j] = chain[p][j] /\ WriteOK(p, j) /\ chain[p][j].stage = "queued"
    BY <1>1, <1>5, <1>7 DEF ChainOK, WriteOK
  <2> QED
    BY <1>2, <1>7, <2>1 DEF WriteOK
<1>8. \A j \in DOMAIN chain[p] : chain'[p][j].by = chain[p][j].by /\ chain'[p][j].key = chain[p][j].key
  BY <1>5
<1>9. ChainOK(p)'
  BY <1>1, <1>5, <1>6, <1>7, <1>8 DEF ChainOK
<1> QED
  BY <1>1, <1>3, <1>9, OnlyOne

(* The writes that remain when the first is over all still wait their turn,  *)
(* and the calls that asked for them still wait.                             *)
LEMMA Remaining ==
    ASSUME OneInv, NEW p \in Process, 1 \in DOMAIN chain[p],
           LET k == FirstWrite(p).key IN
           /\ \A j \in Key : j # k => acq'[p][j] = acq[p][j]
           /\ FirstWrite(p).by = "logout" => acq'[p][k] = acq[p][k],
           \/ chain' = [chain EXCEPT ![p] = RemoveAt(chain[p], 1)]
           \/ \E k \in Key : chain' = [chain EXCEPT ![p] =
                                         Append(RemoveAt(chain[p], 1), NewWrite("logout", k, NoEntry))]
    PROVE  ChainOK(p)'
<1> DEFINE s == chain[p]  r == RemoveAt(chain[p], 1)
<1>1. s \in Seq(HonestWrite) /\ chain \in [Process -> Seq(HonestWrite)]
  BY DEF OneInv, HomeInv, Shapes
<1>2. /\ r \in Seq(HonestWrite) /\ Len(s) \in Nat \ {0} /\ DOMAIN s = 1 .. Len(s) /\ Len(r) = Len(s) - 1
      /\ \A i \in 1 .. Len(s) - 1 : r[i] = s[i + 1]
  BY <1>1, FirstRemoved
<1>3. DOMAIN r = 1 .. Len(s) - 1
  BY <1>2, LenProperties
<1>4. \A i \in 1 .. Len(s) - 1 : i + 1 \in 1 .. Len(s) /\ i + 1 # 1
  BY <1>2
<1> HIDE DEF s, r
<1>5. ASSUME NEW i \in DOMAIN r
      PROVE  \E j \in DOMAIN s : j = i + 1 /\ j # 1 /\ r[i] = s[j] /\ WriteOK(p, j) /\ s[j] \in HonestWrite
  <2>1. i \in 1 .. Len(s) - 1 /\ i + 1 \in DOMAIN s /\ i + 1 # 1 /\ r[i] = s[i + 1]
    BY <1>2, <1>3, <1>4, <1>5
  <2>2. WriteOK(p, i + 1) /\ s[i + 1] \in HonestWrite
    BY <1>1, <1>2, <2>1, ElementOfSeq DEF OneInv, ChainOK, s
  <2> QED
    BY <2>1, <2>2
(* A remaining write stays in order: it is queued, and its call untouched. *)
<1> DEFINE Good(op) ==
        /\ op.stage = "queued"
        /\ op.by = "logout" => op.entry = NoEntry
        /\ op.by = "acquire" => \/ acq'[p][op.key].stage = "storing" /\ op.entry = acq'[p][op.key].cur
                                \/ acq'[p][op.key].stage = "deleting" /\ op.entry = NoEntry
<1>6. ASSUME NEW i \in DOMAIN r PROVE Good(r[i])
  <2>1. PICK j \in DOMAIN s : j = i + 1 /\ j # 1 /\ r[i] = s[j] /\ WriteOK(p, j) /\ s[j] \in HonestWrite
    BY <1>5
  <2>2. s[j].key \in Key /\ FirstWrite(p) = s[1] /\ 1 \in DOMAIN s /\ FirstWrite(p).by \in {"acquire", "logout"}
    BY <2>1, WriteType, FirstType DEF FirstWrite, s, OneInv
  <2>3. s[j].by = "acquire" /\ FirstWrite(p).by = "acquire" => s[j].key # FirstWrite(p).key
    BY <2>1, <2>2 DEF OneInv, ChainOK, s
  <2>4. s[j].by = "acquire" => acq'[p][s[j].key] = acq[p][s[j].key]
    BY <2>2, <2>3
  <2> QED
    BY <2>1, <2>4 DEF WriteOK, s
<1>7. ASSUME NEW i \in DOMAIN r, NEW j \in DOMAIN r, r[i].by = "acquire", r[j].by = "acquire", r[i].key = r[j].key
      PROVE  i = j
  <2>1. PICK a \in DOMAIN s : a = i + 1 /\ r[i] = s[a]
    BY <1>5
  <2>2. PICK b \in DOMAIN s : b = j + 1 /\ r[j] = s[b]
    BY <1>5
  <2>3. a = b
    BY <1>7, <2>1, <2>2 DEF OneInv, ChainOK, s
  <2>4. i \in Int /\ j \in Int
    BY <1>2, <1>3
  <2> QED
    BY <2>1, <2>2, <2>3, <2>4
<1>8. CASE chain' = [chain EXCEPT ![p] = r]
  <2>1. chain'[p] = r
    BY <1>1, <1>8
  <2>2. \A i \in DOMAIN chain'[p] : WriteOK(p, i)'
    BY <1>6, <2>1 DEF WriteOK
  <2> QED
    BY <1>7, <2>1, <2>2 DEF ChainOK
<1>9. CASE \E k \in Key : chain' = [chain EXCEPT ![p] = Append(r, NewWrite("logout", k, NoEntry))]
  <2>1. PICK k \in Key : chain' = [chain EXCEPT ![p] = Append(r, NewWrite("logout", k, NoEntry))]
    BY <1>9
  <2> DEFINE op == NewWrite("logout", k, NoEntry)
  <2>2. op \in HonestWrite /\ op.by = "logout" /\ op.entry = NoEntry /\ op.stage = "queued"
    BY NewWriteFacts, NoEntryFacts
  <2>3. chain'[p] = Append(r, op)
    BY <1>1, <2>1
  <2> HIDE DEF op
  <2> DEFINE t == Append(r, op)
  <2>4. /\ Len(r) \in Nat /\ DOMAIN r = 1 .. Len(r) /\ DOMAIN t = 1 .. Len(r) + 1
        /\ \A i \in 1 .. Len(r) : t[i] = r[i]
        /\ t[Len(r) + 1] = op
    <3>1. r \in Seq(HonestWrite) /\ op \in HonestWrite
      BY <1>2, <2>2
    <3>2. \A q \in Seq(HonestWrite), w \in HonestWrite :
            /\ Len(q) \in Nat /\ DOMAIN q = 1 .. Len(q) /\ DOMAIN Append(q, w) = 1 .. Len(q) + 1
            /\ \A i \in 1 .. Len(q) : Append(q, w)[i] = q[i]
            /\ Append(q, w)[Len(q) + 1] = w
      <4> TAKE q \in Seq(HonestWrite), w \in HonestWrite
      <4> QED
        BY Appended
    <3> QED
      BY <3>1, <3>2, Zenon
  <2> HIDE DEF t
  <2>5. chain'[p] = t
    BY <2>3 DEF t
  <2>6. \A i \in DOMAIN t : (i \in DOMAIN r /\ t[i] = r[i]) \/ t[i] = op
    BY <2>4
  <2>7. \A i \in DOMAIN chain'[p] : WriteOK(p, i)'
    <3> SUFFICES ASSUME NEW i \in DOMAIN chain'[p] PROVE WriteOK(p, i)'
      OBVIOUS
    <3>1. Good(chain'[p][i])
      <4>1. CASE chain'[p][i] = op
        BY <2>2, <4>1
      <4>2. CASE i \in DOMAIN r /\ chain'[p][i] = r[i]
        BY <1>6, <4>2
      <4> QED
        BY <2>6, <2>5, <4>1, <4>2
    <3> QED
      BY <3>1 DEF WriteOK
  <2>8. ASSUME NEW i \in DOMAIN chain'[p], NEW j \in DOMAIN chain'[p],
               chain'[p][i].by = "acquire", chain'[p][j].by = "acquire", chain'[p][i].key = chain'[p][j].key
        PROVE  i = j
    BY <1>7, <2>2, <2>6, <2>8, <2>5
  <2> QED
    BY <2>7, <2>8 DEF ChainOK
<1> QED
  BY <1>8, <1>9 DEF r
(* A write that ends, done or failed. *)
LEMMA EndsOne ==
    ASSUME OneProcess, OneInv, NEW p \in Process, 1 \in DOMAIN chain[p], NEW ok \in BOOLEAN,
           WriteEnds(p, 1, ok), HomeInv', UNCHANGED <<conf, wiki>>,
           file' = IF ok THEN [file EXCEPT ![FirstWrite(p).key] = FirstWrite(p).entry] ELSE file
    PROVE  OneInv'
<1> DEFINE op == FirstWrite(p)
<1>1. PICK k \in Key : k = op.key
  BY FirstType, WriteType DEF OneInv
<1>2. HomeInv /\ op \in HonestWrite /\ op.key = k /\ op = chain[p][1] /\ WriteOK(p, 1) /\ file \in HonestFile
  BY <1>1, FirstType, WriteType DEF OneInv, ChainOK, FirstWrite, HomeInv, Shapes
<1>3. /\ op.by = "logout" => op.entry = NoEntry
      /\ op.by = "acquire" => \/ acq[p][k].stage = "storing" /\ op.entry = acq[p][k].cur
                              \/ acq[p][k].stage = "deleting" /\ op.entry = NoEntry
  BY <1>2 DEF WriteOK
<1>4. /\ file'[k] = IF ok THEN op.entry ELSE file[k]
      /\ \A j \in Key : j # k => file'[j] = file[j]
  BY <1>2 DEF HonestFile
<1>5. \A j \in Key : KeyOK(p, j)
  BY DEF OneInv
<1>6. CASE EndsForLogout(p)
  <2>1. op.by = "logout" /\ UNCHANGED <<acq, lost>>
    BY <1>6 DEF EndsForLogout
  <2>2. \A j \in Key : KeyOK(p, j)'
    BY <1>3, <1>4, <1>5, <2>1 DEF KeyOK
  <2>3. ChainOK(p)'
    BY <1>6, <2>1, Remaining DEF EndsForLogout
  <2> QED
    BY <2>2, <2>3, OnlyOne
<1>7. CASE \E s : EndsForCall(p, ok, s)
  <2>1. PICK s : EndsForCall(p, ok, s)
    BY <1>7
  <2> DEFINE x == [stage |-> s, cur |-> NoEntry]
  <2>2. /\ s \in {"none", "browse"} /\ op.by = "acquire" /\ x.stage = s
        /\ acq' = [acq EXCEPT ![p][k] = x] /\ acq \in [Process -> [Key -> HonestAcquire]]
        /\ lost' = IF ~ok /\ acq[p][k].stage = "storing" THEN lost \cup {k} ELSE lost
    BY <1>2, <2>1 DEF EndsForCall, At, HomeInv, Shapes
  <2> HIDE DEF x
  <2>3. acq'[p][k] = x /\ \A j \in Key : j # k => acq'[p][j] = acq[p][j]
    BY <1>2, <2>2
  <2> HIDE DEF op
  <2>4. ASSUME NEW j \in Key, j # k PROVE KeyOK(p, j)'
    BY <1>4, <1>5, <2>2, <2>3, <2>4 DEF KeyOK
  <2>5. KeyOK(p, k)'
    <3>1. acq'[p][k].stage = s /\ s \in {"none", "browse"} /\ wiki' = wiki /\ KeyOK(p, k)
      BY <1>2, <1>5, <2>2, <2>3
    <3>2. file'[k] = NoEntry \/ k \in lost' \/ file'[k].token \in wiki[k].good
      <4>1. CASE ok
        BY <1>3, <1>4, <2>2, <3>1, <4>1 DEF KeyOK
      <4>2. CASE ~ok
        BY <1>3, <1>4, <2>2, <3>1, <4>2 DEF KeyOK
      <4> QED
        BY <4>1, <4>2
    <3> QED
      BY <3>1, <3>2 DEF KeyOK
  <2>6. ChainOK(p)'
    BY <1>2, <2>1, <2>2, <2>3, Remaining DEF EndsForCall, op
  <2>7. \A j \in Key : KeyOK(p, j)'
    BY <2>4, <2>5
  <2> QED
    BY <2>6, <2>7, OnlyOne
<1> QED
  BY <1>2, <1>6, <1>7, EndsCases

(* What a write that ends found: its turn had come, and the temporary file,  *)
(* if it renames it, is the credentials as they are with its own change.     *)
LEMMA RenamesCases ==
    ASSUME OneInv, NEW p \in Process, NEW i \in DOMAIN chain[p], Renames(p, i)
    PROVE  /\ i = 1 /\ 1 \in DOMAIN chain[p] /\ WriteEnds(p, 1, TRUE) /\ UNCHANGED <<conf, wiki>>
           /\ file' = [file EXCEPT ![FirstWrite(p).key] = FirstWrite(p).entry]
<1>1. i = 1 /\ 1 \in DOMAIN chain[p] /\ chain[p][1].stage = "written" /\ FirstWrite(p) = chain[p][1]
  BY DEF Renames, Turn, FirstWrite
<1>2. WriteOK(p, 1)
  BY <1>1 DEF OneInv, ChainOK
<1>3. tmp.exists /\ tmp.content = [file EXCEPT ![FirstWrite(p).key] = FirstWrite(p).entry]
  BY <1>1, <1>2 DEF WriteOK
<1>4. tmp.exists \in BOOLEAN
  BY DEF OneInv, HomeInv, Shapes
<1>5. tmp.exists = TRUE
  BY <1>3, <1>4
<1>6. file' = tmp.content
  BY <1>3 DEF Renames
<1>7. WriteEnds(p, i, tmp.exists) /\ UNCHANGED <<conf, wiki>>
  BY DEF Renames
<1>8. WriteEnds(p, 1, TRUE)
  BY <1>1, <1>5, <1>7
<1> QED
  BY <1>1, <1>3, <1>6, <1>7, <1>8

LEMMA WritesOne ==
    ASSUME OneProcess, OneInv, NEW p \in Process, NEW i \in DOMAIN chain[p], Renames(p, i) \/ WriteFails(p, i)
    PROVE  OneInv'
<1>1. HomeInv'
  BY WritesHome DEF OneInv
<1>2. CASE Renames(p, i)
  BY <1>1, <1>2, RenamesCases, EndsOne
<1>3. CASE WriteFails(p, i)
  <2>1. 1 \in DOMAIN chain[p] /\ WriteEnds(p, 1, FALSE) /\ UNCHANGED <<conf, file, wiki>>
    BY <1>3 DEF WriteFails, Turn
  <2> QED
    BY <1>1, <2>1, EndsOne
<1> QED
  BY <1>2, <1>3

LEMMA OneStep == OneProcess /\ OneInv /\ [Next]_vars => OneInv'
<1> SUFFICES ASSUME OneProcess, OneInv, [Next]_vars PROVE OneInv'
  OBVIOUS
<1>1. CASE Next
  BY <1>1, NextCases, AcquireOne, LogoutOne, AdvancesOne, WritesOne, RestartOne
<1>2. CASE UNCHANGED vars
  <2>1. HomeInv'
    BY <1>2, HomeStep DEF OneInv
  <2>2. UNCHANGED <<conf, file, tmp, chain, acq, wiki, lost>>
    BY <1>2 DEF vars
  <2> QED
    BY <2>1, <2>2 DEF OneInv, ChainOK, WriteOK, KeyOK
<1> QED
  BY <1>1, <1>2

(* What always holds of one process: its writes are of the file as it is,    *)
(* and the file's token is good or a good one is on its way.                 *)
THEOREM OneInvariant == OneProcess => (Spec => []OneInv)
<1> SUFFICES ASSUME OneProcess PROVE Spec => []OneInv
  OBVIOUS
<1>1. OneInv /\ [Next]_vars => OneInv'
  BY OneStep
<1> QED
  BY <1>1, OneInit, PTL DEF Spec

(* The token in the file is good when no call is after one, unless an answer *)
(* of the wiki was lost with the write that would have stored it.            *)
THEOREM StoredTokenGoodHolds == OneProcess => (Spec => []StoredTokenGood)
<1> SUFFICES ASSUME OneProcess PROVE Spec => []StoredTokenGood
  OBVIOUS
<1>1. OneInv => StoredTokenGood
  <2> SUFFICES ASSUME OneInv, NEW k \in Key, file[k] # NoEntry, k \notin lost,
                      \A p \in Process : acq[p][k].stage = "none"
               PROVE  file[k].token \in wiki[k].good
    BY DEF StoredTokenGood
  <2>1. PICK p \in Process : acq[p][k].stage = "none"
    BY TokensAssumption
  <2> QED
    BY <2>1 DEF OneInv, KeyOK
<1> QED
  BY <1>1, OneInvariant, PTL

(* A token its wiki still accepts leaves the file only for a logout, or      *)
(* because the key was pointed at another wiki (doRefresh's delete).         *)
THEOREM GoodTokenKeptHolds == OneProcess => (Spec => GoodTokenKept)
<1> SUFFICES ASSUME OneProcess PROVE Spec => GoodTokenKept
  OBVIOUS
<1> DEFINE Step == \A k \in Key :
                     file[k].token \in wiki[k].good /\ file'[k] = NoEntry
                       => \/ LoggingOut(k)
                          \/ \E p \in Process : file[k].from # conf[p][k]
<1>1. OneInv /\ [Next]_vars => [Step]_vars
  <2> SUFFICES ASSUME OneInv, [Next]_vars, NEW k \in Key,
                      file[k].token \in wiki[k].good, file'[k] = NoEntry,
                      ~LoggingOut(k), \A p \in Process : file[k].from = conf[p][k]
               PROVE  FALSE
    OBVIOUS
  <2>1. \A p \in Process : KeyOK(p, k)
    BY DEF OneInv
  <2>2. file[k] # NoEntry
    BY <2>1, NoEntryFacts, TokensAssumption DEF KeyOK
  <2>3. file' # file
    BY <2>2
  <2>4. \E p \in Process : \E i \in DOMAIN chain[p] : Renames(p, i)
    <3>1. Next
      BY <2>3 DEF vars
    <3>2. PICK p \in Process :
             \/ \E j \in Key : AcquireStep(p, j)
             \/ LogoutStep(p)
             \/ \E i \in DOMAIN chain[p] : WriteReads(p, i) \/ WritesTmp(p, i)
             \/ \E i \in DOMAIN chain[p] : Renames(p, i) \/ WriteFails(p, i)
             \/ Restart(p)
      BY <3>1, NextCases
    <3>3. ASSUME NEW j \in Key, AcquireStep(p, j) PROVE file' = file
      BY <3>3, AcquireCases DEF OneInv, Quiet, Refreshes, Asks, Moves
    <3>4. LogoutStep(p) => file' = file
      BY LogoutCases DEF OneInv
    <3>5. Restart(p) => file' = file
      BY DEF Restart
    <3>6. \A i \in DOMAIN chain[p] : WriteReads(p, i) \/ WritesTmp(p, i) \/ WriteFails(p, i) => file' = file
      BY DEF WriteReads, WritesTmp, WriteFails
    <3> QED
      BY <2>3, <3>2, <3>3, <3>4, <3>5, <3>6
  <2>5. PICK p \in Process : \E i \in DOMAIN chain[p] : Renames(p, i)
    BY <2>4
  <2> DEFINE op == FirstWrite(p)
  <2>6. /\ 1 \in DOMAIN chain[p] /\ op = chain[p][1] /\ WriteOK(p, 1)
        /\ op \in HonestWrite /\ file \in HonestFile
        /\ file' = [file EXCEPT ![op.key] = op.entry]
    BY <2>5, RenamesCases, FirstType DEF OneInv, HomeInv, Shapes, ChainOK, FirstWrite
  <2>7. op.key = k /\ op.entry = NoEntry /\ op.by \in {"acquire", "logout"}
    BY <2>2, <2>6, WriteType DEF HonestFile
  <2>8. op.by # "logout"
    BY <2>6, <2>7 DEF LoggingOut
  <2>9. \/ acq[p][k].stage = "storing" /\ acq[p][k].cur = NoEntry
        \/ acq[p][k].stage = "deleting"
    BY <2>6, <2>7, <2>8 DEF WriteOK
  <2>10. acq[p][k].stage = "deleting"
    BY <2>1, <2>9, NoEntryFacts DEF KeyOK
  <2>11. file[k] = acq[p][k].cur /\ (file[k].token \notin wiki[k].good \/ file[k].from # conf[p][k])
    BY <2>1, <2>2, <2>10 DEF KeyOK
  <2> QED
    BY <2>11
<1>2. Spec => [][Step]_vars
  BY <1>1, OneInvariant, PTL DEF Spec
<1> QED
  BY <1>2 DEF GoodTokenKept
-----------------------------------------------------------------------------
(* The file of one process is the abstract store.                            *)
AskedAll(s) == [i \in DOMAIN s |-> Asked(s[i])]

LEMMA AskedFacts ==
    ASSUME NEW s \in Seq(HonestWrite), NEW op \in HonestWrite
    PROVE  /\ AskedAll(s) \in Seq(Store!Write) /\ Asked(op) \in Store!Write
           /\ AskedAll(Append(s, op)) = Append(AskedAll(s), Asked(op))
           /\ s # <<>> => /\ AskedAll(s) # <<>> /\ Head(AskedAll(s)) = Asked(s[1])
                          /\ AskedAll(Tail(s)) = Tail(AskedAll(s))
<1>1. ASSUME NEW w \in HonestWrite PROVE Asked(w) \in Store!Write
  BY WriteType DEF Asked, Store!Write, HonestEntry
<1>2. Len(s) \in Nat /\ DOMAIN s = 1 .. Len(s) /\ \A i \in 1 .. Len(s) : s[i] \in HonestWrite
  BY LenProperties, ElementOfSeq
<1> DEFINE t == AskedAll(s)
<1>3. t = [i \in 1 .. Len(s) |-> Asked(s[i])]
  BY <1>2 DEF AskedAll
<1>4. t \in Seq(Store!Write) /\ Len(t) = Len(s) /\ \A i \in 1 .. Len(s) : t[i] = Asked(s[i])
  <2>1. \A i \in 1 .. Len(s) : Asked(s[i]) \in Store!Write
    BY <1>1, <1>2
  <2>2. t \in [1 .. Len(s) -> Store!Write]
    BY <1>3, <2>1
  <2>3. t \in Seq(Store!Write)
    BY <1>2, <2>2
  <2>4. DOMAIN t = 1 .. Len(s) /\ DOMAIN t = 1 .. Len(t) /\ Len(t) \in Nat
    BY <1>3, <2>3, LenProperties
  <2>5. Len(t) = Len(s)
    BY <1>2, <2>4
  <2> QED
    BY <1>3, <2>3, <2>5
<1> HIDE DEF t
<1>5. AskedAll(Append(s, op)) = Append(t, Asked(op))
  <2> DEFINE a == Append(s, op)  b == Append(t, Asked(op))
  <2>1. /\ a \in Seq(HonestWrite) /\ DOMAIN a = 1 .. Len(s) + 1
        /\ \A i \in 1 .. Len(s) : a[i] = s[i]
        /\ a[Len(s) + 1] = op
    BY Appended
  <2>2. /\ b \in Seq(Store!Write) /\ DOMAIN b = 1 .. Len(s) + 1
        /\ \A i \in 1 .. Len(s) : b[i] = t[i]
        /\ b[Len(s) + 1] = Asked(op)
    <3>1. \A q \in Seq(Store!Write), w \in Store!Write :
            /\ Append(q, w) \in Seq(Store!Write) /\ DOMAIN Append(q, w) = 1 .. Len(q) + 1
            /\ \A i \in 1 .. Len(q) : Append(q, w)[i] = q[i]
            /\ Append(q, w)[Len(q) + 1] = w
      <4> TAKE q \in Seq(Store!Write), w \in Store!Write
      <4> QED
        BY Appended
    <3>2. t \in Seq(Store!Write) /\ Asked(op) \in Store!Write /\ Len(t) = Len(s)
      BY <1>1, <1>4
    <3> QED
      BY <3>1, <3>2
  <2> HIDE DEF a, b
  <2>3. b = [i \in 1 .. Len(s) + 1 |-> b[i]]
    BY <2>2, SeqDef
  <2>4. \A i \in 1 .. Len(s) + 1 : b[i] = Asked(a[i])
    BY <1>2, <1>4, <2>1, <2>2
  <2>5. [i \in DOMAIN a |-> Asked(a[i])] = b
    BY <2>1, <2>3, <2>4
  <2> QED
    BY <2>5 DEF AskedAll, a, b
<1>6. ASSUME s # <<>>
      PROVE  t # <<>> /\ Head(t) = Asked(s[1]) /\ AskedAll(Tail(s)) = Tail(t)
  <2>1. Len(s) >= 1
    BY <1>2, <1>6, EmptySeq
  <2>2. /\ Tail(s) \in Seq(HonestWrite) /\ Len(Tail(s)) = Len(s) - 1
        /\ \A i \in 1 .. Len(s) - 1 : Tail(s)[i] = s[i + 1]
    BY <1>6, HeadTailProperties
  <2>3. t # <<>>
    BY <1>4, <2>1, EmptySeq
  <2>4. /\ Tail(t) \in Seq(Store!Write) /\ Len(Tail(t)) = Len(s) - 1
        /\ \A i \in 1 .. Len(s) - 1 : Tail(t)[i] = t[i + 1]
    BY <1>4, <2>3, HeadTailProperties
  <2>5. Head(t) = Asked(s[1])
    BY <1>4, <2>1 DEF Head
  <2> DEFINE a == Tail(s)  b == Tail(t)
  <2> HIDE DEF a, b
  <2>6. DOMAIN a = 1 .. Len(s) - 1 /\ DOMAIN b = 1 .. Len(s) - 1 /\ b \in Seq(Store!Write)
    BY <2>2, <2>4, LenProperties DEF a, b
  <2>7. b = [i \in 1 .. Len(s) - 1 |-> b[i]]
    BY <2>6, SeqDef
  <2>8. \A i \in 1 .. Len(s) - 1 : b[i] = Asked(a[i])
    <3> TAKE i \in 1 .. Len(s) - 1
    <3>1. i + 1 \in 1 .. Len(s)
      BY <1>2
    <3> QED
      BY <1>4, <2>2, <2>4, <3>1 DEF a, b
  <2>9. [i \in DOMAIN a |-> Asked(a[i])] = b
    BY <2>6, <2>7, <2>8
  <2> QED
    BY <2>3, <2>5, <2>9 DEF AskedAll, a, b
<1> QED
  BY <1>1, <1>4, <1>5, <1>6 DEF t
(* A process's writes change to s: so do those the store sees. *)
LEMMA PendingNext ==
    ASSUME Shapes, NEW p \in Process, NEW s, chain' = [chain EXCEPT ![p] = s]
    PROVE  Pending' = [Pending EXCEPT ![p] = AskedAll(s)] /\ Pending[p] = AskedAll(chain[p])
<1>1. chain'[p] = s /\ \A q \in Process : q # p => chain'[q] = chain[q]
  BY DEF Shapes
<1> DEFINE d == [q \in Process |-> AskedAll(chain'[q])]
<1>2. Pending' = d
  BY DEF Pending, AskedAll
<1>3. Pending = [q \in Process |-> AskedAll(chain[q])]
  BY DEF Pending, AskedAll
<1>4. d = [Pending EXCEPT ![p] = AskedAll(s)]
  BY <1>1, <1>3
<1> QED
  BY <1>2, <1>3, <1>4

(* A process asks for one more write. *)
LEMMA StoreAsks ==
    ASSUME HomeInv, NEW p \in Process, NEW op \in HonestWrite, Queue(p, op), UNCHANGED file
    PROVE  Store!Ask(p)
<1>1. chain[p] \in Seq(HonestWrite) /\ chain' = [chain EXCEPT ![p] = Append(chain[p], op)] /\ Shapes
  BY DEF HomeInv, Shapes, Queue
<1>2. Pending' = [Pending EXCEPT ![p] = AskedAll(Append(chain[p], op))] /\ Pending[p] = AskedAll(chain[p])
  BY <1>1, PendingNext
<1>3. AskedAll(Append(chain[p], op)) = Append(Pending[p], Asked(op)) /\ Asked(op) \in Store!Write
  BY <1>1, <1>2, AskedFacts
<1> QED
  BY <1>2, <1>3 DEF Store!Ask, Store!Leaves

(* A write ends: its process's others remain, and one more may be asked for. *)
LEMMA StoreLeaves ==
    ASSUME HomeInv, NEW p \in Process, 1 \in DOMAIN chain[p], NEW ok \in BOOLEAN, WriteEnds(p, 1, ok)
    PROVE  /\ Pending[p] # <<>> /\ Head(Pending[p]) = Asked(FirstWrite(p))
           /\ Store!Leaves(p, Tail(Pending[p]))
<1> DEFINE r == RemoveAt(chain[p], 1)
<1>1. /\ chain[p] \in Seq(HonestWrite) /\ Shapes /\ FirstWrite(p) = chain[p][1]
      /\ FirstWrite(p) \in HonestWrite
  BY FirstType DEF HomeInv, Shapes, FirstWrite
<1>2. r = Tail(chain[p]) /\ r \in Seq(HonestWrite) /\ chain[p] # <<>>
  BY <1>1, FirstRemoved
<1>3. Pending[p] = AskedAll(chain[p])
  BY DEF Pending, AskedAll
<1>4. Pending[p] # <<>> /\ Head(Pending[p]) = Asked(FirstWrite(p)) /\ AskedAll(r) = Tail(Pending[p])
  BY <1>1, <1>2, <1>3, AskedFacts
<1>5. \/ chain' = [chain EXCEPT ![p] = r]
      \/ \E k \in Key : chain' = [chain EXCEPT ![p] = Append(r, NewWrite("logout", k, NoEntry))]
  BY EndsCases DEF EndsForLogout, EndsForCall
<1> HIDE DEF r
<1>6. CASE chain' = [chain EXCEPT ![p] = r]
  <2>1. Pending' = [Pending EXCEPT ![p] = AskedAll(r)]
    BY <1>1, <1>6, PendingNext
  <2> QED
    BY <1>4, <2>1 DEF Store!Leaves
<1>7. CASE \E k \in Key : chain' = [chain EXCEPT ![p] = Append(r, NewWrite("logout", k, NoEntry))]
  <2>1. PICK k \in Key : chain' = [chain EXCEPT ![p] = Append(r, NewWrite("logout", k, NoEntry))]
    BY <1>7
  <2> DEFINE op == NewWrite("logout", k, NoEntry)
  <2>2. op \in HonestWrite
    BY NewWriteFacts, NoEntryFacts
  <2> HIDE DEF op
  <2>3. Pending' = [Pending EXCEPT ![p] = AskedAll(Append(r, op))]
    BY <1>1, <2>1, PendingNext DEF op
  <2>4. AskedAll(Append(r, op)) = Append(AskedAll(r), Asked(op)) /\ Asked(op) \in Store!Write
    BY <1>2, <2>2, AskedFacts
  <2> QED
    BY <1>4, <2>3, <2>4 DEF Store!Leaves
<1> QED
  BY <1>4, <1>5, <1>6, <1>7

(* Reading the file and writing the temporary one change nothing it shows. *)
LEMMA StoreWaits ==
    ASSUME HomeInv, NEW p \in Process, NEW i \in DOMAIN chain[p], WriteReads(p, i) \/ WritesTmp(p, i)
    PROVE  UNCHANGED <<file, Pending>>
<1>1. UNCHANGED file
  BY DEF WriteReads, WritesTmp
<1>2. PICK x : Advances(p, x)
  BY ReadsCases, TmpCases
<1>3. /\ DOMAIN chain'[p] = DOMAIN chain[p] /\ chain'[p][1] = x
      /\ \A j \in DOMAIN chain[p] : j # 1 => chain'[p][j] = chain[p][j]
      /\ \A q \in Process : q # p => chain'[q] = chain[q]
  BY <1>2, AdvancesFacts
<1>4. x.key = chain[p][1].key /\ x.entry = chain[p][1].entry
  BY <1>2 DEF Advances
<1>5. \A j \in DOMAIN chain[p] : Asked(chain'[p][j]) = Asked(chain[p][j])
  BY <1>3, <1>4 DEF Asked
<1>6. \A q \in Process : [j \in DOMAIN chain'[q] |-> Asked(chain'[q][j])] = [j \in DOMAIN chain[q] |-> Asked(chain[q][j])]
  <2> TAKE q \in Process
  <2>1. CASE q = p
    BY <1>3, <1>5, <2>1
  <2>2. CASE q # p
    BY <1>3, <2>2
  <2> QED
    BY <2>1, <2>2
<1>7. Pending' = Pending
  BY <1>6 DEF Pending
<1> QED
  BY <1>1, <1>7

LEMMA StoreStep ==
    ASSUME OneInv, Next
    PROVE  Store!Next \/ UNCHANGED <<file, Pending>>
<1>1. HomeInv /\ Shapes
  BY DEF OneInv, HomeInv
<1>2. PICK p \in Process :
         \/ \E k \in Key : AcquireStep(p, k)
         \/ LogoutStep(p)
         \/ \E i \in DOMAIN chain[p] : WriteReads(p, i) \/ WritesTmp(p, i)
         \/ \E i \in DOMAIN chain[p] : Renames(p, i) \/ WriteFails(p, i)
         \/ Restart(p)
  BY NextCases
<1>3. UNCHANGED <<file, chain>> => UNCHANGED <<file, Pending>>
  BY DEF Pending
<1>4. ASSUME NEW op \in HonestWrite, Queue(p, op), UNCHANGED file PROVE Store!Next
  BY <1>1, <1>4, StoreAsks DEF Store!Next
<1>5. ASSUME NEW k \in Key, AcquireStep(p, k) PROVE Store!Next \/ UNCHANGED <<file, Pending>>
  <2>1. CASE (\E s, e : Quiet(p, k, s, e)) \/ (\E s, e : Refreshes(p, k, s, e))
    BY <1>3, <2>1 DEF Quiet, Refreshes, Moves
  <2>2. CASE \E s, e, w : Asks(p, k, s, e, w)
    <3>1. PICK s, e, w : Asks(p, k, s, e, w)
      BY <2>2
    <3>2. NewWrite("acquire", k, w) \in HonestWrite
      BY <3>1, NewWriteFacts DEF Asks
    <3>3. UNCHANGED file /\ Queue(p, NewWrite("acquire", k, w))
      BY <3>1 DEF Asks, Moves
    <3> QED
      BY <1>4, <3>2, <3>3
  <2> QED
    BY <1>1, <1>5, <2>1, <2>2, AcquireCases
<1>6. CASE LogoutStep(p)
  <2>1. UNCHANGED file /\ (UNCHANGED chain \/ \E k \in Key : Queue(p, NewWrite("logout", k, NoEntry)))
    BY <1>1, <1>6, LogoutCases
  <2>2. \A k \in Key : NewWrite("logout", k, NoEntry) \in HonestWrite
    BY NewWriteFacts, NoEntryFacts
  <2> QED
    BY <1>3, <1>4, <2>1, <2>2
<1>7. CASE \E i \in DOMAIN chain[p] : WriteReads(p, i) \/ WritesTmp(p, i)
  BY <1>1, <1>7, StoreWaits
<1>8. ASSUME NEW i \in DOMAIN chain[p], Renames(p, i) PROVE Store!Next
  <2>1. /\ 1 \in DOMAIN chain[p] /\ WriteEnds(p, 1, TRUE)
        /\ file' = [file EXCEPT ![FirstWrite(p).key] = FirstWrite(p).entry]
    BY <1>8, RenamesCases
  <2>2. /\ Pending[p] # <<>> /\ Head(Pending[p]) = Asked(FirstWrite(p))
        /\ Store!Leaves(p, Tail(Pending[p]))
    BY <1>1, <2>1, StoreLeaves
  <2>3. Head(Pending[p]).key = FirstWrite(p).key /\ Head(Pending[p]).entry = FirstWrite(p).entry
    BY <2>2 DEF Asked
  <2>4. Store!TakeEffect(p)
    BY <2>1, <2>2, <2>3 DEF Store!TakeEffect
  <2> QED
    BY <2>4 DEF Store!Next
<1>9. ASSUME NEW i \in DOMAIN chain[p], WriteFails(p, i) PROVE Store!Next
  <2>1. 1 \in DOMAIN chain[p] /\ WriteEnds(p, 1, FALSE) /\ UNCHANGED file
    BY <1>9 DEF WriteFails, Turn
  <2>2. Store!Fail(p)
    BY <1>1, <2>1, StoreLeaves DEF Store!Fail
  <2> QED
    BY <2>2 DEF Store!Next
<1>10. CASE Restart(p)
  <2>1. chain' = [chain EXCEPT ![p] = <<>>] /\ UNCHANGED file
    BY <1>10 DEF Restart
  <2>2. Pending' = [Pending EXCEPT ![p] = AskedAll(<<>>)]
    BY <1>1, <2>1, PendingNext
  <2>3. AskedAll(<<>>) = <<>>
    BY DEF AskedAll
  <2>4. Store!End(p)
    BY <2>1, <2>2, <2>3 DEF Store!End
  <2> QED
    BY <2>4 DEF Store!Next
<1> QED
  BY <1>2, <1>5, <1>6, <1>7, <1>8, <1>9, <1>10

LEMMA StoreInit == Init => Store!Init
<1> SUFFICES ASSUME Init PROVE Store!Init
  OBVIOUS
<1>1. file \in [Key -> Entry]
  BY HomeInit DEF HomeInv, Shapes, HonestFile, HonestEntry
<1>2. \A p \in Process : [i \in DOMAIN chain[p] |-> Asked(chain[p][i])] = <<>>
  BY DEF Init
<1>3. Pending = [p \in Process |-> <<>>]
  BY <1>2 DEF Pending
<1> QED
  BY <1>1, <1>3 DEF Store!Init

(* The credentials file of one process is the abstract store: each write     *)
(* takes effect on the file as it then is, in the order of asking            *)
(* (chainedWrite and its temporary file).                                    *)
THEOREM StoreImplemented == OneProcess => (Spec => ImplementsStore)
<1> SUFFICES ASSUME OneProcess PROVE Spec => Store!Spec
  BY DEF ImplementsStore
<1>1. OneInv /\ [Next]_vars => [Store!Next]_<<file, Pending>>
  <2>1. OneInv /\ Next => [Store!Next]_<<file, Pending>>
    BY StoreStep
  <2>2. UNCHANGED vars => UNCHANGED <<file, Pending>>
    BY DEF vars, Pending
  <2> QED
    BY <2>1, <2>2
<1>2. Spec => []OneInv
  BY OneInvariant
<1> QED
  BY <1>1, <1>2, StoreInit, PTL DEF Spec, Store!Spec

===============================================================================
