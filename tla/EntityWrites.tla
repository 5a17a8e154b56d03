----------------------------- MODULE EntityWrites -----------------------------
(***************************************************************************)
(* The tools that write structured data: wikibase-edit-entity,             *)
(* wikibase-add-statement, wikibase-setsitelink, the three add tools of    *)
(* EmbeddableContent and the writes of NeoWiki.  The answer of a write may *)
(* be lost after the wiki has processed it; a Wikibase or                  *)
(* EmbeddableContent tool then reads the wiki again and says whether the   *)
(* change is there and whether the call can be repeated.  Callers repeat a *)
(* call when, and only when, they are told that this is safe.              *)
(*                                                                         *)
(* The API client below the tools sends a request again by itself when its *)
(* connection breaks, and what it had sent may reach the wiki all the same.*)
(*                                                                         *)
(* The vocabulary that embeddable-describe-entity-type reports is resolved *)
(* once per wiki by a promise its callers share.  The wiki is external.    *)
(***************************************************************************)
EXTENDS Integers, FiniteSetsExt

CONSTANTS
    Call,        \* tool calls
    Item,        \* the items the wiki can hold
    Name,        \* the texts of labels and descriptions
    Page,        \* page titles
    Args,        \* the arguments of the calls
    Role,        \* the properties and classes of the vocabulary
    None,        \* no value
    Default,     \* the ID each role has on the reference instance
    SearchLimit, \* the hits of one search
    MaxSends,    \* bound: how often a call's write is sent
    MaxBroken,   \* bound: the connections that break
    MaxOthers    \* bound: the changes others make

ASSUME WritesAssumption ==
    /\ SearchLimit \in Nat \ {0} /\ MaxSends \in Nat \ {0}
    /\ MaxBroken \in Nat /\ MaxOthers \in Nat
    /\ Default \in [Role -> Item] /\ Name # {}
    /\ None \notin Call \cup Item \cup Name \cup Page \cup Role

VARIABLES
    item,       \* the items of the wiki
    subject,    \* the NeoWiki subjects
    pageId,     \* the page a title names now
    call,       \* the tool calls
    vocabulary, \* the cached promise of resolveVocabulary
    labelled,   \* history: the <<ID, role>> an ID was ever labelled for
    others      \* the changes others have made

vars == <<item, subject, pageId, call, vocabulary, labelled, others>>
wiki == <<item, subject, pageId, labelled, others>>

-----------------------------------------------------------------------------
(* The wiki's data *)

(* A stored label begins with a name: it is the name, the name with a       *)
(* suffix in parentheses, or a longer word; a search by prefix finds each.  *)
Form == {"plain", "suffixed", "longer"}
Label == [name: Name \cup {None}, form: Form]
NoLabel == [name |-> None, form |-> "plain"]

(* Items and statements carry the call and the sending that made them.  The *)
(* alias stands for the terms that no second read compares: aliases, lemmas, *)
(* a label removed.                                                          *)
Statement == [value: Name, by: Call \cup {None}, sending: 0 .. MaxSends]

Entity == [live: BOOLEAN, by: Call \cup {None}, sending: 0 .. MaxSends, label: Label,
           text: Name \cup {None}, alias: Name \cup {None}, link: Page \cup {None},
           claims: SUBSET Statement, role: Role \cup {None}]
Unused == [live |-> FALSE, by |-> None, sending |-> 0, label |-> NoLabel, text |-> None,
           alias |-> None, link |-> None, claims |-> {}, role |-> None]

Live == {i \in Item : item[i].live}
Named(n) == {i \in Live : item[i].label.name = n}

(* wbsearchentities: SearchLimit of the items whose label has the prefix. *)
Hits(n) == kSubset(IF Cardinality(Named(n)) < SearchLimit THEN Cardinality(Named(n)) ELSE SearchLimit,
                   Named(n))

(* findItemByLabelPrefix: of the hits, the label itself or one with a suffix. *)
Matching(hits) == {i \in hits : item[i].label.form # "longer"}

-----------------------------------------------------------------------------
(* The calls *)

EntityTool == {"edit-entity", "add-statement", "setsitelink"}
AddTool == {"add-citation-source", "add-semantic-entity", "add-special-content"}
SubjectTool == {"create-subject", "update-subject", "delete-subject", "set-main-subject"}

(* target None creates; label, text and alias are the submitted terms; kind  *)
(* is the datatype of a statement or the part to describe; language is the   *)
(* label given for the programming language; link is the page, or the page   *)
(* of a subject; odd gives claims keyed by property and links as a list.     *)
NoArgs == [tool |-> "edit-entity", target |-> None, label |-> None, text |-> None,
           alias |-> None, value |-> None, link |-> None, odd |-> FALSE, clear |-> FALSE,
           kind |-> "text", language |-> None, confirm |-> FALSE, collision |-> "none"]

(* The input schemas: one statement of one value, or one link, of one item.  *)
(* hasOnePageRef: a subject is created on, or made the main one of, a page.  *)
Argument ==
    [tool: EntityTool \cup AddTool \cup SubjectTool \cup {"describe"}, target: Item \cup {None},
     label: Name \cup {None}, text: Name \cup {None}, alias: Name \cup {None},
     value: Name \cup {None}, link: Page \cup {None}, odd: BOOLEAN, clear: BOOLEAN,
     kind: {"text", "other", "none", "missing", "all", "semantic-entity"},
     language: Name \cup {None}, confirm: BOOLEAN,
     collision: {"none", "reuse", "delete", "duplicate"}]

ASSUME ArgsAssumption ==
    /\ Args \subseteq Argument
    /\ \A a \in Args :
         /\ a.tool \in {"add-statement", "setsitelink"} =>
              a.target # None /\ a.label = None /\ a.text = None /\ a.alias = None /\ ~a.odd /\ ~a.clear
         /\ a.tool = "add-statement" => a.value # None /\ a.link = None
         /\ a.tool = "setsitelink" => a.value = None /\ a.link # None
         /\ a.tool \in {"create-subject", "set-main-subject"} => a.link # None

(* What a call can submit. *)
Part == {"label", "text", "alias", "value", "link"}
Submitted(a) == {p \in Part : a[p] # None}

(* The broken sendings are those the client repeated by itself; the late     *)
(* ones among them may still reach the wiki.  History: whether the write was *)
(* ever applied, and the parts seen when the wiki was read again.            *)
CallState ==
    [pc: {"new", "datatype", "language", "page", "send", "lost", "describe", "fields", "done"},
     args: Argument, sends: 0 .. MaxSends, broken: SUBSET (1 .. MaxSends), late: SUBSET (1 .. MaxSends),
     landed: BOOLEAN, seen: SUBSET Part, page: Page \cup {None},
     answer: {"none", "ok", "notFound", "failed", "invalid", "duplicate", "collision", "warned",
              "likely", "unknown", "safe"}]

NewCall == [pc |-> "new", args |-> NoArgs, sends |-> 0, answer |-> "none",
            broken |-> {}, late |-> {}, landed |-> FALSE, seen |-> {}, page |-> None]

To(c, pc) == call' = [call EXCEPT ![c].pc = pc]
Answered(record, answer) == [record EXCEPT !.pc = "done", !.answer = answer]
Ends(c, answer) == call' = [call EXCEPT ![c] = Answered(@, answer)]

(* The schemas of the add tools: the programming language belongs to two of  *)
(* them, an answer to a collision to two others.                             *)
SourceTakes(a) == a.language = None
EntityTakes(a) == TRUE
ContentTakes(a) == a.collision = "none"

Takes(a) == CASE a.tool = "add-citation-source" -> SourceTakes(a)
              [] a.tool = "add-special-content" -> ContentTakes(a)
              [] OTHER -> EntityTakes(a)

(* handle, up to its first request. *)
Begin(c, a) ==
    /\ call[c].pc = "new" /\ Takes(a)
    /\ call' = [call EXCEPT ![c].args = a, ![c].pc =
         CASE a.tool = "add-statement" -> "datatype"
           [] a.tool \in AddTool /\ a.language # None -> "language"
           [] a.tool \in {"create-subject", "set-main-subject"} -> "page"
           [] a.tool = "describe" -> "describe"
           [] OTHER -> "send"]
    /\ UNCHANGED <<wiki, vocabulary>>

(* add-statement: the value is built for the property's datatype. *)
LookUpDatatype(c) ==
    /\ call[c].pc = "datatype"
    /\ CASE call[c].args.kind = "missing" -> Ends(c, "notFound")
         [] call[c].args.kind = "none" -> Ends(c, "failed")
         [] call[c].args.kind = "other" -> Ends(c, "invalid")
         [] OTHER -> To(c, "send")
    /\ UNCHANGED <<wiki, vocabulary>>

(* resolveItemIdOrLabel: a hit with exactly the label. *)
ResolveLanguage(c) ==
    /\ call[c].pc = "language"
    /\ \E hits \in Hits(call[c].args.language) :
         IF \E i \in hits : item[i].label.form = "plain" THEN To(c, "send") ELSE Ends(c, "invalid")
    /\ UNCHANGED <<wiki, vocabulary>>

(* resolvePageId: the title is resolved once, the write names the ID. *)
ResolvePage(c) ==
    /\ call[c].pc = "page"
    /\ IF pageId[call[c].args.link] = None THEN Ends(c, "notFound")
       ELSE call' = [call EXCEPT ![c].pc = "send", ![c].page = pageId[call[c].args.link]]
    /\ UNCHANGED <<wiki, vocabulary>>

-----------------------------------------------------------------------------
(* External: what the modules of the wiki make of a write *)

Or(new, old) == IF new = None THEN old ELSE new
Added(c, n) == IF call[c].args.value = None THEN {}
               ELSE {[value |-> call[c].args.value, by |-> c, sending |-> n]}

New(c, n, form) ==
    LET a == call[c].args IN
    [live |-> TRUE, by |-> c, sending |-> n, text |-> a.text, alias |-> a.alias, link |-> a.link,
     label |-> [name |-> a.label, form |-> IF a.label = None THEN "plain" ELSE form],
     claims |-> Added(c, n), role |-> None]

(* Given terms and links replace the old; a statement without a GUID is     *)
(* added.  An add tool replaces the statements of its properties instead.   *)
Updated(c, n, e) ==
    LET a == call[c].args
        old == IF a.clear THEN [Unused EXCEPT !.live = TRUE, !.by = e.by, !.sending = e.sending] ELSE e IN
    [old EXCEPT !.label = IF a.label = None THEN @ ELSE [name |-> a.label, form |-> "plain"],
                !.text = Or(a.text, @), !.alias = Or(a.alias, @), !.link = Or(a.link, @),
                !.claims = IF a.tool \in AddTool /\ a.value # None THEN Added(c, n) ELSE @ \cup Added(c, n)]

Fresh == {i \in Item : item[i] = Unused /\ \A r \in Role : Default[r] # i}

Creates(c, n, form) ==
    \E i \in Fresh : i = (CHOOSE j \in Fresh : TRUE) /\ item' = [item EXCEPT ![i] = New(c, n, form)]
Changes(c, n, i) == i \in Live /\ item' = [item EXCEPT ![i] = Updated(c, n, @)]

(* An add tool's create, past its guards: reuse applies the record to the   *)
(* item of that label, delete removes it first.                             *)
Resolved(c, n) ==
    LET same == {i \in Named(call[c].args.label) : item[i].label.form # "longer"} IN
    CASE same # {} /\ call[c].args.collision = "reuse" -> \E i \in same : Changes(c, n, i)
      [] same # {} /\ call[c].args.collision = "delete" ->
           \E i \in same, j \in Fresh : item' = [item EXCEPT ![i].live = FALSE, ![j] = New(c, n, "plain")]
      [] OTHER -> \E form \in {"plain", "suffixed"} : Creates(c, n, form)

(* NeoWiki: a subject of the page, or one of the subjects there are. *)
CreateSubject(c) == subject' = subject \cup {[at |-> call[c].page, by |-> c, main |-> FALSE, value |-> None]}
UpdateSubject(c) == \E s \in subject : subject' = (subject \ {s}) \cup {[s EXCEPT !.value = call[c].args.value]}
DeleteSubject(c) == \E s \in subject : subject' = subject \ {s}
SetMainSubject(c) ==
    \E s \in subject :
      /\ s.at = call[c].page
      /\ subject' = {IF t.at = s.at THEN [t EXCEPT !.main = (t = s)] ELSE t : t \in subject}

(* The n-th sending of the write of c reaches the wiki. *)
Applies(c, n) ==
    LET a == call[c].args IN
    IF a.tool \in SubjectTool
    THEN /\ CASE a.tool = "create-subject" -> CreateSubject(c)
              [] a.tool = "update-subject" -> UpdateSubject(c)
              [] a.tool = "delete-subject" -> DeleteSubject(c)
              [] OTHER -> SetMainSubject(c)
         /\ UNCHANGED item
    ELSE /\ \/ a.target # None /\ Changes(c, n, a.target)
            \/ a.target = None /\ a.tool \in AddTool /\ Resolved(c, n)
            \/ a.target = None /\ a.tool \notin AddTool /\ Creates(c, n, "plain")
         /\ UNCHANGED subject

(* The guards of an add tool's create: an item of the same name, or the same *)
(* label and another page, unless the caller asked for it all the same.      *)
DuplicateGuard(c) ==
    LET a == call[c].args IN
    a.tool \in AddTool /\ a.target = None /\ ~a.confirm /\ a.label # None /\ Named(a.label) # {}
CollisionGuard(c) ==
    LET a == call[c].args IN
    /\ a.tool \in AddTool \ {"add-special-content"} /\ a.target = None /\ a.label # None
    /\ a.collision = "none" /\ \E i \in Named(a.label) : item[i].label.form = "plain"

Accepts(c) == ~DuplicateGuard(c) /\ ~CollisionGuard(c)

-----------------------------------------------------------------------------
(* Sending the write *)

Sending(c) == call[c].pc = "send" /\ call[c].sends < MaxSends
Now(c) == call[c].sends + 1
Sent(c) == [call[c] EXCEPT !.sends = Now(c)]

(* The wiki applies the write and the answer arrives. *)
SendAnswered(c) ==
    /\ Sending(c) /\ Accepts(c)
    /\ Applies(c, Now(c))
    /\ call' = [call EXCEPT ![c] = Answered([Sent(c) EXCEPT !.landed = TRUE], "ok")]
    /\ UNCHANGED <<pageId, labelled, others, vocabulary>>

(* The wiki refuses: duplicateHitOf, collisionHitOf, or an API error.       *)
SendRefused(c) ==
    /\ Sending(c)
    /\ \/ DuplicateGuard(c) /\ call' = [call EXCEPT ![c] = Answered(Sent(c), "duplicate")]
       \/ CollisionGuard(c) /\ call' = [call EXCEPT ![c] = Answered(Sent(c), "collision")]
       \/ call' = [call EXCEPT ![c] = Answered(Sent(c), "failed")]
    /\ UNCHANGED <<wiki, vocabulary>>

(* The answer does not arrive, whether or not the write was applied.  A     *)
(* time-out warns of it, and the NeoWiki requests let it pass; a connection *)
(* that stays broken is a failure; an answer without a result is read up.    *)
SendLost(c) ==
    /\ Sending(c)
    /\ \E applied \in {FALSE} \cup {Accepts(c)} :
         LET sent == [Sent(c) EXCEPT !.landed = @ \/ applied] IN
         /\ IF applied THEN Applies(c, Now(c)) ELSE UNCHANGED <<item, subject>>
         /\ \/ \E answer \in {"warned", "failed"} : call' = [call EXCEPT ![c] = Answered(sent, answer)]
            \/ call[c].args.tool \notin SubjectTool /\ call' = [call EXCEPT ![c] = [sent EXCEPT !.pc = "lost"]]
    /\ UNCHANGED <<pageId, labelled, others, vocabulary>>

Broken == {x \in Call \X (1 .. MaxSends) : x[2] \in call[x[1]].broken}

(* The connection breaks and the client sends the request again: the first  *)
(* one was applied, or may be yet.  NeoWiki's requests are not repeated.     *)
ConnectionBreaks(c) ==
    /\ Sending(c) /\ Now(c) < MaxSends /\ Cardinality(Broken) < MaxBroken
    /\ call[c].args.tool \notin SubjectTool
    /\ \E applied \in {FALSE} \cup {Accepts(c)} :
         /\ IF applied THEN Applies(c, Now(c)) ELSE UNCHANGED <<item, subject>>
         /\ call' = [call EXCEPT ![c] = [Sent(c) EXCEPT !.broken = @ \cup {Now(c)}, !.landed = @ \/ applied,
                                                       !.late = IF applied THEN @ ELSE @ \cup {Now(c)}]]
    /\ UNCHANGED <<pageId, labelled, others, vocabulary>>

(* The wiki applies a sending whose connection broke before. *)
Lands(c) ==
    /\ Accepts(c)
    /\ \E n \in call[c].late :
         /\ Applies(c, n)
         /\ call' = [call EXCEPT ![c].late = @ \ {n}, ![c].landed = TRUE]
    /\ UNCHANGED <<pageId, labelled, others, vocabulary>>

-----------------------------------------------------------------------------
(* The wiki is read again *)

(* Mutant of TermsHold: one of the submitted terms is enough. *)
TermsHoldOne(a, e) == e.label = [name |-> a.label, form |-> "plain"] \/ e.text = a.text

(* collectTermChecks, termHolds: every label and description is there. *)
TermsHold(a, e) ==
    /\ a.label # None => e.label = [name |-> a.label, form |-> "plain"]
    /\ a.text # None => e.text = a.text

(* History: the parts the call was to write that the item holds. *)
Held(a, e) ==
    {p \in Submitted(a) : \/ p = "label" /\ e.label = [name |-> a.label, form |-> "plain"]
                          \/ p = "text" /\ e.text = a.text
                          \/ p = "alias" /\ e.alias = a.alias
                          \/ p = "value" /\ \E s \in e.claims : s.value = a.value
                          \/ p = "link" /\ e.link = a.link}

(* Mutant of UpdateVerdict: statements and sitelinks are thought replaced. *)
UpdateVerdictOfTerms(a, e, readable) ==
    CASE a.clear \/ a.value # None \/ a.link # None \/ ~readable -> "safe"
      [] OTHER -> IF TermsHold(a, e) THEN "ok" ELSE "safe"

(* lostEditEntityUpdateResult; hasClaims and hasSitelinks look for a list    *)
(* and for an object, and see neither in odd data.                           *)
UpdateVerdict(a, e, readable) ==
    CASE a.clear -> "safe"
      [] ~a.clear /\ ~a.odd /\ (a.value # None \/ a.link # None) -> "unknown"
      [] OTHER -> IF readable /\ (a.label # None \/ a.text # None) /\ TermsHold(a, e)
                  THEN "ok" ELSE "safe"

(* lostAddStatementResult, lostSetSitelinkResult; a read that shows no item  *)
(* leaves it open.                                                           *)
StatementVerdict(a, e, readable) ==
    IF ~readable THEN "unknown" ELSE IF \E s \in e.claims : s.value = a.value THEN "ok" ELSE "safe"
SitelinkVerdict(a, e, readable) ==
    IF ~readable THEN "safe" ELSE IF e.link = a.link THEN "ok" ELSE "safe"

RereadTarget(c) ==
    LET a == call[c].args IN
    /\ call[c].pc = "lost" /\ a.target # None /\ a.tool \in EntityTool
    /\ \E readable \in {FALSE} \cup {item[a.target].live} :
         LET verdict == CASE a.tool = "edit-entity" -> UpdateVerdict(a, item[a.target], readable)
                          [] a.tool = "add-statement" -> StatementVerdict(a, item[a.target], readable)
                          [] OTHER -> SitelinkVerdict(a, item[a.target], readable)
             held == IF readable THEN Held(a, item[a.target]) ELSE {}
         IN  call' = [call EXCEPT ![c] = Answered([@ EXCEPT !.seen = held], verdict)]
    /\ UNCHANGED <<wiki, vocabulary>>

(* No hit: an add tool says that nothing was created, edit-entity does not.  *)
NotFoundCreate(a) == IF a.tool \in AddTool THEN "safe" ELSE "unknown"

(* lostEditEntityCreateResult, unresolvedWriteResult: a search for the label *)
(* the create stores, where the call names one.                              *)
RereadCreate(c) ==
    LET a == call[c].args IN
    /\ call[c].pc = "lost" /\ a.target = None
    /\ IF a.label = None THEN Ends(c, "unknown")
       ELSE \E hits \in Hits(a.label) :
              Ends(c, IF Matching(hits) # {} THEN "likely" ELSE NotFoundCreate(a))
    /\ UNCHANGED <<wiki, vocabulary>>

(* unresolvedWriteResult of an update: the same statements are written again. *)
LostUpdateOfAddTool(c) ==
    /\ call[c].pc = "lost" /\ call[c].args.target # None /\ call[c].args.tool \in AddTool
    /\ Ends(c, "safe")
    /\ UNCHANGED <<wiki, vocabulary>>

(* The caller makes the call again, because the answer said that it may. *)
Retry(c) ==
    /\ call[c].pc = "done" /\ call[c].answer = "safe" /\ call[c].sends < MaxSends
    /\ call' = [call EXCEPT ![c].pc = "send", ![c].answer = "none", ![c].seen = {}]
    /\ UNCHANGED <<wiki, vocabulary>>

-----------------------------------------------------------------------------
(* The vocabulary *)

NoVocabulary == [state |-> "none", found |-> Default, missing |-> Role]

(* Mutant of Verified: the reference instance's IDs are taken as they are. *)
VerifiedBlindly(r) == TRUE

(* resolveByIds: the default is verified when it carries the expected label. *)
Verified(r) == item[Default[r]].live /\ item[Default[r]].role = r

(* resolveVocabulary: a promise for all callers; doResolve starts from the   *)
(* default IDs and lists as missing what it has not verified or found.       *)
Resolve(c) ==
    /\ call[c].pc = "describe"
    /\ vocabulary' = IF vocabulary.state # "none" THEN vocabulary
                     ELSE [state |-> "searching", found |-> Default, missing |-> {r \in Role : ~Verified(r)}]
    /\ To(c, "fields")
    /\ UNCHANGED wiki

(* searchExactLabel for the others, then the promise is settled.  A search   *)
(* shows an item of the label, or none: it is limited, and may lag.  A role  *)
(* for which nothing was found keeps the default ID.                         *)
Searched ==
    /\ vocabulary.state = "searching"
    /\ \E hit \in [vocabulary.missing -> Live \cup {None}] :
         /\ \A r \in vocabulary.missing : hit[r] # None => item[hit[r]].role = r
         /\ vocabulary' =
              [state |-> "ready", missing |-> {r \in vocabulary.missing : hit[r] = None},
               found |-> [r \in Role |-> IF r \in vocabulary.missing /\ hit[r] # None
                                         THEN hit[r] ELSE vocabulary.found[r]]]
    /\ UNCHANGED <<wiki, call>>

(* A request of doResolve fails: the cache forgets it, its callers fail.     *)
ResolveFails ==
    /\ vocabulary.state = "searching"
    /\ vocabulary' = NoVocabulary
    /\ call' = [c \in Call |-> IF call[c].pc = "fields" THEN Answered(call[c], "failed") ELSE call[c]]
    /\ UNCHANGED wiki

(* The contracts the wiki serves; a family it does not serve is an error     *)
(* when the caller asked for it.                                             *)
Describe(c) ==
    /\ call[c].pc = "fields" /\ vocabulary.state = "ready"
    /\ \E served \in BOOLEAN : Ends(c, IF served \/ call[c].args.kind = "all" THEN "ok" ELSE "failed")
    /\ UNCHANGED <<wiki, vocabulary>>

-----------------------------------------------------------------------------
(* External: other people *)

Others ==
    /\ others < MaxOthers /\ others' = others + 1
    /\ \/ \E i \in Live, n \in Name :
            /\ item' = [item EXCEPT ![i].label = [name |-> n, form |-> "plain"]]
            /\ UNCHANGED <<pageId, labelled>>
       \/ \E i \in Live, n \in Name :
            /\ item' = [item EXCEPT ![i].claims =
                          @ \cup {[value |-> n, by |-> None, sending |-> 0]}]
            /\ UNCHANGED <<pageId, labelled>>
       \/ \E i \in Live : \E s \in item[i].claims :
            item' = [item EXCEPT ![i].claims = @ \ {s}] /\ UNCHANGED <<pageId, labelled>>
       \/ \E i \in Live : item' = [item EXCEPT ![i].live = FALSE] /\ UNCHANGED <<pageId, labelled>>
       \/ \E i \in Live, r \in Role :
            /\ item' = [item EXCEPT ![i].role = r]
            /\ labelled' = labelled \cup {<<i, r>>} /\ UNCHANGED pageId
       \/ \E p, q \in Page : pageId' = [pageId EXCEPT ![p] = None, ![q] = pageId[p]]
                               /\ pageId[p] # None /\ UNCHANGED <<item, labelled>>
    /\ UNCHANGED <<subject, call, vocabulary>>

-----------------------------------------------------------------------------
(* The wiki at first: the items that carry a default ID, labelled for a  *)
(* role or for none.                                                         *)
AtFirst(role, label) ==
    [i \in Item |-> IF i \in {Default[r] : r \in Role}
                    THEN [Unused EXCEPT !.live = TRUE, !.role = role[i], !.label = label] ELSE Unused]

Init ==
    /\ \E role \in [Item -> Role \cup {None}], label \in [name: {CHOOSE n \in Name : TRUE}, form: Form] :
         item = AtFirst(role, label)
    /\ subject = {}
    /\ pageId = [p \in Page |-> p]
    /\ call = [c \in Call |-> NewCall]
    /\ vocabulary = NoVocabulary
    /\ labelled = {<<i, item[i].role>> : i \in {j \in Live : item[j].role # None}}
    /\ others = 0

TypeOK ==
    /\ item \in [Item -> Entity]
    /\ subject \subseteq [at: Page \cup {None}, by: Call, main: BOOLEAN, value: Name \cup {None}]
    /\ pageId \in [Page -> Page \cup {None}]
    /\ call \in [Call -> CallState]
    /\ vocabulary \in [state: {"none", "searching", "ready"}, found: [Role -> Item], missing: SUBSET Role]
    /\ labelled \subseteq Item \X Role
    /\ others \in 0 .. MaxOthers

Next ==
    \/ \E c \in Call :
         \/ \E a \in Args : Begin(c, a)
         \/ LookUpDatatype(c) \/ ResolveLanguage(c) \/ ResolvePage(c)
         \/ SendAnswered(c) \/ SendRefused(c) \/ SendLost(c) \/ ConnectionBreaks(c) \/ Lands(c)
         \/ RereadTarget(c) \/ RereadCreate(c) \/ LostUpdateOfAddTool(c) \/ Retry(c)
         \/ Resolve(c) \/ Describe(c)
    \/ Searched \/ ResolveFails \/ Others

Spec == Init /\ [][Next]_vars

-----------------------------------------------------------------------------
(* Properties *)

(* What c has left in the wiki, but for the sendings that the client repeated *)
(* by itself.                                                                *)
Mine(c, x) == x.by = c /\ x.sending \notin call[c].broken
ItemsOf(c) == {i \in Live : Mine(c, item[i])}
StatementsOf(c, i) == {s \in item[i].claims : Mine(c, s)}

Twins(c) == Cardinality(ItemsOf(c)) > 1 \/ \E i \in Live : Cardinality(StatementsOf(c, i)) > 1

(* A Wikibase tool that says after a lost answer that the call may be made   *)
(* again is right: no second item and no second statement comes of it,       *)
(* whatever others change in between (wikibaseWriteOutcome).  Two cases are  *)
(* excepted.  What the API client sends again by itself after a broken       *)
(* connection can be there besides, at once or late; and statements keyed by *)
(* property, not in a list, are none to hasClaims, so that a repetition is   *)
(* called safe that adds them again.                                         *)
RetryMakesNoTwin ==
    \A c \in Call : call[c].args.tool \in EntityTool /\ ~call[c].args.odd => ~Twins(c)

(* The parts that the second read of an entity does not compare. *)
Unread(a) == {"alias"} \cup IF a.odd THEN {"value", "link"} ELSE {}

(* A call that answers success has been applied, or the wiki held what it    *)
(* was to write when it was read again.  Not all of it: an update that gives *)
(* a label or a description is said to be saved when these are there, and    *)
(* aliases, removed terms, and statements and links in a form that is not    *)
(* counted, are never compared (collectTermChecks).                          *)
SuccessIsTrue ==
    \A c \in Call : call[c].answer = "ok" /\ call[c].args.tool # "describe" =>
        call[c].landed \/ Submitted(call[c].args) \ Unread(call[c].args) \subseteq call[c].seen

(* An ID the vocabulary reports for a role has been labelled for it on this  *)
(* wiki, unless the role is reported as missing, in which case the ID is     *)
(* still the reference instance's (unresolvedVocabulary); callers share a    *)
(* resolution, never a failed one.                                           *)
VocabularyIsTheWikis ==
    /\ \A r \in Role \ vocabulary.missing : <<vocabulary.found[r], r>> \in labelled
    /\ \A c \in Call : call[c].pc = "fields" => vocabulary.state # "none"

===============================================================================
