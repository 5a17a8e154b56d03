-------------------------- MODULE EntityWrites_proofs --------------------------
(***************************************************************************)
(* Theorems about EntityWrites, for any number of calls, items and changes *)
(* made by others: a Wikibase tool never invites a second item or a second *)
(* statement, a write that answers success was made or what was compared   *)
(* of it is there, and the vocabulary reports an ID that was not labelled  *)
(* for its role only beside the list of the roles that miss one.           *)
(***************************************************************************)
EXTENDS EntityWrites, FiniteSetTheorems, TLAPS

(* The wiki's data *)

LEMMA NoneApart == None \notin Call /\ None \notin Name /\ None \notin Role /\ None \notin Page /\ None \notin Item
BY WritesAssumption

LEMMA UnusedFacts ==
    /\ NoLabel \in Label /\ Unused \in Entity /\ ~Unused.live /\ Unused.by = None /\ Unused.claims = {}
    /\ Unused.role = None
BY WritesAssumption DEF NoLabel, Label, Form, Unused, Entity

LEMMA ArgsFacts ==
    ASSUME NEW a \in Args \cup {NoArgs}
    PROVE  /\ a \in Argument
           /\ a.tool \in {"add-statement", "setsitelink"} =>
                a.target # None /\ a.label = None /\ a.text = None /\ a.alias = None /\ ~a.odd /\ ~a.clear
           /\ a.tool = "add-statement" => a.value # None /\ a.link = None
           /\ a.tool = "setsitelink" => a.value = None /\ a.link # None
           /\ a.tool \in {"create-subject", "set-main-subject"} => a.link # None
<1>1. NoArgs \in Argument /\ NoArgs.tool = "edit-entity"
  BY DEF NoArgs, Argument, EntityTool
<1>2. CASE a = NoArgs
  BY <1>1, <1>2
<1>3. CASE a \in Args
  BY <1>3, ArgsAssumption
<1> QED
  BY <1>2, <1>3

LEMMA ArgumentType ==
    ASSUME NEW a \in Argument
    PROVE  /\ a.tool \in EntityTool \cup AddTool \cup SubjectTool \cup {"describe"}
           /\ a.target \in Item \cup {None} /\ a.label \in Name \cup {None} /\ a.text \in Name \cup {None}
           /\ a.alias \in Name \cup {None} /\ a.odd \in BOOLEAN
           /\ a.value \in Name \cup {None} /\ a.link \in Page \cup {None} /\ a.clear \in BOOLEAN
BY DEF Argument

LEMMA CallType ==
    ASSUME NEW k \in CallState
    PROVE  /\ k.args \in Argument /\ k.sends \in 0 .. MaxSends /\ k.landed \in BOOLEAN /\ k.seen \in SUBSET Part
           /\ k.broken \in SUBSET (1 .. MaxSends) /\ k.late \in SUBSET (1 .. MaxSends)
           /\ k.page \in Page \cup {None}
           /\ k.pc \in {"new", "datatype", "language", "page", "send", "lost", "describe", "fields", "done"}
BY DEF CallState

LEMMA EntityType ==
    ASSUME NEW e \in Entity
    PROVE  /\ e.live \in BOOLEAN /\ e.by \in Call \cup {None} /\ e.label \in Label /\ e.text \in Name \cup {None}
           /\ e.sending \in 0 .. MaxSends /\ e.alias \in Name \cup {None}
           /\ e.link \in Page \cup {None} /\ e.claims \in SUBSET Statement /\ e.role \in Role \cup {None}
BY DEF Entity

(* The statement a sending adds, if it adds one. *)
LEMMA AddedFacts ==
    ASSUME call \in [Call -> CallState], NEW c \in Call, NEW n \in 0 .. MaxSends
    PROVE  /\ Added(c, n) \in SUBSET Statement
           /\ \A s \in Added(c, n) : /\ s.by = c /\ s.sending = n /\ s.value = call[c].args.value
                                     /\ call[c].args.value # None
           /\ \A s, t \in Added(c, n) : s = t
<1> DEFINE a == call[c].args
           s == [value |-> a.value, by |-> c, sending |-> n]
<1>1. a.value \in Name \cup {None}
  BY CallType, ArgumentType
<1>2. Added(c, n) = IF a.value = None THEN {} ELSE {s}
  BY DEF Added
<1>3. a.value # None => s \in Statement
  BY <1>1 DEF Statement
<1>4. s.by = c /\ s.sending = n /\ s.value = a.value
  OBVIOUS
<1> HIDE DEF s
<1> QED
  BY <1>2, <1>3, <1>4

LEMMA NewFacts ==
    ASSUME call \in [Call -> CallState], NEW c \in Call, NEW n \in 0 .. MaxSends, NEW form \in Form
    PROVE  /\ New(c, n, form) \in Entity /\ New(c, n, form).by = c /\ New(c, n, form).sending = n
           /\ New(c, n, form).role = None /\ New(c, n, form).claims = Added(c, n)
<1> DEFINE a == call[c].args
           l == [name |-> a.label, form |-> IF a.label = None THEN "plain" ELSE form]
<1>1. /\ a.label \in Name \cup {None} /\ a.text \in Name \cup {None} /\ a.alias \in Name \cup {None}
      /\ a.link \in Page \cup {None}
  BY CallType, ArgumentType
<1>2. l \in Label
  BY <1>1 DEF Label, Form
<1>3. New(c, n, form) = [live |-> TRUE, by |-> c, sending |-> n, text |-> a.text, alias |-> a.alias,
                         link |-> a.link, label |-> l, claims |-> Added(c, n), role |-> None]
  BY DEF New
<1>4. Added(c, n) \in SUBSET Statement
  BY AddedFacts
<1> HIDE DEF l, a
<1> QED
  BY <1>1, <1>2, <1>3, <1>4 DEF Entity

LEMMA UpdatedFacts ==
    ASSUME call \in [Call -> CallState], NEW c \in Call, NEW n \in 0 .. MaxSends, NEW e \in Entity
    PROVE  LET u == Updated(c, n, e) IN
           /\ u \in Entity /\ u.by = e.by /\ u.sending = e.sending /\ u.role \in {e.role, None}
           /\ u.claims \subseteq e.claims \cup Added(c, n)
           /\ call[c].args.clear /\ call[c].args.tool \in EntityTool => u.claims = Added(c, n)
<1> DEFINE a == call[c].args
           z == [Unused EXCEPT !.live = TRUE, !.by = e.by, !.sending = e.sending]
           old == IF a.clear THEN z ELSE e
           l == IF a.label = None THEN old.label ELSE [name |-> a.label, form |-> "plain"]
           q == IF a.tool \in AddTool /\ a.value # None THEN Added(c, n) ELSE old.claims \cup Added(c, n)
<1>1. /\ a.label \in Name \cup {None} /\ a.text \in Name \cup {None} /\ a.alias \in Name \cup {None}
      /\ a.link \in Page \cup {None} /\ a.clear \in BOOLEAN
  BY CallType, ArgumentType
<1>2. z \in Entity /\ z.by = e.by /\ z.sending = e.sending /\ z.role = None /\ z.claims = {}
  BY UnusedFacts, EntityType DEF Entity
<1> HIDE DEF z
<1>3. /\ old \in Entity /\ old.by = e.by /\ old.sending = e.sending /\ old.role \in {e.role, None}
      /\ old.claims \subseteq e.claims /\ (a.clear => old.claims = {})
  BY <1>2
<1>4. Updated(c, n, e) = [old EXCEPT !.label = l, !.text = Or(a.text, old.text), !.alias = Or(a.alias, old.alias),
                                     !.link = Or(a.link, old.link), !.claims = q]
  BY <1>3 DEF Updated, Entity, z
<1> HIDE DEF old
<1>5. /\ l \in Label /\ Or(a.text, old.text) \in Name \cup {None} /\ Or(a.alias, old.alias) \in Name \cup {None}
      /\ Or(a.link, old.link) \in Page \cup {None}
  BY <1>1, <1>3, EntityType DEF Label, Form, Or
<1>6. q \in SUBSET Statement /\ q \subseteq e.claims \cup Added(c, n)
  BY <1>3, AddedFacts, EntityType
<1>7. a.clear /\ a.tool \in EntityTool => q = Added(c, n)
  BY <1>3 DEF EntityTool, AddTool
<1> HIDE DEF l, q, a
<1>8. Updated(c, n, e) \in Entity
  BY <1>3, <1>4, <1>5, <1>6 DEF Entity
<1>9. /\ Updated(c, n, e).by = old.by /\ Updated(c, n, e).sending = old.sending
      /\ Updated(c, n, e).role = old.role /\ Updated(c, n, e).claims = q
  BY <1>3, <1>4 DEF Entity
<1> QED
  BY <1>3, <1>6, <1>7, <1>8, <1>9 DEF a
-----------------------------------------------------------------------------
(* What a write that the wiki applies leaves of the items, and, for a        *)
(* Wikibase tool, which of them it touches.                                  *)
ItemKeeps(c, n, i) ==
    /\ \/ item'[i].by = item[i].by /\ item'[i].sending = item[i].sending
       \/ item[i] = Unused /\ item'[i].by = c /\ item'[i].sending = n
    /\ item'[i].claims \subseteq item[i].claims \cup Added(c, n)
    /\ item'[i].live /\ item'[i].role # None => item[i].live /\ item'[i].role = item[i].role

TouchesTarget(c, n) ==
    LET a == call[c].args IN
    /\ \A i \in Item : /\ item'[i].by = item[i].by /\ item'[i].sending = item[i].sending
                      /\ (i # a.target => item'[i] = item[i])
    /\ a.clear => \A i \in Item : i = a.target => item'[i].claims = Added(c, n)

TouchesNew(c) ==
    \E i \in Item : item[i] = Unused /\ \A j \in Item \ {i} : item'[j] = item[j]

Wrote(c, n) ==
    /\ item' \in [Item -> Entity] /\ \A i \in Item : ItemKeeps(c, n, i)
    /\ call[c].args.tool \in EntityTool =>
         IF call[c].args.target # None THEN TouchesTarget(c, n) ELSE TouchesNew(c)

LEMMA KeptItem ==
    ASSUME NEW c \in Call, NEW n, NEW i \in Item, item'[i] = item[i]
    PROVE  ItemKeeps(c, n, i)
BY DEF ItemKeeps

LEMMA ChangesWrites ==
    ASSUME item \in [Item -> Entity], call \in [Call -> CallState], NEW c \in Call, NEW n \in 0 .. MaxSends,
           NEW i \in Item, Changes(c, n, i), call[c].args.tool \in EntityTool => i = call[c].args.target
    PROVE  Wrote(c, n)
<1> DEFINE u == Updated(c, n, item[i])
<1>1. i \in Live /\ item' = [item EXCEPT ![i] = u]
  BY DEF Changes
<1>2. item[i] \in Entity /\ item[i].live
  BY <1>1 DEF Live
<1>3. /\ u \in Entity /\ u.by = item[i].by /\ u.sending = item[i].sending /\ u.role \in {item[i].role, None}
      /\ u.claims \subseteq item[i].claims \cup Added(c, n)
      /\ call[c].args.clear /\ call[c].args.tool \in EntityTool => u.claims = Added(c, n)
  BY <1>2, UpdatedFacts
<1> HIDE DEF u
<1>4. item'[i] = u /\ \A j \in Item : j # i => item'[j] = item[j]
  BY <1>1
<1>5. item' \in [Item -> Entity]
  BY <1>1, <1>3
<1>6. ItemKeeps(c, n, i)
  BY <1>2, <1>3, <1>4 DEF ItemKeeps
<1>7. \A j \in Item : ItemKeeps(c, n, j)
  BY <1>4, <1>6, KeptItem
<1>8. ASSUME call[c].args.tool \in EntityTool
      PROVE  call[c].args.target # None /\ TouchesTarget(c, n)
  <2>1. i = call[c].args.target
    BY <1>8
  <2> QED
    BY <1>3, <1>4, <1>8, <2>1, NoneApart DEF TouchesTarget
<1> QED
  BY <1>5, <1>7, <1>8 DEF Wrote

LEMMA CreatesWrites ==
    ASSUME item \in [Item -> Entity], call \in [Call -> CallState], NEW c \in Call, NEW n \in 0 .. MaxSends,
           NEW form \in Form, Creates(c, n, form),
           call[c].args.tool \in EntityTool => call[c].args.target = None
    PROVE  Wrote(c, n)
<1> DEFINE u == New(c, n, form)
<1>1. PICK i \in Fresh : item' = [item EXCEPT ![i] = u]
  BY DEF Creates
<1>2. i \in Item /\ item[i] = Unused
  BY <1>1 DEF Fresh
<1>3. u \in Entity /\ u.by = c /\ u.sending = n /\ u.role = None /\ u.claims = Added(c, n)
  BY NewFacts
<1> HIDE DEF u
<1>4. item'[i] = u /\ \A j \in Item : j # i => item'[j] = item[j]
  BY <1>1, <1>2
<1>5. item' \in [Item -> Entity]
  BY <1>1, <1>3
<1>6. ItemKeeps(c, n, i)
  BY <1>2, <1>3, <1>4 DEF ItemKeeps
<1>7. \A j \in Item : ItemKeeps(c, n, j)
  BY <1>4, <1>6, KeptItem
<1>8. TouchesNew(c)
  BY <1>2, <1>4 DEF TouchesNew
<1> QED
  BY <1>5, <1>7, <1>8 DEF Wrote

LEMMA ReplacesWrites ==
    ASSUME item \in [Item -> Entity], call \in [Call -> CallState], NEW c \in Call, NEW n \in 0 .. MaxSends,
           call[c].args.tool \notin EntityTool, NEW i \in Live, NEW j \in Fresh,
           item' = [item EXCEPT ![i].live = FALSE, ![j] = New(c, n, "plain")]
    PROVE  Wrote(c, n)
<1> DEFINE u == New(c, n, "plain")  d == [item[i] EXCEPT !.live = FALSE]
<1>1. i \in Item /\ j \in Item /\ item[j] = Unused /\ item[i].live /\ item[i] \in Entity
  BY DEF Live, Fresh
<1>2. i # j
  BY <1>1, UnusedFacts
<1>3. u \in Entity /\ u.by = c /\ u.sending = n /\ u.role = None /\ u.claims = Added(c, n)
  BY NewFacts DEF Form
<1>4. d \in Entity /\ ~d.live /\ d.by = item[i].by /\ d.sending = item[i].sending /\ d.claims = item[i].claims
  BY <1>1 DEF Entity
<1>5. item' = [item EXCEPT ![i] = d, ![j] = u]
  BY <1>1, <1>2
<1> HIDE DEF u, d
<1>6. item'[j] = u /\ item'[i] = d /\ \A q \in Item : q # i /\ q # j => item'[q] = item[q]
  BY <1>1, <1>2, <1>5
<1>7. item' \in [Item -> Entity]
  BY <1>3, <1>4, <1>5
<1>8. ItemKeeps(c, n, j)
  BY <1>1, <1>3, <1>6 DEF ItemKeeps
<1>9. ItemKeeps(c, n, i)
  BY <1>1, <1>4, <1>6 DEF ItemKeeps
<1>10. \A q \in Item : ItemKeeps(c, n, q)
  BY <1>6, <1>8, <1>9, KeptItem
<1> QED
  BY <1>7, <1>10 DEF Wrote

LEMMA AppliesWrites ==
    ASSUME item \in [Item -> Entity], call \in [Call -> CallState], NEW c \in Call, NEW n \in 0 .. MaxSends, Applies(c, n)
    PROVE  Wrote(c, n)
<1> DEFINE a == call[c].args
<1>1. a.target \in Item \cup {None}
  BY CallType, ArgumentType
<1>2. "plain" \in Form /\ "suffixed" \in Form
  BY DEF Form
<1>3. CASE a.tool \in SubjectTool
  <2>1. UNCHANGED item /\ a.tool \notin EntityTool
    BY <1>3 DEF Applies, SubjectTool, EntityTool
  <2> QED
    BY <2>1, KeptItem DEF Wrote
<1>4. CASE a.tool \notin SubjectTool /\ a.target # None
  <2>1. a.target \in Item
    BY <1>1, <1>4
  <2>2. Changes(c, n, a.target)
    BY <1>4 DEF Applies
  <2> QED
    BY <2>1, <2>2, ChangesWrites
<1>5. CASE a.tool \notin SubjectTool /\ a.target = None /\ a.tool \notin AddTool
  <2>1. Creates(c, n, "plain")
    BY <1>5 DEF Applies
  <2> QED
    BY <1>2, <1>5, <2>1, CreatesWrites
<1>6. CASE a.tool \notin SubjectTool /\ a.target = None /\ a.tool \in AddTool
  <2>1. Resolved(c, n) /\ a.tool \notin EntityTool
    BY <1>6 DEF Applies, AddTool, EntityTool
  <2> DEFINE same == {i \in Named(a.label) : item[i].label.form # "longer"}
  <2>2. \A i \in same : i \in Live /\ i \in Item
    BY DEF Named, Live
  <2>3. \/ \E i \in same : Changes(c, n, i)
        \/ \E i \in same, j \in Fresh : item' = [item EXCEPT ![i].live = FALSE, ![j] = New(c, n, "plain")]
        \/ \E form \in {"plain", "suffixed"} : Creates(c, n, form)
    BY <2>1 DEF Resolved
  <2>4. CASE \E i \in same : Changes(c, n, i)
    BY <2>1, <2>2, <2>4, ChangesWrites
  <2>5. CASE \E i \in same, j \in Fresh : item' = [item EXCEPT ![i].live = FALSE, ![j] = New(c, n, "plain")]
    BY <2>1, <2>2, <2>5, ReplacesWrites
  <2>6. CASE \E form \in {"plain", "suffixed"} : Creates(c, n, form)
    BY <1>2, <2>1, <2>6, CreatesWrites
  <2> QED
    BY <2>3, <2>4, <2>5, <2>6
<1> QED
  BY <1>3, <1>4, <1>5, <1>6

(* The subjects of NeoWiki keep their type. *)
SubjectType == [at: Page \cup {None}, by: Call, main: BOOLEAN, value: Name \cup {None}]

LEMMA AppliesSubjects ==
    ASSUME subject \subseteq SubjectType, call \in [Call -> CallState], NEW c \in Call, NEW n, Applies(c, n)
    PROVE  subject' \subseteq SubjectType
<1> DEFINE a == call[c].args
<1>1. call[c].page \in Page \cup {None} /\ a.value \in Name \cup {None}
  BY CallType, ArgumentType
<1>2. CASE UNCHANGED subject
  BY <1>2
<1>3. CASE CreateSubject(c)
  <2> DEFINE s == [at |-> call[c].page, by |-> c, main |-> FALSE, value |-> None]
  <2>1. s \in SubjectType
    BY <1>1 DEF SubjectType
  <2>2. subject' = subject \cup {s}
    BY <1>3 DEF CreateSubject
  <2> HIDE DEF s
  <2> QED
    BY <2>1, <2>2
<1>4. CASE UpdateSubject(c)
  <2>1. PICK s \in subject : subject' = (subject \ {s}) \cup {[s EXCEPT !.value = a.value]}
    BY <1>4 DEF UpdateSubject
  <2>2. [s EXCEPT !.value = a.value] \in SubjectType
    BY <1>1 DEF SubjectType
  <2> QED
    BY <2>1, <2>2
<1>5. CASE DeleteSubject(c)
  BY <1>5 DEF DeleteSubject
<1>6. CASE SetMainSubject(c)
  <2>1. PICK s \in subject :
          subject' = {IF t.at = s.at THEN [t EXCEPT !.main = (t = s)] ELSE t : t \in subject}
    BY <1>6 DEF SetMainSubject
  <2>2. \A t \in subject : [t EXCEPT !.main = (t = s)] \in SubjectType
    <3> TAKE t \in subject
    <3>1. (t = s) \in BOOLEAN /\ t \in SubjectType
      OBVIOUS
    <3> QED
      BY <3>1 DEF SubjectType
  <2> QED
    BY <2>1, <2>2
<1> QED
  BY <1>2, <1>3, <1>4, <1>5, <1>6 DEF Applies
-----------------------------------------------------------------------------
(* The inductive invariant *)

(* An item carries no role it was not labelled for. *)
LabelledOK == \A i \in Item : item[i].live /\ item[i].role # None => <<i, item[i].role>> \in labelled

(* What a call's record says of itself. *)
CallGood(k) ==
    /\ k.args \in Args \cup {NoArgs} /\ k.late \subseteq k.broken
    /\ k.pc = "new" => k.args = NoArgs
    /\ k.pc # "done" => k.answer = "none"
    /\ k.pc = "page" => k.args.tool \in {"create-subject", "set-main-subject"}
    /\ k.pc \in {"describe", "fields"} => k.args.tool = "describe"
    /\ k.answer = "ok" /\ k.args.tool # "describe" => k.landed \/ Submitted(k.args) \ Unread(k.args) \subseteq k.seen
    /\ k.args.tool \in EntityTool /\ k.args.target = None => k.answer # "safe"

(* The call may still be sent, for the first time or again. *)
Ahead(k) == k.pc \in {"new", "datatype", "language", "page", "send"} \/ k.answer = "safe"

NoItem(c) == \A i \in Item : ~Mine(c, item[i])
NoStatement(c) == \A i \in Item : \A s \in item[i].claims : ~Mine(c, s)

(* What a Wikibase call has left, but for the sendings that the client made  *)
(* again.  A call that may still be sent has left no item, and a statement   *)
(* only if sending it again clears the item first.                           *)
ItemsOK(c) ==
    /\ call[c].args.target # None => NoItem(c)
    /\ \A i, j \in Item : Mine(c, item[i]) /\ Mine(c, item[j]) => i = j
    /\ Ahead(call[c]) /\ call[c].args.target = None => NoItem(c)

StatementsOK(c) ==
    LET a == call[c].args IN
    /\ \A i \in Item : \A s \in item[i].claims :
         Mine(c, s) => a.value # None /\ s.value = a.value /\ (a.target # None => i = a.target)
    /\ \A i \in Item : \A s, t \in item[i].claims : Mine(c, s) /\ Mine(c, t) => s = t
    /\ Ahead(call[c]) /\ (a.target = None \/ ~a.clear) => NoStatement(c)

Counted(a) == a.tool \in EntityTool /\ ~a.odd

TwinsOK(c) == Counted(call[c].args) => ItemsOK(c) /\ StatementsOK(c)

CallsOK ==
    /\ item \in [Item -> Entity]
    /\ call \in [Call -> CallState]
    /\ \A c \in Call : CallGood(call[c]) /\ TwinsOK(c)

IInv == TypeOK /\ CallsOK /\ LabelledOK /\ VocabularyIsTheWikis

-----------------------------------------------------------------------------
(* Steps that leave less of what a call left *)

Shrinks(c) ==
    \A i \in Item : /\ Mine(c, item[i])' => Mine(c, item[i])
                    /\ \A s \in item'[i].claims : Mine(c, s)' => s \in item[i].claims /\ Mine(c, s)

LEMMA TwinsKept ==
    ASSUME NEW c \in Call, TwinsOK(c), Shrinks(c), call'[c].args = call[c].args,
           Counted(call[c].args) /\ Ahead(call'[c]) => Ahead(call[c])
    PROVE  TwinsOK(c)'
<1> DEFINE a == call[c].args
           k == call'[c]
           mineI(i) == Mine(c, item[i])'
           mineS(s) == Mine(c, s)'
<1> SUFFICES ASSUME Counted(a)
             PROVE  ItemsOK(c)' /\ StatementsOK(c)'
  BY DEF TwinsOK
<1>1. ItemsOK(c) /\ StatementsOK(c) /\ (Ahead(k) => Ahead(call[c])) /\ k.args = a
  BY DEF TwinsOK
<1>2. \A i \in Item : /\ mineI(i) => Mine(c, item[i])
                      /\ \A s \in item'[i].claims : mineS(s) => s \in item[i].claims /\ Mine(c, s)
  BY DEF Shrinks
<1>3. ItemsOK(c)' = (/\ k.args.target # None => \A i \in Item : ~mineI(i)
                     /\ \A i, j \in Item : mineI(i) /\ mineI(j) => i = j
                     /\ Ahead(k) /\ k.args.target = None => \A i \in Item : ~mineI(i))
  BY DEF ItemsOK, NoItem
<1>4. StatementsOK(c)' =
        (/\ \A i \in Item : \A s \in item'[i].claims :
              mineS(s) => k.args.value # None /\ s.value = k.args.value /\ (k.args.target # None => i = k.args.target)
         /\ \A i \in Item : \A s, t \in item'[i].claims : mineS(s) /\ mineS(t) => s = t
         /\ Ahead(k) /\ (k.args.target = None \/ ~k.args.clear) =>
              \A i \in Item : \A s \in item'[i].claims : ~mineS(s))
  BY DEF StatementsOK, NoStatement
<1> HIDE DEF k, mineI, mineS
<1>5. ItemsOK(c)'
  BY <1>1, <1>2, <1>3 DEF ItemsOK, NoItem
<1>6. StatementsOK(c)'
  <2>1. \A i \in Item : \A s \in item'[i].claims :
          mineS(s) => a.value # None /\ s.value = a.value /\ (a.target # None => i = a.target)
    BY <1>1, <1>2 DEF StatementsOK
  <2>2. \A i \in Item : \A s, t \in item'[i].claims : mineS(s) /\ mineS(t) => s = t
    BY <1>1, <1>2 DEF StatementsOK
  <2>3. Ahead(k) /\ (a.target = None \/ ~a.clear) => \A i \in Item : \A s \in item'[i].claims : ~mineS(s)
    BY <1>1, <1>2 DEF StatementsOK, NoStatement
  <2> QED
    BY <1>1, <1>4, <2>1, <2>2, <2>3
<1> QED
  BY <1>5, <1>6

(* A call that has left nothing. *)
LEMMA TwinsNone ==
    ASSUME NEW c \in Call, NoItem(c)', NoStatement(c)'
    PROVE  TwinsOK(c)'
<1>1. ItemsOK(c)'
  BY DEF ItemsOK, NoItem
<1>2. StatementsOK(c)'
  BY DEF StatementsOK, NoStatement
<1> QED
  BY <1>1, <1>2 DEF TwinsOK

LEMMA SameShrinks ==
    ASSUME UNCHANGED item, NEW c \in Call, call[c].broken \subseteq call'[c].broken
    PROVE  Shrinks(c)
BY DEF Shrinks, Mine

(* A step of one call that writes nothing. *)
LEMMA MoveKeeps ==
    ASSUME CallsOK, NEW c \in Call, NEW k \in CallState, call' = [call EXCEPT ![c] = k],
           CallGood(k), UNCHANGED item, k.args = call[c].args, call[c].broken \subseteq k.broken,
           Counted(call[c].args) /\ Ahead(k) => Ahead(call[c])
    PROVE  CallsOK'
<1>1. call \in [Call -> CallState] /\ item \in [Item -> Entity]
  BY DEF CallsOK
<1>2. call'[c] = k /\ \A d \in Call : d # c => call'[d] = call[d]
  BY <1>1
<1>3. call' \in [Call -> CallState] /\ item' \in [Item -> Entity]
  BY <1>1
<1>4. \A d \in Call : CallGood(call'[d])
  BY <1>2 DEF CallsOK
<1>5. ASSUME NEW d \in Call
      PROVE  TwinsOK(d)'
  <2>1. call[d].broken \subseteq call'[d].broken
    BY <1>2
  <2>2. TwinsOK(d) /\ Shrinks(d)
    BY <2>1, SameShrinks DEF CallsOK
  <2>3. call'[d].args = call[d].args /\ (Counted(call[d].args) /\ Ahead(call'[d]) => Ahead(call[d]))
    BY <1>2
  <2> QED
    BY <2>2, <2>3, TwinsKept
<1> QED
  BY <1>3, <1>4, <1>5 DEF CallsOK
-----------------------------------------------------------------------------
(* The records a step leaves *)

LEMMA AnsweredFacts ==
    ASSUME NEW k \in CallState,
           NEW x \in {"none", "ok", "notFound", "failed", "invalid", "duplicate", "collision", "warned",
                      "likely", "unknown", "safe"}
    PROVE  /\ Answered(k, x) \in CallState /\ Answered(k, x).pc = "done" /\ Answered(k, x).answer = x
           /\ Answered(k, x).args = k.args /\ Answered(k, x).landed = k.landed /\ Answered(k, x).seen = k.seen
           /\ Answered(k, x).broken = k.broken /\ Answered(k, x).late = k.late
BY DEF Answered, CallState

LEMMA AnsweredGood ==
    ASSUME NEW k \in CallState, CallGood(k),
           NEW x \in {"notFound", "failed", "invalid", "duplicate", "collision", "warned", "likely", "unknown"}
    PROVE  CallGood(Answered(k, x)) /\ ~Ahead(Answered(k, x))
<1> DEFINE r == Answered(k, x)
<1>1. /\ r.pc = "done" /\ r.answer = x /\ r.args = k.args
      /\ r.broken = k.broken /\ r.late = k.late
  BY AnsweredFacts
<1> HIDE DEF r
<1>2. CallGood(r) /\ ~Ahead(r)
  BY <1>1 DEF CallGood, Ahead
<1> QED
  BY <1>2 DEF r

LEMMA SentFacts ==
    ASSUME call \in [Call -> CallState], NEW c \in Call, Sending(c), CallGood(call[c])
    PROVE  /\ Sent(c) \in CallState /\ Sent(c).pc = "send" /\ Sent(c).args = call[c].args
           /\ Sent(c).answer = "none" /\ Sent(c).seen = call[c].seen /\ Sent(c).landed = call[c].landed
           /\ Sent(c).broken = call[c].broken /\ Sent(c).late = call[c].late
           /\ CallGood(Sent(c)) /\ Now(c) \in 1 .. MaxSends /\ Now(c) \in 0 .. MaxSends
<1> DEFINE n == Now(c)  r == [call[c] EXCEPT !.sends = n]
<1>1. call[c].sends \in 0 .. MaxSends /\ call[c].sends < MaxSends
  BY CallType DEF Sending
<1>2. n \in 0 .. MaxSends /\ n \in 1 .. MaxSends
  BY <1>1, WritesAssumption DEF Now
<1>3. call[c] \in CallState /\ call[c].pc = "send" /\ call[c].answer = "none"
  BY DEF Sending, CallGood
<1>4. Sent(c) = r
  BY DEF Sent
<1> HIDE DEF n
<1>5. /\ r \in CallState /\ r.pc = "send" /\ r.args = call[c].args
      /\ r.answer = "none" /\ r.seen = call[c].seen /\ r.landed = call[c].landed
      /\ r.broken = call[c].broken /\ r.late = call[c].late
  BY <1>2, <1>3 DEF CallState
<1> HIDE DEF r
<1>6. CallGood(r)
  BY <1>3, <1>5 DEF CallGood
<1> QED
  BY <1>2, <1>4, <1>5, <1>6 DEF n

(* The answer of a call that is ended with no write. *)
LEMMA EndsKeeps ==
    ASSUME CallsOK, NEW c \in Call, UNCHANGED item,
           NEW x \in {"notFound", "failed", "invalid", "likely", "unknown"}, Ends(c, x)
    PROVE  CallsOK'
<1>1. call[c] \in CallState /\ CallGood(call[c])
  BY DEF CallsOK
<1> DEFINE k == Answered(call[c], x)
<1>2. k \in CallState /\ k.args = call[c].args /\ k.broken = call[c].broken /\ k.late = call[c].late
  BY <1>1, AnsweredFacts
<1>3. CallGood(k) /\ ~Ahead(k)
  BY <1>1, AnsweredGood
<1>4. call' = [call EXCEPT ![c] = k]
  BY DEF Ends
<1> HIDE DEF k
<1> QED
  BY <1>2, <1>3, <1>4, MoveKeeps

(* The next request of a call that has sent nothing yet. *)
LEMMA ToKeeps ==
    ASSUME CallsOK, NEW c \in Call, UNCHANGED item, To(c, "send"),
           call[c].pc \in {"datatype", "language", "page"}
    PROVE  CallsOK'
<1>1. call[c] \in CallState /\ CallGood(call[c])
  BY DEF CallsOK
<1> DEFINE k == [call[c] EXCEPT !.pc = "send"]
<1>2. /\ k \in CallState /\ k.args = call[c].args /\ k.pc = "send" /\ k.answer = call[c].answer
      /\ k.broken = call[c].broken /\ k.late = call[c].late
  BY <1>1 DEF CallState
<1>3. call' = [call EXCEPT ![c] = k]
  BY DEF To
<1> HIDE DEF k
<1>4. CallGood(k) /\ Ahead(call[c])
  BY <1>1, <1>2 DEF CallGood, Ahead
<1> QED
  BY <1>2, <1>3, <1>4, MoveKeeps

-----------------------------------------------------------------------------
(* The steps that write nothing *)

LEMMA BeginCalls ==
    ASSUME CallsOK, NEW c \in Call, NEW a \in Args, Begin(c, a)
    PROVE  CallsOK'
<1>1. call \in [Call -> CallState] /\ call[c].pc = "new" /\ CallGood(call[c]) /\ TwinsOK(c) /\ UNCHANGED item
  BY DEF CallsOK, Begin, wiki
<1> DEFINE p == CASE a.tool = "add-statement" -> "datatype"
                  [] a.tool \in AddTool /\ a.language # None -> "language"
                  [] a.tool \in {"create-subject", "set-main-subject"} -> "page"
                  [] a.tool = "describe" -> "describe"
                  [] OTHER -> "send"
           k == [call[c] EXCEPT !.args = a, !.pc = p]
<1>2. /\ p \in {"datatype", "language", "page", "describe", "send"} /\ (p = "describe" => a.tool = "describe")
      /\ p = "page" => a.tool \in {"create-subject", "set-main-subject"}
  BY DEF AddTool
<1>15. call' = [call EXCEPT ![c].args = a, ![c].pc = p]
  BY Zenon DEF Begin
<1> HIDE DEF p
<1>3. call' = [call EXCEPT ![c] = k]
  BY <1>1, <1>15
<1>4. a \in Argument
  BY ArgsFacts
<1>5. /\ k \in CallState /\ k.args = a /\ k.pc = p /\ k.answer = call[c].answer
      /\ k.broken = call[c].broken /\ k.late = call[c].late
  BY <1>1, <1>2, <1>4 DEF CallState
<1> HIDE DEF k
<1>6. call[c].answer = "none" /\ call[c].args = NoArgs
  BY <1>1 DEF CallGood
<1>7. CallGood(k)
  BY <1>1, <1>2, <1>5, <1>6 DEF CallGood
<1>8. Counted(NoArgs) /\ NoArgs.target = None
  BY DEF NoArgs, EntityTool, Counted
<1>9. NoItem(c) /\ NoStatement(c)
  BY <1>1, <1>6, <1>8 DEF TwinsOK, ItemsOK, StatementsOK, Ahead
<1>11. call'[c] = k /\ \A d \in Call : d # c => call'[d] = call[d]
  BY <1>1, <1>3
<1>10. TwinsOK(c)'
  <2>1. NoItem(c)' /\ NoStatement(c)'
    BY <1>1, <1>5, <1>9, <1>11 DEF NoItem, NoStatement, Mine
  <2> QED
    BY <2>1, TwinsNone
<1>12. ASSUME NEW d \in Call, d # c
       PROVE  TwinsOK(d)'
  <2>1. TwinsOK(d) /\ Shrinks(d) /\ call'[d] = call[d]
    BY <1>1, <1>11, <1>12, SameShrinks DEF CallsOK
  <2> QED
    BY <2>1, TwinsKept
<1>13. call' \in [Call -> CallState] /\ item' \in [Item -> Entity]
  BY <1>1, <1>3, <1>5 DEF CallsOK
<1>14. \A d \in Call : CallGood(call'[d])
  BY <1>7, <1>11 DEF CallsOK
<1> QED
  BY <1>10, <1>12, <1>13, <1>14 DEF CallsOK

LEMMA LookUpDatatypeCalls ==
    ASSUME CallsOK, NEW c \in Call, LookUpDatatype(c)
    PROVE  CallsOK'
<1>1. call[c].pc = "datatype" /\ UNCHANGED item
  BY DEF LookUpDatatype, wiki
<1>2. (\E x \in {"notFound", "failed", "invalid"} : Ends(c, x)) \/ To(c, "send")
  BY DEF LookUpDatatype
<1> QED
  BY <1>1, <1>2, EndsKeeps, ToKeeps

LEMMA ResolveLanguageCalls ==
    ASSUME CallsOK, NEW c \in Call, ResolveLanguage(c)
    PROVE  CallsOK'
<1>1. call[c].pc = "language" /\ UNCHANGED item
  BY DEF ResolveLanguage, wiki
<1>2. Ends(c, "invalid") \/ To(c, "send")
  BY DEF ResolveLanguage
<1> QED
  BY <1>1, <1>2, EndsKeeps, ToKeeps

LEMMA ResolvePageCalls ==
    ASSUME CallsOK, pageId \in [Page -> Page \cup {None}], NEW c \in Call, ResolvePage(c)
    PROVE  CallsOK'
<1>1. call[c].pc = "page" /\ UNCHANGED item /\ call[c] \in CallState /\ CallGood(call[c])
  BY DEF ResolvePage, wiki, CallsOK
<1>2. CASE Ends(c, "notFound")
  BY <1>1, <1>2, EndsKeeps
<1> DEFINE q == pageId[call[c].args.link]  k == [call[c] EXCEPT !.pc = "send", !.page = q]
<1>3. CASE call' = [call EXCEPT ![c].pc = "send", ![c].page = q]
  <2>1. call[c].args.link \in Page
    BY <1>1, CallType, ArgumentType, ArgsFacts DEF CallGood
  <2>2. q \in Page \cup {None}
    BY <2>1
  <2>3. call' = [call EXCEPT ![c] = k]
    BY <1>3
  <2> HIDE DEF q
  <2>4. /\ k \in CallState /\ k.args = call[c].args /\ k.pc = "send" /\ k.answer = call[c].answer
        /\ k.broken = call[c].broken /\ k.late = call[c].late
    BY <1>1, <2>2 DEF CallState
  <2> HIDE DEF k
  <2>5. CallGood(k) /\ Ahead(call[c])
    BY <1>1, <2>4 DEF CallGood, Ahead
  <2> QED
    BY <1>1, <2>3, <2>4, <2>5, MoveKeeps
<1> QED
  BY <1>2, <1>3 DEF ResolvePage

LEMMA SendRefusedCalls ==
    ASSUME CallsOK, NEW c \in Call, SendRefused(c)
    PROVE  CallsOK'
<1>1. Sending(c) /\ UNCHANGED item /\ call \in [Call -> CallState] /\ CallGood(call[c])
  BY DEF SendRefused, wiki, CallsOK
<1>2. /\ Sent(c) \in CallState /\ Sent(c).args = call[c].args /\ CallGood(Sent(c))
      /\ Sent(c).broken = call[c].broken /\ Sent(c).late = call[c].late
  BY <1>1, SentFacts
<1>3. PICK x \in {"duplicate", "collision", "failed"} : call' = [call EXCEPT ![c] = Answered(Sent(c), x)]
  BY DEF SendRefused
<1> DEFINE k == Answered(Sent(c), x)
<1>4. k \in CallState /\ k.args = call[c].args /\ k.broken = call[c].broken /\ k.late = call[c].late
  BY <1>2, AnsweredFacts
<1>5. CallGood(k) /\ ~Ahead(k)
  BY <1>2, AnsweredGood
<1>6. call' = [call EXCEPT ![c] = k]
  BY <1>3
<1> HIDE DEF k
<1> QED
  BY <1>1, <1>4, <1>5, <1>6, MoveKeeps

LEMMA RereadCreateCalls ==
    ASSUME CallsOK, NEW c \in Call, RereadCreate(c)
    PROVE  CallsOK'
<1>1. call[c].pc = "lost" /\ UNCHANGED item /\ call[c] \in CallState /\ CallGood(call[c])
  BY DEF RereadCreate, wiki, CallsOK
<1>2. \/ \E x \in {"likely", "unknown"} : Ends(c, x)
      \/ call[c].args.tool \in AddTool /\ Ends(c, "safe")
  BY DEF RereadCreate, NotFoundCreate
<1>3. CASE \E x \in {"likely", "unknown"} : Ends(c, x)
  BY <1>1, <1>3, EndsKeeps
<1>4. CASE call[c].args.tool \in AddTool /\ Ends(c, "safe")
  <2> DEFINE k == Answered(call[c], "safe")
  <2>1. /\ k \in CallState /\ k.args = call[c].args /\ k.pc = "done" /\ k.answer = "safe"
        /\ k.broken = call[c].broken /\ k.late = call[c].late
        /\ ~Counted(call[c].args)
    BY <1>1, <1>4, AnsweredFacts DEF AddTool, EntityTool, Counted
  <2>2. call' = [call EXCEPT ![c] = k]
    BY <1>4 DEF Ends
  <2> HIDE DEF k
  <2>3. CallGood(k)
    BY <1>1, <1>4, <2>1 DEF CallGood, AddTool, EntityTool
  <2> QED
    BY <1>1, <2>1, <2>2, <2>3, MoveKeeps
<1> QED
  BY <1>2, <1>3, <1>4

LEMMA LostUpdateOfAddToolCalls ==
    ASSUME CallsOK, NEW c \in Call, LostUpdateOfAddTool(c)
    PROVE  CallsOK'
<1>1. call[c].pc = "lost" /\ UNCHANGED item /\ call[c] \in CallState /\ CallGood(call[c])
  BY DEF LostUpdateOfAddTool, wiki, CallsOK
<1> DEFINE k == Answered(call[c], "safe")
<1>2. /\ k \in CallState /\ k.args = call[c].args /\ k.pc = "done" /\ k.answer = "safe"
        /\ k.broken = call[c].broken /\ k.late = call[c].late
      /\ ~Counted(call[c].args)
  BY <1>1, AnsweredFacts DEF AddTool, EntityTool, Counted, LostUpdateOfAddTool
<1>3. call' = [call EXCEPT ![c] = k]
  BY DEF Ends, LostUpdateOfAddTool
<1> HIDE DEF k
<1>4. CallGood(k)
  BY <1>1, <1>2 DEF CallGood, LostUpdateOfAddTool
<1> QED
  BY <1>1, <1>2, <1>3, <1>4, MoveKeeps

LEMMA RetryCalls ==
    ASSUME CallsOK, NEW c \in Call, Retry(c)
    PROVE  CallsOK'
<1>1. /\ call[c].answer = "safe" /\ UNCHANGED item /\ call[c] \in CallState /\ CallGood(call[c])
  BY DEF Retry, wiki, CallsOK
<1> DEFINE k == [call[c] EXCEPT !.pc = "send", !.answer = "none", !.seen = {}]
<1>2. /\ k \in CallState /\ k.args = call[c].args /\ k.pc = "send" /\ k.answer = "none"
      /\ k.broken = call[c].broken /\ k.late = call[c].late
  BY <1>1 DEF CallState
<1>3. call' = [call EXCEPT ![c] = k]
  BY <1>1 DEF Retry
<1> HIDE DEF k
<1>4. CallGood(k) /\ Ahead(call[c])
  BY <1>1, <1>2 DEF CallGood, Ahead
<1> QED
  BY <1>1, <1>2, <1>3, <1>4, MoveKeeps

LEMMA ResolveCalls ==
    ASSUME CallsOK, NEW c \in Call, Resolve(c)
    PROVE  CallsOK'
<1>1. call[c].pc = "describe" /\ UNCHANGED item /\ call[c] \in CallState /\ CallGood(call[c])
  BY DEF Resolve, wiki, CallsOK
<1> DEFINE k == [call[c] EXCEPT !.pc = "fields"]
<1>2. /\ k \in CallState /\ k.args = call[c].args /\ k.pc = "fields" /\ k.answer = call[c].answer
      /\ k.broken = call[c].broken /\ k.late = call[c].late
  BY <1>1 DEF CallState
<1>3. call' = [call EXCEPT ![c] = k]
  BY DEF Resolve, To
<1> HIDE DEF k
<1>4. CallGood(k) /\ ~Counted(call[c].args)
  BY <1>1, <1>2 DEF CallGood, EntityTool, Counted
<1> QED
  BY <1>1, <1>2, <1>3, <1>4, MoveKeeps

LEMMA DescribeCalls ==
    ASSUME CallsOK, NEW c \in Call, Describe(c)
    PROVE  CallsOK'
<1>1. call[c].pc = "fields" /\ UNCHANGED item /\ call[c] \in CallState /\ CallGood(call[c])
  BY DEF Describe, wiki, CallsOK
<1>2. Ends(c, "failed") \/ Ends(c, "ok")
  BY DEF Describe
<1>3. CASE Ends(c, "failed")
  BY <1>1, <1>3, EndsKeeps
<1>4. CASE Ends(c, "ok")
  <2> DEFINE k == Answered(call[c], "ok")
  <2>1. /\ k \in CallState /\ k.args = call[c].args /\ k.pc = "done" /\ k.answer = "ok"
        /\ k.broken = call[c].broken /\ k.late = call[c].late
    BY <1>1, AnsweredFacts
  <2>2. call' = [call EXCEPT ![c] = k]
    BY <1>4 DEF Ends
  <2> HIDE DEF k
  <2>3. CallGood(k) /\ ~Ahead(k)
    BY <1>1, <2>1 DEF CallGood, Ahead
  <2> QED
    BY <1>1, <2>1, <2>2, <2>3, MoveKeeps
<1> QED
  BY <1>2, <1>3, <1>4

LEMMA ResolveFailsCalls ==
    ASSUME CallsOK, ResolveFails
    PROVE  CallsOK'
<1>1. /\ UNCHANGED item /\ call \in [Call -> CallState]
      /\ call' = [c \in Call |-> IF call[c].pc = "fields" THEN Answered(call[c], "failed") ELSE call[c]]
  BY DEF ResolveFails, wiki, CallsOK
<1>2. ASSUME NEW c \in Call
      PROVE  /\ call'[c] \in CallState /\ CallGood(call'[c]) /\ call'[c].args = call[c].args
             /\ call'[c].broken = call[c].broken /\ (Ahead(call'[c]) => Ahead(call[c]))
  <2>1. call[c] \in CallState /\ CallGood(call[c])
    BY <1>1 DEF CallsOK
  <2>2. CASE call[c].pc = "fields"
    BY <1>1, <2>1, <2>2, AnsweredFacts, AnsweredGood
  <2>3. CASE call[c].pc # "fields"
    BY <1>1, <2>1, <2>3
  <2> QED
    BY <2>2, <2>3
<1>3. call' \in [Call -> CallState] /\ item' \in [Item -> Entity]
  <2>1. \A c \in Call : call'[c] \in CallState
    BY <1>2
  <2> QED
    BY <1>1, <2>1 DEF CallsOK
<1>4. ASSUME NEW c \in Call
      PROVE  TwinsOK(c)'
  <2>1. TwinsOK(c) /\ Shrinks(c)
    BY <1>1, <1>2, SameShrinks DEF CallsOK
  <2> QED
    BY <1>2, <2>1, TwinsKept
<1> QED
  BY <1>2, <1>3, <1>4 DEF CallsOK

(* A Wikibase tool that reads its item again says that the call is safe to   *)
(* repeat only when no statement of it is left, and success only when every  *)
(* part it compares is there.                                                *)
LEMMA VerdictIsRight ==
    ASSUME CallsOK, NEW c \in Call, call[c].pc = "lost", call[c].args.target # None,
           call[c].args.tool \in EntityTool, NEW readable \in BOOLEAN, NEW v,
           LET a == call[c].args  e == item[a.target] IN
           v = CASE a.tool = "edit-entity" -> UpdateVerdict(a, e, readable)
                 [] a.tool = "add-statement" -> StatementVerdict(a, e, readable)
                 [] OTHER -> SitelinkVerdict(a, e, readable)
    PROVE  LET a == call[c].args  e == item[a.target] IN
           /\ v \in {"ok", "safe", "unknown"}
           /\ v = "ok" => readable /\ Submitted(a) \ Unread(a) \subseteq Held(a, e)
           /\ v = "safe" /\ ~a.clear /\ ~a.odd => NoStatement(c)
<1> DEFINE a == call[c].args  e == item[a.target]
<1>1. a \in Args \cup {NoArgs} /\ (~a.odd => StatementsOK(c))
  BY DEF CallsOK, CallGood, TwinsOK, Counted
<1>2. ~a.odd => \A i \in Item : \A s \in item[i].claims :
                  Mine(c, s) => a.value # None /\ s.value = a.value /\ i = a.target
  BY <1>1 DEF StatementsOK
<1> HIDE DEF e, a
<1>3. CASE a.tool = "edit-entity"
  <2>1. v = UpdateVerdict(a, e, readable)
    BY <1>3 DEF e, a
  <2>2. v \in {"ok", "safe", "unknown"}
    BY <2>1 DEF UpdateVerdict
  <2>3. v = "ok" => readable /\ TermsHold(a, e) /\ (a.odd \/ (a.value = None /\ a.link = None))
    BY <2>1 DEF UpdateVerdict
  <2>4. ASSUME v = "ok", NEW p \in Submitted(a) \ Unread(a)
        PROVE  p \in Held(a, e)
    <3>1. p \in Part /\ a[p] # None /\ p # "alias" /\ (a.odd => p # "value" /\ p # "link")
      BY DEF Submitted, Unread
    <3>2. p = "label" \/ p = "text"
      BY <2>3, <2>4, <3>1 DEF Part
    <3> QED
      BY <2>3, <2>4, <3>1, <3>2 DEF Held, Submitted, TermsHold
  <2>5. ASSUME v = "safe", ~a.clear, ~a.odd
        PROVE  NoStatement(c)
    <3>1. a.value = None
      BY <2>1, <2>5 DEF UpdateVerdict
    <3> QED
      BY <1>2, <2>5, <3>1 DEF NoStatement
  <2> QED
    BY <2>2, <2>3, <2>4, <2>5 DEF e, a
<1>4. CASE a.tool = "add-statement"
  <2>1. v = StatementVerdict(a, e, readable)
    BY <1>4 DEF e, a
  <2>2. a.label = None /\ a.text = None /\ a.alias = None /\ a.link = None /\ ~a.odd
    BY <1>1, <1>4, ArgsFacts
  <2>3. v \in {"ok", "safe", "unknown"} /\ (v = "ok" => readable /\ \E s \in e.claims : s.value = a.value)
    BY <2>1 DEF StatementVerdict
  <2>4. ASSUME v = "ok", NEW p \in Submitted(a)
        PROVE  p \in Held(a, e)
    BY <2>2, <2>3, <2>4 DEF Held, Submitted, Part
  <2>5. ASSUME v = "safe"
        PROVE  NoStatement(c)
    <3>1. ~ \E s \in e.claims : s.value = a.value
      BY <2>1, <2>5 DEF StatementVerdict
    <3> QED
      BY <1>2, <2>2, <3>1 DEF NoStatement, e
  <2> QED
    BY <2>3, <2>4, <2>5 DEF e, a
<1>5. CASE a.tool = "setsitelink"
  <2>1. v = SitelinkVerdict(a, e, readable)
    BY <1>5 DEF e, a
  <2>2. a.label = None /\ a.text = None /\ a.alias = None /\ a.value = None /\ ~a.odd
    BY <1>1, <1>5, ArgsFacts
  <2>3. v \in {"ok", "safe", "unknown"} /\ (v = "ok" => readable /\ e.link = a.link)
    BY <2>1 DEF SitelinkVerdict
  <2>4. ASSUME v = "ok", NEW p \in Submitted(a)
        PROVE  p \in Held(a, e)
    BY <2>2, <2>3, <2>4 DEF Held, Submitted, Part
  <2>5. NoStatement(c)
    BY <1>2, <2>2 DEF NoStatement
  <2> QED
    BY <2>3, <2>4, <2>5 DEF e, a
<1> QED
  BY <1>3, <1>4, <1>5 DEF EntityTool, a

LEMMA HeldType == ASSUME NEW a, NEW e PROVE Held(a, e) \in SUBSET Part
BY DEF Held, Submitted

LEMMA RereadTargetCalls ==
    ASSUME CallsOK, NEW c \in Call, RereadTarget(c)
    PROVE  CallsOK'
<1> DEFINE a == call[c].args  e == item[a.target]
<1>1. /\ call[c].pc = "lost" /\ a.target # None /\ a.tool \in EntityTool /\ UNCHANGED item
      /\ call \in [Call -> CallState] /\ call[c] \in CallState /\ CallGood(call[c])
      /\ (Counted(a) => ItemsOK(c) /\ StatementsOK(c))
  BY DEF RereadTarget, wiki, CallsOK, TwinsOK
<1>2. a.target \in Item
  BY <1>1, CallType, ArgumentType
<1>3. item[a.target].live \in BOOLEAN
  BY <1>2, EntityType DEF CallsOK
<1>4. PICK readable \in {FALSE} \cup {item[a.target].live} :
        call' = [call EXCEPT ![c] = Answered([call[c] EXCEPT !.seen = IF readable THEN Held(a, e) ELSE {}],
                   CASE a.tool = "edit-entity" -> UpdateVerdict(a, e, readable)
                     [] a.tool = "add-statement" -> StatementVerdict(a, e, readable)
                     [] OTHER -> SitelinkVerdict(a, e, readable))]
  BY DEF RereadTarget
<1> DEFINE v == CASE a.tool = "edit-entity" -> UpdateVerdict(a, e, readable)
                  [] a.tool = "add-statement" -> StatementVerdict(a, e, readable)
                  [] OTHER -> SitelinkVerdict(a, e, readable)
           seen == IF readable THEN Held(a, e) ELSE {}
           r == [call[c] EXCEPT !.seen = seen]
           k == Answered(r, v)
<1>5. readable \in BOOLEAN
  BY <1>3
<1>6. /\ v \in {"ok", "safe", "unknown"} /\ (v = "ok" => Submitted(a) \ Unread(a) \subseteq seen)
      /\ (v = "safe" /\ ~a.clear /\ ~a.odd => NoStatement(c))
  BY <1>1, <1>5, VerdictIsRight
<1>7. seen \in SUBSET Part
  BY HeldType
<1>8. call' = [call EXCEPT ![c] = k]
  BY <1>4
<1> HIDE DEF v, seen
<1>9. /\ r \in CallState /\ r.args = a /\ r.seen = seen /\ r.landed = call[c].landed
      /\ r.broken = call[c].broken /\ r.late = call[c].late
  BY <1>1, <1>7 DEF CallState
<1> HIDE DEF r
<1>10. /\ k \in CallState /\ k.pc = "done" /\ k.answer = v /\ k.args = a /\ k.seen = seen
       /\ k.broken = call[c].broken /\ k.late = call[c].late
  BY <1>6, <1>9, AnsweredFacts
<1> HIDE DEF k
<1>11. CallGood(k)
  BY <1>1, <1>6, <1>10 DEF CallGood
<1>12. Ahead(k) => v = "safe"
  BY <1>10 DEF Ahead
<1>13. call'[c] = k /\ \A d \in Call : d # c => call'[d] = call[d]
  BY <1>1, <1>8
<1>14. item' = item
  BY <1>1
<1> HIDE DEF a, e
<1>15. TwinsOK(c)'
  <2> SUFFICES ASSUME Counted(a)
               PROVE  ItemsOK(c)' /\ StatementsOK(c)'
    BY <1>10, <1>13 DEF TwinsOK
  <2>2. ItemsOK(c) /\ StatementsOK(c) /\ ~a.odd
    BY <1>1 DEF Counted
  <2>3. ItemsOK(c)'
    BY <1>1, <1>10, <1>13, <1>14, <2>2 DEF ItemsOK, NoItem, Mine, a
  <2>4. Ahead(k) /\ (a.target = None \/ ~a.clear) => NoStatement(c)
    BY <1>1, <1>6, <1>12, <2>2
  <2>5. StatementsOK(c)'
    BY <1>1, <1>10, <1>13, <1>14, <2>2, <2>4 DEF StatementsOK, NoStatement, Mine, a
  <2> QED
    BY <2>3, <2>5
<1>16. ASSUME NEW d \in Call, d # c
       PROVE  TwinsOK(d)'
  <2>1. TwinsOK(d) /\ Shrinks(d) /\ call'[d] = call[d]
    BY <1>1, <1>13, <1>16, SameShrinks DEF CallsOK
  <2> QED
    BY <2>1, TwinsKept
<1>17. call' \in [Call -> CallState] /\ item' \in [Item -> Entity]
  BY <1>1, <1>8, <1>10 DEF CallsOK
<1>18. \A d \in Call : CallGood(call'[d])
  BY <1>11, <1>13 DEF CallsOK
<1> QED
  BY <1>15, <1>16, <1>17, <1>18 DEF CallsOK

-----------------------------------------------------------------------------
(* The steps that write *)

(* What the write of a call leaves of another call. *)
LEMMA WroteShrinks ==
    ASSUME CallsOK, NEW c \in Call, NEW n \in 0 .. MaxSends, Wrote(c, n), NEW d \in Call, d # c,
           call'[d].broken = call[d].broken
    PROVE  Shrinks(d)
<1>1. \A s \in Added(c, n) : s.by = c
  BY AddedFacts DEF CallsOK
<1>2. \A i \in Item : ItemKeeps(c, n, i)
  BY DEF Wrote
<1>3. d # None
  BY NoneApart
<1>4. ASSUME NEW i \in Item
      PROVE  /\ Mine(d, item[i])' => Mine(d, item[i])
             /\ \A s \in item'[i].claims : Mine(d, s)' => s \in item[i].claims /\ Mine(d, s)
  BY <1>1, <1>2 DEF ItemKeeps, Mine
<1> QED
  BY <1>4 DEF Shrinks

(* What a sending that the client repeated leaves of its own call: nothing   *)
(* that counts.                                                              *)
LEMMA BrokenShrinks ==
    ASSUME CallsOK, NEW c \in Call, NEW n \in 0 .. MaxSends, Wrote(c, n),
           call[c].broken \subseteq call'[c].broken, n \in call'[c].broken
    PROVE  Shrinks(c)
<1>1. \A s \in Added(c, n) : s.sending = n
  BY AddedFacts DEF CallsOK
<1>2. \A i \in Item : ItemKeeps(c, n, i)
  BY DEF Wrote
<1>3. ASSUME NEW i \in Item
      PROVE  /\ Mine(c, item[i])' => Mine(c, item[i])
             /\ \A s \in item'[i].claims : Mine(c, s)' => s \in item[i].claims /\ Mine(c, s)
  <2>1. Mine(c, item[i])' => Mine(c, item[i])
    BY <1>2 DEF ItemKeeps, Mine
  <2>2. \A s \in item'[i].claims : Mine(c, s)' => s \in item[i].claims /\ Mine(c, s)
    BY <1>1, <1>2 DEF ItemKeeps, Mine
  <2> QED
    BY <2>1, <2>2
<1> QED
  BY <1>3 DEF Shrinks

LEMMA BrokenWriteCalls ==
    ASSUME CallsOK, NEW c \in Call, NEW n \in 0 .. MaxSends, Wrote(c, n), NEW k \in CallState,
           call' = [call EXCEPT ![c] = k], CallGood(k), k.args = call[c].args,
           call[c].broken \subseteq k.broken, n \in k.broken, Ahead(k) => Ahead(call[c])
    PROVE  CallsOK'
<1>1. call \in [Call -> CallState]
  BY DEF CallsOK
<1>2. call'[c] = k /\ \A d \in Call : d # c => call'[d] = call[d]
  BY <1>1
<1>3. TwinsOK(c)'
  <2>1. TwinsOK(c) /\ Shrinks(c)
    BY <1>2, BrokenShrinks DEF CallsOK
  <2> QED
    BY <1>2, <2>1, TwinsKept
<1>4. ASSUME NEW d \in Call, d # c
      PROVE  TwinsOK(d)'
  <2>1. TwinsOK(d) /\ Shrinks(d) /\ call'[d] = call[d]
    BY <1>2, <1>4, WroteShrinks DEF CallsOK
  <2> QED
    BY <2>1, TwinsKept
<1>5. call' \in [Call -> CallState] /\ item' \in [Item -> Entity]
  BY <1>1 DEF Wrote
<1>6. \A d \in Call : CallGood(call'[d])
  BY <1>2 DEF CallsOK
<1> QED
  BY <1>3, <1>4, <1>5, <1>6 DEF CallsOK

(* What the write of a Wikibase call leaves of itself: it was still ahead,   *)
(* and it is no longer.                                                      *)
LEMMA WroteTwins ==
    ASSUME CallsOK, NEW c \in Call, Sending(c), NEW n \in 0 .. MaxSends, Wrote(c, n),
           call'[c].args = call[c].args, call'[c].broken = call[c].broken, ~Ahead(call'[c])
    PROVE  TwinsOK(c)'
<1> DEFINE a == call[c].args
<1> SUFFICES ASSUME Counted(a)
             PROVE  ItemsOK(c)' /\ StatementsOK(c)'
  BY DEF TwinsOK
<1>1. ItemsOK(c) /\ StatementsOK(c) /\ Ahead(call[c]) /\ call \in [Call -> CallState]
  BY DEF CallsOK, TwinsOK, Sending, Ahead
<1>2. /\ \A s \in Added(c, n) : s.by = c /\ s.value = a.value /\ a.value # None
      /\ \A s, t \in Added(c, n) : s = t
  BY <1>1, AddedFacts
<1>3. /\ \A i \in Item : ItemKeeps(c, n, i)
      /\ a.target # None => TouchesTarget(c, n)
      /\ a.target = None => TouchesNew(c)
  BY DEF Wrote, Counted
<1>4. Unused.by = None /\ Unused.claims = {} /\ c # None
  BY UnusedFacts, NoneApart
<1> DEFINE mineI(i) == Mine(c, item[i])'
           mineS(s) == Mine(c, s)'
<1>9. \A s : mineS(s) <=> Mine(c, s)
  BY DEF Mine
<1>10. \A i \in Item : mineI(i) => item'[i].by = c
  BY DEF Mine
<1>11. \A i \in Item : item'[i].by = item[i].by /\ item'[i].sending = item[i].sending => (mineI(i) <=> Mine(c, item[i]))
  BY DEF Mine
<1>12. ItemsOK(c)' = (/\ a.target # None => \A i \in Item : ~mineI(i)
                      /\ \A i, j \in Item : mineI(i) /\ mineI(j) => i = j
                      /\ Ahead(call'[c]) /\ a.target = None => \A i \in Item : ~mineI(i))
  BY DEF ItemsOK, NoItem
<1>13. StatementsOK(c)' =
         (/\ \A i \in Item : \A s \in item'[i].claims :
               mineS(s) => a.value # None /\ s.value = a.value /\ (a.target # None => i = a.target)
          /\ \A i \in Item : \A s, t \in item'[i].claims : mineS(s) /\ mineS(t) => s = t
          /\ Ahead(call'[c]) /\ (a.target = None \/ ~a.clear) =>
               \A i \in Item : \A s \in item'[i].claims : ~mineS(s))
  BY DEF StatementsOK, NoStatement
<1> HIDE DEF mineI, mineS, a
<1>5. ASSUME a.target # None
      PROVE  /\ \A i \in Item : ~mineI(i)
             /\ \A i \in Item : \A s \in item'[i].claims :
                  mineS(s) => a.value # None /\ s.value = a.value /\ i = a.target
             /\ \A i \in Item : \A s, t \in item'[i].claims : mineS(s) /\ mineS(t) => s = t
  <2>1. /\ \A i \in Item : /\ item'[i].by = item[i].by /\ item'[i].sending = item[i].sending
                          /\ (i # a.target => item'[i] = item[i])
        /\ a.clear => \A i \in Item : i = a.target => item'[i].claims = Added(c, n)
    BY <1>3, <1>5 DEF TouchesTarget, a
  <2>2. NoItem(c) /\ (~a.clear => NoStatement(c))
    BY <1>1, <1>5 DEF ItemsOK, StatementsOK, a
  <2>3. \A i \in Item : ~mineI(i)
    BY <1>11, <2>1, <2>2 DEF NoItem
  <2>4. ASSUME NEW i \in Item, i # a.target, NEW s \in item'[i].claims
        PROVE  ~mineS(s)
    BY <1>1, <1>5, <1>9, <2>1, <2>4 DEF StatementsOK, a
  <2>5. ASSUME NEW i \in Item, i = a.target, NEW s \in item'[i].claims, mineS(s)
        PROVE  s \in Added(c, n)
    <3>1. CASE a.clear
      BY <2>1, <2>5, <3>1
    <3>2. CASE ~a.clear
      BY <1>3, <1>9, <2>2, <2>5, <3>2 DEF NoStatement, ItemKeeps
    <3> QED
      BY <3>1, <3>2
  <2>6. \A i \in Item : \A s \in item'[i].claims : mineS(s) => s \in Added(c, n) /\ i = a.target
    BY <2>4, <2>5
  <2> QED
    BY <1>2, <2>3, <2>6
<1>6. ASSUME a.target = None
      PROVE  /\ \A i, j \in Item : mineI(i) /\ mineI(j) => i = j
             /\ \A i \in Item : \A s \in item'[i].claims : mineS(s) => a.value # None /\ s.value = a.value
             /\ \A i \in Item : \A s, t \in item'[i].claims : mineS(s) /\ mineS(t) => s = t
  <2>1. NoItem(c) /\ NoStatement(c)
    BY <1>1, <1>6 DEF ItemsOK, StatementsOK, a
  <2>2. PICK q \in Item : \A j \in Item \ {q} : item'[j] = item[j]
    BY <1>3, <1>6 DEF TouchesNew
  <2>3. \A i \in Item : mineI(i) => i = q
    BY <1>11, <2>1, <2>2 DEF NoItem
  <2>4. \A i \in Item : \A s \in item'[i].claims : mineS(s) => s \in Added(c, n)
    BY <1>3, <1>9, <2>1 DEF NoStatement, ItemKeeps
  <2> QED
    BY <1>2, <2>3, <2>4
<1>7. ItemsOK(c)'
  BY <1>5, <1>6, <1>12
<1>8. StatementsOK(c)'
  BY <1>5, <1>6, <1>13
<1> QED
  BY <1>7, <1>8

LEMMA WriteCalls ==
    ASSUME CallsOK, NEW c \in Call, Sending(c), NEW n \in 0 .. MaxSends, Wrote(c, n), NEW k \in CallState,
           call' = [call EXCEPT ![c] = k], CallGood(k), k.args = call[c].args,
           k.broken = call[c].broken, ~Ahead(k)
    PROVE  CallsOK'
<1>1. call \in [Call -> CallState]
  BY DEF CallsOK
<1>2. call'[c] = k /\ \A d \in Call : d # c => call'[d] = call[d]
  BY <1>1
<1>3. TwinsOK(c)'
  BY <1>2, WroteTwins
<1>4. ASSUME NEW d \in Call, d # c
      PROVE  TwinsOK(d)'
  <2>1. TwinsOK(d) /\ Shrinks(d) /\ call'[d] = call[d]
    BY <1>2, <1>4, WroteShrinks DEF CallsOK
  <2> QED
    BY <2>1, TwinsKept
<1>5. call' \in [Call -> CallState] /\ item' \in [Item -> Entity]
  BY <1>1 DEF Wrote
<1>6. \A d \in Call : CallGood(call'[d])
  BY <1>2 DEF CallsOK
<1> QED
  BY <1>3, <1>4, <1>5, <1>6 DEF CallsOK

LEMMA SendAnsweredCalls ==
    ASSUME CallsOK, NEW c \in Call, SendAnswered(c)
    PROVE  CallsOK'
<1> DEFINE s == Sent(c)  r == [s EXCEPT !.landed = TRUE]  k == Answered(r, "ok")
<1>1. /\ Sending(c) /\ Applies(c, Now(c)) /\ call \in [Call -> CallState] /\ item \in [Item -> Entity]
      /\ CallGood(call[c]) /\ call' = [call EXCEPT ![c] = k]
  BY DEF SendAnswered, CallsOK
<1>2. /\ s \in CallState /\ s.args = call[c].args /\ CallGood(s) /\ s.pc = "send"
      /\ s.broken = call[c].broken /\ s.late = call[c].late /\ Now(c) \in 0 .. MaxSends
  BY <1>1, SentFacts
<1> HIDE DEF s
<1>3. r \in CallState /\ r.args = s.args /\ r.landed = TRUE /\ r.broken = s.broken /\ r.late = s.late
  BY <1>2 DEF CallState
<1> HIDE DEF r
<1>4. /\ k \in CallState /\ k.args = s.args /\ k.pc = "done" /\ k.answer = "ok" /\ k.landed = TRUE
      /\ k.broken = s.broken /\ k.late = s.late
  BY <1>3, AnsweredFacts
<1> HIDE DEF k
<1>5. CallGood(k) /\ ~Ahead(k)
  BY <1>2, <1>4 DEF CallGood, Ahead
<1>6. Wrote(c, Now(c))
  BY <1>1, <1>2, AppliesWrites
<1> QED
  BY <1>1, <1>2, <1>4, <1>5, <1>6, WriteCalls

LEMMA SendLostCalls ==
    ASSUME CallsOK, NEW c \in Call, SendLost(c)
    PROVE  CallsOK'
<1> DEFINE s == Sent(c)
<1>1. /\ Sending(c) /\ call \in [Call -> CallState] /\ item \in [Item -> Entity] /\ CallGood(call[c])
  BY DEF SendLost, CallsOK
<1>2. /\ s \in CallState /\ s.args = call[c].args /\ CallGood(s) /\ s.pc = "send" /\ s.answer = "none"
      /\ s.broken = call[c].broken /\ s.late = call[c].late /\ Now(c) \in 0 .. MaxSends
  BY <1>1, SentFacts
<1>3. PICK applied \in {FALSE} \cup {Accepts(c)} :
        /\ IF applied THEN Applies(c, Now(c)) ELSE UNCHANGED <<item, subject>>
        /\ \/ \E x \in {"warned", "failed"} :
                call' = [call EXCEPT ![c] = Answered([s EXCEPT !.landed = @ \/ applied], x)]
           \/ call' = [call EXCEPT ![c] = [[s EXCEPT !.landed = @ \/ applied] EXCEPT !.pc = "lost"]]
  BY DEF SendLost
<1> DEFINE l == s.landed \/ applied
           r == [s EXCEPT !.landed = l]
<1>4. l \in BOOLEAN
  OBVIOUS
<1> HIDE DEF s, l
<1>5. r \in CallState /\ r.args = s.args /\ r.pc = "send" /\ r.answer = "none" /\ r.broken = s.broken /\ r.late = s.late
  BY <1>2, <1>4 DEF CallState
<1>6. \/ \E x \in {"warned", "failed"} : call' = [call EXCEPT ![c] = Answered(r, x)]
      \/ call' = [call EXCEPT ![c] = [r EXCEPT !.pc = "lost"]]
  BY <1>3, <1>2 DEF l
<1> HIDE DEF r
<1>7. CallGood(r)
  BY <1>2, <1>5 DEF CallGood
<1>8. \E k \in CallState : /\ call' = [call EXCEPT ![c] = k] /\ CallGood(k) /\ k.args = r.args /\ ~Ahead(k)
                           /\ k.broken = r.broken /\ k.late = r.late
  <2>1. CASE \E x \in {"warned", "failed"} : call' = [call EXCEPT ![c] = Answered(r, x)]
    <3>1. PICK x \in {"warned", "failed"} : call' = [call EXCEPT ![c] = Answered(r, x)]
      BY <2>1
    <3>2. Answered(r, x) \in CallState /\ Answered(r, x).args = r.args /\ Answered(r, x).broken = r.broken /\ Answered(r, x).late = r.late
      BY <1>5, AnsweredFacts
    <3>3. CallGood(Answered(r, x)) /\ ~Ahead(Answered(r, x))
      BY <1>5, <1>7, AnsweredGood
    <3> QED
      BY <3>1, <3>2, <3>3
  <2>2. CASE call' = [call EXCEPT ![c] = [r EXCEPT !.pc = "lost"]]
    <3> DEFINE k == [r EXCEPT !.pc = "lost"]
    <3>1. k \in CallState /\ k.pc = "lost" /\ k.args = r.args /\ k.answer = "none" /\ k.broken = r.broken /\ k.late = r.late
      BY <1>5 DEF CallState
    <3>2. call' = [call EXCEPT ![c] = k]
      BY <2>2
    <3> HIDE DEF k
    <3>3. CallGood(k) /\ ~Ahead(k)
      BY <1>5, <1>7, <3>1 DEF CallGood, Ahead
    <3> QED
      BY <3>1, <3>2, <3>3
  <2> QED
    BY <1>6, <2>1, <2>2
<1>9. PICK k \in CallState : /\ call' = [call EXCEPT ![c] = k] /\ CallGood(k) /\ k.args = r.args /\ ~Ahead(k)
                            /\ k.broken = r.broken /\ k.late = r.late
  BY <1>8
<1>10. CASE UNCHANGED item
  BY <1>2, <1>5, <1>9, <1>10, MoveKeeps
<1>11. CASE Applies(c, Now(c))
  <2>1. Wrote(c, Now(c))
    BY <1>1, <1>2, <1>11, AppliesWrites
  <2> QED
    BY <1>1, <1>2, <1>5, <1>9, <2>1, WriteCalls
<1> QED
  BY <1>3, <1>10, <1>11

LEMMA ConnectionBreaksCalls ==
    ASSUME CallsOK, NEW c \in Call, ConnectionBreaks(c)
    PROVE  CallsOK'
<1> DEFINE s == Sent(c)
<1>1. /\ Sending(c) /\ call \in [Call -> CallState] /\ item \in [Item -> Entity] /\ CallGood(call[c])
  BY DEF ConnectionBreaks, CallsOK
<1>2. /\ s \in CallState /\ s.args = call[c].args /\ CallGood(s) /\ s.pc = "send" /\ s.answer = "none"
      /\ s.broken = call[c].broken /\ s.late = call[c].late /\ Now(c) \in 0 .. MaxSends /\ Now(c) \in 1 .. MaxSends
  BY <1>1, SentFacts
<1>3. PICK applied \in {FALSE} \cup {Accepts(c)} :
        /\ IF applied THEN Applies(c, Now(c)) ELSE UNCHANGED <<item, subject>>
        /\ call' = [call EXCEPT ![c] = [s EXCEPT !.broken = @ \cup {Now(c)}, !.landed = @ \/ applied,
                                                !.late = IF applied THEN @ ELSE @ \cup {Now(c)}]]
  BY DEF ConnectionBreaks
<1> DEFINE b == s.broken \cup {Now(c)}
           l == s.landed \/ applied
           y == IF applied THEN s.late ELSE s.late \cup {Now(c)}
           k == [s EXCEPT !.broken = b, !.landed = l, !.late = y]
<1>4. /\ b \in SUBSET (1 .. MaxSends) /\ l \in BOOLEAN /\ y \in SUBSET (1 .. MaxSends)
      /\ s.broken \subseteq b /\ Now(c) \in b /\ (s.late \subseteq s.broken => y \subseteq b)
  BY <1>2, CallType
<1>5. call' = [call EXCEPT ![c] = k]
  BY <1>3
<1> HIDE DEF s, b, l, y
<1>6. /\ k \in CallState /\ k.args = s.args /\ k.pc = "send" /\ k.answer = "none" /\ k.broken = b
      /\ k.late = y
  BY <1>2, <1>4 DEF CallState
<1> HIDE DEF k
<1>7. CallGood(k) /\ Ahead(call[c])
  BY <1>1, <1>2, <1>4, <1>6 DEF CallGood, Ahead, Sending
<1>8. CASE UNCHANGED item
  BY <1>2, <1>4, <1>5, <1>6, <1>7, <1>8, MoveKeeps
<1>9. CASE Applies(c, Now(c))
  <2>1. Wrote(c, Now(c))
    BY <1>1, <1>2, <1>9, AppliesWrites
  <2> QED
    BY <1>2, <1>4, <1>5, <1>6, <1>7, <2>1, BrokenWriteCalls
<1> QED
  BY <1>3, <1>8, <1>9

LEMMA LandsCalls ==
    ASSUME CallsOK, NEW c \in Call, Lands(c)
    PROVE  CallsOK'
<1>1. /\ call \in [Call -> CallState] /\ call[c] \in CallState /\ item \in [Item -> Entity] /\ CallGood(call[c])
  BY DEF CallsOK
<1>2. PICK n \in call[c].late : /\ Applies(c, n)
                               /\ call' = [call EXCEPT ![c].late = @ \ {n}, ![c].landed = TRUE]
  BY DEF Lands
<1>3. n \in 1 .. MaxSends /\ n \in 0 .. MaxSends /\ n \in call[c].broken
  <2>1. call[c].late \subseteq call[c].broken /\ call[c].late \in SUBSET (1 .. MaxSends)
    BY <1>1, CallType DEF CallGood
  <2> QED
    BY <2>1, WritesAssumption
<1> DEFINE y == call[c].late \ {n}
           k == [call[c] EXCEPT !.late = y, !.landed = TRUE]
<1>4. y \in SUBSET (1 .. MaxSends) /\ y \subseteq call[c].late
  BY <1>1, CallType
<1>5. call' = [call EXCEPT ![c] = k]
  BY <1>1, <1>2
<1> HIDE DEF y
<1>6. /\ k \in CallState /\ k.args = call[c].args /\ k.pc = call[c].pc /\ k.answer = call[c].answer
      /\ k.broken = call[c].broken /\ k.landed = TRUE /\ k.late = y
  BY <1>1, <1>4 DEF CallState
<1> HIDE DEF k
<1>7. CallGood(k) /\ (Ahead(k) => Ahead(call[c]))
  BY <1>1, <1>4, <1>6 DEF CallGood, Ahead
<1>8. Wrote(c, n)
  BY <1>1, <1>2, <1>3, AppliesWrites
<1> QED
  BY <1>3, <1>5, <1>6, <1>7, <1>8, BrokenWriteCalls

(* Others add no statement and no item that a call left. *)
LEMMA OthersItem ==
    ASSUME item \in [Item -> Entity], UNCHANGED call, Others
    PROVE  item' \in [Item -> Entity] /\ \A c \in Call : Shrinks(c)
<1>1. ASSUME NEW i \in Item, NEW e \in Entity, item' = [item EXCEPT ![i] = e], e.by = item[i].by, e.sending = item[i].sending,
             \A s \in e.claims : s.by # None => s \in item[i].claims
      PROVE  item' \in [Item -> Entity] /\ \A c \in Call : Shrinks(c)
  <2>1. item'[i] = e /\ \A j \in Item : j # i => item'[j] = item[j]
    BY <1>1
  <2>2. item' \in [Item -> Entity]
    BY <1>1
  <2> QED
    BY <1>1, <2>1, <2>2, NoneApart DEF Shrinks, Mine
<1>2. \A i \in Live : i \in Item /\ item[i] \in Entity
  BY DEF Live
<1>3. CASE \E i \in Live, n \in Name : item' = [item EXCEPT ![i].label = [name |-> n, form |-> "plain"]]
  <2>1. PICK i \in Live, n \in Name : item' = [item EXCEPT ![i].label = [name |-> n, form |-> "plain"]]
    BY <1>3
  <2> DEFINE e == [item[i] EXCEPT !.label = [name |-> n, form |-> "plain"]]
  <2>2. [name |-> n, form |-> "plain"] \in Label
    BY DEF Label, Form
  <2>3. e \in Entity /\ e.by = item[i].by /\ e.sending = item[i].sending /\ e.claims = item[i].claims
    BY <1>2, <2>2 DEF Entity
  <2>4. item' = [item EXCEPT ![i] = e]
    BY <2>1
  <2> HIDE DEF e
  <2> QED
    BY <1>1, <1>2, <2>3, <2>4
<1>4. CASE \E i \in Live, n \in Name :
             item' = [item EXCEPT ![i].claims = @ \cup {[value |-> n, by |-> None, sending |-> 0]}]
  <2>1. PICK i \in Live, n \in Name :
             item' = [item EXCEPT ![i].claims = @ \cup {[value |-> n, by |-> None, sending |-> 0]}]
    BY <1>4
  <2> DEFINE s == [value |-> n, by |-> None, sending |-> 0]
             q == item[i].claims \cup {s}
             e == [item[i] EXCEPT !.claims = q]
  <2>2. s \in Statement /\ s.by = None
    BY WritesAssumption DEF Statement
  <2>3. item' = [item EXCEPT ![i] = e]
    BY <2>1
  <2> HIDE DEF s
  <2>4. q \in SUBSET Statement /\ \A t \in q : t.by # None => t \in item[i].claims
    BY <1>2, <2>2, EntityType
  <2> HIDE DEF q
  <2>5. e \in Entity /\ e.by = item[i].by /\ e.sending = item[i].sending /\ e.claims = q
    BY <1>2, <2>4 DEF Entity
  <2> HIDE DEF e
  <2> QED
    BY <1>1, <1>2, <2>3, <2>4, <2>5
<1>5. CASE \E i \in Live : \E s \in item[i].claims : item' = [item EXCEPT ![i].claims = @ \ {s}]
  <2>1. PICK i \in Live : \E s \in item[i].claims : item' = [item EXCEPT ![i].claims = @ \ {s}]
    BY <1>5
  <2>2. PICK s \in item[i].claims : item' = [item EXCEPT ![i].claims = @ \ {s}]
    BY <2>1
  <2> DEFINE q == item[i].claims \ {s}  e == [item[i] EXCEPT !.claims = q]
  <2>3. q \in SUBSET Statement /\ \A t \in q : t \in item[i].claims
    BY <1>2, EntityType
  <2>4. item' = [item EXCEPT ![i] = e]
    BY <2>2
  <2> HIDE DEF q
  <2>5. e \in Entity /\ e.by = item[i].by /\ e.sending = item[i].sending /\ e.claims = q
    BY <1>2, <2>3 DEF Entity
  <2> HIDE DEF e
  <2> QED
    BY <1>1, <1>2, <2>3, <2>4, <2>5
<1>6. CASE \E i \in Live : item' = [item EXCEPT ![i].live = FALSE]
  <2>1. PICK i \in Live : item' = [item EXCEPT ![i].live = FALSE]
    BY <1>6
  <2> DEFINE e == [item[i] EXCEPT !.live = FALSE]
  <2>2. e \in Entity /\ e.by = item[i].by /\ e.sending = item[i].sending /\ e.claims = item[i].claims
    BY <1>2 DEF Entity
  <2>3. item' = [item EXCEPT ![i] = e]
    BY <2>1
  <2> HIDE DEF e
  <2> QED
    BY <1>1, <1>2, <2>2, <2>3
<1>7. CASE \E i \in Live, r \in Role : item' = [item EXCEPT ![i].role = r]
  <2>1. PICK i \in Live, r \in Role : item' = [item EXCEPT ![i].role = r]
    BY <1>7
  <2> DEFINE e == [item[i] EXCEPT !.role = r]
  <2>2. e \in Entity /\ e.by = item[i].by /\ e.sending = item[i].sending /\ e.claims = item[i].claims
    BY <1>2 DEF Entity
  <2>3. item' = [item EXCEPT ![i] = e]
    BY <2>1
  <2> HIDE DEF e
  <2> QED
    BY <1>1, <1>2, <2>2, <2>3
<1>8. CASE UNCHANGED item
  BY <1>8, SameShrinks
<1> QED
  BY <1>3, <1>4, <1>5, <1>6, <1>7, <1>8 DEF Others

LEMMA OthersCalls ==
    ASSUME CallsOK, Others
    PROVE  CallsOK'
<1>1. item \in [Item -> Entity] /\ call \in [Call -> CallState]
  BY DEF CallsOK
<1>3. call' = call
  BY DEF Others
<1>2. item' \in [Item -> Entity] /\ \A c \in Call : Shrinks(c)
  BY <1>1, <1>3, OthersItem
<1>4. ASSUME NEW c \in Call
      PROVE  TwinsOK(c)'
  BY <1>2, <1>3, TwinsKept DEF CallsOK
<1> QED
  BY <1>1, <1>2, <1>3, <1>4 DEF CallsOK

LEMMA CallsStep ==
    ASSUME CallsOK, pageId \in [Page -> Page \cup {None}], [Next]_vars
    PROVE  CallsOK'
<1>1. CASE UNCHANGED vars
  BY <1>1 DEF vars, CallsOK, CallGood, TwinsOK, ItemsOK, StatementsOK, NoItem, NoStatement, Mine, Ahead
<1>2. CASE Searched
  BY <1>2 DEF Searched, wiki, CallsOK, CallGood, TwinsOK, ItemsOK, StatementsOK, NoItem, NoStatement, Mine, Ahead
<1>3. CASE ResolveFails
  BY <1>3, ResolveFailsCalls
<1>4. CASE Others
  BY <1>4, OthersCalls
<1>5. ASSUME NEW c \in Call,
             \/ \E a \in Args : Begin(c, a)
             \/ LookUpDatatype(c) \/ ResolveLanguage(c) \/ ResolvePage(c)
             \/ SendAnswered(c) \/ SendRefused(c) \/ SendLost(c) \/ ConnectionBreaks(c) \/ Lands(c)
             \/ RereadTarget(c) \/ RereadCreate(c) \/ LostUpdateOfAddTool(c) \/ Retry(c)
             \/ Resolve(c) \/ Describe(c)
      PROVE  CallsOK'
  BY <1>5, BeginCalls, LookUpDatatypeCalls, ResolveLanguageCalls, ResolvePageCalls, SendAnsweredCalls,
     SendRefusedCalls, SendLostCalls, ConnectionBreaksCalls, LandsCalls, RereadTargetCalls, RereadCreateCalls, LostUpdateOfAddToolCalls,
     RetryCalls, ResolveCalls, DescribeCalls
<1> QED
  BY <1>1, <1>2, <1>3, <1>4, <1>5 DEF Next
-----------------------------------------------------------------------------
(* The rest of the wiki, and the vocabulary *)

(* A write that the wiki applies gives no item a role. *)
LEMMA WroteLabelled ==
    ASSUME LabelledOK, NEW c \in Call, NEW n, Wrote(c, n), UNCHANGED labelled
    PROVE  LabelledOK'
BY DEF Wrote, ItemKeeps, LabelledOK

LEMMA OthersLabelled ==
    ASSUME item \in [Item -> Entity], LabelledOK, Others
    PROVE  LabelledOK'
<1>1. \A i \in Live : i \in Item /\ item[i] \in Entity /\ item[i].live
  BY DEF Live
<1>2. CASE UNCHANGED item /\ UNCHANGED labelled
  BY <1>2 DEF LabelledOK
<1>3. ASSUME NEW i \in Item, NEW e \in Entity, item' = [item EXCEPT ![i] = e], UNCHANGED labelled,
             e.live => item[i].live, e.role = item[i].role
      PROVE  LabelledOK'
  <2>1. item'[i] = e /\ \A j \in Item : j # i => item'[j] = item[j]
    BY <1>3
  <2> QED
    BY <1>3, <2>1 DEF LabelledOK
<1>4. CASE \E i \in Live, n \in Name :
             item' = [item EXCEPT ![i].label = [name |-> n, form |-> "plain"]] /\ UNCHANGED labelled
  <2>1. PICK i \in Live, n \in Name :
             item' = [item EXCEPT ![i].label = [name |-> n, form |-> "plain"]] /\ UNCHANGED labelled
    BY <1>4
  <2>2. [name |-> n, form |-> "plain"] \in Label
    BY DEF Label, Form
  <2>3. [item[i] EXCEPT !.label = [name |-> n, form |-> "plain"]] \in Entity
    BY <1>1, <2>2 DEF Entity
  <2> QED
    BY <1>1, <1>3, <2>1, <2>3 DEF Entity
<1>5. CASE (\E i \in Live : \E q \in SUBSET Statement : item' = [item EXCEPT ![i].claims = q]) /\ UNCHANGED labelled
  <2>1. PICK i \in Live : \E q \in SUBSET Statement : item' = [item EXCEPT ![i].claims = q]
    BY <1>5
  <2>2. PICK q \in SUBSET Statement : item' = [item EXCEPT ![i].claims = q]
    BY <2>1
  <2>3. [item[i] EXCEPT !.claims = q] \in Entity
    BY <1>1 DEF Entity
  <2> QED
    BY <1>1, <1>3, <1>5, <2>2, <2>3 DEF Entity
<1>6. CASE (\E i \in Live : item' = [item EXCEPT ![i].live = FALSE]) /\ UNCHANGED labelled
  <2>1. PICK i \in Live : item' = [item EXCEPT ![i].live = FALSE]
    BY <1>6
  <2>2. [item[i] EXCEPT !.live = FALSE] \in Entity
    BY <1>1 DEF Entity
  <2> QED
    BY <1>1, <1>3, <1>6, <2>1, <2>2 DEF Entity
<1>7. CASE \E i \in Live, r \in Role :
             item' = [item EXCEPT ![i].role = r] /\ labelled' = labelled \cup {<<i, r>>}
  <2>1. PICK i \in Live, r \in Role :
             item' = [item EXCEPT ![i].role = r] /\ labelled' = labelled \cup {<<i, r>>}
    BY <1>7
  <2>2. item'[i].role = r /\ \A j \in Item : j # i => item'[j] = item[j]
    BY <1>1, <2>1 DEF Entity
  <2> QED
    BY <2>1, <2>2 DEF LabelledOK
<1>8. \A i \in Live : item[i].claims \in SUBSET Statement
  BY <1>1, EntityType
<1>9. \A n \in Name : [value |-> n, by |-> None, sending |-> 0] \in Statement
  BY WritesAssumption DEF Statement
<1>10. CASE (\E i \in Live, n \in Name :
               item' = [item EXCEPT ![i].claims = @ \cup {[value |-> n, by |-> None, sending |-> 0]}])
            /\ UNCHANGED labelled
  <2>1. PICK i \in Live, n \in Name :
             item' = [item EXCEPT ![i].claims = @ \cup {[value |-> n, by |-> None, sending |-> 0]}]
    BY <1>10
  <2> DEFINE q == item[i].claims \cup {[value |-> n, by |-> None, sending |-> 0]}
  <2>2. q \in SUBSET Statement
    BY <1>8, <1>9
  <2>3. item' = [item EXCEPT ![i].claims = q]
    BY <2>1
  <2> HIDE DEF q
  <2> QED
    BY <1>5, <1>10, <2>2, <2>3
<1>11. CASE (\E i \in Live : \E s \in item[i].claims : item' = [item EXCEPT ![i].claims = @ \ {s}])
            /\ UNCHANGED labelled
  <2>1. PICK i \in Live : \E s \in item[i].claims : item' = [item EXCEPT ![i].claims = @ \ {s}]
    BY <1>11
  <2>2. PICK s \in item[i].claims : item' = [item EXCEPT ![i].claims = @ \ {s}]
    BY <2>1
  <2> DEFINE q == item[i].claims \ {s}
  <2>3. q \in SUBSET Statement
    BY <1>8
  <2>4. item' = [item EXCEPT ![i].claims = q]
    BY <2>2
  <2> HIDE DEF q
  <2> QED
    BY <1>5, <1>11, <2>3, <2>4
<1> QED
  BY <1>2, <1>4, <1>6, <1>7, <1>10, <1>11 DEF Others

LEMMA LabelledStep ==
    ASSUME CallsOK, LabelledOK, [Next]_vars
    PROVE  LabelledOK'
<1>1. item \in [Item -> Entity] /\ call \in [Call -> CallState]
  BY DEF CallsOK
<1>2. CASE UNCHANGED item /\ UNCHANGED labelled
  BY <1>2 DEF LabelledOK
<1>3. CASE Others
  BY <1>1, <1>3, OthersLabelled
<1>4. ASSUME NEW c \in Call, SendAnswered(c) \/ SendLost(c) \/ ConnectionBreaks(c) \/ Lands(c), ~UNCHANGED item
      PROVE  LabelledOK'
  <2>1. UNCHANGED labelled /\ \E n \in 0 .. MaxSends : Applies(c, n)
    <3>1. CASE SendAnswered(c) \/ SendLost(c) \/ ConnectionBreaks(c)
      <4>1. Sending(c) /\ Applies(c, Now(c)) /\ UNCHANGED labelled
        BY <1>4, <3>1 DEF SendAnswered, SendLost, ConnectionBreaks
      <4>2. Now(c) \in 0 .. MaxSends
        BY <1>1, <4>1, SentFacts DEF CallsOK
      <4> QED
        BY <4>1, <4>2
    <3>2. CASE Lands(c)
      <4>1. PICK n \in call[c].late : Applies(c, n)
        BY <3>2 DEF Lands
      <4>2. n \in 0 .. MaxSends
        BY <1>1, CallType, WritesAssumption
      <4> QED
        BY <3>2, <4>1, <4>2 DEF Lands
    <3> QED
      BY <1>4, <3>1, <3>2
  <2>2. PICK n \in 0 .. MaxSends : Applies(c, n)
    BY <2>1
  <2>3. Wrote(c, n)
    BY <1>1, <2>2, AppliesWrites
  <2> QED
    BY <2>1, <2>3, WroteLabelled
<1>5. ASSUME NEW c \in Call, SendAnswered(c) \/ SendLost(c) \/ ConnectionBreaks(c) \/ Lands(c)
      PROVE  UNCHANGED labelled
  BY <1>5 DEF SendAnswered, SendLost, ConnectionBreaks, Lands
<1>6. ASSUME NEW c \in Call,
             \/ \E a \in Args : Begin(c, a)
             \/ LookUpDatatype(c) \/ ResolveLanguage(c) \/ ResolvePage(c) \/ SendRefused(c)
             \/ RereadTarget(c) \/ RereadCreate(c) \/ LostUpdateOfAddTool(c) \/ Retry(c)
             \/ Resolve(c) \/ Describe(c)
      PROVE  UNCHANGED wiki
  BY <1>6 DEF Begin, LookUpDatatype, ResolveLanguage, ResolvePage, SendRefused, RereadTarget, RereadCreate,
     LostUpdateOfAddTool, Retry, Resolve, Describe
<1>7. CASE Searched \/ ResolveFails
  BY <1>2, <1>7 DEF Searched, ResolveFails, wiki
<1>8. CASE UNCHANGED vars
  BY <1>2, <1>8 DEF vars
<1>9. CASE \E c \in Call : \/ \E a \in Args : Begin(c, a)
                           \/ LookUpDatatype(c) \/ ResolveLanguage(c) \/ ResolvePage(c) \/ SendRefused(c)
                           \/ RereadTarget(c) \/ RereadCreate(c) \/ LostUpdateOfAddTool(c) \/ Retry(c)
                           \/ Resolve(c) \/ Describe(c)
  BY <1>2, <1>6, <1>9 DEF wiki
<1>10. CASE \E c \in Call : SendAnswered(c) \/ SendLost(c) \/ ConnectionBreaks(c) \/ Lands(c)
  BY <1>2, <1>4, <1>5, <1>10
<1> QED
  BY <1>3, <1>7, <1>8, <1>9, <1>10 DEF Next

LEMMA WikiStep ==
    ASSUME TypeOK, [Next]_vars
    PROVE  /\ subject' \subseteq SubjectType
           /\ pageId' \in [Page -> Page \cup {None}]
           /\ labelled' \subseteq Item \X Role
           /\ others' \in 0 .. MaxOthers
<1>1. /\ item \in [Item -> Entity] /\ call \in [Call -> CallState] /\ subject \subseteq SubjectType
      /\ pageId \in [Page -> Page \cup {None}] /\ labelled \subseteq Item \X Role /\ others \in 0 .. MaxOthers
  BY DEF TypeOK, SubjectType
<1>2. CASE UNCHANGED wiki
  BY <1>1, <1>2 DEF wiki
<1>3. CASE Others
  <2>1. subject' = subject
    BY <1>3 DEF Others
  <2>2. others' \in 0 .. MaxOthers
    BY <1>1, <1>3, WritesAssumption DEF Others
  <2>3. pageId' \in [Page -> Page \cup {None}]
    BY <1>1, <1>3 DEF Others
  <2>4. labelled' \subseteq Item \X Role
    BY <1>1, <1>3 DEF Others, Live
  <2> QED
    BY <1>1, <2>1, <2>2, <2>3, <2>4
<1>4. ASSUME NEW c \in Call, SendAnswered(c) \/ SendLost(c) \/ ConnectionBreaks(c) \/ Lands(c)
      PROVE  UNCHANGED <<pageId, labelled, others>> /\ ((\E n : Applies(c, n)) \/ UNCHANGED subject)
  BY <1>4 DEF SendAnswered, SendLost, ConnectionBreaks, Lands
<1>5. CASE \E c \in Call : SendAnswered(c) \/ SendLost(c) \/ ConnectionBreaks(c) \/ Lands(c)
  BY <1>1, <1>4, <1>5, AppliesSubjects
<1>6. CASE \E c \in Call : \/ \E a \in Args : Begin(c, a)
                           \/ LookUpDatatype(c) \/ ResolveLanguage(c) \/ ResolvePage(c) \/ SendRefused(c)
                           \/ RereadTarget(c) \/ RereadCreate(c) \/ LostUpdateOfAddTool(c) \/ Retry(c)
                           \/ Resolve(c) \/ Describe(c)
  BY <1>2, <1>6 DEF Begin, LookUpDatatype, ResolveLanguage, ResolvePage, SendRefused, RereadTarget, RereadCreate,
     LostUpdateOfAddTool, Retry, Resolve, Describe
<1>7. CASE Searched \/ ResolveFails
  BY <1>2, <1>7 DEF Searched, ResolveFails
<1>8. CASE UNCHANGED vars
  BY <1>2, <1>8 DEF vars, wiki
<1> QED
  BY <1>3, <1>5, <1>6, <1>7, <1>8 DEF Next

VocabularyType == [state: {"none", "searching", "ready"}, found: [Role -> Item], missing: SUBSET Role]

Reported == \A r \in Role \ vocabulary.missing : <<vocabulary.found[r], r>> \in labelled
Waiting == \A c \in Call : call[c].pc = "fields" => vocabulary.state # "none"

LEMMA NoVocabularyFacts ==
    /\ NoVocabulary \in VocabularyType /\ NoVocabulary.state = "none"
    /\ NoVocabulary.missing = Role
BY WritesAssumption DEF NoVocabulary, VocabularyType

(* The cache, and what the IDs of it were labelled for. *)
LEMMA ReportedStep ==
    ASSUME CallsOK, LabelledOK, vocabulary \in VocabularyType, Reported, [Next]_vars
    PROVE  vocabulary' \in VocabularyType /\ Reported'
<1>1. labelled \subseteq labelled'
  <2>1. Others => labelled \subseteq labelled'
    BY DEF Others
  <2>2. \A c \in Call : SendAnswered(c) \/ SendLost(c) \/ ConnectionBreaks(c) \/ Lands(c) => UNCHANGED labelled
    BY DEF SendAnswered, SendLost, ConnectionBreaks, Lands
  <2>3. CASE \E c \in Call : \/ \E a \in Args : Begin(c, a)
                             \/ LookUpDatatype(c) \/ ResolveLanguage(c) \/ ResolvePage(c) \/ SendRefused(c)
                             \/ RereadTarget(c) \/ RereadCreate(c) \/ LostUpdateOfAddTool(c) \/ Retry(c)
                             \/ Resolve(c) \/ Describe(c)
    BY <2>3 DEF Begin, LookUpDatatype, ResolveLanguage, ResolvePage, SendRefused, RereadTarget, RereadCreate,
       LostUpdateOfAddTool, Retry, Resolve, Describe, wiki
  <2> QED
    BY <2>1, <2>2, <2>3 DEF Next, Searched, ResolveFails, vars, wiki
<1>2. CASE UNCHANGED vocabulary
  BY <1>1, <1>2 DEF Reported
<1>3. CASE ResolveFails
  BY <1>3, NoVocabularyFacts DEF ResolveFails, Reported
<1>4. ASSUME NEW c \in Call, Resolve(c), vocabulary.state = "none"
      PROVE  vocabulary' \in VocabularyType /\ Reported'
  <2> DEFINE m == {r \in Role : ~Verified(r)}
  <2>1. vocabulary' = [state |-> "searching", found |-> Default, missing |-> m] /\ UNCHANGED labelled
    BY <1>4 DEF Resolve, wiki
  <2>2. ASSUME NEW r \in Role \ m
        PROVE  <<Default[r], r>> \in labelled
    <3>1. Default[r] \in Item /\ r # None
      BY WritesAssumption
    <3> QED
      BY <2>2, <3>1 DEF Verified, LabelledOK
  <2>3. m \in SUBSET Role
    OBVIOUS
  <2> HIDE DEF m
  <2>4. vocabulary' \in VocabularyType /\ vocabulary'.found = Default /\ vocabulary'.missing = m
    BY <2>1, <2>3, WritesAssumption DEF VocabularyType
  <2> QED
    BY <2>1, <2>2, <2>4 DEF Reported
<1>5. CASE Searched
  <2> DEFINE old == vocabulary.missing
  <2>1. PICK hit \in [old -> Live \cup {None}] :
          /\ \A r \in old : hit[r] # None => item[hit[r]].role = r
          /\ vocabulary' =
               [state |-> "ready", missing |-> {r \in old : hit[r] = None},
                found |-> [r \in Role |-> IF r \in old /\ hit[r] # None THEN hit[r] ELSE vocabulary.found[r]]]
    BY <1>5 DEF Searched
  <2> DEFINE m == {r \in old : hit[r] = None}
             f == [r \in Role |-> IF r \in old /\ hit[r] # None THEN hit[r] ELSE vocabulary.found[r]]
  <2>2. old \in SUBSET Role /\ vocabulary.found \in [Role -> Item]
    BY DEF VocabularyType
  <2>3. UNCHANGED labelled
    BY <1>5 DEF Searched, wiki
  <2>4. \A i \in Live : i \in Item /\ item[i].live
    BY DEF Live
  <2>5. ASSUME NEW r \in Role
        PROVE  f[r] \in Item /\ (r \notin m => <<f[r], r>> \in labelled)
    <3>1. CASE r \in old /\ hit[r] # None
      <4>1. f[r] = hit[r] /\ hit[r] \in Live /\ item[hit[r]].role = r
        BY <2>1, <3>1
      <4> QED
        BY <2>4, <4>1, NoneApart DEF LabelledOK
    <3>2. CASE ~(r \in old /\ hit[r] # None)
      <4>1. f[r] = vocabulary.found[r] /\ (r \notin m => r \notin old)
        BY <3>2
      <4> QED
        BY <2>2, <4>1 DEF Reported
    <3> QED
      BY <3>1, <3>2
  <2>6. f \in [Role -> Item] /\ m \in SUBSET Role
    BY <2>2, <2>5
  <2>7. vocabulary' = [state |-> "ready", missing |-> m, found |-> f]
    BY <2>1
  <2> HIDE DEF f, m
  <2>8. vocabulary' \in VocabularyType /\ vocabulary'.found = f /\ vocabulary'.missing = m
    BY <2>6, <2>7 DEF VocabularyType
  <2> QED
    BY <2>3, <2>5, <2>8 DEF Reported
<1>6. ASSUME NEW c \in Call, Resolve(c)
      PROVE  vocabulary' \in VocabularyType /\ Reported'
  <2>1. vocabulary.state # "none" => UNCHANGED vocabulary
    BY <1>6 DEF Resolve
  <2> QED
    BY <1>2, <1>4, <1>6, <2>1
<1>7. CASE \E c \in Call : \/ \E a \in Args : Begin(c, a)
                           \/ LookUpDatatype(c) \/ ResolveLanguage(c) \/ ResolvePage(c) \/ SendRefused(c)
                           \/ SendAnswered(c) \/ SendLost(c) \/ ConnectionBreaks(c) \/ Lands(c)
                           \/ RereadTarget(c) \/ RereadCreate(c) \/ LostUpdateOfAddTool(c) \/ Retry(c)
                           \/ Describe(c)
  BY <1>2, <1>7 DEF Begin, LookUpDatatype, ResolveLanguage, ResolvePage, SendRefused, RereadTarget, RereadCreate,
     LostUpdateOfAddTool, Retry, SendAnswered, SendLost, ConnectionBreaks, Lands, Describe
<1>8. CASE Others \/ UNCHANGED vars
  BY <1>2, <1>8 DEF Others, vars
<1> QED
  BY <1>3, <1>5, <1>6, <1>7, <1>8 DEF Next

(* Only Resolve makes a call wait for the vocabulary. *)
Elsewhere == \A d \in Call : call'[d].pc = "fields" => call[d].pc = "fields"

LEMMA ElsewhereFacts ==
    ASSUME call \in [Call -> CallState], NEW c \in Call,
           NEW k \in CallState, k.pc # "fields", call' = [call EXCEPT ![c] = k]
    PROVE  Elsewhere
BY DEF Elsewhere

LEMMA EndsElsewhere ==
    ASSUME call \in [Call -> CallState], NEW c \in Call, NEW k \in CallState,
           NEW x, call' = [call EXCEPT ![c] = Answered(k, x)]
    PROVE  Elsewhere
<1>1. Answered(k, x).pc = "done"
  BY DEF Answered, CallState
<1> QED
  BY <1>1 DEF Elsewhere
LEMMA WaitingStep ==
    ASSUME CallsOK, Waiting, [Next]_vars
    PROVE  Waiting'
<1>1. call \in [Call -> CallState] /\ \A c \in Call : CallGood(call[c])
  BY DEF CallsOK
<1>2. ASSUME Elsewhere, UNCHANGED vocabulary
      PROVE  Waiting'
  BY <1>2 DEF Elsewhere, Waiting
<1>3. ASSUME NEW c \in Call, NEW a \in Args, Begin(c, a)
      PROVE  Elsewhere
  <2> DEFINE p == CASE a.tool = "add-statement" -> "datatype"
                    [] a.tool \in AddTool /\ a.language # None -> "language"
                    [] a.tool \in {"create-subject", "set-main-subject"} -> "page"
                    [] a.tool = "describe" -> "describe"
                    [] OTHER -> "send"
  <2>1. p # "fields"
    BY DEF AddTool
  <2>2. call' = [call EXCEPT ![c].args = a, ![c].pc = p]
    BY <1>3, Zenon DEF Begin
  <2> HIDE DEF p
  <2>3. [call[c] EXCEPT !.args = a, !.pc = p].pc = p
    BY <1>1 DEF CallState
  <2> QED
    BY <1>1, <2>1, <2>2, <2>3 DEF Elsewhere
<1>4. ASSUME NEW c \in Call, NEW x, Ends(c, x)
      PROVE  Elsewhere
  BY <1>1, <1>4, EndsElsewhere DEF Ends
<1>5. ASSUME NEW c \in Call, To(c, "send")
      PROVE  Elsewhere
  <2>1. [call[c] EXCEPT !.pc = "send"].pc = "send"
    BY <1>1 DEF CallState
  <2> QED
    BY <1>1, <1>5, <2>1 DEF To, Elsewhere
<1>6. ASSUME NEW c \in Call, ResolvePage(c)
      PROVE  Elsewhere
  <2>1. CASE Ends(c, "notFound")
    BY <1>4, <2>1
  <2> DEFINE q == pageId[call[c].args.link]
  <2>2. CASE call' = [call EXCEPT ![c].pc = "send", ![c].page = q]
    <3> HIDE DEF q
    <3>1. [call[c] EXCEPT !.pc = "send", !.page = q].pc = "send"
      BY <1>1 DEF CallState
    <3> QED
      BY <1>1, <2>2, <3>1 DEF Elsewhere
  <2> QED
    BY <1>6, <2>1, <2>2 DEF ResolvePage
<1>7. ASSUME NEW c \in Call, LookUpDatatype(c) \/ ResolveLanguage(c) \/ RereadCreate(c) \/ LostUpdateOfAddTool(c)
                             \/ Describe(c)
      PROVE  Elsewhere
  <2>1. (\E x : Ends(c, x)) \/ To(c, "send")
    BY <1>7 DEF LookUpDatatype, ResolveLanguage, RereadCreate, LostUpdateOfAddTool, Describe
  <2> QED
    BY <1>4, <1>5, <2>1
<1>8. ASSUME NEW c \in Call, Retry(c)
      PROVE  Elsewhere
  <2> DEFINE k == [call[c] EXCEPT !.pc = "send", !.answer = "none", !.seen = {}]
  <2>1. k.pc = "send" /\ call' = [call EXCEPT ![c] = k]
    BY <1>1, <1>8 DEF Retry, CallState
  <2> HIDE DEF k
  <2> QED
    BY <1>1, <2>1 DEF Elsewhere
<1>9. ASSUME NEW c \in Call, RereadTarget(c)
      PROVE  Elsewhere
  <2> DEFINE a == call[c].args
  <2>1. \E b \in SUBSET Part : \E v : call' = [call EXCEPT ![c] = Answered([call[c] EXCEPT !.seen = b], v)]
    <3>1. \E readable \in {FALSE} \cup {item[a.target].live} : \E v :
            call' = [call EXCEPT ![c] = Answered([call[c] EXCEPT !.seen =
                       IF readable THEN Held(a, item[a.target]) ELSE {}], v)]
      BY <1>9 DEF RereadTarget
    <3> QED
      BY <3>1, HeldType
  <2>2. PICK b \in SUBSET Part : \E v : call' = [call EXCEPT ![c] = Answered([call[c] EXCEPT !.seen = b], v)]
    BY <2>1
  <2>3. [call[c] EXCEPT !.seen = b] \in CallState
    BY <1>1 DEF CallState
  <2> QED
    BY <1>1, <2>2, <2>3, EndsElsewhere
<1>10. ASSUME NEW c \in Call, SendAnswered(c) \/ SendRefused(c) \/ SendLost(c)
       PROVE  Elsewhere
  <2>1. Sent(c) \in CallState
    BY <1>1, <1>10, SentFacts DEF SendAnswered, SendRefused, SendLost
  <2> DEFINE s == Sent(c)
  <2>2. \/ \E x : call' = [call EXCEPT ![c] = Answered(s, x)]
        \/ \E l \in BOOLEAN : \E x : call' = [call EXCEPT ![c] = Answered([s EXCEPT !.landed = l], x)]
        \/ \E l \in BOOLEAN : call' = [call EXCEPT ![c] = [[s EXCEPT !.landed = l] EXCEPT !.pc = "lost"]]
    <3>1. CASE SendAnswered(c) \/ SendRefused(c)
      BY <3>1 DEF SendAnswered, SendRefused
    <3>2. CASE SendLost(c)
      BY <3>2 DEF SendLost
    <3> QED
      BY <1>10, <3>1, <3>2
  <2> HIDE DEF s
  <2>3. \A l \in BOOLEAN : [s EXCEPT !.landed = l] \in CallState
    BY <2>1 DEF CallState, s
  <2>4. CASE \E l \in BOOLEAN : call' = [call EXCEPT ![c] = [[s EXCEPT !.landed = l] EXCEPT !.pc = "lost"]]
    <3>1. PICK l \in BOOLEAN : call' = [call EXCEPT ![c] = [[s EXCEPT !.landed = l] EXCEPT !.pc = "lost"]]
      BY <2>4
    <3>2. [[s EXCEPT !.landed = l] EXCEPT !.pc = "lost"].pc = "lost"
      BY <2>3 DEF CallState
    <3> QED
      BY <1>1, <3>1, <3>2 DEF Elsewhere
  <2> QED
    BY <1>1, <2>1, <2>2, <2>3, <2>4, EndsElsewhere DEF s
<1>16. ASSUME NEW c \in Call, ConnectionBreaks(c) \/ Lands(c)
       PROVE  Elsewhere
  <2>1. CASE ConnectionBreaks(c)
    <3>1. Sending(c) /\ Sent(c) \in CallState /\ Sent(c).pc = "send"
      BY <1>1, <2>1, SentFacts DEF ConnectionBreaks
    <3> DEFINE s == Sent(c)
    <3>2. \E b, l, y : call' = [call EXCEPT ![c] = [s EXCEPT !.broken = b, !.landed = l, !.late = y]]
      <4>1. PICK applied \in {FALSE} \cup {Accepts(c)} :
              call' = [call EXCEPT ![c] = [s EXCEPT !.broken = @ \cup {Now(c)}, !.landed = @ \/ applied,
                                                    !.late = IF applied THEN @ ELSE @ \cup {Now(c)}]]
        BY <2>1 DEF ConnectionBreaks
      <4> QED
        BY <4>1
    <3>3. PICK b, l, y : call' = [call EXCEPT ![c] = [s EXCEPT !.broken = b, !.landed = l, !.late = y]]
      BY <3>2
    <3> HIDE DEF s
    <3>4. [s EXCEPT !.broken = b, !.landed = l, !.late = y].pc = "send"
      BY <3>1 DEF CallState, s
    <3> QED
      BY <1>1, <3>3, <3>4 DEF Elsewhere
  <2>2. CASE Lands(c)
    <3>1. PICK n \in call[c].late : call' = [call EXCEPT ![c].late = @ \ {n}, ![c].landed = TRUE]
      BY <2>2 DEF Lands
    <3> DEFINE y == call[c].late \ {n}
    <3>2. call' = [call EXCEPT ![c] = [call[c] EXCEPT !.late = y, !.landed = TRUE]]
      BY <1>1, <3>1
    <3> HIDE DEF y
    <3>3. [call[c] EXCEPT !.late = y, !.landed = TRUE].pc = call[c].pc
      BY <1>1 DEF CallState
    <3> QED
      BY <1>1, <3>2, <3>3 DEF Elsewhere
  <2> QED
    BY <1>16, <2>1, <2>2
<1>11. CASE \E c \in Call : \/ \E a \in Args : Begin(c, a)
                            \/ LookUpDatatype(c) \/ ResolveLanguage(c) \/ ResolvePage(c) \/ SendRefused(c)
                            \/ SendAnswered(c) \/ SendLost(c) \/ ConnectionBreaks(c) \/ Lands(c)
                            \/ RereadTarget(c) \/ RereadCreate(c) \/ LostUpdateOfAddTool(c) \/ Retry(c)
                            \/ Describe(c)
  <2>1. Elsewhere
    BY <1>3, <1>6, <1>7, <1>8, <1>9, <1>10, <1>11, <1>16
  <2>2. UNCHANGED vocabulary
    BY <1>11 DEF Begin, LookUpDatatype, ResolveLanguage, ResolvePage, SendRefused, RereadTarget, RereadCreate,
       LostUpdateOfAddTool, Retry, SendAnswered, SendLost, ConnectionBreaks, Lands, Describe
  <2> QED
    BY <1>2, <2>1, <2>2
<1>12. CASE Others \/ UNCHANGED vars
  BY <1>12 DEF Others, vars, Waiting
<1>13. CASE Searched
  <2>1. vocabulary'.state = "ready"
    BY <1>13 DEF Searched
  <2> QED
    BY <2>1 DEF Waiting
<1>14. ASSUME NEW c \in Call, Resolve(c)
       PROVE  Waiting'
  <2>1. vocabulary'.state # "none"
    BY <1>14 DEF Resolve
  <2> QED
    BY <2>1 DEF Waiting
<1>15. CASE ResolveFails
  <2>1. \A c \in Call : call'[c] = IF call[c].pc = "fields" THEN Answered(call[c], "failed") ELSE call[c]
    BY <1>15 DEF ResolveFails
  <2>2. \A c \in Call : Answered(call[c], "failed").pc = "done"
    BY <1>1 DEF Answered, CallState
  <2> QED
    BY <2>1, <2>2 DEF Waiting
<1> QED
  BY <1>11, <1>12, <1>13, <1>14, <1>15 DEF Next

-----------------------------------------------------------------------------
(* The invariant holds at first *)

LEMMA InitHolds ==
    ASSUME Init
    PROVE  IInv
<1>1. PICK role \in [Item -> Role \cup {None}], label \in [name: {CHOOSE n \in Name : TRUE}, form: Form] :
        item = AtFirst(role, label)
  BY DEF Init
<1>2. label \in Label
  <2>1. (CHOOSE n \in Name : TRUE) \in Name
    BY WritesAssumption
  <2> QED
    BY <2>1 DEF Label
<1>3. ASSUME NEW i \in Item
      PROVE  item[i] \in Entity /\ item[i].by = None /\ item[i].claims = {}
  <2> DEFINE e == [Unused EXCEPT !.live = TRUE, !.role = role[i], !.label = label]
  <2>1. e \in Entity /\ e.by = None /\ e.claims = {}
    BY <1>2, UnusedFacts DEF Entity
  <2> HIDE DEF e
  <2>2. item[i] = e \/ item[i] = Unused
    BY <1>1 DEF e, AtFirst
  <2> QED
    BY <2>1, <2>2, UnusedFacts
<1>4. item \in [Item -> Entity]
  BY <1>1, <1>3 DEF AtFirst
<1>5. NewCall \in CallState /\ CallGood(NewCall)
  <2>1. NoArgs \in Argument
    BY ArgsFacts
  <2> QED
    BY <2>1, WritesAssumption DEF NewCall, CallState, CallGood, NoArgs
<1>6. call = [c \in Call |-> NewCall]
  BY DEF Init
<1>7. \A c \in Call : TwinsOK(c)
  BY <1>3, NoneApart DEF TwinsOK, ItemsOK, StatementsOK, NoItem, NoStatement, Mine
<1>8. CallsOK
  BY <1>4, <1>5, <1>6, <1>7 DEF CallsOK
<1>9. labelled = {<<i, item[i].role>> : i \in {j \in Live : item[j].role # None}}
  BY DEF Init
<1>10. LabelledOK
  BY <1>9 DEF LabelledOK, Live
<1>11. labelled \subseteq Item \X Role
  BY <1>3, <1>9, EntityType DEF Live
<1>12. vocabulary = NoVocabulary /\ subject = {} /\ pageId = [p \in Page |-> p] /\ others = 0
  BY DEF Init
<1>13. Reported /\ vocabulary \in VocabularyType
  BY <1>12, NoVocabularyFacts DEF Reported
<1>14. Waiting
  BY <1>6 DEF Waiting, NewCall
<1>15. TypeOK
  BY <1>4, <1>5, <1>6, <1>11, <1>12, <1>13, WritesAssumption DEF TypeOK, VocabularyType
<1> QED
  BY <1>8, <1>10, <1>13, <1>14, <1>15 DEF IInv, VocabularyIsTheWikis, Reported, Waiting

LEMMA StepHolds ==
    ASSUME IInv, [Next]_vars
    PROVE  IInv'
<1>1. CallsOK /\ LabelledOK /\ Reported /\ Waiting /\ TypeOK /\ vocabulary \in VocabularyType
      /\ pageId \in [Page -> Page \cup {None}]
  BY DEF IInv, TypeOK, VocabularyIsTheWikis, Reported, Waiting, VocabularyType
<1>2. CallsOK' /\ LabelledOK' /\ Waiting'
  BY <1>1, CallsStep, LabelledStep, WaitingStep
<1>3. Reported' /\ vocabulary' \in VocabularyType
  BY <1>1, ReportedStep
<1>4. TypeOK'
  BY <1>1, <1>2, <1>3, WikiStep DEF TypeOK, CallsOK, VocabularyType, SubjectType
<1> QED
  BY <1>2, <1>3, <1>4 DEF IInv, VocabularyIsTheWikis, Reported, Waiting

(* The inductive invariant: a call that may still be sent has left nothing     *)
(* that sending it again would double (lostEditEntityUpdateResult and its like). *)
THEOREM Invariant == Spec => []IInv
BY InitHolds, StepHolds, PTL DEF Spec

-----------------------------------------------------------------------------
(* The theorems *)

(* Every call, item, subject and page keeps its type: a write that the wiki   *)
(* applies (buildEntityData, the add tools' records) yields an item again.    *)
THEOREM TypeCorrect == Spec => []TypeOK
<1>1. IInv => TypeOK
  BY DEF IInv
<1> QED
  BY <1>1, Invariant, PTL

(* embeddable-describe-entity-type reports no ID that its wiki did not label   *)
(* for the role without listing the role as unresolved, and a call that waits  *)
(* shares a resolution that runs or is done (resolveVocabulary, resolveByIds,  *)
(* searchExactLabel).                                                          *)
THEOREM VocabularyIsTheWikisHolds == Spec => []VocabularyIsTheWikis
<1>1. IInv => VocabularyIsTheWikis
  BY DEF IInv
<1> QED
  BY <1>1, Invariant, PTL

(* A write that answers success was applied, or what it was to write was      *)
(* there when the wiki was read again, but for the parts that an update never *)
(* compares (lostEditEntityUpdateResult, lostAddStatementResult,              *)
(* lostSetSitelinkResult, collectTermChecks).                                 *)
THEOREM SuccessIsTrueHolds == Spec => []SuccessIsTrue
<1>1. IInv => SuccessIsTrue
  BY DEF IInv, CallsOK, CallGood, SuccessIsTrue
<1> QED
  BY <1>1, Invariant, PTL

(* A set whose members are all equal has at most one of them. *)
LEMMA OneAtMost ==
    ASSUME NEW S, \A x, y \in S : x = y
    PROVE  ~(Cardinality(S) > 1)
<1>1. CASE S = {}
  BY <1>1, FS_EmptySet
<1>2. CASE S # {}
  <2>1. PICK x \in S : S = {x}
    BY <1>2
  <2> QED
    BY <2>1, FS_Singleton
<1> QED
  BY <1>1, <1>2

(* A Wikibase call that is repeated because its answer said that it may be     *)
(* leaves one item and one statement at the most, besides those of sendings    *)
(* that the client made again by itself, however many calls, broken            *)
(* connections, late arrivals, changes by others and repetitions there are     *)
(* (wikibaseWriteOutcome).  Claims keyed by property are excepted.             *)
THEOREM RetryMakesNoTwinHolds == Spec => []RetryMakesNoTwin
<1>1. IInv => RetryMakesNoTwin
  <2> SUFFICES ASSUME IInv, NEW c \in Call, call[c].args.tool \in EntityTool, ~call[c].args.odd
               PROVE  ~Twins(c)
    BY DEF RetryMakesNoTwin
  <2>1. ItemsOK(c) /\ StatementsOK(c)
    BY DEF IInv, CallsOK, TwinsOK, Counted
  <2>2. ~(Cardinality(ItemsOf(c)) > 1)
    <3>1. \A i, j \in ItemsOf(c) : i = j
      BY <2>1 DEF ItemsOK, ItemsOf, Live
    <3> QED
      BY <3>1, OneAtMost
  <2>3. ASSUME NEW i \in Live
        PROVE  ~(Cardinality(StatementsOf(c, i)) > 1)
    <3>1. \A s, t \in StatementsOf(c, i) : s = t
      BY <2>1 DEF StatementsOK, StatementsOf, Live
    <3> QED
      BY <3>1, OneAtMost
  <2> QED
    BY <2>2, <2>3 DEF Twins
<1> QED
  BY <1>1, Invariant, PTL

===============================================================================
