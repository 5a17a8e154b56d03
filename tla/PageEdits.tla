------------------------------ MODULE PageEdits -------------------------------
(***************************************************************************)
(* The edits of one wiki page: update-page with its guards, create-page,   *)
(* move-page, delete-page, undelete-page and protect-page, each a few      *)
(* requests between which others edit the page.                            *)
(*                                                                         *)
(* A page is its revisions; a revision is a sequence of sections, first    *)
(* the lead.  A section has a heading level (0 for the lead) and a body, a *)
(* sequence of pieces of text.  A piece may be a template call that shows   *)
(* headings: the outline of a page has them too, but they are no sections   *)
(* of it.  The wiki's own part (which revision a      *)
(* section number is resolved against, the merge of an edit based on an    *)
(* older revision) is external, as the code relies on it.                  *)
(***************************************************************************)
EXTENDS Integers, SequencesExt

CONSTANTS
    Call,       \* tool calls
    Piece,      \* pieces of text
    Shows,      \* the levels of the headings a piece transcludes
    First,      \* the first revision
    Source,     \* the sources a caller writes: sequences of sections
    Cap,        \* contentMaxBytes, in pieces
    Width,      \* bound: the pieces of a body, the sections of a page
    MaxRevs,    \* bound: revisions of the page
    Tool        \* the tools that are called, and "other" for other editors

Level == {0, 2, 3}
Section == [level: Level, body: Seq(Piece)]
Content == Seq(Section)

(* What stands before the first heading comes first. *)
LeadFirst(c) == \A i \in 2 .. Len(c) : c[i].level # 0

ASSUME EditAssumption ==
    /\ Cap \in Nat /\ Width \in Nat /\ MaxRevs \in Nat \ {0}
    /\ Shows \in [Piece -> SUBSET {2, 3}]
    /\ First \in Content \ {<<>>} /\ First[1].level = 0 /\ LeadFirst(First)
    /\ Source \subseteq Content \ {<<>>} /\ \A src \in Source : LeadFirst(src)
    /\ Tool \subseteq {"update", "create", "move", "delete", "protect", "other"}

VARIABLES
    revs,       \* the revisions of the page, oldest first; empty: it was never created
    deleted,    \* the page is deleted, its revisions kept
    protection, \* its own protection: per action, a level
    moved,      \* it has been moved away (a redirect may stay)
    call        \* the calls

editVars == <<revs, deleted, protection, moved, call>>

-----------------------------------------------------------------------------
(* The text of a page *)

Exists == revs # <<>> /\ ~deleted /\ ~moved
Rev == Len(revs)
Current == revs[Rev]

(* Revision r, or the current one when the caller named none (0). *)
At(r) == IF r = 0 THEN Current ELSE revs[r]

Bytes(c) == FoldLeft(LAMBDA n, s : n + Len(s.body) + (IF s.level = 0 THEN 0 ELSE 1), 0, c)

(* The last section of the subtree of section i of c, which the wiki        *)
(* replaces with it (Parser::extractSections): deeper headings, up to the   *)
(* first that is not deeper.  The lead has none.                            *)
SubtreeEnd(c, i) ==
    CHOOSE j \in i .. Len(c) :
      /\ c[i].level > 0 => \A k \in i + 1 .. j : c[k].level > c[i].level
      /\ c[i].level = 0 => j = i
      /\ j = Len(c) \/ c[i].level = 0 \/ c[j + 1].level <= c[i].level

(* The outline the code reads holds the transcluded headings too, behind    *)
(* the heading whose text shows them; childrenOf stops at them like at any  *)
(* other.  The subsections of i it finds, of those it can edit.             *)
Closes(c, i, k) == \E p \in Range(c[k].body) : \E level \in Shows[p] : level <= c[i].level

Children(c, i) == {k \in i + 1 .. SubtreeEnd(c, i) : \A h \in i .. k - 1 : ~Closes(c, i, h)}

(* A transcluded heading ends the list before the subtree ends. *)
Veiled(c, i) == \E h \in i .. SubtreeEnd(c, i) - 1 : Closes(c, i, h)

(* What a section number stands for: pieces i to j of c; 0 is the lead. *)
Span(c, section) == <<section + 1, SubtreeEnd(c, section + 1)>>
HasSection(c, section) == section + 1 \in 1 .. Len(c)

(* Text before the first heading of src joins the section it lands behind.  *)
Join(c, src) ==
    IF c = <<>> \/ src = <<>> \/ Head(src).level # 0 THEN c \o src
    ELSE Front(c) \o <<[Last(c) EXCEPT !.body = @ \o Head(src).body]>> \o Tail(src)

Spliced(c, i, j, src) == Join(Join(SubSeq(c, 1, i - 1), src), SubSeq(c, j + 1, Len(c)))

(* A page always has a lead, if only an empty one. *)
Saved(c) == IF c = <<>> \/ Head(c).level # 0 THEN <<[level |-> 0, body |-> <<>>]>> \o c ELSE c

(* The occurrences of a piece: places <<section, offset>>. *)
Occurrences(c, p) == {at \in (1 .. Len(c)) \X (1 .. Width) :
                        at[2] <= Len(c[at[1]].body) /\ c[at[1]].body[at[2]] = p}

Scope(c, section) ==
    IF section = -1 THEN c ELSE SubSeq(c, Span(c, section)[1], Span(c, section)[2])

-----------------------------------------------------------------------------
(* External: the wiki *)

(* An edit puts src in place of sections i to j of base.  When the page has *)
(* changed since, the wiki merges if those sections are still there, and    *)
(* may always answer with an edit conflict.                                 *)
Places(base, i, j, now) ==
    {k \in 1 .. Len(now) : k + (j - i) <= Len(now) /\ SubSeq(now, k, k + (j - i)) = SubSeq(base, i, j)}

Merges(base, i, j, src, now) ==
    IF base = now THEN {Spliced(base, i, j, src)}
    ELSE {<<>>} \cup {Spliced(now, k, k + (j - i), src) : k \in Places(base, i, j, now)}

Save(c) == revs' = Append(revs, Saved(c))
Room == Rev < MaxRevs

-----------------------------------------------------------------------------
(* update-page *)

Operation == {"replace", "append", "prepend", "find-replace"}

NoArgs == [op |-> "replace", section |-> -1, latestId |-> 0, source |-> <<>>,
           find |-> CHOOSE p \in Piece : TRUE, with |-> <<>>,
           shorten |-> FALSE, prune |-> FALSE]   \* removeUnreadContent, removeSubsections

(* writePlan: what is refused before the wiki is asked.  (Fields an operation *)
(* needs or does not take are left out: a call here has those it needs.)      *)
PlanRefuses(a) ==
    \/ a.op = "replace" /\ a.section > 0 /\ a.latestId = 0
    \/ a.op \in {"append", "prepend"} /\ (a.shorten \/ a.prune)
    \/ a.op = "replace" /\ a.prune /\ a.section = -1

(* unreadContentError: a target no read returns whole is not shortened. *)
UnreadRefuses(a) ==
    /\ ~a.shorten /\ Exists /\ Bytes(Current) > Cap
    /\ IF a.section = -1
       THEN Bytes(a.source) < Bytes(Current)
       ELSE /\ HasSection(At(a.latestId), a.section)
            /\ Bytes(Scope(At(a.latestId), a.section)) > Cap
            /\ Bytes(a.source) < Bytes(Scope(At(a.latestId), a.section))

(* Mutant of Judged: the outline is read as it is now. *)
JudgedNow(a) == Current

(* sections.list: the outline the guards read, at the revision the write   *)
(* resolves its section number against.                                    *)
Judged(a) == At(a.latestId)

(* sectionHeadingError: the source starts with a heading of the section's   *)
(* level and brings no sibling of it.                                       *)
HeadingRefuses(a) ==
    /\ a.section > 0 /\ HasSection(Judged(a), a.section)
    /\ LET level == Judged(a)[a.section + 1].level IN
       \/ a.source[1].level # level
       \/ \E i \in 2 .. Len(a.source) : a.source[i].level <= level

(* subsectionRemovalError: headings are counted, a rename passes. *)
RemovalRefuses(a) ==
    /\ a.section > 0 /\ ~a.prune /\ HasSection(Judged(a), a.section)
    /\ LET children == Children(Judged(a), a.section + 1)
           level == Judged(a)[a.section + 1].level
       IN  Cardinality({i \in 1 .. Len(a.source) : a.source[i].level > level})
             < Cardinality(children)

Action == {"edit", "move"}
Unprotected == [a \in Action |-> 0]

NewCall == [pc |-> "new", args |-> NoArgs, base |-> 0, read |-> 0, text |-> <<>>, named |-> "edit",
            kept |-> Unprotected, answer |-> "none"]

Ends(c, answer) == call' = [call EXCEPT ![c].pc = "done", ![c].answer = answer]

(* A call of update-page; latestId is a revision the caller has read. *)
Update(c, a) ==
    /\ "update" \in Tool /\ call[c].pc = "new" /\ a.latestId <= Rev
    /\ IF PlanRefuses(a) THEN Ends(c, "invalid")
       ELSE call' = [call EXCEPT ![c].args = a, ![c].pc =
                       CASE a.op = "find-replace" -> "find"
                         [] a.op = "replace" -> "unread"
                         [] OTHER -> "submit"]
    /\ UNCHANGED <<revs, deleted, protection, moved>>

(* The three guards of a replace, each a read of the wiki; the outline of a *)
(* page that is gone cannot be read.                                        *)
Guarded(c, pc, next, missing, refuses) ==
    /\ call[c].pc = pc
    /\ IF missing THEN Ends(c, "notFound")
       ELSE IF refuses THEN Ends(c, "invalid")
       ELSE call' = [call EXCEPT ![c].pc = next]
    /\ UNCHANGED <<revs, deleted, protection, moved>>

OutlineGone(a) == a.section > 0 /\ ~Exists

GuardUnread(c) == LET a == call[c].args IN
    Guarded(c, "unread", "heading", FALSE, UnreadRefuses(a))
GuardHeading(c) == LET a == call[c].args IN
    Guarded(c, "heading", "removal", OutlineGone(a), ~OutlineGone(a) /\ HeadingRefuses(a))
GuardRemoval(c) == LET a == call[c].args IN
    Guarded(c, "removal", "submit", OutlineGone(a) /\ ~a.prune, ~OutlineGone(a) /\ RemovalRefuses(a))

(* Mutant of Splice: the edit names no base revision. *)
SpliceUnbased(c) ==
    LET a == call[c].args  found == Occurrences(Scope(Current, a.section), a.find) IN
    /\ call[c].pc = "find" /\ Exists
    /\ a.section = -1 \/ HasSection(Current, a.section)
    /\ \E at \in found :
         /\ found = {at}
         /\ call' = [call EXCEPT ![c].pc = "submitSplice", ![c].base = 0, ![c].read = Rev, ![c].text =
              [Scope(Current, a.section) EXCEPT ![at[1]].body =
                 SubSeq(@, 1, at[2] - 1) \o a.with \o SubSeq(@, at[2] + 1, Len(@))]]
    /\ UNCHANGED <<revs, deleted, protection, moved>>

(* findReplaceSplice: the text is read, and the one occurrence replaced.    *)
Splice(c) ==
    LET a == call[c].args  found == Occurrences(Scope(Current, a.section), a.find) IN
    /\ call[c].pc = "find" /\ Exists
    /\ a.section = -1 \/ HasSection(Current, a.section)
    /\ a.latestId \in {0, Rev}
    /\ \E at \in found :
         /\ found = {at}
         /\ call' = [call EXCEPT ![c].pc = "submitSplice", ![c].base = Rev, ![c].read = Rev, ![c].text =
              [Scope(Current, a.section) EXCEPT ![at[1]].body =
                 SubSeq(@, 1, at[2] - 1) \o a.with \o SubSeq(@, at[2] + 1, Len(@))]]
    /\ UNCHANGED <<revs, deleted, protection, moved>>

(* Its refusals: no page, no such section, another revision, no occurrence  *)
(* or several.                                                              *)
SpliceRefused(c) ==
    LET a == call[c].args IN
    /\ call[c].pc = "find"
    /\ IF ~Exists \/ (a.section # -1 /\ ~HasSection(Current, a.section)) THEN Ends(c, "notFound")
       ELSE IF a.latestId \notin {0, Rev} THEN Ends(c, "conflict")
       ELSE Cardinality(Occurrences(Scope(Current, a.section), a.find)) # 1 /\ Ends(c, "invalid")
    /\ UNCHANGED <<revs, deleted, protection, moved>>

(* action=edit with nocreate (submitPageEdit): text replaces the section of *)
(* the base revision; appended text goes to the page as it is.              *)
Submit(c, base, op, src) ==
    LET section == call[c].args.section
        from == IF op = "replace" THEN At(base) ELSE Current
        span == IF section = -1 THEN <<1, Len(from)>> ELSE Span(from, section)
    IN
    IF ~Exists \/ (section # -1 /\ ~HasSection(from, section))
    THEN Ends(c, "notFound") /\ UNCHANGED revs
    ELSE \E text \in CASE op = "append" -> {Spliced(from, span[2] + 1, span[2], src)}
                       [] op = "prepend" -> {Spliced(from, span[1], span[1] - 1, src)}
                       [] OTHER -> Merges(from, span[1], span[2], src, Current) :
           IF text = <<>> THEN Ends(c, "conflict") /\ UNCHANGED revs
           ELSE Room /\ Save(text) /\ Ends(c, "ok")

SubmitUpdate(c) ==
    /\ \/ call[c].pc = "submit" /\ Submit(c, call[c].args.latestId, call[c].args.op, call[c].args.source)
       \/ call[c].pc = "submitSplice" /\ Submit(c, call[c].base, "replace", call[c].text)
    /\ UNCHANGED <<deleted, protection, moved>>

-----------------------------------------------------------------------------
(* The other page tools *)

Begin(c, tool) ==
    /\ tool \in Tool /\ call[c].pc = "new"
    /\ call' = [call EXCEPT ![c].pc = tool]
    /\ UNCHANGED <<revs, deleted, protection, moved>>

(* create-page: createonly.  Bound: a deleted title is not created again,   *)
(* and a moved one keeps its redirect.                                      *)
Create(c, src) ==
    /\ call[c].pc = "create" /\ ~deleted
    /\ IF revs # <<>> THEN Ends(c, "invalid") /\ UNCHANGED revs
       ELSE Save(src) /\ Ends(c, "ok")
    /\ UNCHANGED <<deleted, protection, moved>>

(* move-page: the title is free or a redirect afterwards. *)
Move(c) ==
    /\ call[c].pc = "move"
    /\ IF Exists THEN moved' = TRUE /\ Ends(c, "ok") ELSE UNCHANGED moved /\ Ends(c, "notFound")
    /\ UNCHANGED <<revs, deleted, protection>>

(* delete-page, or undelete-page when it is deleted. *)
Delete(c) ==
    /\ call[c].pc = "delete"
    /\ IF revs = <<>> \/ moved THEN UNCHANGED deleted /\ Ends(c, "notFound")
       ELSE deleted' = ~deleted /\ Ends(c, "ok")
    /\ UNCHANGED <<revs, protection, moved>>

(* protect-page reads the protection in force, since the wiki lifts what a  *)
(* request does not name: what the call leaves out is sent again.  The call *)
(* names one action.                                                        *)
ReadProtection(c, named) ==
    /\ call[c].pc = "protect"
    /\ call' = [call EXCEPT ![c].pc = "submitProtect", ![c].named = named,
                            ![c].kept = [protection EXCEPT ![named] = 0]]
    /\ UNCHANGED <<revs, deleted, protection, moved>>

SubmitProtect(c, level) ==
    /\ call[c].pc = "submitProtect"
    /\ protection' = [call[c].kept EXCEPT ![call[c].named] = level]
    /\ Ends(c, "ok")
    /\ UNCHANGED <<revs, deleted, moved>>

(* Somebody else adds a section at the top or a piece to a body. *)
OtherEdits(i, p) ==
    /\ "other" \in Tool /\ Exists /\ Room /\ i \in 1 .. Len(Current)
    /\ \/ Save([Current EXCEPT ![i].body = Append(@, p)])
       \/ Save(Spliced(Current, i + 1, i, <<[level |-> 2, body |-> <<p>>]>>))
    /\ UNCHANGED <<deleted, protection, moved, call>>

-----------------------------------------------------------------------------
Args ==
    LET Every == [op: Operation, section: -1 .. Len(First), latestId: 0 .. MaxRevs,
                source: Source \cup {NoArgs.source}, find: Piece, with: {<<>>} \cup [1 .. 2 -> Piece],
                shorten: BOOLEAN, prune: BOOLEAN]
    IN  {a \in Every : IF a.op = "find-replace"
                     THEN a.source = NoArgs.source /\ ~a.shorten /\ ~a.prune
                     ELSE a.source \in Source /\ a.find = NoArgs.find /\ a.with = NoArgs.with}

EditInit ==
    /\ revs \in {<<>>, <<First>>}
    /\ deleted = FALSE
    /\ protection = Unprotected
    /\ moved = FALSE
    /\ call = [c \in Call |-> NewCall]

EditNext ==
    \/ \E c \in Call :
         \/ \E a \in Args : Update(c, a)
         \/ GuardUnread(c) \/ GuardHeading(c) \/ GuardRemoval(c)
         \/ Splice(c) \/ SpliceRefused(c) \/ SubmitUpdate(c)
         \/ \E tool \in {"create", "move", "delete", "protect"} : Begin(c, tool)
         \/ \E src \in Source : Create(c, src)
         \/ Move(c) \/ Delete(c)
         \/ \E a \in Action : ReadProtection(c, a)
         \/ \E level \in {0, 1} : SubmitProtect(c, level)
    \/ \E i \in 1 .. Width, p \in Piece : OtherEdits(i, p)

EditSpec == EditInit /\ [][EditNext]_editVars

-----------------------------------------------------------------------------
(* Properties *)

(* Type correctness; a revision has one lead, in front. *)
EditTypeOK ==
    /\ \A r \in 1 .. Rev : /\ revs[r] # <<>> /\ \A i \in 1 .. Len(revs[r]) :
                                revs[r][i] \in Section /\ (revs[r][i].level = 0 <=> i = 1)
    /\ deleted \in BOOLEAN /\ moved \in BOOLEAN
    /\ protection \in [Action -> 0 .. 1]
    /\ \A c \in Call : call[c].base \in 0 .. MaxRevs /\ call[c].kept \in [Action -> 0 .. 1]

(* The step in which an edit of c that replaces text is saved. *)
Replaces(c) ==
    /\ call[c].pc \in {"submit", "submitSplice"} /\ call[c].args.op \in {"replace", "find-replace"}
    /\ call'[c].answer = "ok"

(* An edit that names the revision it is based on, or that reads one itself, *)
(* never takes out what others have written since: each section that is not  *)
(* in that revision is there afterwards, possibly longer (baserevid in       *)
(* buildEditParams and findReplace).                                         *)
NothingOthersWroteIsLost ==
    [][\A c \in Call :
         LET args == call[c].args
             base == IF args.op = "find-replace" THEN call[c].read ELSE args.latestId
         IN  Replaces(c) /\ base # 0 =>
               \A s \in Range(Current) \ Range(revs[base]) : \E t \in Range(Last(revs')) :
                 t.level = s.level /\ IsPrefix(s.body, t.body)]_editVars

(* Replacing a section without leave to prune leaves the page exactly the    *)
(* headings it had of the section's level or above, and no fewer headings in *)
(* all, also when the page has changed since its outline was read            *)
(* (sectionHeadingGuard, subsectionGuard).  The second is not so where a     *)
(* transcluded heading veils a subsection: the guard does not count what     *)
(* stands behind it, and the subsection goes.                                *)
OutlineKept ==
    [][\A c \in Call :
         LET args == call[c].args
             outer(page) == {i \in 1 .. Len(page) :
                               page[i].level <= revs[args.latestId][args.section + 1].level}
         IN  Replaces(c) /\ args.op = "replace" /\ args.section > 0 /\ ~args.prune =>
               /\ \/ Veiled(revs[args.latestId], args.section + 1)
                  \/ Len(Last(revs')) >= Len(Current)
               /\ Cardinality(outer(Last(revs'))) = Cardinality(outer(Current))]_editVars

===============================================================================
