------------------------------ MODULE ResultPages ------------------------------
(***************************************************************************)
(* A caller who reads all of something that does not fit one answer, by     *)
(* following what each answer says of the rest: rows from an offset, a      *)
(* cursor of the wiki's, revisions from a boundary, the pages left out, the *)
(* sections of a page, the properties of an entity, the forms of a file.    *)
(* Others add to what is read meanwhile.                                    *)
(*                                                                         *)
(* One action is one tool call with the caller's reaction to its answer.    *)
(***************************************************************************)
EXTENDS Truncation

CONSTANTS
    Tools,        \* the tools called
    ListsOf(_),   \* tool -> the lists a wiki can have: sequences of rows
    Limits,       \* the numbers of rows a caller asks for
    Titles,       \* the titles asked for at once: sequences
    Aliases,      \* what the titles of a wiki are aliases of: functions
    FirstAdded,   \* the ids of the rows that were there are lower
    MaxAdds       \* bound: rows others add while the list is read

\* A revision is listed when it has the tag asked for, a heading when it is one of the
\* page itself and not of a template; number is the title, where that is a number.
Row == [id: Nat, size: Nat, listed: BOOLEAN, level: Nat, via: SUBSET Nat, number: Nat]

VARIABLES
    tool, rows,
    wanted,     \* what was there when reading began
    request,    \* arguments of the next call; asked: the positions of its titles
    todo,       \* sections, or properties, still to be read on their own
    got, beyond,  \* what was delivered whole; what an answer said it could not deliver
    unsaid,       \* history: what answers passed over without a word
    phase

readVars == <<tool, rows, wanted, request, todo, got, beyond, unsaid, phase>>

OffsetTools  == {"cargo-query", "bucket-query", "smw-query", "smw-list-properties", "wikibase-query"}
CursorTools  == {"get-links-here", "get-category-members", "get-recent-changes"}
MatchTools   == {"search-page", "search-page-by-prefix", "wikibase-search-entities"}

None == 0            \* no cursor: also the first offset
Malformed == -1      \* a continueFrom that no answer issued

ASSUME ReadingAssumption ==
    /\ Limits \subseteq Nat \ {0} /\ \E most \in Limits : \A limit \in Limits : limit <= most
    /\ FirstAdded \in Nat \ {0}
    /\ Titles \subseteq Seq(Nat)
    /\ \A t \in Tools : \A list \in ListsOf(t) :
          /\ list \in Seq(Row)
          /\ \A i \in DOMAIN list :
                /\ list[i].id < FirstAdded
                /\ \A j \in DOMAIN list :
                      (list[i].id = list[j].id \/ (list[i].number # 0 /\ list[i].number = list[j].number)) => i = j
                /\ t # "get-page" => list[i].id > 0
                /\ t = "wikibase-get-entity" => list[i].id = i
          /\ t = "get-page" => list # <<>> /\ list[1].id = 0 /\ list[1].listed    \* the lead

Ids(seq) == {seq[i].id : i \in DOMAIN seq}
OwnIds(seq) == {seq[i].id : i \in {j \in DOMAIN seq : seq[j].listed}}
At(id) == CHOOSE i \in DOMAIN rows : rows[i].id = id
Take(seq, n) == SubSeq(seq, 1, AtMost(n, Len(seq)))
Drop(seq, n) == SubSeq(seq, n + 1, Len(seq))

\* Asking for fewer columns makes every row smaller.
Size(row) == IF request.narrowed THEN (row.size + 1) \div 2 ELSE row.size
Sizes(seq) == [i \in DOMAIN seq |-> Size(seq[i])]

\* The rest of a list, from the row a cursor names on.
From(seq, id) == IF id = None THEN seq ELSE Drop(seq, At(id) - 1)

\* A history lists its newest revision first: what is read after position j.
Later(i, j) == IF request.newer THEN i < j ELSE i > j

\* The revisions with the tag asked for, from the boundary on.
Matching ==
    {i \in DOMAIN rows : /\ rows[i].listed
                         /\ request.cursor # None =>
                              rows[i].id = request.cursor \/ Later(i, At(request.cursor))}

FirstOf(positions, n) ==
    {i \in positions : Cardinality({j \in positions : Later(i, j)}) < n}
ButBoundary(positions) == {i \in positions : rows[i].id # request.cursor}

\* A title is an alias of another, or of itself: it is normalised, and then redirected.
ResolveChain(t) == request.alias[request.alias[t]]

\* What a section begun with has to give: its own headings down to the first that is not
\* deeper; the lead stands alone, and -1 is the whole page.
SubtreeOf(i) ==
    {j \in i + 1 .. Len(rows) : \A k \in i + 1 .. j : rows[k].listed => rows[k].level > rows[i].level}

\* The text of a section is its own and that of its children.
PartsOf(section) ==
    CASE section = -1 -> rows
      [] section = 0 -> <<rows[1]>>
      [] OTHER -> SubSeq(rows, At(section), At(section) + Cardinality(SubtreeOf(At(section))))

Wanted ==
    CASE tool = "get-page" -> UNION {OwnIds(PartsOf(section)) : section \in todo}
      [] tool = "get-page-history" -> {rows[i].id : i \in ButBoundary(Matching)}
      [] tool = "get-pages" -> Range(request.titles)
      [] tool = "get-links-here" -> Ids(rows) \cup UNION {rows[i].via : i \in DOMAIN rows}
      [] tool = "get-file-content" -> SelectForms(request.format, request.file.mime)
      [] OTHER -> Ids(rows)

\* A first call.  A history is begun at either end or at any revision, tagged or not; a
\* search for entities is for labels that begin with, or that contain, the text.
Requests ==
    [limit    : IF tool \in OffsetTools \cup CursorTools \cup MatchTools \cup {"get-page-history"}
                THEN Limits ELSE {Max(Limits)},
     narrowed : {FALSE},
     cursor   : CASE tool \in OffsetTools -> {None, Malformed}
                  [] tool = "get-page-history" -> {None} \cup Ids(rows)
                  [] OTHER -> {None},
     newer    : IF tool = "get-page-history" THEN BOOLEAN ELSE {FALSE},
     contains : IF tool = "wikibase-search-entities" THEN BOOLEAN ELSE {FALSE},
     titles   : IF tool = "get-pages" THEN Titles ELSE {<<>>},
     alias    : IF tool = "get-pages" THEN Aliases ELSE {<<>>},
     format   : IF tool = "get-file-content" THEN Formats ELSE {"auto"},
     file     : IF tool = "get-file-content"
                THEN [mime : Mimes, renders : BOOLEAN, extracts : BOOLEAN, fits : BOOLEAN, long : BOOLEAN]
                ELSE {[mime |-> "other"]}]

\* A first request asks for all of its titles.
Asking(first) ==
    [limit |-> first.limit, narrowed |-> first.narrowed, cursor |-> first.cursor, newer |-> first.newer,
     contains |-> first.contains, titles |-> first.titles, asked |-> DOMAIN first.titles,
     alias |-> first.alias, format |-> first.format, file |-> first.file]

ReadInit ==
    /\ tool \in Tools
    /\ rows \in ListsOf(tool)
    /\ \E first \in Requests : /\ first.newer => first.cursor # None
                              /\ request = Asking(first)
    /\ todo \in CASE tool = "get-page" -> {{section} : section \in {-1} \cup OwnIds(rows)}
                  [] tool = "wikibase-get-entity" -> {{0}}
                  [] OTHER -> {{}}
    /\ wanted = Wanted
    /\ got = {} /\ beyond = {} /\ unsaid = {}
    /\ phase = "reading"

--------------------------------------------------------------------------------
\* offsetFrom refuses a cursor it never issued.
Malformation == tool \in OffsetTools /\ request.cursor = Malformed

\* A wiki without a query service cannot be searched for what labels contain.
Refuse ==
    /\ phase = "reading" /\ (Malformation \/ request.contains)
    /\ phase' = "refused"
    /\ UNCHANGED <<tool, rows, wanted, request, todo, got, beyond, unsaid>>

\* What every call leaves alone, and how the caller goes on at a cursor, or stops.
Reading(tools) ==
    /\ phase = "reading" /\ ~Malformation
    /\ tool \in tools
    /\ UNCHANGED <<tool, rows, wanted>>

GoOnAt(cursor) == request' = [request EXCEPT !.cursor = cursor] /\ UNCHANGED phase
Stop == phase' = "done" /\ UNCHANGED request

\* The next page starts where the wiki's would, whatever the budget left out.
RowPageTruncationByPage(capped, offset, nextOffset) ==
    CASE capped.truncated /\ capped.kept = 0 -> [reason |-> "content-truncated", next |-> offset + 1]
      [] ~(capped.truncated /\ capped.kept = 0) /\ nextOffset # None ->
           [reason |-> "more-available", next |-> nextOffset]
      [] OTHER -> [reason |-> "none", next |-> None]

\* A page whose first row is too large is continued as any other.
RowPageTruncationStuck(capped, offset, nextOffset) ==
    CASE capped.truncated -> [reason |-> "more-available", next |-> offset + capped.kept]
      [] ~capped.truncated /\ nextOffset # None -> [reason |-> "more-available", next |-> nextOffset]
      [] OTHER -> [reason |-> "none", next |-> None]

\* rowPageTruncation: where the answer says to go on, or that its first row is too large.
RowPageTruncation(capped, offset, nextOffset) ==
    CASE capped.truncated /\ capped.kept = 0 -> [reason |-> "content-truncated", next |-> offset + 1]
      [] capped.truncated /\ capped.kept > 0 -> [reason |-> "more-available", next |-> offset + capped.kept]
      [] ~capped.truncated /\ nextOffset # None -> [reason |-> "more-available", next |-> nextOffset]
      [] OTHER -> [reason |-> "none", next |-> None]

\* A full page may have a successor; more rows than asked for are a full page too.
AfterFullPage(fetched, offset) ==
    IF Len(fetched) >= request.limit THEN offset + Len(fetched) ELSE None

\* The semantic query is told by the wiki where to go on.
QueryContinueOffset(fetched, offset) ==
    IF offset + Len(fetched) < Len(rows) THEN offset + Len(fetched) ELSE None

NextOffset(of, fetched, offset) ==
    IF of = "smw-query" THEN QueryContinueOffset(fetched, offset) ELSE AfterFullPage(fetched, offset)

\* The rows of the semantic query come as an object, keyed by title: Object.entries takes
\* the titles that are numbers first, by size, and the others as the wiki sent them.
ComesFirst(seq, i, j) ==
    \/ seq[i].number # 0 /\ (seq[j].number = 0 \/ seq[i].number < seq[j].number)
    \/ seq[i].number = 0 /\ seq[j].number = 0 /\ i < j

Orders(of, seq) ==
    IF of # "smw-query" THEN {seq}
    ELSE {[k \in DOMAIN seq |-> seq[place[k]]] :
            place \in {p \in [DOMAIN seq -> DOMAIN seq] :
                         \A k, l \in DOMAIN seq : k < l => ComesFirst(seq, p[k], p[l])}}

\* What lies among the first n rows for the wiki, where the next page begins, and not for
\* the answer.
Displaced(fetched, order, n) == Ids(Take(fetched, n)) \ Ids(Take(order, n))

ReadRows(of) ==
    /\ Reading({of})
    /\ \E served \in {request.limit, request.limit + 1} :   \* some versions return one more
          LET offset  == request.cursor
              fetched == Take(Drop(rows, offset), served)
          IN  \E order \in Orders(of, fetched) :
                LET capped == CapRowsByBytes(Sizes(order))
                    marker == RowPageTruncation(capped, offset, NextOffset(of, fetched, offset))
                IN  /\ got' = got \cup Ids(Take(order, capped.kept))
                    /\ CASE marker.reason \in {"none", "more-available"} ->
                              /\ IF marker.reason = "none" THEN Stop ELSE GoOnAt(marker.next)
                              /\ unsaid' = unsaid \cup Displaced(fetched, order, capped.kept)
                              /\ UNCHANGED beyond
                         [] marker.reason = "content-truncated" ->
                              \/ ~request.narrowed /\ request' = [request EXCEPT !.narrowed = TRUE]
                                 /\ UNCHANGED <<beyond, unsaid, phase>>
                              \/ /\ GoOnAt(marker.next)
                                 /\ beyond' = beyond \cup {order[1].id}
                                 /\ unsaid' = unsaid \cup Displaced(fetched, order, 1)
    /\ UNCHANGED todo

CargoQuery  == ReadRows("cargo-query")
BucketQuery == ReadRows("bucket-query")
SmwQuery    == ReadRows("smw-query")

ReadProperties ==
    /\ Reading({"smw-list-properties"})
    /\ LET fetched == Take(Drop(rows, request.cursor), request.limit)
           next    == request.cursor + Len(fetched)
       IN  /\ got' = got \cup Ids(fetched)
           /\ IF next < Len(rows) THEN GoOnAt(next) ELSE Stop
    /\ UNCHANGED <<todo, beyond, unsaid>>

\* The query itself is paged, by its LIMIT and OFFSET, past the rows delivered.
ReadSolutions ==
    /\ Reading({"wikibase-query"})
    /\ LET matched == Drop(rows, request.cursor)
           capped  == CapLinesByBytes(Sizes(Take(matched, request.limit)))
           lines   == Take(matched, AtMost(capped.kept, request.limit))
           more    == capped.truncated \/ Len(matched) > request.limit
       IN  /\ got' = got \cup Ids(lines)
           /\ beyond' = beyond \cup (IF more /\ lines = <<>> THEN {matched[1].id} ELSE {})
           /\ IF more THEN GoOnAt(request.cursor + AtMost(Len(matched), Max({1, Len(lines)}))) ELSE Stop
    /\ UNCHANGED <<todo, unsaid>>

\* With redirects expanded, each entry brings the pages that link through it.
Flattened(entries) == Ids(entries) \cup UNION {entries[i].via : i \in DOMAIN entries}

\* The wiki's own cursor, the row it goes on at, is handed on; it may serve fewer rows.
ReadFromCursor(of) ==
    /\ Reading({of})
    /\ \E served \in 1 .. request.limit :
          LET remaining == From(rows, request.cursor)
              fetched   == Take(remaining, served)
              rest      == Drop(remaining, Len(fetched))
          IN  /\ got' = got \cup (IF of = "get-links-here" THEN Flattened(fetched) ELSE Ids(fetched))
              /\ IF rest # <<>> THEN GoOnAt(rest[1].id) ELSE Stop
    /\ UNCHANGED <<todo, beyond, unsaid>>

LinksHere       == ReadFromCursor("get-links-here")
CategoryMembers == ReadFromCursor("get-category-members")
RecentChanges   == ReadFromCursor("get-recent-changes")

\* The boundary is exclusive for the caller, inclusive for the wiki: one more is asked
\* for and the boundary taken out, or else the last.
HistoryPage ==
    LET bounded == request.cursor # None
        window  == FirstOf(Matching, request.limit + (IF bounded THEN 1 ELSE 0))
    IN  [revisions  |-> IF bounded THEN FirstOf(ButBoundary(window), request.limit) ELSE window,
         rvcontinue |-> window # Matching]

\* A boundary without the tag asked for is not in the window: the one more that was asked
\* for is cut off, and when the wiki has no others the answer does not say so.
Overlooked ==
    IF request.cursor # None /\ ~rows[At(request.cursor)].listed
    THEN {rows[i].id : i \in Matching \ FirstOf(Matching, request.limit)}
    ELSE {}

LastOf(positions) == CHOOSE i \in positions : \A j \in positions : ~Later(j, i)

ReadHistory ==
    /\ Reading({"get-page-history"})
    /\ LET page == HistoryPage
       IN  /\ got' = got \cup {rows[i].id : i \in page.revisions}
           /\ unsaid' = unsaid \cup (IF page.rvcontinue THEN {} ELSE Overlooked)
           /\ IF page.rvcontinue /\ page.revisions # {} THEN GoOnAt(rows[LastOf(page.revisions)].id) ELSE Stop
    /\ UNCHANGED <<todo, beyond>>

--------------------------------------------------------------------------------
Missing(t) == ResolveChain(t) \notin Ids(rows)
SizeOf(t) == rows[At(ResolveChain(t))].size
Title(i) == request.titles[i]

\* assembleEntries: the first title that leads to a page stands for it.
Entries ==
    {i \in request.asked :
        /\ ~Missing(Title(i))
        /\ \A j \in request.asked : j < i => ResolveChain(Title(j)) # ResolveChain(Title(i))}

\* fitToResponseBudget: whole pages in order; only the first body may be cut.  A page
\* whose text the wiki withholds has size 0 and no body.
Fit(entries) ==
    LET sizes   == [i \in DOMAIN request.titles |-> IF i \in entries THEN SizeOf(Title(i)) ELSE 0]
        bodies  == {i \in DOMAIN sizes : sizes[i] > 0}
        cut     == {i \in bodies : sizes[i] > Budget /\ \A j \in bodies : i <= j}
        used    == Sums([i \in DOMAIN sizes |-> IF i \in cut THEN Budget ELSE sizes[i]])
        kept    == {i \in entries : \A j \in bodies : used[j] > Budget => i < j}
    IN  [pages |-> kept \ cut, cut |-> cut, omitted |-> entries \ kept]

\* The titles that the pages of these entries answer.
Named(entries) ==
    {t \in wanted : ~Missing(t) /\ \E i \in entries : ResolveChain(Title(i)) = ResolveChain(t)}

ReadPages ==
    /\ Reading({"get-pages"})
    /\ LET fit == Fit(Entries)
       IN  /\ got' = got \cup Named(fit.pages)
           /\ beyond' = beyond \cup Named(fit.cut)
                               \cup {Title(i) : i \in {j \in request.asked : Missing(Title(j))}}
           /\ IF fit.omitted # {}
              THEN request' = [request EXCEPT !.asked = fit.omitted] /\ UNCHANGED phase
              ELSE Stop
    /\ UNCHANGED <<todo, unsaid>>

\* childrenOf: the headings that follow and are deeper, a template's among them.
ChildrenOf(i) ==
    {j \in i + 1 .. Len(rows) : \A k \in i + 1 .. j : rows[k].level > rows[i].level}

\* editableChildrenOf
OwnChildrenOf(i) == {j \in ChildrenOf(i) : rows[j].listed}

\* The subsections behind a template's heading that is not deeper: childrenOf stops there.
Veiled(section) ==
    IF section <= 0 THEN {}
    ELSE {rows[j].id : j \in {k \in SubtreeOf(At(section)) : rows[k].listed} \ ChildrenOf(At(section))}

\* sectionContentTruncation: what a narrower read can ask for.
Narrower(section) ==
    CASE section = -1 -> IF OwnIds(rows) = {rows[1].id} THEN {} ELSE OwnIds(rows)
      [] section = 0 -> {}
      [] OTHER -> {rows[j].id : j \in OwnChildrenOf(At(section))}

\* The sections that arrived whole, and the narrower reads a cut answer names.
SectionAnswer(section, short) ==
    LET parts == PartsOf(section)
        sums  == Sums([i \in DOMAIN parts |-> parts[i].size])
        total == sums[Len(parts)]
    IN  [whole |-> {parts[i].id : i \in {j \in DOMAIN parts : sums[j] <= TruncateByBytes(total, short)}},
         names |-> IF total > Budget THEN Narrower(section) ELSE {},
         veils |-> IF total > Budget THEN Veiled(section) ELSE {}]

\* Where the characters end at the cut is left open.
ReadSection ==
    /\ Reading({"get-page"})
    /\ \E section \in todo, short \in 0 .. 1 :
          LET answer == SectionAnswer(section, short)
              spent  == IF section = -1 THEN (IF answer.names = {} THEN {0} ELSE {}) ELSE {section}
          IN  /\ got' = got \cup answer.whole
              /\ beyond' = beyond \cup (spent \ got')
              /\ todo' = ((todo \ {section}) \cup answer.names) \ (got' \cup beyond')
              /\ unsaid' = unsaid \cup (answer.veils \ (got' \cup beyond' \cup todo'))
              /\ IF todo' = {} THEN Stop ELSE UNCHANGED <<request, phase>>

\* Once an answer says that something is missing, each property not yet seen whole is
\* asked for alone.
ReadEntity ==
    /\ Reading({"wikibase-get-entity"})
    /\ \E property \in todo :
          LET answer == EntityAnswer([i \in DOMAIN rows |-> rows[i].size], property)
          IN  /\ got' = got \cup answer.full
              /\ beyond' = beyond \cup (IF property # 0 /\ answer.says # {} THEN {property} ELSE {})
              /\ todo' = (IF property = 0 /\ answer.says # {} THEN Ids(rows) ELSE todo \ {property})
                            \ (got' \cup beyond' \cup {0})
              /\ IF todo' = {} THEN Stop ELSE UNCHANGED <<request, phase>>
    /\ UNCHANGED unsaid

\* A search says that its matches were capped, and the caller raises the limit while it
\* can.  A search for what labels contain has its limit in the query and says nothing.
ReadMatches(of) ==
    /\ Reading({of})
    /\ LET matches == Take(rows, request.limit)
           left    == IF Len(rows) > request.limit THEN Ids(rows) \ Ids(matches) ELSE {}
           capped  == left # {} /\ ~request.contains
           raised  == {limit \in Limits : limit > request.limit}
       IN  /\ got' = got \cup Ids(matches)
           /\ unsaid' = unsaid \cup (IF request.contains THEN left ELSE {})
           /\ IF capped /\ raised # {}
              THEN request' = [request EXCEPT !.limit = Min(raised)] /\ UNCHANGED <<beyond, phase>>
              ELSE /\ beyond' = beyond \cup (IF capped THEN left ELSE {})
                   /\ Stop
    /\ UNCHANGED todo

SearchPage     == ReadMatches("search-page")
SearchByPrefix == ReadMatches("search-page-by-prefix")
SearchEntities == ReadMatches("wikibase-search-entities")

ReadFile ==
    /\ Reading({"get-file-content"})
    /\ LET answer == FileAnswer(request.file, request.format)
       IN  got' = answer.carries /\ beyond' = answer.says
    /\ Stop /\ UNCHANGED <<todo, unsaid>>

--------------------------------------------------------------------------------
\* Others add a row: anywhere in a listing, at the head of a history.
Add ==
    /\ phase = "reading"
    /\ tool \in OffsetTools \cup CursorTools \cup {"get-page-history"}
    /\ Cardinality({id \in Ids(rows) : id >= FirstAdded}) < MaxAdds
    /\ \E size \in {1, Budget + 1},
         i \in IF tool = "get-page-history" THEN {1} ELSE 1 .. Len(rows) + 1 :
          rows' = InsertAt(rows, i, [id |-> FirstAdded + Len(rows), size |-> size,
                                     listed |-> TRUE, level |-> 0, via |-> {}, number |-> 0])
    /\ UNCHANGED <<tool, wanted, request, todo, got, beyond, unsaid, phase>>

Read ==
    \/ Refuse
    \/ CargoQuery \/ BucketQuery \/ SmwQuery \/ ReadProperties \/ ReadSolutions
    \/ LinksHere \/ CategoryMembers \/ RecentChanges \/ ReadHistory
    \/ ReadPages \/ ReadSection \/ ReadEntity \/ ReadFile
    \/ SearchPage \/ SearchByPrefix \/ SearchEntities

Done == phase # "reading" /\ UNCHANGED readVars

ReadNext == Read \/ Add \/ Done

\* The caller goes on reading.
ReadSpec == ReadInit /\ [][ReadNext]_readVars /\ WF_readVars(Read)

--------------------------------------------------------------------------------
\* What an answer of this tool can hold at all.
Fits(id) ==
    CASE tool \in {"cargo-query", "bucket-query", "smw-query", "wikibase-query"} ->
           rows[At(id)].size <= Budget
      [] tool = "get-page" -> rows[At(id)].size <= Budget - 1
      [] tool = "get-pages" -> ~Missing(id) /\ SizeOf(id) <= Budget
      [] tool = "wikibase-get-entity" -> 1 + rows[At(id)].size <= Budget
      [] tool = "get-file-content" -> /\ id \in Convertible(request.file, "url")
                                      /\ "image" \in wanted => request.file.fits
                                      /\ id = "source" => ~request.file.long
      [] tool \in MatchTools -> At(id) <= Max(Limits)
      [] OTHER -> TRUE

\* A caller who follows every answer's directions to the end has been given everything
\* that was there from the beginning and fits an answer, whatever was added meanwhile,
\* and has been told of everything else: a page cut by the budget, by the limit or by
\* the wiki is always resumed at the first row left out.  Four answers leave something out
\* without a word: a history begun at a revision without the tag asked for, one revision
\* (Overlooked); a page of smw-query cut by the budget, the rows that a title which is a
\* number was put before (Displaced); a search for what labels contain, the matches over
\* its limit; a section, its subsections behind a heading of a template (Veiled).
NothingIsLost ==
    phase = "done" => /\ {id \in wanted : Fits(id)} \subseteq got \cup unsaid
                      /\ wanted \subseteq got \cup beyond \cup unsaid

\* An answer cut for several reasons at once names them all: a caller told only of one
\* would believe that removing it returns the rest.
EveryCapIsNamed ==
    tool = "wikibase-get-entity" =>
        \A property \in {0} \cup Ids(rows) :
            LET answer == EntityAnswer([i \in DOMAIN rows |-> rows[i].size], property)
            IN  answer.lost = answer.says

\* Following the directions comes to an end: no answer sends its caller back to itself.
ReadingEnds == <>(phase # "reading")

================================================================================
