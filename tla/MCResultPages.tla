---------------------------- MODULE MCResultPages ------------------------------
(***************************************************************************)
(* The lists of the runs: up to three rows that fit together, fit alone,    *)
(* fit when narrowed, or do not fit; revisions with and without the tag     *)
(* asked for; titles that are numbers, the last the least; a lead, sections *)
(* and subsections, some of them a template's and without text of their     *)
(* own; properties with few and many values; pages of which some are        *)
(* missing or withheld.                                                     *)
(***************************************************************************)
EXTENDS ResultPages

CONSTANT MaxRows

RowsOf(sizes, listed) ==
    UNION {{[i \in 1 .. n |-> [id |-> i, size |-> sz[i], listed |-> tag[i], level |-> 0, via |-> {},
                         number |-> 0]] :
              sz \in [1 .. n -> sizes], tag \in [1 .. n -> listed]} : n \in 0 .. MaxRows}

Numbered(lists) ==
    {[i \in DOMAIN list |-> [list[i] EXCEPT !.number = IF i \in numbers THEN MaxRows + 1 - i ELSE 0]] :
       list \in lists, numbers \in SUBSET (1 .. MaxRows)}

\* Section 0 is the lead; the headings below it are of two depths, and of size 0 when
\* they are a template's.
Pages ==
    {[i \in 1 .. n |-> [id |-> i - 1, size |-> sz[i], listed |-> sz[i] # 0,
                        level |-> IF i = 1 THEN 0 ELSE lv[i], via |-> {}, number |-> 0]] :
       n \in 1 .. 4, lv \in [1 .. 4 -> {2, 3}],
       sz \in {z \in [1 .. 4 -> {0, 1, 3, 5}] : z[1] # 0}}

\* The middle row is a redirect through which another page links.
Linked ==
    {[i \in DOMAIN list |-> [list[i] EXCEPT !.via = IF i = 2 THEN {5} ELSE {}]] :
       list \in RowsOf({1}, {TRUE})}

MCTitles == {<<1, 2, 3>>, <<3, 1, 2>>}
MCAliases == {<<1, 2, 3>>, <<2, 3, 3>>, <<3, 2, 3>>}

MCListsOf(t) ==
    CASE t \in {"cargo-query", "bucket-query", "wikibase-query"} -> RowsOf({1, 2, 5, 9}, {TRUE})
      [] t = "smw-query" -> Numbered(RowsOf({1, 2, 5, 9}, {TRUE}))
      [] t = "get-page-history" -> RowsOf({1}, BOOLEAN)
      [] t = "get-links-here" -> Linked
      [] t = "get-pages" -> RowsOf({0, 2, 5}, {TRUE})
      [] t = "get-page" -> Pages
      [] t = "wikibase-get-entity" -> RowsOf({1, 2, 3, 4}, {TRUE})
      [] t = "get-file-content" -> {<<>>}
      [] OTHER -> RowsOf({1}, {TRUE})
===============================================================================
