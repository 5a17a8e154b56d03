------------------------------ MODULE Truncation -------------------------------
(***************************************************************************)
(* How an answer is cut to the response byte budget (truncation.ts), and    *)
(* the answers of the tools that are cut but cannot be continued: the       *)
(* entity, the query rows, the matches of a search, a file's content.       *)
(*                                                                         *)
(* Sizes are small numbers of bytes.  Only how much of a list or a text is  *)
(* kept is modelled, and what the answer says of the rest.                  *)
(***************************************************************************)
EXTENDS Integers, Sequences, SequencesExt, FiniteSets, FiniteSetsExt

CONSTANTS
    Budget,                   \* MCP_CONTENT_MAX_BYTES
    MAX_PROPERTIES,           \* properties an entity is rendered with
    MAX_VALUES_PER_PROPERTY   \* values a property is rendered with, unless it is asked for alone

ASSUME BoundsAssumption ==
    /\ Budget \in Nat \ {0}
    /\ MAX_PROPERTIES \in Nat \ {0}
    /\ MAX_VALUES_PER_PROPERTY \in Nat \ {0}

AtMost(n, m) == IF n < m THEN n ELSE m

\* The bytes of the first n items, for every n.
Sums(sizes) ==
    LET sum[n \in 0 .. Len(sizes)] == IF n = 0 THEN 0 ELSE sum[n - 1] + sizes[n] IN sum

Total(sizes) == Sums(sizes)[Len(sizes)]

\* How many leading items fit, joined by separators of one byte.
FittingPrefix(sizes, max) ==
    LET sums == Sums(sizes)
    IN  Max({n \in 0 .. Len(sizes) : n = 0 \/ sums[n] + n - 1 <= max})

\* Whole rows: none when the first alone is too large.
CapRowsByBytes(sizes) ==
    LET kept == FittingPrefix(sizes, Budget)
    IN  [kept |-> kept, truncated |-> kept < Len(sizes)]

\* Whole lines, but a first line too large is cut inside: it is there, and not whole.
CapLinesByBytes(sizes) ==
    IF sizes = <<>> \/ Total(sizes) + Len(sizes) - 1 <= Budget
    THEN [kept |-> Len(sizes), truncated |-> FALSE]
    ELSE [kept |-> FittingPrefix(sizes, Budget), truncated |-> TRUE]

\* The bytes kept of a text: the cut moves back to the end of a character, which falls
\* `short` bytes before the budget.
TruncateByBytes(total, short) == IF total <= Budget THEN total ELSE Budget - short

--------------------------------------------------------------------------------
(***************************************************************************)
(* wikibase-get-entity.  `claims` gives the number of values of each        *)
(* property; `property` is the one asked for alone, or 0.  The answer names *)
(* the properties delivered in full, and what its marker says was left out. *)
(***************************************************************************)
SelectClaims(claims, property) ==
    IF property = 0 THEN [p \in DOMAIN claims |-> p] ELSE <<property>>

CapProperties(selected) == SubSeq(selected, 1, AtMost(Len(selected), MAX_PROPERTIES))

ShownStatements(claims, property, p) ==
    IF property = 0 THEN AtMost(claims[p], MAX_VALUES_PER_PROPERTY) ELSE claims[p]

RenderClaims(claims, property) ==
    LET rendered == CapProperties(SelectClaims(claims, property))
    IN  [lines |-> [i \in DOMAIN rendered |-> 1 + ShownStatements(claims, property, rendered[i])],
         properties |-> rendered,
         hidden |-> {p \in Range(rendered) : ShownStatements(claims, property, p) < claims[p]}]

Said(condition, what) == IF condition THEN {what} ELSE {}

\* The property cap hides that values were capped too.
EntityMarkerOfFirst(truncated, rendered, totalProperties, property) ==
    LET fewer == Len(rendered.lines) < totalProperties
    IN  CASE truncated -> {"bytes"} \cup (IF property # 0 THEN {} ELSE Said(fewer, "properties"))
          [] ~truncated /\ fewer -> {"properties"}
          [] OTHER -> Said(rendered.hidden # {}, "values")

EntityMarker(truncated, rendered, totalProperties, property) ==
    LET fewer  == Len(rendered.lines) < totalProperties
        values == Said(rendered.hidden # {}, "values")
    IN  CASE truncated -> {"bytes"} \cup (IF property # 0 THEN {} ELSE Said(fewer, "properties") \cup values)
          [] ~truncated /\ fewer -> {"properties"} \cup values
          [] OTHER -> values

EntityAnswer(claims, property) ==
    LET rendered == RenderClaims(claims, property)
        capped   == CapLinesByBytes(rendered.lines)
    IN  [full |-> {rendered.properties[i] : i \in 1 .. capped.kept} \ rendered.hidden,
         says |-> EntityMarker(capped.truncated, rendered, Len(SelectClaims(claims, property)), property),
         \* what the answer did leave out
         lost |-> Said(capped.truncated, "bytes") \cup Said(rendered.hidden # {}, "values")
                    \cup Said(Len(rendered.lines) < Len(SelectClaims(claims, property)), "properties")]

--------------------------------------------------------------------------------
(***************************************************************************)
(* get-file-content.  A file has a kind; it may fail to render, or to be    *)
(* read as text, its picture may be larger than the operator's limit, and   *)
(* its text longer than the byte budget.                                    *)
(***************************************************************************)
Mimes == {"svg", "raster", "pdf", "text", "other"}
Formats == {"auto", "image", "source", "both"}

ContentFormatsFor(mime) ==
    (IF mime \in {"svg", "raster"} THEN {"image"} ELSE {})
        \cup (IF mime \in {"svg", "pdf", "text"} THEN {"source"} ELSE {})

\* The forms read, or none when the request is refused.
SelectForms(format, mime) ==
    LET supported == ContentFormatsFor(mime)
    IN  CASE format = "auto" -> IF "image" \in supported THEN {"image"} ELSE supported
          [] format = "both" -> supported
          [] OTHER -> supported \cap {format}

\* The address fetched: a rendition only for a picture that is its own form.
SourceUrlFor(forms, mime) == IF forms = {"image"} /\ mime # "svg" THEN "thumburl" ELSE "url"

\* The forms the bytes fetched can be turned into: the text only from the file itself.
Convertible(file, url) ==
    {form \in ContentFormatsFor(file.mime) :
        IF form = "image" THEN file.renders
        ELSE url = "url" /\ (file.mime = "pdf" => file.extracts)}

\* The forms an answer carries whole, and the ones it says are unavailable or cut.
FileAnswer(file, format) ==
    LET asked    == SelectForms(format, file.mime)
        readable == Convertible(file, SourceUrlFor(asked, file.mime))
        fallback == IF format = "auto" /\ "image" \notin asked \cap readable THEN {"source"} ELSE {}
        made     == (asked \cup fallback) \cap readable
        tooLarge == "image" \in made /\ ~file.fits
        whole    == IF file.long THEN made \ {"source"} ELSE made
    IN  [carries |-> IF tooLarge THEN {} ELSE whole,
         \* a refused call, an image over the limit, a form that failed, and a text cut short
         \* are all named
         says |-> IF tooLarge \/ made = {} THEN {"image", "source"} ELSE (asked \cup made) \ whole]
===============================================================================
