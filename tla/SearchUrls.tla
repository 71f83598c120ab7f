------------------------------ MODULE SearchUrls ----------------------------
(***************************************************************************)
(* search_urls.md: the LinkedIn searches of a profile, as four readers see *)
(* the same text: the normaliser of a save (src/core/config/search_urls),  *)
(* the settings form (ui .../sections/searchUrls.model.ts), `jobbunny lane *)
(* add-url`, and the lane that runs them.                                  *)
(*                                                                         *)
(* The text is the links under each page heading, NoHeading for those under no  *)
(* heading: early ones stand before the channel heading "## linkedin",     *)
(* filed ones after it.  A link is what classifyLinkedInSearchUrl makes of *)
(* it: its page, what identifies it there, and whether it still carries    *)
(* parameters of a visit.                                                  *)
(***************************************************************************)
EXTENDS Naturals, FiniteSets

CONSTANTS
  Page,      \* the page types of LinkedIn searches
  Id,        \* what identifies a search on its page
  NoHeading,      \* no page heading
  Imports,   \* texts a user may bring in
  MaxWrites  \* bound: writes

VARIABLES
  doc,     \* the text
  writes,
  by       \* who wrote it last

urlVars == <<doc, writes, by>>

Heading == Page \cup {NoHeading}
Link == [page : Heading, id : Id, dirty : BOOLEAN]

(* A link of no page is refused; a bad line is a bullet that does not parse. *)
UrlsDoc ==
  [early : [Heading -> SUBSET Link], filed : [Heading -> SUBSET Link], channel : BOOLEAN, bad : BOOLEAN]

ASSUME UrlsAssumption ==
  /\ NoHeading \notin Page
  /\ Imports \subseteq UrlsDoc

Clean(link) == [link EXCEPT !.dirty = FALSE]
Key(link) == <<link.page, link.id>>
Links(filed) == UNION {filed[h] : h \in Heading}
Nowhere == [h \in Heading |-> {}]

(* parseDoc: without the channel heading everything is a note ahead of it.  *)
Notes(d) == IF d.channel THEN d.early ELSE [h \in Heading |-> d.early[h] \cup d.filed[h]]
Rows(d) == IF d.channel THEN Links(d.filed) ELSE {}

(* normalizeSearchUrlsDoc throws, and nothing is written. *)
Refuses(d) == d.bad \/ \E link \in Rows(d) : link.page = NoHeading

(* Mutant of Grouped: a link stays under the heading it was found.          *)
GroupedAsFound(d) == [h \in Heading |-> {Clean(link) : link \in d.filed[h]}]

(* classifyAndGroup: each link once, cleaned, under its own page.           *)
Grouped(d) == [h \in Heading |-> {Clean(link) : link \in {l \in Rows(d) : l.page = h}}]

Normalized(d) == [early |-> Notes(d), filed |-> Grouped(d), channel |-> TRUE, bad |-> FALSE]

(* parseSearchUrls of the lane, and parseSearchUrlRows of the form: what is  *)
(* under a page heading, wherever that stands.                              *)
RowsUnder(d) == [p \in Page |-> d.early[p] \cup d.filed[p]]

(* serializeSearchUrlRows: the form's rows and nothing else. *)
Serialized(rows) == [early |-> Nowhere, filed |-> [h \in Heading |-> IF h \in Page THEN rows[h] ELSE {}],
                     channel |-> TRUE, bad |-> FALSE]

----------------------------------------------------------------------------
WrittenBy(d, who) ==
  /\ writes < MaxWrites
  /\ writes' = writes + 1
  /\ doc' = d
  /\ by' = who

(* saveSearchUrlsDoc: of the form's PUT and of `jobbunny config set`. *)
SaveNormalized(d, who) == ~Refuses(d) /\ WrittenBy(Normalized(d), who)

(* `jobbunny config import` and the lift of a legacy file do not normalise. *)
Import(d) == WrittenBy(d, "import")

ConfigSet(d) == SaveNormalized(d, "config set")

(* The form: its rows, one taken out or put in.  A row's link is classified *)
(* when it is typed, so that the form files it itself.                      *)
FormSave(removed, added) ==
  LET rows == RowsUnder(doc)
      left == [p \in Page |-> rows[p] \ removed]
  IN  /\ \A link \in added : link.page # NoHeading
      /\ SaveNormalized(Serialized([p \in Page |-> left[p] \cup {Clean(link) : link \in {l \in added : l.page = p}}]), "form")

(* Re-file, offered when a row is under another page than its own: each     *)
(* misfiled row goes under its page and is cleaned.                         *)
Misfiled(rows) == \E p \in Page : \E link \in rows[p] : link.page \notin {p, NoHeading}

Refile ==
  LET rows == RowsUnder(doc)
      all == UNION {rows[p] : p \in Page}
  IN  /\ Misfiled(rows)
      /\ SaveNormalized(Serialized([p \in Page |-> {l \in rows[p] : l.page \in {p, NoHeading}}
                                                     \cup {Clean(l) : l \in {k \in all \ rows[p] : k.page = p}}]), "form")

(* add-url puts a missing channel heading at the end of the text: what was   *)
(* there stands before it from then on.                                     *)
Headed(d) == IF d.channel THEN d ELSE [d EXCEPT !.early = Notes(d), !.filed = Nowhere, !.channel = TRUE]

(* laneAddUrlCommand: under the first heading of its page there is. *)
AddUrl(link) ==
  /\ link.page # NoHeading
  /\ LET d == Headed(doc)
     IN  WrittenBy(IF d.early[link.page] # {} THEN [d EXCEPT !.early[link.page] = @ \cup {Clean(link)}]
                 ELSE [d EXCEPT !.filed[link.page] = @ \cup {Clean(link)}], "add-url")

SearchUrlsInit ==
  /\ doc \in Imports
  /\ writes = 0
  /\ by = "import"

SearchUrlsNext ==
  \/ \E d \in Imports : Import(d) \/ ConfigSet(d)
  \/ \E link \in Link : FormSave({link}, {}) \/ FormSave({}, {link}) \/ AddUrl(link)
  \/ Refile

SearchUrlsSpec == SearchUrlsInit /\ [][SearchUrlsNext]_urlVars

----------------------------------------------------------------------------
Everywhere(d) == Links(d.early) \cup Links(d.filed)

(* After a save that normalises, no link is under no heading, and each is   *)
(* cleaned and with the reader of its own page: a run reads it, once.  Not  *)
(* so what stands ahead of the channel heading.                             *)
SavedIsRead ==
  by \in {"form", "config set"} =>
    /\ doc.filed[NoHeading] = {}
    /\ \A p \in Page : \A link \in doc.filed[p] : link.page = p /\ ~link.dirty

(* A write never loses a link the user did not take out: `add-url` none at  *)
(* all, the form only those under no page heading of an imported text.      *)
LinksKeptStep ==
  by' \in {"form", "add-url"} =>
    LET under == IF by' = "form" THEN UNION {RowsUnder(doc)[p] : p \in Page} ELSE Everywhere(doc)
    IN  Cardinality({Key(l) : l \in under} \ {Key(l) : l \in Everywhere(doc')}) <= (IF by' = "form" THEN 1 ELSE 0)
LinksKept == [][LinksKeptStep]_urlVars
=============================================================================
