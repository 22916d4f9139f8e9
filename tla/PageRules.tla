------------------------------ MODULE PageRules ------------------------------
(* What may be asked of a company's site, and what is read off a page of it:
   gate.js, fetchgate.js, the URL rules and the readers of parsers/smoothcomp.js,
   and the CHECKs of events that the rows they make must pass.

   A URL is [https, host, path, shape, layers]: path is its pathname as sent,
   in segments; shape is what the pathname says once layers rounds of
   percent-decoding are done (event, excluded, robots, listing, other), or
   "broken" if a round fails.  A source is [reviewed, active, listingOnly,
   delay].  A day is a number, a text is its length class.  A link is none,
   http, https, or "mended": an https URL once the URL parser has mended it (a
   space before it, no '//' after its colon), not as it is written. *)
EXTENDS ScoutValues

CONSTANTS
    Hosts,      \* the company's active, reviewed aliases
    EmptyDate   \* an end date given as an empty string

(* checkSource: ten recorded fields, a verdict that allows, no login; then active. *)
CheckSource(source) == source.reviewed /\ source.active

-----------------------------------------------------------------------------
(* decodedPathname: three rounds at most; what is still encoded then is one
   odd-looking segment, which the allow-list takes for an event's name. *)
Decoded(url) ==
    CASE url.layers > 3 -> "event"
      [] url.layers = 3 /\ url.shape = "broken" -> "event"
      [] OTHER -> url.shape

ClassifyUrl(url, hosts) == url.https /\ url.host \in hosts /\ Decoded(url) = "event"

(* Mutant: an event page is asked of a source that is read by its listings. *)
DecideFetchByShape(url, source) ==
    CASE ~url.https \/ ~CheckSource(source) \/ url.host \notin Hosts -> "refused"
      [] url.layers = 0 /\ url.shape \in {"robots", "listing"} -> url.shape
      [] ClassifyUrl(url, {url.host}) -> "event_page"
      [] OTHER -> "refused"

DecideFetch(url, source) ==
    CASE ~url.https \/ ~CheckSource(source) \/ url.host \notin Hosts -> "refused"
      [] url.layers = 0 /\ url.shape \in {"robots", "listing"} -> url.shape
      [] ClassifyUrl(url, {url.host}) /\ ~source.listingOnly -> "event_page"
      [] OTHER -> "refused"

-----------------------------------------------------------------------------
(* parseEventPage: a bad date is named before a missing field; an empty end
   date is no bad one. *)
ParseEventPage(page) ==
    /\ page.start # Null => IsRealDate(page.start)
    /\ page.end \notin {Null, EmptyDate} =>
          IsRealDate(page.end) /\ (page.start # Null => page.end >= page.start)
    /\ Given(page.text) /\ page.start # Null /\ page.placed

(* Mutant: the row keeps the link the page shows. *)
ToDraftRowAnyLink(page) ==
    [text |-> page.text, start |-> page.start, end |-> page.end, link |-> page.link,
     deadline |-> IF IsRealDate(page.deadline) THEN page.deadline ELSE Null]

(* toDraftRow; a registration link that is not https, or a deadline no
   calendar has, was dropped with a warning.  A mended link is judged as the
   URL it parses to and kept as it was written; an empty end date stays one. *)
ToDraftRow(page) ==
    [text     |-> page.text,
     start    |-> page.start,
     end      |-> page.end,
     link     |-> IF page.link = "http" THEN "none" ELSE page.link,
     deadline |-> IF IsRealDate(page.deadline) THEN page.deadline ELSE Null]

(* The CHECKs of events on the columns a reader fills. *)
Storable(draft) ==
    /\ Fits(draft.text)
    /\ IsRealDate(draft.start)
    /\ draft.end # Null => IsRealDate(draft.end) /\ draft.end >= draft.start
    /\ draft.link \in {"none", "https"}
    /\ draft.deadline # Null => IsRealDate(draft.deadline)
=============================================================================
