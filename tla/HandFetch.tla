------------------------------ MODULE HandFetch ------------------------------
(* scripts/fetch-one.mjs --go: one page, by hand.  The tool reads the host's
   robots.txt, waits the delay that file or the review asks for, and asks for
   one event page, which it reads and prints.  It claims no slot of the
   company's clock and writes nothing. *)
EXTENDS RobotsFile, PageRules

CONSTANTS
    Urls,       \* what may be named on the command line
    Files,      \* robots.txt files, as sequences of Lines
    Pages,      \* bodies of an event page
    Reviews,    \* source rows
    Timeout,    \* TIMEOUT_MS: the longest wait for an answer
    Slip        \* bound: how early a timer may fire

ASSUME HandAssumption ==
    /\ Timeout \in Nat /\ Slip \in Nat
    /\ \A u \in Urls : u.path \in Seq(Segments) /\ u.layers \in Nat
    /\ \A f \in Files : f \in Seq(Lines)
    /\ \A p \in Pages : p.text \in Texts /\ p.link \in {"none", "http", "https", "mended"}
    /\ EmptyDate \notin Nat \cup {Null}
    /\ \A s \in Reviews : s.delay \in Nat \cup {Null}

VARIABLES
    step,       \* where the tool is
    url, source,\* its two inputs
    file,       \* the robots.txt it was answered
    clock,      \* time since it started
    asked,      \* when it asked for robots.txt
    due,        \* when it may ask for the page
    shown       \* what the reader made of the page

handVars == <<step, url, source, file, clock, asked, due, shown>>

Inputs == <<url, source>>

Steps == {"start", "robots", "asleep", "page", "shown", "stopped"}

HandIdle ==
    /\ step = "stopped" /\ url = Null /\ source = Null /\ file = <<>>
    /\ clock = 0 /\ asked = 0 /\ due = 0 /\ shown = Null

HandInit ==
    /\ step = "start" /\ url \in Urls /\ source \in Reviews /\ file = <<>>
    /\ clock = 0 /\ asked = 0 /\ due = 0 /\ shown = Null

-----------------------------------------------------------------------------
Stop == step' = "stopped" /\ UNCHANGED <<Inputs, file, clock, asked, due, shown>>

Robots == [url EXCEPT !.shape = "robots", !.layers = 0]

Begin ==
    /\ step = "start"
    /\ IF /\ CheckSource(source) /\ ClassifyUrl(url, Hosts)
          /\ DecideFetch(Robots, source) = "robots"
       THEN /\ step' = "robots" /\ asked' = clock
            /\ UNCHANGED <<Inputs, file, clock, due, shown>>
       ELSE Stop

Wait(rules) ==
    MinInterval(IF CrawlDelayFor(rules) # Null THEN CrawlDelayFor(rules) ELSE source.delay)

(* A 2xx whose body has the reviewed hash: the rules are read and kept. *)
ReadRobots ==
    /\ step = "robots"
    /\ \E f \in Files :
        /\ file' = f
        /\ IF IsAllowed(ParseRobots(f), url.path)
           THEN step' = "asleep" /\ due' = clock + Wait(ParseRobots(f))
           ELSE step' = "stopped" /\ UNCHANGED due
    /\ UNCHANGED <<Inputs, clock, asked, shown>>

(* No robots.txt, any other status, a changed file, a failure, a time-out. *)
RobotsUnusable == step = "robots" /\ Stop

(* Mutant: the answer is given one moment more. *)
TickPast ==
    /\ \/ step = "robots" /\ clock <= asked + Timeout
       \/ step = "asleep" /\ clock < due
    /\ clock' = clock + 1
    /\ UNCHANGED <<step, Inputs, file, asked, due, shown>>

Tick ==
    /\ \/ step = "robots" /\ clock < asked + Timeout
       \/ step = "asleep" /\ clock < due
    /\ clock' = clock + 1
    /\ UNCHANGED <<step, Inputs, file, asked, due, shown>>

(* Mutant: the timer is taken at its word. *)
WakeUnchecked ==
    /\ step = "asleep" /\ clock + Slip >= due
    /\ IF DecideFetch(url, source) = "refused" THEN Stop
       ELSE step' = "page" /\ UNCHANGED <<Inputs, file, clock, asked, due, shown>>

Wake ==
    /\ step = "asleep" /\ clock + Slip >= due
    /\ IF clock < due \/ DecideFetch(url, source) = "refused" THEN Stop
       ELSE step' = "page" /\ UNCHANGED <<Inputs, file, clock, asked, due, shown>>

ReadPage ==
    /\ step = "page"
    /\ \E p \in Pages : shown' = IF ParseEventPage(p) THEN ToDraftRow(p) ELSE Null
    /\ step' = "shown"
    /\ UNCHANGED <<Inputs, file, clock, asked, due>>

(* A redirect, any status but 200, a body past the cap, a failure, a time-out. *)
PageUnusable == step = "page" /\ Stop

HandNext ==
    \/ Begin
    \/ ReadRobots \/ RobotsUnusable
    \/ Wake
    \/ ReadPage \/ PageUnusable
    \/ Tick

HandSpec == HandInit /\ [][HandNext]_handVars

-----------------------------------------------------------------------------
(* The types; the tool waits for no answer longer than Timeout, and not
   beyond the moment it may ask. *)
HandTypeOK ==
    /\ step \in Steps
    /\ clock \in Nat /\ asked \in 0..clock /\ due \in Nat
    /\ step = "robots" => clock <= asked + Timeout
    /\ step = "asleep" => clock <= due
    /\ file \in Seq(Lines)

(* robots.js: the reader's groups give every path the verdict, and us the
   delay, that the lines of the file ask for. *)
ReadsAsWritten ==
    LET rules == ParseRobots(file)
    IN  /\ \A u \in Urls : IsAllowed(rules, u.path) <=> LawAllows(file, u.path)
        /\ IF LawDelays(file) = {} THEN CrawlDelayFor(rules) = Null
           ELSE CrawlDelayFor(rules) = Max(LawDelays(file))

(* fetch-one.mjs: when the page is asked for, at least the law's ten seconds
   and every delay the host asks of us have passed since robots.txt was. *)
WaitsAsAsked ==
    step = "page" => \A d \in LawDelays(file) \cup {Floor} : clock >= asked + d

(* fetchgate.js, smoothcomp.js: the page asked for is an event page, by what
   a server makes of its path, on a reviewed host of an active source whose
   event pages may be read. *)
AsksOnlyEventPages ==
    step = "page" => /\ url.https /\ url.host \in Hosts
                     /\ url.layers <= 2 => url.shape = "event"
                     /\ source.reviewed /\ source.active /\ ~source.listingOnly

(* parsers/smoothcomp.js against the CHECKs of events: the reader's rules let
   through three rows the database refuses, one with a text of a length it does
   not take, one with an empty end date, one with a registration link that only
   parses as https:// and does not read so; every other row it makes is taken. *)
ReadRowsStorable ==
    shown # Null =>
        (Storable(shown) <=> /\ shown.text = "fits"
                             /\ shown.end # EmptyDate
                             /\ shown.link # "mended")
=============================================================================
