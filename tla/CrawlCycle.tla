----------------------------- MODULE CrawlCycle -----------------------------
(***************************************************************************)
(* The scout's nightly invocation (scout/src/index.js runCrawlCycle): the  *)
(* robots.txt check, discovery, ingest, link check and automatic approval, *)
(* with the gate every request passes (fetchgate.js), the queue of         *)
(* discovered_pages between discovery and ingest, and the crawl_runs rows  *)
(* of the phases.                                                          *)
(*                                                                         *)
(* Each phase works through a list it read at its beginning, one awaited   *)
(* request after the other.  The rows of sources and source_aliases it     *)
(* judges by are the ones it read then.  An invocation may throw or be     *)
(* killed at any await; the next one begins from the tables.               *)
(*                                                                         *)
(* Not here: what the phases do to listings (ReviewDesk), and when the     *)
(* shared clock grants a slot: a claim may be refused at any time.         *)
(***************************************************************************)
EXTENDS Naturals, FiniteSets

CONSTANTS
    Sources,       \* companies
    Hosts,         \* their reviewed hostnames, source_aliases
    Pages,         \* event page URLs
    Company,       \* the source of each host
    HostOf,        \* the host of each page's URL
    ListingOnly,   \* sources with crawl_mode 'listing_only'
    Backlog,       \* pages queued before the first night
    Null,
    MaxPages,      \* maxPages: pages one ingest works on
    RequeueLimit,  \* requeueLimit
    StaleNights    \* requeueAfterMs, in nights

ASSUME CrawlAssumption ==
    /\ Company \in [Hosts -> Sources]
    /\ HostOf \in [Pages -> Hosts]
    /\ ListingOnly \subseteq Sources
    /\ Backlog \subseteq Pages
    /\ IsFiniteSet(Pages)
    /\ Null \notin Hosts \cup Pages
    /\ MaxPages \in Nat \ {0}
    /\ RequeueLimit \in Nat
    /\ StaleNights \in Nat

VARIABLES
    active,    \* the sources with active = 1
    aliases,   \* the source_aliases with active = 1
    page,      \* discovered_pages
    written,   \* the pages whose event row holds what their last fetch found
    running,   \* crawl_runs: the phases with a row that says 'running'
    cycle      \* the invocation

tables == <<active, aliases, page, written>>

crawlVars == <<tables, running, cycle>>

-----------------------------------------------------------------------------
(* Tables and the invocation                                               *)

\* since orders the rows as discovered_at does; age is the nights since
\* fetched_at, up to StaleNights.
PageRow == [status : {"unknown", "pending", "fetched", "failed", "excluded"},
            since  : Nat,
            age    : 0..StaleNights]

Phases == {"robots", "discovery", "ingest", "links", "approve"}

\* hosts and live are the active aliases and sources as the phase knows them;
\* todo is what is left of its list, at the host or page it waits for, found
\* the links of a listing that are not queued yet, back is backedOff.
\* Three fields repeat what the phases only report: the hosts that answered
\* for robots.txt with something else, those whose robots.txt drifted, and the
\* companies that answered a request for content with 403, unless an operator
\* has released them since.
Cycle == [phase   : Phases,
          step    : {"requeue", "load", "next", "wait", "queue", "stop", "write", "mark"},
          hosts   : SUBSET Hosts,
          live    : SUBSET Sources,
          todo    : SUBSET (Hosts \cup Pages),
          at      : Hosts \cup Pages \cup {Null},
          found   : SUBSET Pages,
          back    : SUBSET Sources,
          barred  : SUBSET Hosts,
          drifted : SUBSET Hosts,
          said403 : SUBSET Sources]

Over == [phase |-> "over"]

In(phase, step) == cycle.phase = phase /\ cycle.step = step

\* The run row of the last phase is closed, the phase's opened.
Open(phase) == running' = {phase}

\* The list of the phase is read: its sources are judged as they are now.
List(phase, hosts, todo) ==
    cycle' = [cycle EXCEPT !.phase = phase, !.step = "next", !.hosts = hosts,
                           !.live = active, !.todo = todo, !.back = {}]

\* x is passed over, asked for; what was asked for is answered, with a request
\* to slow down, or with 403, after which the company is paused.
Pass(x) == cycle' = [cycle EXCEPT !.todo = @ \ {x}]

Ask(x) == cycle' = [cycle EXCEPT !.todo = @ \ {x}, !.at = x, !.step = "wait"]

Answered == cycle' = [cycle EXCEPT !.at = Null, !.step = "next"]

SlowDown(s) == cycle' = [cycle EXCEPT !.at = Null, !.step = "next", !.back = @ \cup {s}]

Deactivate(s) == active' = active \ {s}

SaysNo(s) ==
    /\ Deactivate(s)
    /\ cycle' = [cycle EXCEPT !.at = Null, !.step = "next",
                              !.back = @ \cup {s}, !.said403 = @ \cup {s}]

Set(p, status) == page' = [page EXCEPT ![p].status = status, ![p].age = 0]

Pending(q) == {p \in Pages : q[p].status = "pending"}

\* The first n of S in the order of discovered_at.
Oldest(S, q, n) ==
    {T \in SUBSET S :
        /\ Cardinality(T) = IF Cardinality(S) < n THEN Cardinality(S) ELSE n
        /\ \A t \in T, u \in S \ T : q[t].since <= q[u].since}

First(S) == {p \in S : \A q \in S : page[p].since <= page[q].since}

-----------------------------------------------------------------------------
(* The night begins, and phase 0: robots.txt                               *)

\* Mutant: nights are counted for pages that were not fetched.
AgedAnyStatus == [p \in Pages |-> [page[p] EXCEPT !.age = @ + 1]]

\* One more night since each page was fetched.
Aged == [p \in Pages |-> IF page[p].status = "fetched" /\ page[p].age < StaleNights
                         THEN [page[p] EXCEPT !.age = @ + 1] ELSE page[p]]

\* Mutant: rows of killed invocations stay 'running'.
StartKeepingRuns ==
    /\ cycle = Over
    /\ page' = Aged
    /\ cycle' = [phase |-> "robots", step |-> "next", hosts |-> aliases, live |-> active,
                 todo |-> aliases, at |-> Null, found |-> {}, back |-> {},
                 barred |-> {}, drifted |-> {}, said403 |-> {}]
    /\ running' = running \cup {"robots"}
    /\ UNCHANGED <<active, aliases, written>>

\* A night has passed: rows still 'running' are of killed invocations, long past
\* the cutoff of twenty minutes, and are closed; and the aliases are read.
StartCycle ==
    /\ cycle = Over
    /\ page' = Aged
    /\ cycle' = [phase |-> "robots", step |-> "next", hosts |-> aliases, live |-> active,
                 todo |-> aliases, at |-> Null, found |-> {}, back |-> {},
                 barred |-> {}, drifted |-> {}, said403 |-> {}]
    /\ running' = {"robots"}
    /\ UNCHANGED <<active, aliases, written>>

Robots(h) == In("robots", "next") /\ h \in cycle.todo

\* No hash to compare with, refused by the gate, or no answer: skipped.  Or the
\* hash that was reviewed, where only the date of the reading changes.
RobotsKept(h) ==
    /\ Robots(h)
    /\ Pass(h)
    /\ UNCHANGED <<tables, running>>

\* A 403, another error, a redirect or a challenge is skipped and reported,
\* and changes nothing for the phases to come.
RobotsUnusable(h) ==
    /\ Robots(h)
    /\ Company[h] \in cycle.live
    /\ cycle' = [cycle EXCEPT !.todo = @ \ {h}, !.barred = @ \cup {h}]
    /\ UNCHANGED <<tables, running>>

\* Mutant: the drift is reported and the alias stays.
RobotsDriftReported(h) ==
    /\ Robots(h)
    /\ Company[h] \in cycle.live
    /\ cycle' = [cycle EXCEPT !.todo = @ \ {h}, !.drifted = @ \cup {h}]
    /\ UNCHANGED <<tables, running>>

\* A 404 or another hash pauses the alias.
RobotsDrift(h) ==
    /\ Robots(h)
    /\ Company[h] \in cycle.live
    /\ aliases' = aliases \ {h}
    /\ cycle' = [cycle EXCEPT !.todo = @ \ {h}, !.drifted = @ \cup {h}]
    /\ UNCHANGED <<active, page, written, running>>

BeginDiscovery ==
    /\ In("robots", "next") /\ cycle.todo = {}
    /\ Open("discovery")
    /\ List("discovery", aliases, aliases)
    /\ UNCHANGED tables

-----------------------------------------------------------------------------
(* The gate                                                                *)

\* decideFetch up to the URL's shape: the source is reviewed and active, the
\* host one of its active aliases, both as the phase read them.
Gate(h) == Company[h] \in cycle.live /\ h \in cycle.hosts

BackedOff(h) == Company[h] \in cycle.back

-----------------------------------------------------------------------------
(* Phase 1: discovery                                                      *)

Listing(h) == In("discovery", "next") /\ h \in cycle.todo

\* Backed off, refused by the gate, or no slot.
SkipListing(h) ==
    /\ Listing(h)
    /\ Pass(h)
    /\ UNCHANGED <<tables, running>>

\* The slot is claimed and the request leaves.
AskListing(h) ==
    /\ Listing(h)
    /\ ~ BackedOff(h) /\ Gate(h)
    /\ Ask(h)
    /\ UNCHANGED <<tables, running>>

\* No answer, or one that is not grounded; or the listing of a listing_only
\* source, whose drafts are written and whose links are not queued.
ListingDone ==
    /\ In("discovery", "wait")
    /\ Answered
    /\ UNCHANGED <<tables, running>>

ListingSlow ==
    /\ In("discovery", "wait")
    /\ SlowDown(Company[cycle.at])
    /\ UNCHANGED <<tables, running>>

\* Mutant: backed off for the phase, active for the next.
Listing403BackedOff ==
    /\ In("discovery", "wait")
    /\ cycle' = [cycle EXCEPT !.at = Null, !.step = "next",
                              !.back = @ \cup {Company[cycle.at]},
                              !.said403 = @ \cup {Company[cycle.at]}]
    /\ UNCHANGED <<tables, running>>

Listing403 ==
    /\ In("discovery", "wait")
    /\ SaysNo(Company[cycle.at])
    /\ UNCHANGED <<aliases, page, written, running>>

\* Links to any of the company's active aliases.
ListingLinks ==
    /\ In("discovery", "wait")
    /\ Company[cycle.at] \notin ListingOnly
    /\ \E links \in SUBSET {p \in Pages : /\ Company[HostOf[p]] = Company[cycle.at]
                                          /\ HostOf[p] \in cycle.hosts} :
          cycle' = [cycle EXCEPT !.at = Null, !.step = "queue", !.found = links]
    /\ UNCHANGED <<tables, running>>

\* One INSERT ... WHERE NOT EXISTS for each link; one that fails is passed
\* over.
Enqueue(p) ==
    /\ In("discovery", "queue") /\ p \in cycle.found
    /\ \/ /\ page[p].status = "unknown"
          /\ page' = [page EXCEPT ![p] = [status |-> "pending", age |-> 0,
                        since |-> Cardinality({q \in Pages : page[q].status # "unknown"})]]
       \/ UNCHANGED page
    /\ cycle' = [cycle EXCEPT !.found = @ \ {p}]
    /\ UNCHANGED <<active, aliases, written, running>>

Enqueued ==
    /\ In("discovery", "queue") /\ cycle.found = {}
    /\ cycle' = [cycle EXCEPT !.step = "next"]
    /\ UNCHANGED <<tables, running>>

-----------------------------------------------------------------------------
(* Phase 2: ingest                                                         *)

Stale == {p \in Pages : page[p].status = "fetched" /\ page[p].age = StaleNights}

\* The pages of T back to 'pending'.
Requeued(T) ==
    [p \in Pages |-> IF p \in T THEN [page[p] EXCEPT !.status = "pending", !.age = 0] ELSE page[p]]

\* The aliases are read once for ingest and link check.
BeginIngest ==
    /\ In("discovery", "next") /\ cycle.todo = {}
    /\ Open("ingest")
    /\ cycle' = [cycle EXCEPT !.phase = "ingest", !.step = "requeue", !.hosts = aliases]
    /\ UNCHANGED tables

\* The stale pages go back to the queue, up to the limit.
RequeueStale ==
    /\ In("ingest", "requeue")
    /\ \E T \in SUBSET Stale :
          /\ Cardinality(T) = IF Cardinality(Stale) < RequeueLimit THEN Cardinality(Stale)
                                                                   ELSE RequeueLimit
          /\ page' = Requeued(T)
    /\ cycle' = [cycle EXCEPT !.step = "load"]
    /\ UNCHANGED <<active, aliases, written, running>>

\* The oldest pending pages are the phase's list.
LoadPages ==
    /\ In("ingest", "load")
    /\ \E list \in Oldest(Pending(page), page, MaxPages) : List("ingest", cycle.hosts, list)
    /\ UNCHANGED <<tables, running>>

Page(p) == In("ingest", "next") /\ p \in First(cycle.todo)

\* decideFetch: listing_only is looked at last.
Fetchable(p) == Gate(HostOf[p]) /\ Company[HostOf[p]] \notin ListingOnly

\* Backed off, or no slot: left 'pending'.
SkipPage(p) ==
    /\ Page(p)
    /\ BackedOff(HostOf[p]) \/ Fetchable(p)
    /\ Pass(p)
    /\ UNCHANGED <<tables, running>>

\* Mutant: what the gate refuses stays in the queue.
RefusePageKept(p) ==
    /\ Page(p)
    /\ ~ BackedOff(HostOf[p])
    /\ ~ Fetchable(p)
    /\ Pass(p)
    /\ UNCHANGED <<tables, running>>

\* Refused by the gate: a page never to be fetched, or a failure.
RefusePage(p) ==
    /\ Page(p)
    /\ ~ BackedOff(HostOf[p])
    /\ ~ Fetchable(p)
    /\ Set(p, IF Gate(HostOf[p]) THEN "excluded" ELSE "failed")
    /\ Pass(p)
    /\ UNCHANGED <<active, aliases, written, running>>

\* The slot is claimed and the request leaves.
AskPage(p) ==
    /\ Page(p)
    /\ ~ BackedOff(HostOf[p]) /\ Fetchable(p)
    /\ written' = written \ {p}
    /\ Ask(p)
    /\ UNCHANGED <<active, aliases, page, running>>

\* No answer, not grounded or not an event page: never fetched again.
PageFails(p) ==
    /\ In("ingest", "wait") /\ cycle.at = p
    /\ Set(p, "failed")
    /\ Answered
    /\ UNCHANGED <<active, aliases, written, running>>

PageSlow ==
    /\ In("ingest", "wait")
    /\ SlowDown(Company[HostOf[cycle.at]])
    /\ UNCHANGED <<tables, running>>

\* 403: the page is marked, and in the next await the source is paused.
Page403 ==
    /\ In("ingest", "wait")
    /\ Set(cycle.at, "failed")
    /\ cycle' = [cycle EXCEPT !.step = "stop",
                              !.back = @ \cup {Company[HostOf[cycle.at]]},
                              !.said403 = @ \cup {Company[HostOf[cycle.at]]}]
    /\ UNCHANGED <<active, aliases, written, running>>

PauseCompany ==
    /\ In("ingest", "stop")
    /\ Deactivate(Company[HostOf[cycle.at]])
    /\ Answered
    /\ UNCHANGED <<aliases, page, written, running>>

\* Mutant: the page marked before its draft is written.
PageParsedMarked(p) ==
    /\ In("ingest", "wait") /\ cycle.at = p
    /\ Set(p, "fetched")
    /\ cycle' = [cycle EXCEPT !.step = "write"]
    /\ UNCHANGED <<active, aliases, written, running>>

\* The page yields a draft.
PageParsed(p) ==
    /\ In("ingest", "wait") /\ cycle.at = p
    /\ cycle' = [cycle EXCEPT !.step = "write"]
    /\ UNCHANGED <<tables, running>>

\* The upsert's batch.
WritePage ==
    /\ In("ingest", "write")
    /\ written' = written \cup {cycle.at}
    /\ cycle' = [cycle EXCEPT !.step = "mark"]
    /\ UNCHANGED <<active, aliases, page, running>>

MarkPage ==
    /\ In("ingest", "mark")
    /\ Set(cycle.at, "fetched")
    /\ Answered
    /\ UNCHANGED <<active, aliases, written, running>>

-----------------------------------------------------------------------------
(* Phases 3 and 5: link check, automatic approval                          *)

\* The hosts of approved rows' pages.  Rows of paused sources are read too.
BeginLinks ==
    /\ In("ingest", "next") /\ cycle.todo = {}
    /\ Open("links")
    /\ \E list \in SUBSET Hosts : List("links", cycle.hosts, list)
    /\ UNCHANGED tables

Link(h) == In("links", "next") /\ h \in cycle.todo

\* Backed off, refused or no slot; or listing_only, where the row is checked
\* without a request.
SkipLink(h) ==
    /\ Link(h)
    /\ Pass(h)
    /\ UNCHANGED <<tables, running>>

AskLink(h) ==
    /\ Link(h)
    /\ ~ BackedOff(h) /\ Gate(h) /\ Company[h] \notin ListingOnly
    /\ Ask(h)
    /\ UNCHANGED <<tables, running>>

\* The row is stamped live, or demoted.
LinkDone ==
    /\ In("links", "wait")
    /\ Answered
    /\ UNCHANGED <<tables, running>>

LinkSlow ==
    /\ In("links", "wait")
    /\ SlowDown(Company[cycle.at])
    /\ UNCHANGED <<tables, running>>

Link403 ==
    /\ In("links", "wait")
    /\ SaysNo(Company[cycle.at])
    /\ UNCHANGED <<aliases, page, written, running>>

\* It asks nobody for anything.
BeginApprove ==
    /\ In("links", "next") /\ cycle.todo = {}
    /\ Open("approve")
    /\ cycle' = [cycle EXCEPT !.phase = "approve"]
    /\ UNCHANGED tables

EndCycle ==
    /\ In("approve", "next")
    /\ cycle' = Over
    /\ running' = {}
    /\ UNCHANGED tables

-----------------------------------------------------------------------------
(* What stops an invocation, and what operators do                         *)

\* A statement that is refused or fails throws out of its phase, whose row is
\* closed as failed; a killed invocation closes nothing.
Abort ==
    /\ cycle # Over
    /\ cycle' = Over
    /\ running' \in {{}, running}
    /\ UNCHANGED tables

\* By hand only: a source or alias is paused, or reviewed again and released.
SwitchSource(s) ==
    /\ active' = (active \cup {s}) \ (active \cap {s})
    /\ cycle' = IF cycle = Over THEN cycle ELSE [cycle EXCEPT !.said403 = @ \ ({s} \ active)]
    /\ UNCHANGED <<aliases, page, written, running>>

SwitchAlias(h) ==
    /\ aliases' = (aliases \cup {h}) \ (aliases \cap {h})
    /\ cycle' = IF cycle = Over THEN cycle
                ELSE [cycle EXCEPT !.barred = @ \ ({h} \ aliases),
                                   !.drifted = @ \ ({h} \ aliases)]
    /\ UNCHANGED <<active, page, written, running>>

-----------------------------------------------------------------------------

CrawlInit ==
    /\ active \in SUBSET Sources
    /\ aliases \in SUBSET Hosts
    /\ page = [p \in Pages |-> [status |-> IF p \in Backlog THEN "pending" ELSE "unknown",
                                since  |-> 0, age |-> 0]]
    /\ written = {}
    /\ running = {}
    /\ cycle = Over

Progress ==
    \/ StartCycle \/ BeginDiscovery \/ BeginIngest \/ RequeueStale \/ LoadPages
    \/ BeginLinks \/ BeginApprove \/ EndCycle
    \/ \E h \in Hosts : \/ RobotsKept(h) \/ RobotsUnusable(h) \/ RobotsDrift(h)
                        \/ SkipListing(h) \/ AskListing(h) \/ SkipLink(h) \/ AskLink(h)
    \/ ListingDone \/ ListingSlow \/ Listing403 \/ ListingLinks \/ Enqueued
    \/ LinkDone \/ LinkSlow \/ Link403
    \/ \E p \in Pages : \/ Enqueue(p) \/ SkipPage(p) \/ RefusePage(p) \/ AskPage(p)
                        \/ PageFails(p) \/ PageParsed(p)
    \/ PageSlow \/ Page403 \/ PauseCompany \/ WritePage \/ MarkPage

CrawlNext ==
    \/ Progress
    \/ Abort
    \/ \E s \in Sources : SwitchSource(s)
    \/ \E h \in Hosts : SwitchAlias(h)

CrawlSpec == CrawlInit /\ [][CrawlNext]_crawlVars

\* Every night a cycle starts and goes on; from some night on none is stopped
\* half-way; a page that is tried again and again is asked for, and answered,
\* again and again.  Nobody has to switch anything.
FairNights ==
    /\ CrawlSpec
    /\ WF_crawlVars(Progress)
    /\ <>[][Abort => EndCycle]_crawlVars
    /\ \A p \in Pages : /\ SF_crawlVars(AskPage(p))
                        /\ SF_crawlVars(PageFails(p) \/ PageParsed(p))

-----------------------------------------------------------------------------
(* Properties                                                              *)

\* Every table and the invocation have their shape.
CrawlTypeOK ==
    /\ active \subseteq Sources
    /\ aliases \subseteq Hosts
    /\ page \in [Pages -> PageRow]
    /\ written \subseteq Pages
    /\ running \subseteq Phases
    /\ cycle \in {Over} \cup Cycle

\* The step sends a request for content to host h.
Requests(h) ==
    \/ AskListing(h)
    \/ AskLink(h)
    \/ \E p \in Pages : HostOf[p] = h /\ AskPage(p)

\* discover.js, ingest.js and linkcheck.js on 403: "an answer that stops that host".  Once
\* a listing, a page or a link of a company was answered with 403, no host of
\* it is asked again in that night, in whatever phase, until a person has
\* released the company.  (For robots.txt itself, see RobotsAnswerStops.)
StopsAt403 ==
    [][\A h \in Hosts : Requests(h) => Company[h] \notin cycle.said403]_crawlVars

\* robotscheck.js: a host whose robots.txt is not the reviewed one is not
\* asked for anything else in that night until a person has looked at it.
DriftStopsHost ==
    [][\A h \in Hosts : Requests(h) => h \notin cycle.drifted]_crawlVars

\* A page is 'fetched' only if its event row holds what the fetch found,
\* wherever the invocation was stopped.
FetchedMeansWritten ==
    \A p \in Pages : page[p].status = "fetched" => p \in written

\* No run stays 'running' behind the one under way: a row of a killed
\* invocation is closed before another phase opens its own.
OneRunOpen == cycle # Over => running = {cycle.phase}

\* A queued page is dealt with in the end: fetched, failed or excluded.
QueueDrains == \A p \in Pages : []<>(page[p].status # "pending")

-----------------------------------------------------------------------------
(* What the repository says and the phases refute                          *)

\* ARCHITECTURE.md section 9: "a server error skips the host", "stopping
\* entirely on 403"; robots.js: anything but 404 and 2xx -> "skip_host".  A
\* host that answered for robots.txt with an error or a challenge is not asked
\* for content in that night until a person has looked at it.
RobotsAnswerStops ==
    [][\A h \in Hosts : Requests(h) => h \notin cycle.barred]_crawlVars

=============================================================================
