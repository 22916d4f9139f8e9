# ALMANAC in TLA+

ALMANAC collects martial-arts events from the web, has people review them and
publishes the approved ones to an app. It is three Cloudflare Workers (console,
scout, publisher) around one D1 database, a page in the reviewer's browser, and
the app's ingest function. This directory holds TLA+ models of that system, TLC
configurations that check them on small instances, and TLAPS proofs of every
safety property the runs check, for every size. The law the models were read from is the code; `ARCHITECTURE.md` and the comments are
used only to say what the code is *meant* to do.

Contents: [inventory](#inventory) · [modules](#modules-and-the-code) ·
[runs](#runs) · [bounds](#bounds) · [fairness](#fairness) ·
[proofs](#proofs) · [where code and documents differ](#where-code-and-documents-differ) ·
[limits](#abstractions-and-limits) · [not modelled](#not-modelled) · [plan](#plan)

## Inventory

### Parts and the state they keep

| part | code | state | operations |
|---|---|---|---|
| Ledger | `migrations/20260915000100_core_schema.sql` | `events`, `venues`, `venue_sessions`, `review_log`, `approval_rules`, `reviewers`; the triggers are its program | insert, transition, content update, each inside a batch that is taken or rolled back whole |
| Console | `console/src/{index,data,lib,auth}.js` | none of its own: each request reads rows in several awaits, judges, then sends one batch | approve, reject, merge, distinct, edit, undo, add; queue and statistics only read |
| Page | `console/public/app.js` | a copy of the queue, an index, the detail of one row, a form, `busy`; requests in flight | keys and panels, each starting a chain of requests that ends in a redraw |
| Scout: upserts | `scout/src/ingest.js`, `d1adapters.js` | the existing row it loaded, the plan it made | insert, update, demote-and-update |
| Scout: link check | `scout/src/linkcheck.js` | a snapshot of the approved rows least recently checked | stamp live, demote dead, skip |
| Scout: automatic approval | `scout/src/autoapprove.js` | the rule, the candidates read once | hold as twin, approve |
| Scout: night | `fetchgate.js`, `fetcher.js`, `robotscheck.js`, `gate.js`, `discover.js`, `ingest.js`, `index.js`, `run.js` | `sources`, `source_aliases`, `discovered_pages`, `crawl_runs` | fetch, back off, deactivate, pause, queue pages, close runs |
| Scout: clock | `limiter.js`, `d1ClaimSlot` | `sources.last_claimed_at` | claim a slot, wait for one, give up |
| Scout: readers | `robots.js`, `parsers/smoothcomp.js`, `geo.js`, `listingdrafts.js` | none; a listing's entries become rows | read a robots.txt, a page, a listing; derive a state |
| Hand tool | `scripts/fetch-one.mjs` | none | robots.txt, a wait, one page |
| Publisher | `publisher/src/*.js` | `published_at` | select due, post a signed batch, mark |
| App (external) | `almanac-ingest`, not in this repository | the app's `tournaments` by `almanac_id` | upsert a batch within the freshness window |

### How they interact

Everything shared is in D1. D1 runs one batch at a time and a refused statement
rolls the whole batch back, so a batch is an atomic step. Nothing longer is: a
console request awaits three or four reads before its batch; the nightly scout
reads a list and works through it for minutes; the publisher reads, posts and
marks in three separate awaits. There is no lock, no version column and no
compare-and-set except one: a `transition` entry in `review_log` names the
status it starts from, and the trigger refuses it if that is not the row's
status. The publisher and the app meet only through HTTP posts that may be
lost, late, or applied without the sender hearing of it. The page and the console
meet the same way, with a time-out of fifteen seconds. The scout and the hand tool
share nothing but the hosts they ask.

### What is hard

* **Interleaving of readers that write.** Reviewers with each other, reviewers
  with the crawl, the link check and the nightly approval. Status is compared
  at the end, *content* is not.
* **Long histories.** Approve, demote, revise, reject, take back, approve: the
  approval columns, the status and the log must agree after all of it.
* **A switch turned half-way.** A rule or a reviewer is switched off while a
  job that read it as on is under way.
* **Unreliable delivery.** Lost answers, dead invocations, two invocations that
  overlap, an old batch that arrives after a newer one.
* **Queues that must drain**, the publisher's and the crawl's, through those
  failures and with a cap on each round.
* **A page ahead of its data.** The index moves at once, the facts follow, and
  answers come late, out of order or never; keys act on one, eyes on the other.
* **A shared clock without a lock.** Workers compare and write a time they read
  before, and send their request after.
* **Text from elsewhere.** A robots.txt, a page, a listing may be anything; what is
  read from them binds the crawl or becomes rows.
* **Judging by what was read earlier.** Each phase of the night judges by rows of
  `sources` and `source_aliases` it read at its beginning, while answers (a 403, a
  drifted robots.txt) and operators change them.

`docs/VERIFICATION.md` lists two writers at once among the things never tested.
`PROJECT.json` lists each hazard at its line with the properties aimed at it.

### What makes each part correct

* Ledger: the log alone explains each status; transitions of a row form one
  chain of listed moves; an approval names the entry, and the person or rule,
  behind it; approved content does not change; no bare `UPDATE` gets past the
  guards; nothing is approved by a rule that is off or a person who is not
  active; rejected and expired rows do not come back by themselves.
* Console and scout: whatever they read too early, they take only steps the
  ledger allows; the machine never overrules a standing rejection; an automatic
  approval is what the rule promises.
* Publisher: only content that a person approved reaches members; `published_at`
  never vouches for what the app does not have; what is approved and stays
  approved arrives.
* Crawl: a company that answered a listing, a page or a link with 403 is asked nothing more
  that night, nor is a host whose rules are no longer the reviewed ones (a no to the request
  for the rules themselves stops nobody, see below); a page marked as fetched has its event row, wherever
  the invocation was killed; a queued page is dealt with in the end; no run of a
  killed invocation stays open.
* Page: what is drawn is what the keys act on, once nothing is in flight; a
  decision is not taken twice because an answer was lost; a busy page is free again.
* Clock: requests to a company keep its interval; nobody waits longer than its
  budget, and nobody is refused but for a rival.
* Readers: the rules obeyed are the rules written; only event pages are asked for;
  a row says what the page says and the database takes it; a listing arrives and
  settles.

## Modules and the code

```
StatusRules        the statuses and the moves between them
  ReviewLedger     events, venues, review_log and every trigger on them
    ReviewDesk     console requests and the scout's nightly cycle over the ledger
  PublishPipe      publisher, network and app over the events table
ConsolePage        the reviewer's page and the server it sees
CrawlCycle         the scout's night: gate, requests, page queue, crawl_runs
CrawlLaw           what a site may expect: requests an interval apart
  CrawlClock       Workers that claim a company's slot, wait, and ask
ScoutValues        days, texts and nothing, as the readers tell them apart
  RobotsFile       the robots.txt reader, and the lines' own meaning
  PageRules        source gate, URL rules, page reader, the CHECKs of events
    HandFetch      fetch-one.mjs (with RobotsFile)
    ListingNight   a listing_only source, night after night
ReviewLedgerProofs, ReviewDeskProofs, PublishPipeProofs,
ConsolePageProofs, CrawlCycleProofs, CrawlClockProofs          theorems
ReadingProofs      theorems about RobotsFile, PageRules, HandFetch, ListingNight
CountingProofs     induction and recursion over the naturals, for the proofs
MCReviewLedger, MCReviewDesk, MCPublishPipe, MCConsolePage,
MCCrawlCycle, MCCrawlClock, MCReading                          instances for TLC
```

Two abstract specifications have an implementation: `ReviewLedger!Spec`, which
everything that writes listings implements (`DeskImplementsLedger`), and
`CrawlLaw!Law`, which the claims of `CrawlClock` implement (`KeepsLaw`); both are proved. `MCReading`
puts `HandFetch` and `ListingNight` side by side, each run doing one or the other.

**StatusRules** is the `status_transition_rules` table: moves a `system:` actor
may make alone, moves that need a person, and expiry.

**ReviewLedger** is the database. `row` is the events and venues tables,
`log` is `review_log` in id order, `enabled` and `active` are the switches of
`approval_rules` and `reviewers`. `Admits` is the list of refusals of
`review_log_checks` and `review_log_apply_transition`, in named parts
(`IsCurrent`, `SystemMay`, `HasLink`); `Applied` is what that trigger writes;
`Unlocked` is the content lock; `GuardAdmits` is the test of
`events_status_guard`. Each action is one batch as the callers really compose
it: `Enter` (insert, create entry, first transition), `Move`, `Merge`,
`Revise`, `DemoteAndRevise`. `Next` lets any actor send any batch with any
claimed `from`: the most general client of those that write their log entries (an
UPDATE of the content alone, which no code sends, is not among its batches), so it
is also the *abstract specification* of everything that writes listings. In the step of a rejected
batch nothing happens, so it is not a step here.

**ReviewDesk** are the clients as the code has them. `desk[a]` is a reviewer's
request in flight, with what it read; each await is an action: `Begin`
(`requireStatus`), `ReadEvent`, `ReadSignals`, `ReadCandidates` (the three
reads of `rowDetail`, after which `MayApprove` decides), then `Decide`,
`MergeInto` or `MarkDistinct`; `BeginEdit`/`Edit`; `BeginUndo`/`Undo`;
`AddEvent`. `scout` is the nightly cycle: `LoadExisting`/`Upsert`, then
`LoadLinks` with `LinkKept` and `LinkDead`, then `LoadCandidates`,
`CompareTwins`, `AutoApprove`. A batch the ledger refuses ends the request
(409), or throws and ends the scout's night. `verified` and `cleared` are the
`row_signals` that matter: the newest check of a row's critical fields and the
newest `distinct` signal.

**PublishPipe** is `runPublishCycle`: `StartCycle` takes the timestamp, `Select`
is `SELECT_DUE_SQL` with the anomaly ceiling, the batch cap and the throw of
`buildBatch`, `Mark` is `MARK_PUBLISHED_SQL`. `Deliver`, `DeliverUnheard` and
`Lose` are the network and `almanac-ingest`; `Die` is a killed invocation. `Ingest` is the
upsert with the app's `tournaments_demote_on_edit` (`ARCHITECTURE.md:179`, `:191`): an
approved copy that gets another content goes to the app's own review, where
`AppDecides` approves or rejects it. The
editors (`Insert`, `Transit`, `Revise`, `DemoteAndRevise`) are the ledger's
batches reduced to status, content and `updated_at`. Several invocations may
overlap (`Slots`). Two ghosts that no column holds: `blessed`, the contents a
person ever approved a row with, here or in the app, and `job[c].flying`, that a batch may still land.

**CrawlCycle** is `runCrawlCycle`. ReviewDesk has what the night does to
listings; this module has what it does to hosts, pages and its own bookkeeping.
`active` and `aliases` are the switches of `sources` and `source_aliases`, `page`
is `discovered_pages`, `running` the open rows of `crawl_runs`, and `cycle` the
invocation: its phase, the rows as the phase read them (`hosts`, `live`), what is
left of its list, what it waits for, and `backedOff`. The phases run in the
code's order: `StartCycle` and the robots.txt readings (`RobotsKept`, `RobotsUnusable` for
an error, a 403 or a challenge, `RobotsDrift`); `BeginDiscovery`, then
for each alias `SkipListing` or `AskListing` and one answer (`ListingDone`,
`ListingSlow`, `Listing403`, or `ListingLinks` with an `Enqueue` per link);
`BeginIngest`, which reads the aliases, `RequeueStale`, `LoadPages`,
then for each page in the order of `discovered_at` `SkipPage`, `RefusePage` or
`AskPage` and one answer (`PageFails`, `PageSlow`, `Page403` and `PauseCompany`,
or `PageParsed`, `WritePage`, `MarkPage`); `BeginLinks` and the link check;
`BeginApprove`, `EndCycle`. `Gate` is `decideFetch`. `Abort` is a throw out of a
phase or a kill, possible at every await; `SwitchSource` and `SwitchAlias` are
operators, at any time. `cycle.said403`, `cycle.barred` and `cycle.drifted` repeat what the
phases put into their reports, and `written` says that a page's event row holds
what its last fetch found.

**ConsolePage** is `app.js`. `rows`, `idx`, `detail` and `decisions` are the page's
copies; `mode`, `overlay`, `form` and `busy` what it does at the moment; `tasks` its
requests in flight. A chain of awaits is one task whose `step` moves on: `act` and
`saveEdit` go from `post` over `overview` to `detail`, `refreshDetail` has the last
only. Each key is an action with the guards of the `keydown` handler and of the
function it calls. `Served`, `OverviewArrives` and `DetailArrives` are answers;
`PostFails` and `LoadFails` are refusals, errors and the fifteen-second timer; a
call that was given up on stays in `late` until `LateServed`. The server's handlers
are one step each: ReviewDesk takes them apart. `OthersMove` is everybody else.

**CrawlClock** is `d1ClaimSlot` over `claimRateLimitSlot`, called by `gatedFetch`. A
Worker is `asking` with the time it `read`; the UPDATE changes the row (`Claim`) or
does not (`Refused`), in which case it sleeps until `wake` or is `denied`; a granted
slot is used by `Send`, later. `Kill` may come at any place. **CrawlLaw** has one
variable, when each company was last asked, and one rule.

**RobotsFile** has `parseRobots` as a function over the lines, then the choice of
groups, of the rule and of the delay. Its second half, from `SpeaksFor` on, says what
the lines of a file bind us to without reading them in order: for each rule, which
User-agent lines speak for it. `ReadsAsWritten` compares the two. **HandFetch** is
the tool built on it: `Begin` (gate and URL), `ReadRobots`, `Wake` after the wait,
`ReadPage`; time passes in `Tick`, and `Slip` is how early a timer may fire.

**PageRules** has the verdicts that need no state: `CheckSource` (ten recorded
fields, a verdict, active), `Decoded` and `ClassifyUrl` (three rounds of
percent-decoding, then the path rules), `DecideFetch`, `ParseEventPage`, `ToDraftRow`,
and `Storable`, the CHECKs those rows meet.

**ListingNight** is `writeListingDrafts` for one source. `StartNight` parses the
listing; each entry is `Unresolved` or loaded (`LoadEntry`, by reference or by key),
then `Insert`, `Touch` or `Update`, or the batch is `Refused` and the night over.
`ChangeListing` is the organizer, `Decide` the reviewer. A row's `key` and place in
`rows` (its reference) stay as they were inserted, as the UPDATE of `ingest.js`
leaves them. Kilometres lie on a line; `DeriveState` has the code's threshold, ratio
and box.

Definitions marked *Mutant* are not part of any specification. Each is a
definition of the model with a plausible bug (a dropped guard, a missing reset)
and stands before the definition it imitates; with it in that definition's
place TLC finds the property it is paired with in `PROJECT.json` violated.

## Runs

Passing:

| run | configuration | question | answer |
|---|---|---|---|
| `ledger` | `MCReviewLedger.cfg` | Can any sequence of batches from anybody, each with the log entries its code writes, make tables and log disagree? | No: eight properties, from `StatusFollowsLog` to `RejectionSticks`. |
| `desk` | `MCReviewDesk.cfg` | A reviewer and the whole night, on one listing with two contents or on two that may be one event: is every step one the ledger allows, does the machine overrule people or approve a twin? | `DeskImplementsLedger`, `MachineRespectsRejection` and `ApprovedAsJudged` hold; two twins never approve each other, because each comparison sees the batches before it. |
| `pipe` | `MCPublishPipe.cfg` | Two overlapping invocations, lost answers, deaths, late batches: may an unapproved content cross, or a mark vouch for what is not there? | `OnlyApprovedCrosses` and `PublishedMeansDelivered` hold; a mark covers exactly what its batch carried. |
| `pipe_drains` | `MCPipeDrains.cfg` | Two rows and a batch cap of one: does every approved row arrive? | `BacklogDrains` holds under `FairPipe`. |
| `crawl` | `MCCrawlCycle.cfg` | Nights with two hosts of one company and two pages: may a host be asked again whose company answered a request for content with 403, or whose rules drifted; may a mark vouch for a row that is not written, a run stay open, a page wait for ever? | No: `StopsAt403`, `DriftStopsHost`, `FetchedMeansWritten`, `OneRunOpen`, and under `FairNights` `QueueDrains`. |
| `page` | `MCConsolePage.cfg` | Three keys on a queue of two and a row to add, answers late, lost or out of order: may a row be decided twice, or the page stay busy? | No: `OneDecisionPerStay`, `BusyIsOneJob`, `BusyEnds`; and `SettledShowsCurrent` if no load failed or overlapped another. |
| `clock` | `MCCrawlClock.cfg` | Two Workers, killed anywhere, a company at the floor and one slower than the budget: do requests keep apart, and is anybody refused or held for nothing? | `KeepsLaw` (up to `MaxLag`) and `RefusedOnlyIfRivalled` hold; a sleeper's timer never passes its budget (`ClockTypeOK`). |
| `reading` | `MCReading.cfg` | Every robots.txt of three lines and longer telling ones; a listing that changes while nights and a reviewer go on: are the rules read as written and kept, and do the rows come to say what the listing says? | `ReadsAsWritten`, `WaitsAsAsked`, `AsksOnlyEventPages`, `ReadRowsStorable`, `StatesAreDerived` hold; `EntriesArrive` and `NightsSettle` under their conditions, below. |

`SettledShowsCurrent` and `page_unseen` are two sides of one thing: what is drawn is
what the keys act on only while loads come through. `OneDecisionPerStay` survives the
page's untrue "Nothing was saved" because `decide` asks for the status again, late
call or not.

`EntriesArrive` has a condition, `Stands`: no entry before it in the listing is one
the database refuses. An entry with too long a name throws out of the writer each
night, and what follows it never arrives (`listingdrafts.js:67`). `NightsSettle` has
one too, `Apart`: of two entries with one name, day and state but two references, each
overwrites the other's row in turn (`d1adapters.js:169`). Without either condition TLC
finds the listing. `StatesAreDerived` looks no further than the box the gazetteer is
read with; a place of another state beyond it may be within the ratio and goes
unseen, so is the last of `MCPlaces`. `ReadRowsStorable` says exactly which of the
reader's rows are refused: one with a text of a length its column does not take (counted
by the database, which counts a character beyond the basic plane once and stops at a
NUL); one with an empty end date, which the page's rules pass over
(`smoothcomp.js:425`) and `toDraftRow` keeps (`:511`); and one with a link that is
https only once the URL parser has mended it, `https:host/x` or one with a space before
it (`lib.js:94`), kept as written where the CHECK asks for `https://`
(`core_schema.sql:114`).

`KeepsLaw` is about requests, not claims. A claim stamps the time read before the
UPDATE, the request leaves after it, and nothing in the code bounds the two together:
`MaxLag` is an assumption, and two requests keep apart by the interval less `MaxLag`.

`StopsAt403` holds although no phase looks at what another one heard: within a
phase `backedOff` stands before the gate, and each later phase reads `sources`
again, after the company was paused. `DriftStopsHost` rests on where the code
reads the aliases: once for discovery, and once more for ingest and link check,
both after the robots.txt phase. With either read moved before that phase, TLC
finds a request to a drifted host.

`PublishedMeansDelivered` needs the freshness window (5 minutes, `sign.js`) to be
shorter than the cron period (10 minutes): then a batch of one invocation cannot
land after a later invocation's. With `Window` above `Period` TLC shows an old
content delivered over a newer one that is already marked. No line of the code
ties the two numbers together.

Two of the properties deserve a reading. `MachineRespectsRejection` is about the
newest word of a *person*: a reviewer's rejection that still stands is never
turned into an approval by the nightly rule, although the rule's candidates may
be minutes old. What saves it is the trigger's comparison of `from_status`: a
rejected row can come back only by a person, whose word is then the newest.
`ApprovedAsJudged` takes the night's reads as what they are: only if nobody
touched a listing after the candidates were read does an automatic approval
carry everything `autoapprove.js` promises.

### Where code and documents differ

The remaining runs end in a counterexample. Each checks one sentence of the
repository, quoted in `PROJECT.json`.

| run | the sentence | what the run shows |
|---|---|---|
| `undo_reverses_later` | `data.js:333` "You can only undo your own decisions" | Ann approves and asks for an undo. Between its checks and its batch the link check sends the row back and the automatic approval approves it again; the batch names only the status and reverses the machine's approval. |
| `pipe_gone` | `ARCHITECTURE.md:198` marking a row stale removes it from the member read; `payload.js:57` a rejected row "never crossed to 'approved' in the first place" | The first batch was applied but not confirmed; `published_at` is still NULL when the row goes stale, so no retraction is ever sent. The same property fails for a published row that is sent back and then rejected: `selection.js` takes only approved and stale rows. |
| `robots_no` | `ARCHITECTURE.md:110` "a server error skips the host", "stopping entirely on 403"; `ARCHITECTURE.md:137` "A challenge or a 403 is an answer: the scout stops for that host"; `robots.js` and its test: 403 and 5xx are `skip_host` | The answer for robots.txt is a 403, a 5xx or a challenge. The check skips the reading and reports it; nothing tells the phases to come, and discovery asks the host for its listing in the same night. |
| `page_unseen` | `ARCHITECTURE.md:45` the reviewer reads a row "and approves, rejects, edits, merges, or skips" it; `app.js:69` "Nothing was saved ... then try again" | A load fails after the index moved: the facts on the screen are one row's, and the next key, pressed with nothing in flight, decides another. |

More disagreements are in the models and listed as hazards, without a run of their own:

* A plain approval may land on content that no recorded check has seen: a re-crawl or an
  edit changes it between the reads and the batch (`data.js:204`, against
  `lib.js:238`).
* A row that a person rejected and took back after the night's candidates were
  read is approved by the rule, while `ARCHITECTURE.md:96` says that "no human ever
  sent the row back or rejected it".
* A re-queued page keeps its `discovered_at` and goes before every page discovered
  later. With more pages than the crawl fetches in the nights before they are stale,
  a new one never gets its turn, though later runs "work the queue down, oldest
  first" (`20260919010000_crawl_rate_limit_and_discovery_queue.sql:29`).
* A stale row that lost its registration link makes `buildBatch` throw in every
  cycle, with the whole backlog behind it (`payload.js:22`).
* `identity.js:17` says a group's name is matched "by prefix"; `robots.js:82` asks
  whether our name contains it anywhere. The model has the code's rule (`Fit`).

## Bounds

Every bound is a constant of the module it bounds or a set in the
configuration.

* `MaxLog` (review_log entries) is 4 to 6. An insert takes two entries, so 4 is
  insert, approve, demote or reject; 5 adds a second decision; 6 is insert,
  reject, take back, edit, approve, the longest history any property here needs.
  The theorems remove this bound.
* One event and one venue suffice for `ledger`: no trigger modelled relates two
  rows (a merge names the other row in a note only). Two events in `desk` and
  `pipe_drains`, where rows do meet: as twins, as duplicates, in the backlog. `Bounded`
  keeps `desk` small: while it has one listing the two contents and six entries, with two
  of them the good content and five. Nothing tells listings apart, so they are symmetric.
* `MaxTasks` 2, `MaxKeys` 3, `MaxLate` 1, `MaxOthers` 1 in `page`: a key, another while
  its answer is out, and one after; one call given up on and one move of somebody
  else. Typing is not counted: it changes the form only. Two rows are enough for an
  index to point elsewhere, the third is what a hand entry adds.
* In `clock` the floor of ten seconds is 3 units, the budget of ninety is 5 and the
  slow company's delay 6, so that a call may sleep twice at the floor, and one
  that comes too soon after a claim of the slow company waits its whole budget in vain. `Horizon` 9 leaves room for a
  claim, a wait of a whole budget and the next request. `MaxLag` 1 is above zero and
  below each interval.
* `reading`: all files of three lines, those of four and five from the lines that tell
  something (our name at two lengths, the star, a rule and its exception, a delay).
  Three lines make a group and a rule, five two groups and a line out of place.
  Listings have two entries (`MaxEntries`), change once, and the reviewer acts twice:
  enough for two entries to meet in a row, for one to change under a decided row, and
  for a night to be refused half-way. `MaxKm` 6 and `Near` 1 stand for 50 and 1 km.
* Contents: with and without a link (`ledger`), passing the
  automatic rule or not (`desk`), old and new (`pipe`).
* `MaxClock` bounds the stamps of row changes, 4 to 6: insert, to review,
  approve, demote, and one or two more after the first publication.
* `Window` 1 and `Period` 2 keep the order of the code's 5 and 10 minutes. Ages
  are counted up to `Horizon`, after which no comparison can tell them apart.
* `BatchCap` 1 with two rows gives a backlog; the code's 200 and ceiling 1000 have
  the same three cases (nothing, within the cap, above it); above the ceiling
  needs `Ceiling` below the number of rows and is the same early return as
  nothing due.
* `MaxPages`, `RequeueLimit` (20 in the code) and `StaleNights` (three days, so the
  third or fourth night, because `fetched_at` is later in the night than the
  reading of the clock). What matters is their ratio to the number of pages: the
  queue drains only while there are at most `MaxPages` pages for each of the
  `StaleNights`. `crawl` has two pages for two nights of one; with `StaleNights` 1 the
  second page waits for ever. The code's numbers are reached at 60 to 80 fetched
  pages.
* Two hosts of one company, all pages on the first: enough for a 403 or a drift
  on one host and a request to the other, within a phase and across phases. A
  second company adds only interleavings that no property relates.
* Ages of pages are counted up to `StaleNights`; so which of several stale pages
  was fetched first is not kept, and `LoadPages` may re-queue any of them.

The runs end where a bound is reached, so deadlock is not checked: with the log
full or the stamps spent the model stops and the system would not. In the system
nothing waits for anything but the network.

## Fairness

`PublishPipe` states liveness under `FairPipe`: time passes; the cron keeps
firing; a hung invocation is killed or its batch expires in the end; and select,
delivery and mark, which may fail any number of times, do not fail every time
(strong fairness, on the union over slots, and for `Select` and `Deliver` only
while the batch is fresh). Cloudflare retries nothing here, but the next cron
invocation starts from the table again, which is what strong fairness says.
Nothing is assumed of editors: no reviewer has to act. `GoneLeavesApp` is
refuted under the same fairness.

`CrawlCycle` states `QueueDrains` under `FairNights`: cycles start and go on (the cron
of `wrangler.toml`, `WF` of `Progress`); from some night on none is stopped half-way;
and a page that can be asked for, or whose answer is awaited, again and again is
asked for and answered with something final again and again. The second is a
real assumption: if every night were killed in discovery, no page would ever be
reached, and the code has nothing against that. Operators need not do anything:
`RefusePage` deals with the pages of a paused company.

`ConsolePage` has weak fairness on the answers of each request (`BusyEnds`): `api`
aborts a request after fifteen seconds, so each is answered or fails. The timer is
cleared once the headers are there (`app.js:72`); a body that never ends is not
covered, by the code or by the model. No key need ever be pressed, and nothing given
up on need ever be served.

`MCReading` has weak fairness on `Night` (`EntriesArrive`, `NightsSettle`): the cron fires
every night and a night's writing goes on. Nights may be refused half-way as often
as a reviewer decides meanwhile, which is a finite number of times in a run.

## Proofs

Checked by TLAPS, for all values of the constants that satisfy the assumptions of
the modules. The assumptions are of three kinds: constants are of their sort (numbers,
subsets, a queue order without repetition, finite gazetteers); marks like `Null` are not
values; and a few facts about the system: the rule and the scout's actors exist and twins
are near (`DeskAssumption`), a call's lag is below each company's interval
(`ClockAssumption`). One theorem has a hypothesis of its own, `Window < Period` in
`MarksTellTheTruth`: five minutes in `sign.js:55` against ten in
`publisher/wrangler.toml:32`. The bounds of the runs (`MaxLog`, `MaxTasks`, `MaxClock`...)
stay in the guards as arbitrary numbers.

Each inductive invariant below was checked by TLC on an instance before it was proved.

**ReviewLedgerProofs**

* `TypeCorrect`: `Spec => []TypeOK`.
* `LogTellsStatus`, `ChainNeverBreaks`, `ApprovalsTrace`: the invariant
  `Ledger == TypeOK /\ StatusFollowsLog /\ ChainUnbroken /\ ApprovalTraced` is
  inductive. None of the three is by itself: that the chain stays unbroken needs
  the row's status to be the target of its latest transition, and that an
  approval keeps pointing at the latest transition needs both.
  The argument: every batch has one of two shapes. `Quiet`: it adds notes and
  leaves every verdict alone. `Moves(r, k)`: it adds exactly one transition, at
  index `k`, for one row `r`, from `r`'s status, and applies it. `StepShape`
  proves that for each batch once; `Untouched` and `Moved` then carry the
  invariant over the shapes, not over the batches.
* `SideDoorShut`: from `Ledger`, the newest entry of a row never names the row's
  status as its *from*, because it is already applied; so the status guard
  refuses every bare `UPDATE`. (No listed move goes from a status to itself.)
* `ContentFrozen`, `KillSwitch`, `RejectedStays`, `ApprovedLinked`: from two
  lemmas that say what a step can do to one row (`RowOutcome`, `MoveOutcome`).

**ReviewDeskProofs**

* `DeskTypeCorrect`: requests and jobs keep their shape.
* `DeskRefinesLedger`: `DeskSpec => Spec` in the ledger's variables. Each client
  step is one ledger batch or leaves the four tables alone. The identity is the
  refinement mapping, because the clients write the tables themselves.
* `DeskKeepsLedger`: so the ledger's invariants hold of what the clients do.
* `DeskRespectsRejection`: `MachineRespectsRejection`, from `RejectionStands`: while the
  newest word of a person is "rejected", the row is rejected. A person's step makes a new
  word, and no machine's transition starts from "rejected". So the row is not
  `needs_review`, and the automatic approval's batch is refused, whatever was read.
* `ApprovalsAreAsJudged`: `ApprovedAsJudged`, from `JudgementsHold`. While all that was
  logged since the candidates were read is the run's own (`Undisturbed`), what the scout
  holds is still true of the tables: a candidate's content and its being unrejected
  (`Judged`), and that no row found twin-free has got a twin (`Signed`): an own approval
  can make a twin only of rows that were compared already.

**PublishPipeProofs**: `PipeTypeCorrect`, `DraftsStay`, `MarksTellTheTruth`, from `PipeInv`.

* `DraftsStay` needs no timing: `BlessedEverywhere` says that a table row, a wire row and
  an app row say "approved" only with a content once approved.
* At the app means `Arrived`: with exactly the row's content, approved or held by the app's
  own review (`LandingStatus`); what is held, a person of the app decides or nobody does.
* `MarksTellTheTruth`: a row approved with a stamp not later than an invocation's was
  approved before it selected, so its wire row is right (`WiresTrue`); an
  answered batch is at the app (`Answered`); and of two invocations the earlier is at
  least a period old (`Overtaken`), hence past the window, and cannot land on the later
  one's batch. The last is all that `Window < Period` is for (`Delivered`).
* The proof goes by what a step does to invocations rather than by action: they fade
  (`JobsFade`, most steps), one starts, selects, posts, lands or marks.

**ConsolePageProofs**: `PageTypeCorrect`, `PageBusyIsOneJob`, `PageSettles`, `PageDecidesOnce`,
from `PageInv`.

* `PageTypeCorrect` includes that the index never leaves the queue the page holds, through
  keys, skips and late answers; `QueueIsList` says that the server's queue
  has no row twice.
* `OneJob`: of the requests in flight at most one is a decision or a save, and `busy` is
  that there is one. `OnlyTask`, `AlonePoints`, `CleanShows` lead to `PageSettles`: what
  started with nothing else in flight is the only request, its detail is the one of
  the row at the index, and once it came the row drawn is that one.
* `Stays`: a decision carries the number of moves the row had; while the row waits, it is
  smaller than now. So a decision after it is of another stay (`PageDecidesOnce`), also
  when the first was given up on and served late.

**CrawlCycleProofs**: `CrawlTypeCorrect`, `OneRun`, `MarksVouch`, `No403Again` and `DriftStops`,
from one inductive invariant, `CrawlInv`. Of each phase it says what the actions of
the others rely on:

* `MarkAfterWrite`: a page at the step before its mark has its row written; and
  `TodoPending`: the pages ingest still has before it are `pending`, so that asking
  for one, after which its row no longer holds what the last fetch found, breaks
  no mark. `FetchedMeansWritten` needs both.
* `AtIs`: what the invocation waits for is a page in ingest and a host elsewhere.
* `SaidNo`: a company that answered a request for content with 403 and was not released is either paused and
  backed off or unknown to the phase as active, or it is the one `PauseCompany` is
  about to pause. `StopsAt403` follows, because no request passes `BackedOff` and
  `Gate` together.
* `DriftedOut`: a drifted host that was not released is not an active alias, nor
  among those a later phase has read.

**CrawlClockProofs**: `ClockTypeCorrect`, `RefusalIsRivalry` and the refinement `ClockKeepsLaw`,
from `ClockInv`.

* `ClockKeepsLaw`: `now` and `sent` are the law's variables. A holder of a slot read its
  clock at most `MaxLag` ago (`Prompt`), and the next claim needs a reading an interval
  later; so the holder is alone (`OneGrant`, `GrantIsLast`) until it has sent, which is
  at most `MaxLag` after its claim (`SentSoon`). Then the request before it is an interval less
  `MaxLag` back (`GrantApart`), which is the guard of the law's step.
* `RefusalIsRivalry`: one whom nobody overtook faces a claim from before it came, so its
  timer is set for when that has run out, within the budget (`Waited`, `Patient`).

**ReadingProofs**

* `FilesReadAsWritten`: for *every* file, however long, the verdict of `IsAllowed` on each
  path and the delay of `CrawlDelayFor` are the ones `LawAllows` and `LawDelays` give.
  By induction over the lines. `HasRead(s, f, n)` says what the reader holds after `n`
  lines: whom the open record is for (`Opens`); that each rule is with a
  group of just those for whom it stands in the file, and no other is (`RulesKept`, `RulesMeant`);
  the same for delays, of which a record keeps its last (`DelaysKept`, `DelaysMeant`);
  and that groups come from lines that say something (`GroupsMeant`). The other half is
  that the choice among groups, rules and delays comes to the same (`NamedIs`, `BindingIs`,
  `LongestWins`).
* Of `HandSpec`, from `HandInv`: `HandTypeCorrect`, `HandReadsAsWritten`, `HandWaits` (the wait
  is at least each delay the lines ask for, by the theorem above), `HandAsksEventPages`,
  `HandRowsStorable`.
* Of `ListSpec`, from `ListInv` (a row's state is never missing, and what
  is held belongs to an entry at hand whose state could be named): `ListTypeCorrect` and
  `ListStatesDerived`. `DeriveIs` is about `geo.js` alone: a state it names is that of a
  nearest place, and every place in contention has it.

**CountingProofs** has the induction these need. The library's induction theorems take an operator as a
parameter, which the provers here cannot instantiate. Sets do as well:
a nonempty set of naturals has a least element (`NatMin`), so a set that has 0 and is
closed under + 1 is `Nat` (`CountUp`); and a function up to n given by its value at 0 and a
step, itself a function, exists (`UpToExists`). For that the recursions to
prove about (`ParseRobots`, `Queue`, `Kept`) are recursive functions; no module declares
a RECURSIVE operator.

Model-checked only: liveness under fairness (`BacklogDrains`, `QueueDrains`, `BusyEnds`,
`EntriesArrive`, `NightsSettle`), which is out of the prover's reach, and the four
counterexamples. Every invariant and action property of a passing run is a theorem.

## Abstractions and limits

* Content is one value per row. What the code computes from text (grounding,
  structural check, name similarity, normalisation) is a relation between
  contents: `Passing`, `Near`, `Twin`, `Linked`.
* The chip of a critical field is green when the newest check found the value
  the row has. The `structural` kind of check, which never counts as green by
  itself, is not told apart, so the model lets a plain approval pass in more
  cases than the code. `Candidates` is not cut at ten.
* Who writes passing checks is not in this repository; `Verify` is external and
  may check any row at any time.
* Dedupe keys are in `ListingNight` only: in the ledger inserts never collide, and the
  per-type details tables, which no program writes, are left out.
* `review_log` times are not modelled; ids order it.
* In `PublishPipe` the Worker's clock and the database's agree. They are compared
  with a strict order, so a Worker ahead of the database can mark a row that
  changed after it was selected; nothing in the code bounds the difference.
* In `CrawlCycle` the shared clock is a choice: any claim may be refused; `CrawlClock`
  says when it is. Hosts stand
  for their listing, and for all links of their approved rows; the shape of a URL is
  in `PageRules`, so here a page is refused only for its source, its alias or its crawl
  mode. Writing the drafts of a listing is one step, and `ListingNight` takes it
  apart. One invocation runs at a time, a night after the one before, so that each row of a
  killed one is past the cutoff of twenty minutes when `StartCycle` closes it.
* In `ConsolePage` the queue has a fixed order, and a read is answered with the state
  of the moment it arrives. A row's facts are one value. Nothing but decisions, edits
  and entries changes the server's rows.
* In `RobotsFile` and `PageRules` a path is a sequence of segments; wildcards are not
  in the code either. Text extraction from HTML, dates' formats and the order of
  warnings are left out: a page is the values found on it. A robots.txt read claims
  no slot and is no request for `CrawlLaw`.
* The signature is not modelled: a batch arrives as it was sent or not at all.
  `almanac-ingest` is an upsert of the whole batch, as `ARCHITECTURE.md` section
  11 describes it. No document says what an upsert does to a copy that the app's review
  holds, nor whether a changed copy that comes as expired is demoted or expires: both
  are left open. So a stale row that was revised may reach the app's reviewers with a content
  nobody approved here, and be read once one of them approves it: `OnlyApprovedCrosses`
  counts that approval. People of the app who edit a copy are left out.
* No program under `src/` makes the moves to `stale` and `expired`: the models let
  an operator make them, as the rules table allows.

### Not modelled

* Sign-in (`auth.js`) and geocoding: a token's verification and a service's answer.
* The page's help panel, source window, clipboard and layout: they change nothing that
  is sent or drawn from the server's rows.
* Grounding, the structural link check, name similarity and normalisation: predicates
  on text, choices or relations in the models.
* The link check's rota of fifty by `link_checked_at`: a rota needs one row more than
  its cap and their time stamps beside the whole night.
* `statusStrip`, `scoutPrecision` and other reports; the coverage table, which no
  program uses.
* One-off scripts: the staging and cutover scripts, the import of places, the
  walkthrough and contract checks. The bridge script posts due rows without marking
  them; in the pipe that is `DeliverUnheard`.
* The hand tool beside a nightly run: they share no state, and no module could relate
  them but by the hosts' patience.

## Plan

What is modelled is modelled to the depth described above, and what the runs check of it,
liveness apart, is proved. Next:

1. Steps towards the liveness properties that are safety: that a due row stays due until it is
   marked or taken back, and that a night never loses a page (each is pending, fetched
   or has failed for good).
2. `ListingNight`: that a row stays under the reference it was inserted under and keeps its key,
   and that an approved row's facts change only with its demotion.
3. `CrawlCycle` and `RobotsFile`: that the delay kept for a source is no less than the one its
   file asks of us, once for both the night and the hand tool.
