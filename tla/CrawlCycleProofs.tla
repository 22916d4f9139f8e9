-------------------------- MODULE CrawlCycleProofs --------------------------
(***************************************************************************)
(* What no night of the crawl does, for any sources, hosts, pages and      *)
(* limits, and wherever invocations are stopped.                           *)
(***************************************************************************)
EXTENDS CrawlCycle, FiniteSetTheorems, TLAPS

-----------------------------------------------------------------------------
(* The invariant                                                           *)

\* The invocation waits for a host or for a page, or for nothing.
AtIs ==
    /\ cycle.step \in {"requeue", "load", "next", "queue"} => cycle.at = Null
    /\ cycle.step \notin {"requeue", "load", "next", "queue"} =>
          cycle.at \in IF cycle.phase = "ingest" THEN Pages ELSE Hosts

\* The pages ingest still has before it are pending.
TodoPending ==
    cycle.phase = "ingest" =>
        \A p \in Pages : p \in cycle.todo => p # cycle.at /\ page[p].status = "pending"

\* Before a page is marked its event row is written.
MarkAfterWrite == cycle.phase = "ingest" /\ cycle.step = "mark" => cycle.at \in written

\* A company that said 403 is paused, or about to be in the next await; and
\* this phase does not ask it, backed off or read as paused.
SaidNo ==
    \A s \in cycle.said403 :
        /\ \/ s \notin active
           \/ /\ cycle.phase = "ingest" /\ cycle.step = "stop"
              /\ s = Company[HostOf[cycle.at]]
        /\ s \in cycle.back \/ s \notin cycle.live

\* A drifted host is paused, and later phases do not know it.
DriftedOut ==
    \A h \in cycle.drifted :
        /\ h \notin aliases
        /\ cycle.phase # "robots" => h \notin cycle.hosts

CrawlInv ==
    /\ CrawlTypeOK
    /\ OneRunOpen
    /\ FetchedMeansWritten
    /\ cycle # Over => AtIs /\ TodoPending /\ MarkAfterWrite /\ SaidNo /\ DriftedOut

-----------------------------------------------------------------------------
(* Shapes                                                                  *)

\* An invocation in a phase is one under way.
LEMMA UnderWay ==
    ASSUME CrawlTypeOK, NEW ph \in Phases, NEW st, In(ph, st)
    PROVE  cycle \in Cycle /\ cycle # Over
<1>1. Over.phase \notin Phases
  BY DEF Over, Phases
<1> QED BY <1>1 DEF CrawlTypeOK, In

\* An invocation under way is in a phase.
LEMMA NotOver == \A c \in Cycle : c # Over /\ c.phase \in Phases
<1>1. Over.phase \notin Phases
  BY DEF Over, Phases
<1> QED BY <1>1 DEF Cycle

\* The number of queued pages is a number.
LEMMA SinceIsNat == Cardinality({q \in Pages : page[q].status # "unknown"}) \in Nat
<1> DEFINE Q == {q \in Pages : page[q].status # "unknown"}
<1>1. IsFiniteSet(Q)
  BY FS_Subset, CrawlAssumption
<1> QED BY <1>1, FS_CardinalityType

LEMMA SetType ==
    ASSUME CrawlTypeOK, NEW p, NEW status \in {"fetched", "failed", "excluded"}, Set(p, status)
    PROVE  page' \in [Pages -> PageRow]
<1>1. \A r \in PageRow : [r EXCEPT !.status = status] \in PageRow
  BY DEF PageRow
<1>2. \A r \in PageRow : [r EXCEPT !.age = 0] \in PageRow
  BY CrawlAssumption DEF PageRow
<1> QED BY <1>1, <1>2 DEF CrawlTypeOK, Set

\* Only the page that is set changes.
LEMMA SetOne ==
    ASSUME CrawlTypeOK, NEW p \in Pages, NEW status, Set(p, status)
    PROVE  /\ page'[p].status = status
           /\ \A q \in Pages : q # p => page'[q] = page[q]
  BY DEF CrawlTypeOK, Set, PageRow

\* Passing, asking and answering keep the invocation's shape.
LEMMA CycleSteps ==
    ASSUME cycle \in Cycle
    PROVE  /\ \A x \in Hosts \cup Pages : Pass(x) \/ Ask(x) => cycle' \in Cycle
           /\ Answered => cycle' \in Cycle
           /\ \A s \in Sources : SlowDown(s) \/ SaysNo(s) => cycle' \in Cycle
<1>1. ASSUME NEW x \in Hosts \cup Pages, Pass(x) PROVE cycle' \in Cycle
  BY <1>1 DEF Cycle, Pass
<1>2. ASSUME NEW x \in Hosts \cup Pages, Ask(x) PROVE cycle' \in Cycle
  BY <1>2 DEF Cycle, Ask
<1>3. ASSUME Answered PROVE cycle' \in Cycle
  BY <1>3 DEF Cycle, Answered
<1>4. ASSUME NEW s \in Sources, SlowDown(s) PROVE cycle' \in Cycle
  BY <1>4 DEF Cycle, SlowDown
<1>5. ASSUME NEW s \in Sources, SaysNo(s) PROVE cycle' \in Cycle
  BY <1>5 DEF Cycle, SaysNo
<1> QED BY <1>1, <1>2, <1>3, <1>4, <1>5


LEMMA RequeuedType ==
    ASSUME CrawlTypeOK, NEW T \in SUBSET Pages
    PROVE  /\ Requeued(T) \in [Pages -> PageRow]
           /\ \A q \in Pages : \/ Requeued(T)[q] = page[q]
                               \/ Requeued(T)[q].status = "pending"
<1>1. \A r \in PageRow : /\ [r EXCEPT !.status = "pending"] \in PageRow
                         /\ [r EXCEPT !.status = "pending"].status = "pending"
  BY DEF PageRow
<1>2. \A r \in PageRow : /\ [r EXCEPT !.age = 0] \in PageRow
                         /\ [r EXCEPT !.age = 0].status = r.status
  BY CrawlAssumption DEF PageRow
<1> QED BY <1>1, <1>2 DEF CrawlTypeOK, Requeued

-----------------------------------------------------------------------------
(* The steps, phase by phase                                               *)

LEMMA InitInv == CrawlInit => CrawlInv
<1> SUFFICES ASSUME CrawlInit PROVE CrawlInv
  OBVIOUS
<1>1. page \in [Pages -> PageRow]
  BY CrawlAssumption DEF CrawlInit, PageRow
<1> QED BY <1>1 DEF CrawlInit, CrawlInv, CrawlTypeOK, OneRunOpen, FetchedMeansWritten

\* Phase 0: types.
LEMMA RobotsTyped ==
    ASSUME CrawlInv,
           \/ \E h \in Hosts : \/ RobotsKept(h) \/ RobotsUnusable(h) \/ RobotsDrift(h)
           \/ BeginDiscovery
    PROVE  CrawlTypeOK'
<1> USE DEF CrawlTypeOK, tables
<1>a. CrawlTypeOK
  BY DEF CrawlInv
<1>b. cycle \in Cycle /\ cycle # Over
  BY <1>a, UnderWay DEF Phases, RobotsKept, RobotsUnusable, RobotsDrift, Robots,
     BeginDiscovery
<1>1. ASSUME NEW h \in Hosts, RobotsKept(h) PROVE CrawlTypeOK'
  <2>1. cycle' \in {Over} \cup Cycle
    BY <1>a, <1>b, <1>1, CycleSteps DEF RobotsKept
  <2> QED BY <1>a, <1>b, <1>1, <2>1 DEF RobotsKept
<1>2. ASSUME NEW h \in Hosts, RobotsDrift(h) PROVE CrawlTypeOK'
  <2>1. cycle' \in {Over} \cup Cycle
    BY <1>a, <1>b, <1>2 DEF Cycle, RobotsDrift
  <2> QED BY <1>a, <1>b, <1>2, <2>1 DEF RobotsDrift
<1>3. ASSUME NEW h \in Hosts, RobotsUnusable(h) PROVE CrawlTypeOK'
  <2>1. cycle' \in {Over} \cup Cycle
    BY <1>a, <1>b, <1>3 DEF Cycle, RobotsUnusable
  <2> QED BY <1>a, <1>b, <1>3, <2>1 DEF RobotsUnusable
<1>4. CASE BeginDiscovery
  <2>1. cycle' \in {Over} \cup Cycle
    BY <1>a, <1>b, <1>4 DEF Cycle, BeginDiscovery, Open, List, Phases
  <2> QED BY <1>a, <1>b, <1>4, <2>1 DEF BeginDiscovery, Open, Phases
<1> QED BY <1>1, <1>2, <1>3, <1>4

LEMMA RobotsStep ==
    ASSUME CrawlInv,
           \/ \E h \in Hosts : \/ RobotsKept(h) \/ RobotsUnusable(h) \/ RobotsDrift(h)
           \/ BeginDiscovery
    PROVE  CrawlInv'
<1> USE NotOver DEF CrawlInv, OneRunOpen, FetchedMeansWritten, AtIs, TodoPending, MarkAfterWrite,
             SaidNo, DriftedOut, In, tables, Cycle
<1>a. CrawlTypeOK'
  BY RobotsTyped
<1>b. cycle \in Cycle /\ cycle # Over
  BY UnderWay DEF Phases, RobotsKept, RobotsUnusable, RobotsDrift, Robots,
     BeginDiscovery
<1>1. ASSUME NEW h \in Hosts, RobotsKept(h) PROVE CrawlInv'
  BY <1>a, <1>b, <1>1 DEF RobotsKept, Robots, Pass
<1>2. ASSUME NEW h \in Hosts, RobotsDrift(h) PROVE CrawlInv'
  BY <1>a, <1>b, <1>2 DEF RobotsDrift, Robots
<1>3. ASSUME NEW h \in Hosts, RobotsUnusable(h) PROVE CrawlInv'
  BY <1>a, <1>b, <1>3 DEF RobotsUnusable, Robots
<1>4. CASE BeginDiscovery
  BY <1>a, <1>b, <1>4 DEF BeginDiscovery, Open, List
<1> QED BY <1>1, <1>2, <1>3, <1>4

\* Phase 1: types.
LEMMA DiscoveryTyped ==
    ASSUME CrawlInv,
           \/ \E h \in Hosts : \/ SkipListing(h) \/ AskListing(h)
           \/ \E p \in Pages : Enqueue(p)
           \/ ListingDone \/ ListingSlow \/ Listing403 \/ ListingLinks \/ Enqueued
           \/ BeginIngest
    PROVE  CrawlTypeOK'
<1> USE DEF CrawlTypeOK, tables
<1>a. CrawlTypeOK
  BY DEF CrawlInv
<1>b. cycle \in Cycle /\ cycle # Over
  BY <1>a, UnderWay DEF Phases, SkipListing, AskListing, Listing, ListingDone,
     ListingSlow, Listing403, ListingLinks, Enqueue, Enqueued, BeginIngest
<1>c. cycle.step \notin {"requeue", "load", "next", "queue"} /\ cycle.phase = "discovery" => cycle.at \in Hosts
  BY <1>b DEF CrawlInv, AtIs
<1>1. ASSUME NEW h \in Hosts, SkipListing(h) PROVE CrawlTypeOK'
  <2>1. cycle' \in {Over} \cup Cycle
    BY <1>a, <1>b, <1>1, CycleSteps DEF SkipListing
  <2> QED BY <1>a, <1>b, <1>1, <2>1 DEF SkipListing
<1>2. ASSUME NEW h \in Hosts, AskListing(h) PROVE CrawlTypeOK'
  <2>1. cycle' \in {Over} \cup Cycle
    BY <1>a, <1>b, <1>2, CycleSteps DEF AskListing
  <2> QED BY <1>a, <1>b, <1>2, <2>1 DEF AskListing
<1>3. CASE ListingDone
  <2>1. cycle' \in {Over} \cup Cycle
    BY <1>a, <1>b, <1>3, CycleSteps DEF ListingDone
  <2> QED BY <1>a, <1>b, <1>3, <2>1 DEF ListingDone
<1>4. CASE ListingSlow
  <2>1. cycle' \in {Over} \cup Cycle
    BY <1>a, <1>b, <1>4, <1>c, CycleSteps, CrawlAssumption DEF ListingSlow, In
  <2> QED BY <1>a, <1>b, <1>4, <2>1 DEF ListingSlow
<1>5. CASE Listing403
  <2>1. cycle' \in {Over} \cup Cycle
    BY <1>a, <1>b, <1>5, <1>c, CycleSteps, CrawlAssumption DEF Listing403, SaysNo, In
  <2> QED BY <1>a, <1>b, <1>5, <2>1 DEF Listing403, SaysNo, Deactivate
<1>6. CASE ListingLinks
  <2>1. cycle' \in {Over} \cup Cycle
    BY <1>a, <1>b, <1>6 DEF Cycle, ListingLinks
  <2> QED BY <1>a, <1>b, <1>6, <2>1 DEF ListingLinks
<1>7. ASSUME NEW p \in Pages, Enqueue(p) PROVE CrawlTypeOK'
  <2>1. cycle' \in {Over} \cup Cycle
    BY <1>a, <1>b, <1>7 DEF Cycle, Enqueue
  <2>2. page' \in [Pages -> PageRow]
    BY <1>a, <1>b, <1>7, SinceIsNat, CrawlAssumption DEF Enqueue, PageRow
  <2> QED BY <1>a, <1>b, <1>7, <2>1, <2>2 DEF Enqueue
<1>8. CASE Enqueued
  <2>1. cycle' \in {Over} \cup Cycle
    BY <1>a, <1>b, <1>8 DEF Cycle, Enqueued
  <2> QED BY <1>a, <1>b, <1>8, <2>1 DEF Enqueued
<1>9. CASE BeginIngest
  <2>1. cycle' \in {Over} \cup Cycle
    BY <1>a, <1>b, <1>9 DEF Cycle, BeginIngest, Open, Phases
  <2> QED BY <1>a, <1>b, <1>9, <2>1 DEF BeginIngest, Open, Phases
<1> QED BY <1>1, <1>2, <1>3, <1>4, <1>5, <1>6, <1>7, <1>8, <1>9

LEMMA DiscoveryStep ==
    ASSUME CrawlInv,
           \/ \E h \in Hosts : \/ SkipListing(h) \/ AskListing(h)
           \/ \E p \in Pages : Enqueue(p)
           \/ ListingDone \/ ListingSlow \/ Listing403 \/ ListingLinks \/ Enqueued
           \/ BeginIngest
    PROVE  CrawlInv'
<1> USE NotOver DEF CrawlInv, OneRunOpen, FetchedMeansWritten, AtIs, TodoPending, MarkAfterWrite,
             SaidNo, DriftedOut, In, tables, Cycle
<1>a. CrawlTypeOK'
  BY DiscoveryTyped
<1>b. cycle \in Cycle /\ cycle # Over
  BY UnderWay DEF Phases, SkipListing, AskListing, Listing, ListingDone, ListingSlow,
     Listing403, ListingLinks, Enqueue, Enqueued, BeginIngest
<1>1. ASSUME NEW h \in Hosts, SkipListing(h) PROVE CrawlInv'
  BY <1>a, <1>b, <1>1 DEF SkipListing, Listing, Pass
<1>2. ASSUME NEW h \in Hosts, AskListing(h) PROVE CrawlInv'
  BY <1>a, <1>b, <1>2 DEF AskListing, Listing, Ask
<1>3. CASE ListingDone
  BY <1>a, <1>b, <1>3 DEF ListingDone, Answered
<1>4. CASE ListingSlow
  BY <1>a, <1>b, <1>4 DEF ListingSlow, SlowDown
<1>5. CASE Listing403
  BY <1>a, <1>b, <1>5 DEF Listing403, SaysNo, Deactivate
<1>6. CASE ListingLinks
  BY <1>a, <1>b, <1>6 DEF ListingLinks
<1>7. ASSUME NEW p \in Pages, Enqueue(p) PROVE CrawlInv'
  <2>1. \A q \in Pages : page'[q] = page[q] \/ page'[q].status = "pending"
    BY <1>7 DEF Enqueue, CrawlTypeOK
  <2> QED BY <1>a, <1>b, <1>7, <2>1 DEF Enqueue
<1>8. CASE Enqueued
  BY <1>a, <1>b, <1>8 DEF Enqueued
<1>9. CASE BeginIngest
  BY <1>a, <1>b, <1>9 DEF BeginIngest, Open
<1> QED BY <1>1, <1>2, <1>3, <1>4, <1>5, <1>6, <1>7, <1>8, <1>9

\* Phase 2: types.
LEMMA IngestTyped ==
    ASSUME CrawlInv,
           \/ \E p \in Pages : \/ SkipPage(p) \/ RefusePage(p) \/ AskPage(p)
                               \/ PageFails(p) \/ PageParsed(p)
           \/ RequeueStale \/ LoadPages \/ PageSlow \/ Page403 \/ PauseCompany \/ WritePage \/ MarkPage
           \/ BeginLinks
    PROVE  CrawlTypeOK'
<1> USE DEF CrawlTypeOK, tables
<1>a. CrawlTypeOK
  BY DEF CrawlInv
<1>b. cycle \in Cycle /\ cycle # Over
  BY <1>a, UnderWay DEF Phases, RequeueStale, LoadPages, SkipPage, RefusePage, AskPage, Page,
     PageFails, PageSlow, Page403, PauseCompany, PageParsed, WritePage, MarkPage,
     BeginLinks
<1>c. cycle.step \notin {"requeue", "load", "next", "queue"} /\ cycle.phase = "ingest" => cycle.at \in Pages
  BY <1>b DEF CrawlInv, AtIs
<1>1. CASE LoadPages
  <2>1. cycle' \in {Over} \cup Cycle
    <3>1. PICK list \in SUBSET Pages : List("ingest", cycle.hosts, list)
      BY <1>1 DEF LoadPages, Oldest, Pending
    <3> QED BY <1>a, <1>b, <3>1 DEF List, Cycle, Phases
  <2> QED BY <1>a, <1>b, <1>1, <2>1 DEF LoadPages
<1>2. ASSUME NEW p \in Pages, SkipPage(p) PROVE CrawlTypeOK'
  <2>1. cycle' \in {Over} \cup Cycle
    BY <1>a, <1>b, <1>2, CycleSteps DEF SkipPage
  <2> QED BY <1>a, <1>b, <1>2, <2>1 DEF SkipPage
<1>3. ASSUME NEW p \in Pages, RefusePage(p) PROVE CrawlTypeOK'
  <2>1. cycle' \in {Over} \cup Cycle
    BY <1>a, <1>b, <1>3, CycleSteps DEF RefusePage
  <2>2. page' \in [Pages -> PageRow]
    BY <1>a, <1>b, <1>3, SetType DEF RefusePage
  <2> QED BY <1>a, <1>b, <1>3, <2>1, <2>2 DEF RefusePage
<1>4. ASSUME NEW p \in Pages, AskPage(p) PROVE CrawlTypeOK'
  <2>1. cycle' \in {Over} \cup Cycle
    BY <1>a, <1>b, <1>4, CycleSteps DEF AskPage
  <2> QED BY <1>a, <1>b, <1>4, <2>1 DEF AskPage
<1>5. ASSUME NEW p \in Pages, PageFails(p) PROVE CrawlTypeOK'
  <2>1. cycle' \in {Over} \cup Cycle
    BY <1>a, <1>b, <1>5, CycleSteps DEF PageFails
  <2>2. page' \in [Pages -> PageRow]
    BY <1>a, <1>b, <1>5, SetType DEF PageFails
  <2> QED BY <1>a, <1>b, <1>5, <2>1, <2>2 DEF PageFails
<1>6. CASE PageSlow
  <2>1. cycle' \in {Over} \cup Cycle
    BY <1>a, <1>b, <1>6, <1>c, CycleSteps, CrawlAssumption DEF PageSlow, In
  <2> QED BY <1>a, <1>b, <1>6, <2>1 DEF PageSlow
<1>7. CASE Page403
  <2>1. cycle' \in {Over} \cup Cycle
    <3>1. Company[HostOf[cycle.at]] \in Sources
      BY <1>b, <1>c, <1>7, CrawlAssumption DEF Page403, In
    <3> QED BY <1>b, <1>7, <3>1 DEF Cycle, Page403
  <2>2. page' \in [Pages -> PageRow]
    BY <1>a, <1>b, <1>7, SetType DEF Page403
  <2> QED BY <1>a, <1>b, <1>7, <2>1, <2>2 DEF Page403
<1>8. CASE PauseCompany
  <2>1. cycle' \in {Over} \cup Cycle
    BY <1>a, <1>b, <1>8, CycleSteps DEF PauseCompany, Deactivate
  <2> QED BY <1>a, <1>b, <1>8, <2>1 DEF PauseCompany, Deactivate
<1>9. ASSUME NEW p \in Pages, PageParsed(p) PROVE CrawlTypeOK'
  <2>1. cycle' \in {Over} \cup Cycle
    BY <1>a, <1>b, <1>9 DEF Cycle, PageParsed
  <2> QED BY <1>a, <1>b, <1>9, <2>1 DEF PageParsed
<1>10. CASE WritePage
  <2>1. cycle' \in {Over} \cup Cycle
    BY <1>a, <1>b, <1>10 DEF Cycle, WritePage
  <2> QED BY <1>a, <1>b, <1>10, <2>1, <1>c DEF WritePage, In
<1>11. CASE MarkPage
  <2>1. cycle' \in {Over} \cup Cycle
    BY <1>a, <1>b, <1>11, CycleSteps DEF MarkPage
  <2>2. page' \in [Pages -> PageRow]
    BY <1>a, <1>b, <1>11, SetType DEF MarkPage
  <2> QED BY <1>a, <1>b, <1>11, <2>1, <2>2 DEF MarkPage
<1>12. CASE BeginLinks
  <2>1. cycle' \in {Over} \cup Cycle
    <3>1. PICK list \in SUBSET Hosts : List("links", cycle.hosts, list)
      BY <1>12 DEF BeginLinks
    <3> QED BY <1>a, <1>b, <3>1 DEF List, Cycle, Phases
  <2> QED BY <1>a, <1>b, <1>12, <2>1 DEF BeginLinks, Open, Phases
<1>13. CASE RequeueStale
  <2>1. cycle' \in {Over} \cup Cycle
    BY <1>a, <1>b, <1>13 DEF Cycle, RequeueStale
  <2>2. page' \in [Pages -> PageRow]
    BY <1>a, <1>b, <1>13, RequeuedType DEF RequeueStale, Stale
  <2> QED BY <1>a, <1>b, <1>13, <2>1, <2>2 DEF RequeueStale
<1> QED BY <1>1, <1>2, <1>3, <1>4, <1>5, <1>6, <1>7, <1>8, <1>9, <1>10, <1>11, <1>12, <1>13

LEMMA IngestStep ==
    ASSUME CrawlInv,
           \/ \E p \in Pages : \/ SkipPage(p) \/ RefusePage(p) \/ AskPage(p)
                               \/ PageFails(p) \/ PageParsed(p)
           \/ RequeueStale \/ LoadPages \/ PageSlow \/ Page403 \/ PauseCompany \/ WritePage \/ MarkPage
           \/ BeginLinks
    PROVE  CrawlInv'
<1> USE NotOver DEF CrawlInv, OneRunOpen, FetchedMeansWritten, AtIs, TodoPending, MarkAfterWrite,
             SaidNo, DriftedOut, In, tables, Cycle
<1>a. CrawlTypeOK'
  BY IngestTyped
<1>b. cycle \in Cycle /\ cycle # Over
  BY UnderWay DEF Phases, RequeueStale, LoadPages, SkipPage, RefusePage, AskPage, Page, PageFails,
     PageSlow, Page403, PauseCompany, PageParsed, WritePage, MarkPage, BeginLinks
<1>1. CASE LoadPages
  <2>1. PICK list \in SUBSET Pages : /\ List("ingest", cycle.hosts, list)
                                     /\ \A p \in list : page[p].status = "pending"
    BY <1>1 DEF LoadPages, Oldest, Pending
  <2>2. cycle # Over /\ cycle'.at = Null /\ cycle'.step = "next"
    BY <1>b, <1>1, <2>1 DEF LoadPages, List
  <2>3. cycle'.phase = "ingest" /\ cycle'.todo = list /\ cycle'.hosts = cycle.hosts /\ cycle'.live = active
    BY <1>b, <1>1, <2>1 DEF LoadPages, List
  <2>4. cycle'.said403 = cycle.said403 /\ cycle'.drifted = cycle.drifted /\ cycle'.back = {}
    BY <1>b, <1>1, <2>1 DEF LoadPages, List
  <2>5. FetchedMeansWritten' /\ OneRunOpen' /\ MarkAfterWrite' /\ AtIs'
    BY <1>b, <1>1, <2>2, <2>3 DEF LoadPages
  <2>6. TodoPending'
    BY <1>b, <1>1, <2>1, <2>2, <2>3, CrawlAssumption DEF LoadPages
  <2>7. SaidNo' /\ DriftedOut'
    BY <1>b, <1>1, <2>2, <2>3, <2>4 DEF LoadPages
  <2> QED BY <1>a, <2>5, <2>6, <2>7
<1>2. ASSUME NEW p \in Pages, SkipPage(p) PROVE CrawlInv'
  BY <1>a, <1>b, <1>2 DEF SkipPage, Page, Pass
<1>3. ASSUME NEW p \in Pages, RefusePage(p) PROVE CrawlInv'
  <2>1. page'[p].status \in {"excluded", "failed"} /\ \A q \in Pages : q # p => page'[q] = page[q]
    BY <1>b, <1>3, SetOne DEF RefusePage
  <2> QED BY <1>a, <1>b, <1>3, <2>1 DEF RefusePage, Page, Pass
<1>4. ASSUME NEW p \in Pages, AskPage(p) PROVE CrawlInv'
  BY <1>a, <1>b, <1>4 DEF AskPage, Page, First, Ask
<1>5. ASSUME NEW p \in Pages, PageFails(p) PROVE CrawlInv'
  <2>1. page'[p].status = "failed" /\ \A q \in Pages : q # p => page'[q] = page[q]
    BY <1>b, <1>5, SetOne DEF PageFails
  <2> QED BY <1>a, <1>b, <1>5, <2>1, CrawlAssumption DEF PageFails, Answered
<1>6. CASE PageSlow
  BY <1>a, <1>b, <1>6, CrawlAssumption DEF PageSlow, SlowDown
<1>7. CASE Page403
  <2>1. page'[cycle.at].status = "failed" /\ \A q \in Pages : q # cycle.at => page'[q] = page[q]
    BY <1>b, <1>7, SetOne DEF Page403
  <2> QED BY <1>a, <1>b, <1>7, <2>1 DEF Page403
<1>8. CASE PauseCompany
  BY <1>a, <1>b, <1>8, CrawlAssumption DEF PauseCompany, Deactivate, Answered
<1>9. ASSUME NEW p \in Pages, PageParsed(p) PROVE CrawlInv'
  BY <1>a, <1>b, <1>9 DEF PageParsed
<1>10. CASE WritePage
  BY <1>a, <1>b, <1>10 DEF WritePage
<1>11. CASE MarkPage
  <2>1. page'[cycle.at].status = "fetched" /\ \A q \in Pages : q # cycle.at => page'[q] = page[q]
    BY <1>b, <1>11, SetOne DEF MarkPage
  <2> QED BY <1>a, <1>b, <1>11, <2>1, CrawlAssumption DEF MarkPage, Answered
<1>12. CASE BeginLinks
  BY <1>a, <1>b, <1>12 DEF BeginLinks, Open, List
<1>13. CASE RequeueStale
  <2>1. \A q \in Pages : page'[q] = page[q] \/ page'[q].status = "pending"
    BY <1>13, RequeuedType DEF RequeueStale, Stale
  <2> QED BY <1>a, <1>b, <1>13, <2>1 DEF RequeueStale
<1> QED BY <1>1, <1>2, <1>3, <1>4, <1>5, <1>6, <1>7, <1>8, <1>9, <1>10, <1>11, <1>12, <1>13

\* Phases 3 and 5: types.
LEMMA LinksTyped ==
    ASSUME CrawlInv,
           \/ \E h \in Hosts : \/ SkipLink(h) \/ AskLink(h)
           \/ LinkDone \/ LinkSlow \/ Link403 \/ BeginApprove \/ EndCycle
    PROVE  CrawlTypeOK'
<1> USE DEF CrawlTypeOK, tables
<1>a. CrawlTypeOK
  BY DEF CrawlInv
<1>b. cycle \in Cycle /\ cycle # Over
  BY <1>a, UnderWay DEF Phases, SkipLink, AskLink, Link, LinkDone, LinkSlow, Link403,
     BeginApprove, EndCycle
<1>c. cycle.step \notin {"requeue", "load", "next", "queue"} /\ cycle.phase = "links" => cycle.at \in Hosts
  BY <1>b DEF CrawlInv, AtIs
<1>1. ASSUME NEW h \in Hosts, SkipLink(h) PROVE CrawlTypeOK'
  <2>1. cycle' \in {Over} \cup Cycle
    BY <1>a, <1>b, <1>1, CycleSteps DEF SkipLink
  <2> QED BY <1>a, <1>b, <1>1, <2>1 DEF SkipLink
<1>2. ASSUME NEW h \in Hosts, AskLink(h) PROVE CrawlTypeOK'
  <2>1. cycle' \in {Over} \cup Cycle
    BY <1>a, <1>b, <1>2, CycleSteps DEF AskLink
  <2> QED BY <1>a, <1>b, <1>2, <2>1 DEF AskLink
<1>3. CASE LinkDone
  <2>1. cycle' \in {Over} \cup Cycle
    BY <1>a, <1>b, <1>3, CycleSteps DEF LinkDone
  <2> QED BY <1>a, <1>b, <1>3, <2>1 DEF LinkDone
<1>4. CASE LinkSlow
  <2>1. cycle' \in {Over} \cup Cycle
    BY <1>a, <1>b, <1>4, <1>c, CycleSteps, CrawlAssumption DEF LinkSlow, In
  <2> QED BY <1>a, <1>b, <1>4, <2>1 DEF LinkSlow
<1>5. CASE Link403
  <2>1. cycle' \in {Over} \cup Cycle
    BY <1>a, <1>b, <1>5, <1>c, CycleSteps, CrawlAssumption DEF Link403, SaysNo, In
  <2> QED BY <1>a, <1>b, <1>5, <2>1 DEF Link403, SaysNo, Deactivate
<1>6. CASE BeginApprove
  <2>1. cycle' \in {Over} \cup Cycle
    BY <1>a, <1>b, <1>6 DEF Cycle, BeginApprove, Open, Phases
  <2> QED BY <1>a, <1>b, <1>6, <2>1 DEF BeginApprove, Open, Phases
<1>7. CASE EndCycle
  <2>1. cycle' \in {Over} \cup Cycle
    BY <1>a, <1>b, <1>7 DEF EndCycle
  <2> QED BY <1>a, <1>b, <1>7, <2>1 DEF EndCycle
<1> QED BY <1>1, <1>2, <1>3, <1>4, <1>5, <1>6, <1>7

LEMMA LinksStep ==
    ASSUME CrawlInv,
           \/ \E h \in Hosts : \/ SkipLink(h) \/ AskLink(h)
           \/ LinkDone \/ LinkSlow \/ Link403 \/ BeginApprove \/ EndCycle
    PROVE  CrawlInv'
<1> USE NotOver DEF CrawlInv, OneRunOpen, FetchedMeansWritten, AtIs, TodoPending, MarkAfterWrite,
             SaidNo, DriftedOut, In, tables, Cycle
<1>a. CrawlTypeOK'
  BY LinksTyped
<1>b. cycle \in Cycle /\ cycle # Over
  BY UnderWay DEF Phases, SkipLink, AskLink, Link, LinkDone, LinkSlow, Link403,
     BeginApprove, EndCycle
<1>1. ASSUME NEW h \in Hosts, SkipLink(h) PROVE CrawlInv'
  BY <1>a, <1>b, <1>1 DEF SkipLink, Link, Pass
<1>2. ASSUME NEW h \in Hosts, AskLink(h) PROVE CrawlInv'
  BY <1>a, <1>b, <1>2 DEF AskLink, Link, Ask
<1>3. CASE LinkDone
  BY <1>a, <1>b, <1>3 DEF LinkDone, Answered
<1>4. CASE LinkSlow
  BY <1>a, <1>b, <1>4 DEF LinkSlow, SlowDown
<1>5. CASE Link403
  BY <1>a, <1>b, <1>5 DEF Link403, SaysNo, Deactivate
<1>6. CASE BeginApprove
  BY <1>a, <1>b, <1>6 DEF BeginApprove, Open
<1>7. CASE EndCycle
  BY <1>a, <1>b, <1>7 DEF EndCycle
<1> QED BY <1>1, <1>2, <1>3, <1>4, <1>5, <1>6, <1>7

\* The night begins; pages grow a night older.
LEMMA StartStep == ASSUME CrawlInv, StartCycle PROVE CrawlInv'
<1>1. \A r \in PageRow : /\ r.age < StaleNights => [r EXCEPT !.age = @ + 1] \in PageRow
                         /\ [r EXCEPT !.age = @ + 1].status = r.status
  BY CrawlAssumption DEF PageRow
<1>2. page' \in [Pages -> PageRow] /\ \A p \in Pages : page'[p].status = page[p].status
  BY <1>1 DEF CrawlInv, CrawlTypeOK, StartCycle, Aged
<1>3. cycle' \in Cycle
  BY DEF CrawlInv, CrawlTypeOK, StartCycle, Cycle, Phases
<1>4. CrawlTypeOK'
  BY <1>2, <1>3 DEF CrawlInv, CrawlTypeOK, StartCycle, Phases
<1> QED BY <1>2, <1>4 DEF CrawlInv, StartCycle, OneRunOpen, FetchedMeansWritten, AtIs, TodoPending,
           MarkAfterWrite, SaidNo, DriftedOut

LEMMA AbortStep == ASSUME CrawlInv, Abort PROVE CrawlInv'
  BY DEF CrawlInv, Abort, tables, CrawlTypeOK, OneRunOpen, FetchedMeansWritten

\* People pause and release sources.
LEMMA SwitchSourceStep == ASSUME CrawlInv, NEW s \in Sources, SwitchSource(s) PROVE CrawlInv'
<1> USE DEF CrawlInv, OneRunOpen, FetchedMeansWritten, AtIs, TodoPending, MarkAfterWrite, SaidNo,
            DriftedOut
<1>1. CASE cycle = Over
  BY <1>1 DEF SwitchSource, CrawlTypeOK
<1>2. CASE cycle # Over
  <2>1. cycle \in Cycle
    BY <1>2 DEF CrawlTypeOK
  <2>2. cycle' = [cycle EXCEPT !.said403 = @ \ ({s} \ active)] /\ cycle' \in Cycle
    BY <1>2, <2>1 DEF SwitchSource, Cycle
  <2>3. CrawlTypeOK'
    BY <2>2 DEF CrawlTypeOK, SwitchSource
  <2> QED BY <1>2, <2>1, <2>2, <2>3, NotOver DEF SwitchSource, Cycle
<1> QED BY <1>1, <1>2

\* People pause and release hosts.
LEMMA SwitchAliasStep == ASSUME CrawlInv, NEW h \in Hosts, SwitchAlias(h) PROVE CrawlInv'
<1> USE DEF CrawlInv, OneRunOpen, FetchedMeansWritten, AtIs, TodoPending, MarkAfterWrite, SaidNo,
            DriftedOut
<1>1. CASE cycle = Over
  BY <1>1 DEF SwitchAlias, CrawlTypeOK
<1>2. CASE cycle # Over
  <2>1. cycle \in Cycle
    BY <1>2 DEF CrawlTypeOK
  <2>2. /\ cycle' = [cycle EXCEPT !.barred = @ \ ({h} \ aliases), !.drifted = @ \ ({h} \ aliases)]
        /\ cycle' \in Cycle
    BY <1>2, <2>1 DEF SwitchAlias, Cycle
  <2>3. CrawlTypeOK'
    BY <2>2 DEF CrawlTypeOK, SwitchAlias
  <2> QED BY <1>2, <2>1, <2>2, <2>3, NotOver DEF SwitchAlias, Cycle
<1> QED BY <1>1, <1>2

LEMMA StepInv == CrawlInv /\ [CrawlNext]_crawlVars => CrawlInv'
<1> SUFFICES ASSUME CrawlInv, [CrawlNext]_crawlVars PROVE CrawlInv'
  OBVIOUS
<1>1. CASE Progress
  BY <1>1, StartStep, RobotsStep, DiscoveryStep, IngestStep, LinksStep DEF Progress
<1>2. CASE Abort
  BY <1>2, AbortStep
<1>3. ASSUME NEW s \in Sources, SwitchSource(s) PROVE CrawlInv'
  BY <1>3, SwitchSourceStep
<1>4. ASSUME NEW h \in Hosts, SwitchAlias(h) PROVE CrawlInv'
  BY <1>4, SwitchAliasStep
<1>5. CASE UNCHANGED crawlVars
  BY <1>5 DEF crawlVars, tables, CrawlInv, CrawlTypeOK, OneRunOpen, FetchedMeansWritten, AtIs,
              TodoPending, MarkAfterWrite, SaidNo, DriftedOut
<1> QED BY <1>1, <1>2, <1>3, <1>4, <1>5 DEF CrawlNext

-----------------------------------------------------------------------------
(* Theorems                                                                *)

THEOREM CrawlInvariant == CrawlSpec => []CrawlInv
  BY InitInv, StepInv, PTL DEF CrawlSpec

\* Every table and the invocation keep their shape.
THEOREM CrawlTypeCorrect == CrawlSpec => []CrawlTypeOK
  BY CrawlInvariant, PTL DEF CrawlInv

\* At most the phase under way has a row that says 'running'.
THEOREM OneRun == CrawlSpec => []OneRunOpen
  BY CrawlInvariant, PTL DEF CrawlInv

\* No page is marked 'fetched' before its event row is written, wherever an
\* invocation is stopped.
THEOREM MarksVouch == CrawlSpec => []FetchedMeansWritten
  BY CrawlInvariant, PTL DEF CrawlInv

\* Whoever is asked is neither of a company that said 403 nor a host whose
\* robots.txt drifted.
LEMMA WhoIsAsked ==
    ASSUME CrawlInv, NEW h \in Hosts, Requests(h)
    PROVE  Company[h] \notin cycle.said403 /\ h \notin cycle.drifted
<1>1. /\ cycle.phase \in {"discovery", "ingest", "links"}
      /\ ~ BackedOff(h) /\ Gate(h)
      /\ cycle.step = "next"
  BY DEF Requests, AskListing, Listing, AskPage, Page, Fetchable, AskLink, Link, In, BackedOff
<1>2. cycle # Over
  BY <1>1 DEF Over
<1> QED BY <1>1, <1>2 DEF CrawlInv, SaidNo, DriftedOut, BackedOff, Gate

\* "An answer that stops that host": after a listing, a page or a link was
\* answered with 403, no host of the company is asked again in that night.
THEOREM No403Again == CrawlSpec => StopsAt403
<1>1. CrawlInv /\ [CrawlNext]_crawlVars =>
         [\A h \in Hosts : Requests(h) => Company[h] \notin cycle.said403]_crawlVars
  BY WhoIsAsked
<1> QED BY <1>1, CrawlInvariant, PTL DEF CrawlSpec, StopsAt403

\* A host whose robots.txt drifted is left alone for the night.
THEOREM DriftStops == CrawlSpec => DriftStopsHost
<1>1. CrawlInv /\ [CrawlNext]_crawlVars =>
         [\A h \in Hosts : Requests(h) => h \notin cycle.drifted]_crawlVars
  BY WhoIsAsked
<1> QED BY <1>1, CrawlInvariant, PTL DEF CrawlSpec, DriftStopsHost
=============================================================================
