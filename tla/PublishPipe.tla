----------------------------- MODULE PublishPipe -----------------------------
(***************************************************************************)
(* The publish pipe: the publisher Worker (publisher/src/index.js,         *)
(* selection.js, payload.js, sign.js), the events table it reads, and the  *)
(* app's copy of the listings behind almanac-ingest.                       *)
(*                                                                         *)
(* A cron trigger starts an invocation every ten minutes; each takes a     *)
(* timestamp, selects the rows that are due, posts one signed batch and,   *)
(* on a 2xx, sets published_at to that timestamp.  Reviewers, the scout    *)
(* and operators move and revise rows at any time in between.  The batch   *)
(* and the answer may be delayed or lost and the invocation may die.       *)
(*                                                                         *)
(* Two notions of time.  clock gives the stamps that updated_at and        *)
(* published_at compare; the Worker, which timestamps the batch, and the   *)
(* database, which stamps the rows, are taken to agree on it.  The ages of *)
(* invocations count the minutes of the cron period and of the freshness   *)
(* window.                                                                 *)
(***************************************************************************)
EXTENDS Naturals, FiniteSets, StatusRules

CONSTANTS
    Events,      \* ids of events
    Contents,    \* what the app receives of a row besides its status
    Linked,      \* the contents toTournamentRow accepts: with a registration_url
    Null,        \* SQL NULL
    Slots,       \* invocations of the publisher that may overlap
    BatchCap,    \* MAX_BATCH_ROWS
    Ceiling,     \* ANOMALY_CEILING
    Window,      \* MAX_TIMESTAMP_AGE_MS
    Period,      \* the cron period, and the least time between two starts
    MaxClock     \* bound: stamps

ASSUME PipeAssumption ==
    /\ Linked \subseteq Contents
    /\ Null \notin Contents \cup Nat
    /\ BatchCap \in Nat \ {0}
    /\ Ceiling \in Nat
    /\ Window \in Nat /\ Period \in Nat
    /\ MaxClock \in Nat

VARIABLES
    row,       \* the events table
    clock,     \* the latest stamp of a row
    blessed,   \* the contents a person ever approved each event with, here or
               \* in the app (no column holds it: the properties use it)
    job,       \* the invocations
    app        \* the app's tournaments table, by almanac_id

pipeVars == <<row, clock, blessed, job, app>>

-----------------------------------------------------------------------------
(* Tables and jobs                                                         *)

Listing == [status      : Statuses \cup {"absent"},
            content     : Contents \cup {Null},
            updatedAt   : Nat,
            publishedAt : Nat \cup {Null}]

NoListing == [status |-> "absent", content |-> Null, updatedAt |-> 0, publishedAt |-> Null]

\* A row of a batch, as selected; mapStatus turns 'stale' into 'expired'.
Wire == [id : Events, status : {"approved", "expired"}, content : Contents]

\* Statuses of a copy in the hands of the app's own reviewers.
Held == {"needs_review", "rejected"}

NoCopy == [status |-> "none", content |-> Null]

Copy == {NoCopy} \cup [status : {"approved", "expired"} \cup Held, content : Contents]

\* flying: the batch may still reach the app, whatever became of the sender.
Horizon == Window + Period + 1

Job == [step   : {"over", "started", "posted", "confirmed"},
        at     : Nat,
        rows   : SUBSET Wire,
        flying : BOOLEAN,
        age    : 0..Horizon]

NoJob == [step |-> "over", at |-> 0, rows |-> {}, flying |-> FALSE, age |-> Horizon]

-----------------------------------------------------------------------------
(* The events table as reviewers, scout and operators change it.  Each     *)
(* change has a stamp of its own.                                          *)

Now == clock + 1

Stamped == clock' = Now /\ Now <= MaxClock

EventMoves == SystemMoves \cup HumanMoves \cup ExpiryMoves

Insert(e, c) ==
    /\ row[e].status = "absent"
    /\ Stamped
    /\ row' = [row EXCEPT ![e] = [NoListing EXCEPT
                  !.status = "draft", !.content = c, !.updatedAt = Now]]
    /\ UNCHANGED <<blessed, job, app>>

\* review_log_apply_transition sets updated_at to the entry's created_at.
Transit(e, to) ==
    /\ <<row[e].status, to>> \in EventMoves
    /\ to = "approved" => row[e].content \in Linked
    /\ Stamped
    /\ row' = [row EXCEPT ![e].status = to, ![e].updatedAt = Now]
    /\ blessed' = IF to = "approved"
                  THEN [blessed EXCEPT ![e] = @ \cup {row[e].content}]
                  ELSE blessed
    /\ UNCHANGED <<job, app>>

\* An edit, or a re-crawl that found another content.  The console stamps
\* the row with the present; the scout with nowIso, when its cycle began, so
\* updatedAt may go back.
Revise(e, c, stamp) ==
    /\ row[e].status \notin {"absent", "approved"}
    /\ row[e].content # c
    /\ stamp <= Now
    /\ Stamped
    /\ row' = [row EXCEPT ![e].content = c, ![e].updatedAt = stamp]
    /\ UNCHANGED <<blessed, job, app>>

\* The scout's re-crawl of an approved row: the transition's stamp is
\* overwritten in the same batch.
DemoteAndRevise(e, c, stamp) ==
    /\ row[e].status = "approved"
    /\ row[e].content # c
    /\ stamp <= Now
    /\ Stamped
    /\ row' = [row EXCEPT ![e].status = "needs_review", ![e].content = c,
                          ![e].updatedAt = stamp]
    /\ UNCHANGED <<blessed, job, app>>

-----------------------------------------------------------------------------
(* The publisher                                                           *)

\* SELECT_DUE_SQL.
Moved(r) == r.publishedAt # Null /\ r.updatedAt > r.publishedAt

IsDue(r) == \/ r.status = "approved" /\ (r.publishedAt = Null \/ Moved(r))
            \/ r.status = "stale" /\ Moved(r)

Due == {e \in Events : IsDue(row[e])}

\* ORDER BY updated_at, the first n; rows with the same stamp in any order.
Oldest(S, n) ==
    {T \in SUBSET S :
        /\ Cardinality(T) = IF Cardinality(S) < n THEN Cardinality(S) ELSE n
        /\ \A e \in T, f \in S \ T : row[e].updatedAt <= row[f].updatedAt}

\* Mutants of ToWire: the status as it is; every row approved.
ToWireUnmapped(e) == [id |-> e, status |-> row[e].status, content |-> row[e].content]

ToWireApproved(e) == [id |-> e, status |-> "approved", content |-> row[e].content]

\* toTournamentRow and mapStatus.
ToWire(e) == [id |-> e,
              status |-> IF row[e].status = "approved" THEN "approved" ELSE "expired",
              content |-> row[e].content]

\* What was selected is forgotten once the batch cannot land any more.
Closed(j) == IF j.flying THEN [j EXCEPT !.step = "over"] ELSE [NoJob EXCEPT !.age = j.age]

Over(c) == job' = [job EXCEPT ![c] = Closed(@)]

\* The cron trigger; the timestamp is taken before the rows are read.  A slot
\* stands for a new invocation once the old one's batch cannot land any more.
StartCycle(c) ==
    /\ job[c].step = "over"
    /\ ~ job[c].flying
    /\ \A d \in Slots : job[d].age >= Period
    /\ job' = [job EXCEPT ![c] = [NoJob EXCEPT !.step = "started", !.at = clock, !.age = 0]]
    /\ UNCHANGED <<row, clock, blessed, app>>

\* Mutant: a backlog over the batch cap refused, as before 2026-10-05.
SelectAllOrNothing(c) ==
    /\ job[c].step = "started"
    /\ IF Due = {} \/ Cardinality(Due) > BatchCap
       THEN Over(c)
       ELSE job' = [job EXCEPT ![c].step = "posted", ![c].flying = TRUE,
                               ![c].rows = {ToWire(e) : e \in Due}]
    /\ UNCHANGED <<row, clock, blessed, app>>

\* nothing_due and volume_alert, or the oldest batch is built and posted;
\* buildBatch throws if one of its rows lacks a field the app requires.
Select(c) ==
    /\ job[c].step = "started"
    /\ IF Due = {} \/ Cardinality(Due) > Ceiling
       THEN Over(c)
       ELSE \E batch \in Oldest(Due, BatchCap) :
               IF \A e \in batch : row[e].content \in Linked
               THEN job' = [job EXCEPT ![c].step = "posted", ![c].flying = TRUE,
                                       ![c].rows = {ToWire(e) : e \in batch}]
               ELSE Over(c)
    /\ UNCHANGED <<row, clock, blessed, app>>

\* Mutant: everything due now is marked, not what the batch carried.
MarkAllDue(c) ==
    /\ job[c].step = "confirmed"
    /\ row' = [e \in Events |-> IF e \in Due THEN [row[e] EXCEPT !.publishedAt = clock] ELSE row[e]]
    /\ Over(c)
    /\ UNCHANGED <<clock, blessed, app>>

\* MARK_PUBLISHED_SQL, after a 2xx.
Mark(c) ==
    /\ job[c].step = "confirmed"
    /\ LET sent == {w.id : w \in job[c].rows}
       IN  row' = [e \in Events |-> IF e \in sent THEN [row[e] EXCEPT !.publishedAt = job[c].at]
                                                  ELSE row[e]]
    /\ Over(c)
    /\ UNCHANGED <<clock, blessed, app>>

\* Killed by the platform, a failed read or write, or an answer that never
\* comes.
Die(c) ==
    /\ job[c].step # "over"
    /\ Over(c)
    /\ UNCHANGED <<row, clock, blessed, app>>

-----------------------------------------------------------------------------
(* The network and almanac-ingest                                          *)

\* Mutant: no freshness check.
FreshAlways(c) == job[c].age <= Horizon

\* isTimestampFresh, which the app mirrors.
Fresh(c) == job[c].age <= Window

\* What an UPSERT can make of a copy's status.  tournaments_demote_on_edit sends
\* an approved copy with another content to the app's own review (one that
\* comes as expired may as well expire); what becomes of a copy that is held
\* there no document says.
Landing(w) ==
    CASE app[w.id].status = "approved" /\ app[w.id].content # w.content ->
             {"needs_review"} \cup ({w.status} \ {"approved"})
      [] app[w.id].status \in Held -> Held \cup {w.status}
      [] OTHER -> {w.status}

\* The whole batch in one transaction.
Ingest(c) ==
    \E status \in [job[c].rows -> Held \cup {"approved", "expired"}] :
        /\ \A w \in job[c].rows : status[w] \in Landing(w)
        /\ app' = [e \in Events |->
                     IF \E w \in job[c].rows : w.id = e
                     THEN LET w == CHOOSE w \in job[c].rows : w.id = e
                          IN  [status |-> status[w], content |-> w.content]
                     ELSE app[e]]

\* A reviewer of the app decides a copy that waits.
AppDecides(e, to) ==
    /\ app[e].status = "needs_review"
    /\ app' = [app EXCEPT ![e].status = to]
    /\ blessed' = IF to = "approved"
                  THEN [blessed EXCEPT ![e] = @ \cup {app[e].content}]
                  ELSE blessed
    /\ UNCHANGED <<row, clock, job>>

\* The batch is applied; the 2xx reaches a sender that still waits for it.
Deliver(c) ==
    /\ job[c].flying /\ Fresh(c)
    /\ job[c].step = "posted"
    /\ Ingest(c)
    /\ job' = [job EXCEPT ![c].flying = FALSE, ![c].step = "confirmed"]
    /\ UNCHANGED <<row, clock, blessed>>

\* The batch is applied; nobody hears of it.
DeliverUnheard(c) ==
    /\ job[c].flying /\ Fresh(c)
    /\ Ingest(c)
    /\ job' = [job EXCEPT ![c] = Closed([@ EXCEPT !.flying = FALSE])]
    /\ UNCHANGED <<row, clock, blessed>>

\* The batch is lost, or refused: too old or for a reason of the app's own.
Lose(c) ==
    /\ job[c].flying
    /\ job' = [job EXCEPT ![c] = Closed([@ EXCEPT !.flying = FALSE])]
    /\ UNCHANGED <<row, clock, blessed, app>>

\* A minute passes.
Tick ==
    /\ job' = [c \in Slots |-> [job[c] EXCEPT !.age = IF @ < Horizon THEN @ + 1 ELSE @]]
    /\ job' # job
    /\ UNCHANGED <<row, clock, blessed, app>>

-----------------------------------------------------------------------------

PipeInit ==
    /\ row = [e \in Events |-> NoListing]
    /\ clock = 0
    /\ blessed = [e \in Events |-> {}]
    /\ job = [c \in Slots |-> NoJob]
    /\ app = [e \in Events |-> NoCopy]

Editors ==
    \E e \in Events :
        \/ \E c \in Contents : \/ Insert(e, c)
                               \/ \E stamp \in 0..Now : \/ Revise(e, c, stamp)
                                                        \/ DemoteAndRevise(e, c, stamp)
        \/ \E to \in Statuses : Transit(e, to)

Pipe == \E c \in Slots : \/ StartCycle(c) \/ Select(c) \/ Mark(c) \/ Die(c)
                        \/ Deliver(c) \/ DeliverUnheard(c) \/ Lose(c)

AppReview == \E e \in Events, to \in {"approved", "rejected"} : AppDecides(e, to)

PipeNext == Editors \/ Pipe \/ AppReview \/ Tick

PipeSpec == PipeInit /\ [][PipeNext]_pipeVars

\* The cron keeps firing and time passes; an invocation may be slow or die,
\* its batch and its last write may fail, any number of times but not every
\* time.  One that hangs is killed in the end.  Nobody has to touch a row,
\* here or in the app.
FairPipe ==
    /\ PipeSpec
    /\ WF_pipeVars(Tick)
    /\ WF_pipeVars(\E c \in Slots : ~ Fresh(c) /\ (Lose(c) \/ Die(c)))
    /\ SF_pipeVars(\E c \in Slots : StartCycle(c))
    /\ SF_pipeVars(\E c \in Slots : Fresh(c) /\ Select(c))
    /\ SF_pipeVars(\E c \in Slots : Deliver(c))
    /\ SF_pipeVars(\E c \in Slots : Mark(c))

-----------------------------------------------------------------------------
(* Properties                                                              *)

\* Every table and invocation has its shape.
PipeTypeOK ==
    /\ row \in [Events -> Listing]
    /\ clock \in Nat
    /\ blessed \in [Events -> SUBSET Contents]
    /\ job \in [Slots -> Job]
    /\ app \in [Events -> Copy]

\* A draft never crosses: what members read was approved with just that
\* content, here or by the app's own reviewers, however old the batch that
\* brought it.
OnlyApprovedCrosses ==
    \A e \in Events : app[e].status = "approved" => app[e].content \in blessed[e]

\* The copy has just this content, and is shown or held by the app's reviewers.
Arrived(copy, content) ==
    copy.content = content /\ copy.status \in {"approved"} \cup Held

\* A row marked as published since its last change is at the app with the
\* content it has now, in the member read unless the app's own review holds
\* it: no mark for what never arrived, and no older batch on top of a newer one.
PublishedMeansDelivered ==
    \A e \in Events :
        row[e].status = "approved" /\ row[e].publishedAt # Null /\ ~ Moved(row[e]) =>
            Arrived(app[e], row[e].content)

\* An approved row that nobody takes back reaches the app, whatever is in
\* the queue before it.
BacklogDrains ==
    \A e \in Events :
        []<>(row[e].status # "approved" \/ Arrived(app[e], row[e].content))

-----------------------------------------------------------------------------
(* What the repository says and the pipe refutes                           *)

\* payload.js: "A rejected ALMANAC row publishes nothing... it never crossed
\* to 'approved' in the first place"; ARCHITECTURE.md section 11: "Marking it
\* stale in ALMANAC removes it from the member read".  So a row that stays
\* rejected or stale does not stay in the app.
GoneLeavesApp ==
    \A e \in Events :
        []<>(row[e].status \notin {"rejected", "stale"} \/ app[e].status # "approved")

=============================================================================
