----------------------------- MODULE ReviewDesk -----------------------------
(***************************************************************************)
(* The clients of the ledger: the reviewers' requests to the console       *)
(* (console/src/data.js) and the scout's nightly cycle (scout/src/         *)
(* index.js, ingest.js, linkcheck.js, autoapprove.js).                     *)
(*                                                                         *)
(* Each of them reads rows in awaits of its own and later sends one batch. *)
(* Between a read and the batch anybody else may act, so every read and    *)
(* every batch is a step by itself, and what was read is kept in the       *)
(* request or in the scout's job.  The batches are ReviewLedger's; one the *)
(* triggers refuse ends the request (409) or the scout's cycle (throw) and *)
(* changes no table.                                                       *)
(***************************************************************************)
EXTENDS ReviewLedger, FiniteSets

CONSTANTS
    Scout,        \* 'system:scout-<source>', the upserts
    LinkChecker,  \* 'system:scout-linkcheck'
    AutoApprover, \* 'system:auto-approve'
    Rule,         \* 'tier1_listing_v1'
    Passing,      \* the contents evaluateCandidate and CANDIDATES_SQL pass
    Near,         \* pairs of contents the console shows as possible duplicates
    Twin          \* pairs with the same date, city, state and normalized name

ASSUME DeskAssumption ==
    /\ {Scout, LinkChecker, AutoApprover} \subseteq Components
    /\ Rule \in Rules
    /\ Passing \subseteq Linked
    /\ Twin \subseteq Near
    /\ Near \subseteq Contents \X Contents

VARIABLES
    verified,   \* row_signals: the newest recorded check of each event
    cleared,    \* row_signals: the ids the newest 'distinct' signal names
    desk,       \* each reviewer's request in flight
    scout       \* the scout's phase and job

deskVars == <<row, log, enabled, active, verified, cleared, desk, scout>>

Others == <<verified, cleared>>

-----------------------------------------------------------------------------
(* Requests and jobs                                                       *)

Idle == [kind |-> "idle"]

\* near and clear are sets of event ids, seen the content that was read.
Ask(kind, step, e, plain, seen, green, clear, near) ==
    [kind |-> kind, step |-> step, row |-> e, plain |-> plain,
     seen |-> seen, green |-> green, clear |-> clear, near |-> near]

Asks == [kind  : {"approve", "reject", "merge", "distinct"},
         step  : {"status", "event", "signals", "ready"},
         row   : Events,
         plain : BOOLEAN,
         seen  : Contents \cup {Null},
         green : BOOLEAN,
         clear : SUBSET Events,
         near  : SUBSET Events]

Edits == [kind : {"edit"}, row : Events, to : Contents]

Undos == [kind : {"undo"}, row : Events, from : {"approved", "rejected"}, entry : Nat]

NoJob == [phase |-> "crawl", job |-> "none"]

Upserts == [phase  : {"crawl"}, job : {"upsert"}, row : Events, draft : Contents,
            status : Statuses \cup {"absent"}, seen : Contents \cup {Null}]

LinkChecks == [phase : {"links"}, todo : SUBSET Events]

\* seen is the candidates' content when they were read; since is how long
\* review_log was then (no column holds it: the properties use it).
Approvals == [phase : {"approve"}, todo : SUBSET Events, at : Events \cup {Null},
              seen  : [Events -> Contents \cup {Null}], since : Nat]

-----------------------------------------------------------------------------
(* What the clients compute from what they read                            *)

\* chipsFor, one check for all critical fields: green when the newest check
\* found the value the row has.
Green(e, content) == verified[e] = [content |-> content, passed |-> TRUE]

\* candidatesFor and the similarity filter of duplicateState.
Candidates(e, content) ==
    {f \in Events \ {e} : /\ row[f].status \notin {"absent", "rejected"}
                          /\ <<row[f].content, content>> \in Near}

\* approvalEligibility and the deliberate flag of decide.
MayApprove(q, near) ==
    /\ q.seen \in Linked
    /\ q.plain => q.green /\ near \subseteq q.clear

\* CANDIDATES_SQL's last clause.
SentBack(e) ==
    \E i \in 1..Len(log) : /\ IsTransition(i, e)
                           /\ log[i].actor \in Reviewers
                           /\ log[i].to \in {"needs_review", "rejected"}

\* Mutant: CANDIDATES_SQL without its NOT EXISTS.
AutoCandidatesAnyHistory ==
    {e \in Events : row[e].status = "needs_review" /\ row[e].content \in Passing}

AutoCandidates ==
    {e \in Events : /\ row[e].status = "needs_review"
                    /\ row[e].content \in Passing
                    /\ ~ SentBack(e)}

\* SAME_DAY_AND_PLACE_SQL and the name comparison.
HasTwin(e, content) ==
    \E f \in Events \ {e} : /\ row[f].status \in {"approved", "needs_review"}
                            /\ <<row[f].content, content>> \in Twin

\* Mutant: every transition a decision.
DecisionsAnyMove(a) == {i \in 1..Len(log) : /\ log[i].action = "transition"
                                            /\ log[i].actor = a}

\* recentDecisions: a reviewer's decisions and the last five of them.
Decisions(a) == {i \in 1..Len(log) : /\ log[i].row \in Events
                                     /\ log[i].action = "transition"
                                     /\ log[i].actor = a
                                     /\ log[i].to \in {"approved", "rejected"}}

LastFive(a) == {i \in Decisions(a) : Cardinality({j \in Decisions(a) : j > i}) < 5}

Undoable(i) == /\ LatestTransition(i, log[i].row)
               /\ row[log[i].row].status = log[i].to

-----------------------------------------------------------------------------
(* The console                                                             *)

Busy(a, q) == desk' = [desk EXCEPT ![a] = q]

Done(a) == Busy(a, Idle)

Waiting(e) == row[e].status = "needs_review"

\* handleApi admits active reviewers; requireStatus.
Begin(a, e, kind, plain) ==
    /\ desk[a] = Idle
    /\ a \in active
    /\ Waiting(e)
    /\ Busy(a, Ask(kind, IF kind = "reject" THEN "ready" ELSE "status",
                   e, plain, Null, FALSE, {}, {}))
    /\ UNCHANGED <<ledgerVars, Others, scout>>

\* rowDetail, its three reads.
ReadEvent(a) ==
    LET q == desk[a]
    IN  /\ q.kind \in {"approve", "merge", "distinct"}
        /\ q.step = "status"
        /\ Busy(a, [q EXCEPT !.step = "event", !.seen = row[q.row].content])
        /\ UNCHANGED <<ledgerVars, Others, scout>>

ReadSignals(a) ==
    LET q == desk[a]
    IN  /\ q.kind \in {"approve", "merge", "distinct"}
        /\ q.step = "event"
        /\ Busy(a, [q EXCEPT !.step = "signals", !.green = Green(q.row, q.seen),
                             !.clear = cleared[q.row]])
        /\ UNCHANGED <<ledgerVars, Others, scout>>

\* The third read, and what is decided on it: an approval that is not
\* eligible, a merge or distinct without a candidate ends here.
ReadCandidates(a) ==
    LET q == desk[a]
        near == Candidates(q.row, q.seen)
    IN  /\ q.kind \in {"approve", "merge", "distinct"}
        /\ q.step = "signals"
        /\ IF \/ q.kind = "approve" /\ MayApprove(q, near)
              \/ q.kind # "approve" /\ near # {}
           THEN Busy(a, [q EXCEPT !.step = "ready", !.near = near])
           ELSE Done(a)
        /\ UNCHANGED <<ledgerVars, Others, scout>>

Ready(a, kind) == desk[a].kind = kind /\ desk[a].step = "ready"

\* Mutant: the status set beside the entry, not by it.
SendUnguarded(e, from, to, actor, rule) ==
    /\ row' = [row EXCEPT ![e].status = to]
    /\ Append1(Transition(e, from, to, actor, rule))
    /\ UNCHANGED <<enabled, active>>

\* A transition is sent: taken, or refused by the trigger.
Send(e, from, to, actor, rule) ==
    IF Admits(row[e], Transition(e, from, to, actor, rule))
    THEN Move(e, from, to, actor, rule)
    ELSE UNCHANGED ledgerVars

Decide(a) ==
    /\ \/ Ready(a, "approve") /\ Send(desk[a].row, "needs_review", "approved", a, Null)
       \/ Ready(a, "reject") /\ Send(desk[a].row, "needs_review", "rejected", a, Null)
    /\ Done(a)
    /\ UNCHANGED <<Others, scout>>

MergeInto(a) ==
    /\ Ready(a, "merge")
    /\ IF Admits(row[desk[a].row], Transition(desk[a].row, "needs_review", "rejected", a, Null))
       THEN \E f \in desk[a].near : Merge(desk[a].row, f, a)
       ELSE UNCHANGED ledgerVars
    /\ Done(a)
    /\ UNCHANGED <<Others, scout>>

\* Only a signal is written, and no trigger guards its row's status.
MarkDistinct(a) ==
    /\ Ready(a, "distinct")
    /\ cleared' = [cleared EXCEPT ![desk[a].row] = desk[a].near]
    /\ Done(a)
    /\ UNCHANGED <<ledgerVars, verified, scout>>

\* editEvent: the row is read, then the batch.  A patch that changes nothing
\* writes nothing.
BeginEdit(a, e, c) ==
    /\ desk[a] = Idle
    /\ a \in active
    /\ Waiting(e)
    /\ c # row[e].content
    /\ Busy(a, [kind |-> "edit", row |-> e, to |-> c])
    /\ UNCHANGED <<ledgerVars, Others, scout>>

Edit(a) ==
    /\ desk[a].kind = "edit"
    /\ IF Unlocked(row[desk[a].row], desk[a].to) /\ MayLog(a)
       THEN Revise(desk[a].row, desk[a].to, a)
       ELSE UNCHANGED ledgerVars
    /\ Done(a)
    /\ UNCHANGED <<Others, scout>>

\* undoDecision: the checks, then the batch.
BeginUndo(a, i) ==
    /\ desk[a] = Idle
    /\ a \in active
    /\ i \in LastFive(a)
    /\ log[i].row \in Events
    /\ Undoable(i)
    /\ Busy(a, [kind |-> "undo", row |-> log[i].row, from |-> log[i].to, entry |-> i])
    /\ UNCHANGED <<ledgerVars, Others, scout>>

Undo(a) ==
    /\ desk[a].kind = "undo"
    /\ Send(desk[a].row, desk[a].from, "needs_review", a, Null)
    /\ Done(a)
    /\ UNCHANGED <<Others, scout>>

\* addEvent: one batch and nothing read.
AddEvent(a, e, c) ==
    /\ desk[a] = Idle
    /\ a \in active
    /\ Enter(e, c, a)
    /\ UNCHANGED <<Others, desk, scout>>

\* No program under src/ inserts 'grounding' or passing 'link_live' signals;
\* the console only reads them.  External: a check of the row as it stands.
Verify(e) ==
    /\ row[e].status # "absent"
    /\ \E passed \in BOOLEAN :
          verified' = [verified EXCEPT ![e] = [content |-> row[e].content, passed |-> passed]]
    /\ UNCHANGED <<ledgerVars, cleared, desk, scout>>

-----------------------------------------------------------------------------
(* The scout's cycle: upserts, then link checks, then automatic approval.  *)
(* A refused batch throws, and the rest of the night does not happen.      *)

\* loadExistingEvent for a draft just parsed.
LoadExisting(e, c) ==
    /\ scout = NoJob
    /\ scout' = [phase |-> "crawl", job |-> "upsert", row |-> e, draft |-> c,
                 status |-> row[e].status, seen |-> row[e].content]
    /\ UNCHANGED <<ledgerVars, Others, desk>>

\* planEventUpsert and applyEventUpsert.
Upsert ==
    /\ scout.phase = "crawl" /\ scout.job = "upsert"
    /\ LET e == scout.row
           c == scout.draft
       IN  CASE scout.status = "absent" /\ row[e].status = "absent" ->
                    Enter(e, c, Scout)
             [] scout.status # "absent" /\ scout.status # "approved" /\ scout.seen # c
                    /\ Unlocked(row[e], c) -> Revise(e, c, Scout)
             [] scout.status = "approved" /\ scout.seen # c /\ row[e].status = "approved" ->
                    DemoteAndRevise(e, c, Scout)
             [] OTHER -> UNCHANGED ledgerVars
    /\ scout' = NoJob
    /\ UNCHANGED <<Others, desk>>

\* loadStaleApprovedLinks; which of them are due is a matter of time.
LoadLinks ==
    /\ scout = NoJob
    /\ \E due \in SUBSET {e \in Events : row[e].status = "approved"} :
          scout' = [phase |-> "links", todo |-> due]
    /\ UNCHANGED <<ledgerVars, Others, desk>>

\* markLinkLive, or one of the skips: nothing the ledger holds changes.
LinkKept(e) ==
    /\ scout.phase = "links"
    /\ e \in scout.todo
    /\ scout' = [scout EXCEPT !.todo = @ \ {e}]
    /\ UNCHANGED <<ledgerVars, Others, desk>>

\* demoteDeadLink.
LinkDead(e) ==
    /\ scout.phase = "links"
    /\ e \in scout.todo
    /\ IF row[e].status = "approved"
       THEN /\ Move(e, "approved", "needs_review", LinkChecker, Null)
            /\ scout' = [scout EXCEPT !.todo = @ \ {e}]
       ELSE UNCHANGED ledgerVars /\ scout' = NoJob
    /\ UNCHANGED <<Others, desk>>

\* runAutoApprove reads its rule and its candidates.
LoadCandidates ==
    /\ scout = [phase |-> "links", todo |-> {}]
    /\ scout' = IF Rule \in enabled
                THEN [phase |-> "approve", todo |-> AutoCandidates, at |-> Null,
                      seen |-> [e \in Events |-> row[e].content], since |-> Len(log)]
                ELSE NoJob
    /\ UNCHANGED <<ledgerVars, Others, desk>>

\* Mutant: twins not looked for.
CompareNothing(e) ==
    /\ scout.phase = "approve"
    /\ scout.at = Null
    /\ e \in scout.todo
    /\ scout' = [scout EXCEPT !.todo = @ \ {e}, !.at = e]
    /\ UNCHANGED <<ledgerVars, Others, desk>>

\* One candidate's same-day read: held, or next to be approved.
CompareTwins(e) ==
    /\ scout.phase = "approve"
    /\ scout.at = Null
    /\ e \in scout.todo
    /\ scout' = [scout EXCEPT !.todo = @ \ {e},
                              !.at = IF HasTwin(e, scout.seen[e]) THEN Null ELSE e]
    /\ UNCHANGED <<ledgerVars, Others, desk>>

\* Its batch.
AutoApprove(e) ==
    /\ scout.phase = "approve"
    /\ scout.at = e
    /\ IF Admits(row[e], Transition(e, "needs_review", "approved", AutoApprover, Rule))
       THEN /\ Move(e, "needs_review", "approved", AutoApprover, Rule)
            /\ scout' = [scout EXCEPT !.at = Null]
       ELSE UNCHANGED ledgerVars /\ scout' = NoJob
    /\ UNCHANGED <<Others, desk>>

EndCycle ==
    /\ scout.phase = "approve"
    /\ scout.todo = {} /\ scout.at = Null
    /\ scout' = NoJob
    /\ UNCHANGED <<ledgerVars, Others, desk>>

-----------------------------------------------------------------------------

DeskInit ==
    /\ Init
    /\ verified = [e \in Events |-> Null]
    /\ cleared = [e \in Events |-> {}]
    /\ desk = [a \in Reviewers |-> Idle]
    /\ scout = NoJob

Console(a) ==
    \/ \E e \in Events : \/ \E kind \in {"approve", "reject", "merge", "distinct"},
                               plain \in BOOLEAN :
                              /\ kind # "approve" => plain
                              /\ Begin(a, e, kind, plain)
                         \/ \E c \in Contents : BeginEdit(a, e, c) \/ AddEvent(a, e, c)
    \/ ReadEvent(a) \/ ReadSignals(a) \/ ReadCandidates(a)
    \/ Decide(a) \/ MergeInto(a) \/ MarkDistinct(a) \/ Edit(a)
    \/ \E i \in 1..Len(log) : BeginUndo(a, i)
    \/ Undo(a)

Crawl ==
    \/ \E e \in Events : \/ \E c \in Contents : LoadExisting(e, c)
                         \/ LinkKept(e) \/ LinkDead(e)
                         \/ CompareTwins(e) \/ AutoApprove(e)
    \/ Upsert \/ LoadLinks \/ LoadCandidates \/ EndCycle

Operator ==
    /\ \/ \E q \in Rules : SwitchRule(q)
       \/ \E a \in Reviewers : SwitchReviewer(a)
    /\ UNCHANGED <<Others, desk, scout>>

DeskNext ==
    \/ \E a \in Reviewers : Console(a)
    \/ Crawl
    \/ Operator
    \/ \E e \in Events : Verify(e)

DeskSpec == DeskInit /\ [][DeskNext]_deskVars

-----------------------------------------------------------------------------
(* Properties                                                              *)

\* Every table, request and job has its shape.
DeskTypeOK ==
    /\ TypeOK
    /\ verified \in [Events -> {Null} \cup [content : Contents \cup {Null}, passed : BOOLEAN]]
    /\ cleared \in [Events -> SUBSET Events]
    /\ desk \in [Reviewers -> {Idle} \cup Asks \cup Edits \cup Undos]
    /\ scout \in {NoJob} \cup Upserts \cup LinkChecks \cup Approvals

\* Whatever the clients do with what they read, at whatever time, the tables
\* only ever take steps the ledger allows.  (The same as Spec: the stutter is
\* written first because TLC tries it first.)
DeskImplementsLedger == Init /\ [][UNCHANGED ledgerVars \/ Next]_ledgerVars

\* The newest transition of a row that a person made.
LastHuman(i, e) ==
    /\ IsTransition(i, e) /\ log[i].actor \in Reviewers
    /\ \A j \in (i + 1)..Len(log) : ~ (IsTransition(j, e) /\ log[j].actor \in Reviewers)

\* The step approves e under a rule.
RuleApproves(e) ==
    /\ row[e].status # "approved" /\ row'[e].status = "approved"
    /\ row'[e].approvalRule # Null

\* No automatic approval overrules a person's rejection that still stands:
\* the newest word a person said on the row was not "rejected".
MachineRespectsRejection ==
    [][\A e \in Events : RuleApproves(e) =>
          \A i \in 1..Len(log) : LastHuman(i, e) => log[i].to # "rejected"]_deskVars

\* An automatic approval is exactly what autoapprove.js promises, unless
\* somebody touched a listing after the nightly run read its candidates: the
\* content passes every check, no person ever sent the row back, and no twin
\* is approved or waiting.
ApprovedAsJudged ==
    [][\A e \in Events :
          RuleApproves(e) /\ (\A i \in (scout.since + 1)..Len(log) : log[i].actor = AutoApprover) =>
              /\ row'[e].content \in Passing
              /\ ~ SentBack(e)
              /\ ~ HasTwin(e, row[e].content)]_deskVars

-----------------------------------------------------------------------------
(* What the repository says and the interleavings refute                   *)

\* The step is the batch of a's request, accepted.
Commits(a, kind) == desk[a].kind = kind /\ desk'[a] = Idle /\ row' # row

\* data.js: "You can only undo your own decisions".  An undo reverses the
\* decision it was asked to undo and not one that came after its checks, such
\* as an automatic approval once the link check took the first approval back.
UndoesOwnDecision ==
    [][\A a \in Reviewers : Commits(a, "undo") =>
          LatestTransition(desk[a].entry, desk[a].row)]_deskVars

=============================================================================
