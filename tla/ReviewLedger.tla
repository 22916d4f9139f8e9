---------------------------- MODULE ReviewLedger ----------------------------
(***************************************************************************)
(* The D1 database's own law for listings: the events and venues tables,   *)
(* the append-only review_log, and the triggers of                         *)
(* migrations/20260915000100_core_schema.sql that tie them together.       *)
(*                                                                         *)
(* A row's status and approval columns change only when review_log         *)
(* receives a 'transition' entry; the trigger review_log_apply_transition  *)
(* validates the entry and applies it in the same statement.  D1 runs one  *)
(* batch at a time and a refused statement rolls the whole batch back, so  *)
(* one action below is one batch: the statements the callers send          *)
(* together, accepted together.  A refused batch changes nothing and is    *)
(* no step here.                                                           *)
(*                                                                         *)
(* Next lets ANY actor send ANY of these batches at any time: it is the    *)
(* most general client.  What holds here holds whatever the console, the   *)
(* scout or an operator with a SQL prompt does.                            *)
(***************************************************************************)
EXTENDS Naturals, Sequences, StatusRules

CONSTANTS
    Events,       \* ids of events
    Venues,       \* ids of venues and venue sessions: the same law, no expiry
    Reviewers,    \* people in the reviewers table
    Components,   \* 'system:<component>' actors
    Rules,        \* approval_rules ids
    Contents,     \* the content of a row: every column the content lock names
    Linked,       \* the contents that carry a registration_url
    Null,         \* SQL NULL
    MaxLog        \* bound: entries in review_log

ASSUME LedgerAssumption ==
    /\ Events \cap Venues = {}
    /\ Reviewers \cap Components = {}
    /\ Linked \subseteq Contents
    /\ Null \notin Events \cup Venues \cup Reviewers \cup Rules \cup Contents \cup Components
    /\ MaxLog \in Nat

Rows == Events \cup Venues

Actors == Reviewers \cup Components

VARIABLES
    row,       \* the events/venues tables
    log,       \* review_log, in id order
    enabled,   \* the approval rules with enabled = 1
    active     \* the reviewers with active = 1

ledgerVars == <<row, log, enabled, active>>

-----------------------------------------------------------------------------
(* Tables                                                                  *)

\* One listing.  "absent" is an id not inserted yet; approvedAt is the id of
\* the review_log entry whose created_at the approved_at column repeats, and
\* 0 is NULL.
Listing == [status       : Statuses \cup {"absent"},
            content      : Contents \cup {Null},
            approvedBy   : Reviewers \cup {Null},
            approvalRule : Rules \cup {Null},
            approvedAt   : Nat]

NoListing == [status |-> "absent", content |-> Null,
              approvedBy |-> Null, approvalRule |-> Null, approvedAt |-> 0]

LogEntry == [row    : Rows,
             action : {"create", "edit", "transition", "merge"},
             from   : Statuses \cup {Null},
             to     : Statuses \cup {Null},
             actor  : Actors,
             rule   : Rules \cup {Null},
             into   : Rows \cup {Null}]

Note(r, action, actor, into) ==
    [row |-> r, action |-> action, from |-> Null, to |-> Null,
     actor |-> actor, rule |-> Null, into |-> into]

Transition(r, from, to, actor, rule) ==
    [row |-> r, action |-> "transition", from |-> from, to |-> to,
     actor |-> actor, rule |-> rule, into |-> Null]

-----------------------------------------------------------------------------
(* status_transition_rules, for a row                                      *)

\* The moves a 'system:' actor may make without a rule; only events expire.
SystemAllowed(r) == SystemMoves \cup (IF r \in Events THEN ExpiryMoves ELSE {})

Allowed(r) == SystemAllowed(r) \cup HumanMoves

-----------------------------------------------------------------------------
(* Triggers                                                                *)

\* review_log_checks: a human actor must be an active reviewer.
MayLog(actor) == actor \in Components \cup active

\* CHECK (status <> 'approved' OR registration_url IS NOT NULL), events only.
Approvable(r, content) == r \in Events => content \in Linked

\* The refusals of review_log_apply_transition, in parts.  rec is the row as
\* the earlier statements of the batch left it.

\* Mutant: no 'from_status does not match the row'.
IsCurrentUnread(rec, e) == rec.status # "absent"

IsCurrent(rec, e) == e.from = rec.status

\* Mutant: a rule needs to exist, not to be on.
SystemMayByAnyRule(e) ==
    IF e.to = "approved" THEN e.rule \in Rules ELSE <<e.from, e.to>> \in SystemAllowed(e.row)

\* What a 'system:' actor may do: approve under a rule that is on, and the
\* moves that need no person.
SystemMay(e) ==
    IF e.to = "approved" THEN e.rule \in enabled ELSE <<e.from, e.to>> \in SystemAllowed(e.row)

HasLink(rec, e) == e.to = "approved" => Approvable(e.row, rec.content)

Admits(rec, e) ==
    /\ MayLog(e.actor)
    /\ <<e.from, e.to>> \in Allowed(e.row)
    /\ IsCurrent(rec, e)
    /\ e.rule # Null => e.to = "approved" /\ e.actor \in Components
    /\ e.actor \in Components => SystemMay(e)
    /\ HasLink(rec, e)

\* Mutants of Applied: the approval copied whoever the actor is; approval
\* columns that survive a demotion; an entry that is only written.
AppliedWithAnyActor(rec, e, at) ==
    [rec EXCEPT !.status = e.to,
                !.approvedBy = IF e.to = "approved" THEN e.actor ELSE Null,
                !.approvedAt = IF e.to = "approved" THEN at ELSE 0,
                !.approvalRule = IF e.to = "approved" THEN e.rule ELSE Null]

AppliedWithoutReset(rec, e, at) ==
    [rec EXCEPT !.status = e.to,
                !.approvedBy = IF e.to = "approved" /\ e.actor \in Reviewers THEN e.actor ELSE @,
                !.approvedAt = IF e.to = "approved" THEN at ELSE @,
                !.approvalRule = IF e.to = "approved" THEN e.rule ELSE @]

AppliedNowhere(rec, e, at) == rec

\* review_log_apply_transition, the effect.  at is the entry's id.
Applied(rec, e, at) ==
    [rec EXCEPT
        !.status = e.to,
        !.approvedBy = IF e.to = "approved" /\ e.actor \in Reviewers
                       THEN e.actor ELSE Null,
        !.approvedAt = IF e.to = "approved" THEN at ELSE 0,
        !.approvalRule = IF e.to = "approved" THEN e.rule ELSE Null]

\* Mutant of Unlocked: a lock that any content opens.
UnlockedAlways(rec, c) == rec.status = "approved" => c \in Contents

\* events_approved_content_lock.
Unlocked(rec, c) == rec.status = "approved" => c = rec.content

\* events_status_guard: would a bare UPDATE that gives row r the status s
\* (and any approval columns) be let through?  Only when the newest entry for
\* the row is a transition from the row's status to s.
EntriesFor(r) == {i \in 1..Len(log) : log[i].row = r}

GuardAdmits(r, s) ==
    \E i \in EntriesFor(r) :
        /\ \A j \in EntriesFor(r) : j <= i
        /\ log[i].action = "transition"
        /\ log[i].from = row[r].status
        /\ log[i].to = s

-----------------------------------------------------------------------------
(* Batches                                                                 *)

Init ==
    /\ row = [r \in Rows |-> NoListing]
    /\ log = <<>>
    /\ enabled \in SUBSET Rules
    /\ active \in SUBSET Reviewers

Append1(e) == log' = Append(log, e) /\ Len(log) + 1 <= MaxLog

Append2(e, f) == log' = Append(Append(log, e), f) /\ Len(log) + 2 <= MaxLog

\* Mutant: events_insert_draft missing.
InsertAnyStatus(r, c) ==
    /\ row[r].status = "absent"
    /\ \E s \in {"draft", "needs_review"} :
          row' = [row EXCEPT ![r] = [NoListing EXCEPT !.status = s, !.content = c]]
    /\ UNCHANGED <<log, enabled, active>>

\* A bare INSERT: new rows start as draft with no approval.
InsertDraft(r, c) ==
    /\ row[r].status = "absent"
    /\ row' = [row EXCEPT ![r] = [NoListing EXCEPT !.status = "draft", !.content = c]]
    /\ UNCHANGED <<log, enabled, active>>

\* INSERT, 'create' entry and draft -> needs_review in one batch: how the
\* console's hand entry and the scout's upsert both bring a row in.
Enter(r, c, actor) ==
    LET draft == [NoListing EXCEPT !.status = "draft", !.content = c]
        entry == Transition(r, "draft", "needs_review", actor, Null)
    IN  /\ row[r].status = "absent"
        /\ Admits(draft, entry)
        /\ row' = [row EXCEPT ![r] = Applied(draft, entry, Len(log) + 2)]
        /\ Append2(Note(r, "create", actor, Null), entry)
        /\ UNCHANGED <<enabled, active>>

\* One status transition.  The 'from' an entry claims is what the caller read
\* earlier; the trigger compares it with the row.
Move(r, from, to, actor, rule) ==
    LET entry == Transition(r, from, to, actor, rule)
    IN  /\ Admits(row[r], entry)
        /\ row' = [row EXCEPT ![r] = Applied(row[r], entry, Len(log) + 1)]
        /\ Append1(entry)
        /\ UNCHANGED <<enabled, active>>

\* The console's merge: a 'merge' entry naming the surviving row, then the
\* rejection of this one.
Merge(r, into, actor) ==
    LET entry == Transition(r, "needs_review", "rejected", actor, Null)
    IN  /\ Admits(row[r], entry)
        /\ row' = [row EXCEPT ![r] = Applied(row[r], entry, Len(log) + 2)]
        /\ Append2(Note(r, "merge", actor, into), entry)
        /\ UNCHANGED <<enabled, active>>

\* New content and its 'edit' entry.
Revise(r, c, actor) ==
    /\ row[r].status # "absent"
    /\ Unlocked(row[r], c)
    /\ MayLog(actor)
    /\ row' = [row EXCEPT ![r].content = c]
    /\ Append1(Note(r, "edit", actor, Null))
    /\ UNCHANGED <<enabled, active>>

\* The scout's batch for an approved row whose page changed: demote first,
\* because approved content is locked, then revise.
DemoteAndRevise(r, c, actor) ==
    LET entry == Transition(r, "approved", "needs_review", actor, Null)
    IN  /\ Admits(row[r], entry)
        /\ row' = [row EXCEPT ![r] = [Applied(row[r], entry, Len(log) + 1)
                                        EXCEPT !.content = c]]
        /\ Append2(entry, Note(r, "edit", actor, Null))
        /\ UNCHANGED <<enabled, active>>

\* The operator switches a rule (the kill switch) or a reviewer on or off.
SwitchRule(q) ==
    /\ enabled' = (enabled \cup {q}) \ (enabled \cap {q})
    /\ UNCHANGED <<row, log, active>>

SwitchReviewer(a) ==
    /\ active' = (active \cup {a}) \ (active \cap {a})
    /\ UNCHANGED <<row, log, enabled>>

Batch(r, actor) ==
    \/ \E c \in Contents : \/ Enter(r, c, actor)
                           \/ Revise(r, c, actor)
                           \/ DemoteAndRevise(r, c, actor)
    \/ \E from, to \in Statuses, rule \in Rules \cup {Null} :
          Move(r, from, to, actor, rule)
    \/ \E s \in Rows : Merge(r, s, actor)

Next ==
    \/ \E q \in Rules : SwitchRule(q)
    \/ \E a \in Reviewers : SwitchReviewer(a)
    \/ \E r \in Rows, c \in Contents : InsertDraft(r, c)
    \/ \E r \in Rows, actor \in Actors : Batch(r, actor)

Spec == Init /\ [][Next]_ledgerVars

-----------------------------------------------------------------------------
(* Properties                                                              *)

\* Every table holds what its columns may hold.
TypeOK ==
    /\ row \in [Rows -> Listing]
    /\ log \in Seq(LogEntry)
    /\ Len(log) <= MaxLog
    /\ enabled \subseteq Rules
    /\ active \subseteq Reviewers

IsTransition(i, r) == log[i].row = r /\ log[i].action = "transition"

LatestTransition(i, r) ==
    /\ i \in 1..Len(log)
    /\ IsTransition(i, r)
    /\ \A j \in 1..Len(log) : IsTransition(j, r) => j <= i

\* The log alone tells each row's status: it is the target of the row's
\* latest transition, and a row with none is a draft or not there
\* (review_log: "the ONLY way a status changes").
FollowsLog(r) ==
    IF \E i \in 1..Len(log) : IsTransition(i, r)
    THEN \E i \in 1..Len(log) : LatestTransition(i, r) /\ row[r].status = log[i].to
    ELSE row[r].status \in {"absent", "draft"}

StatusFollowsLog == \A r \in Rows : FollowsLog(r)

\* The transitions of a row form one unbroken chain from draft: two actors
\* who read the same status can never both have moved the row from it, and
\* each step of the chain is a listed move.
Chained(r) ==
    \A j \in 1..Len(log) : IsTransition(j, r) =>
        /\ <<log[j].from, log[j].to>> \in Allowed(r)
        /\ \/ /\ log[j].from = "draft"
              /\ \A i \in 1..(j - 1) : ~ IsTransition(i, r)
           \/ \E i \in 1..(j - 1) :
                 /\ IsTransition(i, r)
                 /\ log[i].to = log[j].from
                 /\ \A k \in (i + 1)..(j - 1) : ~ IsTransition(k, r)

ChainUnbroken == \A r \in Rows : Chained(r)

\* An approval can be traced: an approved row points at the entry that
\* approved it, that entry is the row's latest transition, and the approval
\* columns name exactly its actor, a person, or else its rule; any other row
\* carries no approval at all.
Traced(r) ==
    IF row[r].status = "approved"
    THEN /\ LatestTransition(row[r].approvedAt, r)
         /\ LET e == log[row[r].approvedAt]
            IN  /\ e.to = "approved"
                /\ \/ /\ e.actor \in Reviewers
                      /\ row[r].approvedBy = e.actor
                      /\ row[r].approvalRule = Null
                   \/ /\ e.actor \in Components
                      /\ row[r].approvedBy = Null
                      /\ row[r].approvalRule = e.rule
                      /\ e.rule \in Rules
    ELSE row[r].approvedBy = Null /\ row[r].approvalRule = Null /\ row[r].approvedAt = 0

ApprovalTraced == \A r \in Rows : Traced(r)

\* No side door: in no reachable state would events_status_guard let a bare
\* UPDATE change a status or an approval column of any row.
NoSideDoor == \A r \in Rows, s \in Statuses : ~ GuardAdmits(r, s)

\* An approved event always has a registration link.
ApprovedIsLinked ==
    \A r \in Rows : row[r].status = "approved" => Approvable(r, row[r].content)

\* A row that stays approved keeps the content it was approved with, and a
\* row that becomes approved is approved with the content it already had.
ApprovedContentFrozen ==
    [][\A r \in Rows : row'[r].status = "approved" => row'[r].content = row[r].content]_ledgerVars

\* With every rule switched off, a row becomes approved only at the hand of a
\* reviewer who is active at that moment.
KillSwitchHolds ==
    [][\A r \in Rows :
          row[r].status # "approved" /\ row'[r].status = "approved" =>
              \/ row'[r].approvedBy \in active
              \/ row'[r].approvedBy = Null /\ row'[r].approvalRule \in enabled]_ledgerVars

\* A rejected row comes back only to review and only by a person's entry; an
\* expired one never comes back.  Rejected dedupe keys cannot quietly return.
RejectionSticks ==
    [][\A r \in Rows : row[r].status \in {"rejected", "expired"} /\ row'[r].status # row[r].status =>
          /\ row[r].status = "rejected"
          /\ row'[r].status = "needs_review"
          /\ log'[Len(log')].actor \in active]_ledgerVars

=============================================================================
