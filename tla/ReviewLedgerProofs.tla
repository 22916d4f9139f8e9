------------------------ MODULE ReviewLedgerProofs ------------------------
(***************************************************************************)
(* What ReviewLedger guarantees for any number of rows, people, components *)
(* and rules, and any length of review_log.                                *)
(*                                                                         *)
(* Every batch does one of two things to the log: it adds entries that are *)
(* not transitions and leaves every status and approval alone (Quiet), or  *)
(* it adds exactly one transition, for one row, and applies it (Moves).    *)
(* The invariants are proved from those two shapes.                        *)
(***************************************************************************)
EXTENDS ReviewLedger, TLAPS

SameVerdict(q) ==
    /\ row'[q].status = row[q].status
    /\ row'[q].approvedBy = row[q].approvedBy
    /\ row'[q].approvalRule = row[q].approvalRule
    /\ row'[q].approvedAt = row[q].approvedAt

LogGrows ==
    /\ Len(log') \in Nat
    /\ Len(log) <= Len(log')
    /\ \A i \in 1..Len(log) : log'[i] = log[i]

Quiet ==
    /\ LogGrows
    /\ \A i \in (Len(log) + 1)..Len(log') : log'[i].action # "transition"
    /\ \A q \in Rows : \/ SameVerdict(q)
                       \/ /\ row[q].status = "absent"
                          /\ row'[q].status = "draft"
                          /\ row'[q].approvedBy = Null
                          /\ row'[q].approvalRule = Null
                          /\ row'[q].approvedAt = 0

Moves(r, k) ==
    /\ LogGrows
    /\ k \in (Len(log) + 1)..Len(log')
    /\ \A i \in (Len(log) + 1)..Len(log') : i # k => log'[i].action # "transition"
    /\ log'[k].row = r /\ log'[k].action = "transition"
    /\ <<log'[k].from, log'[k].to>> \in Allowed(r)
    /\ \/ log'[k].from = row[r].status
       \/ log'[k].from = "draft" /\ row[r].status = "absent"
    /\ log'[k].actor \in Reviewers => log'[k].rule = Null
    /\ log'[k].actor \in Components /\ log'[k].to = "approved" => log'[k].rule \in Rules
    /\ log'[k].actor \in Components =>
         log'[k].to = "approved" \/ <<log'[k].from, log'[k].to>> \in SystemAllowed(r)
    /\ row'[r].status = log'[k].to
    /\ row'[r].approvedBy = IF log'[k].to = "approved" /\ log'[k].actor \in Reviewers
                            THEN log'[k].actor ELSE Null
    /\ row'[r].approvedAt = IF log'[k].to = "approved" THEN k ELSE 0
    /\ row'[r].approvalRule = IF log'[k].to = "approved" THEN log'[k].rule ELSE Null
    /\ \A q \in Rows : q # r => SameVerdict(q)

-----------------------------------------------------------------------------

\* Appending one or two entries leaves the earlier ones where they were.
LEMMA AppendOne ==
    ASSUME TypeOK, NEW e \in LogEntry, Append1(e)
    PROVE  /\ log' \in Seq(LogEntry) /\ Len(log') <= MaxLog
           /\ LogGrows
           /\ Len(log') = Len(log) + 1
           /\ log'[Len(log) + 1] = e
  BY LedgerAssumption DEF TypeOK, Append1, LogGrows

LEMMA AppendTwo ==
    ASSUME TypeOK, NEW e \in LogEntry, NEW f \in LogEntry, Append2(e, f)
    PROVE  /\ log' \in Seq(LogEntry) /\ Len(log') <= MaxLog
           /\ LogGrows
           /\ Len(log') = Len(log) + 2
           /\ log'[Len(log) + 1] = e
           /\ log'[Len(log) + 2] = f
<1> DEFINE mid == Append(log, e)
<1>1. mid \in Seq(LogEntry) /\ Len(mid) = Len(log) + 1 /\ mid[Len(log) + 1] = e
      /\ \A i \in 1..Len(log) : mid[i] = log[i]
  BY DEF TypeOK
<1>2. log' = Append(mid, f) /\ Len(log) \in Nat
  BY DEF Append2, TypeOK
<1> HIDE DEF mid
<1>3. log' \in Seq(LogEntry) /\ Len(log') = Len(mid) + 1 /\ log'[Len(mid) + 1] = f
      /\ \A i \in 1..Len(mid) : log'[i] = mid[i]
  BY <1>1, <1>2
<1>4. Len(log') <= MaxLog
  BY <1>1, <1>3 DEF Append2
<1> QED BY <1>1, <1>2, <1>3, <1>4 DEF LogGrows

LEMMA NoteType ==
    ASSUME NEW r \in Rows, NEW action \in {"create", "edit", "merge"},
           NEW actor \in Actors, NEW into \in Rows \cup {Null}
    PROVE  /\ Note(r, action, actor, into) \in LogEntry
           /\ Note(r, action, actor, into).action # "transition"
           /\ Note(r, action, actor, into).row = r
  BY DEF Note, LogEntry

LEMMA TransitionType ==
    ASSUME NEW r \in Rows, NEW from \in Statuses, NEW to \in Statuses,
           NEW actor \in Actors, NEW rule \in Rules \cup {Null}
    PROVE  LET e == Transition(r, from, to, actor, rule)
           IN  /\ e \in LogEntry
               /\ e.row = r /\ e.action = "transition" /\ e.from = from
               /\ e.to = to /\ e.actor = actor /\ e.rule = rule
  BY DEF Transition, LogEntry

\* A row after the trigger is still a row, and its verdict is the entry's.
LEMMA AppliedType ==
    ASSUME NEW rec \in Listing, NEW e \in LogEntry, e.to \in Statuses, NEW at \in Nat
    PROVE  /\ Applied(rec, e, at) \in Listing
           /\ Applied(rec, e, at).status = e.to
           /\ Applied(rec, e, at).content = rec.content
           /\ Applied(rec, e, at).approvedBy =
                 IF e.to = "approved" /\ e.actor \in Reviewers THEN e.actor ELSE Null
           /\ Applied(rec, e, at).approvedAt = IF e.to = "approved" THEN at ELSE 0
           /\ Applied(rec, e, at).approvalRule = IF e.to = "approved" THEN e.rule ELSE Null
  BY DEF Listing, LogEntry, Applied

-----------------------------------------------------------------------------

LEMMA InitType == Init => TypeOK
<1> SUFFICES ASSUME Init PROVE TypeOK
  OBVIOUS
<1>1. NoListing \in Listing
  BY DEF NoListing, Listing
<1>2. log \in Seq(LogEntry) /\ Len(log) = 0
  BY DEF Init
<1> QED
  BY <1>1, <1>2, LedgerAssumption DEF Init, TypeOK

\* One transition entry by itself, applied.
LEMMA MoveShape ==
    ASSUME TypeOK, NEW r \in Rows, NEW actor \in Actors,
           NEW from \in Statuses, NEW to \in Statuses, NEW rule \in Rules \cup {Null},
           Move(r, from, to, actor, rule)
    PROVE  TypeOK' /\ Moves(r, Len(log) + 1)
<1> DEFINE e == Transition(r, from, to, actor, rule)
           k == Len(log) + 1
<1>1. e \in LogEntry /\ e.row = r /\ e.action = "transition" /\ e.from = from
      /\ e.to = to /\ e.actor = actor /\ e.rule = rule
  BY TransitionType
<1>2. Admits(row[r], e) /\ row' = [row EXCEPT ![r] = Applied(row[r], e, k)]
      /\ Append1(e) /\ UNCHANGED <<enabled, active>>
  BY DEF Move
<1> HIDE DEF e
<1>3. /\ log' \in Seq(LogEntry) /\ Len(log') <= MaxLog
      /\ LogGrows /\ Len(log') = k /\ log'[k] = e
  BY <1>1, <1>2, AppendOne
<1>4. k \in Nat /\ row[r] \in Listing /\ Len(log) \in Nat
  BY DEF TypeOK
<1>5. /\ Applied(row[r], e, k) \in Listing
      /\ Applied(row[r], e, k).status = to
      /\ Applied(row[r], e, k).approvedBy =
            IF to = "approved" /\ actor \in Reviewers THEN actor ELSE Null
      /\ Applied(row[r], e, k).approvedAt = IF to = "approved" THEN k ELSE 0
      /\ Applied(row[r], e, k).approvalRule = IF to = "approved" THEN rule ELSE Null
  BY <1>1, <1>4, AppliedType
<1>6. TypeOK'
  BY <1>2, <1>3, <1>5 DEF TypeOK
<1>7. row'[r] = Applied(row[r], e, k) /\ \A q \in Rows : q # r => row'[q] = row[q]
  BY <1>2 DEF TypeOK
<1>8. /\ <<from, to>> \in Allowed(r) /\ from = row[r].status
      /\ actor \in Reviewers => rule = Null
      /\ actor \in Components /\ to = "approved" => rule \in Rules
      /\ actor \in Components => to = "approved" \/ <<from, to>> \in SystemAllowed(r)
  BY <1>1, <1>2, LedgerAssumption DEF Admits, IsCurrent, SystemMay, HasLink, TypeOK
<1>9. Moves(r, k)
  BY <1>1, <1>3, <1>4, <1>5, <1>7, <1>8 DEF Moves, SameVerdict
<1> QED BY <1>6, <1>9

\* A note, then a transition (Enter and Merge).
LEMMA NoteThenMove ==
    ASSUME TypeOK, NEW r \in Rows, NEW actor \in Actors,
           NEW n \in LogEntry, n.action # "transition",
           NEW rec \in Listing, NEW from \in Statuses, NEW to \in Statuses,
           rec.status = row[r].status \/ (rec.status = "draft" /\ row[r].status = "absent"),
           Admits(rec, Transition(r, from, to, actor, Null)),
           row' = [row EXCEPT ![r] = Applied(rec, Transition(r, from, to, actor, Null), Len(log) + 2)],
           Append2(n, Transition(r, from, to, actor, Null)),
           UNCHANGED <<enabled, active>>
    PROVE  TypeOK' /\ Moves(r, Len(log) + 2)
<1> DEFINE e == Transition(r, from, to, actor, Null)
           k == Len(log) + 2
<1>1. e \in LogEntry /\ e.row = r /\ e.action = "transition" /\ e.from = from
      /\ e.to = to /\ e.actor = actor /\ e.rule = Null
  BY TransitionType
<1>2. Admits(rec, e) /\ row' = [row EXCEPT ![r] = Applied(rec, e, k)] /\ Append2(n, e)
  OBVIOUS
<1> HIDE DEF e
<1>3. /\ log' \in Seq(LogEntry) /\ Len(log') <= MaxLog
      /\ LogGrows /\ Len(log') = k /\ log'[Len(log) + 1] = n /\ log'[k] = e
  BY <1>1, <1>2, AppendTwo
<1>4. k \in Nat /\ Len(log) \in Nat
  BY DEF TypeOK
<1>5. /\ Applied(rec, e, k) \in Listing
      /\ Applied(rec, e, k).status = to
      /\ Applied(rec, e, k).approvedBy =
            IF to = "approved" /\ actor \in Reviewers THEN actor ELSE Null
      /\ Applied(rec, e, k).approvedAt = IF to = "approved" THEN k ELSE 0
      /\ Applied(rec, e, k).approvalRule = IF to = "approved" THEN Null ELSE Null
  BY <1>1, <1>4, AppliedType
<1>6. TypeOK'
  BY <1>2, <1>3, <1>5 DEF TypeOK
<1>7. row'[r] = Applied(rec, e, k) /\ \A q \in Rows : q # r => row'[q] = row[q]
  BY <1>2 DEF TypeOK
<1>8. /\ <<from, to>> \in Allowed(r) /\ from = rec.status
      /\ actor \in Components /\ to = "approved" => Null \in Rules
      /\ actor \in Components => to = "approved" \/ <<from, to>> \in SystemAllowed(r)
  BY <1>1, <1>2, LedgerAssumption DEF Admits, IsCurrent, SystemMay, HasLink, TypeOK
<1>9. /\ log'[k].actor \in Components =>
           log'[k].to = "approved" \/ <<log'[k].from, log'[k].to>> \in SystemAllowed(r)
      /\ <<log'[k].from, log'[k].to>> \in Allowed(r)
      /\ k \in (Len(log) + 1)..Len(log') /\ LogGrows
      /\ \A i \in (Len(log) + 1)..Len(log') : i # k => log'[i].action # "transition"
  BY <1>1, <1>3, <1>4, <1>8
<1>10. /\ log'[k].from = row[r].status \/ (log'[k].from = "draft" /\ row[r].status = "absent")
       /\ log'[k].actor \in Reviewers => log'[k].rule = Null
       /\ log'[k].actor \in Components /\ log'[k].to = "approved" => log'[k].rule \in Rules
  BY <1>1, <1>3, <1>8
<1>11. Moves(r, k)
  BY <1>1, <1>3, <1>4, <1>5, <1>7, <1>9, <1>10 DEF Moves, SameVerdict
<1> QED BY <1>6, <1>11

LEMMA EnterShape ==
    ASSUME TypeOK, NEW r \in Rows, NEW actor \in Actors, NEW c \in Contents, Enter(r, c, actor)
    PROVE  TypeOK' /\ Moves(r, Len(log) + 2)
<1> DEFINE draft == [NoListing EXCEPT !.status = "draft", !.content = c]
           n == Note(r, "create", actor, Null)
<1>1. draft \in Listing /\ draft.status = "draft"
  BY DEF NoListing, Listing, Statuses
<1>2. n \in LogEntry /\ n.action # "transition"
  BY NoteType
<1>3. /\ row[r].status = "absent"
      /\ Admits(draft, Transition(r, "draft", "needs_review", actor, Null))
      /\ row' = [row EXCEPT ![r] = Applied(draft, Transition(r, "draft", "needs_review", actor, Null), Len(log) + 2)]
      /\ Append2(n, Transition(r, "draft", "needs_review", actor, Null))
      /\ UNCHANGED <<enabled, active>>
  BY DEF Enter
<1> HIDE DEF draft, n
<1>4. "draft" \in Statuses /\ "needs_review" \in Statuses
  BY DEF Statuses
<1>5. draft.status = row[r].status \/ (draft.status = "draft" /\ row[r].status = "absent")
  BY <1>1, <1>3
<1> QED BY <1>1, <1>2, <1>3, <1>4, <1>5, NoteThenMove

LEMMA MergeShape ==
    ASSUME TypeOK, NEW r \in Rows, NEW actor \in Actors, NEW s \in Rows, Merge(r, s, actor)
    PROVE  TypeOK' /\ Moves(r, Len(log) + 2)
<1> DEFINE n == Note(r, "merge", actor, s)
<1>1. n \in LogEntry /\ n.action # "transition"
  BY NoteType
<1>2. row[r] \in Listing
  BY DEF TypeOK
<1>3. /\ Admits(row[r], Transition(r, "needs_review", "rejected", actor, Null))
      /\ row' = [row EXCEPT ![r] = Applied(row[r], Transition(r, "needs_review", "rejected", actor, Null), Len(log) + 2)]
      /\ Append2(n, Transition(r, "needs_review", "rejected", actor, Null))
      /\ UNCHANGED <<enabled, active>>
  BY DEF Merge
<1> HIDE DEF n
<1> QED BY <1>1, <1>2, <1>3, NoteThenMove DEF Statuses

LEMMA DemoteAndReviseShape ==
    ASSUME TypeOK, NEW r \in Rows, NEW actor \in Actors, NEW c \in Contents,
           DemoteAndRevise(r, c, actor)
    PROVE  TypeOK' /\ Moves(r, Len(log) + 1)
<1> DEFINE e == Transition(r, "approved", "needs_review", actor, Null)
           n == Note(r, "edit", actor, Null)
           k == Len(log) + 1
<1>1. e \in LogEntry /\ e.row = r /\ e.action = "transition" /\ e.from = "approved"
      /\ e.to = "needs_review" /\ e.actor = actor /\ e.rule = Null
  BY TransitionType DEF Statuses
<1>2. n \in LogEntry /\ n.action # "transition"
  BY NoteType
<1>3. Admits(row[r], e) /\ Append2(e, n) /\ UNCHANGED <<enabled, active>>
      /\ row' = [row EXCEPT ![r] = [Applied(row[r], e, k) EXCEPT !.content = c]]
  BY DEF DemoteAndRevise
<1> HIDE DEF e, n
<1>4. /\ log' \in Seq(LogEntry) /\ Len(log') <= MaxLog
      /\ LogGrows /\ Len(log') = Len(log) + 2 /\ log'[k] = e /\ log'[Len(log) + 2] = n
  BY <1>1, <1>2, <1>3, AppendTwo
<1>5. k \in Nat /\ Len(log) \in Nat /\ row[r] \in Listing
  BY DEF TypeOK
<1>6. /\ Applied(row[r], e, k) \in Listing
      /\ Applied(row[r], e, k).status = "needs_review"
      /\ Applied(row[r], e, k).approvedBy = Null
      /\ Applied(row[r], e, k).approvedAt = 0
      /\ Applied(row[r], e, k).approvalRule = Null
  BY <1>1, <1>5, AppliedType DEF Statuses
<1> DEFINE new == [Applied(row[r], e, k) EXCEPT !.content = c]
<1>7. new \in Listing /\ new.status = "needs_review" /\ new.approvedBy = Null
      /\ new.approvedAt = 0 /\ new.approvalRule = Null
  BY <1>6 DEF Listing
<1>8. row' = [row EXCEPT ![r] = new]
  BY <1>3
<1> HIDE DEF new
<1>9. TypeOK'
  BY <1>3, <1>4, <1>7, <1>8 DEF TypeOK
<1>10. row'[r] = new /\ \A q \in Rows : q # r => row'[q] = row[q]
  BY <1>8 DEF TypeOK
<1>11. /\ <<"approved", "needs_review">> \in Allowed(r) /\ row[r].status = "approved"
       /\ actor \in Components => <<"approved", "needs_review">> \in SystemAllowed(r)
  BY <1>1, <1>3 DEF Admits, IsCurrent, SystemMay, HasLink
<1>12. Moves(r, k)
  BY <1>1, <1>2, <1>4, <1>5, <1>7, <1>10, <1>11 DEF Moves, SameVerdict
<1> QED BY <1>9, <1>12

LEMMA ReviseShape ==
    ASSUME TypeOK, NEW r \in Rows, NEW actor \in Actors, NEW c \in Contents, Revise(r, c, actor)
    PROVE  TypeOK' /\ Quiet
<1> DEFINE n == Note(r, "edit", actor, Null)
<1>1. n \in LogEntry /\ n.action # "transition"
  BY NoteType
<1>2. Append1(n) /\ UNCHANGED <<enabled, active>> /\ row' = [row EXCEPT ![r].content = c]
  BY DEF Revise
<1> HIDE DEF n
<1>3. /\ log' \in Seq(LogEntry) /\ Len(log') <= MaxLog
      /\ LogGrows /\ Len(log') = Len(log) + 1 /\ log'[Len(log) + 1] = n
  BY <1>1, <1>2, AppendOne
<1>4. row' \in [Rows -> Listing] /\ \A q \in Rows : SameVerdict(q)
  BY <1>2 DEF TypeOK, Listing, SameVerdict
<1>5. Len(log) \in Nat
  BY DEF TypeOK
<1> QED BY <1>1, <1>2, <1>3, <1>4, <1>5 DEF TypeOK, Quiet

LEMMA InsertDraftShape ==
    ASSUME TypeOK, NEW r \in Rows, NEW c \in Contents, InsertDraft(r, c)
    PROVE  TypeOK' /\ Quiet
<1> DEFINE draft == [NoListing EXCEPT !.status = "draft", !.content = c]
<1>1. draft \in Listing /\ draft.status = "draft" /\ draft.approvedBy = Null
      /\ draft.approvalRule = Null /\ draft.approvedAt = 0
  BY DEF NoListing, Listing, Statuses
<1>2. row[r].status = "absent" /\ row' = [row EXCEPT ![r] = draft]
      /\ UNCHANGED <<log, enabled, active>>
  BY DEF InsertDraft
<1> HIDE DEF draft
<1>3. row' \in [Rows -> Listing] /\ row'[r] = draft /\ \A q \in Rows : q # r => row'[q] = row[q]
  BY <1>1, <1>2 DEF TypeOK
<1>4. Len(log) \in Nat /\ LogGrows
  BY <1>2 DEF TypeOK, LogGrows
<1> QED BY <1>1, <1>2, <1>3, <1>4 DEF TypeOK, Quiet, SameVerdict

\* Every step has one of the two shapes.
LEMMA StepShape ==
    ASSUME TypeOK, [Next]_ledgerVars
    PROVE  TypeOK' /\ (Quiet \/ \E r \in Rows, k \in Nat : Moves(r, k))
<1>1. Len(log) \in Nat
  BY DEF TypeOK
<1>2. CASE UNCHANGED <<row, log>> /\ TypeOK'
  BY <1>1, <1>2 DEF TypeOK, Quiet, LogGrows, SameVerdict
<1>3. ASSUME NEW r \in Rows, NEW c \in Contents, InsertDraft(r, c)
      PROVE  TypeOK' /\ Quiet
  BY <1>3, InsertDraftShape
<1>4. ASSUME NEW r \in Rows, NEW actor \in Actors, Batch(r, actor)
      PROVE  TypeOK' /\ (Quiet \/ \E k \in Nat : Moves(r, k))
  <2>1. ASSUME NEW c \in Contents, Enter(r, c, actor)
        PROVE  TypeOK' /\ \E k \in Nat : Moves(r, k)
    BY <1>1, <2>1, EnterShape
  <2>2. ASSUME NEW c \in Contents, Revise(r, c, actor)
        PROVE  TypeOK' /\ Quiet
    BY <2>2, ReviseShape
  <2>3. ASSUME NEW c \in Contents, DemoteAndRevise(r, c, actor)
        PROVE  TypeOK' /\ \E k \in Nat : Moves(r, k)
    BY <1>1, <2>3, DemoteAndReviseShape
  <2>4. ASSUME NEW from \in Statuses, NEW to \in Statuses, NEW rule \in Rules \cup {Null},
               Move(r, from, to, actor, rule)
        PROVE  TypeOK' /\ \E k \in Nat : Moves(r, k)
    BY <1>1, <2>4, MoveShape
  <2>5. ASSUME NEW s \in Rows, Merge(r, s, actor)
        PROVE  TypeOK' /\ \E k \in Nat : Moves(r, k)
    BY <1>1, <2>5, MergeShape
  <2> QED BY <1>4, <2>1, <2>2, <2>3, <2>4, <2>5 DEF Batch
<1>5. ASSUME NEW q \in Rules, SwitchRule(q) PROVE UNCHANGED <<row, log>> /\ TypeOK'
  BY <1>5 DEF SwitchRule, TypeOK
<1>6. ASSUME NEW a \in Reviewers, SwitchReviewer(a) PROVE UNCHANGED <<row, log>> /\ TypeOK'
  BY <1>6 DEF SwitchReviewer, TypeOK
<1>7. CASE UNCHANGED ledgerVars
  BY <1>2, <1>7 DEF ledgerVars, TypeOK
<1> QED BY <1>2, <1>3, <1>4, <1>5, <1>6, <1>7 DEF Next

\* Type correctness, for every value of the constants.
THEOREM TypeCorrect == Spec => []TypeOK
<1>1. Init => TypeOK
  BY InitType
<1>2. TypeOK /\ [Next]_ledgerVars => TypeOK'
  BY StepShape
<1> QED BY <1>1, <1>2, PTL DEF Spec

-----------------------------------------------------------------------------
(* The invariants that tie rows to the log                                 *)

Ledger == TypeOK /\ StatusFollowsLog /\ ChainUnbroken /\ ApprovalTraced

\* No listed move starts or ends at "absent", leads back to draft, or stays.
LEMMA AllowedMoves ==
    ASSUME NEW r \in Rows, NEW from, NEW to, <<from, to>> \in Allowed(r)
    PROVE  /\ from \in Statuses /\ to \in Statuses
           /\ to # "draft" /\ from # to
  BY DEF Allowed, SystemAllowed, SystemMoves, HumanMoves, ExpiryMoves, Statuses

\* A row no new transition names keeps its transitions, and its latest one.
LEMMA SameTransitions ==
    ASSUME TypeOK, LogGrows, NEW q \in Rows,
           \A i \in (Len(log) + 1)..Len(log') :
              ~ (log'[i].row = q /\ log'[i].action = "transition")
    PROVE  /\ \A i \in 1..Len(log') :
                 IsTransition(i, q)' <=> i \in 1..Len(log) /\ IsTransition(i, q)
           /\ \A i \in Nat : LatestTransition(i, q)' <=> LatestTransition(i, q)
<1>1. Len(log) \in Nat /\ Len(log') \in Nat
  BY DEF TypeOK, LogGrows
<1>2. \A i \in 1..Len(log') :
         IsTransition(i, q)' <=> i \in 1..Len(log) /\ IsTransition(i, q)
  BY <1>1 DEF LogGrows, IsTransition
<1>3. 1..Len(log) \subseteq 1..Len(log')
  BY <1>1 DEF LogGrows
<1>4. ASSUME NEW i \in Nat
      PROVE  LatestTransition(i, q)' <=> LatestTransition(i, q)
  <2>1. LatestTransition(i, q)' <=>
           /\ i \in 1..Len(log')
           /\ IsTransition(i, q)'
           /\ \A j \in 1..Len(log') : IsTransition(j, q)' => j <= i
    BY DEF LatestTransition
  <2> QED BY <1>2, <1>3, <2>1 DEF LatestTransition
<1> QED BY <1>2, <1>4

\* What holds of such a row goes on holding if it keeps its verdict, or is
\* only now inserted.
LEMMA Untouched ==
    ASSUME Ledger, LogGrows, NEW q \in Rows,
           \A i \in (Len(log) + 1)..Len(log') :
              ~ (log'[i].row = q /\ log'[i].action = "transition"),
           \/ SameVerdict(q)
           \/ /\ row[q].status = "absent" /\ row'[q].status = "draft"
              /\ row'[q].approvedBy = Null /\ row'[q].approvalRule = Null
              /\ row'[q].approvedAt = 0
    PROVE  FollowsLog(q)' /\ Chained(q)' /\ Traced(q)'
<1>1. TypeOK /\ FollowsLog(q) /\ Chained(q) /\ Traced(q)
  BY DEF Ledger, StatusFollowsLog, ChainUnbroken, ApprovalTraced
<1>2. /\ \A i \in 1..Len(log') :
            IsTransition(i, q)' <=> i \in 1..Len(log) /\ IsTransition(i, q)
      /\ \A i \in Nat : LatestTransition(i, q)' <=> LatestTransition(i, q)
  BY <1>1, SameTransitions
<1>3. /\ Len(log) \in Nat /\ Len(log') \in Nat /\ Len(log) <= Len(log')
      /\ \A i \in 1..Len(log) : log'[i] = log[i]
  BY <1>1 DEF TypeOK, LogGrows
<1>4. FollowsLog(q)'
  <2>1. CASE \E i \in 1..Len(log) : IsTransition(i, q)
    <3>1. PICK i \in 1..Len(log) : LatestTransition(i, q) /\ row[q].status = log[i].to
      BY <1>1, <2>1 DEF FollowsLog
    <3>2. IsTransition(i, q)
      BY <3>1 DEF LatestTransition
    <3>3. row[q].status # "absent"
      BY <1>1, <3>1, <3>2, AllowedMoves DEF Chained, Statuses
    <3>4. i \in 1..Len(log') /\ LatestTransition(i, q)' /\ row'[q].status = log'[i].to
      BY <1>2, <1>3, <3>1, <3>3 DEF SameVerdict
    <3>5. IsTransition(i, q)'
      BY <1>2, <3>2, <3>4
    <3> QED BY <3>4, <3>5 DEF FollowsLog
  <2>2. CASE ~ \E i \in 1..Len(log) : IsTransition(i, q)
    <3>1. row'[q].status \in {"absent", "draft"}
      BY <1>1, <2>2 DEF FollowsLog, SameVerdict
    <3>2. ~ \E i \in 1..Len(log') : IsTransition(i, q)'
      BY <1>2, <2>2
    <3> QED BY <3>1, <3>2 DEF FollowsLog
  <2> QED BY <2>1, <2>2
<1>5. Chained(q)'
  <2>1. SUFFICES ASSUME NEW j \in 1..Len(log'), IsTransition(j, q)'
        PROVE  /\ <<log'[j].from, log'[j].to>> \in Allowed(q)
               /\ \/ /\ log'[j].from = "draft"
                     /\ \A i \in 1..(j - 1) : ~ IsTransition(i, q)'
                  \/ \E i \in 1..(j - 1) :
                        /\ IsTransition(i, q)'
                        /\ log'[i].to = log'[j].from
                        /\ \A k \in (i + 1)..(j - 1) : ~ IsTransition(k, q)'
    BY DEF Chained, Allowed, SystemAllowed
  <2>2. j \in 1..Len(log) /\ IsTransition(j, q) /\ log'[j] = log[j]
    BY <1>2, <1>3, <2>1
  <2>3. \A i \in 1..(j - 1) : /\ IsTransition(i, q)' <=> IsTransition(i, q)
                              /\ log'[i] = log[i]
    BY <1>2, <1>3, <2>2
  <2>4. /\ <<log[j].from, log[j].to>> \in Allowed(q)
        /\ \/ /\ log[j].from = "draft"
              /\ \A i \in 1..(j - 1) : ~ IsTransition(i, q)
           \/ \E i \in 1..(j - 1) :
                 /\ IsTransition(i, q)
                 /\ log[i].to = log[j].from
                 /\ \A k \in (i + 1)..(j - 1) : ~ IsTransition(k, q)
    BY <1>1, <2>2 DEF Chained
  <2>5. CASE \E i \in 1..(j - 1) :
                 /\ IsTransition(i, q)
                 /\ log[i].to = log[j].from
                 /\ \A k \in (i + 1)..(j - 1) : ~ IsTransition(k, q)
    <3>1. PICK i \in 1..(j - 1) :
                 /\ IsTransition(i, q)
                 /\ log[i].to = log[j].from
                 /\ \A k \in (i + 1)..(j - 1) : ~ IsTransition(k, q)
      BY <2>5
    <3>2. (i + 1)..(j - 1) \subseteq 1..(j - 1)
      OBVIOUS
    <3>3. IsTransition(i, q)' /\ log'[i] = log[i]
      BY <2>3, <3>1
    <3>4. \A k \in (i + 1)..(j - 1) : ~ IsTransition(k, q)'
      BY <2>3, <3>1, <3>2
    <3>5. log'[i].to = log'[j].from
      BY <2>2, <3>1, <3>3
    <3> QED BY <2>2, <2>4, <3>3, <3>4, <3>5
  <2> QED BY <2>2, <2>3, <2>4, <2>5
<1>6. Traced(q)'
  <2>1. CASE row'[q].status = "approved"
    <3>1. SameVerdict(q) /\ row[q].status = "approved"
      BY <2>1 DEF SameVerdict
    <3> DEFINE a == row[q].approvedAt
    <3>2. LatestTransition(a, q) /\ a \in 1..Len(log)
      BY <1>1, <3>1 DEF Traced, LatestTransition
    <3>3. a \in Nat /\ row'[q].approvedAt = a
      BY <3>1, <3>2 DEF SameVerdict
    <3>4. log'[a] = log[a]
      BY <1>3, <3>2
    <3>5. PICK b \in Nat : b = a
      BY <3>3
    <3>6. LatestTransition(b, q)'
      BY <1>2, <3>2, <3>5
    <3> QED BY <1>1, <2>1, <3>1, <3>3, <3>4, <3>5, <3>6
            DEF Traced, SameVerdict, LatestTransition, IsTransition
  <2>2. CASE row'[q].status # "approved"
    BY <1>1, <2>2 DEF Traced, SameVerdict
  <2> QED BY <2>1, <2>2
<1> QED BY <1>4, <1>5, <1>6

\* A move of r becomes r's latest transition and the next link of its chain.
LEMMA Moved ==
    ASSUME Ledger, TypeOK', NEW r \in Rows, NEW k \in Nat, Moves(r, k)
    PROVE  FollowsLog(r)' /\ Chained(r)' /\ Traced(r)'
<1>1. TypeOK /\ FollowsLog(r) /\ Chained(r)
  BY DEF Ledger, StatusFollowsLog, ChainUnbroken
<1>2. /\ Len(log) \in Nat /\ Len(log') \in Nat /\ Len(log) <= Len(log')
      /\ \A i \in 1..Len(log) : log'[i] = log[i]
      /\ k \in (Len(log) + 1)..Len(log') /\ k \in 1..Len(log')
  BY <1>1 DEF TypeOK, LogGrows, Moves
<1>3. /\ \A i \in 1..Len(log) : IsTransition(i, r)' <=> IsTransition(i, r)
      /\ \A i \in (Len(log) + 1)..Len(log') : IsTransition(i, r)' <=> i = k
  BY <1>2 DEF Moves, IsTransition
<1>4. LatestTransition(k, r)'
  <2>1. \A j \in 1..Len(log') : IsTransition(j, r)' => j <= k
    BY <1>2, <1>3
  <2>2. LatestTransition(k, r)' <=>
           /\ k \in 1..Len(log')
           /\ IsTransition(k, r)'
           /\ \A j \in 1..Len(log') : IsTransition(j, r)' => j <= k
    BY DEF LatestTransition
  <2> QED BY <1>2, <1>3, <2>1, <2>2
<1>5. FollowsLog(r)'
  BY <1>2, <1>3, <1>4 DEF FollowsLog, Moves
<1>6. \/ /\ log'[k].from = "draft"
         /\ \A i \in 1..(k - 1) : ~ IsTransition(i, r)'
      \/ \E i \in 1..(k - 1) :
            /\ IsTransition(i, r)'
            /\ log'[i].to = log'[k].from
            /\ \A j \in (i + 1)..(k - 1) : ~ IsTransition(j, r)'
  <2>1. CASE \E i \in 1..Len(log) : IsTransition(i, r)
    <3>1. PICK i \in 1..Len(log) : LatestTransition(i, r) /\ row[r].status = log[i].to
      BY <1>1, <2>1 DEF FollowsLog
    <3>2. IsTransition(i, r) /\ \A j \in 1..Len(log) : IsTransition(j, r) => j <= i
      BY <3>1 DEF LatestTransition
    <3>3. row[r].status # "absent"
      BY <1>1, <3>1, <3>2, AllowedMoves DEF Chained, Statuses
    <3>4. i \in 1..(k - 1) /\ IsTransition(i, r)' /\ log'[i].to = log'[k].from
      BY <1>2, <1>3, <3>1, <3>2, <3>3 DEF Moves
    <3>5. \A j \in (i + 1)..(k - 1) : ~ IsTransition(j, r)'
      BY <1>2, <1>3, <3>2
    <3> QED BY <3>4, <3>5
  <2>2. CASE ~ \E i \in 1..Len(log) : IsTransition(i, r)
    <3>1. row[r].status \in {"absent", "draft"}
      BY <1>1, <2>2 DEF FollowsLog
    <3>2. log'[k].from \in Statuses
      BY AllowedMoves DEF Moves
    <3>3. log'[k].from = "draft"
      BY <3>1, <3>2 DEF Moves, Statuses
    <3>4. \A i \in 1..(k - 1) : ~ IsTransition(i, r)'
      BY <1>2, <1>3, <2>2
    <3> QED BY <3>3, <3>4
  <2> QED BY <2>1, <2>2
<1>7. Chained(r)'
  <2>1. SUFFICES ASSUME NEW j \in 1..Len(log'), IsTransition(j, r)'
        PROVE  /\ <<log'[j].from, log'[j].to>> \in Allowed(r)
               /\ \/ /\ log'[j].from = "draft"
                     /\ \A i \in 1..(j - 1) : ~ IsTransition(i, r)'
                  \/ \E i \in 1..(j - 1) :
                        /\ IsTransition(i, r)'
                        /\ log'[i].to = log'[j].from
                        /\ \A h \in (i + 1)..(j - 1) : ~ IsTransition(h, r)'
    BY DEF Chained, Allowed, SystemAllowed
  <2>2. CASE j = k
    BY <1>6, <2>2 DEF Moves
  <2>3. CASE j # k
    <3>1. j \in 1..Len(log) /\ IsTransition(j, r) /\ log'[j] = log[j]
      BY <1>2, <1>3, <2>1, <2>3
    <3>2. \A i \in 1..(j - 1) : /\ IsTransition(i, r)' <=> IsTransition(i, r)
                                /\ log'[i] = log[i]
      BY <1>2, <1>3, <3>1
    <3>3. /\ <<log[j].from, log[j].to>> \in Allowed(r)
          /\ \/ /\ log[j].from = "draft"
                /\ \A i \in 1..(j - 1) : ~ IsTransition(i, r)
             \/ \E i \in 1..(j - 1) :
                   /\ IsTransition(i, r)
                   /\ log[i].to = log[j].from
                   /\ \A h \in (i + 1)..(j - 1) : ~ IsTransition(h, r)
      BY <1>1, <3>1 DEF Chained
    <3>4. CASE \E i \in 1..(j - 1) :
                   /\ IsTransition(i, r)
                   /\ log[i].to = log[j].from
                   /\ \A h \in (i + 1)..(j - 1) : ~ IsTransition(h, r)
      <4>1. PICK i \in 1..(j - 1) :
                   /\ IsTransition(i, r)
                   /\ log[i].to = log[j].from
                   /\ \A h \in (i + 1)..(j - 1) : ~ IsTransition(h, r)
        BY <3>4
      <4>2. (i + 1)..(j - 1) \subseteq 1..(j - 1)
        OBVIOUS
      <4>3. IsTransition(i, r)' /\ log'[i] = log[i]
        BY <3>2, <4>1
      <4>4. \A h \in (i + 1)..(j - 1) : ~ IsTransition(h, r)'
        BY <3>2, <4>1, <4>2
      <4>5. log'[i].to = log'[j].from
        BY <3>1, <4>1, <4>3
      <4> QED BY <3>1, <3>3, <4>3, <4>4, <4>5
    <3> QED BY <3>1, <3>2, <3>3, <3>4
  <2> QED BY <2>2, <2>3
<1>8. Traced(r)'
  <2> DEFINE e == log'[k]
  <2>1. e \in LogEntry
    BY <1>2 DEF TypeOK
  <2>4. e.actor \in Actors
    BY <2>1 DEF LogEntry
  <2>2. CASE row'[r].status = "approved"
    <3>1. log'[k].to = "approved" /\ row'[r].approvedAt = k
      BY <2>2 DEF Moves
    <3>2. (LatestTransition(row[r].approvedAt, r))'
      BY <1>4, <3>1 DEF LatestTransition, IsTransition
    <3>3. \/ /\ log'[k].actor \in Reviewers
             /\ row'[r].approvedBy = log'[k].actor
             /\ row'[r].approvalRule = Null
          \/ /\ log'[k].actor \in Components
             /\ row'[r].approvedBy = Null
             /\ row'[r].approvalRule = log'[k].rule
             /\ log'[k].rule \in Rules
      BY <2>4, <3>1, LedgerAssumption DEF Moves, Actors
    <3> QED BY <2>2, <3>1, <3>2, <3>3 DEF Traced
  <2>3. CASE row'[r].status # "approved"
    BY <2>3 DEF Traced, Moves
  <2> QED BY <2>2, <2>3
<1> QED BY <1>5, <1>7, <1>8

LEMMA LedgerStep == Ledger /\ [Next]_ledgerVars => Ledger'
<1> SUFFICES ASSUME Ledger, [Next]_ledgerVars PROVE Ledger'
  OBVIOUS
<1>1. TypeOK' /\ (Quiet \/ \E r \in Rows, k \in Nat : Moves(r, k))
  BY StepShape DEF Ledger
<1>2. SUFFICES ASSUME NEW q \in Rows PROVE FollowsLog(q)' /\ Chained(q)' /\ Traced(q)'
  BY <1>1 DEF Ledger, StatusFollowsLog, ChainUnbroken, ApprovalTraced
<1>3. CASE Quiet
  BY <1>3, Untouched DEF Quiet
<1>4. ASSUME NEW r \in Rows, NEW k \in Nat, Moves(r, k)
      PROVE  FollowsLog(q)' /\ Chained(q)' /\ Traced(q)'
  <2>1. CASE q = r
    BY <1>1, <1>4, <2>1, Moved
  <2>2. CASE q # r
    <3>1. LogGrows /\ SameVerdict(q)
      BY <1>4, <2>2 DEF Moves
    <3>2. \A i \in (Len(log) + 1)..Len(log') :
             ~ (log'[i].row = q /\ log'[i].action = "transition")
      BY <1>4, <2>2 DEF Moves
    <3> QED BY <3>1, <3>2, Untouched
  <2> QED BY <2>1, <2>2
<1> QED BY <1>1, <1>3, <1>4

LEMMA LedgerInit == Init => Ledger
<1> SUFFICES ASSUME Init PROVE Ledger
  OBVIOUS
<1>1. TypeOK
  BY InitType
<1>2. Len(log) = 0 /\ 1..Len(log) = {}
  BY DEF Init
<1>3. \A r \in Rows : row[r] = NoListing
  BY DEF Init
<1> QED BY <1>1, <1>2, <1>3
        DEF Ledger, StatusFollowsLog, FollowsLog, ChainUnbroken, Chained,
            ApprovalTraced, Traced, NoListing

LEMMA LedgerHolds == Spec => []Ledger
<1> QED BY LedgerInit, LedgerStep, PTL DEF Spec

\* The log alone tells the status of every row, however long it has grown.
THEOREM LogTellsStatus == Spec => []StatusFollowsLog
<1>1. Ledger => StatusFollowsLog
  BY DEF Ledger
<1> QED BY <1>1, LedgerHolds, PTL

\* However many actors send transitions from what they read, each row's
\* transitions form one chain of listed moves.
THEOREM ChainNeverBreaks == Spec => []ChainUnbroken
<1>1. Ledger => ChainUnbroken
  BY DEF Ledger
<1> QED BY <1>1, LedgerHolds, PTL

\* Every approval on a row is its latest transition's, actor and rule included.
THEOREM ApprovalsTrace == Spec => []ApprovalTraced
<1>1. Ledger => ApprovalTraced
  BY DEF Ledger
<1> QED BY <1>1, LedgerHolds, PTL

\* events_status_guard never finds a log entry to excuse a bare UPDATE: the
\* row's newest transition led TO the row's status, and no move stays put.
THEOREM SideDoorShut == Spec => []NoSideDoor
<1>1. ASSUME Ledger, NEW r \in Rows, NEW s \in Statuses, GuardAdmits(r, s)
      PROVE  FALSE
  <2>1. PICK i \in 1..Len(log) :
           /\ log[i].row = r /\ log[i].action = "transition"
           /\ \A j \in 1..Len(log) : log[j].row = r => j <= i
           /\ log[i].from = row[r].status
    BY <1>1 DEF GuardAdmits, EntriesFor
  <2>2. IsTransition(i, r)
    BY <2>1 DEF IsTransition
  <2>3. FollowsLog(r) /\ Chained(r) /\ TypeOK
    BY <1>1 DEF Ledger, StatusFollowsLog, ChainUnbroken
  <2>4. PICK h \in 1..Len(log) : LatestTransition(h, r) /\ row[r].status = log[h].to
    BY <2>2, <2>3 DEF FollowsLog
  <2>5. i <= h /\ h <= i
    BY <2>1, <2>2, <2>4 DEF LatestTransition, IsTransition
  <2>6. h = i
    BY <2>3, <2>5 DEF TypeOK
  <2>7. log[i].from # log[i].to
    BY <2>2, <2>3, AllowedMoves DEF Chained
  <2> QED BY <2>1, <2>4, <2>6, <2>7
<1>2. Ledger => NoSideDoor
  BY <1>1 DEF NoSideDoor
<1> QED BY <1>2, LedgerHolds, PTL

-----------------------------------------------------------------------------
(* What one step may do to one row                                         *)

Kept(q) == /\ SameVerdict(q)
           /\ row[q].status = "approved" => row'[q].content = row[q].content

Unapproved(q) == /\ row'[q].status # "approved"
                 /\ row[q].status \notin {"rejected", "expired"}

MovedBy(q) == \E actor \in Actors, from, to \in Statuses, rule \in Rules \cup {Null} :
                 Move(q, from, to, actor, rule)

LEMMA RowOutcome ==
    ASSUME TypeOK, [Next]_ledgerVars, NEW q \in Rows
    PROVE  Kept(q) \/ Unapproved(q) \/ MovedBy(q)
<1>1. CASE UNCHANGED row
  BY <1>1 DEF Kept, SameVerdict
<1>2. ASSUME NEW r \in Rows, NEW c \in Contents, InsertDraft(r, c)
      PROVE  Kept(q) \/ Unapproved(q)
  BY <1>2 DEF InsertDraft, TypeOK, Kept, SameVerdict, Unapproved, NoListing
<1>3. ASSUME NEW r \in Rows, NEW actor \in Actors, Batch(r, actor)
      PROVE  Kept(q) \/ Unapproved(q) \/ MovedBy(q)
  <2>1. ASSUME NEW c \in Contents, Enter(r, c, actor)
        PROVE  Kept(q) \/ Unapproved(q)
    BY <2>1 DEF Enter, TypeOK, Kept, SameVerdict, Unapproved, Applied, Transition, NoListing
  <2>2. ASSUME NEW c \in Contents, Revise(r, c, actor)
        PROVE  Kept(q)
    BY <2>2 DEF Revise, Unlocked, TypeOK, Listing, Kept, SameVerdict
  <2>3. ASSUME NEW c \in Contents, DemoteAndRevise(r, c, actor)
        PROVE  Kept(q) \/ Unapproved(q)
    <3> DEFINE e == Transition(r, "approved", "needs_review", actor, Null)
    <3>1. row[r].status = "approved"
      BY <2>3 DEF DemoteAndRevise, Admits, IsCurrent, SystemMay, HasLink, Transition
    <3>2. row' = [row EXCEPT ![r] = [Applied(row[r], e, Len(log) + 1) EXCEPT !.content = c]]
      BY <2>3 DEF DemoteAndRevise
    <3>3. Applied(row[r], e, Len(log) + 1) \in Listing
          /\ Applied(row[r], e, Len(log) + 1).status = "needs_review"
      <4>1. e \in LogEntry /\ e.to = "needs_review" /\ "needs_review" \in Statuses
        BY TransitionType DEF Statuses
      <4>2. row[r] \in Listing /\ Len(log) + 1 \in Nat
        BY DEF TypeOK
      <4> HIDE DEF e
      <4> QED BY <4>1, <4>2, AppliedType
    <3> HIDE DEF e
    <3> DEFINE new == [Applied(row[r], e, Len(log) + 1) EXCEPT !.content = c]
    <3>4. new.status = "needs_review" /\ row' = [row EXCEPT ![r] = new]
      BY <3>2, <3>3 DEF Listing
    <3> HIDE DEF new
    <3>5. CASE q = r
      BY <3>1, <3>4, <3>5 DEF TypeOK, Unapproved
    <3>6. CASE q # r
      BY <3>4, <3>6 DEF TypeOK, Kept, SameVerdict
    <3> QED BY <3>5, <3>6
  <2>4. ASSUME NEW from \in Statuses, NEW to \in Statuses, NEW rule \in Rules \cup {Null},
               Move(r, from, to, actor, rule)
        PROVE  Kept(q) \/ MovedBy(q)
    <3>1. CASE q = r
      BY <2>4, <3>1 DEF MovedBy
    <3>2. CASE q # r
      BY <2>4, <3>2 DEF Move, TypeOK, Kept, SameVerdict
    <3> QED BY <3>1, <3>2
  <2>5. ASSUME NEW s \in Rows, Merge(r, s, actor)
        PROVE  Kept(q) \/ Unapproved(q)
    <3>1. row[r].status = "needs_review"
      BY <2>5 DEF Merge, Admits, IsCurrent, SystemMay, HasLink, Transition
    <3>2. CASE q = r
      BY <2>5, <3>1, <3>2 DEF Merge, TypeOK, Listing, Unapproved, Applied, Transition
    <3>3. CASE q # r
      BY <2>5, <3>3 DEF Merge, TypeOK, Kept, SameVerdict
    <3> QED BY <3>2, <3>3
  <2> QED BY <1>3, <2>1, <2>2, <2>3, <2>4, <2>5 DEF Batch
<1>4. ASSUME NEW r \in Rules, SwitchRule(r) PROVE UNCHANGED row
  BY <1>4 DEF SwitchRule
<1>5. ASSUME NEW a \in Reviewers, SwitchReviewer(a) PROVE UNCHANGED row
  BY <1>5 DEF SwitchReviewer
<1>6. CASE UNCHANGED ledgerVars
  BY <1>1, <1>6 DEF ledgerVars
<1> QED BY <1>1, <1>2, <1>3, <1>4, <1>5, <1>6 DEF Next

\* What a single transition leaves on its row, and who may have sent it.
LEMMA MoveOutcome ==
    ASSUME TypeOK, NEW q \in Rows, NEW actor \in Actors, NEW from \in Statuses,
           NEW to \in Statuses, NEW rule \in Rules \cup {Null},
           Move(q, from, to, actor, rule)
    PROVE  /\ row[q].status = from /\ row'[q].status = to
           /\ row'[q].content = row[q].content
           /\ to = "approved" => Approvable(q, row[q].content)
           /\ to = "approved" => \/ row'[q].approvedBy \in active
                                 \/ /\ row'[q].approvedBy = Null
                                    /\ row'[q].approvalRule \in enabled
           /\ <<from, to>> \in Allowed(q)
           /\ <<from, to>> \notin SystemAllowed(q) /\ to # "approved" => actor \in active
           /\ log'[Len(log')].actor = actor
<1> DEFINE e == Transition(q, from, to, actor, rule)
           k == Len(log) + 1
<1>1. e \in LogEntry /\ e.row = q /\ e.action = "transition" /\ e.from = from
      /\ e.to = to /\ e.actor = actor /\ e.rule = rule
  BY TransitionType
<1>2. Admits(row[q], e) /\ row' = [row EXCEPT ![q] = Applied(row[q], e, k)] /\ Append1(e)
  BY DEF Move
<1> HIDE DEF e
<1>3. row[q] \in Listing /\ k \in Nat
  BY DEF TypeOK
<1>4. row'[q] = Applied(row[q], e, k)
  BY <1>2 DEF TypeOK
<1>5. /\ row'[q].status = to /\ row'[q].content = row[q].content
      /\ row'[q].approvedBy = IF to = "approved" /\ actor \in Reviewers THEN actor ELSE Null
      /\ row'[q].approvalRule = IF to = "approved" THEN rule ELSE Null
  BY <1>1, <1>3, <1>4, AppliedType
<1>6. log'[Len(log')] = e
  BY <1>1, <1>2, AppendOne
<1>7. /\ MayLog(actor) /\ <<from, to>> \in Allowed(q) /\ from = row[q].status
      /\ actor \in Components =>
            IF to = "approved" THEN rule \in enabled ELSE <<from, to>> \in SystemAllowed(q)
      /\ to = "approved" => Approvable(q, row[q].content)
  BY <1>1, <1>2 DEF Admits, IsCurrent, SystemMay, HasLink
<1>8. to = "approved" => \/ row'[q].approvedBy \in active
                         \/ row'[q].approvedBy = Null /\ row'[q].approvalRule \in enabled
  BY <1>5, <1>7, LedgerAssumption DEF MayLog, TypeOK
<1>9. <<from, to>> \notin SystemAllowed(q) /\ to # "approved" => actor \in active
  BY <1>7 DEF MayLog
<1> QED BY <1>1, <1>5, <1>6, <1>7, <1>8, <1>9

\* Approved content never changes while the row stays approved, whoever
\* writes, and nobody approves and changes content in one step.
THEOREM ContentFrozen == Spec => ApprovedContentFrozen
<1>1. ASSUME TypeOK, [Next]_ledgerVars, NEW q \in Rows, row'[q].status = "approved"
      PROVE  row'[q].content = row[q].content
  <2>1. CASE Kept(q)
    BY <1>1, <2>1 DEF Kept, SameVerdict
  <2>2. CASE Unapproved(q)
    BY <1>1, <2>2 DEF Unapproved
  <2>3. CASE MovedBy(q)
    BY <1>1, <2>3, MoveOutcome DEF MovedBy
  <2> QED BY <1>1, <2>1, <2>2, <2>3, RowOutcome
<1>2. TypeOK /\ [Next]_ledgerVars =>
         [\A r \in Rows : row'[r].status = "approved" => row'[r].content = row[r].content]_ledgerVars
  BY <1>1
<1> QED BY <1>2, TypeCorrect, PTL DEF Spec, ApprovedContentFrozen

\* No row becomes approved except by a person active at that moment or under
\* a rule enabled at that moment: switching every rule off stops the machine.
THEOREM KillSwitch == Spec => KillSwitchHolds
<1>1. ASSUME TypeOK, [Next]_ledgerVars, NEW q \in Rows,
             row[q].status # "approved", row'[q].status = "approved"
      PROVE  \/ row'[q].approvedBy \in active
             \/ row'[q].approvedBy = Null /\ row'[q].approvalRule \in enabled
  <2>1. CASE Kept(q)
    BY <1>1, <2>1 DEF Kept, SameVerdict
  <2>2. CASE Unapproved(q)
    BY <1>1, <2>2 DEF Unapproved
  <2>3. CASE MovedBy(q)
    BY <1>1, <2>3, MoveOutcome DEF MovedBy
  <2> QED BY <1>1, <2>1, <2>2, <2>3, RowOutcome
<1>2. TypeOK /\ [Next]_ledgerVars =>
         [\A r \in Rows :
             row[r].status # "approved" /\ row'[r].status = "approved" =>
                 \/ row'[r].approvedBy \in active
                 \/ row'[r].approvedBy = Null /\ row'[r].approvalRule \in enabled]_ledgerVars
  BY <1>1
<1> QED BY <1>2, TypeCorrect, PTL DEF Spec, KillSwitchHolds

\* Rejected and expired rows stay put, but for a person's return to review.
THEOREM RejectedStays == Spec => RejectionSticks
<1>1. ASSUME TypeOK, [Next]_ledgerVars, NEW q \in Rows,
             row[q].status \in {"rejected", "expired"}, row'[q].status # row[q].status
      PROVE  /\ row[q].status = "rejected"
             /\ row'[q].status = "needs_review"
             /\ log'[Len(log')].actor \in active
  <2>1. CASE Kept(q)
    BY <1>1, <2>1 DEF Kept, SameVerdict
  <2>2. CASE Unapproved(q)
    BY <1>1, <2>2 DEF Unapproved
  <2>3. CASE MovedBy(q)
    <3>1. PICK actor \in Actors, from \in Statuses, to \in Statuses, rule \in Rules \cup {Null} :
             Move(q, from, to, actor, rule)
      BY <2>3 DEF MovedBy
    <3>2. /\ row[q].status = from /\ row'[q].status = to
          /\ <<from, to>> \in Allowed(q)
          /\ <<from, to>> \notin SystemAllowed(q) /\ to # "approved" => actor \in active
          /\ log'[Len(log')].actor = actor
      BY <1>1, <3>1, MoveOutcome
    <3>3. from = "rejected" /\ to = "needs_review" /\ <<from, to>> \notin SystemAllowed(q)
      BY <1>1, <3>2 DEF Allowed, SystemAllowed, SystemMoves, HumanMoves, ExpiryMoves
    <3> QED BY <3>2, <3>3
  <2> QED BY <1>1, <2>1, <2>2, <2>3, RowOutcome
<1>2. TypeOK /\ [Next]_ledgerVars =>
         [\A r \in Rows : row[r].status \in {"rejected", "expired"} /\ row'[r].status # row[r].status =>
             /\ row[r].status = "rejected"
             /\ row'[r].status = "needs_review"
             /\ log'[Len(log')].actor \in active]_ledgerVars
  BY <1>1
<1> QED BY <1>2, TypeCorrect, PTL DEF Spec, RejectionSticks

\* An approved event always carries a registration link.
THEOREM ApprovedLinked == Spec => []ApprovedIsLinked
<1>1. ASSUME TypeOK, ApprovedIsLinked, [Next]_ledgerVars, NEW q \in Rows, row'[q].status = "approved"
      PROVE  Approvable(q, row'[q].content)
  <2>1. CASE Kept(q)
    BY <1>1, <2>1 DEF Kept, SameVerdict, ApprovedIsLinked
  <2>2. CASE Unapproved(q)
    BY <1>1, <2>2 DEF Unapproved
  <2>3. CASE MovedBy(q)
    BY <1>1, <2>3, MoveOutcome DEF MovedBy
  <2> QED BY <1>1, <2>1, <2>2, <2>3, RowOutcome
<1>2. TypeOK /\ ApprovedIsLinked /\ [Next]_ledgerVars => ApprovedIsLinked'
  BY <1>1 DEF ApprovedIsLinked, Approvable
<1>3. Init => ApprovedIsLinked
  BY DEF Init, ApprovedIsLinked, NoListing
<1> QED BY <1>2, <1>3, TypeCorrect, PTL DEF Spec

=============================================================================
