-------------------------- MODULE ReviewDeskProofs --------------------------
(***************************************************************************)
(* The clients implement the ledger: every step of the console, the scout  *)
(* and the operator is, on the tables, one batch of ReviewLedger or none.  *)
(* So everything proved of the ledger holds of the running system, however *)
(* the reads and the batches interleave.                                   *)
(***************************************************************************)
EXTENDS ReviewDesk, ReviewLedgerProofs

BatchBy(actor) == \E r \in Rows : Batch(r, actor)

\* What the clients name is known to the ledger.
LEMMA ClientsKnown ==
    /\ Events \subseteq Rows
    /\ Reviewers \subseteq Actors
    /\ Scout \in Actors /\ LinkChecker \in Actors /\ AutoApprover \in Actors
    /\ Rule \in Rules
  BY DeskAssumption DEF Rows, Actors

LEMMA MoveIsBatch ==
    ASSUME NEW e \in Rows, NEW actor \in Actors, NEW from \in Statuses, NEW to \in Statuses,
           NEW rule \in Rules \cup {Null}, Move(e, from, to, actor, rule)
    PROVE  BatchBy(actor)
  BY DEF BatchBy, Batch

LEMMA SendIsBatch ==
    ASSUME NEW e \in Rows, NEW actor \in Actors, NEW from \in Statuses, NEW to \in Statuses,
           NEW rule \in Rules \cup {Null}, Send(e, from, to, actor, rule)
    PROVE  BatchBy(actor) \/ UNCHANGED ledgerVars
  BY MoveIsBatch DEF Send

LEMMA ContentIsBatch ==
    ASSUME NEW e \in Rows, NEW actor \in Actors, NEW c \in Contents,
           Enter(e, c, actor) \/ Revise(e, c, actor) \/ DemoteAndRevise(e, c, actor)
    PROVE  BatchBy(actor)
  BY DEF BatchBy, Batch

\* A request's row, target and candidates are events.
LEMMA DeskShape ==
    ASSUME DeskTypeOK, NEW a \in Reviewers
    PROVE  /\ desk[a].kind \in {"approve", "reject", "merge", "distinct"} =>
                 desk[a].row \in Events /\ desk[a].near \subseteq Events
           /\ desk[a].kind = "edit" => desk[a].row \in Events /\ desk[a].to \in Contents
           /\ desk[a].kind = "undo" => /\ desk[a].row \in Events
                                       /\ desk[a].from \in {"approved", "rejected"}
<1>1. desk[a] \in {Idle} \cup Asks \cup Edits \cup Undos
  BY DEF DeskTypeOK
<1>2. CASE desk[a] \in Asks
  BY <1>2 DEF Asks
<1>3. CASE desk[a] \in Edits
  BY <1>3 DEF Edits
<1>4. CASE desk[a] \in Undos
  BY <1>4 DEF Undos
<1>5. CASE desk[a] = Idle
  BY <1>5 DEF Idle
<1> QED BY <1>1, <1>2, <1>3, <1>4, <1>5

LEMMA ConsoleStep ==
    ASSUME DeskTypeOK, NEW a \in Reviewers, Console(a)
    PROVE  BatchBy(a) \/ UNCHANGED ledgerVars
<1>0. a \in Actors /\ Events \subseteq Rows
  BY ClientsKnown
<1>1. CASE \E e \in Events, c \in Contents : AddEvent(a, e, c)
  BY <1>0, <1>1, ContentIsBatch DEF AddEvent
<1>2. CASE Decide(a)
  <2>1. desk[a].row \in Rows
    BY <1>0, <1>2, DeskShape DEF Decide, Ready
  <2>2. \/ Send(desk[a].row, "needs_review", "approved", a, Null)
        \/ Send(desk[a].row, "needs_review", "rejected", a, Null)
    BY <1>2 DEF Decide
  <2> QED BY <1>0, <2>1, <2>2, SendIsBatch DEF Statuses
<1>3. CASE MergeInto(a)
  <2>1. desk[a].row \in Rows /\ desk[a].near \subseteq Rows
    BY <1>0, <1>3, DeskShape DEF MergeInto, Ready
  <2>2. UNCHANGED ledgerVars \/ \E f \in desk[a].near : Merge(desk[a].row, f, a)
    BY <1>3 DEF MergeInto
  <2> QED BY <1>0, <2>1, <2>2 DEF BatchBy, Batch
<1>4. CASE Edit(a)
  <2>1. desk[a].row \in Rows /\ desk[a].to \in Contents
    BY <1>0, <1>4, DeskShape DEF Edit
  <2>2. UNCHANGED ledgerVars \/ Revise(desk[a].row, desk[a].to, a)
    BY <1>4 DEF Edit
  <2> QED BY <1>0, <2>1, <2>2, ContentIsBatch
<1>5. CASE Undo(a)
  <2>1. desk[a].row \in Rows /\ desk[a].from \in Statuses
    BY <1>0, <1>5, DeskShape DEF Undo, Statuses
  <2>2. Send(desk[a].row, desk[a].from, "needs_review", a, Null)
    BY <1>5 DEF Undo
  <2> QED BY <1>0, <2>1, <2>2, SendIsBatch DEF Statuses
<1>6. CASE \/ \E e \in Events, kind \in {"approve", "reject", "merge", "distinct"}, plain \in BOOLEAN :
                 Begin(a, e, kind, plain)
           \/ \E e \in Events, c \in Contents : BeginEdit(a, e, c)
           \/ ReadEvent(a) \/ ReadSignals(a) \/ ReadCandidates(a) \/ MarkDistinct(a)
           \/ \E i \in 1..Len(log) : BeginUndo(a, i)
  BY <1>6 DEF Begin, BeginEdit, ReadEvent, ReadSignals, ReadCandidates, MarkDistinct, BeginUndo
<1> QED BY <1>1, <1>2, <1>3, <1>4, <1>5, <1>6 DEF Console

LEMMA CrawlStep ==
    ASSUME DeskTypeOK, Crawl
    PROVE  (\E actor \in Actors : BatchBy(actor)) \/ UNCHANGED ledgerVars
<1>0. /\ Events \subseteq Rows /\ Rule \in Rules
      /\ Scout \in Actors /\ LinkChecker \in Actors /\ AutoApprover \in Actors
  BY ClientsKnown
<1>1. CASE Upsert
  <2>1. scout.row \in Events /\ scout.draft \in Contents
    <3>1. scout.phase = "crawl" /\ scout.job = "upsert"
      BY <1>1 DEF Upsert
    <3>2. scout \in {NoJob} \cup Upserts \cup LinkChecks \cup Approvals
      BY DEF DeskTypeOK
    <3>3. scout \notin LinkChecks /\ scout \notin Approvals /\ scout # NoJob
      BY <3>1 DEF LinkChecks, Approvals, NoJob
    <3> QED BY <3>2, <3>3 DEF Upserts
  <2>2. \/ Enter(scout.row, scout.draft, Scout)
        \/ Revise(scout.row, scout.draft, Scout)
        \/ DemoteAndRevise(scout.row, scout.draft, Scout)
        \/ UNCHANGED ledgerVars
    BY <1>1 DEF Upsert
  <2> QED BY <1>0, <2>1, <2>2, ContentIsBatch
<1>2. ASSUME NEW e \in Events, LinkDead(e)
      PROVE  (\E actor \in Actors : BatchBy(actor)) \/ UNCHANGED ledgerVars
  <2>1. UNCHANGED ledgerVars \/ Move(e, "approved", "needs_review", LinkChecker, Null)
    BY <1>2 DEF LinkDead
  <2> QED BY <1>0, <2>1, MoveIsBatch DEF Statuses
<1>3. ASSUME NEW e \in Events, AutoApprove(e)
      PROVE  (\E actor \in Actors : BatchBy(actor)) \/ UNCHANGED ledgerVars
  <2>1. UNCHANGED ledgerVars \/ Move(e, "needs_review", "approved", AutoApprover, Rule)
    BY <1>3 DEF AutoApprove
  <2> QED BY <1>0, <2>1, MoveIsBatch DEF Statuses
<1>4. CASE \/ \E e \in Events : \/ \E c \in Contents : LoadExisting(e, c)
                                \/ LinkKept(e) \/ CompareTwins(e)
           \/ LoadLinks \/ LoadCandidates \/ EndCycle
  BY <1>4 DEF LoadExisting, LinkKept, CompareTwins, LoadLinks, LoadCandidates, EndCycle
<1> QED BY <1>1, <1>2, <1>3, <1>4 DEF Crawl

\* Every step of the clients is a batch, an operator's switch, or no step of
\* the ledger at all.
LEMMA DeskStepImplements ==
    ASSUME DeskTypeOK, [DeskNext]_deskVars
    PROVE  [Next]_ledgerVars
<1>1. ASSUME NEW a \in Reviewers, Console(a) PROVE [Next]_ledgerVars
  BY <1>1, ConsoleStep, ClientsKnown DEF BatchBy, Next
<1>2. CASE Crawl
  BY <1>2, CrawlStep DEF BatchBy, Next
<1>3. CASE Operator
  BY <1>3 DEF Operator, Next
<1>4. CASE \E e \in Events : Verify(e)
  BY <1>4 DEF Verify
<1>5. CASE UNCHANGED deskVars
  BY <1>5 DEF deskVars, ledgerVars
<1> QED BY <1>1, <1>2, <1>3, <1>4, <1>5 DEF DeskNext

-----------------------------------------------------------------------------
(* Type correctness of requests and jobs                                   *)

\* row' is only ever touched by the ledger; here is all else a console step
\* writes.
LEMMA ConsoleType ==
    ASSUME DeskTypeOK, NEW a \in Reviewers, Console(a)
    PROVE  /\ verified' = verified /\ scout' = scout
           /\ cleared' \in [Events -> SUBSET Events]
           /\ desk' \in [Reviewers -> {Idle} \cup Asks \cup Edits \cup Undos]
<1> DEFINE D == {Idle} \cup Asks \cup Edits \cup Undos
<1>0. /\ desk \in [Reviewers -> D] /\ cleared \in [Events -> SUBSET Events]
      /\ row \in [Rows -> Listing] /\ Events \subseteq Rows
  BY ClientsKnown DEF DeskTypeOK, TypeOK
<1>1. ASSUME NEW q \in D, Busy(a, q)
      PROVE  desk' \in [Reviewers -> D]
  BY <1>0, <1>1 DEF Busy
<1>2. ASSUME Done(a) PROVE desk' \in [Reviewers -> D]
  BY <1>1, <1>2 DEF Done
<1>3. ASSUME NEW e \in Events PROVE row[e].content \in Contents \cup {Null}
  BY <1>0 DEF Listing
<1>4. ASSUME desk[a].kind \in {"approve", "merge", "distinct"}
      PROVE  desk[a] \in Asks /\ desk[a].row \in Events
  <2>1. desk[a] \in D
    BY <1>0
  <2>2. desk[a] # Idle /\ desk[a] \notin Edits /\ desk[a] \notin Undos
    BY <1>4 DEF Idle, Edits, Undos
  <2> QED BY <2>1, <2>2 DEF Asks
<1>5. ASSUME NEW e \in Events, NEW kind \in {"approve", "reject", "merge", "distinct"},
             NEW plain \in BOOLEAN, Begin(a, e, kind, plain)
      PROVE  desk' \in [Reviewers -> D] /\ UNCHANGED <<verified, cleared, scout>>
  <2> DEFINE q == Ask(kind, IF kind = "reject" THEN "ready" ELSE "status",
                      e, plain, Null, FALSE, {}, {})
  <2>1. q \in D
    BY <1>5 DEF Ask, Asks
  <2>2. Busy(a, q) /\ UNCHANGED <<verified, cleared, scout>>
    BY <1>5 DEF Begin, Others
  <2> QED BY <1>1, <2>1, <2>2
<1>6. ASSUME NEW e \in Events, NEW c \in Contents, BeginEdit(a, e, c)
      PROVE  desk' \in [Reviewers -> D] /\ UNCHANGED <<verified, cleared, scout>>
  <2>1. [kind |-> "edit", row |-> e, to |-> c] \in D
    BY DEF Edits
  <2> QED BY <1>1, <1>6, <2>1 DEF BeginEdit, Others
<1>7. ASSUME NEW e \in Events, NEW c \in Contents, AddEvent(a, e, c)
      PROVE  UNCHANGED <<desk, verified, cleared, scout>>
  BY <1>7 DEF AddEvent, Others
<1>8. CASE ReadEvent(a)
  <2> DEFINE q == [desk[a] EXCEPT !.step = "event", !.seen = row[desk[a].row].content]
  <2>1. Busy(a, q) /\ UNCHANGED <<verified, cleared, scout>>
        /\ desk[a].kind \in {"approve", "merge", "distinct"}
    BY <1>8 DEF ReadEvent, Others
  <2>2. desk[a] \in Asks /\ row[desk[a].row].content \in Contents \cup {Null}
    BY <1>3, <1>4, <2>1
  <2>3. q \in Asks
    BY <2>2 DEF Asks
  <2> QED BY <1>0, <1>1, <2>1, <2>3
<1>9. CASE ReadSignals(a)
  <2> DEFINE q == [desk[a] EXCEPT !.step = "signals",
                                  !.green = Green(desk[a].row, desk[a].seen),
                                  !.clear = cleared[desk[a].row]]
  <2>1. Busy(a, q) /\ UNCHANGED <<verified, cleared, scout>>
        /\ desk[a].kind \in {"approve", "merge", "distinct"}
    BY <1>9 DEF ReadSignals, Others
  <2>2. desk[a] \in Asks /\ cleared[desk[a].row] \in SUBSET Events
    BY <1>0, <1>4, <2>1
  <2>3. Green(desk[a].row, desk[a].seen) \in BOOLEAN
    BY DEF Green
  <2>4. q \in Asks
    BY <2>2, <2>3, Zenon DEF Asks
  <2> QED BY <1>0, <1>1, <2>1, <2>4
<1>10. CASE ReadCandidates(a)
  <2> DEFINE near == Candidates(desk[a].row, desk[a].seen)
             q == [desk[a] EXCEPT !.step = "ready", !.near = near]
  <2>1. /\ Busy(a, q) \/ Done(a)
        /\ UNCHANGED <<verified, cleared, scout>>
        /\ desk[a].kind \in {"approve", "merge", "distinct"}
    BY <1>10 DEF ReadCandidates, Others
  <2>2. desk[a] \in Asks /\ near \in SUBSET Events
    BY <1>4, <2>1 DEF Candidates
  <2>3. q \in Asks
    BY <2>2 DEF Asks
  <2> QED BY <1>0, <1>1, <1>2, <2>1, <2>3
<1>11. CASE Decide(a)
  BY <1>0, <1>2, <1>11 DEF Decide, Others
<1>12. CASE MergeInto(a)
  BY <1>0, <1>2, <1>12 DEF MergeInto, Others
<1>13. CASE MarkDistinct(a)
  <2>1. desk[a].near \in SUBSET Events
    BY <1>13, DeskShape DEF MarkDistinct, Ready
  <2>2. cleared' \in [Events -> SUBSET Events]
    BY <1>0, <1>13, <2>1 DEF MarkDistinct
  <2> QED BY <1>2, <1>13, <2>2 DEF MarkDistinct
<1>14. CASE Edit(a)
  BY <1>0, <1>2, <1>14 DEF Edit, Others
<1>15. CASE Undo(a)
  BY <1>0, <1>2, <1>15 DEF Undo, Others
<1>16. ASSUME NEW i \in 1..Len(log), BeginUndo(a, i)
       PROVE  desk' \in [Reviewers -> D] /\ UNCHANGED <<verified, cleared, scout>>
  <2>1. log[i].row \in Events /\ log[i].to \in {"approved", "rejected"} /\ i \in Nat
    BY <1>16 DEF BeginUndo, LastFive, Decisions
  <2>2. [kind |-> "undo", row |-> log[i].row, from |-> log[i].to, entry |-> i] \in Undos
    BY <2>1 DEF Undos
  <2> QED BY <1>1, <1>16, <2>2 DEF BeginUndo, Others
<1> QED BY <1>0, <1>5, <1>6, <1>7, <1>8, <1>9, <1>10, <1>11, <1>12, <1>13, <1>14, <1>15, <1>16
        DEF Console

LEMMA CrawlType ==
    ASSUME DeskTypeOK, Crawl
    PROVE  /\ UNCHANGED <<verified, cleared, desk>>
           /\ scout' \in {NoJob} \cup Upserts \cup LinkChecks \cup Approvals
<1> DEFINE S == {NoJob} \cup Upserts \cup LinkChecks \cup Approvals
<1>0. /\ scout \in S /\ row \in [Rows -> Listing] /\ Events \subseteq Rows /\ Len(log) \in Nat
  BY ClientsKnown DEF DeskTypeOK, TypeOK
<1>1. UNCHANGED <<verified, cleared, desk>>
  BY DEF Crawl, LoadExisting, LinkKept, LinkDead, CompareTwins, AutoApprove, Upsert,
         LoadLinks, LoadCandidates, EndCycle, Others
<1>2. ASSUME NEW e \in Events, NEW c \in Contents, LoadExisting(e, c) PROVE scout' \in S
  <2>1. row[e].status \in Statuses \cup {"absent"} /\ row[e].content \in Contents \cup {Null}
    BY <1>0 DEF Listing
  <2> QED BY <1>2, <2>1 DEF LoadExisting, Upserts
<1>3. CASE Upsert \/ EndCycle
  BY <1>1, <1>3 DEF Upsert, EndCycle
<1>4. CASE LoadLinks
  <2>1. PICK due \in SUBSET Events : scout' = [phase |-> "links", todo |-> due]
    BY <1>4 DEF LoadLinks
  <2> QED BY <1>1, <2>1 DEF LinkChecks
<1>5. ASSUME NEW e \in Events, LinkKept(e) \/ LinkDead(e) PROVE scout' \in S
  <2>1. scout.phase = "links" /\ (scout' = NoJob \/ scout' = [scout EXCEPT !.todo = @ \ {e}])
    BY <1>5 DEF LinkKept, LinkDead
  <2>2. scout \in LinkChecks
    BY <1>0, <2>1 DEF NoJob, Upserts, Approvals
  <2>3. [scout EXCEPT !.todo = @ \ {e}] \in LinkChecks
    BY <2>2 DEF LinkChecks
  <2> QED BY <2>1, <2>3
<1>6. CASE LoadCandidates
  <2>1. [e \in Events |-> row[e].content] \in [Events -> Contents \cup {Null}]
    BY <1>0 DEF Listing
  <2>2. AutoCandidates \in SUBSET Events
    BY DEF AutoCandidates
  <2>3. [phase |-> "approve", todo |-> AutoCandidates, at |-> Null,
         seen |-> [e \in Events |-> row[e].content], since |-> Len(log)] \in Approvals
    BY <1>0, <2>1, <2>2 DEF Approvals
  <2> QED BY <1>1, <1>6, <2>3 DEF LoadCandidates
<1>7. ASSUME NEW e \in Events, CompareTwins(e) \/ AutoApprove(e) PROVE scout' \in S
  <2>1. scout.phase = "approve"
    BY <1>7 DEF CompareTwins, AutoApprove
  <2>2. scout \in Approvals
    BY <1>0, <2>1 DEF NoJob, Upserts, LinkChecks
  <2>3. CASE CompareTwins(e)
    <3>1. ASSUME NEW at \in Events \cup {Null}
          PROVE  [scout EXCEPT !.todo = @ \ {e}, !.at = at] \in Approvals
      BY <2>2 DEF Approvals
    <3>2. scout' = [scout EXCEPT !.todo = @ \ {e},
                                 !.at = IF HasTwin(e, scout.seen[e]) THEN Null ELSE e]
      BY <2>3 DEF CompareTwins
    <3> QED BY <3>1, <3>2
  <2>4. CASE AutoApprove(e)
    <3>1. [scout EXCEPT !.at = Null] \in Approvals
      BY <2>2 DEF Approvals
    <3> QED BY <2>4, <3>1 DEF AutoApprove
  <2> QED BY <1>7, <2>3, <2>4
<1> QED BY <1>1, <1>2, <1>3, <1>4, <1>5, <1>6, <1>7 DEF Crawl

LEMMA DeskStepType == DeskTypeOK /\ [DeskNext]_deskVars => DeskTypeOK'
<1> SUFFICES ASSUME DeskTypeOK, [DeskNext]_deskVars PROVE DeskTypeOK'
  OBVIOUS
<1>1. TypeOK'
  BY DeskStepImplements, StepShape DEF DeskTypeOK
<1>2. CASE \E a \in Reviewers : Console(a)
  BY <1>1, <1>2, ConsoleType DEF DeskTypeOK
<1>3. CASE Crawl
  BY <1>1, <1>3, CrawlType DEF DeskTypeOK
<1>4. CASE Operator
  BY <1>1, <1>4 DEF Operator, Others, DeskTypeOK
<1>5. ASSUME NEW e \in Events, Verify(e) PROVE DeskTypeOK'
  <2>1. row[e].content \in Contents \cup {Null}
    BY ClientsKnown DEF DeskTypeOK, TypeOK, Listing
  <2>2. PICK passed \in BOOLEAN :
           verified' = [verified EXCEPT ![e] = [content |-> row[e].content, passed |-> passed]]
    BY <1>5 DEF Verify
  <2>3. UNCHANGED <<cleared, desk, scout>>
    BY <1>5 DEF Verify
  <2> QED BY <1>1, <2>1, <2>2, <2>3 DEF DeskTypeOK
<1>6. CASE UNCHANGED deskVars
  BY <1>1, <1>6 DEF deskVars, DeskTypeOK
<1> QED BY <1>2, <1>3, <1>4, <1>5, <1>6 DEF DeskNext

\* Requests and jobs keep their shape, whatever they read.
THEOREM DeskTypeCorrect == DeskSpec => []DeskTypeOK
<1>1. DeskInit => DeskTypeOK
  BY InitType DEF DeskInit, DeskTypeOK
<1> QED BY <1>1, DeskStepType, PTL DEF DeskSpec

\* The console, the scout and the operator implement the ledger: no
\* interleaving of their reads and batches takes the tables a step the
\* triggers' law does not have.
THEOREM DeskRefinesLedger == DeskSpec => DeskImplementsLedger
<1>1. DeskTypeOK /\ [DeskNext]_deskVars => [UNCHANGED ledgerVars \/ Next]_ledgerVars
  BY DeskStepImplements
<1>2. DeskInit => Init
  BY DEF DeskInit
<1> QED BY <1>1, <1>2, DeskTypeCorrect, PTL DEF DeskSpec, DeskImplementsLedger

\* So the clients inherit the ledger's guarantees.
THEOREM DeskKeepsLedger == DeskSpec => [](StatusFollowsLog /\ ChainUnbroken /\ ApprovalTraced)
<1>1. DeskTypeOK /\ [DeskNext]_deskVars => [Next]_ledgerVars
  BY DeskStepImplements
<1>2. DeskInit => Init
  BY DEF DeskInit
<1>3. DeskSpec => Spec
  BY <1>1, <1>2, DeskTypeCorrect, PTL DEF DeskSpec, Spec
<1>4. Ledger => StatusFollowsLog /\ ChainUnbroken /\ ApprovalTraced
  BY DEF Ledger
<1> QED BY <1>3, <1>4, LedgerHolds, PTL

-----------------------------------------------------------------------------
(* Rejections that stand                                                   *)

\* While the newest word a person said on a row is "rejected", so is the row:
\* no 'system:' actor has a move away from it.
RejectionStands ==
    \A e \in Rows, i \in 1..Len(log) :
        LastHuman(i, e) /\ log[i].to = "rejected" => row[e].status = "rejected"

LEMMA RejectionStep ==
    ASSUME TypeOK, RejectionStands, [Next]_ledgerVars
    PROVE  RejectionStands'
<1>1. TypeOK' /\ (Quiet \/ \E r \in Rows, k \in Nat : Moves(r, k))
  BY StepShape
<1>2. SUFFICES ASSUME NEW e \in Rows, NEW i \in 1..Len(log'), LastHuman(i, e)',
                      log'[i].to = "rejected"
               PROVE  row'[e].status = "rejected"
  BY DEF RejectionStands
<1>3. Len(log) \in Nat /\ Len(log') \in Nat /\ LogGrows
  <2>1. LogGrows
    BY <1>1, Zenon DEF Quiet, Moves
  <2>2. log \in Seq(LogEntry)
    BY DEF TypeOK
  <2> QED BY <2>1, <2>2 DEF LogGrows
<1>4. ASSUME i \in 1..Len(log)
      PROVE  row[e].status = "rejected"
  <2>1. \A j \in (i + 1)..Len(log) : j \in 1..Len(log) /\ j \in (i + 1)..Len(log')
    BY <1>3, <1>4 DEF LogGrows
  <2>2. LastHuman(i, e)
    BY <1>2, <1>3, <1>4, <2>1 DEF LastHuman, IsTransition, LogGrows
  <2>3. log[i].to = "rejected"
    BY <1>2, <1>3, <1>4 DEF LogGrows
  <2> QED BY <1>4, <2>2, <2>3 DEF RejectionStands
<1>5. CASE Quiet
  <2>1. i \in 1..Len(log)
    BY <1>2, <1>3, <1>5 DEF Quiet, LastHuman, IsTransition
  <2> QED BY <1>4, <1>5, <2>1 DEF Quiet, SameVerdict
<1>6. ASSUME NEW r \in Rows, NEW k \in Nat, Moves(r, k)
      PROVE  row'[e].status = "rejected"
  <2>1. CASE i = k
    BY <1>2, <1>6, <2>1 DEF Moves, LastHuman, IsTransition
  <2>2. CASE i # k
    <3>1. i \in 1..Len(log)
      BY <1>2, <1>3, <1>6, <2>2 DEF Moves, LastHuman, IsTransition
    <3>2. CASE r # e
      BY <1>4, <1>6, <3>1, <3>2 DEF Moves, SameVerdict
    \* A transition after the person's would be a component's, from "rejected".
    <3>3. CASE r = e
      <4>1. k \in (i + 1)..Len(log') /\ k \in 1..Len(log')
        BY <1>3, <1>6, <3>1 DEF Moves
      <4>2. log'[k].actor \notin Reviewers
        BY <1>2, <1>6, <3>3, <4>1 DEF Moves, LastHuman, IsTransition
      <4>3. log'[k].actor \in Components
        <5>1. log' \in Seq(LogEntry)
          BY <1>1 DEF TypeOK
        <5>2. log'[k] \in LogEntry
          BY <4>1, <5>1
        <5> QED BY <4>2, <5>2 DEF LogEntry, Actors
      <4>4. log'[k].from = "rejected"
        BY <1>4, <1>6, <3>1, <3>3 DEF Moves
      <4>5. /\ <<log'[k].from, log'[k].to>> \in Allowed(e)
            /\ log'[k].to = "approved" \/ <<log'[k].from, log'[k].to>> \in SystemAllowed(e)
        BY <1>6, <3>3, <4>3 DEF Moves
      <4> QED BY <4>4, <4>5 DEF Allowed, SystemAllowed, SystemMoves, HumanMoves, ExpiryMoves
    <3> QED BY <3>2, <3>3
  <2> QED BY <2>1, <2>2
<1> QED BY <1>1, <1>5, <1>6

\* A row becomes approved from needs_review and from nothing else.
LEMMA ApprovedFromWaiting ==
    ASSUME TypeOK, [Next]_ledgerVars, NEW e \in Rows,
           row[e].status # "approved", row'[e].status = "approved"
    PROVE  row[e].status = "needs_review" /\ \E k \in Nat : Moves(e, k)
<1>1. Quiet \/ \E r \in Rows, k \in Nat : Moves(r, k)
  BY StepShape
<1>2. CASE Quiet
  BY <1>2 DEF Quiet, SameVerdict
<1>3. ASSUME NEW r \in Rows, NEW k \in Nat, Moves(r, k)
      PROVE  row[e].status = "needs_review" /\ Moves(e, k)
  <2>1. r = e
    BY <1>3 DEF Moves, SameVerdict
  <2>2. log'[k].to = "approved" /\ <<log'[k].from, log'[k].to>> \in Allowed(e)
    BY <1>3, <2>1 DEF Moves
  <2>3. log'[k].from = "needs_review"
    BY <2>2 DEF Allowed, SystemAllowed, SystemMoves, HumanMoves, ExpiryMoves
  <2> QED BY <1>3, <2>1, <2>3 DEF Moves
<1> QED BY <1>1, <1>2, <1>3

\* Nobody's rejection is overruled by the automatic approval, whatever the
\* scout read and whenever it read it (CANDIDATES_SQL and the trigger's
\* system_allowed).
THEOREM DeskRespectsRejection == DeskSpec => MachineRespectsRejection
<1>1. DeskInit => RejectionStands
  <2> SUFFICES ASSUME DeskInit PROVE RejectionStands
    OBVIOUS
  <2>1. Len(log) = 0
    BY DEF DeskInit, Init
  <2> QED BY <2>1 DEF RejectionStands
<1>2. DeskTypeOK /\ RejectionStands /\ [DeskNext]_deskVars => RejectionStands'
  BY DeskStepImplements, RejectionStep DEF DeskTypeOK
<1>3. DeskTypeOK /\ RejectionStands /\ [DeskNext]_deskVars =>
        \A e \in Events : RuleApproves(e) =>
          \A i \in 1..Len(log) : LastHuman(i, e) => log[i].to # "rejected"
  <2> SUFFICES ASSUME DeskTypeOK, RejectionStands, [DeskNext]_deskVars,
                      NEW e \in Events, RuleApproves(e),
                      NEW i \in 1..Len(log), LastHuman(i, e), log[i].to = "rejected"
               PROVE  FALSE
    OBVIOUS
  <2>1. e \in Rows
    BY ClientsKnown
  <2>2. row[e].status = "needs_review"
    BY <2>1, DeskStepImplements, ApprovedFromWaiting DEF DeskTypeOK, RuleApproves
  <2> QED BY <2>1, <2>2 DEF RejectionStands
<1> QED BY <1>1, <1>2, <1>3, DeskTypeCorrect, PTL DEF DeskSpec, MachineRespectsRejection

-----------------------------------------------------------------------------
(* Approvals as judged                                                     *)

\* Nobody but the automatic approval has written since it read its candidates.
Undisturbed == \A i \in (scout.since + 1)..Len(log) : log[i].actor = AutoApprover

\* The row is still what the candidates' query selected.
Judged(e) ==
    /\ row[e].status = "needs_review"
    /\ row[e].content = scout.seen[e] /\ row[e].content \in Passing
    /\ ~ SentBack(e)

JudgementsHold ==
    scout.phase = "approve" =>
        /\ scout.since <= Len(log)
        /\ scout.at \notin scout.todo
        /\ Undisturbed => /\ \A e \in scout.todo : Judged(e)
                          /\ scout.at # Null => /\ Judged(scout.at)
                                                /\ ~ HasTwin(scout.at, row[scout.at].content)

\* Every batch writes to the log, and signs what it writes.
Signed(actor) ==
    /\ LogGrows /\ Len(log') > Len(log)
    /\ \A i \in (Len(log) + 1)..Len(log') : log'[i].actor = actor

LEMMA BatchIsSigned ==
    ASSUME TypeOK, NEW actor \in Actors, BatchBy(actor)
    PROVE  Signed(actor)
<1>0. Len(log) \in Nat /\ \A x \in Actors : x \in Actors
  BY DEF TypeOK
<1>1. ASSUME NEW e \in LogEntry, e.actor = actor, Append1(e) PROVE Signed(actor)
  BY <1>0, <1>1, AppendOne DEF Signed
<1>2. ASSUME NEW e \in LogEntry, NEW f \in LogEntry, e.actor = actor, f.actor = actor, Append2(e, f)
      PROVE  Signed(actor)
  BY <1>0, <1>2, AppendTwo DEF Signed
<1>3. ASSUME NEW r \in Rows, NEW action \in {"create", "edit", "merge"}, NEW into \in Rows \cup {Null}
      PROVE  Note(r, action, actor, into) \in LogEntry /\ Note(r, action, actor, into).actor = actor
  BY NoteType DEF Note
<1>4. ASSUME NEW r \in Rows, NEW from \in Statuses, NEW to \in Statuses, NEW rule \in Rules \cup {Null}
      PROVE  /\ Transition(r, from, to, actor, rule) \in LogEntry
             /\ Transition(r, from, to, actor, rule).actor = actor
  BY TransitionType DEF Transition
<1>5. PICK r \in Rows : Batch(r, actor)
  BY DEF BatchBy
<1>6. ASSUME NEW c \in Contents, Enter(r, c, actor) PROVE Signed(actor)
  <2>1. Append2(Note(r, "create", actor, Null), Transition(r, "draft", "needs_review", actor, Null))
    BY <1>6 DEF Enter
  <2>2. "draft" \in Statuses /\ "needs_review" \in Statuses
    BY DEF Statuses
  <2> QED BY <1>2, <1>3, <1>4, <2>1, <2>2
<1>7. ASSUME NEW c \in Contents, Revise(r, c, actor) PROVE Signed(actor)
  <2>1. Append1(Note(r, "edit", actor, Null))
    BY <1>7 DEF Revise
  <2> QED BY <1>1, <1>3, <2>1
<1>8. ASSUME NEW c \in Contents, DemoteAndRevise(r, c, actor) PROVE Signed(actor)
  <2>1. Append2(Transition(r, "approved", "needs_review", actor, Null), Note(r, "edit", actor, Null))
    BY <1>8 DEF DemoteAndRevise
  <2>2. "approved" \in Statuses /\ "needs_review" \in Statuses
    BY DEF Statuses
  <2> QED BY <1>2, <1>3, <1>4, <2>1, <2>2
<1>9. ASSUME NEW from \in Statuses, NEW to \in Statuses, NEW rule \in Rules \cup {Null},
             Move(r, from, to, actor, rule)
      PROVE  Signed(actor)
  <2>1. Append1(Transition(r, from, to, actor, rule))
    BY <1>9 DEF Move
  <2> QED BY <1>1, <1>4, <2>1
<1>10. ASSUME NEW s \in Rows, Merge(r, s, actor) PROVE Signed(actor)
  <2>1. Append2(Note(r, "merge", actor, s), Transition(r, "needs_review", "rejected", actor, Null))
    BY <1>10 DEF Merge
  <2>2. "rejected" \in Statuses /\ "needs_review" \in Statuses
    BY DEF Statuses
  <2> QED BY <1>2, <1>3, <1>4, <2>1, <2>2
<1> QED BY <1>5, <1>6, <1>7, <1>8, <1>9, <1>10 DEF Batch

\* What the automatic approval's own batch does.
LEMMA AutoApproveShape ==
    ASSUME TypeOK, NEW e \in Events, Move(e, "needs_review", "approved", AutoApprover, Rule)
    PROVE  /\ Signed(AutoApprover)
           /\ row'[e].content = row[e].content
           /\ row[e].status = "needs_review" /\ row'[e].status = "approved"
           /\ \A f \in Rows : f # e => row'[f] = row[f]
<1> DEFINE entry == Transition(e, "needs_review", "approved", AutoApprover, Rule)
<1>1. e \in Rows /\ AutoApprover \in Actors /\ Rule \in Rules
  BY ClientsKnown
<1>2. Signed(AutoApprover)
  BY <1>1, MoveIsBatch, BatchIsSigned DEF Statuses
<1>3. entry \in LogEntry /\ entry.to = "approved" /\ entry.from = "needs_review"
  BY <1>1, TransitionType DEF Statuses
<1>4. Admits(row[e], entry) /\ row' = [row EXCEPT ![e] = Applied(row[e], entry, Len(log) + 1)]
  BY DEF Move
<1> HIDE DEF entry
<1>5. row[e] \in Listing /\ Len(log) + 1 \in Nat /\ row \in [Rows -> Listing]
  BY <1>1 DEF TypeOK
<1>6. /\ Applied(row[e], entry, Len(log) + 1).content = row[e].content
      /\ Applied(row[e], entry, Len(log) + 1).status = "approved"
  BY <1>3, <1>5, AppliedType DEF Statuses
<1>7. row[e].status = "needs_review"
  BY <1>3, <1>4 DEF Admits, IsCurrent
<1> QED BY <1>1, <1>2, <1>4, <1>5, <1>6, <1>7

LEMMA SignedBreaks ==
    ASSUME TypeOK, NEW actor \in Actors, actor # AutoApprover, Signed(actor),
           scout' = scout, scout.phase = "approve", scout \in Approvals, JudgementsHold
    PROVE  JudgementsHold'
<1>1. Len(log) \in Nat /\ Len(log') \in Nat /\ Len(log) < Len(log') /\ scout.since \in Nat
      /\ scout.since <= Len(log) /\ log'[Len(log')].actor = actor
  BY DEF TypeOK, Signed, LogGrows, Approvals, JudgementsHold
<1>2. ~ Undisturbed'
  BY <1>1 DEF Undisturbed
<1> QED BY <1>1, <1>2 DEF JudgementsHold

\* Steps that leave the tables and the scout alone leave the judgements alone.
LEMMA JudgementsStay ==
    ASSUME JudgementsHold, UNCHANGED <<row, log, scout>>
    PROVE  JudgementsHold'
  BY DEF JudgementsHold, Undisturbed, Judged, SentBack, HasTwin, IsTransition

LEMMA PhaseShape ==
    ASSUME DeskTypeOK, scout.phase = "approve"
    PROVE  scout \in Approvals /\ scout # NoJob
<1>1. scout \in {NoJob} \cup Upserts \cup LinkChecks \cup Approvals
  BY DEF DeskTypeOK
<1> QED BY <1>1 DEF NoJob, Upserts, LinkChecks

LEMMA LoadCandidatesStep ==
    ASSUME DeskTypeOK, LoadCandidates
    PROVE  JudgementsHold'
<1>1. Len(log) \in Nat /\ Null \notin Events /\ UNCHANGED <<row, log>>
  BY LedgerAssumption DEF LoadCandidates, DeskTypeOK, TypeOK, ledgerVars
<1>2. CASE scout' = NoJob
  BY <1>2 DEF JudgementsHold, NoJob
<1>3. CASE scout' = [phase |-> "approve", todo |-> AutoCandidates, at |-> Null,
                     seen |-> [e \in Events |-> row[e].content], since |-> Len(log)]
  <2>1. /\ scout'.todo = AutoCandidates /\ scout'.at = Null /\ scout'.since = Len(log)
        /\ \A e \in Events : scout'.seen[e] = row[e].content
    BY <1>3
  <2>2. ASSUME NEW e \in AutoCandidates PROVE Judged(e)'
    BY <1>1, <2>1, <2>2 DEF AutoCandidates, Judged, SentBack, IsTransition
  <2>3. Null \notin AutoCandidates
    BY <1>1 DEF AutoCandidates
  <2> QED BY <1>1, <2>1, <2>2, <2>3 DEF JudgementsHold
<1> QED BY <1>2, <1>3 DEF LoadCandidates

LEMMA CompareTwinsStep ==
    ASSUME DeskTypeOK, JudgementsHold, NEW e \in Events, CompareTwins(e)
    PROVE  JudgementsHold'
<1>1. scout.phase = "approve" /\ scout.at = Null /\ e \in scout.todo /\ UNCHANGED <<row, log>>
  BY DEF CompareTwins, ledgerVars
<1>2. scout \in Approvals
  BY <1>1, PhaseShape
<1>3. Null \notin Events /\ scout.todo \subseteq Events
  BY <1>2, LedgerAssumption DEF Approvals
<1>4. /\ scout'.phase = "approve" /\ scout'.todo = scout.todo \ {e}
      /\ scout'.since = scout.since /\ scout'.seen = scout.seen
      /\ scout'.at = IF HasTwin(e, scout.seen[e]) THEN Null ELSE e
  BY <1>1, <1>2 DEF CompareTwins, Approvals
<1>5. Undisturbed' <=> Undisturbed
  BY <1>1, <1>4 DEF Undisturbed
<1>6. ASSUME NEW f, Judged(f) PROVE Judged(f)'
  BY <1>1, <1>4, <1>6 DEF Judged, SentBack, IsTransition
<1>7. Undisturbed => \A f \in scout.todo : Judged(f)
  BY <1>1 DEF JudgementsHold
<1>8. Undisturbed => row[e].content = scout.seen[e]
  BY <1>1, <1>7 DEF Judged
<1>9. ASSUME Undisturbed, ~ HasTwin(e, scout.seen[e]) PROVE ~ HasTwin(e, row[e].content)'
  BY <1>1, <1>8, <1>9 DEF HasTwin
<1>10. scout.since <= Len(log)
  BY <1>1 DEF JudgementsHold
<1> QED BY <1>1, <1>3, <1>4, <1>5, <1>6, <1>7, <1>9, <1>10 DEF JudgementsHold

LEMMA AutoApproveStep ==
    ASSUME DeskTypeOK, JudgementsHold, NEW e \in Events, AutoApprove(e)
    PROVE  JudgementsHold'
<1>1. scout.phase = "approve" /\ scout.at = e
  BY DEF AutoApprove
<1>2. scout \in Approvals
  BY <1>1, PhaseShape
<1>3. CASE scout' = NoJob
  BY <1>3 DEF JudgementsHold, NoJob
<1>4. CASE /\ Move(e, "needs_review", "approved", AutoApprover, Rule)
           /\ scout' = [scout EXCEPT !.at = Null]
  <2>1. /\ scout'.phase = "approve" /\ scout'.todo = scout.todo /\ scout'.at = Null
        /\ scout'.since = scout.since /\ scout'.seen = scout.seen
    BY <1>2, <1>4 DEF Approvals
  <2>2. /\ Signed(AutoApprover) /\ row'[e].content = row[e].content
        /\ \A f \in Rows : f # e => row'[f] = row[f]
    BY <1>4, AutoApproveShape DEF DeskTypeOK
  <2>3. /\ Len(log) \in Nat /\ Len(log') \in Nat /\ Len(log) < Len(log') /\ scout.since \in Nat
        /\ scout.since <= Len(log) /\ \A i \in 1..Len(log) : log'[i] = log[i]
    BY <1>1, <1>2, <2>2 DEF DeskTypeOK, TypeOK, Signed, LogGrows, Approvals, JudgementsHold
  <2>4. Undisturbed' => Undisturbed
    BY <2>1, <2>3 DEF Undisturbed
  <2>5. AutoApprover \notin Reviewers
    BY DeskAssumption, LedgerAssumption
  <2>6. ASSUME NEW f \in Events, ~ SentBack(f) PROVE ~ SentBack(f)'
    BY <2>2, <2>3, <2>5, <2>6 DEF SentBack, IsTransition, Signed
  <2>7. ASSUME NEW f \in scout.todo, Judged(f) PROVE Judged(f)'
    <3>1. f \in Events /\ f \in Rows /\ f # e
      BY <1>1, <1>2, ClientsKnown DEF Approvals, JudgementsHold
    <3> QED BY <2>1, <2>2, <2>6, <2>7, <3>1 DEF Judged
  <2>8. Null \notin Events /\ scout.todo \subseteq Events
    BY <1>2, LedgerAssumption DEF Approvals
  <2> QED BY <1>1, <2>1, <2>3, <2>4, <2>7, <2>8 DEF JudgementsHold
<1> QED BY <1>3, <1>4 DEF AutoApprove

LEMMA JudgementsStep ==
    ASSUME DeskTypeOK, JudgementsHold, [DeskNext]_deskVars
    PROVE  JudgementsHold'
<1>1. ASSUME NEW a \in Reviewers, Console(a) PROVE JudgementsHold'
  <2>1. scout' = scout /\ (BatchBy(a) \/ UNCHANGED ledgerVars)
    BY <1>1, ConsoleStep, ConsoleType
  <2>2. CASE UNCHANGED ledgerVars
    BY <2>1, <2>2, JudgementsStay DEF ledgerVars
  <2>3. CASE BatchBy(a)
    <3>1. a \in Actors /\ a # AutoApprover
      BY ClientsKnown, DeskAssumption, LedgerAssumption
    <3>2. Signed(a)
      BY <2>3, <3>1, BatchIsSigned DEF DeskTypeOK
    <3>3. CASE scout.phase = "approve"
      BY <2>1, <3>1, <3>2, <3>3, PhaseShape, SignedBreaks DEF DeskTypeOK
    <3>4. CASE scout.phase # "approve"
      BY <2>1, <3>4 DEF JudgementsHold
    <3> QED BY <3>3, <3>4
  <2> QED BY <2>1, <2>2, <2>3
<1>2. ASSUME NEW e \in Events, CompareTwins(e) \/ AutoApprove(e) PROVE JudgementsHold'
  BY <1>2, CompareTwinsStep, AutoApproveStep
<1>3. CASE LoadCandidates
  BY <1>3, LoadCandidatesStep
<1>4. CASE Upsert \/ EndCycle
  <2>1. scout' = NoJob
    BY <1>4 DEF Upsert, EndCycle
  <2> QED BY <2>1 DEF JudgementsHold, NoJob
<1>5. CASE LoadLinks \/ \E e \in Events, c \in Contents : LoadExisting(e, c)
  BY <1>5 DEF LoadLinks, LoadExisting, JudgementsHold
<1>6. ASSUME NEW e \in Events, LinkKept(e) \/ LinkDead(e) PROVE JudgementsHold'
  <2>1. scout.phase = "links" /\ (scout' = NoJob \/ scout' = [scout EXCEPT !.todo = @ \ {e}])
    BY <1>6 DEF LinkKept, LinkDead
  <2>2. scout \in LinkChecks
    BY <2>1 DEF DeskTypeOK, NoJob, Upserts, Approvals
  <2>3. scout'.phase # "approve"
    BY <2>1, <2>2 DEF LinkChecks, NoJob
  <2> QED BY <2>3 DEF JudgementsHold
<1>7. CASE Operator
  BY <1>7, JudgementsStay DEF Operator, SwitchRule, SwitchReviewer
<1>8. CASE \E e \in Events : Verify(e)
  BY <1>8, JudgementsStay DEF Verify, ledgerVars
<1>9. CASE UNCHANGED deskVars
  BY <1>9, JudgementsStay DEF deskVars
<1> QED BY <1>1, <1>2, <1>3, <1>4, <1>5, <1>6, <1>7, <1>8, <1>9 DEF DeskNext, Crawl

\* A person's batch names no rule.
LEMMA PeopleNameNoRule ==
    ASSUME TypeOK, NEW a \in Reviewers, BatchBy(a), NEW e \in Rows, [Next]_ledgerVars
    PROVE  row[e].status # "approved" /\ row'[e].status = "approved" => row'[e].approvalRule = Null
<1> SUFFICES ASSUME row[e].status # "approved", row'[e].status = "approved"
             PROVE  row'[e].approvalRule = Null
  OBVIOUS
<1>1. PICK k \in Nat : Moves(e, k)
  BY ApprovedFromWaiting
<1>2. Signed(a)
  BY BatchIsSigned, ClientsKnown
<1>3. log'[k].actor = a /\ (a \in Reviewers => log'[k].rule = Null)
  BY <1>1, <1>2 DEF Moves, Signed
<1> QED BY <1>1, <1>3 DEF Moves

\* The upserts and the link checks approve nothing.
LEMMA UpsertApprovesNone ==
    ASSUME TypeOK, NEW r \in Rows, NEW c \in Contents, NEW actor \in Actors,
           Enter(r, c, actor) \/ Revise(r, c, actor) \/ DemoteAndRevise(r, c, actor)
    PROVE  \A q \in Rows : row'[q].status = "approved" => row[q].status = "approved"
<1>0. row \in [Rows -> Listing] /\ Len(log) \in Nat
  BY DEF TypeOK
<1>1. CASE Enter(r, c, actor)
  <2> DEFINE draft == [NoListing EXCEPT !.status = "draft", !.content = c]
             entry == Transition(r, "draft", "needs_review", actor, Null)
  <2>1. draft \in Listing /\ entry \in LogEntry /\ entry.to = "needs_review" /\ entry.to \in Statuses
    <3>1. draft \in Listing
      BY DEF NoListing, Listing, Statuses
    <3>2. "draft" \in Statuses /\ "needs_review" \in Statuses
      BY DEF Statuses
    <3>3. entry \in LogEntry /\ entry.to = "needs_review"
      BY <3>2, TransitionType
    <3> QED BY <3>1, <3>2, <3>3
  <2>2. row' = [row EXCEPT ![r] = Applied(draft, entry, Len(log) + 2)]
    BY <1>1 DEF Enter
  <2> HIDE DEF draft, entry
  <2>3. Applied(draft, entry, Len(log) + 2).status = "needs_review"
    BY <1>0, <2>1, AppliedType
  <2> QED BY <1>0, <2>2, <2>3
<1>2. CASE Revise(r, c, actor)
  BY <1>0, <1>2 DEF Revise, Listing
<1>3. CASE DemoteAndRevise(r, c, actor)
  <2> DEFINE entry == Transition(r, "approved", "needs_review", actor, Null)
             rec == Applied(row[r], entry, Len(log) + 1)
  <2>1. entry \in LogEntry /\ entry.to = "needs_review" /\ entry.to \in Statuses
    BY TransitionType DEF Statuses
  <2>2. row' = [row EXCEPT ![r] = [rec EXCEPT !.content = c]]
    BY <1>3 DEF DemoteAndRevise
  <2> HIDE DEF entry
  <2>3. rec \in Listing /\ rec.status = "needs_review"
    BY <1>0, <2>1, AppliedType
  <2> HIDE DEF rec
  <2>4. [rec EXCEPT !.content = c].status = "needs_review"
    BY <2>3 DEF Listing
  <2> QED BY <1>0, <2>2, <2>4
<1> QED BY <1>1, <1>2, <1>3

\* Only the automatic approval's batch approves under a rule.
LEMMA OnlyAutoApproves ==
    ASSUME DeskTypeOK, [DeskNext]_deskVars, NEW e \in Events, RuleApproves(e)
    PROVE  AutoApprove(e) /\ Move(e, "needs_review", "approved", AutoApprover, Rule)
<1>0. /\ TypeOK /\ e \in Rows /\ Events \subseteq Rows /\ Scout \in Actors /\ [Next]_ledgerVars
      /\ row[e].status # "approved" /\ row'[e].status = "approved" /\ row'[e].approvalRule # Null
      /\ row \in [Rows -> Listing]
  BY ClientsKnown, DeskStepImplements DEF DeskTypeOK, RuleApproves, TypeOK
<1>1. row' # row
  BY <1>0
<1>2. ASSUME NEW a \in Reviewers, Console(a) PROVE FALSE
  <2>1. BatchBy(a)
    BY <1>1, <1>2, ConsoleStep DEF ledgerVars
  <2> QED BY <1>0, <2>1, PeopleNameNoRule
<1>3. ~ Upsert
  <2> SUFFICES ASSUME Upsert PROVE FALSE
    OBVIOUS
  <2>1. scout.row \in Events /\ scout.draft \in Contents
    <3>1. scout.phase = "crawl" /\ scout.job = "upsert"
      BY DEF Upsert
    <3>2. scout \in Upserts
      BY <3>1 DEF DeskTypeOK, LinkChecks, Approvals, NoJob
    <3> QED BY <3>2 DEF Upserts
  <2>2. \/ Enter(scout.row, scout.draft, Scout)
        \/ Revise(scout.row, scout.draft, Scout)
        \/ DemoteAndRevise(scout.row, scout.draft, Scout)
        \/ UNCHANGED ledgerVars
    BY DEF Upsert
  <2> QED BY <1>0, <1>1, <2>1, <2>2, UpsertApprovesNone DEF ledgerVars
<1>4. ASSUME NEW f \in Events, LinkDead(f) PROVE FALSE
  <2> DEFINE entry == Transition(f, "approved", "needs_review", LinkChecker, Null)
  <2>1. Move(f, "approved", "needs_review", LinkChecker, Null)
    BY <1>1, <1>4 DEF LinkDead, ledgerVars
  <2>2. row' = [row EXCEPT ![f] = Applied(row[f], entry, Len(log) + 1)]
    BY <2>1 DEF Move
  <2>3. entry \in LogEntry /\ entry.to = "needs_review" /\ entry.to \in Statuses
    BY <1>0, ClientsKnown, TransitionType DEF Statuses
  <2> HIDE DEF entry
  <2>4. Applied(row[f], entry, Len(log) + 1).status = "needs_review"
    BY <1>0, <2>3, AppliedType DEF TypeOK
  <2> QED BY <1>0, <2>2, <2>4
<1>5. ASSUME NEW f \in Events, AutoApprove(f)
      PROVE  AutoApprove(e) /\ Move(e, "needs_review", "approved", AutoApprover, Rule)
  <2>1. Move(f, "needs_review", "approved", AutoApprover, Rule)
    BY <1>1, <1>5 DEF AutoApprove, ledgerVars
  <2>2. f = e
    BY <1>0, <2>1, AutoApproveShape
  <2> QED BY <1>5, <2>1, <2>2
<1>6. CASE \/ \E f \in Events : \/ \E c \in Contents : LoadExisting(f, c)
                                \/ LinkKept(f) \/ CompareTwins(f)
           \/ LoadLinks \/ LoadCandidates \/ EndCycle
  BY <1>1, <1>6 DEF LoadExisting, LinkKept, CompareTwins, LoadLinks, LoadCandidates, EndCycle, ledgerVars
<1>7. ~ Operator /\ ~ (\E f \in Events : Verify(f)) /\ ~ UNCHANGED deskVars
  BY <1>1 DEF Operator, SwitchRule, SwitchReviewer, Verify, ledgerVars, deskVars
<1> QED BY <1>2, <1>3, <1>4, <1>5, <1>6, <1>7 DEF DeskNext, Crawl

\* An automatic approval, undisturbed since the candidates were read, is of a
\* row that passes every check, that no person sent back and that has no twin
\* (autoapprove.js): although each candidate is compared and approved in awaits
\* of its own, the run's own approvals never invalidate what it read.
THEOREM ApprovalsAreAsJudged == DeskSpec => ApprovedAsJudged
<1> DEFINE AsJudged ==
      \A e \in Events :
          RuleApproves(e) /\ (\A i \in (scout.since + 1)..Len(log) : log[i].actor = AutoApprover) =>
              /\ row'[e].content \in Passing
              /\ ~ SentBack(e)
              /\ ~ HasTwin(e, row[e].content)
<1>1. DeskInit => JudgementsHold
  BY DEF DeskInit, JudgementsHold, NoJob
<1>2. DeskTypeOK /\ JudgementsHold /\ [DeskNext]_deskVars => JudgementsHold'
  BY JudgementsStep
<1>3. DeskTypeOK /\ JudgementsHold /\ [DeskNext]_deskVars => AsJudged
  <2> SUFFICES ASSUME DeskTypeOK, JudgementsHold, [DeskNext]_deskVars,
                      NEW e \in Events, RuleApproves(e), Undisturbed
               PROVE  /\ row'[e].content \in Passing
                      /\ ~ SentBack(e)
                      /\ ~ HasTwin(e, row[e].content)
    BY DEF Undisturbed
  <2>1. AutoApprove(e) /\ Move(e, "needs_review", "approved", AutoApprover, Rule)
    BY OnlyAutoApproves
  <2>2. scout.phase = "approve" /\ scout.at = e /\ scout.at # Null
    BY <2>1, LedgerAssumption DEF AutoApprove
  <2>3. Judged(e) /\ ~ HasTwin(e, row[e].content)
    BY <2>2 DEF JudgementsHold
  <2>4. row'[e].content = row[e].content
    BY <2>1, AutoApproveShape DEF DeskTypeOK
  <2> QED BY <2>3, <2>4 DEF Judged
<1> QED BY <1>1, <1>2, <1>3, DeskTypeCorrect, PTL DEF DeskSpec, ApprovedAsJudged

=============================================================================
