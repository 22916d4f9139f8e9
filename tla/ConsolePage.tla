----------------------------- MODULE ConsolePage -----------------------------
(***************************************************************************)
(* The reviewer's page (src/console/public/app.js) and the little of the    *)
(* console's server it can see (src/console/src/data.js).                   *)
(*                                                                         *)
(* The page keeps a copy of the queue, an index into it, and the detail of  *)
(* one row, which is all that is drawn.  The index moves at once, the       *)
(* detail follows when its answer comes, and answers come late, in any      *)
(* order, or not at all: each request is dropped after fifteen seconds,     *)
(* whatever the server made of it.  A call the page has given up on may     *)
(* still be served.                                                        *)
(*                                                                         *)
(* A row is a name, its facts are one value of Contents; the queue keeps    *)
(* the fixed order Order.  A read is answered with the state of the moment  *)
(* it arrives.  The server's handlers are one step each here; ReviewDesk    *)
(* takes them apart.                                                       *)
(***************************************************************************)
EXTENDS Naturals, FiniteSets, SequencesExt

CONSTANTS
  Rows, NoRow,            \* events, and the lack of one
  Order,                  \* the rows in the order of the queue
  Waiting, Found,         \* the rows waiting at the start, and what they say
  Contents, NoContent,    \* what a row may say, and the lack of it
  Plain,                  \* contents with every critical field confirmed
  Blocked,                \* contents without a registration link
  Similar,                \* pairs of rows that look like duplicates
  MaxTasks,               \* requests the page has in flight at once
  MaxKeys,                \* keys the reviewer presses
  MaxLate,                \* given-up calls still on their way
  MaxOthers               \* moves of everybody else

ASSUME PageAssumption ==
  /\ Waiting \subseteq Rows /\ NoRow \notin Rows
  /\ Order \in Seq(Rows) /\ ToSet(Order) = Rows /\ IsInjective(Order)
  /\ Plain \subseteq Contents /\ Blocked \subseteq Contents \ Plain
  /\ NoContent \notin Contents /\ Found \in [Rows -> Contents]
  /\ Similar \subseteq Rows \X Rows
  /\ MaxTasks \in Nat \ {0} /\ MaxKeys \in Nat
  /\ MaxLate \in Nat /\ MaxOthers \in Nat

VARIABLES
  status, content, cleared, moves, mine,      \* the server's rows and log
  rows, idx, detail, decisions,               \* the page's copies
  mode, overlay, form, busy,                  \* the page's own state
  tasks, late,                                \* requests in flight
  keys, others, alone, clean                  \* bounds and history

server == <<status, content, cleared, moves, mine>>
copies == <<rows, idx, detail, decisions>>
screen == <<mode, overlay, form, busy>>
net    == <<tasks, late>>
hist   == <<keys, others, alone, clean>>
vars   == <<server, copies, screen, net, hist>>

-----------------------------------------------------------------------------
(* The server.                                                             *)

Statuses == {"absent", "needs_review", "approved", "rejected"}
Ops == {"approve", "approve_deliberately", "reject", "merge", "distinct",
        "undo", "edit", "add"}
Decisions == {"approve", "approve_deliberately", "reject", "merge",
              "distinct", "edit"}

\* queue: rows waiting for review, in order.
WaitingUpTo[n \in 0..Len(Order)] ==
  IF n = 0 THEN <<>>
  ELSE IF status[Order[n]] = "needs_review" THEN Append(WaitingUpTo[n - 1], Order[n])
  ELSE WaitingUpTo[n - 1]
Queue == WaitingUpTo[Len(Order)]

\* candidatesFor and duplicateState
Candidates(r) ==
  {q \in Rows : <<r, q>> \in Similar /\ status[q] \notin {"absent", "rejected"}}
Unresolved(r) == Candidates(r) \ cleared[r]

\* rowDetail: what the page is given to draw.
RowDetail(r) == [row |-> r, content |-> content[r], dups |-> Unresolved(r)]
NoDetail     == [row |-> NoRow, content |-> NoContent, dups |-> {}]

\* approvalEligibility, of a detail
IsPlain(d) == d.content \in Plain /\ d.dups = {}

\* One POST; the fields an operation does not use are empty.
Call(op, r) == [op |-> op, row |-> r, into |-> NoRow, typed |-> NoContent, n |-> 0]
NoCall == Call("none", NoRow)

\* Mutant: a decision is not asked whether the row still waits.
DecideAllowsAnyStatus(c) == content[c.row] \notin Blocked

\* decide: the status is asked for first, an approval also asks the rules.
DecideAllows(c) ==
  /\ status[c.row] = "needs_review"
  /\ c.op \in {"approve", "approve_deliberately"} => content[c.row] \notin Blocked
  /\ c.op = "approve" => IsPlain(RowDetail(c.row))

\* resolveDuplicate
DuplicateAllows(c) ==
  /\ status[c.row] = "needs_review"
  /\ c.op = "merge" => c.into \in Candidates(c.row)
  /\ c.op = "distinct" => Candidates(c.row) # {}

\* editEvent
EditAllows(c) == status[c.row] = "needs_review"

\* undoDecision: the reviewer's own decision, and the row's latest move.
UndoAllows(c) ==
  /\ <<c.row, c.n>> \in mine
  /\ moves[c.row] = c.n /\ status[c.row] \in {"approved", "rejected"}

Allowed(c) ==
  CASE c.op \in {"approve", "approve_deliberately", "reject"} -> DecideAllows(c)
    [] c.op \in {"merge", "distinct"} -> DuplicateAllows(c)
    [] c.op = "edit" -> EditAllows(c)
    [] c.op = "undo" -> UndoAllows(c)
    [] c.op = "add"  -> status[c.row] = "absent"

\* transition: a row of review_log; mine are the reviewer's decisions in it.
Transition(r, to) ==
  /\ status' = [status EXCEPT ![r] = to]
  /\ moves'  = [moves EXCEPT ![r] = @ + 1]

Decided(r, to) ==
  Transition(r, to) /\ mine' = mine \cup {<<r, moves[r] + 1>>}
                    /\ UNCHANGED <<content, cleared>>

\* The batch of an allowed call.
Apply(c) ==
  \/ /\ c.op \in {"approve", "approve_deliberately"}
     /\ Decided(c.row, "approved")
  \/ /\ c.op \in {"reject", "merge"}
     /\ Decided(c.row, "rejected")
  \/ /\ c.op = "distinct"
     /\ cleared' = [cleared EXCEPT ![c.row] = Candidates(c.row)]
     /\ UNCHANGED <<status, content, moves, mine>>
  \/ /\ c.op = "edit"
     /\ content' = [content EXCEPT ![c.row] = IF c.typed = NoContent THEN @ ELSE c.typed]
     /\ UNCHANGED <<status, cleared, moves, mine>>
  \/ /\ c.op = "undo"
     /\ Transition(c.row, "needs_review")
     /\ UNCHANGED <<content, cleared, mine>>
  \/ /\ c.op = "add"
     /\ Transition(c.row, "needs_review")
     /\ content' = [content EXCEPT ![c.row] = c.typed]
     /\ UNCHANGED <<cleared, mine>>

Handle(c) == IF Allowed(c) THEN Apply(c) ELSE UNCHANGED server

-----------------------------------------------------------------------------
(* The page's own functions.                                               *)

Modes == {"loading", "queue", "edit", "reject", "undo", "add", "merge", "discard"}
NoTask == [kind |-> "none", step |-> "none", call |-> NoCall, row |-> NoRow]
Guarded == {"act", "save"}

CurrentRow == IF idx <= Len(rows) THEN rows[idx] ELSE NoRow
HasRow     == CurrentRow # NoRow /\ detail # NoDetail
Idle       == \A t \in 1..MaxTasks : tasks[t] = NoTask

\* renderMain: in edit mode the fields are filled from the detail.
Drawn(rs, d, m) == IF m = "edit" /\ rs # <<>> THEN d.content ELSE NoContent

\* editedFields: something on the form differs from the detail.
Typed == form # NoContent /\ form # detail.content

Start(task) ==
  \E t \in 1..MaxTasks :
    /\ tasks[t] = NoTask /\ \A u \in 1..(t - 1) : tasks[u] # NoTask
    /\ tasks' = [tasks EXCEPT ![t] = task]
    /\ alone' = Idle /\ UNCHANGED <<late, clean>>

\* Mutant: busy is released by the last answer only, not in "finally".
FinishOnAnswer(t) ==
  /\ tasks' = [tasks EXCEPT ![t] = NoTask]
  /\ busy' = (busy /\ tasks[t].step # "detail")

\* The end of a request chain; act and saveEdit release busy in "finally".
Finish(t) ==
  /\ tasks' = [tasks EXCEPT ![t] = NoTask]
  /\ busy' = IF tasks[t].kind \in Guarded THEN FALSE ELSE busy

CloseOverlay == overlay' = FALSE /\ mode' = "queue"
ShowOverlay(m) == overlay' = TRUE /\ mode' = m

\* Mutant: act does not look at busy.
ActWhileBusy(c) ==
  IF c.row = NoRow
    THEN UNCHANGED <<busy, net, alone, clean>>
    ELSE busy' = TRUE /\ Start([NoTask EXCEPT !.kind = "act", !.step = "post", !.call = c])

\* act: nothing while another action runs, or with no row to act on.
Act(c) ==
  IF busy \/ c.row = NoRow
    THEN UNCHANGED <<busy, net, alone, clean>>
    ELSE busy' = TRUE /\ Start([NoTask EXCEPT !.kind = "act", !.step = "post", !.call = c])

\* saveEdit: the drawn fields go to the current row.
SaveEdit ==
  /\ ~busy /\ CurrentRow # NoRow /\ busy' = TRUE
  /\ Start([NoTask EXCEPT !.kind = "save", !.step = "post",
                          !.call = [Call("edit", CurrentRow) EXCEPT !.typed = form]])

\* refreshDetail of the row the index points to
RefreshDetail ==
  Start([NoTask EXCEPT !.kind = "load", !.step = "detail", !.row = rows'[idx']])

-----------------------------------------------------------------------------
(* Keys.                                                                   *)

Press ==
  /\ keys < MaxKeys /\ keys' = keys + 1
  /\ UNCHANGED <<server, others>>

KeyApprove(deliberate) ==
  /\ Press /\ mode = "queue" /\ HasRow /\ ~busy
  /\ detail.content \notin Blocked
  /\ deliberate \/ IsPlain(detail)
  /\ Act(Call(IF deliberate THEN "approve_deliberately" ELSE "approve", CurrentRow))
  /\ UNCHANGED <<copies, mode, overlay, form>>

OpenReject ==
  /\ Press /\ mode = "queue" /\ HasRow
  /\ ShowOverlay("reject")
  /\ UNCHANGED <<copies, form, busy, net, alone, clean>>

Reject ==
  /\ Press /\ mode = "reject"
  /\ CloseOverlay
  /\ Act(Call("reject", CurrentRow))
  /\ UNCHANGED <<copies, form>>

Merge(into) ==
  /\ CloseOverlay
  /\ Act([Call("merge", CurrentRow) EXCEPT !.into = into])
  /\ UNCHANGED <<copies, form>>

\* M merges at once into the only candidate, or asks which.
KeyMerge ==
  /\ Press /\ mode = "queue" /\ HasRow /\ detail.dups # {}
  /\ IF Cardinality(detail.dups) = 1
       THEN \E q \in detail.dups : Merge(q)
       ELSE ShowOverlay("merge") /\ UNCHANGED <<copies, form, busy, net, alone, clean>>

MergeInto ==
  /\ Press /\ mode = "merge"
  /\ \E q \in detail.dups : Merge(q)

KeyDistinct ==
  /\ Press /\ mode = "queue" /\ HasRow /\ detail.dups # {}
  /\ Act(Call("distinct", CurrentRow))
  /\ UNCHANGED <<copies, mode, overlay, form>>

\* U asks for the decisions; the panel opens when they come.
OpenUndo ==
  /\ Press /\ mode = "queue"
  /\ Start([NoTask EXCEPT !.kind = "undo_list", !.step = "decisions"])
  /\ UNCHANGED <<copies, screen>>

Undo ==
  /\ Press /\ mode = "undo"
  /\ \E d \in decisions : Act([Call("undo", d[1]) EXCEPT !.n = d[2]])
  /\ CloseOverlay
  /\ UNCHANGED <<copies, form>>

KeyEdit ==
  /\ Press /\ mode = "queue" /\ HasRow
  /\ mode' = "edit" /\ form' = Drawn(rows, detail, "edit")
  /\ UNCHANGED <<copies, overlay, busy, net, alone, clean>>

\* Typing is not counted against MaxKeys.
TypeIn ==
  /\ form # NoContent /\ ~overlay
  /\ \E c \in Contents \ {form} : form' = c
  /\ UNCHANGED <<server, copies, mode, overlay, busy, net, hist>>

\* Enter, the Save button, or S in the discard panel (keepEditing first).
KeySave ==
  /\ Press
  /\ \/ mode = "edit" /\ UNCHANGED <<mode, overlay>>
     \/ mode = "discard" /\ mode' = "edit" /\ overlay' = FALSE
  /\ SaveEdit
  /\ UNCHANGED <<copies, form>>

DiscardEdit ==
  /\ Press /\ mode = "discard"
  /\ CloseOverlay /\ form' = Drawn(rows, detail, "queue")
  /\ UNCHANGED <<copies, busy, net, alone, clean>>

\* cancelEdit: leave quietly when nothing was typed, else ask.
CancelEdit ==
  IF Typed THEN ShowOverlay("discard") /\ UNCHANGED form
           ELSE mode' = "queue" /\ form' = Drawn(rows, detail, "queue")
                /\ UNCHANGED overlay

Escape ==
  /\ Press
  /\ \/ mode = "discard" /\ mode' = "edit" /\ overlay' = FALSE /\ UNCHANGED form
     \/ mode = "edit" /\ CancelEdit
     \/ mode \notin {"discard", "edit"} /\ overlay /\ CloseOverlay /\ UNCHANGED form
  /\ UNCHANGED <<copies, busy, net, alone, clean>>

OpenAdd ==
  /\ Press /\ mode = "queue"
  /\ ShowOverlay("add")
  /\ UNCHANGED <<copies, form, busy, net, alone, clean>>

\* submitAdd: not guarded by busy; each answered post makes a row of its own.
SubmitAdd ==
  /\ Press /\ mode = "add"
  /\ \E r \in Rows, c \in Contents \ Plain :
       /\ status[r] = "absent"
       /\ \A t \in 1..MaxTasks : tasks[t].call.row # r
       /\ \A l \in late : l.row # r
       /\ Start([NoTask EXCEPT !.kind = "add", !.step = "post",
                               !.call = [Call("add", r) EXCEPT !.typed = c]])
  /\ UNCHANGED <<copies, screen>>

\* J and K: the index moves now, the detail when it comes.
Move ==
  /\ Press /\ mode = "queue" /\ rows # <<>>
  /\ \/ idx' = (idx % Len(rows)) + 1
     \/ idx' = IF idx = 1 THEN Len(rows) ELSE idx - 1
  /\ UNCHANGED rows /\ RefreshDetail
  /\ UNCHANGED <<detail, decisions, screen>>

\* Mutant: the skipped row's facts stay on the screen.
SkipUndrawn ==
  /\ Press /\ mode = "queue" /\ HasRow /\ Len(rows) >= 2
  /\ rows' = Append(RemoveAt(rows, idx), rows[idx])
  /\ UNCHANGED <<idx, detail, decisions, screen, net, alone, clean>>

Skip ==
  /\ Press /\ mode = "queue" /\ HasRow /\ Len(rows) >= 2
  /\ rows' = Append(RemoveAt(rows, idx), rows[idx])
  /\ UNCHANGED idx /\ RefreshDetail
  /\ UNCHANGED <<detail, decisions, screen>>

Key ==
  \/ \E deliberate \in BOOLEAN : KeyApprove(deliberate)
  \/ OpenReject \/ Reject \/ KeyMerge \/ MergeInto \/ KeyDistinct
  \/ OpenUndo \/ Undo \/ KeyEdit \/ TypeIn \/ KeySave \/ DiscardEdit
  \/ Escape \/ OpenAdd \/ SubmitAdd \/ Move \/ Skip

-----------------------------------------------------------------------------
(* Answers, failures, and everybody else.                                  *)

Advance(t, step, r) ==
  tasks' = [tasks EXCEPT ![t].step = step, ![t].row = r]

\* The server handles a post the page still waits for.
Served(t) ==
  /\ tasks[t].step = "post"
  /\ Handle(tasks[t].call)
  /\ Advance(t, IF Allowed(tasks[t].call) THEN "accepted" ELSE "refused", NoRow)
  /\ UNCHANGED <<copies, screen, late, hist>>

\* The page hears of it: act, saveEdit and submitAdd go on to refresh.
Accepted(t) ==
  /\ tasks[t].step = "accepted"
  /\ CASE tasks[t].kind = "act"  -> UNCHANGED <<mode, overlay>>
       [] tasks[t].kind = "save" -> mode' = "queue" /\ UNCHANGED overlay
       [] tasks[t].kind = "add"  -> CloseOverlay
  /\ Advance(t, "overview", NoRow)
  /\ UNCHANGED <<server, copies, form, busy, late, hist>>

\* A post refused, or given up on after fifteen seconds.
PostFails(t) ==
  /\ tasks[t].step \in {"post", "accepted", "refused"}
  /\ late' \in {late} \cup IF tasks[t].step = "post" /\ Cardinality(late) < MaxLate
                             THEN {late \cup {tasks[t].call}} ELSE {}
  /\ Finish(t)
  /\ UNCHANGED <<server, copies, mode, overlay, form, hist>>

\* Mutant: the index is kept as it was, beyond the end of a shorter queue.
OverviewUnclipped(t) ==
  LET shown == IF idx <= Len(Queue) THEN idx ELSE Len(Queue)
  IN /\ tasks[t].step = "overview"
     /\ rows' = Queue /\ idx' = idx
     /\ IF Queue = <<>>
          THEN /\ detail' = NoDetail /\ form' = Drawn(<<>>, NoDetail, mode)
               /\ Finish(t) /\ clean' = alone
          ELSE /\ Advance(t, "detail", Queue[shown])
               /\ UNCHANGED <<detail, form, busy, clean>>
     /\ UNCHANGED <<server, decisions, mode, overlay, late, keys, others, alone>>

\* refresh, first answer: the new queue, the index kept inside it.
OverviewArrives(t) ==
  LET focus == IF tasks[t].kind \in {"save", "add"} THEN tasks[t].call.row ELSE NoRow
      kept  == IF focus \in ToSet(Queue)
                 THEN CHOOSE i \in 1..Len(Queue) : Queue[i] = focus ELSE idx
      next  == IF kept <= Len(Queue) THEN kept ELSE IF Queue = <<>> THEN 1 ELSE Len(Queue)
  IN /\ tasks[t].step = "overview"
     /\ rows' = Queue /\ idx' = next
     /\ IF Queue = <<>>
          THEN /\ detail' = NoDetail /\ form' = Drawn(<<>>, NoDetail, mode)
               /\ Finish(t) /\ clean' = alone
          ELSE /\ Advance(t, "detail", Queue[next])
               /\ UNCHANGED <<detail, form, busy, clean>>
     /\ UNCHANGED <<server, decisions, mode, overlay, late, keys, others, alone>>

\* refresh and refreshDetail, last answer: the detail, drawn at once.
DetailArrives(t) ==
  /\ tasks[t].step = "detail"
  /\ detail' = RowDetail(tasks[t].row)
  /\ form' = Drawn(rows, detail', mode)
  /\ Finish(t) /\ clean' = alone
  /\ UNCHANGED <<server, rows, idx, decisions, mode, overlay, late, keys, others, alone>>

DecisionsArrive(t) ==
  /\ tasks[t].step = "decisions"
  /\ decisions' = mine /\ ShowOverlay("undo")
  /\ Finish(t)
  /\ UNCHANGED <<server, rows, idx, detail, form, late, hist>>

\* A read that fails or is given up on leaves what was drawn.
LoadFails(t) ==
  /\ tasks[t].step \in {"overview", "detail", "decisions"}
  /\ Finish(t) /\ clean' = FALSE
  /\ UNCHANGED <<server, copies, mode, overlay, form, late, keys, others, alone>>

\* init: the session is known, the queue mode is set, the first refresh begins.
SessionArrives ==
  /\ mode = "loading" /\ mode' = "queue"
  /\ Start([NoTask EXCEPT !.kind = "init", !.step = "overview"])
  /\ UNCHANGED <<server, copies, overlay, form, busy, keys, others>>

\* A call the page gave up on reaches the server after all.
LateServed ==
  \E c \in late :
    /\ Handle(c) /\ late' = late \ {c}
    /\ UNCHANGED <<copies, screen, tasks, hist>>

\* Another reviewer, or the scout, moves or rewrites a row.
OthersMove ==
  /\ others < MaxOthers /\ others' = others + 1
  /\ \E r \in Rows :
       \/ /\ \/ status[r] = "needs_review"
                /\ \E to \in {"approved", "rejected"} : Transition(r, to)
             \/ status[r] = "absent" /\ Transition(r, "needs_review")
          /\ UNCHANGED <<content, cleared, mine>>
       \/ /\ status[r] = "needs_review"
          /\ \E c \in Contents \ {content[r]} : content' = [content EXCEPT ![r] = c]
          /\ UNCHANGED <<status, cleared, moves, mine>>
  /\ UNCHANGED <<copies, screen, net, keys, alone, clean>>

Answer(t) ==
  \/ Served(t) \/ Accepted(t) \/ PostFails(t)
  \/ OverviewArrives(t) \/ DetailArrives(t) \/ DecisionsArrive(t) \/ LoadFails(t)

Init ==
  /\ status = [r \in Rows |-> IF r \in Waiting THEN "needs_review" ELSE "absent"]
  /\ content = Found
  /\ cleared = [r \in Rows |-> {}] /\ moves = [r \in Rows |-> 0] /\ mine = {}
  /\ rows = <<>> /\ idx = 1 /\ detail = NoDetail /\ decisions = {}
  /\ mode = "loading" /\ overlay = FALSE /\ form = NoContent /\ busy = FALSE
  /\ tasks = [t \in 1..MaxTasks |-> NoTask] /\ late = {}
  /\ keys = 0 /\ others = 0 /\ alone = TRUE /\ clean = TRUE

Next ==
  \/ SessionArrives \/ Key \/ LateServed \/ OthersMove
  \/ \E t \in 1..MaxTasks : Answer(t)

\* Every request is answered or given up on: the fifteen-second timer.
Fairness == \A t \in 1..MaxTasks : WF_vars(Answer(t))

Spec == Init /\ [][Next]_vars /\ Fairness

-----------------------------------------------------------------------------
(* Properties.                                                             *)

Calls ==
  [op : Ops \cup {"none"}, row : Rows \cup {NoRow}, into : Rows \cup {NoRow},
   typed : Contents \cup {NoContent}, n : Nat]
Task ==
  [kind : {"none", "init", "act", "save", "add", "load", "undo_list"},
   step : {"none", "post", "accepted", "refused", "overview", "detail", "decisions"},
   call : Calls, row : Rows \cup {NoRow}]

\* Types; and the index never leaves the queue the page holds, so that a key
\* always finds a row while there is one (refresh, move and skip).
PageTypeOK ==
  /\ status \in [Rows -> Statuses] /\ content \in [Rows -> Contents]
  /\ cleared \in [Rows -> SUBSET Rows] /\ moves \in [Rows -> Nat]
  /\ mine \subseteq Rows \X Nat /\ decisions \subseteq Rows \X Nat
  /\ rows \in Seq(Rows) /\ IsInjective(rows)
  /\ idx \in 1..(IF rows = <<>> THEN 1 ELSE Len(rows))
  /\ detail \in [row : Rows \cup {NoRow}, content : Contents \cup {NoContent},
                 dups : SUBSET Rows]
  /\ mode \in Modes /\ overlay \in BOOLEAN /\ busy \in BOOLEAN
  /\ form \in Contents \cup {NoContent}
  /\ tasks \in [1..MaxTasks -> Task] /\ late \subseteq Calls
  /\ keys \in 0..MaxKeys /\ others \in 0..MaxOthers
  /\ alone \in BOOLEAN /\ clean \in BOOLEAN

\* The page is busy exactly while one decision or save is under way: act and
\* saveEdit share the flag, and every way out of either releases it.
BusyIsOneJob ==
  Cardinality({t \in 1..MaxTasks : tasks[t].kind \in Guarded}) = IF busy THEN 1 ELSE 0

\* Once nothing is in flight the facts drawn are those of the row the keys
\* act on, provided the last load came through and nothing overlapped it.
SettledShowsCurrent ==
  Idle /\ clean => detail.row = CurrentRow

\* Between two decisions of one row it went back to the queue: a key pressed
\* again after "Nothing was saved", a call served late and another reviewer's
\* move never decide one stay in the queue twice (requireStatus in decide).
OneDecisionPerStay ==
  \A d, e \in mine : d[1] = e[1] /\ d[2] < e[2] => d[2] + 1 < e[2]

\* A busy page is free again: every request is answered or given up on, and
\* the flag is released however the chain ends (act, saveEdit).
BusyEnds == busy ~> ~busy

\* A reviewer who lets every request end before the next key decides or saves
\* the row whose facts are drawn.
DecidesOnSight ==
  [][\A t \in 1..MaxTasks :
       Idle /\ alone /\ tasks'[t].step = "post" /\ tasks'[t].call.op \in Decisions
         => tasks'[t].call.row = detail.row]_vars
=============================================================================
