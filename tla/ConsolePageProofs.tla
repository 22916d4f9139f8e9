--------------------------- MODULE ConsolePageProofs ---------------------------
(***************************************************************************)
(* What the reviewer's page guarantees for any number of rows, requests in  *)
(* flight, keys, late calls and moves of others, and any order of answers.  *)
(***************************************************************************)
EXTENDS ConsolePage, CountingProofs, SequenceTheorems, FiniteSetTheorems

-----------------------------------------------------------------------------
(* The queue                                                               *)

\* A list of rows, none of them twice.
IsList(s) == s \in Seq(Rows) /\ \A i, j \in 1..Len(s) : s[i] = s[j] => i = j

LEMMA OrderIsList ==
  /\ Order \in Seq(Rows) /\ Len(Order) \in Nat
  /\ \A i \in 1..Len(Order) : Order[i] \in Rows
  /\ \A i, j \in 1..Len(Order) : Order[i] = Order[j] => i = j
<1>1. Order \in Seq(Rows) /\ IsInjective(Order)
  BY PageAssumption
<1>2. DOMAIN Order = 1..Len(Order)
  BY <1>1
<1> QED BY <1>1, <1>2 DEF IsInjective

\* The recursive definition has the meaning it seems to have.
LEMMA QueueEquation ==
  \A n \in 0..Len(Order) :
    WaitingUpTo[n] =
      IF n = 0 THEN <<>>
      ELSE IF status[Order[n]] = "needs_review" THEN Append(WaitingUpTo[n - 1], Order[n])
      ELSE WaitingUpTo[n - 1]
<1> DEFINE N == Len(Order)
           E(f, n) == IF n = 0 THEN <<>>
                      ELSE IF status[Order[n]] = "needs_review" THEN Append(f[n - 1], Order[n])
                      ELSE f[n - 1]
           step == [p \in Seq(Rows) \X (1..N) |->
                      IF status[Order[p[2]]] = "needs_review" THEN Append(p[1], Order[p[2]]) ELSE p[1]]
<1>0. N \in Nat
  BY OrderIsList
<1>1. PICK g : UpTo(g, N, <<>>, step)
  <2> HIDE DEF step
  <2> QED BY <1>0, UpToExists
<1>2. \A i \in 0..N : g[i] = IF i = 0 THEN <<>> ELSE step[<<g[i - 1], i>>]
  <2> HIDE DEF step, N
  <2> QED BY <1>1 DEF UpTo
<1>3. \A i \in 0..N : g[i] \in Seq(Rows)
  <2> DEFINE T == {i \in Nat : i <= N => g[i] \in Seq(Rows)}
  <2>1. 0 \in T
    <3>1. 0 \in 0..N
      BY <1>0
    <3>2. g[0] = <<>>
      BY <1>2, <3>1
    <3> QED BY <3>2, EmptySeq
  <2>2. ASSUME NEW i \in Nat, i \in T PROVE i + 1 \in T
    <3>1. SUFFICES ASSUME i + 1 <= N PROVE g[i + 1] \in Seq(Rows)
      OBVIOUS
    <3>2. i + 1 \in 0..N /\ i + 1 \in 1..N /\ i + 1 # 0 /\ (i + 1) - 1 = i
      BY <1>0, <3>1
    <3>3. g[i] \in Seq(Rows)
      BY <2>2, <1>0, <3>1
    <3>4. g[i + 1] = step[<<g[i], i + 1>>]
      <4> HIDE DEF step
      <4> QED BY <1>2, <3>2
    <3>5. step[<<g[i], i + 1>>] =
            IF status[Order[i + 1]] = "needs_review" THEN Append(g[i], Order[i + 1]) ELSE g[i]
      BY <3>2, <3>3
    <3>6. Order[i + 1] \in Rows
      BY <3>2, OrderIsList
    <3>7. Append(g[i], Order[i + 1]) \in Seq(Rows)
      BY <3>3, <3>6, AppendProperties
    <3> HIDE DEF step
    <3> QED BY <3>3, <3>4, <3>5, <3>7
  <2> HIDE DEF T
  <2>3. Nat \subseteq T
    BY <2>1, <2>2, CountUp
  <2> QED BY <2>3, <1>0 DEF T
<1>4. \A i \in 0..N : g[i] = E(g, i)
  <2>1. SUFFICES ASSUME NEW i \in 0..N, i # 0 PROVE g[i] = E(g, i)
    BY <1>2
  <2>2. i - 1 \in 0..N /\ i \in 1..N
    BY <1>0, <2>1
  <2>3. g[i] = step[<<g[i - 1], i>>] /\ g[i - 1] \in Seq(Rows)
    <3> HIDE DEF step
    <3> QED BY <1>2, <1>3, <2>1, <2>2
  <2>4. step[<<g[i - 1], i>>] =
          IF status[Order[i]] = "needs_review" THEN Append(g[i - 1], Order[i]) ELSE g[i - 1]
    BY <2>2, <2>3
  <2> QED BY <2>1, <2>3, <2>4
<1>5. g = [n \in 0..N |-> E(g, n)]
  <2>1. g = [i \in 0..N |-> g[i]]
    <3> HIDE DEF step, N
    <3> QED BY <1>1 DEF UpTo
  <2> HIDE DEF E
  <2> QED BY <1>4, <2>1
<1>6. WaitingUpTo = CHOOSE f : f = [n \in 0..N |-> E(f, n)]
  BY DEF WaitingUpTo
<1>7. WaitingUpTo = [n \in 0..N |-> E(WaitingUpTo, n)]
  <2> HIDE DEF E, N
  <2> QED BY <1>5, <1>6
<1>8. ASSUME NEW n \in 0..N PROVE WaitingUpTo[n] = E(WaitingUpTo, n)
  <2> HIDE DEF E, N
  <2> QED BY <1>7
<1> QED BY <1>8

\* The queue is a list of rows.
LEMMA QueueIsList == IsList(Queue)
<1> DEFINE N == Len(Order)
           W == WaitingUpTo
           Good(n) == /\ W[n] \in Seq(Rows)
                      /\ \A i \in 1..Len(W[n]) : \E k \in 1..n : W[n][i] = Order[k]
                      /\ \A i, j \in 1..Len(W[n]) : W[n][i] = W[n][j] => i = j
           T == {n \in Nat : n <= N => Good(n)}
<1>0. N \in Nat
  BY OrderIsList
<1>1. 0 \in T
  <2>1. W[0] = <<>>
    BY <1>0, QueueEquation
  <2>2. W[0] \in Seq(Rows) /\ Len(W[0]) = 0
    BY <2>1, EmptySeq
  <2> HIDE DEF W
  <2> QED BY <2>2
<1>2. ASSUME NEW n \in Nat, n \in T PROVE n + 1 \in T
  <2>1. SUFFICES ASSUME n + 1 <= N PROVE Good(n + 1)
    OBVIOUS
  <2>2. n + 1 \in 0..N /\ n + 1 \in 1..N /\ n + 1 # 0 /\ (n + 1) - 1 = n
    BY <1>0, <2>1
  <2>3. Good(n)
    BY <1>0, <1>2, <2>1
  <2>4. W[n + 1] = IF status[Order[n + 1]] = "needs_review" THEN Append(W[n], Order[n + 1]) ELSE W[n]
    BY <2>2, QueueEquation
  <2>5. CASE W[n + 1] = W[n]
    BY <2>3, <2>5
  <2>6. CASE W[n + 1] = Append(W[n], Order[n + 1])
    <3> DEFINE m == Len(W[n])
               s == W[n + 1]
    <3>1. Order[n + 1] \in Rows
      BY <2>2, OrderIsList
    <3>2. /\ s \in Seq(Rows) /\ Len(s) = m + 1 /\ m \in Nat
          /\ \A i \in 1..m : s[i] = W[n][i]
          /\ s[m + 1] = Order[n + 1]
      BY <2>3, <2>6, <3>1, AppendProperties
    <3>3. \A i \in 1..m : \E k \in 1..n : s[i] = Order[k]
      BY <2>3, <3>2
    <3>4. \A i \in 1..m : s[i] # Order[n + 1]
      <4> SUFFICES ASSUME NEW i \in 1..m, s[i] = Order[n + 1] PROVE FALSE
        OBVIOUS
      <4>1. PICK k \in 1..n : s[i] = Order[k]
        BY <3>3
      <4>2. k \in 1..N /\ k # n + 1
        BY <2>2
      <4> QED BY <2>2, <4>1, <4>2, OrderIsList
    <3>5. \A i \in 1..m : \A j \in 1..m : s[i] = s[j] => i = j
      BY <2>3, <3>2
    <3> HIDE DEF s, m
    <3>6. \A i \in 1..(m + 1) : i \in 1..m \/ i = m + 1
      BY <3>2
    <3>7. \A i \in 1..Len(s) : \E k \in 1..(n + 1) : s[i] = Order[k]
      BY <2>2, <3>2, <3>3, <3>6
    <3>8. \A i, j \in 1..Len(s) : s[i] = s[j] => i = j
      BY <3>2, <3>4, <3>5, <3>6
    <3> QED BY <3>2, <3>7, <3>8 DEF s
  <2> QED BY <2>4, <2>5, <2>6
<1>3. Nat \subseteq T
  <2> HIDE DEF T
  <2> QED BY <1>1, <1>2, CountUp
<1>4. Good(N)
  BY <1>0, <1>3
<1> QED BY <1>4 DEF Queue, IsList

-----------------------------------------------------------------------------
(* The inductive invariant, in parts                                       *)

\* A decision is not later than the row's latest move, and while the row waits
\* it is earlier.
Stays ==
  \A d \in mine : /\ d[2] <= moves[d[1]]
                  /\ status[d[1]] = "needs_review" => d[2] # moves[d[1]]

ServerOK ==
  /\ status \in [Rows -> Statuses] /\ content \in [Rows -> Contents]
  /\ cleared \in [Rows -> SUBSET Rows] /\ moves \in [Rows -> Nat]
  /\ mine \subseteq Rows \X Nat
  /\ Stays /\ OneDecisionPerStay

Details == [row : Rows \cup {NoRow}, content : Contents \cup {NoContent}, dups : SUBSET Rows]

CopiesOK ==
  /\ IsList(rows) /\ idx \in 1..(IF rows = <<>> THEN 1 ELSE Len(rows))
  /\ detail \in Details /\ decisions \subseteq Rows \X Nat

ScreenOK ==
  /\ mode \in Modes /\ overlay \in BOOLEAN /\ busy \in BOOLEAN
  /\ form \in Contents \cup {NoContent}

\* What is posted names a row and, where it brings one, its facts.
Sendable(c) ==
  c \in Calls /\ c.op \in Ops /\ c.row \in Rows /\ (c.op = "add" => c.typed \in Contents)

Wellformed(q) ==
  /\ q \in Task
  /\ q.step \in {"post", "accepted", "refused"} =>
       q.kind \in {"act", "save", "add"} /\ Sendable(q.call)
  /\ q.step = "detail" => q.row \in Rows

NetOK ==
  /\ tasks \in [1..MaxTasks -> Task] /\ \A t \in 1..MaxTasks : Wellformed(tasks[t])
  /\ \A c \in late : Sendable(c)
  /\ alone \in BOOLEAN /\ clean \in BOOLEAN

CountsOK == keys \in 0..MaxKeys /\ others \in 0..MaxOthers

\* busy stands for one request: the decision or save under way.
OneJob ==
  /\ \A t, u \in 1..MaxTasks :
       tasks[t].kind \in Guarded /\ tasks[u].kind \in Guarded => t = u
  /\ busy <=> \E t \in 1..MaxTasks : tasks[t].kind \in Guarded

\* alone: whatever is in flight started with nothing else under way.
OnlyTask ==
  alone => \A t, u \in 1..MaxTasks : tasks[t] # NoTask /\ tasks[u] # NoTask => t = u

\* A detail asked for alone is that of the row the index points to.
AlonePoints ==
  alone => \A t \in 1..MaxTasks : tasks[t].step = "detail" => tasks[t].row = CurrentRow

\* With no detail on its way, what a clean load has drawn is the current row.
CleanShows ==
  clean /\ (\A t \in 1..MaxTasks : tasks[t].step # "detail") => detail.row = CurrentRow

RequestsOK == NetOK /\ OneJob /\ OnlyTask /\ AlonePoints /\ CleanShows

PageInv == ServerOK /\ CopiesOK /\ ScreenOK /\ CountsOK /\ RequestsOK

-----------------------------------------------------------------------------
(* The server                                                              *)

LEMMA PageConstants ==
  /\ NoRow \notin Rows /\ NoContent \notin Contents
  /\ MaxTasks \in Nat /\ MaxTasks > 0 /\ MaxKeys \in Nat /\ MaxOthers \in Nat
  /\ Found \in [Rows -> Contents] /\ Waiting \subseteq Rows
  BY PageAssumption

LEMMA TransitionServer ==
  ASSUME ServerOK, NEW r \in Rows, NEW to \in Statuses, Transition(r, to),
         UNCHANGED <<cleared, mine>>, content' \in [Rows -> Contents]
  PROVE  ServerOK'
<1>1. /\ status' = [status EXCEPT ![r] = to] /\ moves' = [moves EXCEPT ![r] = moves[r] + 1]
      /\ UNCHANGED <<cleared, mine>>
  BY DEF Transition
<1>2. status' \in [Rows -> Statuses] /\ moves' \in [Rows -> Nat]
  BY <1>1 DEF ServerOK
<1>3. Stays'
  <2> SUFFICES ASSUME NEW d \in mine
               PROVE  (d[2] <= moves'[d[1]] /\ d[2] # moves'[d[1]]) \/ d[1] # r
    BY <1>1 DEF Stays, ServerOK
  <2>1. d[1] \in Rows /\ d[2] \in Nat /\ d[2] <= moves[d[1]]
    BY DEF ServerOK, Stays
  <2> QED BY <1>1, <2>1 DEF ServerOK
<1> QED BY <1>1, <1>2, <1>3 DEF ServerOK, OneDecisionPerStay

LEMMA DecidedServer ==
  ASSUME ServerOK, NEW r \in Rows, NEW to \in {"approved", "rejected"}, Decided(r, to),
         status[r] = "needs_review"
  PROVE  ServerOK'
<1> DEFINE e == <<r, moves[r] + 1>>
<1>1. /\ status' = [status EXCEPT ![r] = to] /\ moves' = [moves EXCEPT ![r] = moves[r] + 1]
      /\ mine' = mine \cup {e} /\ UNCHANGED <<content, cleared>>
  BY DEF Decided, Transition
<1>2. /\ status' \in [Rows -> Statuses] /\ moves' \in [Rows -> Nat]
      /\ moves[r] \in Nat /\ e \in Rows \X Nat /\ e[1] = r /\ e[2] = moves[r] + 1
  BY <1>1 DEF ServerOK, Statuses
<1>3. \A d \in mine : /\ d[1] \in Rows /\ d[2] \in Nat /\ d[2] <= moves[d[1]]
                      /\ status[d[1]] = "needs_review" => d[2] # moves[d[1]]
  BY DEF ServerOK, Stays
<1> HIDE DEF e
<1>4. Stays'
  <2>1. ASSUME NEW d \in mine
        PROVE  /\ d[2] <= moves'[d[1]]
               /\ status'[d[1]] = "needs_review" => d[2] # moves'[d[1]]
    BY <1>1, <1>3 DEF ServerOK
  <2>2. e[2] <= moves'[e[1]] /\ status'[e[1]] # "needs_review"
    BY <1>1, <1>2 DEF ServerOK
  <2> QED BY <1>1, <2>1, <2>2 DEF Stays
<1>5. OneDecisionPerStay'
  <2>1. \A d \in mine : d[1] = r => d[2] < moves[r]
    BY <1>2, <1>3
  <2>2. \A d, f \in mine : d[1] = f[1] /\ d[2] < f[2] => d[2] + 1 < f[2]
    BY DEF ServerOK, OneDecisionPerStay
  <2>3. \A d \in mine : d[1] = e[1] => d[2] + 1 < e[2] /\ ~ (e[2] < d[2])
    BY <1>2, <1>3, <2>1
  <2> QED BY <1>1, <1>2, <2>2, <2>3 DEF OneDecisionPerStay
<1> QED BY <1>1, <1>2, <1>3, <1>4, <1>5 DEF ServerOK

LEMMA HandleServer ==
  ASSUME ServerOK, NEW c, Sendable(c), Handle(c)
  PROVE  ServerOK'
<1>0. c.row \in Rows /\ c.op \in Ops
  BY DEF Sendable
<1>1. CASE UNCHANGED server
  BY <1>1 DEF server, ServerOK, Stays, OneDecisionPerStay
<1>2. CASE Allowed(c) /\ Apply(c)
  <2>1. ASSUME c.op \in {"approve", "approve_deliberately", "reject", "merge"}
        PROVE  status[c.row] = "needs_review"
    BY <1>2, <2>1 DEF Allowed, DecideAllows, DuplicateAllows
  <2>2. ASSUME c.op \in {"approve", "approve_deliberately"}, Decided(c.row, "approved")
        PROVE  ServerOK'
    BY <1>0, <2>1, <2>2, DecidedServer
  <2>3. ASSUME c.op \in {"reject", "merge"}, Decided(c.row, "rejected")
        PROVE  ServerOK'
    BY <1>0, <2>1, <2>3, DecidedServer
  <2>4. ASSUME cleared' = [cleared EXCEPT ![c.row] = Candidates(c.row)],
               UNCHANGED <<status, content, moves, mine>>
        PROVE  ServerOK'
    <3>1. Candidates(c.row) \subseteq Rows
      BY DEF Candidates
    <3> QED BY <1>0, <2>4, <3>1 DEF ServerOK, Stays, OneDecisionPerStay
  <2>5. ASSUME content' = [content EXCEPT ![c.row] = IF c.typed = NoContent THEN @ ELSE c.typed],
               UNCHANGED <<status, cleared, moves, mine>>
        PROVE  ServerOK'
    <3>1. c.typed \in Contents \cup {NoContent}
      BY DEF Sendable, Calls
    <3>2. content' \in [Rows -> Contents]
      BY <1>0, <2>5, <3>1 DEF ServerOK
    <3> QED BY <2>5, <3>2 DEF ServerOK, Stays, OneDecisionPerStay
  <2>6. ASSUME Transition(c.row, "needs_review"), UNCHANGED <<content, cleared, mine>>
        PROVE  ServerOK'
    BY <1>0, <2>6, TransitionServer DEF ServerOK, Statuses
  <2>7. ASSUME c.op = "add", Transition(c.row, "needs_review"), UNCHANGED <<cleared, mine>>,
               content' = [content EXCEPT ![c.row] = c.typed]
        PROVE  ServerOK'
    <3>1. content' \in [Rows -> Contents]
      BY <1>0, <2>7 DEF ServerOK, Sendable
    <3> QED BY <1>0, <2>7, <3>1, TransitionServer DEF Statuses
  <2> QED BY <1>2, <2>2, <2>3, <2>4, <2>5, <2>6, <2>7 DEF Apply
<1> QED BY <1>1, <1>2 DEF Handle

LEMMA OthersServer ==
  ASSUME ServerOK, OthersMove
  PROVE  ServerOK'
<1>1. ASSUME NEW r \in Rows, NEW to \in {"approved", "rejected", "needs_review"},
             Transition(r, to), UNCHANGED <<content, cleared, mine>>
      PROVE  ServerOK'
  BY <1>1, TransitionServer DEF ServerOK, Statuses
<1>2. ASSUME NEW r \in Rows, NEW c \in Contents, content' = [content EXCEPT ![r] = c],
             UNCHANGED <<status, cleared, moves, mine>>
      PROVE  ServerOK'
  BY <1>2 DEF ServerOK, Stays, OneDecisionPerStay
<1> QED BY <1>1, <1>2 DEF OthersMove

-----------------------------------------------------------------------------
(* Requests: one starts, goes a step on, or ends                           *)

LEMMA NoTaskIsTask == NoTask \in Task /\ NoTask.step = "none" /\ NoTask.kind = "none"
  BY DEF NoTask, Task, NoCall, Call, Calls

LEMMA StartRequests ==
  ASSUME RequestsOK, NEW task, Wellformed(task), task.step # "none", Start(task),
         task.kind \in Guarded => ~busy /\ busy',
         task.kind \notin Guarded => busy' = busy, busy \in BOOLEAN, busy' \in BOOLEAN,
         \/ task.step # "detail" /\ UNCHANGED <<rows, idx, detail>>
         \/ task.step = "detail" /\ task.row = CurrentRow'
  PROVE  RequestsOK'
<1>1. PICK t \in 1..MaxTasks :
        /\ tasks[t] = NoTask /\ tasks' = [tasks EXCEPT ![t] = task]
        /\ alone' = Idle /\ UNCHANGED <<late, clean>>
  BY DEF Start
<1>2. /\ tasks' \in [1..MaxTasks -> Task] /\ tasks'[t] = task
      /\ \A u \in 1..MaxTasks : u # t => tasks'[u] = tasks[u]
  BY <1>1 DEF RequestsOK, NetOK, Wellformed
<1>3. alone' => \A u \in 1..MaxTasks : u # t => tasks'[u] = NoTask
  BY <1>1, <1>2 DEF Idle
<1>4. NetOK'
  BY <1>1, <1>2 DEF RequestsOK, NetOK, Wellformed, Idle
<1>5. OneJob'
  <2>1. tasks[t].kind \notin Guarded
    BY <1>1, NoTaskIsTask DEF Guarded
  <2>2. CASE task.kind \in Guarded
    BY <1>2, <2>1, <2>2 DEF RequestsOK, OneJob
  <2>3. CASE task.kind \notin Guarded
    BY <1>2, <2>1, <2>3 DEF RequestsOK, OneJob
  <2> QED BY <2>2, <2>3
<1>6. OnlyTask'
  BY <1>2, <1>3 DEF OnlyTask
<1>7. AlonePoints'
  BY <1>2, <1>3, NoTaskIsTask DEF AlonePoints
<1>8. CleanShows'
  <2>1. CASE task.step # "detail" /\ UNCHANGED <<rows, idx, detail>>
    <3>1. CurrentRow' = CurrentRow
      BY <2>1 DEF CurrentRow
    <3>2. tasks[t].step # "detail"
      BY <1>1, NoTaskIsTask
    <3> QED BY <1>1, <1>2, <2>1, <3>1, <3>2 DEF RequestsOK, CleanShows
  <2>2. CASE task.step = "detail"
    BY <1>2, <2>2 DEF CleanShows
  <2> QED BY <2>1, <2>2
<1> QED BY <1>4, <1>5, <1>6, <1>7, <1>8 DEF RequestsOK

\* Nothing about requests changes, and the page shows what it showed.
LEMMA StillRequests ==
  ASSUME RequestsOK, UNCHANGED <<tasks, late, alone, clean, busy, rows, idx, detail>>
  PROVE  RequestsOK'
<1>1. CurrentRow' = CurrentRow
  BY DEF CurrentRow
<1> QED
  BY <1>1 DEF RequestsOK, NetOK, Wellformed, OneJob, OnlyTask, AlonePoints, CleanShows

LEMMA FinishRequests ==
  ASSUME RequestsOK, busy \in BOOLEAN, NEW t \in 1..MaxTasks, tasks[t].step # "none", Finish(t),
         \A c \in late' : Sendable(c), alone' = alone,
         \/ tasks[t].step # "detail" /\ clean' = clean /\ UNCHANGED <<rows, idx, detail>>
         \/ clean' \in BOOLEAN /\ (clean' => detail'.row = CurrentRow')
  PROVE  RequestsOK'
<1>1. /\ tasks' = [tasks EXCEPT ![t] = NoTask]
      /\ busy' = IF tasks[t].kind \in Guarded THEN FALSE ELSE busy
  BY DEF Finish
<1>2. /\ tasks' \in [1..MaxTasks -> Task] /\ tasks'[t] = NoTask /\ tasks[t] # NoTask
      /\ \A u \in 1..MaxTasks : u # t => tasks'[u] = tasks[u]
  BY <1>1, NoTaskIsTask DEF RequestsOK, NetOK
<1>3. NetOK'
  BY <1>1, <1>2, NoTaskIsTask DEF RequestsOK, NetOK, Wellformed
<1>4. OneJob'
  BY <1>1, <1>2, NoTaskIsTask DEF RequestsOK, OneJob, Guarded
<1>5. OnlyTask' /\ (alone' => \A u \in 1..MaxTasks : tasks'[u] = NoTask)
  BY <1>2 DEF RequestsOK, OnlyTask
<1>6. AlonePoints'
  BY <1>5, NoTaskIsTask DEF AlonePoints
<1>7. CleanShows'
  <2>1. CASE tasks[t].step # "detail" /\ clean' = clean /\ UNCHANGED <<rows, idx, detail>>
    <3>1. CurrentRow' = CurrentRow
      BY <2>1 DEF CurrentRow
    <3> QED BY <1>2, <2>1, <3>1 DEF RequestsOK, CleanShows
  <2>2. CASE clean' => detail'.row = CurrentRow'
    BY <2>2 DEF CleanShows
  <2> QED BY <2>1, <2>2
<1> QED BY <1>3, <1>4, <1>5, <1>6, <1>7 DEF RequestsOK

LEMMA AdvanceTask ==
  ASSUME NEW t \in 1..MaxTasks, tasks \in [1..MaxTasks -> Task],
         NEW step \in {"accepted", "refused", "overview", "detail"}, NEW r \in Rows \cup {NoRow},
         Advance(t, step, r)
  PROVE  /\ tasks' \in [1..MaxTasks -> Task]
         /\ tasks'[t].step = step /\ tasks'[t].row = r
         /\ tasks'[t].kind = tasks[t].kind /\ tasks'[t].call = tasks[t].call
         /\ \A u \in 1..MaxTasks : u # t => tasks'[u] = tasks[u]
<1>1. \A q \in Task : LET p == [[q EXCEPT !.step = step] EXCEPT !.row = r]
                      IN  /\ p \in Task /\ p.step = step /\ p.row = r
                          /\ p.kind = q.kind /\ p.call = q.call
  BY DEF Task
<1>2. tasks' = [tasks EXCEPT ![t].step = step, ![t].row = r]
  BY DEF Advance
<1>3. tasks'[t] = [[tasks[t] EXCEPT !.step = step] EXCEPT !.row = r]
  BY <1>2
<1>4. tasks[t] \in Task
  OBVIOUS
<1>5. /\ tasks'[t] \in Task /\ tasks'[t].step = step /\ tasks'[t].row = r
      /\ tasks'[t].kind = tasks[t].kind /\ tasks'[t].call = tasks[t].call
  BY <1>1, <1>3, <1>4, Zenon
<1>6. DOMAIN tasks' = 1..MaxTasks /\ tasks' = [u \in 1..MaxTasks |-> tasks'[u]]
      /\ \A u \in 1..MaxTasks : u # t => tasks'[u] = tasks[u]
  BY <1>2
<1> QED BY <1>5, <1>6

LEMMA AdvanceRequests ==
  ASSUME RequestsOK, NEW t \in 1..MaxTasks, tasks[t].step \notin {"none", "detail"},
         NEW step \in {"accepted", "refused", "overview", "detail"}, NEW r \in Rows \cup {NoRow},
         Advance(t, step, r), UNCHANGED <<busy, late, alone, clean>>,
         step \in {"accepted", "refused"} => tasks[t].step = "post",
         \/ step # "detail" /\ UNCHANGED <<rows, idx, detail>>
         \/ step = "detail" /\ r = CurrentRow' /\ r \in Rows
  PROVE  RequestsOK'
<1>1. /\ tasks' \in [1..MaxTasks -> Task]
      /\ tasks'[t].step = step /\ tasks'[t].row = r
      /\ tasks'[t].kind = tasks[t].kind /\ tasks'[t].call = tasks[t].call
      /\ \A u \in 1..MaxTasks : u # t => tasks'[u] = tasks[u]
  BY AdvanceTask DEF RequestsOK, NetOK
<1>2. tasks[t] # NoTask /\ tasks'[t] # NoTask
  BY <1>1, NoTaskIsTask
<1>3. NetOK'
  <2>1. Wellformed(tasks[t])
    BY DEF RequestsOK, NetOK
  <2>2. Wellformed(tasks'[t])
    BY <1>1, <2>1 DEF Wellformed
  <2>3. ASSUME NEW u \in 1..MaxTasks PROVE Wellformed(tasks'[u])
    BY <1>1, <2>2 DEF RequestsOK, NetOK
  <2> QED BY <1>1, <2>3 DEF RequestsOK, NetOK, Wellformed
<1>4. OneJob'
  BY <1>1 DEF RequestsOK, OneJob
<1>5. OnlyTask'
  BY <1>1, <1>2 DEF RequestsOK, OnlyTask
<1>6. alone => \A u \in 1..MaxTasks : u # t => tasks'[u] = NoTask
  BY <1>1, <1>2 DEF RequestsOK, OnlyTask
<1>7. CASE step # "detail" /\ UNCHANGED <<rows, idx, detail>>
  <2>1. CurrentRow' = CurrentRow
    BY <1>7 DEF CurrentRow
  <2>2. AlonePoints' /\ CleanShows'
    BY <1>1, <1>7, <2>1 DEF RequestsOK, AlonePoints, CleanShows
  <2> QED BY <1>3, <1>4, <1>5, <2>2 DEF RequestsOK
<1>8. CASE step = "detail" /\ r = CurrentRow'
  <2>1. AlonePoints'
    BY <1>1, <1>6, <1>8, NoTaskIsTask DEF AlonePoints
  <2>2. CleanShows'
    BY <1>1, <1>8 DEF CleanShows
  <2> QED BY <1>3, <1>4, <1>5, <2>1, <2>2 DEF RequestsOK
<1> QED BY <1>7, <1>8

-----------------------------------------------------------------------------
(* What the keys ask for                                                   *)

LEMMA PostTask ==
  ASSUME NEW k \in {"act", "save", "add"}, NEW c, Sendable(c)
  PROVE  LET q == [NoTask EXCEPT !.kind = k, !.step = "post", !.call = c]
         IN  Wellformed(q) /\ q.kind = k /\ q.step = "post"
<1>1. c \in Calls
  BY DEF Sendable
<1>2. \A n \in Task : LET q == [[[n EXCEPT !.kind = k] EXCEPT !.step = "post"] EXCEPT !.call = c]
                      IN  q \in Task /\ q.kind = k /\ q.step = "post" /\ q.call = c
  BY <1>1 DEF Task
<1> DEFINE q == [NoTask EXCEPT !.kind = k, !.step = "post", !.call = c]
<1>3. q = [[[NoTask EXCEPT !.kind = k] EXCEPT !.step = "post"] EXCEPT !.call = c]
  OBVIOUS
<1>4. q \in Task /\ q.kind = k /\ q.step = "post" /\ q.call = c
  BY <1>2, <1>3, NoTaskIsTask, Zenon
<1> HIDE DEF q
<1>5. Wellformed(q)
  BY <1>4 DEF Wellformed
<1> QED BY <1>4, <1>5 DEF q

LEMMA ReadTask ==
  ASSUME NEW k \in {"init", "load", "undo_list"}, NEW step \in {"overview", "decisions"}
  PROVE  LET q == [NoTask EXCEPT !.kind = k, !.step = step]
         IN  Wellformed(q) /\ q.kind = k /\ q.step = step
<1>1. \A n \in Task : LET q == [[n EXCEPT !.kind = k] EXCEPT !.step = step]
                      IN  q \in Task /\ q.kind = k /\ q.step = step
  BY DEF Task
<1> DEFINE q == [NoTask EXCEPT !.kind = k, !.step = step]
<1>2. q = [[NoTask EXCEPT !.kind = k] EXCEPT !.step = step]
  OBVIOUS
<1>3. q \in Task /\ q.kind = k /\ q.step = step
  BY <1>1, <1>2, NoTaskIsTask, Zenon
<1> HIDE DEF q
<1>4. Wellformed(q)
  BY <1>3 DEF Wellformed
<1> QED BY <1>3, <1>4 DEF q

LEMMA DetailTask ==
  ASSUME NEW r \in Rows
  PROVE  LET q == [NoTask EXCEPT !.kind = "load", !.step = "detail", !.row = r]
         IN  Wellformed(q) /\ q.kind = "load" /\ q.step = "detail" /\ q.row = r
<1>1. \A n \in Task : LET q == [[[n EXCEPT !.kind = "load"] EXCEPT !.step = "detail"] EXCEPT !.row = r]
                      IN  q \in Task /\ q.kind = "load" /\ q.step = "detail" /\ q.row = r
  BY DEF Task
<1> DEFINE q == [NoTask EXCEPT !.kind = "load", !.step = "detail", !.row = r]
<1>2. q = [[[NoTask EXCEPT !.kind = "load"] EXCEPT !.step = "detail"] EXCEPT !.row = r]
  OBVIOUS
<1>3. q \in Task /\ q.kind = "load" /\ q.step = "detail" /\ q.row = r
  BY <1>1, <1>2, NoTaskIsTask, Zenon
<1> HIDE DEF q
<1>4. Wellformed(q)
  BY <1>3 DEF Wellformed
<1> QED BY <1>3, <1>4 DEF q

LEMMA CurrentRowType == ASSUME CopiesOK PROVE CurrentRow \in Rows \cup {NoRow}
  BY DEF CopiesOK, IsList, CurrentRow

LEMMA CallType ==
  ASSUME NEW op \in Ops, NEW r \in Rows \cup {NoRow}
  PROVE  /\ Call(op, r) \in Calls /\ Call(op, r).op = op /\ Call(op, r).row = r
         /\ \A q \in Rows : LET c == [Call(op, r) EXCEPT !.into = q]
                            IN  c \in Calls /\ c.op = op /\ c.row = r
         /\ \A x \in Contents \cup {NoContent} :
              LET c == [Call(op, r) EXCEPT !.typed = x]
              IN  c \in Calls /\ c.op = op /\ c.row = r /\ c.typed = x
         /\ \A n \in Nat : LET c == [Call(op, r) EXCEPT !.n = n]
                           IN  c \in Calls /\ c.op = op /\ c.row = r
<1>1. Call(op, r) \in Calls /\ Call(op, r).op = op /\ Call(op, r).row = r
  BY DEF Call, Calls
<1>2. \A b \in Calls :
        /\ \A q \in Rows : LET c == [b EXCEPT !.into = q]
                           IN  c \in Calls /\ c.op = b.op /\ c.row = b.row
        /\ \A x \in Contents \cup {NoContent} :
             LET c == [b EXCEPT !.typed = x]
             IN  c \in Calls /\ c.op = b.op /\ c.row = b.row /\ c.typed = x
        /\ \A n \in Nat : LET c == [b EXCEPT !.n = n]
                          IN  c \in Calls /\ c.op = b.op /\ c.row = b.row
  BY DEF Calls
<1> QED BY <1>1, <1>2, Zenon

LEMMA ActRequests ==
  ASSUME RequestsOK, busy \in BOOLEAN, NEW c \in Calls, c.op \in Ops \ {"add"}, Act(c),
         UNCHANGED <<rows, idx, detail>>
  PROVE  RequestsOK' /\ busy' \in BOOLEAN
<1>1. CASE UNCHANGED <<busy, net, alone, clean>>
  BY <1>1, StillRequests DEF net
<1>2. CASE ~busy /\ c.row # NoRow /\ busy' = TRUE
           /\ Start([NoTask EXCEPT !.kind = "act", !.step = "post", !.call = c])
  <2> DEFINE q == [NoTask EXCEPT !.kind = "act", !.step = "post", !.call = c]
  <2>1. Sendable(c)
    BY <1>2 DEF Sendable, Calls
  <2>2. Wellformed(q) /\ q.kind = "act" /\ q.step = "post"
    BY <2>1, PostTask
  <2>3. Start(q)
    BY <1>2
  <2> HIDE DEF q
  <2> QED BY <1>2, <2>2, <2>3, StartRequests DEF Guarded
<1> QED BY <1>1, <1>2 DEF Act

LEMMA SaveRequests ==
  ASSUME RequestsOK, CopiesOK, ScreenOK, SaveEdit, UNCHANGED <<rows, idx, detail>>
  PROVE  RequestsOK' /\ busy' \in BOOLEAN
<1> DEFINE c == [Call("edit", CurrentRow) EXCEPT !.typed = form]
           q == [NoTask EXCEPT !.kind = "save", !.step = "post", !.call = c]
<1>1. ~busy /\ CurrentRow \in Rows /\ busy' = TRUE /\ Start(q)
  BY CurrentRowType DEF SaveEdit
<1>2. c \in Calls /\ c.op = "edit" /\ c.row = CurrentRow
  BY <1>1, CallType DEF Ops, ScreenOK
<1> HIDE DEF c
<1>3. Sendable(c)
  BY <1>1, <1>2 DEF Sendable, Ops
<1>4. Wellformed(q) /\ q.kind = "save" /\ q.step = "post"
  BY <1>3, PostTask
<1> HIDE DEF q
<1> QED BY <1>1, <1>4, StartRequests DEF Guarded, ScreenOK

LEMMA RefreshRequests ==
  ASSUME RequestsOK, RefreshDetail, UNCHANGED busy, busy \in BOOLEAN,
         CurrentRow' = rows'[idx'], rows'[idx'] \in Rows
  PROVE  RequestsOK'
<1> DEFINE q == [NoTask EXCEPT !.kind = "load", !.step = "detail", !.row = rows'[idx']]
<1>1. Wellformed(q) /\ q.kind = "load" /\ q.step = "detail" /\ q.row = CurrentRow'
  BY DetailTask
<1>2. Start(q)
  BY DEF RefreshDetail
<1> HIDE DEF q
<1> QED BY <1>1, <1>2, StartRequests DEF Guarded

-----------------------------------------------------------------------------
(* Keys                                                                    *)

LEMMA SameServer == ASSUME ServerOK, UNCHANGED server PROVE ServerOK'
  BY DEF server, ServerOK, Stays, OneDecisionPerStay

LEMMA PressKeeps == ASSUME PageInv, Press PROVE ServerOK' /\ CountsOK'
  BY SameServer, PageConstants DEF PageInv, Press, CountsOK

LEMMA SameCopies == ASSUME CopiesOK, UNCHANGED copies PROVE CopiesOK'
  BY DEF copies, CopiesOK, IsList

LEMMA DrawnType ==
  ASSUME NEW rs, NEW d \in Details, NEW m PROVE Drawn(rs, d, m) \in Contents \cup {NoContent}
  BY DEF Drawn, Details

LEMMA DecisionKeys ==
  ASSUME PageInv,
         \/ \E deliberate \in BOOLEAN : KeyApprove(deliberate)
         \/ Reject \/ KeyMerge \/ MergeInto \/ KeyDistinct \/ Undo
  PROVE  PageInv'
<1>1. Press /\ UNCHANGED <<copies, form>>
  BY DEF KeyApprove, Reject, KeyMerge, Merge, MergeInto, KeyDistinct, Undo
<1>2. /\ ServerOK' /\ CountsOK' /\ CopiesOK'
      /\ UNCHANGED <<rows, idx, detail>> /\ busy \in BOOLEAN
      /\ RequestsOK /\ CopiesOK /\ ScreenOK
  BY <1>1, PressKeeps, SameCopies DEF PageInv, ScreenOK, copies
<1>3. CurrentRow \in Rows \cup {NoRow} /\ detail.dups \subseteq Rows /\ decisions \subseteq Rows \X Nat
  BY <1>2, CurrentRowType DEF CopiesOK, Details
<1>4. ASSUME NEW c \in Calls, c.op \in Ops \ {"add"}, Act(c)
      PROVE  RequestsOK' /\ busy' \in BOOLEAN
  BY <1>2, <1>4, ActRequests
<1>5. ASSUME NEW op \in Ops \ {"add"}
      PROVE  /\ Call(op, CurrentRow) \in Calls /\ Call(op, CurrentRow).op = op
             /\ \A q \in Rows : LET c == [Call(op, CurrentRow) EXCEPT !.into = q]
                                IN  c \in Calls /\ c.op = op
  BY <1>3, CallType
<1>6. ASSUME NEW op \in Ops \ {"add"}, Act(Call(op, CurrentRow))
      PROVE  RequestsOK' /\ busy' \in BOOLEAN
  BY <1>4, <1>5, <1>6
<1>7. ASSUME NEW q \in Rows, Merge(q)
      PROVE  RequestsOK' /\ ScreenOK'
  <2> DEFINE c == [Call("merge", CurrentRow) EXCEPT !.into = q]
  <2>1. "merge" \in Ops \ {"add"}
    BY DEF Ops
  <2>2. c \in Calls /\ c.op = "merge"
    BY <1>5, <2>1
  <2>3. Act(c) /\ CloseOverlay
    BY <1>7 DEF Merge
  <2> HIDE DEF c
  <2>4. RequestsOK' /\ busy' \in BOOLEAN
    BY <1>4, <2>1, <2>2, <2>3
  <2> QED BY <1>1, <1>2, <2>3, <2>4 DEF CloseOverlay, ScreenOK, Modes
<1>8. CASE \E deliberate \in BOOLEAN : KeyApprove(deliberate)
  <2>1. \E op \in {"approve", "approve_deliberately"} : Act(Call(op, CurrentRow))
    BY <1>8 DEF KeyApprove
  <2>2. RequestsOK' /\ busy' \in BOOLEAN
    BY <1>6, <2>1 DEF Ops
  <2> QED BY <1>2, <1>8, <2>2 DEF KeyApprove, ScreenOK, PageInv
<1>9. CASE Reject
  <2>1. RequestsOK' /\ busy' \in BOOLEAN
    BY <1>6, <1>9 DEF Reject, Ops
  <2> QED BY <1>1, <1>2, <1>9, <2>1 DEF Reject, CloseOverlay, ScreenOK, Modes, PageInv
<1>10. CASE KeyMerge
  <2>1. CASE \E q \in detail.dups : Merge(q)
    BY <1>2, <1>3, <1>7, <2>1 DEF PageInv
  <2>2. CASE ShowOverlay("merge") /\ UNCHANGED <<copies, form, busy, net, alone, clean>>
    <3>1. RequestsOK'
      BY <1>2, <2>2, StillRequests DEF net
    <3> QED BY <1>2, <2>2, <3>1 DEF ShowOverlay, ScreenOK, Modes, PageInv
  <2> QED BY <1>10, <2>1, <2>2 DEF KeyMerge
<1>11. CASE MergeInto
  BY <1>2, <1>3, <1>7, <1>11 DEF MergeInto, PageInv
<1>12. CASE KeyDistinct
  <2>1. RequestsOK' /\ busy' \in BOOLEAN
    BY <1>6, <1>12 DEF KeyDistinct, Ops
  <2> QED BY <1>2, <1>12, <2>1 DEF KeyDistinct, ScreenOK, PageInv
<1>13. CASE Undo
  <2>1. PICK d \in decisions : Act([Call("undo", d[1]) EXCEPT !.n = d[2]])
    BY <1>13 DEF Undo
  <2> DEFINE c == [Call("undo", d[1]) EXCEPT !.n = d[2]]
  <2>2. d[1] \in Rows /\ d[2] \in Nat /\ "undo" \in Ops \ {"add"}
    BY <1>3 DEF Ops
  <2>3. c \in Calls /\ c.op = "undo"
    BY <2>2, CallType
  <2>4. Act(c)
    BY <2>1
  <2> HIDE DEF c
  <2>5. RequestsOK' /\ busy' \in BOOLEAN
    BY <1>4, <2>2, <2>3, <2>4
  <2> QED BY <1>1, <1>2, <1>13, <2>5 DEF Undo, CloseOverlay, ScreenOK, Modes, PageInv
<1> QED BY <1>8, <1>9, <1>10, <1>11, <1>12, <1>13

\* The keys that only change what is on the screen.
LEMMA ScreenKeys ==
  ASSUME PageInv, OpenReject \/ KeyEdit \/ DiscardEdit \/ Escape \/ OpenAdd
  PROVE  PageInv'
<1>1. Press /\ UNCHANGED <<copies, busy, net, alone, clean>>
  BY DEF OpenReject, KeyEdit, DiscardEdit, Escape, OpenAdd
<1>2. RequestsOK'
  BY <1>1, StillRequests DEF PageInv, net, copies
<1>3. Drawn(rows, detail, "edit") \in Contents \cup {NoContent}
      /\ Drawn(rows, detail, "queue") \in Contents \cup {NoContent}
  BY DrawnType DEF PageInv, CopiesOK
<1>4. ScreenOK'
  BY <1>1, <1>3 DEF PageInv, ScreenOK, Modes, OpenReject, KeyEdit, DiscardEdit, Escape, OpenAdd,
     ShowOverlay, CloseOverlay, CancelEdit
<1> QED BY <1>1, <1>2, <1>4, PressKeeps, SameCopies DEF PageInv

LEMMA TypeInStep == ASSUME PageInv, TypeIn PROVE PageInv'
<1>1. UNCHANGED <<server, copies, mode, overlay, busy, net, hist>> /\ form' \in Contents
  BY DEF TypeIn
<1>2. RequestsOK'
  BY <1>1, StillRequests DEF PageInv, net, copies, hist
<1>3. ScreenOK' /\ CountsOK'
  BY <1>1 DEF PageInv, ScreenOK, CountsOK, hist
<1> QED BY <1>1, <1>2, <1>3, SameServer, SameCopies DEF PageInv

LEMMA AskingKeys == ASSUME PageInv, OpenUndo \/ SubmitAdd \/ KeySave PROVE PageInv'
<1>1. Press /\ UNCHANGED <<copies, form>>
  BY DEF OpenUndo, SubmitAdd, KeySave, screen
<1>2. /\ ServerOK' /\ CountsOK' /\ CopiesOK'
      /\ UNCHANGED <<rows, idx, detail>> /\ busy \in BOOLEAN
      /\ RequestsOK /\ CopiesOK /\ ScreenOK
  BY <1>1, PressKeeps, SameCopies DEF PageInv, ScreenOK, copies
<1>3. CASE OpenUndo
  <2> DEFINE q == [NoTask EXCEPT !.kind = "undo_list", !.step = "decisions"]
  <2>1. Wellformed(q) /\ q.kind = "undo_list" /\ q.step = "decisions"
    BY ReadTask
  <2>2. Start(q) /\ UNCHANGED screen
    BY <1>3 DEF OpenUndo
  <2> HIDE DEF q
  <2>3. RequestsOK'
    BY <1>2, <2>1, <2>2, StartRequests DEF Guarded, screen
  <2> QED BY <1>2, <2>2, <2>3 DEF PageInv, ScreenOK, screen
<1>4. CASE SubmitAdd
  <2>1. PICK r \in Rows, x \in Contents :
          Start([NoTask EXCEPT !.kind = "add", !.step = "post",
                               !.call = [Call("add", r) EXCEPT !.typed = x]])
    BY <1>4 DEF SubmitAdd
  <2> DEFINE c == [Call("add", r) EXCEPT !.typed = x]
             q == [NoTask EXCEPT !.kind = "add", !.step = "post", !.call = c]
  <2>2. c \in Calls /\ c.op = "add" /\ c.row = r /\ c.typed = x
    BY CallType DEF Ops
  <2>3. Start(q) /\ UNCHANGED screen
    BY <1>4, <2>1 DEF SubmitAdd
  <2> HIDE DEF c
  <2>4. Sendable(c)
    BY <2>2 DEF Sendable, Ops
  <2>5. Wellformed(q) /\ q.kind = "add" /\ q.step = "post"
    BY <2>4, PostTask
  <2> HIDE DEF q
  <2>6. RequestsOK'
    BY <1>2, <2>3, <2>5, StartRequests DEF Guarded, screen
  <2> QED BY <1>2, <2>3, <2>6 DEF PageInv, ScreenOK, screen
<1>5. CASE KeySave
  <2>1. RequestsOK' /\ busy' \in BOOLEAN
    BY <1>2, <1>5, SaveRequests DEF KeySave
  <2> QED BY <1>1, <1>2, <1>5, <2>1 DEF KeySave, ScreenOK, Modes, PageInv
<1> QED BY <1>3, <1>4, <1>5

\* A row taken out of a list and put at its end leaves a list of that length.
LEMMA SkippedIsList ==
  ASSUME NEW s, IsList(s), NEW i \in 1..Len(s)
  PROVE  /\ IsList(Append(RemoveAt(s, i), s[i]))
         /\ Len(Append(RemoveAt(s, i), s[i])) = Len(s)
<1> DEFINE front == SubSeq(s, 1, i - 1)
           back == SubSeq(s, i + 1, Len(s))
           cut == front \o back
           N == Len(s)
<1>1. /\ s \in Seq(Rows) /\ N \in Nat /\ i \in 1..N
      /\ \A j \in 1..N : s[j] \in Rows
      /\ \A j, k \in 1..N : s[j] = s[k] => j = k
  BY DEF IsList
<1>2. /\ front \in Seq(Rows) /\ Len(front) = i - 1
      /\ \A j \in 1..(i - 1) : front[j] = s[j]
  <2>1. \A j \in 1..(i - 1) : s[j] \in Rows
    BY <1>1
  <2>2. /\ front \in Seq(Rows) /\ Len(front) = IF 1 <= i - 1 THEN (i - 1) - 1 + 1 ELSE 0
        /\ \A j \in 1..((i - 1) - 1 + 1) : front[j] = s[1 + j - 1]
    BY <1>1, <2>1, SubSeqProperties
  <2> HIDE DEF front
  <2> QED BY <1>1, <2>2
<1>3. /\ back \in Seq(Rows) /\ Len(back) = N - i
      /\ \A j \in 1..(N - i) : back[j] = s[i + j]
  <2>1. \A j \in (i + 1)..N : s[j] \in Rows
    BY <1>1
  <2>2. /\ back \in Seq(Rows) /\ Len(back) = IF i + 1 <= N THEN N - (i + 1) + 1 ELSE 0
        /\ \A j \in 1..(N - (i + 1) + 1) : back[j] = s[(i + 1) + j - 1]
    BY <1>1, <2>1, SubSeqProperties
  <2> HIDE DEF back
  <2> QED BY <1>1, <2>2
<1> HIDE DEF front, back
<1>4. /\ cut \in Seq(Rows) /\ Len(cut) = Len(front) + Len(back)
      /\ \A j \in 1..(Len(front) + Len(back)) :
           cut[j] = IF j <= Len(front) THEN front[j] ELSE back[j - Len(front)]
  BY <1>2, <1>3, ConcatProperties
<1> HIDE DEF cut
<1>5. /\ Len(cut) = N - 1
      /\ \A j \in 1..(N - 1) : cut[j] = IF j < i THEN s[j] ELSE s[j + 1]
  <2>1. ASSUME NEW j \in 1..(N - 1), j < i PROVE cut[j] = s[j]
    <3>1. j \in 1..(Len(front) + Len(back)) /\ j <= Len(front) /\ j \in 1..(i - 1)
      BY <1>1, <1>2, <1>3, <2>1
    <3> QED BY <1>2, <1>4, <3>1
  <2>2. ASSUME NEW j \in 1..(N - 1), ~ (j < i) PROVE cut[j] = s[j + 1]
    <3>1. /\ j \in 1..(Len(front) + Len(back)) /\ ~ (j <= Len(front))
          /\ j - (i - 1) \in 1..(N - i) /\ i + (j - (i - 1)) = j + 1
          /\ j - Len(front) = j - (i - 1)
      BY <1>1, <1>2, <1>3, <2>2
    <3>2. cut[j] = back[j - (i - 1)]
      BY <1>4, <3>1
    <3> QED BY <1>3, <3>1, <3>2
  <2> QED BY <1>1, <1>2, <1>3, <1>4, <2>1, <2>2
<1> DEFINE w == Append(cut, s[i])
<1>6. /\ w \in Seq(Rows) /\ Len(w) = N /\ w[N] = s[i]
      /\ \A j \in 1..(N - 1) : w[j] = cut[j]
  BY <1>1, <1>4, <1>5, AppendProperties
<1> HIDE DEF w
<1>7. \A j, k \in 1..N : w[j] = w[k] => j = k
  <2> DEFINE at == [j \in 1..N |-> IF j = N THEN i ELSE IF j < i THEN j ELSE j + 1]
  <2>1. \A j \in 1..N : at[j] \in 1..N /\ w[j] = s[at[j]]
    BY <1>1, <1>5, <1>6
  <2>2. \A j, k \in 1..N : at[j] = at[k] => j = k
    BY <1>1
  <2> HIDE DEF at
  <2> QED BY <1>1, <2>1, <2>2
<1>8. w = Append(RemoveAt(s, i), s[i])
  BY DEF w, cut, front, back, RemoveAt
<1> QED BY <1>6, <1>7, <1>8 DEF IsList

LEMMA MovingKeys == ASSUME PageInv, Move \/ Skip PROVE PageInv'
<1>1. Press /\ RefreshDetail /\ UNCHANGED <<detail, decisions, screen>>
  BY DEF Move, Skip
<1>2. /\ ServerOK' /\ CountsOK' /\ busy \in BOOLEAN /\ UNCHANGED busy
      /\ RequestsOK /\ CopiesOK /\ ScreenOK
  BY <1>1, PressKeeps DEF PageInv, ScreenOK, screen
<1>3. ScreenOK'
  BY <1>1, <1>2 DEF ScreenOK, screen
<1>4. ASSUME IsList(rows'), rows' # <<>>, idx' \in 1..Len(rows')
      PROVE  PageInv'
  <2>1. rows'[idx'] \in Rows /\ CurrentRow' = rows'[idx'] /\ Len(rows') \in Nat
    BY <1>4 DEF IsList, CurrentRow
  <2>2. RequestsOK'
    BY <1>1, <1>2, <2>1, RefreshRequests
  <2>3. CopiesOK'
    BY <1>1, <1>2, <1>4 DEF CopiesOK
  <2> QED BY <1>2, <1>3, <2>2, <2>3 DEF PageInv
<1>5. CASE Move
  <2>1. rows # <<>> /\ rows' = rows /\ IsList(rows) /\ idx \in 1..Len(rows)
    BY <1>2, <1>5 DEF Move, CopiesOK
  <2>2. Len(rows) \in Nat /\ Len(rows) > 0
    BY <2>1, EmptySeq DEF IsList
  <2>3. CASE idx' = (idx % Len(rows)) + 1
    <3>1. idx % Len(rows) \in 0..(Len(rows) - 1)
      BY <2>1, <2>2
    <3> QED BY <1>4, <2>1, <2>2, <2>3, <3>1
  <2>4. CASE idx' = IF idx = 1 THEN Len(rows) ELSE idx - 1
    BY <1>4, <2>1, <2>2, <2>4
  <2> QED BY <1>5, <2>3, <2>4 DEF Move
<1>6. CASE Skip
  <2>1. /\ Len(rows) >= 2 /\ rows' = Append(RemoveAt(rows, idx), rows[idx]) /\ idx' = idx
        /\ IsList(rows) /\ idx \in 1..Len(rows)
    <3>1. Len(<<>>) = 0
      OBVIOUS
    <3> QED BY <1>2, <1>6, <3>1 DEF Skip, CopiesOK
  <2>2. IsList(rows') /\ Len(rows') = Len(rows)
    BY <2>1, SkippedIsList
  <2>3. rows' # <<>>
    <3>1. Len(<<>>) = 0 /\ Len(rows) \in Nat
      BY <2>1 DEF IsList
    <3> QED BY <2>1, <2>2, <3>1
  <2> QED BY <1>4, <2>1, <2>2, <2>3
<1> QED BY <1>5, <1>6

LEMMA KeyStep == ASSUME PageInv, Key PROVE PageInv'
  BY DecisionKeys, ScreenKeys, TypeInStep, AskingKeys, MovingKeys DEF Key

-----------------------------------------------------------------------------
(* Answers                                                                 *)

LEMMA SameCounts == ASSUME CountsOK, UNCHANGED <<keys, others>> PROVE CountsOK'
  BY DEF CountsOK

LEMMA ServedStep == ASSUME PageInv, NEW t \in 1..MaxTasks, Served(t) PROVE PageInv'
<1>1. /\ tasks[t].step = "post" /\ Handle(tasks[t].call)
      /\ UNCHANGED <<copies, screen, late, hist>>
      /\ \E step \in {"accepted", "refused"} : Advance(t, step, NoRow)
  BY DEF Served
<1>2. Sendable(tasks[t].call)
  BY <1>1 DEF PageInv, RequestsOK, NetOK, Wellformed
<1>3. ServerOK'
  BY <1>1, <1>2, HandleServer DEF PageInv
<1>4. RequestsOK'
  <2>1. UNCHANGED <<rows, idx, detail, busy, late, alone, clean>>
    BY <1>1 DEF copies, screen, hist
  <2> QED BY <1>1, <2>1, AdvanceRequests DEF PageInv
<1>5. CopiesOK' /\ ScreenOK' /\ CountsOK'
  BY <1>1, SameCopies, SameCounts DEF PageInv, screen, hist, ScreenOK
<1> QED BY <1>3, <1>4, <1>5 DEF PageInv

LEMMA AcceptedStep == ASSUME PageInv, NEW t \in 1..MaxTasks, Accepted(t) PROVE PageInv'
<1>1. /\ tasks[t].step = "accepted" /\ Advance(t, "overview", NoRow)
      /\ UNCHANGED <<server, copies, form, busy, late, hist>>
  BY DEF Accepted
<1>2. tasks[t].kind \in {"act", "save", "add"}
  BY <1>1 DEF PageInv, RequestsOK, NetOK, Wellformed
<1>3. \/ UNCHANGED <<mode, overlay>>
      \/ mode' = "queue" /\ UNCHANGED overlay
      \/ CloseOverlay
  BY <1>2 DEF Accepted
<1>4. RequestsOK'
  <2>1. UNCHANGED <<rows, idx, detail, busy, late, alone, clean>>
    BY <1>1 DEF copies, hist
  <2> QED BY <1>1, <2>1, AdvanceRequests DEF PageInv
<1>5. ScreenOK'
  BY <1>1, <1>3 DEF PageInv, ScreenOK, Modes, CloseOverlay
<1> QED BY <1>1, <1>4, <1>5, SameServer, SameCopies, SameCounts DEF PageInv, hist

LEMMA FinishBusy ==
  ASSUME busy \in BOOLEAN, NEW t, Finish(t) PROVE busy' \in BOOLEAN
  BY DEF Finish

LEMMA PostFailsStep == ASSUME PageInv, NEW t \in 1..MaxTasks, PostFails(t) PROVE PageInv'
<1>1. /\ tasks[t].step \in {"post", "accepted", "refused"} /\ Finish(t)
      /\ UNCHANGED <<server, copies, mode, overlay, form, hist>>
      /\ late' = late \/ late' = late \cup {tasks[t].call}
  BY DEF PostFails
<1>2. \A c \in late' : Sendable(c)
  BY <1>1 DEF PageInv, RequestsOK, NetOK, Wellformed
<1>3. busy \in BOOLEAN /\ UNCHANGED <<rows, idx, detail, alone, clean>>
  BY <1>1 DEF PageInv, ScreenOK, copies, hist
<1>4. RequestsOK'
  BY <1>1, <1>2, <1>3, FinishRequests DEF PageInv
<1>5. ScreenOK'
  BY <1>1, <1>3, FinishBusy DEF PageInv, ScreenOK
<1> QED BY <1>1, <1>4, <1>5, SameServer, SameCopies, SameCounts DEF PageInv, hist

LEMMA LoadFailsStep == ASSUME PageInv, NEW t \in 1..MaxTasks, LoadFails(t) PROVE PageInv'
<1>1. /\ tasks[t].step \in {"overview", "detail", "decisions"} /\ Finish(t) /\ clean' = FALSE
      /\ UNCHANGED <<server, copies, mode, overlay, form, late, keys, others, alone>>
  BY DEF LoadFails
<1>2. busy \in BOOLEAN /\ \A c \in late' : Sendable(c)
  BY <1>1 DEF PageInv, ScreenOK, RequestsOK, NetOK
<1>3. RequestsOK'
  BY <1>1, <1>2, FinishRequests DEF PageInv
<1>4. ScreenOK'
  BY <1>1, <1>2, FinishBusy DEF PageInv, ScreenOK
<1> QED BY <1>1, <1>3, <1>4, SameServer, SameCopies, SameCounts DEF PageInv

LEMMA DecisionsArriveStep ==
  ASSUME PageInv, NEW t \in 1..MaxTasks, DecisionsArrive(t) PROVE PageInv'
<1>1. /\ tasks[t].step = "decisions" /\ Finish(t) /\ decisions' = mine /\ ShowOverlay("undo")
      /\ UNCHANGED <<server, rows, idx, detail, form, late, hist>>
  BY DEF DecisionsArrive
<1>2. busy \in BOOLEAN /\ (\A c \in late' : Sendable(c)) /\ UNCHANGED <<alone, clean>>
  BY <1>1 DEF PageInv, ScreenOK, RequestsOK, NetOK, hist
<1>3. RequestsOK'
  BY <1>1, <1>2, FinishRequests DEF PageInv
<1>4. ScreenOK'
  BY <1>1, <1>2, FinishBusy DEF PageInv, ScreenOK, ShowOverlay, Modes
<1>5. CopiesOK'
  BY <1>1 DEF PageInv, ServerOK, CopiesOK, IsList
<1> QED BY <1>1, <1>3, <1>4, <1>5, SameServer, SameCounts DEF PageInv, hist

LEMMA RowDetailType ==
  ASSUME ServerOK, NEW r \in Rows PROVE RowDetail(r) \in Details /\ RowDetail(r).row = r
  BY DEF ServerOK, RowDetail, Details, Unresolved, Candidates

LEMMA DetailArrivesStep ==
  ASSUME PageInv, NEW t \in 1..MaxTasks, DetailArrives(t) PROVE PageInv'
<1>1. /\ tasks[t].step = "detail" /\ detail' = RowDetail(tasks[t].row)
      /\ form' = Drawn(rows, detail', mode) /\ Finish(t) /\ clean' = alone
      /\ UNCHANGED <<server, rows, idx, decisions, mode, overlay, late, keys, others, alone>>
  BY DEF DetailArrives
<1>2. tasks[t].row \in Rows
  BY <1>1 DEF PageInv, RequestsOK, NetOK, Wellformed
<1>3. detail' \in Details /\ detail'.row = tasks[t].row
  BY <1>1, <1>2, RowDetailType DEF PageInv
<1>4. form' \in Contents \cup {NoContent}
  BY <1>1, <1>3, DrawnType
<1>5. /\ busy \in BOOLEAN /\ (\A c \in late' : Sendable(c)) /\ alone \in BOOLEAN
      /\ CurrentRow' = CurrentRow
  BY <1>1 DEF PageInv, ScreenOK, RequestsOK, NetOK, CurrentRow
<1>6. clean' => detail'.row = CurrentRow'
  BY <1>1, <1>3, <1>5 DEF PageInv, RequestsOK, AlonePoints
<1>7. RequestsOK'
  BY <1>1, <1>5, <1>6, FinishRequests DEF PageInv
<1>8. ScreenOK'
  BY <1>1, <1>4, <1>5, FinishBusy DEF PageInv, ScreenOK
<1>9. CopiesOK'
  BY <1>1, <1>3 DEF PageInv, CopiesOK, IsList
<1> QED BY <1>1, <1>7, <1>8, <1>9, SameServer, SameCounts DEF PageInv

\* The index stays inside the queue that came, wherever it was.
LEMMA OverviewArrivesStep ==
  ASSUME PageInv, NEW t \in 1..MaxTasks, OverviewArrives(t) PROVE PageInv'
<1> DEFINE focus == IF tasks[t].kind \in {"save", "add"} THEN tasks[t].call.row ELSE NoRow
           kept  == IF focus \in ToSet(Queue)
                      THEN CHOOSE i \in 1..Len(Queue) : Queue[i] = focus ELSE idx
           next  == IF kept <= Len(Queue) THEN kept ELSE IF Queue = <<>> THEN 1 ELSE Len(Queue)
<1>1. /\ tasks[t].step = "overview" /\ rows' = Queue /\ idx' = next
      /\ UNCHANGED <<server, decisions, mode, overlay, late, keys, others, alone>>
  BY DEF OverviewArrives
<1>2. /\ IsList(Queue) /\ Queue \in Seq(Rows) /\ Len(Queue) \in Nat
      /\ (Queue = <<>> <=> Len(Queue) = 0)
  BY QueueIsList, EmptySeq DEF IsList
<1>3. kept \in Nat /\ kept >= 1
  <2>1. CASE focus \in ToSet(Queue)
    <3>1. \E i \in 1..Len(Queue) : Queue[i] = focus
      BY <1>2, <2>1 DEF ToSet
    <3>2. kept \in 1..Len(Queue)
      BY <2>1, <3>1
    <3> QED BY <1>2, <3>2
  <2>2. CASE focus \notin ToSet(Queue)
    <3>1. idx \in Nat /\ idx >= 1
      <4>1. Len(rows) \in Nat
        BY DEF PageInv, CopiesOK, IsList
      <4> QED BY <4>1 DEF PageInv, CopiesOK
    <3> QED BY <2>2, <3>1
  <2> QED BY <2>1, <2>2
<1> HIDE DEF kept
<1>4. next \in 1..(IF Queue = <<>> THEN 1 ELSE Len(Queue))
  BY <1>2, <1>3
<1>5. Queue # <<>> => next \in 1..Len(Queue) /\ Queue[next] \in Rows /\ CurrentRow' = Queue[next]
  BY <1>1, <1>2, <1>4 DEF CurrentRow
<1>6. Queue = <<>> => CurrentRow' = NoRow
  BY <1>1, <1>2, <1>3 DEF CurrentRow
<1>7. /\ busy \in BOOLEAN /\ (\A c \in late' : Sendable(c)) /\ alone \in BOOLEAN
      /\ NoDetail \in Details /\ NoDetail.row = NoRow
  BY <1>1 DEF PageInv, ScreenOK, RequestsOK, NetOK, NoDetail, Details
<1>8. CASE Queue = <<>>
  <2>1. /\ detail' = NoDetail /\ form' = Drawn(<<>>, NoDetail, mode)
        /\ Finish(t) /\ clean' = alone
    BY <1>8 DEF OverviewArrives
  <2>2. RequestsOK'
    BY <1>1, <1>6, <1>7, <1>8, <2>1, FinishRequests DEF PageInv
  <2>3. form' \in Contents \cup {NoContent}
    BY <1>7, <2>1, DrawnType
  <2>4. ScreenOK'
    BY <1>1, <1>7, <2>1, <2>3, FinishBusy DEF PageInv, ScreenOK
  <2>5. CopiesOK'
    BY <1>1, <1>2, <1>4, <1>7, <2>1 DEF PageInv, CopiesOK
  <2> QED BY <1>1, <2>2, <2>4, <2>5, SameServer, SameCounts DEF PageInv
<1>9. CASE Queue # <<>>
  <2>1. Advance(t, "detail", Queue[next]) /\ UNCHANGED <<detail, form, busy, clean>>
    BY <1>9 DEF OverviewArrives, kept
  <2>2. RequestsOK'
    BY <1>1, <1>5, <1>9, <2>1, AdvanceRequests DEF PageInv
  <2>3. ScreenOK'
    BY <1>1, <2>1 DEF PageInv, ScreenOK
  <2>4. CopiesOK'
    BY <1>1, <1>2, <1>4, <2>1 DEF PageInv, CopiesOK
  <2> QED BY <1>1, <2>2, <2>3, <2>4, SameServer, SameCounts DEF PageInv
<1> QED BY <1>8, <1>9

-----------------------------------------------------------------------------
(* Everything                                                              *)

LEMMA SessionStep == ASSUME PageInv, SessionArrives PROVE PageInv'
<1> DEFINE q == [NoTask EXCEPT !.kind = "init", !.step = "overview"]
<1>1. Start(q) /\ mode' = "queue" /\ UNCHANGED <<server, copies, overlay, form, busy, keys, others>>
  BY DEF SessionArrives
<1>2. Wellformed(q) /\ q.kind = "init" /\ q.step = "overview"
  BY ReadTask
<1> HIDE DEF q
<1>3. RequestsOK'
  BY <1>1, <1>2, StartRequests DEF PageInv, ScreenOK, Guarded, copies
<1>4. ScreenOK'
  BY <1>1 DEF PageInv, ScreenOK, Modes
<1> QED BY <1>1, <1>3, <1>4, SameServer, SameCopies, SameCounts DEF PageInv

LEMMA LateStep == ASSUME PageInv, LateServed PROVE PageInv'
<1>1. PICK c \in late : Handle(c) /\ late' = late \ {c} /\ UNCHANGED <<copies, screen, tasks, hist>>
  BY DEF LateServed
<1>2. Sendable(c)
  BY DEF PageInv, RequestsOK, NetOK
<1>3. ServerOK'
  BY <1>1, <1>2, HandleServer DEF PageInv
<1>4. RequestsOK'
  <2>1. CurrentRow' = CurrentRow
    BY <1>1 DEF CurrentRow, copies
  <2> QED
    BY <1>1, <2>1 DEF PageInv, RequestsOK, NetOK, Wellformed, OneJob, OnlyTask, AlonePoints,
       CleanShows, copies, screen, hist
<1>5. ScreenOK'
  BY <1>1 DEF PageInv, ScreenOK, screen
<1> QED BY <1>1, <1>3, <1>4, <1>5, SameCopies, SameCounts DEF PageInv, hist

LEMMA OthersStep == ASSUME PageInv, OthersMove PROVE PageInv'
<1>1. /\ others < MaxOthers /\ others' = others + 1
      /\ UNCHANGED <<copies, screen, net, keys, alone, clean>>
  BY DEF OthersMove
<1>2. RequestsOK'
  BY <1>1, StillRequests DEF PageInv, copies, screen, net
<1>3. ScreenOK' /\ CountsOK'
  BY <1>1, PageConstants DEF PageInv, ScreenOK, CountsOK, screen
<1> QED BY <1>1, <1>2, <1>3, OthersServer, SameCopies DEF PageInv

LEMMA PageStutters == ASSUME PageInv, UNCHANGED vars PROVE PageInv'
<1>1. UNCHANGED <<server, copies, screen, net, hist>>
  BY DEF vars
<1>2. RequestsOK'
  BY <1>1, StillRequests DEF PageInv, copies, screen, net, hist
<1>3. ScreenOK'
  BY <1>1 DEF PageInv, ScreenOK, screen
<1> QED BY <1>1, <1>2, <1>3, SameServer, SameCopies, SameCounts DEF PageInv, hist

LEMMA PageStep == PageInv /\ [Next]_vars => PageInv'
<1>1. ASSUME PageInv, NEW t \in 1..MaxTasks, Answer(t) PROVE PageInv'
  BY <1>1, ServedStep, AcceptedStep, PostFailsStep, OverviewArrivesStep, DetailArrivesStep,
     DecisionsArriveStep, LoadFailsStep DEF Answer
<1> QED BY <1>1, SessionStep, KeyStep, LateStep, OthersStep, PageStutters DEF Next

LEMMA InitPage == Init => PageInv
<1> SUFFICES ASSUME Init PROVE PageInv
  OBVIOUS
<1>1. ServerOK
  <2>1. /\ status = [r \in Rows |-> IF r \in Waiting THEN "needs_review" ELSE "absent"]
        /\ content = Found /\ cleared = [r \in Rows |-> {}] /\ moves = [r \in Rows |-> 0] /\ mine = {}
    BY DEF Init
  <2> QED BY <2>1, PageConstants DEF ServerOK, Statuses, Stays, OneDecisionPerStay
<1>2. /\ rows = <<>> /\ Len(rows) = 0 /\ idx = 1 /\ detail = NoDetail /\ decisions = {}
      /\ mode = "loading" /\ overlay = FALSE /\ form = NoContent /\ busy = FALSE
      /\ tasks = [t \in 1..MaxTasks |-> NoTask] /\ late = {} /\ alone = TRUE /\ clean = TRUE
      /\ keys = 0 /\ others = 0
  BY DEF Init
<1>3. CopiesOK
  BY <1>2, EmptySeq DEF CopiesOK, IsList, NoDetail, Details
<1>4. ScreenOK
  BY <1>2, PageConstants, Zenon DEF ScreenOK, Modes
<1>5. CountsOK
  BY <1>2, PageConstants DEF CountsOK
<1>6. RequestsOK
  <2>1. CurrentRow = NoRow /\ detail.row = NoRow
    BY <1>2 DEF CurrentRow, NoDetail
  <2> QED
    BY <1>2, <2>1, NoTaskIsTask
    DEF RequestsOK, NetOK, Wellformed, OneJob, OnlyTask, AlonePoints, CleanShows, Guarded
<1> QED BY <1>1, <1>3, <1>4, <1>5, <1>6 DEF PageInv

\* All of it at once: the page's inductive invariant.
THEOREM PageInvariant == Spec => []PageInv
  BY InitPage, PageStep, PTL DEF Spec

\* The types, and the index never leaves the queue the page holds, so a key
\* always finds a row while there is one (refresh, move and skip in app.js).
THEOREM PageTypeCorrect == Spec => []PageTypeOK
<1>1. PageInv => PageTypeOK
  <2> SUFFICES ASSUME PageInv PROVE PageTypeOK
    OBVIOUS
  <2>1. rows \in Seq(Rows) /\ IsInjective(rows)
    <3>1. rows \in Seq(Rows) /\ DOMAIN rows = 1..Len(rows)
      BY DEF PageInv, CopiesOK, IsList
    <3> QED BY <3>1 DEF PageInv, CopiesOK, IsList, IsInjective
  <2>2. late \subseteq Calls
    BY DEF PageInv, RequestsOK, NetOK, Sendable
  <2> QED
    BY <2>1, <2>2 DEF PageInv, ServerOK, CopiesOK, ScreenOK, CountsOK, RequestsOK, NetOK,
       Details, PageTypeOK
<1> QED BY <1>1, PageInvariant, PTL

\* The page is busy exactly while one decision or save is under way, however
\* its request ends (act and saveEdit in app.js).
THEOREM PageBusyIsOneJob == Spec => []BusyIsOneJob
<1>1. PageInv => BusyIsOneJob
  <2> SUFFICES ASSUME PageInv PROVE BusyIsOneJob
    OBVIOUS
  <2> DEFINE J == {t \in 1..MaxTasks : tasks[t].kind \in Guarded}
  <2>1. CASE busy
    <3>1. PICK t \in 1..MaxTasks : tasks[t].kind \in Guarded
      BY <2>1 DEF PageInv, RequestsOK, OneJob
    <3>2. J = {t}
      BY <3>1 DEF PageInv, RequestsOK, OneJob
    <3> HIDE DEF J
    <3>3. Cardinality(J) = 1
      BY <3>2, FS_Singleton
    <3> QED BY <2>1, <3>3 DEF BusyIsOneJob, J
  <2>2. CASE ~busy
    <3>1. J = {}
      BY <2>2 DEF PageInv, RequestsOK, OneJob
    <3> HIDE DEF J
    <3>2. Cardinality(J) = 0
      BY <3>1, FS_EmptySet
    <3> QED BY <2>2, <3>2 DEF BusyIsOneJob, J
  <2> QED BY <2>1, <2>2
<1> QED BY <1>1, PageInvariant, PTL

\* Once nothing is in flight the facts drawn are those of the row the keys act
\* on, if the last load came through and nothing overlapped it (refreshDetail).
THEOREM PageSettles == Spec => []SettledShowsCurrent
<1>1. PageInv => SettledShowsCurrent
  BY NoTaskIsTask DEF PageInv, RequestsOK, CleanShows, Idle, SettledShowsCurrent
<1> QED BY <1>1, PageInvariant, PTL

\* No stay in the queue is decided twice, whatever is pressed again, served
\* late or moved by others (requireStatus in decide).
THEOREM PageDecidesOnce == Spec => []OneDecisionPerStay
<1>1. PageInv => OneDecisionPerStay
  BY DEF PageInv, ServerOK
<1> QED BY <1>1, PageInvariant, PTL

===============================================================================
