-------------------------- MODULE PublishPipeProofs --------------------------
(***************************************************************************)
(* What the publish pipe guarantees for any number of events, contents and *)
(* overlapping invocations, any batch cap and any ceiling.                 *)
(*                                                                         *)
(* The argument for PublishedMeansDelivered: a row that is approved with a *)
(* stamp no later than an invocation's was approved before the invocation  *)
(* selected it, so its wire row is right (WiresTrue); an answered batch is *)
(* at the app (Answered); and of two invocations the earlier one is at     *)
(* least a cron period old, which is past the freshness window, so that    *)
(* its batch cannot land on top of the later one's (Overtaken).            *)
(***************************************************************************)
EXTENDS PublishPipe, TLAPS

Live(c) == job[c].step # "over" \/ job[c].flying

\* No stamp in a table or an invocation is ahead of the clock.
StampsPast ==
    /\ \A c \in Slots : job[c].at <= clock
    /\ \A e \in Events : row[e].publishedAt # Null => row[e].publishedAt <= clock

\* A row, a wire row or a copy says "approved" only of an approved content.
BlessedEverywhere ==
    /\ \A e \in Events : row[e].status = "approved" => row[e].content \in blessed[e]
    /\ \A c \in Slots : \A w \in job[c].rows : w.status = "approved" => w.content \in blessed[w.id]
    /\ OnlyApprovedCrosses

\* e has stood approved since before the invocation took its timestamp.
StoodFor(c, e) == row[e].status = "approved" /\ row[e].updatedAt <= job[c].at

WiresTrue ==
    \A c \in Slots : \A w \in job[c].rows : StoodFor(c, w.id) =>
        w.status = "approved" /\ w.content = row[w.id].content

Answered ==
    \A c \in Slots : \A w \in job[c].rows :
        job[c].step = "confirmed" /\ StoodFor(c, w.id) => Arrived(app[w.id], row[w.id].content)

Overtaken ==
    \A d \in Slots : Live(d) =>
        /\ \A c \in Slots : job[c].at > job[d].at => job[d].age >= Period
        /\ \A e \in Events : row[e].publishedAt # Null /\ row[e].publishedAt > job[d].at =>
              job[d].age >= Period

\* The only part that asks for a window shorter than the cron period.
Delivered == Window < Period => Answered /\ PublishedMeansDelivered

PipeInv == PipeTypeOK /\ BlessedEverywhere /\ StampsPast /\ WiresTrue /\ Overtaken /\ Delivered

-----------------------------------------------------------------------------
(* The shapes of the steps                                                 *)

\* The table moves: one row is revised, and if it is approved now it was
\* approved with this very stamp.
RowMoves(e) ==
    /\ row' \in [Events -> Listing]
    /\ \A f \in Events \ {e} : row'[f] = row[f]
    /\ row'[e].publishedAt \in {row[e].publishedAt, Null}
    /\ row'[e].status = "approved" => row'[e].updatedAt = Now /\ row'[e].content \in blessed'[e]
    /\ clock' = Now
    /\ blessed' \in [Events -> SUBSET Contents]
    /\ \A f \in Events : blessed[f] \subseteq blessed'[f]
    /\ UNCHANGED <<job, app>>

\* The invocations only grow older, move on, lose their batch or are
\* forgotten; none begins and none selects.
JobsFade ==
    /\ job' \in [Slots -> Job]
    /\ \A d \in Slots :
          /\ job'[d].rows \subseteq job[d].rows
          /\ job'[d].rows # {} => job'[d].at = job[d].at
          /\ Live(d)' => Live(d) /\ job'[d].at = job[d].at
          /\ job'[d].at \in {0, job[d].at}
          /\ job'[d].age >= job[d].age
    /\ UNCHANGED <<clock, blessed>>

SameListing(e) ==
    /\ row'[e].status = row[e].status
    /\ row'[e].content = row[e].content
    /\ row'[e].updatedAt = row[e].updatedAt

-----------------------------------------------------------------------------

LEMMA Arithmetic == Horizon \in Nat /\ Period <= Horizon /\ Window < Horizon /\ Period \in Nat
                    /\ Window \in Nat
  BY PipeAssumption DEF Horizon

LEMMA InitPipe == PipeInit => PipeInv
<1> SUFFICES ASSUME PipeInit PROVE PipeInv
  OBVIOUS
<1>1. NoListing \in Listing
  BY DEF NoListing, Listing
<1>2. NoJob \in Job
  BY Arithmetic DEF NoJob, Job
<1>3. NoCopy \in Copy
  BY DEF NoCopy, Copy
<1>4. PipeTypeOK
  BY <1>1, <1>2, <1>3 DEF PipeInit, PipeTypeOK
<1>5. /\ \A e \in Events : row[e].status = "absent" /\ row[e].publishedAt = Null
      /\ \A e \in Events : app[e].status = "none"
      /\ \A c \in Slots : job[c].rows = {} /\ job[c].at = 0 /\ ~ Live(c)
  BY DEF PipeInit, NoListing, NoJob, NoCopy, Live
<1>6. clock = 0
  BY DEF PipeInit
<1> QED BY <1>4, <1>5, <1>6 DEF PipeInv, Delivered, BlessedEverywhere, OnlyApprovedCrosses,
      StampsPast, WiresTrue, Answered, Overtaken, PublishedMeansDelivered

-----------------------------------------------------------------------------
(* The events table                                                        *)

\* A row stays a row whatever an editor writes into it.
LEMMA RowEdits ==
    ASSUME NEW r \in Listing, NEW t \in Nat
    PROVE  /\ \A s \in Statuses : [r EXCEPT !.status = s, !.updatedAt = t] \in Listing
           /\ \A c \in Contents : [r EXCEPT !.content = c, !.updatedAt = t] \in Listing
           /\ \A s \in Statuses, c \in Contents :
                 [r EXCEPT !.status = s, !.content = c, !.updatedAt = t] \in Listing
  BY DEF Listing

LEMMA EditorsMove ==
    ASSUME PipeTypeOK, BlessedEverywhere, NEW e \in Events,
           \/ \E c \in Contents : \/ Insert(e, c)
                                  \/ \E stamp \in 0..Now : Revise(e, c, stamp) \/ DemoteAndRevise(e, c, stamp)
           \/ \E to \in Statuses : Transit(e, to)
    PROVE  RowMoves(e)
<1>1. row[e] \in Listing /\ Now \in Nat /\ \A stamp \in 0..Now : stamp \in Nat
  BY DEF PipeTypeOK, Now
<1>2. ASSUME NEW c \in Contents, Insert(e, c) PROVE RowMoves(e)
  <2>1. NoListing \in Listing /\ "draft" \in Statuses /\ Now \in Nat
    BY <1>1 DEF NoListing, Listing, Statuses
  <2>2. [NoListing EXCEPT !.status = "draft", !.content = c, !.updatedAt = Now] \in Listing
    BY <2>1, RowEdits
  <2>3. row'[e].publishedAt = Null /\ row'[e].status = "draft"
    BY <1>2 DEF Insert, PipeTypeOK, NoListing
  <2> QED BY <1>2, <2>2, <2>3 DEF Insert, Stamped, RowMoves, PipeTypeOK
<1>3. ASSUME NEW c \in Contents, NEW stamp \in 0..Now, Revise(e, c, stamp) PROVE RowMoves(e)
  <2>1. [row[e] EXCEPT !.content = c, !.updatedAt = stamp] \in Listing
    BY <1>1, RowEdits, Zenon
  <2>2. row'[e].publishedAt = row[e].publishedAt /\ row'[e].status # "approved"
    BY <1>1, <1>3 DEF Revise, PipeTypeOK, Listing
  <2> QED BY <1>3, <2>1, <2>2 DEF Revise, Stamped, RowMoves, PipeTypeOK
<1>4. ASSUME NEW c \in Contents, NEW stamp \in 0..Now, DemoteAndRevise(e, c, stamp) PROVE RowMoves(e)
  <2>1. [row[e] EXCEPT !.status = "needs_review", !.content = c, !.updatedAt = stamp] \in Listing
    BY <1>1, RowEdits, Zenon DEF Statuses
  <2>2. row'[e].publishedAt = row[e].publishedAt /\ row'[e].status # "approved"
    BY <1>1, <1>4 DEF DemoteAndRevise, PipeTypeOK, Listing
  <2> QED BY <1>4, <2>1, <2>2 DEF DemoteAndRevise, Stamped, RowMoves, PipeTypeOK
<1>5. ASSUME NEW to \in Statuses, Transit(e, to) PROVE RowMoves(e)
  <2>1. [row[e] EXCEPT !.status = to, !.updatedAt = Now] \in Listing
    BY <1>1, RowEdits, Zenon
  <2>2. to = "approved" => row[e].content \in Contents
    BY <1>5, PipeAssumption DEF Transit
  <2>3. blessed' \in [Events -> SUBSET Contents] /\ \A f \in Events : blessed[f] \subseteq blessed'[f]
    BY <1>5, <2>2 DEF Transit, PipeTypeOK
  <2>4. to = "approved" => row[e].content \in blessed'[e]
    BY <1>5 DEF Transit, PipeTypeOK
  <2>5. /\ row'[e].publishedAt = row[e].publishedAt /\ row'[e].status = to
        /\ row'[e].content = row[e].content /\ row'[e].updatedAt = Now
    BY <1>1, <1>5 DEF Transit, PipeTypeOK, Listing
  <2> QED BY <1>5, <2>1, <2>3, <2>4, <2>5 DEF Transit, Stamped, RowMoves, PipeTypeOK
<1> QED BY <1>2, <1>3, <1>4, <1>5

LEMMA RowStep ==
    ASSUME PipeInv, NEW e \in Events, RowMoves(e)
    PROVE  PipeInv'
<1> USE DEF PipeInv, Delivered
<1>1. /\ clock \in Nat /\ clock' = clock + 1
      /\ \A f \in Events : row[f] \in Listing /\ row'[f] \in Listing
      /\ job \in [Slots -> Job] /\ app \in [Events -> Copy] /\ job' = job /\ app' = app
  BY DEF RowMoves, PipeTypeOK, Now
<1>2. \A c \in Slots : job[c] \in Job /\ job[c].at \in Nat /\ job[c].rows \subseteq Wire
  BY <1>1 DEF Job
<1>3. PipeTypeOK'
  BY <1>1 DEF RowMoves, PipeTypeOK
<1>4. BlessedEverywhere'
  <2>1. \A f \in Events : row'[f].status = "approved" => row'[f].content \in blessed'[f]
    BY DEF RowMoves, BlessedEverywhere
  <2> QED BY <1>1, <1>2, <2>1 DEF RowMoves, BlessedEverywhere, OnlyApprovedCrosses, Wire
<1>5. StampsPast'
  BY <1>1, <1>2 DEF StampsPast, RowMoves, Listing
<1>6. \A c \in Slots : ~ StoodFor(c, e)'
  BY <1>1, <1>2 DEF StoodFor, RowMoves, StampsPast, Now
<1>7. WiresTrue'
  BY <1>1, <1>2, <1>6 DEF WiresTrue, RowMoves, StoodFor, Wire
<1>8. Answered => Answered'
  BY <1>1, <1>2, <1>6 DEF Answered, RowMoves, StoodFor, Wire
<1>9. Overtaken'
  BY <1>1, <1>2 DEF Overtaken, RowMoves, Live
<1>10. row'[e].status = "approved" /\ row'[e].publishedAt # Null => Moved(row'[e])
  BY <1>1 DEF RowMoves, StampsPast, Moved, Now, Listing
<1>11. PublishedMeansDelivered => PublishedMeansDelivered'
  BY <1>1, <1>10 DEF PublishedMeansDelivered, RowMoves
<1> QED BY <1>3, <1>4, <1>5, <1>7, <1>8, <1>9, <1>11

-----------------------------------------------------------------------------
(* The invocations                                                         *)

LEMMA JobTypes ==
    ASSUME PipeTypeOK, NEW c \in Slots
    PROVE  /\ job[c] \in Job
           /\ job[c].at \in Nat /\ job[c].age \in Nat /\ job[c].rows \subseteq Wire
           /\ \A w \in job[c].rows : w.id \in Events /\ row[w.id] \in Listing
  BY Arithmetic DEF PipeTypeOK, Job, Wire

\* Every way an invocation, its batch or both can end.
LEMMA ClosedFades ==
    ASSUME PipeTypeOK, NEW c \in Slots, NEW j \in Job,
           j.rows = job[c].rows, j.at = job[c].at, j.age = job[c].age,
           j.step = job[c].step, j.flying => job[c].flying,
           job' = [job EXCEPT ![c] = Closed(j)], UNCHANGED <<clock, blessed>>
    PROVE  JobsFade /\ job'[c].step = "over" /\ \A d \in Slots \ {c} : job'[d] = job[d]
<1>1. job[c] \in Job /\ 0 \in Nat /\ Horizon \in Nat
  BY Arithmetic DEF PipeTypeOK
<1>2. CASE j.flying
  <2>1. [j EXCEPT !.step = "over"] \in Job
    BY DEF Job
  <2>2. /\ job'[c] \in Job /\ job'[c].step = "over" /\ job'[c].flying
        /\ job'[c].rows = j.rows /\ job'[c].at = j.at /\ job'[c].age = j.age
    BY <1>2, <2>1 DEF Closed, PipeTypeOK, Job
  <2> QED BY <1>2, <2>2, JobTypes DEF JobsFade, Live, PipeTypeOK
<1>3. CASE ~ j.flying
  <2>1. NoJob \in Job /\ j.age \in 0..Horizon
    BY <1>1 DEF NoJob, Job
  <2>2. [NoJob EXCEPT !.age = j.age] \in Job
    BY <2>1 DEF Job
  <2>3. /\ job'[c] \in Job /\ job'[c].step = "over" /\ ~ job'[c].flying
        /\ job'[c].rows = {} /\ job'[c].at = 0 /\ job'[c].age = j.age
    BY <1>3, <2>2 DEF Closed, PipeTypeOK, NoJob
  <2> QED BY <1>3, <2>3, JobTypes DEF JobsFade, Live, PipeTypeOK
<1> QED BY <1>2, <1>3

\* Nothing that was true of an invocation is lost when it fades.
LEMMA FadeKeeps ==
    ASSUME PipeInv, JobsFade, row' \in [Events -> Listing], \A e \in Events : SameListing(e),
           app' \in [Events -> Copy], OnlyApprovedCrosses'
    PROVE  /\ PipeTypeOK' /\ BlessedEverywhere' /\ WiresTrue'
           /\ \A c \in Slots : job'[c].at <= clock
           /\ \A c \in Slots : \A w \in job'[c].rows :
                 w \in job[c].rows /\ w.id \in Events /\ (StoodFor(c, w.id)' => StoodFor(c, w.id))
           /\ \A c, d \in Slots : Live(d)' /\ job'[c].at > job'[d].at => job'[d].age >= Period
<1> USE DEF PipeInv
<1>1. PipeTypeOK'
  BY DEF PipeTypeOK, JobsFade
<1>2. \A c \in Slots : /\ job[c].at \in Nat /\ job'[c].at \in Nat
                       /\ job[c].age \in Nat /\ job'[c].age \in Nat
                       /\ job[c].rows \subseteq Wire
  BY <1>1, Arithmetic DEF PipeTypeOK, Job
<1>3. BlessedEverywhere'
  BY <1>2 DEF BlessedEverywhere, JobsFade, Wire, SameListing
<1>4. \A c \in Slots : \A w \in job'[c].rows :
         /\ w \in job[c].rows /\ w.id \in Events
         /\ StoodFor(c, w.id)' => StoodFor(c, w.id)
  BY <1>2 DEF JobsFade, StoodFor, Wire, SameListing
<1>5. WiresTrue'
  BY <1>4 DEF WiresTrue, SameListing
<1>6. \A c \in Slots : job'[c].at <= clock
  BY <1>2 DEF JobsFade, StampsPast, PipeTypeOK
<1>7. ASSUME NEW c \in Slots, NEW d \in Slots, Live(d)', job'[c].at > job'[d].at
      PROVE  job'[d].age >= Period
  <2>1. Live(d) /\ job'[d].at = job[d].at /\ job'[d].age >= job[d].age /\ job'[c].at \in {0, job[c].at}
    BY <1>7 DEF JobsFade
  <2>2. job[c].at > job[d].at
    BY <1>2, <1>7, <2>1
  <2>3. job[d].age >= Period
    BY <2>1, <2>2 DEF Overtaken
  <2> QED BY <1>2, <2>1, <2>3, Arithmetic
<1> QED BY <1>1, <1>3, <1>4, <1>5, <1>6, <1>7

LEMMA FadeOvertaken ==
    ASSUME PipeInv, JobsFade, UNCHANGED row, app' \in [Events -> Copy], OnlyApprovedCrosses'
    PROVE  StampsPast' /\ Overtaken'
<1>1. row' \in [Events -> Listing] /\ \A e \in Events : SameListing(e)
  BY DEF PipeInv, PipeTypeOK, SameListing
<1>2. /\ PipeTypeOK' /\ \A c \in Slots : job'[c].at <= clock
      /\ \A c, d \in Slots : Live(d)' /\ job'[c].at > job'[d].at => job'[d].age >= Period
  BY <1>1, FadeKeeps
<1>3. StampsPast'
  BY <1>2 DEF PipeInv, StampsPast, JobsFade
<1>4. Overtaken'
  <2> SUFFICES ASSUME NEW d \in Slots, Live(d)', NEW e \in Events,
                      row[e].publishedAt # Null, row[e].publishedAt > job'[d].at
               PROVE  job'[d].age >= Period
    BY <1>2 DEF Overtaken
  <2>1. Live(d) /\ job'[d].at = job[d].at /\ job'[d].age >= job[d].age
    BY DEF JobsFade
  <2>2. job[d].age >= Period
    BY <2>1 DEF PipeInv, Overtaken
  <2>3. job[d].age \in Nat /\ job'[d].age \in Nat
    BY <1>2, Arithmetic DEF PipeInv, PipeTypeOK, Job
  <2> QED BY <2>1, <2>2, <2>3, Arithmetic
<1> QED BY <1>3, <1>4

LEMMA FadeStep ==
    ASSUME PipeInv, JobsFade, UNCHANGED <<row, app>>,
           \A c \in Slots : job'[c].step = "confirmed" => job[c].step = "confirmed"
    PROVE  PipeInv'
<1>1. /\ row' \in [Events -> Listing] /\ \A e \in Events : SameListing(e)
      /\ app' \in [Events -> Copy] /\ OnlyApprovedCrosses'
  BY DEF PipeInv, PipeTypeOK, SameListing, BlessedEverywhere, OnlyApprovedCrosses, JobsFade
<1>2. /\ PipeTypeOK' /\ BlessedEverywhere' /\ WiresTrue'
      /\ \A c \in Slots : \A w \in job'[c].rows :
            w \in job[c].rows /\ (StoodFor(c, w.id)' => StoodFor(c, w.id))
  BY <1>1, FadeKeeps
<1>3. StampsPast' /\ Overtaken'
  BY <1>1, FadeOvertaken
<1>4. Answered => Answered'
  BY <1>2 DEF Answered
<1>5. Delivered'
  BY <1>4 DEF PipeInv, Delivered, PublishedMeansDelivered
<1> QED BY <1>2, <1>3, <1>5 DEF PipeInv

-----------------------------------------------------------------------------
(* Start, select                                                           *)

LEMMA StartedJob ==
    \A r \in Job, t \in Nat :
        LET q == [r EXCEPT !.step = "started", !.at = t, !.age = 0]
        IN  /\ q \in Job /\ q.step = "started" /\ q.at = t /\ q.age = 0
            /\ q.rows = r.rows /\ q.flying = r.flying
<1>1. 0 \in 0..Horizon
  BY Arithmetic
<1> QED BY <1>1 DEF Job

LEMMA StartStep ==
    ASSUME PipeInv, NEW c \in Slots, StartCycle(c)
    PROVE  PipeInv'
<1> USE DEF PipeInv
<1> DEFINE j == [NoJob EXCEPT !.step = "started", !.at = clock, !.age = 0]
<1>1. /\ j \in Job /\ j.step = "started" /\ j.at = clock /\ j.age = 0
      /\ j.rows = {} /\ ~ j.flying
  <2>1. clock \in Nat /\ NoJob \in Job /\ NoJob.rows = {} /\ ~ NoJob.flying
    BY Arithmetic DEF PipeTypeOK, NoJob, Job
  <2> QED BY <2>1, StartedJob, Zenon DEF j
<1> HIDE DEF j
<1>2. /\ job'[c] = j /\ \A d \in Slots \ {c} : job'[d] = job[d]
      /\ \A d \in Slots \ {c} : job[d].age >= Period
      /\ UNCHANGED <<row, clock, blessed, app>>
  BY DEF StartCycle, PipeTypeOK, j
<1>3. PipeTypeOK'
  BY <1>1, <1>2 DEF PipeTypeOK, StartCycle, j
<1>4. \A d \in Slots : job[d].at \in Nat
  BY DEF PipeTypeOK, Job
<1>5. BlessedEverywhere' /\ WiresTrue' /\ (Answered => Answered')
  BY <1>1, <1>2 DEF BlessedEverywhere, OnlyApprovedCrosses, WiresTrue, Answered, StoodFor
<1>6. StampsPast'
  BY <1>1, <1>2 DEF StampsPast, PipeTypeOK
<1>7. Overtaken'
  <2> SUFFICES ASSUME NEW d \in Slots, Live(d)'
               PROVE  /\ \A b \in Slots : job'[b].at > job'[d].at => job'[d].age >= Period
                      /\ \A e \in Events : row[e].publishedAt # Null /\ row[e].publishedAt > job'[d].at =>
                            job'[d].age >= Period
    BY <1>2 DEF Overtaken
  <2>1. CASE d = c
    <3>1. \A b \in Slots : job'[b].at <= clock
      BY <1>1, <1>2 DEF StampsPast, PipeTypeOK
    <3>2. job'[d].at = clock /\ clock \in Nat /\ \A b \in Slots : job'[b].at \in Nat
      BY <1>1, <1>2, <1>4, <2>1 DEF PipeTypeOK
    <3> QED BY <3>1, <3>2 DEF StampsPast, PipeTypeOK, Listing
  <2>2. CASE d # c
    BY <1>2, <2>2
  <2> QED BY <2>1, <2>2
<1>8. Delivered'
  BY <1>2, <1>5 DEF Delivered, PublishedMeansDelivered
<1> QED BY <1>3, <1>5, <1>6, <1>7, <1>8

\* The batch: rows of the table, as ToWire words them.
Posts(c, batch) ==
    /\ batch \subseteq Due
    /\ \A e \in batch : row[e].content \in Linked
    /\ job' = [job EXCEPT ![c].step = "posted", ![c].flying = TRUE,
                          ![c].rows = {ToWire(e) : e \in batch}]
    /\ UNCHANGED <<row, clock, blessed, app>>

LEMMA PostStep ==
    ASSUME PipeInv, NEW c \in Slots, job[c].step = "started", NEW batch, Posts(c, batch)
    PROVE  PipeInv'
<1> USE DEF PipeInv
<1> DEFINE sent == {ToWire(e) : e \in batch}
<1>1. \A e \in batch : e \in Events /\ row[e].content \in Contents
  BY PipeAssumption DEF Posts, Due
<1>2. \A w \in sent : /\ w \in Wire /\ w.id \in Events
                      /\ w.content = row[w.id].content
                      /\ w.status = "approved" <=> row[w.id].status = "approved"
  <2> SUFFICES ASSUME NEW e \in batch
               PROVE  /\ ToWire(e) \in Wire /\ ToWire(e).id \in Events
                      /\ ToWire(e).content = row[ToWire(e).id].content
                      /\ ToWire(e).status = "approved" <=> row[ToWire(e).id].status = "approved"
    OBVIOUS
  <2> QED BY <1>1 DEF ToWire, Wire
<1> HIDE DEF sent
<1>3. job[c] \in Job
  BY DEF PipeTypeOK
<1>4. /\ job'[c].step = "posted" /\ job'[c].rows = sent /\ job'[c].flying
      /\ job'[c].at = job[c].at /\ job'[c].age = job[c].age
      /\ \A d \in Slots \ {c} : job'[d] = job[d]
      /\ job' \in [Slots -> Job]
  <2>1. job' = [job EXCEPT ![c] = [[[job[c] EXCEPT !.step = "posted"] EXCEPT !.flying = TRUE]
                                      EXCEPT !.rows = sent]]
    BY DEF Posts, PipeTypeOK, sent
  <2>2. sent \subseteq Wire
    BY <1>2, Zenon
  <2>3. \A r \in Job :
           LET q == [[[r EXCEPT !.step = "posted"] EXCEPT !.flying = TRUE] EXCEPT !.rows = sent]
           IN  /\ q \in Job /\ q.step = "posted" /\ q.rows = sent /\ q.flying
               /\ q.at = r.at /\ q.age = r.age
    BY <2>2 DEF Job
  <2>4. \A d \in Slots \ {c} : job'[d] = job[d]
    BY <2>1 DEF PipeTypeOK
  <2> QED BY <1>3, <2>1, <2>3, <2>4, Zenon DEF PipeTypeOK
<1>5. UNCHANGED <<row, clock, blessed, app>>
  BY DEF Posts
<1>6. PipeTypeOK'
  BY <1>4, <1>5 DEF PipeTypeOK
<1>7. BlessedEverywhere'
  <2>1. \A w \in sent : w.status = "approved" => w.content \in blessed[w.id]
    BY <1>2, Zenon DEF BlessedEverywhere
  <2> QED BY <1>4, <1>5, <2>1 DEF BlessedEverywhere, OnlyApprovedCrosses
<1>8. WiresTrue'
  BY <1>2, <1>4, <1>5 DEF WiresTrue, StoodFor
<1>9. Answered => Answered'
  BY <1>4, <1>5 DEF Answered, StoodFor
<1>10. StampsPast' /\ Overtaken'
  <2>1. \A d \in Slots : /\ job'[d].at = job[d].at /\ job'[d].age = job[d].age
                         /\ Live(d)' => Live(d)
    BY <1>4 DEF Live
  <2>2. StampsPast'
    BY <1>5, <2>1 DEF StampsPast
  <2>3. Overtaken'
    BY <1>5, <2>1 DEF Overtaken
  <2> QED BY <2>2, <2>3
<1>11. Delivered'
  BY <1>5, <1>9 DEF Delivered, PublishedMeansDelivered
<1> QED BY <1>6, <1>7, <1>8, <1>10, <1>11

-----------------------------------------------------------------------------
(* The app                                                                 *)

\* A copy is approved only by a row that came approved, and such a row leaves
\* it approved or held.
LEMMA LandingStatus ==
    ASSUME NEW w \in Wire, NEW s \in Landing(w)
    PROVE  /\ s \in {"approved", "expired"} \cup Held
           /\ s = "approved" => w.status = "approved"
           /\ w.status = "approved" => s \in {"approved"} \cup Held
  BY DEF Landing, Wire, Held

\* A batch that lands writes its own rows and no others.
LEMMA Lands ==
    ASSUME PipeTypeOK, NEW c \in Slots, Ingest(c)
    PROVE  /\ app' \in [Events -> Copy]
           /\ \A e \in Events :
                 \/ app'[e] = app[e] /\ \A w \in job[c].rows : w.id # e
                 \/ \E w \in job[c].rows :
                       /\ w.id = e
                       /\ app'[e].content = w.content
                       /\ app'[e].status = "approved" => w.status = "approved"
                       /\ w.status = "approved" => Arrived(app'[e], w.content)
<1>1. job[c].rows \subseteq Wire
  BY JobTypes
<1>2. PICK status \in [job[c].rows -> Held \cup {"approved", "expired"}] :
         /\ \A w \in job[c].rows : status[w] \in Landing(w)
         /\ app' = [e \in Events |->
                      IF \E w \in job[c].rows : w.id = e
                      THEN LET w == CHOOSE w \in job[c].rows : w.id = e
                           IN  [status |-> status[w], content |-> w.content]
                      ELSE app[e]]
  BY DEF Ingest
<1>3. ASSUME NEW e \in Events
      PROVE  /\ app'[e] \in Copy
             /\ \/ app'[e] = app[e] /\ \A w \in job[c].rows : w.id # e
                \/ \E w \in job[c].rows :
                      /\ w.id = e
                      /\ app'[e].content = w.content
                      /\ app'[e].status = "approved" => w.status = "approved"
                      /\ w.status = "approved" => Arrived(app'[e], w.content)
  <2>1. CASE \E w \in job[c].rows : w.id = e
    <3> DEFINE w == CHOOSE w \in job[c].rows : w.id = e
    <3>1. w \in job[c].rows /\ w.id = e
      BY <2>1
    <3>2. app'[e] = [status |-> status[w], content |-> w.content]
      BY <1>2, <2>1
    <3> HIDE DEF w
    <3>3. status[w] \in Landing(w) /\ w \in Wire
      BY <1>1, <1>2, <3>1
    <3>4. app'[e] \in Copy
      BY <3>2, <3>3, LandingStatus DEF Wire, Copy
    <3>5. /\ app'[e].content = w.content
          /\ app'[e].status = "approved" => w.status = "approved"
          /\ w.status = "approved" => Arrived(app'[e], w.content)
      BY <3>2, <3>3, LandingStatus DEF Arrived
    <3> QED BY <3>1, <3>4, <3>5
  <2>2. CASE ~ \E w \in job[c].rows : w.id = e
    BY <1>2, <2>2 DEF PipeTypeOK
  <2> QED BY <2>1, <2>2
<1>4. app' = [e \in Events |-> app'[e]]
  BY <1>2
<1> QED BY <1>3, <1>4

\* No landing breaks what the app shows: the batch is either of an
\* invocation no earlier than the one that vouches for the copy, and then
\* says the same, or too old to land.
LEMMA LandsRight ==
    ASSUME PipeInv, NEW c \in Slots, job[c].flying, Fresh(c), Ingest(c), UNCHANGED row
    PROVE  /\ app' \in [Events -> Copy]
           /\ BlessedEverywhere /\ UNCHANGED blessed => OnlyApprovedCrosses'
           /\ \A w \in job[c].rows : StoodFor(c, w.id) => Arrived(app'[w.id], row[w.id].content)
           /\ Window < Period =>
                 /\ PublishedMeansDelivered'
                 /\ \A d \in Slots : \A w \in job[d].rows :
                       job[d].step = "confirmed" /\ StoodFor(d, w.id) =>
                           Arrived(app'[w.id], row[w.id].content)
<1> USE DEF PipeInv
<1>1. /\ app' \in [Events -> Copy]
      /\ \A e \in Events :
            \/ app'[e] = app[e] /\ \A w \in job[c].rows : w.id # e
            \/ \E w \in job[c].rows :
                  /\ w.id = e
                  /\ app'[e].content = w.content
                  /\ app'[e].status = "approved" => w.status = "approved"
                  /\ w.status = "approved" => Arrived(app'[e], w.content)
  BY Lands
<1>2. /\ \A d \in Slots : job[d].at \in Nat /\ job[d].age \in Nat
      /\ \A d \in Slots : \A w \in job[d].rows : w.id \in Events
      /\ \A e \in Events : row[e].updatedAt \in Nat /\ row[e].publishedAt \in Nat \cup {Null}
  BY JobTypes DEF PipeTypeOK, Listing
<1>3. ASSUME BlessedEverywhere, UNCHANGED blessed PROVE OnlyApprovedCrosses'
  BY <1>1, <1>3 DEF BlessedEverywhere, OnlyApprovedCrosses
<1>4. ASSUME NEW e \in Events, StoodFor(c, e), Arrived(app[e], row[e].content) \/ \E w \in job[c].rows : w.id = e
      PROVE  Arrived(app'[e], row[e].content)
  BY <1>1, <1>4 DEF WiresTrue
<1>5. Live(c) /\ job[c].age <= Window
  BY DEF Live, Fresh
<1>6. ASSUME Window < Period, Answered, PublishedMeansDelivered
      PROVE  /\ PublishedMeansDelivered'
             /\ \A d \in Slots : \A w \in job[d].rows :
                   job[d].step = "confirmed" /\ StoodFor(d, w.id) =>
                       Arrived(app'[w.id], row[w.id].content)
  <2>1. ~ (job[c].age >= Period)
    BY <1>2, <1>5, <1>6, Arithmetic
  <2>2. ASSUME NEW e \in Events, row[e].status = "approved", row[e].publishedAt # Null, ~ Moved(row[e])
        PROVE  Arrived(app'[e], row[e].content)
    <3>1. row[e].publishedAt <= job[c].at
      BY <1>2, <1>5, <2>1, <2>2 DEF Overtaken
    <3>2. StoodFor(c, e)
      BY <1>2, <2>2, <3>1 DEF StoodFor, Moved
    <3>3. Arrived(app[e], row[e].content)
      BY <1>6, <2>2 DEF PublishedMeansDelivered
    <3> QED BY <1>4, <3>2, <3>3
  <2>3. ASSUME NEW d \in Slots, NEW w \in job[d].rows, job[d].step = "confirmed", StoodFor(d, w.id)
        PROVE  Arrived(app'[w.id], row[w.id].content)
    <3>1. job[d].at <= job[c].at
      BY <1>2, <1>5, <2>1 DEF Overtaken
    <3>2. StoodFor(c, w.id)
      BY <1>2, <2>3, <3>1 DEF StoodFor
    <3>3. Arrived(app[w.id], row[w.id].content)
      BY <1>6, <2>3 DEF Answered
    <3> QED BY <1>2, <1>4, <3>2, <3>3
  <2> QED BY <2>2, <2>3 DEF PublishedMeansDelivered
<1> QED BY <1>1, <1>2, <1>3, <1>4, <1>6 DEF Delivered

LEMMA DeliverStep ==
    ASSUME PipeInv, NEW c \in Slots, Deliver(c)
    PROVE  PipeInv'
<1>1. job[c] \in Job /\ job[c].flying /\ job[c].step = "posted" /\ Fresh(c)
      /\ Ingest(c) /\ UNCHANGED <<row, clock, blessed>>
  BY DEF Deliver, PipeInv, PipeTypeOK
<1>2. \A r \in Job :
         LET q == [[r EXCEPT !.flying = FALSE] EXCEPT !.step = "confirmed"]
         IN  /\ q \in Job /\ q.step = "confirmed" /\ ~ q.flying
             /\ q.at = r.at /\ q.age = r.age /\ q.rows = r.rows
  BY DEF Job
<1>3. job' = [job EXCEPT ![c] = [[job[c] EXCEPT !.flying = FALSE] EXCEPT !.step = "confirmed"]]
  BY DEF Deliver, PipeInv, PipeTypeOK
<1>4. \A d \in Slots \ {c} : job'[d] = job[d]
  BY <1>3 DEF PipeInv, PipeTypeOK
<1>5. /\ job' \in [Slots -> Job]
      /\ job'[c].step = "confirmed" /\ job'[c].at = job[c].at
      /\ job'[c].age = job[c].age /\ job'[c].rows = job[c].rows
  BY <1>1, <1>2, <1>3, Zenon DEF PipeInv, PipeTypeOK
<1>6. JobsFade
  <2>1. \A d \in Slots : job[d].age \in Nat
    BY JobTypes DEF PipeInv
  <2> QED BY <1>1, <1>4, <1>5, <2>1 DEF JobsFade, Live
<1>7. /\ app' \in [Events -> Copy] /\ OnlyApprovedCrosses'
      /\ \A w \in job[c].rows : StoodFor(c, w.id) => Arrived(app'[w.id], row[w.id].content)
      /\ Window < Period =>
            /\ PublishedMeansDelivered'
            /\ \A d \in Slots : \A w \in job[d].rows :
                  job[d].step = "confirmed" /\ StoodFor(d, w.id) =>
                      Arrived(app'[w.id], row[w.id].content)
  BY <1>1, LandsRight DEF PipeInv
<1>8. row' \in [Events -> Listing] /\ \A e \in Events : SameListing(e)
  BY <1>1 DEF PipeInv, PipeTypeOK, SameListing
<1>9. /\ PipeTypeOK' /\ BlessedEverywhere' /\ WiresTrue'
      /\ \A d \in Slots : \A w \in job'[d].rows :
            w \in job[d].rows /\ (StoodFor(d, w.id)' => StoodFor(d, w.id))
  BY <1>6, <1>7, <1>8, FadeKeeps
<1>10. StampsPast' /\ Overtaken'
  BY <1>1, <1>6, <1>7, FadeOvertaken
<1>11. Window < Period => Answered'
  BY <1>1, <1>4, <1>7, <1>9 DEF Answered
<1> QED BY <1>7, <1>9, <1>10, <1>11 DEF PipeInv, Delivered

LEMMA DeliverUnheardStep ==
    ASSUME PipeInv, NEW c \in Slots, DeliverUnheard(c)
    PROVE  PipeInv'
<1>1. job[c] \in Job /\ job[c].flying /\ Fresh(c)
      /\ Ingest(c) /\ UNCHANGED <<row, clock, blessed>>
      /\ job' = [job EXCEPT ![c] = Closed([job[c] EXCEPT !.flying = FALSE])]
  BY DEF DeliverUnheard, PipeInv, PipeTypeOK
<1> DEFINE j == [job[c] EXCEPT !.flying = FALSE]
<1>2. /\ j \in Job /\ j.rows = job[c].rows /\ j.at = job[c].at /\ j.age = job[c].age
      /\ j.step = job[c].step /\ ~ j.flying
  BY <1>1 DEF Job
<1> HIDE DEF j
<1>3. JobsFade /\ job'[c].step = "over" /\ \A d \in Slots \ {c} : job'[d] = job[d]
  BY <1>1, <1>2, ClosedFades DEF PipeInv, j
<1>4. /\ app' \in [Events -> Copy] /\ OnlyApprovedCrosses'
      /\ Window < Period =>
            /\ PublishedMeansDelivered'
            /\ \A d \in Slots : \A w \in job[d].rows :
                  job[d].step = "confirmed" /\ StoodFor(d, w.id) =>
                      Arrived(app'[w.id], row[w.id].content)
  BY <1>1, LandsRight DEF PipeInv
<1>5. row' \in [Events -> Listing] /\ \A e \in Events : SameListing(e)
  BY <1>1 DEF PipeInv, PipeTypeOK, SameListing
<1>6. /\ PipeTypeOK' /\ BlessedEverywhere' /\ WiresTrue'
      /\ \A d \in Slots : \A w \in job'[d].rows :
            w \in job[d].rows /\ (StoodFor(d, w.id)' => StoodFor(d, w.id))
  BY <1>3, <1>4, <1>5, FadeKeeps
<1>7. StampsPast' /\ Overtaken'
  BY <1>1, <1>3, <1>4, FadeOvertaken
<1>8. Window < Period => Answered'
  <2> SUFFICES ASSUME Window < Period, NEW d \in Slots, NEW w \in job'[d].rows,
                      job'[d].step = "confirmed", StoodFor(d, w.id)'
               PROVE  Arrived(app'[w.id], row[w.id].content)
    BY <1>1 DEF Answered
  <2>1. job[d].step = "confirmed"
    BY <1>3
  <2>2. w \in job[d].rows /\ StoodFor(d, w.id)
    BY <1>6
  <2> QED BY <1>4, <2>1, <2>2
<1> QED BY <1>4, <1>6, <1>7, <1>8 DEF PipeInv, Delivered

-----------------------------------------------------------------------------
(* Mark, and the ends                                                      *)

LEMMA MarkStep ==
    ASSUME PipeInv, NEW c \in Slots, Mark(c)
    PROVE  PipeInv'
<1> USE DEF PipeInv
<1> DEFINE sent == {w.id : w \in job[c].rows}
<1>1. /\ job[c] \in Job /\ job[c].step = "confirmed"
      /\ row' = [e \in Events |-> IF e \in sent THEN [row[e] EXCEPT !.publishedAt = job[c].at]
                                               ELSE row[e]]
      /\ job' = [job EXCEPT ![c] = Closed(job[c])]
      /\ UNCHANGED <<clock, blessed, app>>
  BY DEF Mark, Over, PipeTypeOK
<1>2. JobsFade /\ job'[c].step = "over" /\ \A d \in Slots \ {c} : job'[d] = job[d]
  BY <1>1, ClosedFades
<1>3. /\ \A d \in Slots : job[d].at \in Nat /\ job[d].age \in Nat
      /\ \A w \in job[c].rows : w.id \in Events
      /\ \A e \in Events : row[e] \in Listing
  BY JobTypes DEF PipeTypeOK
<1>4. \A r \in Listing :
         LET q == [r EXCEPT !.publishedAt = job[c].at]
         IN  /\ q \in Listing /\ q.publishedAt = job[c].at
             /\ q.status = r.status /\ q.content = r.content /\ q.updatedAt = r.updatedAt
  BY <1>3 DEF Listing
<1>5. \A e \in Events : IF e \in sent THEN row'[e] = [row[e] EXCEPT !.publishedAt = job[c].at]
                                    ELSE row'[e] = row[e]
  BY <1>1
<1>6. /\ \A e \in sent : row'[e] \in Listing /\ SameListing(e) /\ row'[e].publishedAt = job[c].at
      /\ \A e \in Events \ sent : row'[e] = row[e]
  <2>1. sent \subseteq Events
    BY <1>3
  <2> HIDE DEF sent
  <2>2. \A e \in sent : row'[e] = [row[e] EXCEPT !.publishedAt = job[c].at]
    BY <1>5, <2>1, Zenon
  <2>3. ASSUME NEW e \in sent
        PROVE  row'[e] \in Listing /\ SameListing(e) /\ row'[e].publishedAt = job[c].at
    <3>1. row[e] \in Listing
      BY <1>3, <2>1
    <3> QED BY <1>4, <2>2, <3>1, Zenon DEF SameListing
  <2>4. \A e \in Events \ sent : row'[e] = row[e]
    BY <1>5
  <2> QED BY <2>3, <2>4
<1>7. row' \in [Events -> Listing] /\ \A e \in Events : SameListing(e)
  <2>1. \A e \in Events : row'[e] \in Listing /\ SameListing(e)
    BY <1>3, <1>6 DEF SameListing
  <2>2. row' = [e \in Events |-> row'[e]]
    BY <1>1
  <2> QED BY <2>1, <2>2
<1>8. app' \in [Events -> Copy] /\ OnlyApprovedCrosses'
  BY <1>1 DEF PipeTypeOK, BlessedEverywhere, OnlyApprovedCrosses
<1>9. /\ PipeTypeOK' /\ BlessedEverywhere' /\ WiresTrue'
      /\ \A d \in Slots : job'[d].at <= clock
      /\ \A d \in Slots : \A w \in job'[d].rows :
            w \in job[d].rows /\ w.id \in Events /\ (StoodFor(d, w.id)' => StoodFor(d, w.id))
      /\ \A b, d \in Slots : Live(d)' /\ job'[b].at > job'[d].at => job'[d].age >= Period
  BY <1>2, <1>7, <1>8, FadeKeeps
<1>10. StampsPast'
  BY <1>1, <1>6, <1>9 DEF StampsPast
<1>11. Overtaken'
  <2> SUFFICES ASSUME NEW d \in Slots, Live(d)', NEW e \in Events,
                      row'[e].publishedAt # Null, row'[e].publishedAt > job'[d].at
               PROVE  job'[d].age >= Period
    BY <1>9 DEF Overtaken
  <2>1. Live(d) /\ job'[d].at = job[d].at /\ job'[d].age >= job[d].age
    BY <1>2 DEF JobsFade
  <2>2. job[d].age >= Period
    BY <1>6, <2>1 DEF Overtaken
  <2>3. job[d].age \in Nat /\ job'[d].age \in Nat
    BY <1>9, Arithmetic DEF PipeTypeOK, Job
  <2> QED BY <2>1, <2>2, <2>3, Arithmetic
<1>12. Answered => Answered'
  <2> SUFFICES ASSUME Answered, NEW d \in Slots, NEW w \in job'[d].rows,
                      job'[d].step = "confirmed", StoodFor(d, w.id)'
               PROVE  Arrived(app'[w.id], row'[w.id].content)
    BY DEF Answered
  <2>1. job[d].step = "confirmed" /\ w \in job[d].rows /\ w.id \in Events /\ StoodFor(d, w.id)
    BY <1>2, <1>9
  <2> QED BY <1>1, <1>7, <2>1 DEF Answered, SameListing
<1>13. Answered /\ PublishedMeansDelivered => PublishedMeansDelivered'
  <2> SUFFICES ASSUME Answered, PublishedMeansDelivered, NEW e \in Events,
                      row'[e].status = "approved", row'[e].publishedAt # Null, ~ Moved(row'[e])
               PROVE  Arrived(app[e], row[e].content)
    BY <1>1, <1>7 DEF PublishedMeansDelivered, SameListing
  <2>1. CASE e \in sent
    <3>1. PICK w \in job[c].rows : w.id = e
      BY <2>1
    <3>2. StoodFor(c, e)
      <4>1. row[e].status = "approved" /\ row[e].updatedAt = row'[e].updatedAt
        BY <1>7 DEF SameListing
      <4>2. row'[e].publishedAt = job[c].at
        BY <1>6, <2>1
      <4>3. row[e].updatedAt \in Nat /\ job[c].at \in Nat
        BY <1>3 DEF Listing
      <4> QED BY <4>1, <4>2, <4>3 DEF StoodFor, Moved
    <3> QED BY <1>1, <3>1, <3>2 DEF Answered
  <2>2. CASE e \notin sent
    BY <1>6, <2>2 DEF PublishedMeansDelivered
  <2> QED BY <2>1, <2>2
<1>14. Delivered'
  BY <1>12, <1>13 DEF Delivered
<1> QED BY <1>9, <1>10, <1>11, <1>14

LEMMA OverStep ==
    ASSUME PipeInv, NEW c \in Slots, Over(c), UNCHANGED <<row, clock, blessed, app>>
    PROVE  PipeInv'
<1>1. job[c] \in Job /\ job' = [job EXCEPT ![c] = Closed(job[c])]
  BY DEF Over, PipeInv, PipeTypeOK
<1>2. JobsFade /\ job'[c].step = "over" /\ \A d \in Slots \ {c} : job'[d] = job[d]
  BY <1>1, ClosedFades DEF PipeInv
<1> QED BY <1>2, FadeStep

LEMMA LoseStep ==
    ASSUME PipeInv, NEW c \in Slots, Lose(c)
    PROVE  PipeInv'
<1> DEFINE j == [job[c] EXCEPT !.flying = FALSE]
<1>1. job[c] \in Job /\ job' = [job EXCEPT ![c] = Closed(j)]
  BY DEF Lose, PipeInv, PipeTypeOK
<1>2. /\ j \in Job /\ j.rows = job[c].rows /\ j.at = job[c].at /\ j.age = job[c].age
      /\ j.step = job[c].step /\ ~ j.flying
  BY <1>1 DEF Job
<1> HIDE DEF j
<1>3. JobsFade /\ job'[c].step = "over" /\ \A d \in Slots \ {c} : job'[d] = job[d]
  BY <1>1, <1>2, ClosedFades DEF PipeInv, Lose
<1> QED BY <1>3, FadeStep DEF Lose

LEMMA TickStep == ASSUME PipeInv, Tick PROVE PipeInv'
<1>1. \A r \in Job : \A m \in 0..Horizon :
         LET q == [r EXCEPT !.age = m]
         IN  /\ q \in Job /\ q.age = m /\ q.step = r.step /\ q.at = r.at
             /\ q.rows = r.rows /\ q.flying = r.flying
  BY DEF Job
<1>2. \A c \in Slots : job'[c] = [job[c] EXCEPT !.age = IF job[c].age < Horizon THEN job[c].age + 1
                                                                          ELSE job[c].age]
  BY DEF Tick
<1>3. ASSUME NEW c \in Slots
      PROVE  /\ job'[c] \in Job /\ job'[c].age >= job[c].age /\ job'[c].step = job[c].step
             /\ job'[c].at = job[c].at /\ job'[c].rows = job[c].rows /\ job'[c].flying = job[c].flying
  <2> DEFINE n == IF job[c].age < Horizon THEN job[c].age + 1 ELSE job[c].age
  <2>1. job[c] \in Job /\ n \in 0..Horizon /\ n >= job[c].age
    BY Arithmetic DEF PipeInv, PipeTypeOK, Job
  <2>2. job'[c] = [job[c] EXCEPT !.age = n]
    BY <1>2
  <2> HIDE DEF n
  <2>3. LET q == [job[c] EXCEPT !.age = n]
        IN  /\ q \in Job /\ q.age = n /\ q.step = job[c].step /\ q.at = job[c].at
            /\ q.rows = job[c].rows /\ q.flying = job[c].flying
    BY <1>1, <2>1
  <2>4. /\ job'[c] \in Job /\ job'[c].age = n /\ job'[c].step = job[c].step
        /\ job'[c].at = job[c].at /\ job'[c].rows = job[c].rows /\ job'[c].flying = job[c].flying
    BY <2>2, <2>3, Zenon
  <2> QED BY <2>1, <2>4
<1>4. job' = [c \in Slots |-> job'[c]]
  BY DEF Tick
<1>5. JobsFade
  BY <1>3, <1>4 DEF JobsFade, Live, Tick
<1> QED BY <1>3, <1>5, FadeStep DEF Tick

\* The app's own review changes no content and takes no copy away.
LEMMA AppDecidesStep ==
    ASSUME PipeInv, NEW e \in Events, NEW to \in {"approved", "rejected"}, AppDecides(e, to)
    PROVE  PipeInv'
<1> USE DEF PipeInv
<1>1. /\ app[e] \in Copy /\ app[e].status = "needs_review"
      /\ app' = [app EXCEPT ![e].status = to]
      /\ UNCHANGED <<row, clock, job>>
  BY DEF AppDecides, PipeTypeOK
<1>2. /\ app'[e] \in Copy /\ app'[e].status = to /\ app'[e].content = app[e].content
      /\ app' \in [Events -> Copy]
      /\ \A f \in Events \ {e} : app'[f] = app[f]
  <2>1. \A a \in Copy : a.status = "needs_review" =>
                        LET b == [a EXCEPT !.status = to]
                        IN  b \in Copy /\ b.status = to /\ b.content = a.content
    BY DEF Copy, NoCopy, Held
  <2>2. app' = [app EXCEPT ![e] = [app[e] EXCEPT !.status = to]]
    BY <1>1 DEF PipeTypeOK
  <2> HIDE DEF PipeInv
  <2>3. app'[e] = [app[e] EXCEPT !.status = to] /\ \A f \in Events \ {e} : app'[f] = app[f]
    BY <2>2 DEF PipeInv, PipeTypeOK
  <2>4. app'[e] \in Copy /\ app'[e].status = to /\ app'[e].content = app[e].content
    BY <1>1, <2>1, <2>3, Zenon
  <2>5. app' \in [Events -> Copy]
    BY <2>2, <2>3, <2>4 DEF PipeInv, PipeTypeOK
  <2> QED BY <2>3, <2>4, <2>5
<1>3. /\ blessed' \in [Events -> SUBSET Contents]
      /\ \A f \in Events : blessed[f] \subseteq blessed'[f]
      /\ to = "approved" => app[e].content \in blessed'[e]
  <2>1. app[e].content \in Contents
    BY <1>1 DEF Copy, NoCopy
  <2> QED BY <1>1, <2>1 DEF AppDecides, PipeTypeOK
<1>4. PipeTypeOK'
  BY <1>1, <1>2, <1>3 DEF PipeTypeOK
<1>5. BlessedEverywhere'
  <2>1. \A c \in Slots : job[c].rows \subseteq Wire
    BY JobTypes
  <2> QED BY <1>1, <1>2, <1>3, <2>1 DEF BlessedEverywhere, OnlyApprovedCrosses, Wire
<1>6. \A f \in Events : \A x : Arrived(app[f], x) => Arrived(app'[f], x)
  BY <1>2 DEF Arrived, Held
<1>7. StampsPast' /\ WiresTrue' /\ Overtaken'
  BY <1>1 DEF AppDecides, StampsPast, WiresTrue, StoodFor, Overtaken, Live
<1>8. Answered => Answered'
  BY <1>1, <1>6, JobTypes DEF Answered, StoodFor
<1>9. PublishedMeansDelivered => PublishedMeansDelivered'
  BY <1>1, <1>6 DEF PublishedMeansDelivered
<1>10. Delivered'
  BY <1>8, <1>9 DEF Delivered
<1> QED BY <1>4, <1>5, <1>7, <1>10

LEMMA SelectStep ==
    ASSUME PipeInv, NEW c \in Slots, Select(c)
    PROVE  PipeInv'
<1>1. CASE Over(c)
  BY <1>1, OverStep DEF Select
<1>2. CASE ~ Over(c)
  <2>1. PICK batch \in Oldest(Due, BatchCap) : Posts(c, batch)
    BY <1>2 DEF Select, Posts, Oldest
  <2> QED BY <2>1, PostStep DEF Select
<1> QED BY <1>1, <1>2

LEMMA PipeStep == PipeInv /\ [PipeNext]_pipeVars => PipeInv'
<1> SUFFICES ASSUME PipeInv, [PipeNext]_pipeVars PROVE PipeInv'
  OBVIOUS
<1>1. CASE Editors
  <2>1. PICK e \in Events : RowMoves(e)
    BY <1>1, EditorsMove DEF Editors, PipeInv
  <2> QED BY <2>1, RowStep
<1>2. ASSUME NEW c \in Slots, StartCycle(c) PROVE PipeInv'
  BY <1>2, StartStep
<1>3. ASSUME NEW c \in Slots, Select(c) PROVE PipeInv'
  BY <1>3, SelectStep
<1>4. ASSUME NEW c \in Slots, Mark(c) PROVE PipeInv'
  BY <1>4, MarkStep
<1>5. ASSUME NEW c \in Slots, Die(c) PROVE PipeInv'
  BY <1>5, OverStep DEF Die
<1>6. ASSUME NEW c \in Slots, Deliver(c) PROVE PipeInv'
  BY <1>6, DeliverStep
<1>7. ASSUME NEW c \in Slots, DeliverUnheard(c) PROVE PipeInv'
  BY <1>7, DeliverUnheardStep
<1>8. ASSUME NEW c \in Slots, Lose(c) PROVE PipeInv'
  BY <1>8, LoseStep
<1>9. CASE AppReview
  BY <1>9, AppDecidesStep DEF AppReview
<1>10. CASE Tick
  BY <1>10, TickStep
<1>11. CASE UNCHANGED pipeVars
  BY <1>11 DEF pipeVars, PipeInv, PipeTypeOK, BlessedEverywhere, OnlyApprovedCrosses, StampsPast,
               WiresTrue, StoodFor, Overtaken, Live, Delivered, Answered, PublishedMeansDelivered,
               Moved
<1> QED BY <1>1, <1>2, <1>3, <1>4, <1>5, <1>6, <1>7, <1>8, <1>9, <1>10, <1>11
       DEF PipeNext, Pipe

-----------------------------------------------------------------------------
(* Theorems                                                                *)

THEOREM PipeInvariant == PipeSpec => []PipeInv
  BY InitPipe, PipeStep, PTL DEF PipeSpec

\* Every table and invocation keeps its shape: a batch holds wire rows and
\* nothing else, an invocation's age stays within the horizon.
THEOREM PipeTypeCorrect == PipeSpec => []PipeTypeOK
  BY PipeInvariant, PTL DEF PipeInv

\* "A draft never crosses" (publisher/src/selection.js): whatever batches are
\* late, lost or overtaken, and whatever the window and the cron period are,
\* the app shows no content that was never approved.
THEOREM DraftsStay == PipeSpec => []OnlyApprovedCrosses
  BY PipeInvariant, PTL DEF PipeInv, BlessedEverywhere

\* published_at tells the truth when the freshness window is shorter than the
\* cron period (five minutes and ten, in sign.js and wrangler.toml).
THEOREM MarksTellTheTruth ==
    ASSUME Window < Period
    PROVE  PipeSpec => []PublishedMeansDelivered
<1>1. PipeInv => PublishedMeansDelivered
  BY DEF PipeInv, Delivered
<1> QED BY <1>1, PipeInvariant, PTL
=============================================================================
