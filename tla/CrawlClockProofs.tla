--------------------------- MODULE CrawlClockProofs ---------------------------
(***************************************************************************)
(* What the rate-limit clock guarantees for any number of Workers and       *)
(* companies, any intervals, any wait budget and any lag shorter than the   *)
(* shortest interval.                                                      *)
(*                                                                         *)
(* The heart of it: a Worker that holds a slot read its clock at most       *)
(* MaxLag ago, and a claim on the same company needs a reading a whole      *)
(* interval later; so nobody else claims before the holder has sent.        *)
(***************************************************************************)
EXTENDS CrawlClock, TLAPS

\* A call under way is a call to some company.
Attended == \A w \in Workers : at[w] # "idle" => company[w] \in Companies

\* Between reading the clock and acting on it at most MaxLag passes.
Prompt ==
  \A w \in Workers : at[w] \in {"asking", "granted"} => read[w] <= now /\ now <= read[w] + MaxLag

ClaimsPast == \A c \in Companies : claimed[c] # Never => claimed[c] <= now

\* Whoever was granted a slot is the last to have claimed it, and alone.
GrantIsLast == \A w \in Workers : at[w] = "granted" => claimed[company[w]] = read[w]

OneGrant ==
  \A v, w \in Workers : v # w /\ at[v] = "granted" /\ at[w] = "granted" => company[v] # company[w]

\* A request follows its claim; and the one before a grant is old enough.
SentSoon ==
  \A c \in Companies : sent[c] # Never => claimed[c] # Never /\ sent[c] <= claimed[c] + MaxLag

GrantApart ==
  \A w \in Workers : at[w] = "granted" /\ sent[company[w]] # Never =>
    sent[company[w]] <= (read[w] - Interval[company[w]]) + MaxLag

\* A Worker that nobody has overtaken faces a claim from before it came, and
\* reads the clock when it comes or when that claim has run out.
Came(w) == due[w] - Budget

Patient(w) ==
  /\ claimed[company[w]] # Never => claimed[company[w]] <= Came(w)
  /\ Interval[company[w]] <= Budget =>
       /\ at[w] = "sleeping" => wake[w] >= Came(w) + Interval[company[w]]
       /\ at[w] = "asking" => \/ read[w] = Came(w)
                              \/ read[w] >= Came(w) + Interval[company[w]]

Waited == \A w \in Workers : at[w] \in {"asking", "sleeping"} =>
            Came(w) <= now /\ (~rival[w] => Patient(w))

ClockInv ==
  /\ ClockTypeOK
  /\ Attended /\ Prompt /\ ClaimsPast
  /\ GrantIsLast /\ OneGrant /\ SentSoon /\ GrantApart
  /\ Waited /\ RefusedOnlyIfRivalled

-----------------------------------------------------------------------------

LEMMA ClockConstants ==
  /\ \A c \in Companies : Interval[c] \in Nat /\ Interval[c] > 0 /\ MaxLag < Interval[c]
  /\ MaxLag \in Nat /\ Budget \in Nat /\ Horizon \in Nat
  /\ Never \notin Int /\ Nobody \notin Companies
  BY ClockAssumption

LEMMA ClockTypes ==
  ASSUME ClockTypeOK
  PROVE  /\ now \in Nat
         /\ \A c \in Companies : claimed[c] \in Nat \cup {Never} /\ sent[c] \in Nat \cup {Never}
         /\ \A w \in Workers :
              /\ at[w] \in Places /\ company[w] \in Companies \cup {Nobody}
              /\ read[w] \in Nat /\ due[w] \in Nat /\ wake[w] \in Nat /\ rival[w] \in BOOLEAN
  BY ClockConstants DEF ClockTypeOK

LEMMA InitClock == Init => ClockInv
  BY ClockConstants
  DEF Init, ClockInv, ClockTypeOK, Places, Attended, Prompt, ClaimsPast, GrantIsLast, OneGrant,
      SentSoon, GrantApart, Waited, RefusedOnlyIfRivalled

LEMMA GoneStep == ASSUME ClockInv, NEW w \in Workers, Gone(w) PROVE ClockInv'
<1> USE DEF ClockInv
<1>1. ClockTypeOK'
  BY DEF ClockTypeOK, Gone, Places
<1>2. Attended' /\ Prompt' /\ ClaimsPast' /\ SentSoon'
  BY DEF Attended, Prompt, ClaimsPast, SentSoon, Gone, ClockTypeOK
<1>3. GrantIsLast' /\ OneGrant' /\ GrantApart'
  BY DEF GrantIsLast, OneGrant, GrantApart, Gone, ClockTypeOK
<1>4. Waited' /\ RefusedOnlyIfRivalled'
  BY DEF Waited, Patient, Came, RefusedOnlyIfRivalled, Gone, ClockTypeOK
<1> QED BY <1>1, <1>2, <1>3, <1>4

LEMMA AskStep == ASSUME ClockInv, NEW w \in Workers, NEW c \in Companies, Ask(w, c) PROVE ClockInv'
<1> USE ClockTypes, ClockConstants DEF ClockInv
<1>1. ClockTypeOK'
  BY DEF ClockTypeOK, Ask, Places
<1>2. Attended' /\ Prompt' /\ ClaimsPast' /\ SentSoon'
  BY DEF Attended, Prompt, ClaimsPast, SentSoon, Ask, ClockTypeOK
<1>3. GrantIsLast' /\ OneGrant' /\ GrantApart'
  BY DEF GrantIsLast, OneGrant, GrantApart, Ask, ClockTypeOK
<1>4. Waited' /\ RefusedOnlyIfRivalled'
  BY DEF Waited, Patient, Came, RefusedOnlyIfRivalled, ClaimsPast, Ask, ClockTypeOK
<1> QED BY <1>1, <1>2, <1>3, <1>4

LEMMA ClaimStep == ASSUME ClockInv, NEW w \in Workers, Claim(w) PROVE ClockInv'
<1> USE ClockTypes, ClockConstants DEF ClockInv
<1> DEFINE c == company[w]
<1>1. c \in Companies /\ read[w] <= now /\ (claimed[c] # Never => claimed[c] <= read[w] - Interval[c])
  BY DEF Claim, Free, Attended, Prompt
<1>2. \A v \in Workers : at[v] = "granted" => company[v] # c
  <2> SUFFICES ASSUME NEW v \in Workers, at[v] = "granted", company[v] = c PROVE FALSE
    OBVIOUS
  <2>1. claimed[c] = read[v] /\ now <= read[v] + MaxLag
    BY DEF GrantIsLast, Prompt
  <2> QED BY <1>1, <2>1
<1>3. ClockTypeOK'
  BY <1>1 DEF ClockTypeOK, Claim, Places
<1>4. Attended' /\ Prompt' /\ ClaimsPast'
  BY <1>1 DEF Attended, Prompt, ClaimsPast, Claim, ClockTypeOK
<1>5. GrantIsLast' /\ OneGrant'
  BY <1>1, <1>2 DEF GrantIsLast, OneGrant, Claim, ClockTypeOK
<1>6. SentSoon' /\ GrantApart'
  BY <1>1, <1>2 DEF SentSoon, GrantApart, Claim, ClockTypeOK
<1>7. Waited'
  <2>1. /\ at' = [at EXCEPT ![w] = "granted"] /\ claimed' = [claimed EXCEPT ![c] = read[w]]
        /\ rival' = [v \in Workers |-> IF v = w THEN FALSE ELSE rival[v] \/ company[v] = c]
        /\ due' = [due EXCEPT ![w] = 0]
        /\ UNCHANGED <<now, company, read, wake>>
    BY DEF Claim
  <2>2. SUFFICES ASSUME NEW v \in Workers, at'[v] \in {"asking", "sleeping"}
                 PROVE  Came(v)' <= now' /\ (~rival'[v] => Patient(v)')
    BY DEF Waited
  <2>3. v # w /\ at[v] = at'[v] /\ due'[v] = due[v]
    BY <2>1, <2>2 DEF ClockTypeOK
  <2>4. Came(v) <= now /\ Came(v)' = Came(v) /\ (~rival[v] => Patient(v))
    BY <2>1, <2>2, <2>3 DEF Waited, Came
  <2>5. CASE rival'[v]
    BY <2>1, <2>4, <2>5
  <2>6. CASE ~rival'[v]
    <3>1. ~rival[v] /\ company[v] # c
      BY <2>1, <2>3, <2>6
    <3>2. claimed'[company[v]] = claimed[company[v]] /\ company'[v] = company[v]
      BY <2>1, <2>2, <2>3, <3>1 DEF Attended, ClockTypeOK
    <3> QED BY <2>1, <2>3, <2>4, <3>1, <3>2 DEF Patient
  <2> QED BY <2>5, <2>6
<1>8. RefusedOnlyIfRivalled'
  BY <1>1 DEF RefusedOnlyIfRivalled, Claim, ClockTypeOK
<1> QED BY <1>3, <1>4, <1>5, <1>6, <1>7, <1>8

LEMMA RefusedStep == ASSUME ClockInv, NEW w \in Workers, Refused(w) PROVE ClockInv'
<1> USE ClockTypes, ClockConstants DEF ClockInv
<1> DEFINE c == company[w]
<1>1. /\ c \in Companies /\ read[w] <= now /\ now <= read[w] + MaxLag
      /\ claimed[c] # Never /\ ~ (claimed[c] <= read[w] - Interval[c])
  BY DEF Refused, Free, Attended, Prompt
<1>2. Came(w) <= now /\ (~rival[w] => Patient(w))
  BY DEF Waited, Refused
<1>3. due[w] <= now => at' = [at EXCEPT ![w] = "denied"] /\ wake' = wake
  BY DEF Refused
<1>4. ~ (due[w] <= now) => /\ at' = [at EXCEPT ![w] = "sleeping"]
                           /\ wake' = [wake EXCEPT ![w] = now + Lesser(Interval[c], due[w] - now)]
  BY DEF Refused
<1>5. UNCHANGED <<now, claimed, sent, company, read, due, rival>> /\ at[w] = "asking"
  BY DEF Refused
<1>6. ~ (due[w] <= now) => /\ Lesser(Interval[c], due[w] - now) \in Nat
                           /\ Lesser(Interval[c], due[w] - now) <= due[w] - now
                           /\ \/ Lesser(Interval[c], due[w] - now) = Interval[c]
                              \/ now + Lesser(Interval[c], due[w] - now) = due[w]
  BY <1>1 DEF Lesser
<1>7. ClockTypeOK'
  <2>1. CASE due[w] <= now
    BY <2>1, <1>3, <1>5 DEF ClockTypeOK, Places
  <2>2. CASE ~ (due[w] <= now)
    BY <2>2, <1>4, <1>5, <1>6 DEF ClockTypeOK, Places
  <2> QED BY <2>1, <2>2
<1>8. Attended' /\ Prompt' /\ ClaimsPast' /\ SentSoon' /\ GrantIsLast' /\ OneGrant' /\ GrantApart'
  <2>1. \A v \in Workers : at'[v] # at[v] => at[v] = "asking" /\ at'[v] \in {"denied", "sleeping"}
    BY <1>3, <1>4, <1>5 DEF ClockTypeOK
  <2> QED
    BY <1>5, <2>1 DEF Attended, Prompt, ClaimsPast, SentSoon, GrantIsLast, OneGrant, GrantApart
\* The sleep ends an interval after the claim that was refused, or with the budget.
<1>9. Waited'
  <2>1. SUFFICES ASSUME NEW v \in Workers, at'[v] \in {"asking", "sleeping"}
                 PROVE  Came(v)' <= now' /\ (~rival'[v] => Patient(v)')
    BY DEF Waited
  <2>2. Came(v)' = Came(v)
    BY <1>5 DEF Came
  <2>3. CASE v # w
    <3>1. at'[v] = at[v] /\ wake'[v] = wake[v]
      BY <1>3, <1>4, <2>3 DEF ClockTypeOK
    <3> QED BY <1>5, <2>1, <2>2, <3>1 DEF Waited, Patient
  <2>4. CASE v = w
    <3>1. ~ (due[w] <= now) /\ at'[w] = "sleeping"
      BY <1>3, <1>4, <2>1, <2>4 DEF ClockTypeOK
    <3>2. wake'[w] = now + Lesser(Interval[c], due[w] - now)
      BY <1>4, <3>1 DEF ClockTypeOK
    <3>3. Interval[c] <= Budget => wake'[w] >= Came(w) + Interval[c]
      BY <1>1, <1>2, <1>6, <3>1, <3>2 DEF Came
    <3> QED BY <1>1, <1>2, <1>5, <2>2, <2>4, <3>1, <3>3 DEF Patient
  <2> QED BY <2>3, <2>4
\* A refusal at the end of the budget, unrivalled, asks for more than the budget.
<1>10. RefusedOnlyIfRivalled'
  <2>1. CASE due[w] <= now
    <3>1. SUFFICES ASSUME ~rival[w], Interval[c] <= Budget PROVE FALSE
      BY <1>1, <1>3, <1>5, <2>1 DEF RefusedOnlyIfRivalled, ClockTypeOK
    <3>2. claimed[c] <= Came(w) /\ (read[w] = Came(w) \/ read[w] >= Came(w) + Interval[c])
      BY <1>1, <1>2, <1>5, <3>1 DEF Patient
    <3>3. CASE read[w] = Came(w)
      BY <1>1, <2>1, <3>1, <3>3 DEF Came
    <3>4. CASE read[w] >= Came(w) + Interval[c]
      BY <1>1, <3>2, <3>4 DEF Came
    <3> QED BY <3>2, <3>3, <3>4
  <2>2. CASE ~ (due[w] <= now)
    BY <1>4, <1>5, <2>2 DEF RefusedOnlyIfRivalled, ClockTypeOK
  <2> QED BY <2>1, <2>2
<1> QED BY <1>7, <1>8, <1>9, <1>10

LEMMA WakeStep == ASSUME ClockInv, NEW w \in Workers, Wake(w) PROVE ClockInv'
<1> USE ClockTypes, ClockConstants DEF ClockInv
<1>1. ClockTypeOK'
  BY DEF ClockTypeOK, Wake, Places
<1>2. Attended' /\ Prompt' /\ ClaimsPast' /\ SentSoon'
  BY DEF Attended, Prompt, ClaimsPast, SentSoon, Wake, ClockTypeOK
<1>3. GrantIsLast' /\ OneGrant' /\ GrantApart'
  BY DEF GrantIsLast, OneGrant, GrantApart, Wake, ClockTypeOK
<1>4. Waited' /\ RefusedOnlyIfRivalled'
  BY DEF Waited, Patient, Came, RefusedOnlyIfRivalled, Attended, Wake, ClockTypeOK
<1> QED BY <1>1, <1>2, <1>3, <1>4

LEMMA SendStep == ASSUME ClockInv, NEW w \in Workers, Send(w) PROVE ClockInv'
<1> USE ClockTypes, ClockConstants DEF ClockInv
<1>1. company[w] \in Companies
  BY DEF Send, Attended
<1>2. ClockTypeOK'
  BY <1>1 DEF ClockTypeOK, Send, Places
<1>3. Attended' /\ Prompt' /\ ClaimsPast' /\ SentSoon'
  BY <1>1 DEF Attended, Prompt, ClaimsPast, SentSoon, GrantIsLast, Send, ClockTypeOK
<1>4. GrantIsLast' /\ OneGrant' /\ GrantApart'
  BY <1>1 DEF GrantIsLast, OneGrant, GrantApart, Send, ClockTypeOK
<1>5. Waited' /\ RefusedOnlyIfRivalled'
  BY DEF Waited, Patient, Came, RefusedOnlyIfRivalled, Send, ClockTypeOK
<1> QED BY <1>2, <1>3, <1>4, <1>5

LEMMA TickStep == ASSUME ClockInv, Tick PROVE ClockInv'
<1> USE ClockTypes, ClockConstants DEF ClockInv
<1>1. now' = now + 1 /\ UNCHANGED <<claimed, sent, at, company, read, due, wake, rival>>
  BY DEF Tick, worker
<1>2. ClockTypeOK'
  BY <1>1 DEF ClockTypeOK, Tick
<1>3. Attended' /\ Prompt' /\ ClaimsPast' /\ SentSoon'
  BY <1>1 DEF Attended, Prompt, ClaimsPast, SentSoon, Tick
<1>4. GrantIsLast' /\ OneGrant' /\ GrantApart'
  BY <1>1 DEF GrantIsLast, OneGrant, GrantApart
<1>5. Waited' /\ RefusedOnlyIfRivalled'
  BY <1>1 DEF Waited, Patient, Came, RefusedOnlyIfRivalled
<1> QED BY <1>2, <1>3, <1>4, <1>5

LEMMA ClockStutters == ASSUME ClockInv, UNCHANGED vars PROVE ClockInv'
  BY DEF ClockInv, ClockTypeOK, Attended, Prompt, ClaimsPast, GrantIsLast, OneGrant, SentSoon,
         GrantApart, Waited, Patient, Came, RefusedOnlyIfRivalled, vars, worker

LEMMA ClockStep == ClockInv /\ [Next]_vars => ClockInv'
<1> SUFFICES ASSUME ClockInv, [Next]_vars PROVE ClockInv'
  OBVIOUS
<1>1. CASE Tick
  BY <1>1, TickStep
<1>2. ASSUME NEW w \in Workers, Step(w) PROVE ClockInv'
  <2>1. ASSUME NEW c \in Companies, Ask(w, c) PROVE ClockInv'
    BY <2>1, AskStep
  <2>2. CASE Return(w) \/ Kill(w)
    BY <2>2, GoneStep DEF Return, Kill
  <2> QED BY <1>2, <2>1, <2>2, ClaimStep, RefusedStep, WakeStep, SendStep DEF Step
<1>3. CASE UNCHANGED vars
  BY <1>3, ClockStutters
<1> QED BY <1>1, <1>2, <1>3 DEF Next

\* All of it at once: the clock's inductive invariant.
THEOREM ClockInvariant == Spec => []ClockInv
  BY InitClock, ClockStep, PTL DEF Spec

\* The types, and no sleeper's timer is set past the end of its wait budget
\* (Math.min in d1ClaimSlot).
THEOREM ClockTypeCorrect == Spec => []ClockTypeOK
<1>1. ClockInv => ClockTypeOK
  BY DEF ClockInv
<1> QED BY <1>1, ClockInvariant, PTL

\* However many Workers overlap, a call that gives up with rateLimited was
\* overtaken by another while it waited, or its company's interval is longer
\* than the whole budget (d1ClaimSlot's loop).
THEOREM RefusalIsRivalry == Spec => []RefusedOnlyIfRivalled
<1>1. ClockInv => RefusedOnlyIfRivalled
  BY DEF ClockInv
<1> QED BY <1>1, ClockInvariant, PTL

-----------------------------------------------------------------------------

LEMMA InitLaw == Init => SpacedUpToLag!LawInit
  BY DEF Init, SpacedUpToLag!LawInit

LEMMA StepLaw == ASSUME ClockInv, [Next]_vars PROVE [SpacedUpToLag!LawNext]_<<now, sent>>
<1> USE ClockTypes, ClockConstants
<1>1. CASE Tick
  BY <1>1 DEF Tick, SpacedUpToLag!LawNext, SpacedUpToLag!Pass
<1>2. ASSUME NEW w \in Workers, Send(w) PROVE SpacedUpToLag!LawNext
  <2>1. company[w] \in Companies /\ read[w] <= now
    BY <1>2 DEF Send, ClockInv, Attended, Prompt
  <2>2. sent[company[w]] # Never => now - sent[company[w]] >= Interval[company[w]] - MaxLag
    BY <1>2, <2>1 DEF Send, ClockInv, GrantApart
  <2>3. SpacedUpToLag!Request(company[w])
    BY <1>2, <2>1, <2>2 DEF Send, SpacedUpToLag!Request
  <2> QED BY <2>1, <2>3 DEF SpacedUpToLag!LawNext
<1>3. ASSUME NEW w \in Workers, Step(w), ~Send(w) PROVE UNCHANGED <<now, sent>>
  BY <1>3 DEF Step, Ask, Claim, Refused, Wake, Return, Kill, Gone
<1>4. CASE UNCHANGED vars
  BY <1>4 DEF vars
<1> QED BY <1>1, <1>2, <1>3, <1>4 DEF Next

\* The law of the crawl, up to the lag: two requests to one company leave an
\* interval less MaxLag apart, and no request leaves otherwise (limiter.js and
\* gatedFetch implement CrawlLaw).
THEOREM ClockKeepsLaw == Spec => KeepsLaw
  BY InitLaw, StepLaw, ClockInvariant, ClockTypes, PTL DEF Spec, KeepsLaw, SpacedUpToLag!Law
===============================================================================
