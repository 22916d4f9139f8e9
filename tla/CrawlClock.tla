------------------------------ MODULE CrawlClock ------------------------------
(***************************************************************************)
(* The crawl's rate limit: sources.last_claimed_at, one clock per company   *)
(* that every Worker invocation claims before it sends a request            *)
(* (limiter.js, d1ClaimSlot in d1adapters.js, gatedFetch in fetchgate.js).  *)
(*                                                                         *)
(* A Worker reads its own clock, and the UPDATE that compares and writes    *)
(* that reading runs later; the request leaves later still.  MaxLag bounds  *)
(* the two together: nothing in the code does.  A Worker may be killed      *)
(* anywhere, with a slot claimed and never used.  Time is counted in units  *)
(* and stops at Horizon.  A robots.txt read claims no slot and is not a     *)
(* request in the sense of this module.                                     *)
(***************************************************************************)
EXTENDS Integers

CONSTANTS
  Workers, Companies, Nobody,
  Interval,               \* minIntervalSeconds of each company
  Budget,                 \* waitBudgetMs
  MaxLag,                 \* from reading the clock to the request's leaving
  Horizon,
  Never                   \* last_claimed_at IS NULL

ASSUME ClockAssumption ==
  /\ Interval \in [Companies -> Nat \ {0}]
  /\ Budget \in Nat \ {0} /\ MaxLag \in Nat /\ Horizon \in Nat
  /\ \A c \in Companies : MaxLag < Interval[c]
  /\ Never \notin Int /\ Nobody \notin Companies

VARIABLES
  now,                    \* the time
  claimed,                \* sources.last_claimed_at
  sent,                   \* history: when the last request left
  at, company, read, due, wake,   \* each Worker: where it is, and its locals
  rival                   \* history: somebody else claimed while it waited

worker == <<at, company, read, due, wake>>
vars == <<now, claimed, sent, worker, rival>>

Places == {"idle", "asking", "sleeping", "granted", "requesting", "denied"}
Lesser(a, b) == IF a <= b THEN a ELSE b

\* A call is over and its locals with it.
Gone(w) ==
  /\ at' = [at EXCEPT ![w] = "idle"]
  /\ company' = [company EXCEPT ![w] = Nobody]
  /\ read' = [read EXCEPT ![w] = 0]
  /\ due' = [due EXCEPT ![w] = 0]
  /\ wake' = [wake EXCEPT ![w] = 0]
  /\ rival' = [rival EXCEPT ![w] = FALSE]
  /\ UNCHANGED <<now, claimed, sent>>

\* Mutant: any earlier claim will do.
FreeAnyAge(c, t) == claimed[c] # Never => claimed[c] <= t

\* claimRateLimitSlot's WHERE
Free(c, t) == claimed[c] # Never => claimed[c] <= t - Interval[c]

-----------------------------------------------------------------------------
\* gatedFetch: a content request asks for its company's slot first.
Ask(w, c) ==
  /\ at[w] = "idle"
  /\ at' = [at EXCEPT ![w] = "asking"]
  /\ company' = [company EXCEPT ![w] = c]
  /\ read' = [read EXCEPT ![w] = now]
  /\ due' = [due EXCEPT ![w] = now + Budget]
  /\ UNCHANGED <<now, claimed, sent, wake, rival>>

\* The UPDATE changed the row: this call has the slot.
Claim(w) ==
  LET c == company[w] IN
  /\ at[w] = "asking" /\ Free(c, read[w])
  /\ claimed' = [claimed EXCEPT ![c] = read[w]]
  /\ at' = [at EXCEPT ![w] = "granted"]
  /\ rival' = [v \in Workers |-> IF v = w THEN FALSE ELSE rival[v] \/ company[v] = c]
  /\ due' = [due EXCEPT ![w] = 0]
  /\ UNCHANGED <<now, sent, company, read, wake>>

\* Mutant: the first refusal is the answer.
RefusedAtOnce(w) ==
  /\ at[w] = "asking" /\ ~Free(company[w], read[w])
  /\ at' = [at EXCEPT ![w] = "denied"]
  /\ UNCHANGED <<now, claimed, sent, company, read, due, wake, rival>>

\* Mutant: a whole interval is slept, whatever is left of the budget.
RefusedSleepsOn(w) ==
  /\ at[w] = "asking" /\ ~Free(company[w], read[w])
  /\ IF due[w] <= now
       THEN at' = [at EXCEPT ![w] = "denied"] /\ UNCHANGED wake
       ELSE /\ at' = [at EXCEPT ![w] = "sleeping"]
            /\ wake' = [wake EXCEPT ![w] = now + Interval[company[w]]]
  /\ UNCHANGED <<now, claimed, sent, company, read, due, rival>>

\* It changed nothing: give up when the budget is spent, else sleep.
Refused(w) ==
  /\ at[w] = "asking" /\ ~Free(company[w], read[w])
  /\ IF due[w] <= now
       THEN at' = [at EXCEPT ![w] = "denied"] /\ UNCHANGED wake
       ELSE /\ at' = [at EXCEPT ![w] = "sleeping"]
            /\ wake' = [wake EXCEPT ![w] = now + Lesser(Interval[company[w]], due[w] - now)]
  /\ UNCHANGED <<now, claimed, sent, company, read, due, rival>>

\* Awake: the loop asks again, with a new reading of the clock.
Wake(w) ==
  /\ at[w] = "sleeping" /\ now >= wake[w]
  /\ at' = [at EXCEPT ![w] = "asking"]
  /\ read' = [read EXCEPT ![w] = now]
  /\ wake' = [wake EXCEPT ![w] = 0]
  /\ UNCHANGED <<now, claimed, sent, company, due, rival>>

\* fetchOnce: the request leaves.
Send(w) ==
  /\ at[w] = "granted"
  /\ at' = [at EXCEPT ![w] = "requesting"]
  /\ sent' = [sent EXCEPT ![company[w]] = now]
  /\ read' = [read EXCEPT ![w] = 0]
  /\ UNCHANGED <<now, claimed, company, due, wake, rival>>

\* The answer, the time-out, or rateLimited told to the caller.
Return(w) == at[w] \in {"requesting", "denied"} /\ Gone(w)

\* The invocation is killed; what it claimed stays claimed.
Kill(w) == at[w] # "idle" /\ Gone(w)

\* Time passes, but no Worker is left behind by more than its timer or MaxLag.
Tick ==
  /\ now < Horizon
  /\ \A w \in Workers :
       /\ at[w] \in {"asking", "granted"} => now < read[w] + MaxLag
       /\ at[w] = "sleeping" => now < wake[w]
  /\ now' = now + 1
  /\ UNCHANGED <<claimed, sent, worker, rival>>

Init ==
  /\ now = 0
  /\ claimed = [c \in Companies |-> Never]
  /\ sent = [c \in Companies |-> Never]
  /\ at = [w \in Workers |-> "idle"]
  /\ company = [w \in Workers |-> Nobody]
  /\ read = [w \in Workers |-> 0]
  /\ due = [w \in Workers |-> 0]
  /\ wake = [w \in Workers |-> 0]
  /\ rival = [w \in Workers |-> FALSE]

Step(w) ==
  \/ \E c \in Companies : Ask(w, c)
  \/ Claim(w) \/ Refused(w) \/ Wake(w) \/ Send(w) \/ Return(w) \/ Kill(w)

Next == Tick \/ \E w \in Workers : Step(w)

Spec == Init /\ [][Next]_vars

-----------------------------------------------------------------------------
\* Types; and a sleeper's timer is never set past the end of its budget
\* (Math.min(intervalMs, remaining) in d1ClaimSlot).
ClockTypeOK ==
  /\ now \in 0..Horizon
  /\ claimed \in [Companies -> Nat \cup {Never}]
  /\ sent \in [Companies -> Nat \cup {Never}]
  /\ at \in [Workers -> Places]
  /\ company \in [Workers -> Companies \cup {Nobody}]
  /\ read \in [Workers -> Nat] /\ due \in [Workers -> Nat] /\ wake \in [Workers -> Nat]
  /\ rival \in [Workers -> BOOLEAN]
  /\ \A w \in Workers : at[w] = "sleeping" => wake[w] <= due[w]

\* The crawl law up to the lag: two requests to a company leave at least an
\* interval less MaxLag apart, whatever Workers overlap, sleep or are killed.
SpacedUpToLag ==
  INSTANCE CrawlLaw WITH Gap <- [c \in Companies |-> Interval[c] - MaxLag]

KeepsLaw == SpacedUpToLag!Law

\* A Worker that is told "not your turn" lost it to another one while it
\* waited, unless the company asks for more than the whole budget: nobody is
\* refused for what was claimed before it came (d1ClaimSlot's loop).
RefusedOnlyIfRivalled ==
  \A w \in Workers :
    at[w] = "denied" => rival[w] \/ Interval[company[w]] > Budget
=============================================================================
