---------------------------- MODULE ReadingProofs ----------------------------
(***************************************************************************)
(* What holds of the readers for every file, page and listing: robots.txt   *)
(* is read as it is written (robots.js), the hand tool waits as asked and   *)
(* asks for event pages only (fetch-one.mjs), and a listing's rows have the *)
(* state their coordinates give (listingdrafts.js, geo.js).                 *)
(***************************************************************************)
EXTENDS HandFetch, ListingNight, CountingProofs, SequenceTheorems, FiniteSetTheorems

-----------------------------------------------------------------------------
(* Largest and least members                                               *)

LEMMA MaxIs ==
  ASSUME NEW T, T \subseteq Nat, T # {}, NEW b \in Nat, \A x \in T : x <= b
  PROVE  Max(T) \in T /\ \A y \in T : y <= Max(T)
<1> DEFINE D == {b - x : x \in T}
<1>1. D \subseteq Nat /\ D # {}
  <2>1. \A x \in T : b - x \in Nat
    OBVIOUS
  <2> QED BY <2>1
<1>2. PICK d \in D : \A e \in D : d <= e
  BY <1>1, NatMin
<1>3. PICK x \in T : d = b - x
  BY <1>2
<1>4. \A y \in T : x >= y
  <2> TAKE y \in T
  <2>1. b - y \in D /\ y \in Nat /\ x \in Nat
    OBVIOUS
  <2> QED BY <1>2, <1>3, <2>1
<1>5. Max(T) \in T /\ \A y \in T : Max(T) >= y
  BY <1>3, <1>4, Zenon DEF Max
<1> QED BY <1>5

LEMMA MinIs ==
  ASSUME NEW T, T \subseteq Nat, T # {}
  PROVE  Min(T) \in T /\ \A y \in T : Min(T) <= y
<1>1. PICK x \in T : \A y \in T : x <= y
  BY NatMin
<1> QED BY <1>1, Zenon DEF Min

\* A finite list of naturals has a bound.
LEMMA Bounded ==
  ASSUME NEW n \in Nat, NEW v, \A i \in 1..n : v[i] \in Nat
  PROVE  \E b \in Nat : \A i \in 1..n : v[i] <= b
<1> DEFINE T == {k \in Nat : k <= n => \E b \in Nat : \A i \in 1..k : v[i] <= b}
<1>1. 0 \in T
  OBVIOUS
<1>2. ASSUME NEW k \in Nat, k \in T PROVE k + 1 \in T
  <2> SUFFICES ASSUME k + 1 <= n PROVE \E b \in Nat : \A i \in 1..(k + 1) : v[i] <= b
    OBVIOUS
  <2>1. PICK b \in Nat : \A i \in 1..k : v[i] <= b
    BY <1>2
  <2>2. v[k + 1] \in Nat
    OBVIOUS
  <2>3. b + v[k + 1] \in Nat /\ \A i \in 1..(k + 1) : v[i] <= b + v[k + 1]
    BY <2>1, <2>2
  <2> QED BY <2>3
<1> HIDE DEF T
<1>3. n \in T
  BY <1>1, <1>2, CountUp
<1> QED BY <1>3 DEF T

-----------------------------------------------------------------------------
(* robots.txt                                                              *)

LEMMA LinesApart ==
  /\ \A x \in AgentLines : x \notin RuleLines \cup DelayLines
  /\ \A x \in RuleLines : x \notin DelayLines
<1>1. \A x \in AgentLines : DOMAIN x = {"agent"}
  BY DEF AgentLines
<1>2. \A x \in RuleLines : DOMAIN x = {"rule", "path"}
  BY DEF RuleLines
<1>3. \A x \in DelayLines : DOMAIN x = {"delay"}
  BY DEF DelayLines
<1> QED BY <1>1, <1>2, <1>3, Zenon

\* The User-agent lines that speak after line n, the agents they name, and
\* whether a rule or a delay has followed the last of them.
Dropped(f, i, n) == \E k, m \in i..n : k < m /\ Says(f, k) /\ f[m] \in AgentLines

Heard(f, n) == {i \in 1..n : f[i] \in AgentLines /\ ~Dropped(f, i, n)}

Agents(f, n) == {f[i].agent : i \in Heard(f, n)} \ {Null}

Together(f, j, n) == \A m \in j..n : f[m] \notin AgentLines

Since(f, n) == \E k \in 1..n : Says(f, k) /\ Together(f, k, n)

LEMMA TogetherNext ==
  ASSUME NEW f, NEW n \in Nat, NEW j \in 1..(n + 1)
  PROVE  Together(f, j, n + 1) <=> Together(f, j, n) /\ f[n + 1] \notin AgentLines
  BY DEF Together

LEMMA HeardTogether ==
  ASSUME NEW f, NEW n \in Nat, NEW j \in 1..n, Together(f, j, n)
  PROVE  Agents(f, n) = Agents(f, j)
<1>1. ASSUME NEW i \in 1..n, f[i] \in AgentLines
      PROVE  i < j /\ (Dropped(f, i, n) <=> Dropped(f, i, j))
  BY <1>1 DEF Together, Dropped
<1>2. Heard(f, n) = Heard(f, j)
  <2>1. 1..j \subseteq 1..n
    OBVIOUS
  <2>2. \A i \in 1..n : i < j => i \in 1..j
    OBVIOUS
  <2> QED BY <1>1, <2>1, <2>2, Zenon DEF Heard
<1> QED BY <1>2 DEF Agents

\* A line that is no User-agent line leaves the agents; a User-agent line joins
\* them, or replaces them once a rule has followed.
LEMMA HeardStays ==
  ASSUME NEW f, NEW n \in Nat, f[n + 1] \notin AgentLines
  PROVE  Agents(f, n + 1) = Agents(f, n)
<1>1. ASSUME NEW i \in 1..(n + 1)
      PROVE  Dropped(f, i, n + 1) <=> Dropped(f, i, n)
  BY DEF Dropped
<1>2. Heard(f, n + 1) = Heard(f, n)
  <2>1. \A i \in 1..(n + 1) : i \in 1..n \/ i = n + 1
    OBVIOUS
  <2>2. \A i \in 1..n : i \in 1..(n + 1)
    OBVIOUS
  <2> QED BY <1>1, <2>1, <2>2, Zenon DEF Heard
<1> QED BY <1>2 DEF Agents

LEMMA HeardAgent ==
  ASSUME NEW f, NEW n \in Nat, f[n + 1] \in AgentLines
  PROVE  Agents(f, n + 1) =
           (IF Since(f, n) THEN {} ELSE Agents(f, n)) \cup ({f[n + 1].agent} \ {Null})
<1>1. ~Says(f, n + 1)
  BY LinesApart DEF Says
<1>2. ~Dropped(f, n + 1, n + 1)
  BY DEF Dropped
<1>3. CASE Since(f, n)
  <2>1. PICK k \in 1..n : Says(f, k) /\ Together(f, k, n)
    BY <1>3 DEF Since
  <2>2. ASSUME NEW i \in 1..n, f[i] \in AgentLines PROVE Dropped(f, i, n + 1)
    <3>1. i < k
      BY <2>1, <2>2 DEF Together
    <3>2. k \in i..(n + 1) /\ n + 1 \in i..(n + 1) /\ k < n + 1
      BY <3>1
    <3> QED BY <2>1, <3>2 DEF Dropped
  <2>3. Heard(f, n + 1) = {n + 1}
    <3>1. \A i \in 1..(n + 1) : i \in 1..n \/ i = n + 1
      OBVIOUS
    <3>2. n + 1 \in 1..(n + 1)
      OBVIOUS
    <3> QED BY <1>2, <2>2, <3>1, <3>2, Zenon DEF Heard
  <2> QED BY <1>3, <2>3 DEF Agents
<1>4. CASE ~Since(f, n)
  <2>1. ASSUME NEW i \in 1..n PROVE Dropped(f, i, n + 1) <=> Dropped(f, i, n)
    <3>1. ASSUME NEW k \in i..n, Says(f, k) PROVE \E m \in k..n : k < m /\ f[m] \in AgentLines
      <4>1. k \in 1..n /\ ~Together(f, k, n)
        BY <1>4, <3>1 DEF Since
      <4>2. PICK m \in k..n : f[m] \in AgentLines
        BY <4>1 DEF Together
      <4>3. m # k
        BY <3>1, <4>2, LinesApart DEF Says
      <4> QED BY <4>2, <4>3
    <3> QED BY <3>1, <1>1 DEF Dropped
  <2>2. Heard(f, n + 1) = Heard(f, n) \cup {n + 1}
    <3>1. \A i \in 1..(n + 1) : i \in 1..n \/ i = n + 1
      OBVIOUS
    <3>2. n + 1 \in 1..(n + 1) /\ \A i \in 1..n : i \in 1..(n + 1)
      OBVIOUS
    <3> QED BY <1>2, <2>1, <3>1, <3>2, Zenon DEF Heard
  <2> QED BY <1>4, <2>2 DEF Agents
<1> QED BY <1>3, <1>4

\* The lines that speak for a rule are the ones heard there.
LEMMA SpeaksHeard ==
  ASSUME NEW f, NEW j \in 1..Len(f), Len(f) \in Nat, Says(f, j), NEW i \in 1..Len(f)
  PROVE  SpeaksFor(f, i, j) <=> i \in Heard(f, j)
<1>1. f[j] \notin AgentLines
  BY LinesApart DEF Says
<1>2. i \in 1..j <=> i <= j
  OBVIOUS
<1>3. f[i] \in AgentLines => i # j
  BY <1>1
<1>4. i < j <=> i <= j /\ i # j
  OBVIOUS
<1> QED BY <1>2, <1>3, <1>4, Zenon DEF SpeaksFor, Heard, Dropped

\* What the reader holds after n lines.
Groups == [agents : SUBSET (Tokens \cup {Star}), rules : SUBSET RuleLines,
           delay : Delays \cup {Null}]

Readers == [agents : SUBSET (Tokens \cup {Star}), open : BOOLEAN, groups : Seq(Groups)]

\* The line gives a delay, which no later line of its record replaces.
LastDelay(f, j, n) ==
  /\ f[j] \in DelayLines /\ f[j].delay # Null
  /\ \A k \in (j + 1)..n : f[k] \in DelayLines /\ f[k].delay # Null => ~Together(f, j, k)

Listed(f, j) == f[j] \in RuleLines /\ f[j].path # <<>>

\* The last group is open.
OpenAt(s, x) == s.open /\ x = Len(s.groups)

Opens(s, f, n) ==
  /\ s.agents = Agents(f, n)
  /\ s.open <=> Agents(f, n) # {} /\ Since(f, n)
  /\ s.open => Len(s.groups) > 0 /\ s.groups[Len(s.groups)].agents = s.agents

\* Each line that binds somebody is in a group of theirs, and the reverse.
RulesKept(s, f, n) ==
  \A j \in 1..n : Says(f, j) /\ Agents(f, j) # {} =>
    \E x \in 1..Len(s.groups) : /\ s.groups[x].agents = Agents(f, j)
                                /\ Listed(f, j) => f[j] \in s.groups[x].rules

RulesMeant(s, f, n) ==
  \A x \in 1..Len(s.groups) : \A r \in s.groups[x].rules :
    \E j \in 1..n : f[j] = r /\ Listed(f, j) /\ Agents(f, j) = s.groups[x].agents

GroupsMeant(s, f, n) ==
  \A x \in 1..Len(s.groups) :
    /\ s.groups[x].agents # {}
    /\ \E j \in 1..n : Says(f, j) /\ Agents(f, j) = s.groups[x].agents

DelaysKept(s, f, n) ==
  \A j \in 1..n : LastDelay(f, j, n) /\ Agents(f, j) # {} =>
    \E x \in 1..Len(s.groups) : /\ s.groups[x].agents = Agents(f, j)
                                /\ s.groups[x].delay = f[j].delay
                                /\ OpenAt(s, x) <=> Together(f, j, n)

DelaysMeant(s, f, n) ==
  \A x \in 1..Len(s.groups) : s.groups[x].delay # Null =>
    \E j \in 1..n : /\ LastDelay(f, j, n) /\ f[j].delay = s.groups[x].delay
                    /\ Agents(f, j) = s.groups[x].agents
                    /\ OpenAt(s, x) <=> Together(f, j, n)

HasRead(s, f, n) ==
  /\ s \in Readers /\ Opens(s, f, n)
  /\ RulesKept(s, f, n) /\ RulesMeant(s, f, n) /\ GroupsMeant(s, f, n)
  /\ DelaysKept(s, f, n) /\ DelaysMeant(s, f, n)

LEMMA StarIsNotNull == Star # Null /\ Null \notin Tokens /\ Null \notin Delays
  BY RobotsAssumption

LEMMA BlankHasRead == ASSUME NEW f PROVE HasRead(Blank, f, 0)
<1>1. /\ Blank \in Readers /\ Blank.agents = {} /\ Blank.open = FALSE
      /\ Blank.groups = <<>> /\ Len(Blank.groups) = 0 /\ 1..0 = {}
  <2>1. <<>> \in Seq(Groups)
    BY EmptySeq
  <2> QED BY <2>1 DEF Blank, Readers
<1>2. Agents(f, 0) = {}
  BY <1>1, Zenon DEF Agents, Heard
<1>3. Opens(Blank, f, 0)
  BY <1>1, <1>2, Zenon DEF Opens
<1> QED
  BY <1>1, <1>3, Zenon
  DEF HasRead, RulesKept, RulesMeant, GroupsMeant, DelaysKept, DelaysMeant

\* A line that says nothing to the open record: a User-agent line, a rule of
\* nobody, or a line the reader does not know.
LEMMA GroupsUntouched ==
  ASSUME NEW f, NEW n \in Nat, NEW s, NEW t, HasRead(s, f, n),
         t \in Readers, t.groups = s.groups, Opens(t, f, n + 1),
         Says(f, n + 1) => Agents(f, n + 1) = {},
         t.open <=> s.open /\ f[n + 1] \notin AgentLines
  PROVE  HasRead(t, f, n + 1)
<1>1. \A j \in 1..(n + 1) : j \in 1..n \/ j = n + 1
  OBVIOUS
<1>2. \A j \in 1..n : j \in 1..(n + 1)
  OBVIOUS
<1>3. ASSUME NEW j \in 1..n, Agents(f, j) # {}
      PROVE  LastDelay(f, j, n + 1) <=> LastDelay(f, j, n)
  <2>1. ASSUME f[n + 1] \in DelayLines, Together(f, j, n + 1) PROVE FALSE
    <3>1. j \in 1..(n + 1) /\ n + 1 \in Nat
      OBVIOUS
    <3>2. Agents(f, n + 1) = Agents(f, j)
      BY <2>1, <3>1, HeardTogether
    <3> QED BY <1>3, <2>1, <3>2 DEF Says
  <2>2. \A k \in (j + 1)..(n + 1) : k \in (j + 1)..n \/ k = n + 1
    OBVIOUS
  <2>3. \A k \in (j + 1)..n : k \in (j + 1)..(n + 1)
    OBVIOUS
  <2> QED BY <2>1, <2>2, <2>3, Zenon DEF LastDelay
<1>4. ASSUME NEW j \in 1..n, NEW x, OpenAt(s, x) <=> Together(f, j, n)
      PROVE  OpenAt(t, x) <=> Together(f, j, n + 1)
  <2>1. Together(f, j, n + 1) <=> Together(f, j, n) /\ f[n + 1] \notin AgentLines
    BY TogetherNext
  <2> QED BY <1>4, <2>1, Zenon DEF OpenAt
<1>5. RulesKept(t, f, n + 1)
  BY <1>1, Zenon DEF HasRead, RulesKept
<1>6. RulesMeant(t, f, n + 1) /\ GroupsMeant(t, f, n + 1)
  <2>1. RulesMeant(t, f, n + 1)
    <3>1. RulesMeant(s, f, n)
      BY DEF HasRead
    <3> QED BY <1>2, <3>1 DEF RulesMeant
  <2>2. GroupsMeant(t, f, n + 1)
    BY <1>2, Zenon DEF HasRead, GroupsMeant
  <2> QED BY <2>1, <2>2
<1>7. DelaysKept(t, f, n + 1)
  <2> SUFFICES ASSUME NEW j \in 1..(n + 1), LastDelay(f, j, n + 1), Agents(f, j) # {}
               PROVE  \E x \in 1..Len(t.groups) : /\ t.groups[x].agents = Agents(f, j)
                                                  /\ t.groups[x].delay = f[j].delay
                                                  /\ OpenAt(t, x) <=> Together(f, j, n + 1)
    BY Zenon DEF DelaysKept
  <2>1. j \in 1..n
    BY <1>1, Zenon DEF LastDelay, Says
  <2>2. LastDelay(f, j, n)
    BY <1>3, <2>1
  <2>3. PICK x \in 1..Len(s.groups) : /\ s.groups[x].agents = Agents(f, j)
                                      /\ s.groups[x].delay = f[j].delay
                                      /\ OpenAt(s, x) <=> Together(f, j, n)
    BY <2>1, <2>2, Zenon DEF HasRead, DelaysKept
  <2> QED BY <1>4, <2>1, <2>3, Zenon
<1>8. DelaysMeant(t, f, n + 1)
  <2> SUFFICES ASSUME NEW x \in 1..Len(t.groups), t.groups[x].delay # Null
               PROVE  \E j \in 1..(n + 1) : /\ LastDelay(f, j, n + 1)
                                            /\ f[j].delay = t.groups[x].delay
                                            /\ Agents(f, j) = t.groups[x].agents
                                            /\ OpenAt(t, x) <=> Together(f, j, n + 1)
    BY Zenon DEF DelaysMeant
  <2>1. PICK j \in 1..n : /\ LastDelay(f, j, n) /\ f[j].delay = s.groups[x].delay
                          /\ Agents(f, j) = s.groups[x].agents
                          /\ OpenAt(s, x) <=> Together(f, j, n)
    BY Zenon DEF HasRead, DelaysMeant
  <2>2. Agents(f, j) # {}
    BY <2>1, Zenon DEF HasRead, GroupsMeant
  <2> QED BY <1>2, <1>3, <1>4, <2>1, <2>2, Zenon
<1> QED BY <1>5, <1>6, <1>7, <1>8 DEF HasRead

LEMMA AgentHasRead ==
  ASSUME NEW f, NEW n \in Nat, NEW s, HasRead(s, f, n), f[n + 1] \in AgentLines
  PROVE  HasRead(ReadAgent(s, f[n + 1]), f, n + 1)
<1> DEFINE t == ReadAgent(s, f[n + 1])
<1>1. s \in Readers /\ f[n + 1].agent \in Tokens \cup {Star, Null}
  BY DEF HasRead, AgentLines
<1>2. /\ t.agents = (IF s.open THEN {} ELSE s.agents) \cup ({f[n + 1].agent} \ {Null})
      /\ t.open = FALSE /\ t.groups = s.groups /\ t \in Readers
  BY <1>1 DEF ReadAgent, Readers
<1> HIDE DEF t
<1>3. s.agents = Agents(f, n) /\ (s.open <=> Agents(f, n) # {} /\ Since(f, n))
  BY DEF HasRead, Opens
<1>4. t.agents = Agents(f, n + 1)
  BY <1>2, <1>3, HeardAgent
<1>5. ~Since(f, n + 1)
  BY DEF Since, Together
<1>6. Opens(t, f, n + 1)
  BY <1>2, <1>4, <1>5, Zenon DEF Opens
<1>7. ~Says(f, n + 1)
  BY LinesApart DEF Says
<1>8. HasRead(t, f, n + 1)
  BY <1>2, <1>6, <1>7, GroupsUntouched, Zenon
<1> QED BY <1>8 DEF t

LEMMA IdleHasRead ==
  ASSUME NEW f, NEW n \in Nat, NEW s, HasRead(s, f, n), f[n + 1] \notin AgentLines,
         Says(f, n + 1) => s.agents = {}
  PROVE  HasRead(s, f, n + 1)
<1>1. Agents(f, n + 1) = Agents(f, n) /\ s.agents = Agents(f, n)
  BY HeardStays DEF HasRead, Opens
<1>2. Agents(f, n) # {} => (Since(f, n + 1) <=> Since(f, n))
  <2>1. SUFFICES ASSUME ~Says(f, n + 1) PROVE Since(f, n + 1) <=> Since(f, n)
    BY <1>1
  <2>2. \A k \in 1..(n + 1) : Says(f, k) => k \in 1..n
    BY <2>1
  <2>3. \A k \in 1..n : k \in 1..(n + 1)
    OBVIOUS
  <2>4. \A k \in 1..n : Together(f, k, n + 1) <=> Together(f, k, n)
    BY <2>3, TogetherNext
  <2> QED BY <2>2, <2>3, <2>4, Zenon DEF Since
<1>3. Opens(s, f, n + 1)
  BY <1>1, <1>2, Zenon DEF HasRead, Opens
<1> QED BY <1>1, <1>3, GroupsUntouched, Zenon DEF HasRead

\* What a rule or a delay does to the open group, opening one if need be.
Said(s, t, l) ==
  LET q == Len(t.groups)
  IN  /\ t \in Readers /\ t.open /\ t.agents = s.agents /\ q > 0
      /\ q = IF s.open THEN Len(s.groups) ELSE Len(s.groups) + 1
      /\ \A x \in 1..Len(s.groups) : x # q => t.groups[x] = s.groups[x]
      /\ t.groups[q].agents = s.agents
      /\ t.groups[q].rules = (IF s.open THEN s.groups[q].rules ELSE {}) \cup
                             (IF l \in RuleLines /\ l.path # <<>> THEN {l} ELSE {})
      /\ t.groups[q].delay = IF l \in DelayLines /\ l.delay # Null THEN l.delay
                             ELSE IF s.open THEN s.groups[q].delay ELSE Null

\* The open group after Opened.
Ready(s, o) ==
  LET q == Len(o.groups)
  IN  /\ o \in Readers /\ o.open /\ o.agents = s.agents /\ q > 0
      /\ q = IF s.open THEN Len(s.groups) ELSE Len(s.groups) + 1
      /\ \A x \in 1..Len(s.groups) : x # q => o.groups[x] = s.groups[x]
      /\ o.groups[q].agents = s.agents
      /\ o.groups[q].rules = (IF s.open THEN s.groups[q].rules ELSE {})
      /\ o.groups[q].delay = (IF s.open THEN s.groups[q].delay ELSE Null)

LEMMA OpenedReady ==
  ASSUME NEW s \in Readers,
         s.open => Len(s.groups) > 0 /\ s.groups[Len(s.groups)].agents = s.agents
  PROVE  Ready(s, Opened(s))
<1>1. s.groups \in Seq(Groups) /\ s.agents \in SUBSET (Tokens \cup {Star}) /\ Len(s.groups) \in Nat
  BY DEF Readers
<1>2. CASE s.open
  BY <1>1, <1>2 DEF Ready, Opened
<1>3. CASE ~s.open
  <2> DEFINE g == [agents |-> s.agents, rules |-> {}, delay |-> Null]
             o == Opened(s)
  <2>1. g \in Groups
    BY <1>1 DEF Groups
  <2>2. o.open = TRUE /\ o.groups = Append(s.groups, g) /\ o.agents = s.agents
        /\ o = [agents |-> o.agents, open |-> o.open, groups |-> o.groups]
    BY <1>3 DEF Opened, Readers
  <2>3. /\ Append(s.groups, g) \in Seq(Groups) /\ Len(Append(s.groups, g)) = Len(s.groups) + 1
        /\ Append(s.groups, g)[Len(s.groups) + 1] = g
        /\ \A x \in 1..Len(s.groups) : Append(s.groups, g)[x] = s.groups[x]
    BY <1>1, <2>1
  <2>4. g.agents = s.agents /\ g.rules = {} /\ g.delay = Null
    OBVIOUS
  <2> HIDE DEF g, o
  <2>5. o \in Readers
    BY <1>1, <2>2, <2>3 DEF Readers
  <2>6. Ready(s, o)
    BY <1>1, <1>3, <2>2, <2>3, <2>4, <2>5 DEF Ready
  <2> QED BY <2>6 DEF o
<1> QED BY <1>2, <1>3

WithRules(o, q, rs) == [o EXCEPT !.groups[q].rules = rs]

LEMMA PutRule ==
  ASSUME NEW o \in Readers, NEW q \in 1..Len(o.groups), NEW rs \in SUBSET RuleLines
  PROVE  LET t == WithRules(o, q, rs) IN
         /\ t \in Readers /\ t.open = o.open /\ t.agents = o.agents
         /\ Len(t.groups) = Len(o.groups)
         /\ \A x \in 1..Len(o.groups) : x # q => t.groups[x] = o.groups[x]
         /\ t.groups[q].agents = o.groups[q].agents /\ t.groups[q].delay = o.groups[q].delay
         /\ t.groups[q].rules = rs
<1> DEFINE t == WithRules(o, q, rs)
           g == [o.groups[q] EXCEPT !.rules = rs]
<1>1. o.groups \in Seq(Groups) /\ o.groups[q] \in Groups /\ Len(o.groups) \in Nat
  BY DEF Readers
<1>2. /\ g \in Groups /\ g.agents = o.groups[q].agents /\ g.delay = o.groups[q].delay
      /\ g.rules = rs
  BY <1>1 DEF Groups
<1>3. t = [o EXCEPT !.groups = [o.groups EXCEPT ![q] = g]]
  BY DEF Readers, WithRules
<1> HIDE DEF g, t
<1>4. /\ [o.groups EXCEPT ![q] = g] \in Seq(Groups)
      /\ Len([o.groups EXCEPT ![q] = g]) = Len(o.groups)
      /\ \A x \in 1..Len(o.groups) :
            [o.groups EXCEPT ![q] = g][x] = IF x = q THEN g ELSE o.groups[x]
  BY <1>1, <1>2, ExceptSeq
<1>5. /\ t.groups = [o.groups EXCEPT ![q] = g] /\ t.open = o.open /\ t.agents = o.agents
      /\ t \in Readers
  BY <1>3, <1>4 DEF Readers
<1> QED BY <1>2, <1>4, <1>5 DEF t

LEMMA PutDelay ==
  ASSUME NEW o \in Readers, NEW q \in 1..Len(o.groups), NEW d \in Delays,
         NEW t, t = [o EXCEPT !.groups[q].delay = d]
  PROVE  /\ t \in Readers /\ t.open = o.open /\ t.agents = o.agents
         /\ Len(t.groups) = Len(o.groups)
         /\ \A x \in 1..Len(o.groups) : x # q => t.groups[x] = o.groups[x]
         /\ t.groups[q].agents = o.groups[q].agents /\ t.groups[q].rules = o.groups[q].rules
         /\ t.groups[q].delay = d
<1> DEFINE g == [o.groups[q] EXCEPT !.delay = d]
<1>1. o.groups \in Seq(Groups) /\ o.groups[q] \in Groups /\ Len(o.groups) \in Nat
  BY DEF Readers
<1>2. /\ g \in Groups /\ g.agents = o.groups[q].agents /\ g.rules = o.groups[q].rules
      /\ g.delay = d
  BY <1>1 DEF Groups
<1>3. t = [o EXCEPT !.groups = [o.groups EXCEPT ![q] = g]]
  BY DEF Readers
<1> HIDE DEF g
<1>4. /\ [o.groups EXCEPT ![q] = g] \in Seq(Groups)
      /\ Len([o.groups EXCEPT ![q] = g]) = Len(o.groups)
      /\ \A x \in 1..Len(o.groups) :
            [o.groups EXCEPT ![q] = g][x] = IF x = q THEN g ELSE o.groups[x]
  BY <1>1, <1>2, ExceptSeq
<1>5. /\ t.groups = [o.groups EXCEPT ![q] = g] /\ t.open = o.open /\ t.agents = o.agents
      /\ t \in Readers
  BY <1>3, <1>4 DEF Readers
<1> QED BY <1>2, <1>4, <1>5

LEMMA RuleSaid ==
  ASSUME NEW s \in Readers, NEW l \in RuleLines, Ready(s, Opened(s))
  PROVE  Said(s, ReadRule(s, l), l)
<1> DEFINE o == Opened(s)
           t == ReadRule(s, l)
           q == Len(o.groups)
<1>1. l \notin DelayLines
  BY LinesApart
<1>2. CASE l.path = <<>>
  <2>1. t = o
    BY <1>2 DEF ReadRule
  <2> QED BY <1>1, <1>2, <2>1, Zenon DEF Ready, Said
<1>3. CASE l.path # <<>>
  <2>1. t = [o EXCEPT !.groups[q].rules = o.groups[q].rules \cup {l}]
    BY <1>3 DEF ReadRule
  <2>2. o \in Readers /\ q \in 1..Len(o.groups)
    BY DEF Ready, Readers
  <2> DEFINE rs == o.groups[q].rules \cup {l}
  <2>0. rs \in SUBSET RuleLines
    <3>1. o.groups \in Seq(Groups)
      BY <2>2 DEF Readers
    <3>2. o.groups[q] \in Groups
      BY <2>2, <3>1
    <3> QED BY <3>2 DEF Groups
  <2> HIDE DEF o, t, rs
  <2>7. t = WithRules(o, q, rs)
    BY <2>1 DEF rs, WithRules
  <2> HIDE DEF q
  <2>8. /\ t \in Readers /\ t.open = o.open /\ t.agents = o.agents
        /\ Len(t.groups) = Len(o.groups)
        /\ \A x \in 1..Len(o.groups) : x # q => t.groups[x] = o.groups[x]
        /\ t.groups[q].agents = o.groups[q].agents /\ t.groups[q].delay = o.groups[q].delay
        /\ t.groups[q].rules = rs
    <3>1. LET w == WithRules(o, q, rs) IN
             /\ w \in Readers /\ w.open = o.open /\ w.agents = o.agents
             /\ Len(w.groups) = Len(o.groups)
             /\ \A x \in 1..Len(o.groups) : x # q => w.groups[x] = o.groups[x]
             /\ w.groups[q].agents = o.groups[q].agents /\ w.groups[q].delay = o.groups[q].delay
             /\ w.groups[q].rules = rs
      BY <2>0, <2>2, PutRule, Zenon
    <3> QED BY <2>7, <3>1
  <2>3. /\ t \in Readers /\ t.open = o.open /\ t.agents = o.agents
        /\ Len(t.groups) = Len(o.groups)
        /\ \A x \in 1..Len(o.groups) : x # q => t.groups[x] = o.groups[x]
        /\ t.groups[q].agents = o.groups[q].agents /\ t.groups[q].delay = o.groups[q].delay
        /\ t.groups[q].rules = o.groups[q].rules \cup {l}
    BY <2>8 DEF rs
  <2>4. Ready(s, o)
    BY DEF o
  <2>5. \A x \in 1..Len(s.groups) : x \in 1..Len(o.groups)
    BY <2>4 DEF Ready, Readers, q
  <2>6. Said(s, t, l)
    BY <1>1, <1>3, <2>3, <2>4, <2>5, Zenon DEF Ready, Said, q
  <2> QED BY <2>6 DEF t
<1> QED BY <1>2, <1>3

LEMMA DelaySaid ==
  ASSUME NEW s \in Readers, NEW l \in DelayLines, Ready(s, Opened(s))
  PROVE  Said(s, ReadDelay(s, l), l)
<1> DEFINE o == Opened(s)
           t == ReadDelay(s, l)
           q == Len(o.groups)
<1>1. l \notin RuleLines
  BY LinesApart
<1>2. CASE l.delay = Null
  <2>1. t = o
    BY <1>2 DEF ReadDelay
  <2>2. \A S : S \cup {} = S
    OBVIOUS
  <2> QED BY <1>1, <1>2, <2>1, <2>2, Zenon DEF Ready, Said
<1>3. CASE l.delay # Null
  <2>1. t = [o EXCEPT !.groups[q].delay = l.delay] /\ l.delay \in Delays
    BY <1>3 DEF ReadDelay, DelayLines
  <2>2. o \in Readers /\ q \in 1..Len(o.groups)
    BY DEF Ready, Readers
  <2> HIDE DEF o, t
  <2>3. /\ t \in Readers /\ t.open = o.open /\ t.agents = o.agents
        /\ Len(t.groups) = Len(o.groups)
        /\ \A x \in 1..Len(o.groups) : x # q => t.groups[x] = o.groups[x]
        /\ t.groups[q].agents = o.groups[q].agents /\ t.groups[q].rules = o.groups[q].rules
        /\ t.groups[q].delay = l.delay
    BY <2>1, <2>2, PutDelay
  <2>4. Ready(s, o)
    BY DEF o
  <2>5. \A x \in 1..Len(s.groups) : x \in 1..Len(o.groups)
    BY <2>4 DEF Ready, Readers
  <2>6. \A S : S \cup {} = S
    OBVIOUS
  <2>7. Said(s, t, l)
    BY <1>1, <1>3, <2>3, <2>4, <2>5, <2>6, Zenon DEF Ready, Said
  <2> QED BY <2>7 DEF t
<1> QED BY <1>2, <1>3

\* A rule or a delay of somebody goes to the open group, and only there.
LEMMA SaidHasRead ==
  ASSUME NEW f, NEW n \in Nat, NEW s, NEW t, HasRead(s, f, n), Says(f, n + 1),
         s.agents # {}, Said(s, t, f[n + 1])
  PROVE  HasRead(t, f, n + 1)
<1> DEFINE q == Len(t.groups)
           l == f[n + 1]
<1>1. /\ s \in Readers /\ s.groups \in Seq(Groups) /\ Len(s.groups) \in Nat
      /\ t \in Readers /\ t.groups \in Seq(Groups) /\ q \in Nat
  BY DEF HasRead, Said, Readers
<1>2. /\ t.open /\ t.agents = s.agents /\ q > 0
      /\ q = IF s.open THEN Len(s.groups) ELSE Len(s.groups) + 1
      /\ t.groups[q].agents = s.agents
  BY DEF Said
<1>3. \A x \in 1..Len(s.groups) : x # q => t.groups[x] = s.groups[x]
  BY DEF Said
<1>4. t.groups[q].rules = (IF s.open THEN s.groups[q].rules ELSE {}) \cup
                          (IF Listed(f, n + 1) THEN {l} ELSE {})
  BY DEF Said, Listed
<1>5. t.groups[q].delay = IF l \in DelayLines /\ l.delay # Null THEN l.delay
                          ELSE IF s.open THEN s.groups[q].delay ELSE Null
  BY DEF Said
<1>6. l \notin AgentLines
  BY LinesApart DEF Says
<1>7. Agents(f, n + 1) = Agents(f, n) /\ s.agents = Agents(f, n)
  BY <1>6, HeardStays DEF HasRead, Opens
<1>8. \A x \in 1..q : x = q \/ (x \in 1..Len(s.groups) /\ x # q)
  BY <1>1, <1>2
<1>9. /\ 1..Len(s.groups) \subseteq 1..q /\ q \in 1..q /\ (s.open => q \in 1..Len(s.groups))
      /\ (q \in 1..Len(s.groups) => s.open)
  BY <1>1, <1>2
<1>10. /\ \A j \in 1..(n + 1) : j \in 1..n \/ j = n + 1
       /\ \A j \in 1..n : j \in 1..(n + 1)
       /\ n + 1 \in 1..(n + 1)
  OBVIOUS
<1>11. s.open => s.groups[q].agents = s.agents
  BY <1>2 DEF HasRead, Opens
<1>12. \A j \in 1..n : Together(f, j, n + 1) <=> Together(f, j, n)
  BY <1>6, <1>10, TogetherNext
<1>13. Together(f, n + 1, n + 1)
  BY <1>6 DEF Together
<1>14. \A x : OpenAt(t, x) <=> x = q
  BY <1>2 DEF OpenAt
<1>15. \A x \in 1..Len(s.groups) : OpenAt(s, x) <=> x = q
  BY <1>2, <1>9 DEF OpenAt
<1>16. Since(f, n + 1)
  BY <1>10, <1>13 DEF Since
<1> HIDE DEF q
<1>17. Opens(t, f, n + 1)
  BY <1>2, <1>7, <1>16, Zenon DEF Opens, q
<1>18. RulesKept(t, f, n + 1)
  <2> SUFFICES ASSUME NEW j \in 1..(n + 1), Says(f, j), Agents(f, j) # {}
               PROVE  \E x \in 1..q : /\ t.groups[x].agents = Agents(f, j)
                                      /\ Listed(f, j) => f[j] \in t.groups[x].rules
    BY Zenon DEF RulesKept, q
  <2>1. CASE j = n + 1
    <3>1. Listed(f, j) => f[j] \in t.groups[q].rules
      BY <2>1, <1>4
    <3> QED BY <2>1, <3>1, <1>2, <1>7, <1>9, Zenon
  <2>2. CASE j \in 1..n
    <3>1. PICK x \in 1..Len(s.groups) : /\ s.groups[x].agents = Agents(f, j)
                                        /\ Listed(f, j) => f[j] \in s.groups[x].rules
      BY <2>2, Zenon DEF HasRead, RulesKept
    <3>2. CASE x = q
      <4>1. s.open /\ s.groups[q].rules \subseteq t.groups[q].rules
        BY <3>2, <1>4, <1>9
      <4> QED BY <3>1, <3>2, <4>1, <1>2, <1>9, <1>11
    <3>3. CASE x # q
      BY <3>1, <3>3, <1>3, <1>9
    <3> QED BY <3>2, <3>3
  <2> QED BY <2>1, <2>2, <1>10
<1>19. RulesMeant(t, f, n + 1)
  <2> SUFFICES ASSUME NEW x \in 1..q, NEW r \in t.groups[x].rules
               PROVE  \E j \in 1..(n + 1) : /\ f[j] = r /\ Listed(f, j)
                                            /\ Agents(f, j) = t.groups[x].agents
    BY Zenon DEF RulesMeant, q
  <2>1. CASE x = q /\ Listed(f, n + 1) /\ r = l
    BY <2>1, <1>2, <1>7, <1>10
  <2>2. CASE x = q /\ s.open /\ r \in s.groups[q].rules
    <3>1. RulesMeant(s, f, n) /\ q \in 1..Len(s.groups)
      BY <2>2, <1>9 DEF HasRead
    <3>2. PICK j \in 1..n : f[j] = r /\ Listed(f, j) /\ Agents(f, j) = s.groups[q].agents
      BY <2>2, <3>1 DEF RulesMeant
    <3> QED BY <2>2, <3>2, <1>2, <1>10, <1>11
  <2>3. CASE x \in 1..Len(s.groups) /\ x # q
    <3>1. RulesMeant(s, f, n) /\ t.groups[x] = s.groups[x]
      BY <2>3, <1>3 DEF HasRead
    <3>2. PICK j \in 1..n : f[j] = r /\ Listed(f, j) /\ Agents(f, j) = s.groups[x].agents
      BY <2>3, <3>1 DEF RulesMeant
    <3> QED BY <3>1, <3>2, <1>10
  <2> QED BY <2>1, <2>2, <2>3, <1>4, <1>8
<1>20. GroupsMeant(t, f, n + 1)
  <2> SUFFICES ASSUME NEW x \in 1..q
               PROVE  /\ t.groups[x].agents # {}
                      /\ \E j \in 1..(n + 1) : Says(f, j) /\ Agents(f, j) = t.groups[x].agents
    BY Zenon DEF GroupsMeant, q
  <2>1. CASE x = q
    BY <2>1, <1>2, <1>7, <1>10
  <2>2. CASE x \in 1..Len(s.groups) /\ x # q
    <3>1. GroupsMeant(s, f, n) /\ t.groups[x] = s.groups[x]
      BY <2>2, <1>3 DEF HasRead
    <3> QED BY <2>2, <3>1, <1>10 DEF GroupsMeant
  <2> QED BY <2>1, <2>2, <1>8
<1> DEFINE fresh == l \in DelayLines /\ l.delay # Null
<1>21. ASSUME NEW j \in 1..n
       PROVE  LastDelay(f, j, n + 1) <=> LastDelay(f, j, n) /\ ~(fresh /\ Together(f, j, n))
  <2>1. \A k \in (j + 1)..(n + 1) : k \in (j + 1)..n \/ k = n + 1
    OBVIOUS
  <2>2. n + 1 \in (j + 1)..(n + 1) /\ \A k \in (j + 1)..n : k \in (j + 1)..(n + 1)
    OBVIOUS
  <2> QED BY <2>1, <2>2, <1>12, Zenon DEF LastDelay
<1>22. LastDelay(f, n + 1, n + 1) <=> fresh
  <2>1. ((n + 1) + 1)..(n + 1) = {}
    OBVIOUS
  <2> QED BY <2>1, Zenon DEF LastDelay
<1>23. ASSUME NEW j \in 1..n, NEW x \in 1..Len(s.groups),
              OpenAt(s, x) <=> Together(f, j, n)
       PROVE  OpenAt(t, x) <=> Together(f, j, n + 1)
  BY <1>23, <1>12, <1>14, <1>15
<1> HIDE DEF fresh
<1>24. DelaysKept(t, f, n + 1)
  <2> SUFFICES ASSUME NEW j \in 1..(n + 1), LastDelay(f, j, n + 1), Agents(f, j) # {}
               PROVE  \E x \in 1..q : /\ t.groups[x].agents = Agents(f, j)
                                      /\ t.groups[x].delay = f[j].delay
                                      /\ OpenAt(t, x) <=> Together(f, j, n + 1)
    BY Zenon DEF DelaysKept, q
  <2>1. CASE j = n + 1
    <3>1. t.groups[q].delay = f[j].delay
      BY <2>1, <1>5, <1>22 DEF fresh
    <3> QED BY <2>1, <3>1, <1>2, <1>7, <1>9, <1>13, <1>14, Zenon
  <2>2. CASE j \in 1..n
    <3>1. LastDelay(f, j, n) /\ ~(fresh /\ Together(f, j, n))
      BY <2>2, <1>21
    <3>2. PICK x \in 1..Len(s.groups) : /\ s.groups[x].agents = Agents(f, j)
                                        /\ s.groups[x].delay = f[j].delay
                                        /\ OpenAt(s, x) <=> Together(f, j, n)
      BY <2>2, <3>1, Zenon DEF HasRead, DelaysKept
    <3>3. OpenAt(t, x) <=> Together(f, j, n + 1)
      BY <2>2, <3>2, <1>23
    <3>4. x \in 1..q
      BY <1>9
    <3>5. CASE x = q
      <4>1. ~fresh /\ s.open
        BY <3>1, <3>2, <3>5, <1>9, <1>15
      <4>2. t.groups[q].delay = s.groups[q].delay /\ t.groups[q].agents = s.groups[q].agents
        BY <4>1, <1>2, <1>5, <1>11 DEF fresh
      <4> QED BY <3>2, <3>3, <3>4, <3>5, <4>2
    <3>6. CASE x # q
      BY <3>2, <3>3, <3>4, <3>6, <1>3
    <3> QED BY <3>5, <3>6
  <2> QED BY <2>1, <2>2, <1>10
<1>25. DelaysMeant(t, f, n + 1)
  <2> SUFFICES ASSUME NEW x \in 1..q, t.groups[x].delay # Null
               PROVE  \E j \in 1..(n + 1) : /\ LastDelay(f, j, n + 1)
                                            /\ f[j].delay = t.groups[x].delay
                                            /\ Agents(f, j) = t.groups[x].agents
                                            /\ OpenAt(t, x) <=> Together(f, j, n + 1)
    BY Zenon DEF DelaysMeant, q
  <2>1. CASE x = q /\ fresh
    BY <2>1, <1>2, <1>5, <1>7, <1>10, <1>13, <1>14, <1>22 DEF fresh
  <2>2. ASSUME NEW y \in 1..Len(s.groups), y = x, ~(x = q /\ fresh),
               t.groups[x].delay = s.groups[x].delay, t.groups[x].agents = s.groups[x].agents
        PROVE  \E j \in 1..(n + 1) : /\ LastDelay(f, j, n + 1)
                                     /\ f[j].delay = t.groups[x].delay
                                     /\ Agents(f, j) = t.groups[x].agents
                                     /\ OpenAt(t, x) <=> Together(f, j, n + 1)
    <3>1. PICK j \in 1..n : /\ LastDelay(f, j, n) /\ f[j].delay = s.groups[x].delay
                            /\ Agents(f, j) = s.groups[x].agents
                            /\ OpenAt(s, x) <=> Together(f, j, n)
      BY <2>2 DEF HasRead, DelaysMeant
    <3>2. OpenAt(t, x) <=> Together(f, j, n + 1)
      BY <2>2, <3>1, <1>23
    <3>3. ~(fresh /\ Together(f, j, n))
      BY <2>2, <3>1, <1>15
    <3>4. LastDelay(f, j, n + 1)
      BY <3>1, <3>3, <1>21
    <3> QED BY <2>2, <3>1, <3>2, <3>4, <1>10
  <2>3. CASE x = q /\ ~fresh
    <3>1. s.open /\ t.groups[q].delay = s.groups[q].delay
      BY <2>3, <1>5 DEF fresh
    <3> QED BY <2>2, <2>3, <3>1, <1>2, <1>9, <1>11
  <2>4. CASE x \in 1..Len(s.groups) /\ x # q
    BY <2>2, <2>4, <1>3
  <2> QED BY <2>1, <2>3, <2>4, <1>8
<1> QED BY <1>1, <1>17, <1>18, <1>19, <1>20, <1>24, <1>25 DEF HasRead

LEMMA LineHasRead ==
  ASSUME NEW f, NEW n \in Nat, NEW s, HasRead(s, f, n)
  PROVE  HasRead(ReadLine(s, f[n + 1]), f, n + 1)
<1> DEFINE l == f[n + 1]
<1>1. s \in Readers /\ (s.open => Len(s.groups) > 0 /\ s.groups[Len(s.groups)].agents = s.agents)
  BY DEF HasRead, Opens
<1>2. CASE l \in AgentLines
  <2>1. ReadLine(s, l) = ReadAgent(s, l)
    BY <1>2, LinesApart DEF ReadLine
  <2> QED BY <1>2, <2>1, AgentHasRead
<1>3. CASE l \in RuleLines /\ s.agents # {}
  <2>1. l \notin AgentLines /\ l \notin DelayLines
    BY <1>3, LinesApart
  <2>2. ReadLine(s, l) = ReadRule(s, l)
    BY <1>3, <2>1 DEF ReadLine
  <2>3. Said(s, ReadRule(s, l), l)
    BY <1>1, <1>3, OpenedReady, RuleSaid
  <2> QED BY <1>3, <2>2, <2>3, SaidHasRead DEF Says
<1>4. CASE l \in DelayLines /\ s.agents # {}
  <2>1. l \notin AgentLines /\ l \notin RuleLines
    BY <1>4, LinesApart
  <2>2. ReadLine(s, l) = ReadDelay(s, l)
    BY <1>4, <2>1 DEF ReadLine
  <2>3. Said(s, ReadDelay(s, l), l)
    BY <1>1, <1>4, OpenedReady, DelaySaid
  <2> QED BY <1>4, <2>2, <2>3, SaidHasRead DEF Says
<1>5. CASE l \notin AgentLines /\ (l \in RuleLines \cup DelayLines => s.agents = {})
  <2>1. ReadLine(s, l) = s
    BY <1>5 DEF ReadLine
  <2> QED BY <1>5, <2>1, IdleHasRead DEF Says
<1> QED BY <1>2, <1>3, <1>4, <1>5

\* The reader's run over a file exists, and after each line it has read what
\* the lines say.
RunsOver(a, f) ==
  a = [n \in 0..Len(f) |-> IF n = 0 THEN Blank ELSE ReadLine(a[n - 1], f[n])]

LEMMA RunHasRead ==
  ASSUME NEW f, Len(f) \in Nat, NEW a,
         \A n \in 0..Len(f) :
            a[n] = IF n = 0 THEN Blank
                   ELSE IF HasRead(a[n - 1], f, n - 1) THEN ReadLine(a[n - 1], f[n]) ELSE a[n]
  PROVE  \A n \in 0..Len(f) : HasRead(a[n], f, n)
<1> DEFINE T == {n \in Nat : n <= Len(f) => HasRead(a[n], f, n)}
<1>1. 0 \in T
  <2>1. a[0] = Blank
    OBVIOUS
  <2> QED BY <2>1, BlankHasRead
<1>2. ASSUME NEW n \in Nat, n \in T PROVE n + 1 \in T
  <2> SUFFICES ASSUME n + 1 <= Len(f) PROVE HasRead(a[n + 1], f, n + 1)
    OBVIOUS
  <2>1. HasRead(a[n], f, n)
    BY <1>2
  <2>2. a[n + 1] = ReadLine(a[n], f[n + 1])
    <3>1. n + 1 \in 0..Len(f) /\ (n + 1) - 1 = n /\ n + 1 # 0
      OBVIOUS
    <3> QED BY <2>1, <3>1
  <2> QED BY <2>1, <2>2, LineHasRead
<1> HIDE DEF T
<1>3. Nat \subseteq T
  BY <1>1, <1>2, CountUp
<1> QED BY <1>3 DEF T

LEMMA RunExists == ASSUME NEW f, Len(f) \in Nat PROVE \E a : RunsOver(a, f)
<1> DEFINE next == [p \in Readers \X Nat |-> ReadLine(p[1], f[p[2]])]
<1>1. PICK a : UpTo(a, Len(f), Blank, next)
  BY UpToExists
<1>2. ASSUME NEW n \in 0..Len(f), n # 0, a[n - 1] \in Readers
      PROVE  a[n] = ReadLine(a[n - 1], f[n])
  <2>1. a[n] = next[<<a[n - 1], n>>]
    BY <1>1, <1>2 DEF UpTo
  <2>2. <<a[n - 1], n>> \in Readers \X Nat
    BY <1>2
  <2> QED BY <2>1, <2>2
<1>3. a[0] = Blank /\ a = [n \in 0..Len(f) |-> a[n]]
  BY <1>1 DEF UpTo
<1> HIDE DEF next
<1>4. \A n \in 0..Len(f) : HasRead(a[n], f, n)
  <2>1. ASSUME NEW n \in 0..Len(f)
        PROVE  a[n] = IF n = 0 THEN Blank
                      ELSE IF HasRead(a[n - 1], f, n - 1) THEN ReadLine(a[n - 1], f[n]) ELSE a[n]
    BY <1>2, <1>3 DEF HasRead
  <2> QED BY <2>1, RunHasRead
<1>5. \A n \in 0..Len(f) : a[n] = IF n = 0 THEN Blank ELSE ReadLine(a[n - 1], f[n])
  <2> TAKE n \in 0..Len(f)
  <2>1. n # 0 => n - 1 \in 0..Len(f)
    OBVIOUS
  <2> QED BY <1>2, <1>3, <1>4, <2>1 DEF HasRead
<1>6. RunsOver(a, f)
  BY <1>3, <1>5 DEF RunsOver
<1> QED BY <1>6

LEMMA ParseHasRead ==
  ASSUME NEW f, Len(f) \in Nat
  PROVE  \E s : HasRead(s, f, Len(f)) /\ ParseRobots(f) = ToSet(s.groups)
<1> DEFINE a == CHOOSE b : RunsOver(b, f)
<1>1. RunsOver(a, f)
  BY RunExists
<1>2. ParseRobots(f) = ToSet(a[Len(f)].groups)
  BY DEF ParseRobots, RunsOver
<1> HIDE DEF a
<1>3. HasRead(a[Len(f)], f, Len(f))
  <2>1. \A n \in 0..Len(f) : a[n] = IF n = 0 THEN Blank ELSE ReadLine(a[n - 1], f[n])
    BY <1>1 DEF RunsOver
  <2>2. \A n \in 0..Len(f) : HasRead(a[n], f, n)
    BY <2>1, RunHasRead
  <2> QED BY <2>2
<1> QED BY <1>2, <1>3

\* The closest a set of agents comes to our name.
FitOf(A) == Max({0} \cup {Fit[t] : t \in A \ {Star}})

LEMMA AgentsTyped == ASSUME NEW f, NEW n \in Nat PROVE Agents(f, n) \subseteq Tokens \cup {Star}
  BY DEF Agents, Heard, AgentLines

LEMMA FitBounded ==
  ASSUME NEW f, Len(f) \in Nat
  PROVE  \E b \in Nat : \A j \in 1..Len(f) : \A t \in Agents(f, j) \ {Star} : Fit[t] <= b
<1> DEFINE v == [i \in 1..Len(f) |-> IF f[i].agent \in Tokens THEN Fit[f[i].agent] ELSE 0]
<1>1. \A i \in 1..Len(f) : v[i] \in Nat
  BY RobotsAssumption
<1>2. PICK b \in Nat : \A i \in 1..Len(f) : v[i] <= b
  BY <1>1, Bounded
<1>3. ASSUME NEW j \in 1..Len(f), NEW t \in Agents(f, j) \ {Star} PROVE Fit[t] <= b
  <2>1. j \in Nat
    OBVIOUS
  <2>2. t \in Tokens
    BY <2>1, AgentsTyped
  <2>3. PICK i \in 1..j : t = f[i].agent
    BY DEF Agents, Heard
  <2>4. i \in 1..Len(f)
    BY <2>3
  <2>5. v[i] = Fit[t]
    BY <2>2, <2>3, <2>4
  <2> QED BY <1>2, <2>4, <2>5
<1> QED BY <1>3

LEMMA FitOfIs ==
  ASSUME NEW A, A \subseteq Tokens \cup {Star}, NEW b \in Nat, \A t \in A \ {Star} : Fit[t] <= b
  PROVE  /\ FitOf(A) \in Nat /\ FitOf(A) <= b
         /\ \A t \in A \ {Star} : Fit[t] <= FitOf(A)
         /\ FitOf(A) # 0 => \E t \in A \ {Star} : Fit[t] = FitOf(A)
<1> DEFINE T == {0} \cup {Fit[t] : t \in A \ {Star}}
<1>1. T \subseteq Nat /\ T # {} /\ 0 \in T
  BY RobotsAssumption
<1>2. \A x \in T : x <= b
  OBVIOUS
<1>3. \A t \in A \ {Star} : Fit[t] \in T
  OBVIOUS
<1>4. \A x \in T : x = 0 \/ \E t \in A \ {Star} : Fit[t] = x
  OBVIOUS
<1>5. FitOf(A) = Max(T)
  BY DEF FitOf
<1> HIDE DEF T
<1>6. Max(T) \in T /\ \A y \in T : y <= Max(T)
  BY <1>1, <1>2, MaxIs
<1> QED BY <1>1, <1>2, <1>3, <1>4, <1>5, <1>6

\* The lines that some of these agents' User-agent lines speak for.
LEMMA NamedIs ==
  ASSUME NEW f, Len(f) \in Nat, DOMAIN f = 1..Len(f), NEW A, Null \notin A
  PROVE  Named(f, A) = {j \in 1..Len(f) : Says(f, j) /\ \E t \in Agents(f, j) : t \in A}
<1>1. ASSUME NEW j \in 1..Len(f), Says(f, j)
      PROVE  (\E i \in 1..Len(f) : SpeaksFor(f, i, j) /\ f[i].agent \in A)
             <=> \E t \in Agents(f, j) : t \in A
  <2>1. \A i \in 1..Len(f) : SpeaksFor(f, i, j) <=> i \in Heard(f, j)
    BY <1>1, SpeaksHeard
  <2>2. Heard(f, j) \subseteq 1..Len(f)
    BY DEF Heard
  <2>3. \A i \in Heard(f, j) : f[i].agent \in A => f[i].agent \in Agents(f, j)
    BY DEF Agents
  <2>4. \A t \in Agents(f, j) : \E i \in Heard(f, j) : t = f[i].agent
    BY DEF Agents
  <2> QED BY <2>1, <2>2, <2>3, <2>4, Zenon
<1>2. \A i, j : SpeaksFor(f, i, j) => Says(f, j)
  BY DEF SpeaksFor
<1> QED BY <1>1, <1>2, Zenon DEF Named

LEMMA MemberOf ==
  ASSUME NEW q, Len(q) \in Nat, DOMAIN q = 1..Len(q), NEW G, G = ToSet(q)
  PROVE  /\ \A x \in 1..Len(q) : q[x] \in G
         /\ \A g \in G : \E x \in 1..Len(q) : g = q[x]
  BY DEF ToSet

\* The groups that bind us are those of the lines that do.
LEMMA BindingIs ==
  ASSUME NEW f, Len(f) \in Nat, DOMAIN f = 1..Len(f), NEW s, HasRead(s, f, Len(f)),
         NEW G, G = ToSet(s.groups)
  PROVE  /\ \A j \in 1..Len(f) : \A g \in G :
               Says(f, j) /\ g.agents = Agents(f, j) => (g \in MatchingGroups(G) <=> j \in Binding(f))
         /\ \A j \in Binding(f) : j \in 1..Len(f) /\ Says(f, j) /\ Agents(f, j) # {}
<1> DEFINE best == Max({0} \cup {Longest(g) : g \in G})
           ours(n) == Named(f, {t \in Tokens : Fit[t] = n})
           fits == {n \in {Fit[t] : t \in Tokens} : n > 0 /\ ours(n) # {}}
<1>1. s.groups \in Seq(Groups)
  BY DEF HasRead, Readers
<1>2. Len(s.groups) \in Nat /\ DOMAIN s.groups = 1..Len(s.groups)
  BY <1>1
<1>3. /\ \A x \in 1..Len(s.groups) : s.groups[x] \in G
      /\ \A g \in G : \E x \in 1..Len(s.groups) : g = s.groups[x]
  BY <1>2, MemberOf
<1>4. \A g : Longest(g) = FitOf(g.agents)
  BY DEF Longest, FitOf
<1>5. PICK b \in Nat : \A j \in 1..Len(f) : \A t \in Agents(f, j) \ {Star} : Fit[t] <= b
  BY FitBounded
<1>6. ASSUME NEW j \in 1..Len(f)
      PROVE  /\ FitOf(Agents(f, j)) \in Nat /\ FitOf(Agents(f, j)) <= b
             /\ \A t \in Agents(f, j) \ {Star} : Fit[t] <= FitOf(Agents(f, j))
             /\ FitOf(Agents(f, j)) # 0 =>
                  \E t \in Agents(f, j) \ {Star} : Fit[t] = FitOf(Agents(f, j))
             /\ Agents(f, j) \subseteq Tokens \cup {Star}
  <2>1. Agents(f, j) \subseteq Tokens \cup {Star}
    BY AgentsTyped
  <2> QED BY <1>5, <2>1, FitOfIs
<1>7. \A g \in G : g.agents # {} /\ \E j \in 1..Len(f) : Says(f, j) /\ Agents(f, j) = g.agents
  BY <1>3 DEF HasRead, GroupsMeant
<1>8. ASSUME NEW j \in 1..Len(f), Says(f, j), Agents(f, j) # {}
      PROVE  \E g \in G : g.agents = Agents(f, j)
  BY <1>3, <1>8 DEF HasRead, RulesKept
<1>9. /\ best \in Nat /\ \A g \in G : Longest(g) <= best
      /\ best # 0 => \E g \in G : Longest(g) = best
  <2> DEFINE L == {0} \cup {Longest(g) : g \in G}
  <2>1. \A g \in G : Longest(g) \in Nat /\ Longest(g) <= b
    BY <1>4, <1>6, <1>7
  <2>2. L \subseteq Nat /\ L # {} /\ \A x \in L : x <= b
    BY <2>1
  <2>3. /\ \A g \in G : Longest(g) \in L
        /\ \A x \in L : x = 0 \/ \E g \in G : Longest(g) = x
    OBVIOUS
  <2>4. best = Max(L)
    OBVIOUS
  <2> HIDE DEF L, best
  <2>5. Max(L) \in L /\ \A y \in L : y <= Max(L)
    BY <2>2, MaxIs
  <2> QED BY <2>2, <2>3, <2>4, <2>5
<1>10. Null \notin Tokens /\ Star # Null /\ Star \notin Tokens
  BY RobotsAssumption
<1>11. \A n : ours(n) = {j \in 1..Len(f) : Says(f, j) /\ \E t \in Agents(f, j) : t \in Tokens /\ Fit[t] = n}
  <2> TAKE n
  <2>1. Null \notin {t \in Tokens : Fit[t] = n}
    BY <1>10
  <2>2. ours(n) = {j \in 1..Len(f) : Says(f, j) /\
                       \E t \in Agents(f, j) : t \in {u \in Tokens : Fit[u] = n}}
    BY <2>1, NamedIs
  <2> QED BY <2>2
<1>12. Named(f, {Star}) = {j \in 1..Len(f) : Says(f, j) /\ Star \in Agents(f, j)}
  <2>1. Null \notin {Star}
    BY <1>10
  <2>2. Named(f, {Star}) = {j \in 1..Len(f) : Says(f, j) /\ \E t \in Agents(f, j) : t \in {Star}}
    BY <2>1, NamedIs
  <2> QED BY <2>2
<1>13. Binding(f) = IF fits # {} THEN ours(Max(fits)) ELSE Named(f, {Star})
  BY DEF Binding
<1>14. MatchingGroups(G) = {g \in G : IF best > 0 THEN Longest(g) = best ELSE Star \in g.agents}
  BY DEF MatchingGroups
<1>15. \A n \in fits : n \in Nat /\ n > 0 /\ n <= best
  <2> TAKE n \in fits
  <2>1. n \in Nat /\ n > 0 /\ ours(n) # {}
    BY RobotsAssumption
  <2>2. PICK j \in 1..Len(f) : Says(f, j) /\ \E t \in Agents(f, j) : t \in Tokens /\ Fit[t] = n
    BY <2>1, <1>11
  <2>3. PICK t \in Agents(f, j) \ {Star} : Fit[t] = n
    BY <2>2, <1>10
  <2>4. PICK g \in G : g.agents = Agents(f, j)
    BY <2>2, <1>8
  <2>5. n <= Longest(g) /\ Longest(g) \in Nat
    BY <2>3, <2>4, <1>4, <1>6
  <2> HIDE DEF best, fits, ours
  <2> QED BY <2>1, <2>4, <2>5, <1>9
<1>16. best # 0 => best \in fits
  <2> SUFFICES ASSUME best # 0 PROVE best \in fits
    OBVIOUS
  <2> HIDE DEF best
  <2>1. PICK g \in G : Longest(g) = best
    BY <1>9
  <2>2. PICK j \in 1..Len(f) : Says(f, j) /\ Agents(f, j) = g.agents
    BY <1>7
  <2>3. PICK t \in Agents(f, j) \ {Star} : Fit[t] = best
    BY <2>1, <2>2, <1>4, <1>6
  <2>4. t \in Tokens
    BY <1>6
  <2> HIDE DEF ours
  <2>5. j \in ours(best)
    <3>1. ours(best) = {i \in 1..Len(f) : Says(f, i) /\
                          \E u \in Agents(f, i) : u \in Tokens /\ Fit[u] = best}
      BY <1>11
    <3> QED BY <2>2, <2>3, <2>4, <3>1
  <2> QED BY <2>3, <2>4, <2>5, <1>9
<1> HIDE DEF best, fits, ours
<1>17. fits # {} => best > 0 /\ Max(fits) = best
  <2> SUFFICES ASSUME fits # {} PROVE best > 0 /\ Max(fits) = best
    OBVIOUS
  <2>1. best > 0
    BY <1>9, <1>15
  <2>2. fits \subseteq Nat /\ \A n \in fits : n <= best
    BY <1>15
  <2>3. Max(fits) \in fits /\ \A y \in fits : y <= Max(fits)
    BY <2>2, <1>9, MaxIs
  <2>4. best \in fits /\ best \in Nat
    BY <2>1, <1>9, <1>16
  <2>5. Max(fits) \in Nat /\ Max(fits) <= best /\ best <= Max(fits)
    BY <2>2, <2>3, <2>4
  <2>6. Max(fits) = best
    BY <2>4, <2>5
  <2> QED BY <2>1, <2>6
<1>18. Binding(f) = IF best > 0 THEN ours(best) ELSE Named(f, {Star})
  BY <1>9, <1>13, <1>16, <1>17
<1>19. ASSUME NEW j \in 1..Len(f), NEW g \in G, Says(f, j), g.agents = Agents(f, j)
       PROVE  g \in MatchingGroups(G) <=> j \in Binding(f)
  <2>1. CASE best > 0
    <3>1. Longest(g) = best => j \in ours(best)
      <4> SUFFICES ASSUME Longest(g) = best PROVE j \in ours(best)
        OBVIOUS
      <4>1. FitOf(Agents(f, j)) = best /\ best # 0
        BY <2>1, <1>4, <1>9, <1>19
      <4>2. PICK t \in Agents(f, j) \ {Star} : Fit[t] = best
        BY <4>1, <1>6
      <4> QED BY <4>2, <1>6, <1>11, <1>19
    <3>2. j \in ours(best) => Longest(g) = best
      <4> SUFFICES ASSUME j \in ours(best) PROVE Longest(g) = best
        OBVIOUS
      <4>1. PICK t \in Agents(f, j) : t \in Tokens /\ Fit[t] = best
        BY <1>11
      <4>2. best <= Longest(g) /\ Longest(g) \in Nat
        BY <4>1, <1>4, <1>6, <1>10, <1>19
      <4> QED BY <4>2, <1>9
    <3> QED BY <2>1, <3>1, <3>2, <1>14, <1>18
  <2>2. CASE ~(best > 0)
    BY <2>2, <1>12, <1>14, <1>18, <1>19
  <2> QED BY <2>1, <2>2
<1>20. \A j \in Binding(f) : j \in 1..Len(f) /\ Says(f, j) /\ Agents(f, j) # {}
  BY <1>11, <1>12, <1>18
<1> QED BY <1>19, <1>20

\* A rule of a matching group is a line that binds us, and the reverse.
LEMMA RulesBind ==
  ASSUME NEW f, Len(f) \in Nat, DOMAIN f = 1..Len(f), NEW s, HasRead(s, f, Len(f)),
         NEW G, G = ToSet(s.groups)
  PROVE  \A r : (\E g \in MatchingGroups(G) : r \in g.rules)
                <=> \E j \in Binding(f) : Listed(f, j) /\ r = f[j]
<1>1. /\ \A x \in 1..Len(s.groups) : s.groups[x] \in G
      /\ \A g \in G : \E x \in 1..Len(s.groups) : g = s.groups[x]
  <2>1. s.groups \in Seq(Groups)
    BY DEF HasRead, Readers
  <2>2. Len(s.groups) \in Nat /\ DOMAIN s.groups = 1..Len(s.groups)
    BY <2>1
  <2> QED BY <2>2, MemberOf
<1>2. /\ \A j \in 1..Len(f) : \A g \in G :
            Says(f, j) /\ g.agents = Agents(f, j) => (g \in MatchingGroups(G) <=> j \in Binding(f))
      /\ \A j \in Binding(f) : j \in 1..Len(f) /\ Says(f, j) /\ Agents(f, j) # {}
  BY BindingIs, Zenon
<1>3. MatchingGroups(G) \subseteq G
  BY DEF MatchingGroups
<1>4. \A j : Listed(f, j) => Says(f, j)
  BY DEF Listed, Says
<1>5. ASSUME NEW g \in MatchingGroups(G), NEW r \in g.rules
      PROVE  \E j \in Binding(f) : Listed(f, j) /\ r = f[j]
  <2>1. PICK x \in 1..Len(s.groups) : g = s.groups[x]
    BY <1>1, <1>3
  <2>2. PICK j \in 1..Len(f) : f[j] = r /\ Listed(f, j) /\ Agents(f, j) = g.agents
    BY <1>5, <2>1 DEF HasRead, RulesMeant
  <2> QED BY <1>2, <1>3, <1>4, <2>2
<1>6. ASSUME NEW j \in Binding(f), Listed(f, j)
      PROVE  \E g \in MatchingGroups(G) : f[j] \in g.rules
  <2>1. j \in 1..Len(f) /\ Says(f, j) /\ Agents(f, j) # {}
    BY <1>2
  <2>2. PICK x \in 1..Len(s.groups) : /\ s.groups[x].agents = Agents(f, j)
                                      /\ f[j] \in s.groups[x].rules
    BY <1>6, <2>1 DEF HasRead, RulesKept
  <2> QED BY <1>1, <1>2, <2>1, <2>2
<1> QED BY <1>5, <1>6

\* The delays of the matching groups are the ones that bind us.
LEMMA DelaysBind ==
  ASSUME NEW f, Len(f) \in Nat, DOMAIN f = 1..Len(f), NEW s, HasRead(s, f, Len(f)),
         NEW G, G = ToSet(s.groups)
  PROVE  {g.delay : g \in MatchingGroups(G)} \ {Null} = LawDelays(f)
<1>1. /\ \A x \in 1..Len(s.groups) : s.groups[x] \in G
      /\ \A g \in G : \E x \in 1..Len(s.groups) : g = s.groups[x]
  <2>1. s.groups \in Seq(Groups)
    BY DEF HasRead, Readers
  <2>2. Len(s.groups) \in Nat /\ DOMAIN s.groups = 1..Len(s.groups)
    BY <2>1
  <2> QED BY <2>2, MemberOf
<1>2. /\ \A j \in 1..Len(f) : \A g \in G :
            Says(f, j) /\ g.agents = Agents(f, j) => (g \in MatchingGroups(G) <=> j \in Binding(f))
      /\ \A j \in Binding(f) : j \in 1..Len(f) /\ Says(f, j) /\ Agents(f, j) # {}
  BY BindingIs, Zenon
<1>3. MatchingGroups(G) \subseteq G
  BY DEF MatchingGroups
<1>4. ASSUME NEW j \in 1..Len(f)
      PROVE  /\ f[j] \in DelayLines /\ f[j].delay # Null
             /\ ~ \E k \in DOMAIN f : /\ k > j /\ f[k] \in DelayLines /\ f[k].delay # Null
                                      /\ \A m \in j..k : f[m] \notin AgentLines
             <=> LastDelay(f, j, Len(f))
  <2>1. \A k \in 1..Len(f) : k > j <=> k \in (j + 1)..Len(f)
    OBVIOUS
  <2>2. (j + 1)..Len(f) \subseteq 1..Len(f)
    OBVIOUS
  <2> QED BY <2>1, <2>2, Zenon DEF LastDelay, Together
<1>5. LawDelays(f) = {f[j].delay : j \in {j \in Binding(f) : LastDelay(f, j, Len(f))}}
  <2> DEFINE law(j) == /\ f[j] \in DelayLines /\ f[j].delay # Null
                       /\ ~ \E k \in DOMAIN f : /\ k > j /\ f[k] \in DelayLines
                                                /\ f[k].delay # Null
                                                /\ \A m \in j..k : f[m] \notin AgentLines
  <2>1. \A j \in Binding(f) : law(j) <=> LastDelay(f, j, Len(f))
    BY <1>2, <1>4
  <2>2. LawDelays(f) = {f[j].delay : j \in {j \in Binding(f) : law(j)}}
    BY Zenon DEF LawDelays
  <2> HIDE DEF law
  <2>3. {j \in Binding(f) : law(j)} = {j \in Binding(f) : LastDelay(f, j, Len(f))}
    BY <2>1
  <2> QED BY <2>2, <2>3
<1>6. ASSUME NEW g \in MatchingGroups(G), g.delay # Null
      PROVE  \E j \in Binding(f) : LastDelay(f, j, Len(f)) /\ f[j].delay = g.delay
  <2>1. PICK x \in 1..Len(s.groups) : g = s.groups[x]
    BY <1>1, <1>3
  <2>2. PICK j \in 1..Len(f) : /\ LastDelay(f, j, Len(f)) /\ f[j].delay = g.delay
                               /\ Agents(f, j) = g.agents
    BY <1>6, <2>1 DEF HasRead, DelaysMeant
  <2>3. Says(f, j)
    BY <2>2 DEF LastDelay, Says
  <2> QED BY <1>2, <1>3, <2>2, <2>3
<1>7. ASSUME NEW j \in Binding(f), LastDelay(f, j, Len(f))
      PROVE  f[j].delay # Null /\ \E g \in MatchingGroups(G) : f[j].delay = g.delay
  <2>1. j \in 1..Len(f) /\ Says(f, j) /\ Agents(f, j) # {}
    BY <1>2
  <2>2. PICK x \in 1..Len(s.groups) : /\ s.groups[x].agents = Agents(f, j)
                                      /\ s.groups[x].delay = f[j].delay
    BY <1>7, <2>1 DEF HasRead, DelaysKept
  <2> QED BY <1>1, <1>2, <1>7, <2>1, <2>2 DEF LastDelay
<1> QED BY <1>5, <1>6, <1>7

\* The longest rule against a path, with Allow before its equal, is the law that
\* every Disallow be answered by an Allow as long.
LEMMA LongestWins ==
  ASSUME NEW f, NEW G, NEW path \in Seq(Segments),
         \A j \in Binding(f) : j \in 1..Len(f),
         \A r : (\E g \in MatchingGroups(G) : r \in g.rules)
                <=> \E j \in Binding(f) : Listed(f, j) /\ r = f[j]
  PROVE  IsAllowed(G, path) <=> LawAllows(f, path)
<1> DEFINE R == {r \in UNION {g.rules : g \in MatchingGroups(G)} : IsPrefix(r.path, path)}
           best == Max({Len(r.path) : r \in R})
           on(j) == j \in Binding(f) /\ Listed(f, j) /\ IsPrefix(f[j].path, path)
<1>1. IsAllowed(G, path) <=> (R # {} => \E r \in R : Len(r.path) = best /\ r.rule = "allow")
  BY Zenon DEF IsAllowed
<1>2. LawAllows(f, path) <=>
        \A j : on(j) /\ f[j].rule = "disallow" =>
          \E k : on(k) /\ f[k].rule = "allow" /\ Len(f[k].path) >= Len(f[j].path)
  BY Zenon DEF LawAllows, Listed
<1>3. \A r : r \in R <=> \E j : on(j) /\ r = f[j]
  <2>1. \A r : r \in R <=> IsPrefix(r.path, path) /\ \E g \in MatchingGroups(G) : r \in g.rules
    OBVIOUS
  <2> HIDE DEF R
  <2> QED BY <2>1, Zenon
<1>4. ASSUME NEW j, on(j)
      PROVE  /\ Len(f[j].path) \in Nat /\ Len(f[j].path) <= Len(path)
             /\ f[j].rule = "allow" \/ f[j].rule = "disallow"
  <2>1. f[j].path \in RulePaths /\ f[j].rule \in {"allow", "disallow"}
    BY <1>4 DEF Listed, RuleLines
  <2>2. f[j].path \in Seq(Segments)
    BY <2>1, RobotsAssumption
  <2> QED BY <1>4, <2>1, <2>2 DEF IsPrefix
<1>5. R # {} => /\ best \in Nat /\ \E r \in R : Len(r.path) = best
                /\ \A r \in R : Len(r.path) <= best
  <2> SUFFICES ASSUME R # {}
               PROVE  /\ best \in Nat /\ \E r \in R : Len(r.path) = best
                      /\ \A r \in R : Len(r.path) <= best
    OBVIOUS
  <2> DEFINE L == {Len(r.path) : r \in R}
  <2>1. \A r \in R : Len(r.path) \in Nat /\ Len(r.path) <= Len(path)
    BY <1>3, <1>4
  <2> HIDE DEF R
  <2>2. Len(path) \in Nat
    OBVIOUS
  <2>3. /\ \A r \in R : Len(r.path) \in L
        /\ \A x \in L : \E r \in R : Len(r.path) = x
    OBVIOUS
  <2>4. best = Max(L)
    OBVIOUS
  <2> HIDE DEF L, best
  <2>5. L \subseteq Nat /\ L # {} /\ \A x \in L : x <= Len(path)
    BY <2>1, <2>3
  <2>6. Max(L) \in L /\ \A y \in L : y <= Max(L)
    BY <2>2, <2>5, MaxIs
  <2> QED BY <2>3, <2>4, <2>5, <2>6
<1> HIDE DEF R, best, on
<1>6. ASSUME IsAllowed(G, path) PROVE LawAllows(f, path)
  <2> SUFFICES ASSUME NEW j, on(j), f[j].rule = "disallow"
               PROVE  \E k : on(k) /\ f[k].rule = "allow" /\ Len(f[k].path) >= Len(f[j].path)
    BY <1>2
  <2>1. f[j] \in R
    BY <1>3
  <2>2. PICK r \in R : Len(r.path) = best /\ r.rule = "allow"
    BY <1>1, <1>6, <2>1
  <2>3. PICK k : on(k) /\ r = f[k]
    BY <1>3
  <2>4. Len(f[j].path) <= best /\ best \in Nat /\ Len(f[j].path) \in Nat
    BY <1>4, <1>5, <2>1
  <2> QED BY <2>2, <2>3, <2>4
<1>7. ASSUME LawAllows(f, path) PROVE IsAllowed(G, path)
  <2> SUFFICES ASSUME R # {} PROVE \E r \in R : Len(r.path) = best /\ r.rule = "allow"
    BY <1>1
  <2>1. PICK r \in R : Len(r.path) = best
    BY <1>5
  <2>2. PICK j : on(j) /\ r = f[j]
    BY <1>3
  <2>3. CASE f[j].rule = "allow"
    BY <2>1, <2>2, <2>3
  <2>4. CASE f[j].rule = "disallow"
    <3>1. PICK k : on(k) /\ f[k].rule = "allow" /\ Len(f[k].path) >= Len(f[j].path)
      BY <1>2, <1>7, <2>2, <2>4
    <3>2. f[k] \in R
      BY <1>3, <3>1
    <3>3. Len(f[k].path) <= best /\ Len(f[k].path) \in Nat /\ best \in Nat
      BY <1>4, <1>5, <3>1, <3>2
    <3>4. Len(f[k].path) = best
      BY <2>1, <2>2, <3>1, <3>3
    <3> QED BY <3>1, <3>2, <3>4
  <2> QED BY <1>4, <2>2, <2>3, <2>4
<1> QED BY <1>6, <1>7

\* robots.js reads every file as it is written: parseRobots over its lines,
\* then isAllowed and crawlDelayFor, against the law of the lines.
THEOREM FilesReadAsWritten ==
  ASSUME NEW f \in Seq(Lines)
  PROVE  /\ \A path \in Seq(Segments) : IsAllowed(ParseRobots(f), path) <=> LawAllows(f, path)
         /\ CrawlDelayFor(ParseRobots(f)) =
              IF LawDelays(f) = {} THEN Null ELSE Max(LawDelays(f))
<1>1. Len(f) \in Nat /\ DOMAIN f = 1..Len(f)
  OBVIOUS
<1>2. PICK s : HasRead(s, f, Len(f)) /\ ParseRobots(f) = ToSet(s.groups)
  BY <1>1, ParseHasRead
<1>3. {g.delay : g \in MatchingGroups(ParseRobots(f))} \ {Null} = LawDelays(f)
  BY <1>1, <1>2, DelaysBind
<1>4. \A r : (\E g \in MatchingGroups(ParseRobots(f)) : r \in g.rules)
             <=> \E j \in Binding(f) : Listed(f, j) /\ r = f[j]
  BY <1>1, <1>2, RulesBind
<1>5. \A j \in Binding(f) : j \in 1..Len(f)
  BY <1>1, <1>2, BindingIs
<1>6. \A path \in Seq(Segments) : IsAllowed(ParseRobots(f), path) <=> LawAllows(f, path)
  BY <1>4, <1>5, LongestWins
<1>7. CrawlDelayFor(ParseRobots(f)) = IF LawDelays(f) = {} THEN Null ELSE Max(LawDelays(f))
  BY <1>3, Zenon DEF CrawlDelayFor
<1> QED BY <1>6, <1>7

-----------------------------------------------------------------------------
(* The hand tool                                                           *)

LEMMA DelaysBounded ==
  ASSUME NEW f \in Seq(Lines)
  PROVE  /\ LawDelays(f) \subseteq Delays
         /\ \E b \in Nat : \A d \in LawDelays(f) : d <= b
<1> DEFINE v == [i \in 1..Len(f) |-> IF f[i] \in DelayLines /\ f[i].delay # Null
                                     THEN f[i].delay ELSE 0]
<1>1. Len(f) \in Nat /\ DOMAIN f = 1..Len(f)
  OBVIOUS
<1>2. \A i \in 1..Len(f) : f[i] \in DelayLines /\ f[i].delay # Null => f[i].delay \in Delays
  BY DEF DelayLines
<1>3. \A i \in 1..Len(f) : v[i] \in Nat
  BY <1>2, RobotsAssumption
<1>4. PICK b \in Nat : \A i \in 1..Len(f) : v[i] <= b
  BY <1>1, <1>3, Bounded
<1>5. \A d \in LawDelays(f) : \E i \in Binding(f) : f[i] \in DelayLines /\ f[i].delay # Null
                                                  /\ d = f[i].delay
  BY DEF LawDelays
<1>6. Binding(f) \subseteq 1..Len(f)
  <2>1. \A A : Named(f, A) \subseteq 1..Len(f)
    BY <1>1, Zenon DEF Named
  <2> QED BY <2>1, Zenon DEF Binding
<1>7. \A d \in LawDelays(f) : d \in Delays /\ d <= b
  <2> TAKE d \in LawDelays(f)
  <2>1. PICK i \in 1..Len(f) : f[i] \in DelayLines /\ f[i].delay # Null /\ d = f[i].delay
    BY <1>5, <1>6
  <2>2. v[i] = d
    BY <2>1
  <2> QED BY <1>2, <1>4, <2>1, <2>2
<1> QED BY <1>4, <1>7

\* The wait is the floor's, and that of every delay which binds us.
LEMMA WaitIsEnough ==
  ASSUME NEW f \in Seq(Lines), source \in Reviews
  PROVE  /\ Wait(ParseRobots(f)) \in Nat
         /\ \A d \in LawDelays(f) \cup {Floor} : d \in Nat /\ d <= Wait(ParseRobots(f))
<1>1. /\ Floor \in Nat /\ Delays \subseteq Nat /\ Null \notin Delays
      /\ source.delay \in Nat \cup {Null}
  BY RobotsAssumption, HandAssumption
<1>2. CrawlDelayFor(ParseRobots(f)) = IF LawDelays(f) = {} THEN Null ELSE Max(LawDelays(f))
  BY FilesReadAsWritten
<1>3. LawDelays(f) # {} => /\ Max(LawDelays(f)) \in LawDelays(f)
                           /\ \A y \in LawDelays(f) : y <= Max(LawDelays(f))
  <2>1. PICK b \in Nat : \A d \in LawDelays(f) : d <= b
    BY DelaysBounded
  <2>2. LawDelays(f) \subseteq Nat
    BY <1>1, DelaysBounded
  <2> QED BY <2>1, <2>2, MaxIs
<1>4. LawDelays(f) \subseteq Delays
  BY DelaysBounded
<1>5. \A d : MinInterval(d) = IF d = Null \/ d <= Floor THEN Floor ELSE d
  BY DEF MinInterval
<1>6. Wait(ParseRobots(f)) = MinInterval(IF CrawlDelayFor(ParseRobots(f)) # Null
                                         THEN CrawlDelayFor(ParseRobots(f)) ELSE source.delay)
  BY DEF Wait
<1>7. CASE LawDelays(f) = {}
  <2>1. Wait(ParseRobots(f)) = IF source.delay = Null \/ source.delay <= Floor
                               THEN Floor ELSE source.delay
    BY <1>2, <1>5, <1>6, <1>7
  <2> QED BY <1>1, <1>7, <2>1
<1>8. CASE LawDelays(f) # {}
  <2> DEFINE m == Max(LawDelays(f))
  <2>1. m \in Nat /\ m # Null
    BY <1>1, <1>3, <1>4, <1>8
  <2>2. Wait(ParseRobots(f)) = IF m <= Floor THEN Floor ELSE m
    BY <1>2, <1>5, <1>6, <1>8, <2>1
  <2>3. \A d \in LawDelays(f) : d \in Nat /\ d <= m
    BY <1>1, <1>3, <1>4, <1>8
  <2> HIDE DEF m
  <2> QED BY <1>1, <2>1, <2>2, <2>3
<1> QED BY <1>7, <1>8

\* The tool goes on only with an event page, of a source that may be asked.
Admitted == ClassifyUrl(url, Hosts) /\ CheckSource(source)

HandInv ==
  /\ url \in Urls /\ source \in Reviews
  /\ HandTypeOK
  /\ step \in {"robots", "asleep", "page"} => Admitted
  /\ step \in {"asleep", "page"} => \A d \in LawDelays(file) \cup {Floor} : due >= asked + d
  /\ step = "page" => clock >= due /\ ~source.listingOnly
  /\ ReadRowsStorable

LEMMA OnlyEvents ==
  ASSUME url \in Urls, source \in Reviews, Admitted, DecideFetch(url, source) # "refused"
  PROVE  ~source.listingOnly
<1>1. url.layers \in Nat
  BY HandAssumption
<1>2. url.https /\ url.host \in Hosts /\ Decoded(url) = "event" /\ CheckSource(source)
  BY DEF Admitted, ClassifyUrl
<1>3. ~(url.layers = 0 /\ url.shape \in {"robots", "listing"})
  BY <1>1, <1>2 DEF Decoded
<1> QED BY <1>2, <1>3 DEF DecideFetch

LEMMA RowIsStorable ==
  ASSUME NEW p \in Pages, ParseEventPage(p)
  PROVE  Storable(ToDraftRow(p)) <=> /\ ToDraftRow(p).text = "fits"
                                     /\ ToDraftRow(p).end # EmptyDate
                                     /\ ToDraftRow(p).link # "mended"
<1>1. p.link \in {"none", "http", "https", "mended"} /\ EmptyDate \notin Nat \cup {Null}
  BY HandAssumption
<1>2. /\ ToDraftRow(p).text = p.text /\ ToDraftRow(p).start = p.start
      /\ ToDraftRow(p).end = p.end
      /\ ToDraftRow(p).link = (IF p.link = "http" THEN "none" ELSE p.link)
      /\ ToDraftRow(p).deadline = (IF IsRealDate(p.deadline) THEN p.deadline ELSE Null)
  BY DEF ToDraftRow
<1>3. /\ IsRealDate(p.start)
      /\ p.end \notin {Null, EmptyDate} => IsRealDate(p.end) /\ p.end >= p.start
  BY DEF ParseEventPage
<1>4. ~IsRealDate(EmptyDate) /\ EmptyDate # Null
  BY <1>1 DEF IsRealDate
<1>5. ToDraftRow(p).deadline # Null => IsRealDate(ToDraftRow(p).deadline)
  BY <1>2
<1>6. ToDraftRow(p).link \in {"none", "https"} <=> ToDraftRow(p).link # "mended"
  BY <1>1, <1>2
<1>7. (p.end # Null => IsRealDate(p.end) /\ p.end >= p.start) <=> p.end # EmptyDate
  BY <1>3, <1>4
<1> QED BY <1>2, <1>3, <1>5, <1>6, <1>7, Zenon DEF Storable, Fits

LEMMA HandStep == HandInv /\ [HandNext]_handVars => HandInv'
<1> SUFFICES ASSUME HandInv, [HandNext]_handVars PROVE HandInv'
  OBVIOUS
<1>0. /\ Timeout \in Nat /\ Floor \in Nat
      /\ clock \in Nat /\ asked \in Nat /\ asked <= clock /\ due \in Nat
      /\ file \in Seq(Lines) /\ step \in Steps
  BY HandAssumption, RobotsAssumption DEF HandInv, HandTypeOK
<1>1. ASSUME Stop PROVE HandInv'
  BY <1>1 DEF Stop, HandInv, HandTypeOK, Steps, Inputs, Admitted, ReadRowsStorable
<1>2. CASE Begin
  <2>1. CASE Stop
    BY <1>1, <2>1
  <2>2. CASE ~Stop
    <3>1. /\ CheckSource(source) /\ ClassifyUrl(url, Hosts)
          /\ step' = "robots" /\ asked' = clock
          /\ UNCHANGED <<url, source, file, clock, due, shown>>
      BY <1>2, <2>2 DEF Begin, Inputs
    <3>2. HandTypeOK'
      BY <1>0, <3>1 DEF HandTypeOK, Steps
    <3> QED BY <3>1, <3>2 DEF HandInv, Admitted, ReadRowsStorable
  <2> QED BY <2>1, <2>2
<1>3. CASE ReadRobots
  <2>1. PICK f \in Files :
          /\ file' = f /\ UNCHANGED <<url, source, clock, asked, shown>>
          /\ \/ step' = "asleep" /\ due' = clock + Wait(ParseRobots(f))
             \/ step' = "stopped" /\ due' = due
    BY <1>3 DEF ReadRobots, Inputs
  <2>2. f \in Seq(Lines)
    BY HandAssumption
  <2>3. /\ Wait(ParseRobots(f)) \in Nat
        /\ \A d \in LawDelays(f) \cup {Floor} : d \in Nat /\ d <= Wait(ParseRobots(f))
    BY <2>2, WaitIsEnough DEF HandInv
  <2>4. HandTypeOK'
    BY <1>0, <2>1, <2>2, <2>3 DEF HandTypeOK, Steps
  <2>5. step' = "asleep" => \A d \in LawDelays(f) \cup {Floor} : due' >= asked' + d
    <3> SUFFICES ASSUME step' = "asleep", NEW d \in LawDelays(f) \cup {Floor}
                 PROVE  due' >= asked' + d
      OBVIOUS
    <3>1. due' = clock + Wait(ParseRobots(f)) /\ asked' = asked
      BY <2>1
    <3>2. d \in Nat /\ d <= Wait(ParseRobots(f))
      BY <2>3
    <3> QED BY <1>0, <2>3, <3>1, <3>2
  <2>6. step = "robots"
    BY <1>3 DEF ReadRobots
  <2>7. Admitted' <=> Admitted
    BY <2>1 DEF Admitted
  <2>8. step' \in {"asleep", "page"} =>
          \A d \in LawDelays(file') \cup {Floor} : due' >= asked' + d
    BY <2>1, <2>5
  <2> QED BY <2>1, <2>4, <2>6, <2>7, <2>8 DEF HandInv, ReadRowsStorable
<1>4. CASE Wake
  <2>1. CASE Stop
    BY <1>1, <2>1
  <2>2. CASE ~Stop
    <3>1. /\ step = "asleep" /\ clock >= due /\ DecideFetch(url, source) # "refused"
          /\ step' = "page" /\ UNCHANGED <<url, source, file, clock, asked, due, shown>>
      BY <1>0, <1>4, <2>2 DEF Wake, Inputs
    <3>2. ~source.listingOnly
      BY <3>1, OnlyEvents DEF HandInv
    <3>3. HandTypeOK'
      BY <1>0, <3>1 DEF HandTypeOK, Steps
    <3> QED BY <3>1, <3>2, <3>3 DEF HandInv, Admitted, ReadRowsStorable
  <2> QED BY <2>1, <2>2
<1>5. CASE ReadPage
  <2>1. PICK p \in Pages : shown' = IF ParseEventPage(p) THEN ToDraftRow(p) ELSE Null
    BY <1>5 DEF ReadPage
  <2>2. step' = "shown" /\ UNCHANGED <<url, source, file, clock, asked, due>>
    BY <1>5 DEF ReadPage, Inputs
  <2>3. ReadRowsStorable'
    BY <2>1, RowIsStorable DEF ReadRowsStorable, Storable
  <2>4. HandTypeOK'
    BY <1>0, <2>2 DEF HandTypeOK, Steps
  <2> QED BY <2>2, <2>3, <2>4 DEF HandInv
<1>6. CASE Tick
  <2>1. /\ clock' = clock + 1 /\ UNCHANGED <<step, url, source, file, asked, due, shown>>
        /\ \/ step = "robots" /\ clock < asked + Timeout
           \/ step = "asleep" /\ clock < due
    BY <1>6 DEF Tick, Inputs
  <2>2. HandTypeOK'
    BY <1>0, <2>1 DEF HandTypeOK, HandInv
  <2> QED BY <2>1, <2>2 DEF HandInv, Admitted, ReadRowsStorable
<1>7. CASE UNCHANGED handVars
  BY <1>7 DEF handVars, HandInv, HandTypeOK, Admitted, ReadRowsStorable
<1> QED BY <1>1, <1>2, <1>3, <1>4, <1>5, <1>6, <1>7 DEF HandNext, RobotsUnusable, PageUnusable

LEMMA InitHand == HandInit => HandInv
  BY EmptySeq DEF HandInit, HandInv, HandTypeOK, Steps, ReadRowsStorable

THEOREM HandInvariant == HandSpec => []HandInv
  BY InitHand, HandStep, PTL DEF HandSpec

\* The tool waits for no answer longer than Timeout, nor beyond its due moment.
THEOREM HandTypeCorrect == HandSpec => []HandTypeOK
<1>1. HandInv => HandTypeOK
  BY DEF HandInv
<1> QED BY <1>1, HandInvariant, PTL

\* robots.js obeys every file the tool is answered, whatever its lines.
THEOREM HandReadsAsWritten == HandSpec => []ReadsAsWritten
<1>1. HandInv => ReadsAsWritten
  <2> SUFFICES ASSUME HandInv PROVE ReadsAsWritten
    OBVIOUS
  <2>1. file \in Seq(Lines) /\ \A u \in Urls : u.path \in Seq(Segments)
    BY HandAssumption DEF HandInv, HandTypeOK
  <2> QED BY <2>1, FilesReadAsWritten, Zenon DEF ReadsAsWritten
<1> QED BY <1>1, HandInvariant, PTL

\* The page is asked for when the law's floor and every delay that binds us have
\* passed since robots.txt was (fetch-one.mjs).
THEOREM HandWaits == HandSpec => []WaitsAsAsked
<1>1. HandInv => WaitsAsAsked
  <2> SUFFICES ASSUME HandInv, step = "page", NEW d \in LawDelays(file) \cup {Floor}
               PROVE  clock >= asked + d
    BY DEF WaitsAsAsked
  <2>1. clock >= due /\ due >= asked + d /\ clock \in Nat /\ due \in Nat /\ asked \in Nat
    BY DEF HandInv, HandTypeOK
  <2>2. d \in Nat
    <3>1. file \in Seq(Lines) /\ source \in Reviews
      BY DEF HandInv, HandTypeOK
    <3> QED BY <3>1, WaitIsEnough
  <2> QED BY <2>1, <2>2
<1> QED BY <1>1, HandInvariant, PTL

\* Only an event page is asked for, of a reviewed host of an active source whose
\* event pages may be read (fetchgate.js, smoothcomp.js).
THEOREM HandAsksEventPages == HandSpec => []AsksOnlyEventPages
<1>1. HandInv => AsksOnlyEventPages
  <2> SUFFICES ASSUME HandInv, step = "page" PROVE AsksOnlyEventPages
    BY DEF AsksOnlyEventPages
  <2>1. Admitted /\ ~source.listingOnly /\ url.layers \in Nat
    BY HandAssumption DEF HandInv
  <2> QED BY <2>1 DEF Admitted, AsksOnlyEventPages, ClassifyUrl, Decoded, CheckSource
<1> QED BY <1>1, HandInvariant, PTL

\* A row made from a page passes the CHECKs of events unless it has a text of a
\* refused length, an empty end date, or a link that only parses as https://
\* (parseEventPage and toDraftRow in parsers/smoothcomp.js).
THEOREM HandRowsStorable == HandSpec => []ReadRowsStorable
<1>1. HandInv => ReadRowsStorable
  BY DEF HandInv
<1> QED BY <1>1, HandInvariant, PTL

-----------------------------------------------------------------------------
(* The listing                                                             *)

LEMMA DistanceIs ==
  ASSUME NEW a \in Int, NEW b \in Int
  PROVE  /\ Distance(a, b) \in Nat
         /\ \A k \in Nat : Distance(a, b) <= k <=> b \in (a - k)..(a + k)
  BY DEF Distance

\* No two members: what "at most one state contends" says of the places.
LEMMA AtMostOne ==
  ASSUME NEW S, IsFiniteSet(S), ~(Cardinality(S) > 1), NEW x \in S, NEW y \in S
  PROVE  x = y
<1> SUFFICES ASSUME x # y PROVE FALSE
  OBVIOUS
<1>1. IsFiniteSet({x}) /\ Cardinality({x}) = 1
  BY FS_Singleton
<1>2. IsFiniteSet({x} \cup {y}) /\ Cardinality({x} \cup {y}) = 2
  <2>1. y \notin {x}
    OBVIOUS
  <2>2. /\ IsFiniteSet({x} \cup {y})
        /\ Cardinality({x} \cup {y}) = IF y \in {x} THEN Cardinality({x}) ELSE Cardinality({x}) + 1
    BY <1>1, FS_AddElement, Zenon
  <2> QED BY <1>1, <2>1, <2>2
<1>3. Cardinality({x} \cup {y}) <= Cardinality(S)
  <2>1. {x} \cup {y} \in SUBSET S
    OBVIOUS
  <2> QED BY <2>1, FS_Subset
<1>4. Cardinality(S) \in Nat
  BY FS_CardinalityType
<1> QED BY <1>2, <1>3, <1>4

LEMMA StatesFinite ==
  ASSUME NEW C, IsFiniteSet(C) PROVE IsFiniteSet({p.state : p \in C})
<1> DEFINE g == [p \in C |-> p.state]
<1>1. g \in Surjection(C, {p.state : p \in C})
  BY DEF Surjection
<1> QED BY <1>1, FS_Surjection

\* What deriveState answers, if it answers at all: the state of the nearest
\* place, and no place of another state within the ratio of its distance.
LEMMA DeriveIs ==
  ASSUME NEW at \in Int, NEW us, NEW places \in SUBSET Places, DeriveState(at, us, places) # Null
  PROVE  /\ us
         /\ \E p \in places :
              /\ p.state = DeriveState(at, us, places) /\ Distance(at, p.at) <= MaxKm
              /\ \A q \in places : /\ Distance(at, p.at) <= Distance(at, q.at)
                                   /\ \/ q.state = p.state
                                      \/ 2 * Distance(at, q.at) > 3 * Distance(at, p.at)
<1> DEFINE D(p) == Distance(at, p.at)
           least == Min({D(p) : p \in places})
           contends(p) == 2 * D(p) <= 3 * least \/ D(p) <= Near
           near == {q \in places : contends(q)}
           states == {p.state : p \in near}
<1>1. DeriveState(at, us, places) =
        IF ~us \/ places = {} \/ least > MaxKm \/ Cardinality(states) > 1 THEN Null
        ELSE CHOOSE s \in states : TRUE
  BY DEF DeriveState
<1>2. us /\ places # {} /\ ~(least > MaxKm) /\ ~(Cardinality(states) > 1)
      /\ DeriveState(at, us, places) = CHOOSE s \in states : TRUE
  BY <1>1, Zenon
<1>3. \A p \in places : D(p) \in Nat
  BY ListAssumption, DistanceIs
<1>4. /\ \E p \in places : D(p) = least
      /\ least \in Nat /\ \A p \in places : least <= D(p)
  <2> DEFINE T == {D(p) : p \in places}
  <2>1. T \subseteq Nat /\ T # {} /\ least = Min(T)
    BY <1>2, <1>3
  <2>2. (\A p \in places : D(p) \in T) /\ \A x \in T : \E p \in places : D(p) = x
    OBVIOUS
  <2> HIDE DEF T, D, least
  <2>3. Min(T) \in T /\ \A y \in T : Min(T) <= y
    BY <2>1, MinIs
  <2> QED BY <2>1, <2>2, <2>3
<1>5. IsFiniteSet(states)
  <2>1. near \in SUBSET Places /\ IsFiniteSet(Places)
    BY ListAssumption
  <2>2. IsFiniteSet(near)
    BY <2>1, FS_Subset
  <2> HIDE DEF near
  <2> QED BY <2>2, StatesFinite
<1>6. PICK p \in places : D(p) = least
  BY <1>4
<1>7. p \in near
  <2> HIDE DEF least, D
  <2>1. 2 * D(p) <= 3 * least
    BY <1>4, <1>6
  <2> QED BY <2>1
<1>8. p.state \in states /\ \A q \in near : q.state \in states
  BY <1>7
<1>9. \A q \in places : q \notin near => 2 * D(q) > 3 * least
  <2> HIDE DEF least, D
  <2> QED BY <1>3, <1>4
<1> HIDE DEF states, near, least, D
<1>10. \A x, y \in states : x = y
  BY <1>2, <1>5, AtMostOne, Zenon
<1>11. DeriveState(at, us, places) \in states
  BY <1>2, <1>8
<1>12. p.state = DeriveState(at, us, places)
  BY <1>8, <1>10, <1>11
<1>13. D(p) <= MaxKm
  BY <1>2, <1>4, <1>6, ListAssumption
<1>14. ASSUME NEW q \in places
       PROVE  D(p) <= D(q) /\ (q.state = p.state \/ 2 * D(q) > 3 * D(p))
  BY <1>4, <1>6, <1>8, <1>9, <1>10
<1> QED BY <1>2, <1>12, <1>13, <1>14 DEF D

\* For an entry, over the whole gazetteer: what lies outside the box is farther
\* than MaxKm, and so than the nearest.
LEMMA StateIs ==
  ASSUME NEW e \in Entries, e.at # Null, StateOf(e) # Null
  PROVE  /\ e.us
         /\ \E p \in Places :
              /\ p.state = StateOf(e) /\ Distance(e.at, p.at) <= MaxKm
              /\ \A q \in Places :
                   /\ Distance(e.at, p.at) <= Distance(e.at, q.at)
                   /\ \/ q.state = p.state
                      \/ 2 * Distance(e.at, q.at) > 3 * Distance(e.at, p.at)
                      \/ Distance(e.at, q.at) > MaxKm
<1> DEFINE D(p) == Distance(e.at, p.at)
           box == NearbyPlaces(e.at)
<1>1. e.at \in Int /\ MaxKm \in Nat
  BY ListAssumption
<1>2. box \in SUBSET Places /\ StateOf(e) = DeriveState(e.at, e.us, box)
  BY DEF NearbyPlaces, StateOf
<1>3. /\ e.us
      /\ \E p \in box :
           /\ p.state = StateOf(e) /\ D(p) <= MaxKm
           /\ \A q \in box : D(p) <= D(q) /\ (q.state = p.state \/ 2 * D(q) > 3 * D(p))
  BY <1>1, <1>2, DeriveIs
<1>4. \A q \in Places : D(q) \in Nat /\ (q \notin box => D(q) > MaxKm)
  <2> TAKE q \in Places
  <2>1. q.at \in Int
    BY ListAssumption
  <2>2. q \notin box => q.at \notin (e.at - MaxKm)..(e.at + MaxKm)
    BY DEF NearbyPlaces
  <2>3. D(q) \in Nat /\ (D(q) <= MaxKm <=> q.at \in (e.at - MaxKm)..(e.at + MaxKm))
    BY <1>1, <2>1, DistanceIs
  <2> HIDE DEF D, box
  <2> QED BY <1>1, <2>2, <2>3
<1>5. PICK p \in box :
           /\ p.state = StateOf(e) /\ D(p) <= MaxKm
           /\ \A q \in box : D(p) <= D(q) /\ (q.state = p.state \/ 2 * D(q) > 3 * D(p))
  BY <1>3
<1>6. p \in Places
  BY <1>2
<1> HIDE DEF D, box
<1>7. ASSUME NEW q \in Places
      PROVE  /\ D(p) <= D(q)
             /\ q.state = p.state \/ 2 * D(q) > 3 * D(p) \/ D(q) > MaxKm
  <2>1. CASE q \in box
    BY <1>5, <2>1
  <2>2. CASE q \notin box
    <3>1. D(q) \in Nat /\ D(q) > MaxKm /\ D(p) \in Nat
      BY <1>4, <1>6, <2>2
    <3> QED BY <1>1, <1>5, <3>1
  <2> QED BY <2>1, <2>2
<1> QED BY <1>3, <1>5, <1>6, <1>7 DEF D

\* The entries kept of a listing are entries, and no more than it has.
LEMMA KeptIs ==
  ASSUME NEW m \in Nat, listing \in [1..m -> Entries]
  PROVE  Kept \in Seq(Entries) /\ Len(Kept) <= m
<1> DEFINE On(q, n) == IF ParseListingEntry(listing[n]) THEN Append(q, listing[n]) ELSE q
           next == [p \in Seq(Entries) \X Nat |-> On(p[1], p[2])]
           Runs(a) == a = [n \in 0..Len(listing) |-> IF n = 0 THEN <<>> ELSE On(a[n - 1], n)]
           Sized(q, n) == q \in Seq(Entries) /\ Len(q) <= n
<1>1. Len(listing) = m /\ \A n \in 1..m : listing[n] \in Entries
  OBVIOUS
<1>2. ASSUME NEW n \in 1..m, NEW q, Sized(q, n - 1) PROVE Sized(On(q, n), n)
  <2>1. listing[n] \in Entries
    BY <1>1
  <2>2. Append(q, listing[n]) \in Seq(Entries) /\ Len(Append(q, listing[n])) = Len(q) + 1
    BY <1>2, <2>1, AppendProperties
  <2>3. Len(q) \in Nat /\ Len(q) <= n - 1
    BY <1>2
  <2> QED BY <1>2, <2>2, <2>3
<1>3. ASSUME NEW a, \A n \in 0..m : a[n] = IF n = 0 THEN <<>>
                                            ELSE IF Sized(a[n - 1], n - 1) THEN On(a[n - 1], n)
                                            ELSE a[n]
      PROVE  \A n \in 0..m : Sized(a[n], n)
  <2> DEFINE T == {n \in Nat : n <= m => Sized(a[n], n)}
  <2>1. 0 \in T
    <3>1. a[0] = <<>>
      BY <1>3
    <3>2. <<>> \in Seq(Entries) /\ Len(<<>>) = 0
      BY EmptySeq
    <3>3. Sized(a[0], 0)
      <4>1. a[0] \in Seq(Entries) /\ Len(a[0]) = 0
        BY <3>1, <3>2, Zenon
      <4> QED BY <4>1
    <3> HIDE DEF Sized
    <3> QED BY <3>3
  <2>2. ASSUME NEW n \in Nat, n \in T PROVE n + 1 \in T
    <3> SUFFICES ASSUME n + 1 <= m PROVE Sized(a[n + 1], n + 1)
      OBVIOUS
    <3>1. Sized(a[n], n) /\ n + 1 \in 1..m /\ n + 1 \in 0..m /\ (n + 1) - 1 = n /\ n + 1 # 0
      BY <2>2
    <3> HIDE DEF Sized, On
    <3>2. a[n + 1] = On(a[n], n + 1)
      BY <1>3, <3>1
    <3> QED BY <1>2, <3>1, <3>2
  <2> HIDE DEF T
  <2>3. Nat \subseteq T
    BY <2>1, <2>2, CountUp
  <2> QED BY <2>3 DEF T
<1>4. \E a : Runs(a)
  <2>1. PICK a : UpTo(a, m, <<>>, next)
    BY UpToExists
  <2>2. a = [n \in 0..m |-> a[n]] /\ a[0] = <<>>
    BY <2>1 DEF UpTo
  <2>3. ASSUME NEW n \in 0..m, n # 0, a[n - 1] \in Seq(Entries) PROVE a[n] = On(a[n - 1], n)
    <3>1. a[n] = next[<<a[n - 1], n>>]
      BY <2>1, <2>3 DEF UpTo
    <3>2. <<a[n - 1], n>> \in Seq(Entries) \X Nat
      BY <2>3
    <3> QED BY <3>1, <3>2
  <2> HIDE DEF On
  <2>4. \A n \in 0..m : Sized(a[n], n)
    <3>1. \A n \in 0..m : a[n] = IF n = 0 THEN <<>>
                                 ELSE IF Sized(a[n - 1], n - 1) THEN On(a[n - 1], n) ELSE a[n]
      BY <2>2, <2>3
    <3> QED BY <3>1, <1>3
  <2>5. \A n \in 0..m : a[n] = IF n = 0 THEN <<>> ELSE On(a[n - 1], n)
    <3> TAKE n \in 0..m
    <3>1. n # 0 => n - 1 \in 0..m
      OBVIOUS
    <3> QED BY <2>2, <2>3, <2>4, <3>1
  <2> QED BY <1>1, <2>2, <2>5
<1> DEFINE a == CHOOSE b : Runs(b)
<1>5. Runs(a)
  BY <1>4
<1>6. Kept = a[m]
  <2>1. Kept = a[Len(listing)]
    BY Zenon DEF Kept
  <2> QED BY <1>1, <2>1
<1> HIDE DEF a, Sized
<1>7. Sized(a[m], m)
  <2>1. \A n \in 0..m : a[n] = IF n = 0 THEN <<>> ELSE On(a[n - 1], n)
    BY <1>1, <1>5
  <2> HIDE DEF On
  <2>2. \A n \in 0..m : Sized(a[n], n)
    BY <2>1, <1>3
  <2> QED BY <2>2
<1> QED BY <1>6, <1>7 DEF Sized

\* A row, and what its facts must say.
IsRow(x) == x = [key |-> x.key, facts |-> x.facts, status |-> x.status]

RowsOK ==
  /\ rows = [r \in Refs |-> rows[r]]
  /\ \A r \in Refs : rows[r] # Null =>
        IsRow(rows[r]) /\ rows[r].facts.state # Null
        /\ rows[r].status \in {"needs_review", "approved"}

TodoOK == todo # Null => todo \in Seq(Entries) /\ Len(todo) <= MaxEntries

HeldOK ==
  held # Null => /\ todo \notin {Null, <<>>} /\ StateOf(Head(todo)) # Null
                 /\ held.row # Null => held.row \in Refs /\ IsRow(rows[held.row])

ListInv == listing \in Listings /\ RowsOK /\ TodoOK /\ HeldOK

\* Writing the entry at hand, or giving the night up.
LEMMA WrittenRest ==
  ASSUME ListInv, Written \/ Refused, todo \notin {Null, <<>>}
  PROVE  (listing \in Listings)' /\ TodoOK' /\ HeldOK'
<1>1. listing' = listing /\ held' = Null /\ (todo' = Tail(todo) \/ todo' = Null)
  BY DEF Written, Refused
<1>2. todo \in Seq(Entries) /\ todo # <<>> /\ Len(todo) <= MaxEntries /\ Len(todo) \in Nat
  BY DEF ListInv, TodoOK
<1>3. Tail(todo) \in Seq(Entries) /\ Len(Tail(todo)) = Len(todo) - 1
  BY <1>2, HeadTailProperties
<1>4. MaxEntries \in Nat
  BY ListAssumption
<1>5. TodoOK'
  BY <1>1, <1>2, <1>3, <1>4 DEF TodoOK
<1> QED BY <1>1, <1>5 DEF ListInv, HeldOK

LEMMA FactsState == ASSUME NEW e PROVE FactsOf(e).state = StateOf(e)
  BY DEF FactsOf

LEMMA InsertStep == ASSUME ListInv, Insert PROVE ListInv'
<1> DEFINE e == Head(todo)
           new == [key |-> KeyOf(e), facts |-> FactsOf(e), status |-> "needs_review"]
<1>1. todo \notin {Null, <<>>} /\ StateOf(e) # Null
  BY DEF Insert, ListInv, HeldOK
<1>2. CASE Refused
  BY <1>1, <1>2, WrittenRest DEF Refused, ListInv, RowsOK
<1>3. CASE ~Refused
  <2>1. rows' = [rows EXCEPT ![e.ref] = new] /\ Written
    BY <1>3 DEF Insert
  <2>2. IsRow(new) /\ new.facts = FactsOf(e) /\ new.status = "needs_review"
    BY DEF IsRow
  <2>3. new.facts.state # Null
    BY <1>1, <2>2, FactsState
  <2> HIDE DEF new, e
  <2>4. rows' = [r \in Refs |-> IF r = e.ref THEN new ELSE rows[r]]
    BY <2>1 DEF ListInv, RowsOK
  <2>5. RowsOK'
    BY <2>2, <2>3, <2>4 DEF ListInv, RowsOK
  <2> QED BY <1>1, <2>1, <2>5, WrittenRest DEF ListInv
<1> QED BY <1>2, <1>3

LEMMA UpdateStep == ASSUME ListInv, Update PROVE ListInv'
<1> DEFINE e == Head(todo)
           k == held.row
<1>1. todo \notin {Null, <<>>} /\ StateOf(e) # Null /\ k \in Refs /\ IsRow(rows[k])
  BY DEF Update, ListInv, HeldOK
<1>2. CASE Refused
  BY <1>1, <1>2, WrittenRest DEF Refused, ListInv, RowsOK
<1>3. CASE ~Refused
  <2> DEFINE new == [[rows[k] EXCEPT !.facts = FactsOf(e)] EXCEPT !.status = "needs_review"]
  <2>1. rows' = [rows EXCEPT ![k].facts = FactsOf(e), ![k].status = "needs_review"] /\ Written
    BY <1>3 DEF Update
  <2>2. ASSUME NEW x, NEW f, IsRow(x)
        PROVE  LET n == [[x EXCEPT !.facts = f] EXCEPT !.status = "needs_review"]
               IN  IsRow(n) /\ n.facts = f /\ n.status = "needs_review"
    <3> DEFINE y == [x EXCEPT !.facts = f]
    <3>1. IsRow(y) /\ y.facts = f
      BY <2>2 DEF IsRow
    <3> HIDE DEF y
    <3>2. LET n == [y EXCEPT !.status = "needs_review"]
          IN  IsRow(n) /\ n.facts = f /\ n.status = "needs_review"
      BY <3>1 DEF IsRow
    <3> QED BY <3>2, Zenon DEF y
  <2>3. IsRow(new) /\ new.facts = FactsOf(e) /\ new.status = "needs_review"
    BY <1>1, <2>2, Zenon
  <2>4. new.facts.state # Null
    BY <1>1, <2>3, FactsState
  <2>5. rows' = [r \in Refs |-> IF r = k THEN new ELSE rows[r]]
    BY <1>1, <2>1 DEF ListInv, RowsOK
  <2> HIDE DEF new, e, k
  <2>6. RowsOK'
    BY <2>3, <2>4, <2>5 DEF ListInv, RowsOK
  <2> QED BY <1>1, <2>1, <2>6, WrittenRest DEF ListInv, e
<1> QED BY <1>2, <1>3

LEMMA DecideStep == ASSUME ListInv, NEW d \in Refs, Decide(d) PROVE ListInv'
<1> DEFINE to == IF rows[d].status = "approved" THEN "needs_review" ELSE "approved"
           new == [rows[d] EXCEPT !.status = to]
<1>1. rows[d] # Null /\ rows' = [rows EXCEPT ![d] = new] /\ UNCHANGED <<listing, todo, held>>
  BY DEF Decide
<1>2. IsRow(rows[d]) /\ rows[d].facts.state # Null
  BY <1>1 DEF ListInv, RowsOK
<1>3. IsRow(new) /\ new.facts = rows[d].facts /\ new.status \in {"needs_review", "approved"}
  BY <1>2 DEF IsRow
<1> HIDE DEF new
<1>4. rows' = [r \in Refs |-> IF r = d THEN new ELSE rows[r]]
  BY <1>1 DEF ListInv, RowsOK
<1>5. RowsOK'
  BY <1>2, <1>3, <1>4 DEF ListInv, RowsOK
<1>6. HeldOK'
  BY <1>1, <1>3, <1>4 DEF ListInv, HeldOK, StateOf
<1> QED BY <1>1, <1>5, <1>6 DEF ListInv, TodoOK

LEMMA ListStep == ListInv /\ [ListNext]_listVars => ListInv'
<1> SUFFICES ASSUME ListInv, [ListNext]_listVars PROVE ListInv'
  OBVIOUS
<1>0. MaxEntries \in Nat
  BY ListAssumption
<1>1. CASE StartNight
  <2>1. todo' = Kept /\ todo = Null /\ UNCHANGED <<listing, held, rows>>
    BY <1>1 DEF StartNight
  <2>2. PICK m \in 0..MaxEntries : listing \in [1..m -> Entries]
    BY DEF ListInv, Listings, SeqOf
  <2>3. Kept \in Seq(Entries) /\ Len(Kept) <= m
    BY <2>2, KeptIs
  <2>4. Len(Kept) <= MaxEntries
    BY <1>0, <2>2, <2>3
  <2>5. held = Null
    BY <2>1 DEF ListInv, HeldOK
  <2> QED BY <2>1, <2>3, <2>4, <2>5 DEF ListInv, RowsOK, TodoOK, HeldOK
<1>2. CASE Unresolved
  <2>1. /\ todo \notin {Null, <<>>} /\ held = Null /\ todo' = Tail(todo)
        /\ UNCHANGED <<listing, held, rows>>
    BY <1>2 DEF Unresolved
  <2>2. todo \in Seq(Entries) /\ todo # <<>> /\ Len(todo) <= MaxEntries /\ Len(todo) \in Nat
    BY <2>1 DEF ListInv, TodoOK
  <2>3. Tail(todo) \in Seq(Entries) /\ Len(Tail(todo)) = Len(todo) - 1
    BY <2>2, HeadTailProperties
  <2>4. TodoOK'
    BY <1>0, <2>1, <2>2, <2>3 DEF TodoOK
  <2> QED BY <2>1, <2>4 DEF ListInv, RowsOK, HeldOK
<1>3. CASE LoadEntry
  <2>1. /\ todo \notin {Null, <<>>} /\ StateOf(Head(todo)) # Null
        /\ UNCHANGED <<listing, todo, rows>>
    BY <1>3 DEF LoadEntry
  <2>2. PICK r \in IF Matching(Head(todo)) = {} THEN {Null} ELSE Matching(Head(todo)) :
          held' = [row |-> r, read |-> IF r = Null THEN Null ELSE rows[r]]
    BY <1>3 DEF LoadEntry
  <2>3. r # Null => r \in Refs /\ rows[r] # Null
    BY <2>2 DEF Matching
  <2>4. held'.row = r
    BY <2>2
  <2>5. r # Null => r \in Refs /\ IsRow(rows[r])
    BY <2>3 DEF ListInv, RowsOK
  <2>6. HeldOK'
    BY <2>1, <2>4, <2>5 DEF HeldOK, StateOf
  <2> QED BY <2>1, <2>6 DEF ListInv, RowsOK, TodoOK
<1>4. CASE Touch
  <2>1. todo \notin {Null, <<>>} /\ Written /\ rows' = rows
    BY <1>4 DEF Touch, ListInv, HeldOK
  <2> QED BY <2>1, WrittenRest DEF ListInv, RowsOK
<1>5. CASE EndNight
  <2>1. todo = <<>> /\ todo' = Null /\ UNCHANGED <<listing, held, rows>>
    BY <1>5 DEF EndNight
  <2>2. held = Null
    BY <2>1 DEF ListInv, HeldOK
  <2> QED BY <2>1, <2>2 DEF ListInv, RowsOK, TodoOK, HeldOK
<1>6. CASE ChangeListing
  <2>1. listing' \in Listings /\ UNCHANGED <<todo, held, rows>>
    BY <1>6 DEF ChangeListing, Listings
  <2> QED BY <2>1 DEF ListInv, RowsOK, TodoOK, HeldOK, StateOf
<1>7. CASE UNCHANGED listVars
  BY <1>7 DEF listVars, ListInv, Listings, RowsOK, TodoOK, HeldOK, StateOf
<1> QED
  BY <1>1, <1>2, <1>3, <1>4, <1>5, <1>6, <1>7, InsertStep, UpdateStep, DecideStep
  DEF ListNext, Night

LEMMA InitList == ListInit => ListInv
<1> SUFFICES ASSUME ListInit PROVE ListInv
  OBVIOUS
<1>1. /\ listing \in Listings /\ todo = Null /\ held = Null
      /\ rows = [r \in Refs |-> Null]
  BY DEF ListInit
<1> QED BY <1>1 DEF ListInv, RowsOK, TodoOK, HeldOK

THEOREM ListInvariant == ListSpec => []ListInv
  BY InitList, ListStep, PTL DEF ListSpec

\* What was read for one entry of a listing is never held while there is none at
\* hand, and a row waits or is approved (writeListingDrafts).
THEOREM ListTypeCorrect == ListSpec => []ListTypeOK
<1>1. ListInv => ListTypeOK
  BY DEF ListInv, ListTypeOK, RowsOK, TodoOK, HeldOK
<1> QED BY <1>1, ListInvariant, PTL

\* The state of a row is that of the nearest place there is, for every gazetteer,
\* listing and history of nights (geo.js, listingdrafts.js).
THEOREM ListStatesDerived == ListSpec => []StatesAreDerived
<1>1. ListInv => StatesAreDerived
  <2> SUFFICES ASSUME ListInv, NEW r \in Refs, NEW e \in Entries, ParseListingEntry(e),
                      rows[r] # Null, rows[r].facts = FactsOf(e)
               PROVE  /\ e.us
                      /\ \E p \in Places :
                           /\ p.state = rows[r].facts.state /\ Distance(e.at, p.at) <= MaxKm
                           /\ \A q \in Places :
                                /\ Distance(e.at, p.at) <= Distance(e.at, q.at)
                                /\ \/ q.state = p.state
                                   \/ 2 * Distance(e.at, q.at) > 3 * Distance(e.at, p.at)
                                   \/ Distance(e.at, q.at) > MaxKm
    BY DEF StatesAreDerived
  <2>1. rows[r].facts.state = StateOf(e) /\ StateOf(e) # Null
    BY FactsState DEF ListInv, RowsOK
  <2>2. e.at # Null
    BY DEF ParseListingEntry
  <2> QED BY <2>1, <2>2, StateIs
<1> QED BY <1>1, ListInvariant, PTL
===============================================================================
