----------------------------- MODULE RobotsFile -----------------------------
(* robots.js: a robots.txt is read line by line into groups, and the groups
   that name our agent answer whether a path may be fetched and how long to
   wait.  A path, and the path of a rule, is a sequence of segments.  The
   second half says the same of the lines themselves, without the reader. *)
EXTENDS ScoutValues, SequencesExt

CONSTANTS
    Tokens,     \* names a User-agent line may carry
    Fit,        \* the length of a token our agent's name contains, else 0
    Star,       \* the value *
    Segments,   \* the segments of paths
    RulePaths,  \* the paths of Allow and Disallow lines; <<>> is an empty value
    Delays,     \* the usable values of a Crawl-delay line, in seconds
    Floor       \* MINIMUM_INTERVAL_SECONDS

ASSUME RobotsAssumption ==
    /\ Fit \in [Tokens -> Nat]
    /\ \A path \in RulePaths : path \in Seq(Segments)
    /\ Delays \subseteq Nat /\ Floor \in Nat
    /\ {Star, Null} \cap Tokens = {} /\ Star # Null /\ Null \notin Delays

AgentLines == [agent : Tokens \cup {Star, Null}]

RuleLines == [rule : {"allow", "disallow"}, path : RulePaths]

DelayLines == [delay : Delays \cup {Null}]

(* Sitemap, unknown fields, comments, lines with no colon. *)
OtherLines == {[other |-> Null]}

Lines == AgentLines \cup RuleLines \cup DelayLines \cup OtherLines

-----------------------------------------------------------------------------
(* The reader: agents is currentAgents, and open says that their group (the
   last one) has a rule, so that the next User-agent line starts afresh. *)
Blank == [agents |-> {}, open |-> FALSE, groups |-> <<>>]

(* Mutant: a User-agent line joins the record it should end. *)
ReadAgentJoining(s, line) ==
    [s EXCEPT !.agents = @ \cup ({line.agent} \ {Null}), !.open = FALSE]

ReadAgent(s, line) ==
    [s EXCEPT !.agents = (IF s.open THEN {} ELSE @) \cup ({line.agent} \ {Null}),
              !.open = FALSE]

Opened(s) ==
    IF s.open THEN s
    ELSE [s EXCEPT !.open = TRUE,
                   !.groups = Append(@, [agents |-> s.agents, rules |-> {}, delay |-> Null])]

ReadRule(s, line) ==
    LET o == Opened(s)
    IN  IF line.path = <<>> THEN o
        ELSE [o EXCEPT !.groups[Len(o.groups)].rules = @ \cup {line}]

ReadDelay(s, line) ==
    LET o == Opened(s)
    IN  IF line.delay = Null THEN o
        ELSE [o EXCEPT !.groups[Len(o.groups)].delay = line.delay]

ReadLine(s, line) ==
    CASE line \in AgentLines -> ReadAgent(s, line)
      [] line \in RuleLines /\ s.agents # {} -> ReadRule(s, line)
      [] line \in DelayLines /\ s.agents # {} -> ReadDelay(s, line)
      [] OTHER -> s

ParseRobots(file) ==
    LET after[n \in 0..Len(file)] ==
            IF n = 0 THEN Blank ELSE ReadLine(after[n - 1], file[n])
    IN  ToSet(after[Len(file)].groups)

-----------------------------------------------------------------------------
(* The groups for us: the ones naming the longest token our name contains,
   all of them, and the * groups only when no group names us. *)
Longest(group) == Max({0} \cup {Fit[t] : t \in group.agents \ {Star}})

MatchingGroups(groups) ==
    LET best == Max({0} \cup {Longest(g) : g \in groups})
    IN  {g \in groups : IF best > 0 THEN Longest(g) = best ELSE Star \in g.agents}

(* The longest rule wins, across the groups, and Allow wins against its equal. *)
IsAllowed(groups, path) ==
    LET rules == {r \in UNION {g.rules : g \in MatchingGroups(groups)} : IsPrefix(r.path, path)}
        best  == Max({Len(r.path) : r \in rules})
    IN  rules # {} => \E r \in rules : Len(r.path) = best /\ r.rule = "allow"

CrawlDelayFor(groups) ==
    LET asked == {g.delay : g \in MatchingGroups(groups)} \ {Null}
    IN  IF asked = {} THEN Null ELSE Max(asked)

MinInterval(delay) == IF delay = Null \/ delay <= Floor THEN Floor ELSE delay

-----------------------------------------------------------------------------
(* The same, said of the lines.  A User-agent line speaks for the rules after
   it up to the next User-agent line that has a rule before it. *)
Says(file, j) == file[j] \in RuleLines \cup DelayLines

SpeaksFor(file, i, j) ==
    /\ i < j /\ file[i] \in AgentLines /\ Says(file, j)
    /\ ~ \E k, m \in i..j : k < m /\ Says(file, k) /\ file[m] \in AgentLines

Named(file, agents) ==
    {j \in DOMAIN file : \E i \in DOMAIN file :
        SpeaksFor(file, i, j) /\ file[i].agent \in agents}

(* The lines that bind us. *)
Binding(file) ==
    LET ours(n) == Named(file, {t \in Tokens : Fit[t] = n})
        fits    == {n \in {Fit[t] : t \in Tokens} : n > 0 /\ ours(n) # {}}
    IN  IF fits # {} THEN ours(Max(fits)) ELSE Named(file, {Star})

(* Every rule against the path is answered by an Allow at least as long. *)
LawAllows(file, path) ==
    LET bind        == Binding(file)
        about(kind) == {j \in bind : /\ file[j] \in RuleLines
                                     /\ file[j].rule = kind
                                     /\ file[j].path # <<>>
                                     /\ IsPrefix(file[j].path, path)}
    IN  \A j \in about("disallow") :
            \E k \in about("allow") : Len(file[k].path) >= Len(file[j].path)

(* The delays that bind us: of several in one record, the last. *)
LawDelays(file) ==
    {file[j].delay : j \in {j \in Binding(file) :
        /\ file[j] \in DelayLines /\ file[j].delay # Null
        /\ ~ \E k \in DOMAIN file : /\ k > j /\ file[k] \in DelayLines
                                    /\ file[k].delay # Null
                                    /\ \A m \in j..k : file[m] \notin AgentLines}}
=============================================================================
