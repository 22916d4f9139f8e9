------------------------------ MODULE MCReading ------------------------------
(* HandFetch and ListingNight for TLC, one or the other: the tool run by hand
   over every short robots.txt, or some nights of a listing_only source. *)
EXTENDS HandFetch, ListingNight

CONSTANTS short, long, stranger, r1, r2, r3

MCTokens == {short, long, stranger}

MCFit == [t \in MCTokens |-> CASE t = short -> 1 [] t = long -> 2 [] OTHER -> 0]

MCSegments == {"en", "event", "1", "brackets"}

MCRulePaths == {<<>>, <<"en">>, <<"en", "event">>}

(* Every file of three lines, and the longer ones of a few telling lines. *)
Rule(kind, path) == [rule |-> kind, path |-> path]

Few == {[agent |-> long], [agent |-> Star], Rule("disallow", <<"en">>),
        Rule("allow", <<"en", "event">>), [delay |-> 4]}

MCFiles == (SeqOf(Lines, 3) \cup SeqOf(Few \cup {[agent |-> short]}, 4) \cup SeqOf(Few, 5))
               \ {<<>>}

(* The event page; one under a path no rule is about; an excluded page, its
   name encoded twice; an organizer's own unreviewed host. *)
Url(host, path, shape, layers) ==
    [https |-> TRUE, host |-> host, path |-> path, shape |-> shape, layers |-> layers]

EventUrl == Url("alias", <<"en", "event", "1">>, "event", 0)

MCUrls == {EventUrl,
           Url("alias", <<"en", "event", "1", "brackets">>, "excluded", 2),
           Url("unreviewed", <<"en", "event", "1">>, "event", 0)}

Review(active, listingOnly, delay) ==
    [reviewed |-> TRUE, active |-> active, listingOnly |-> listingOnly, delay |-> delay]

MCReviews == {Review(TRUE, FALSE, Null), Review(TRUE, FALSE, 3), Review(TRUE, TRUE, Null),
              Review(FALSE, FALSE, Null)}

Page(text, start, end, link, deadline) ==
    [text |-> text, placed |-> TRUE, start |-> start, end |-> end, link |-> link,
     deadline |-> deadline]

MCPages == {Page("fits", 1, 2, "https", 1), Page("fits", 1, Null, "http", Unreal),
            Page("fits", 1, Null, "mended", Null), Page("fits", 1, EmptyDate, "https", Null),
            Page("long", 1, Null, "none", Null),
            Page("fits", 2, 1, "https", Null), Page("fits", Unreal, Null, "https", Null),
            Page("empty", 1, Null, "https", Null)}

-----------------------------------------------------------------------------
(* States on a line: X up to 10, Y at 14, Z at 26. *)
MCPlaces == {[at |-> 0, state |-> "X"], [at |-> 10, state |-> "X"],
             [at |-> 14, state |-> "Y"], [at |-> 26, state |-> "Z"]}

Entry(ref, title, text, start, end, at) ==
    [ref |-> ref, title |-> title, text |-> text, start |-> start, end |-> end, at |-> at,
     us |-> TRUE, url |-> EventUrl]

Moved == Entry(r1, "a", "fits", 2, Null, 1)

(* An event, its new date, another of the same name, day and place, another of
   the same name elsewhere (where Z is nearer in ratio and beyond the box), one
   too long a name, one on a state line, one abroad, one whose end is early. *)
MCEntries == {Entry(r1, "a", "fits", 1, Null, 1), Moved,
              Entry(r2, "a", "fits", 1, Null, 1),
              Entry(r3, "a", "fits", 2, 3, 19),
              Entry(r3, "b", "long", 1, Null, 1),
              Entry(r2, "c", "fits", 1, Null, 12),
              [Moved EXCEPT !.us = FALSE],
              [Moved EXCEPT !.end = 1]}

-----------------------------------------------------------------------------
Init == \/ HandInit /\ ListIdle
        \/ HandIdle /\ ListInit

Next == \/ url # Null /\ HandNext /\ UNCHANGED listVars
        \/ url = Null /\ ListNext /\ UNCHANGED handVars

(* The cron fires every night, and a night goes on. *)
Spec ==
    /\ Init /\ [][Next]_<<handVars, listVars>>
    /\ WF_<<handVars, listVars>>(url = Null /\ Night /\ UNCHANGED handVars)
=============================================================================
