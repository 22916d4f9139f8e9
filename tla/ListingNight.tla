---------------------------- MODULE ListingNight ----------------------------
(* A listing_only source, night after night: the events array of its listing
   page is read, each entry's state is derived from its coordinates against
   the gazetteer (geo.js), and each entry becomes an insert or an update of
   events (listingdrafts.js, ingest.js).  A reviewer decides rows meanwhile.

   Positions are kilometres along a line.  A row carries the reference it was
   inserted under, its dedupe key, and its facts; facts name the listing entry
   they were read from, as source_url does. *)
EXTENDS PageRules, SequencesExt

CONSTANTS
    Refs,       \* event references, the number in an event's URL
    Entries,    \* what a listing may hold
    Places,     \* the gazetteer: [at, state]
    MaxKm,      \* MAX_MATCH_KM, and half the box the gazetteer is read with
    Near,       \* candidates this close contend whatever the nearest's distance
    MaxEntries, \* bound: entries of a listing
    MaxChanges, \* bound: changes of the listing
    MaxActs     \* bound: decisions of the reviewer

ASSUME ListAssumption ==
    /\ \A p \in Places : p.at \in Int
    /\ \A e \in Entries : e.at \in Int \cup {Null}
    /\ IsFiniteSet(Places) /\ MaxKm \in Nat /\ MaxEntries \in Nat

VARIABLES
    listing,    \* the host's events array
    todo,       \* the entries this night has left, or Null between nights
    held,       \* what was read for the entry at hand, or Null
    rows,       \* events: by the reference they were inserted under
    changes, acts

listVars == <<listing, todo, held, rows, changes, acts>>

Listings == SeqOf(Entries, MaxEntries)

-----------------------------------------------------------------------------
(* parseListingEvents: which entries are kept. *)
ParseListingEntry(e) ==
    /\ ClassifyUrl(e.url, Hosts)
    /\ Given(e.text) /\ IsRealDate(e.start) /\ e.at # Null
    /\ e.end # Null => IsRealDate(e.end) /\ e.end >= e.start

(* The entries of the listing that are kept, in its order. *)
Kept ==
    LET upTo[n \in 0..Len(listing)] ==
            IF n = 0 THEN <<>>
            ELSE IF ParseListingEntry(listing[n]) THEN Append(upTo[n - 1], listing[n])
            ELSE upTo[n - 1]
    IN  upTo[Len(listing)]

Distance(a, b) == IF a <= b THEN b - a ELSE a - b

(* d1NearbyPlaces. *)
NearbyPlaces(at) == {p \in Places : p.at \in (at - MaxKm)..(at + MaxKm)}

(* Mutant: the nearest place answers, however near another state's is. *)
DeriveStateNearest(at, us, places) ==
    LET least == Min({Distance(at, p.at) : p \in places})
    IN  IF ~us \/ places = {} \/ least > MaxKm THEN Null
        ELSE (CHOOSE p \in places : Distance(at, p.at) = least).state

(* AMBIGUITY_RATIO is 3/2. *)
DeriveState(at, us, places) ==
    LET least      == Min({Distance(at, p.at) : p \in places})
        contends(p) == \/ 2 * Distance(at, p.at) <= 3 * least
                       \/ Distance(at, p.at) <= Near
        states     == {p.state : p \in {q \in places : contends(q)}}
    IN  IF ~us \/ places = {} \/ least > MaxKm \/ Cardinality(states) > 1 THEN Null
        ELSE CHOOSE s \in states : TRUE

StateOf(e) == DeriveState(e.at, e.us, NearbyPlaces(e.at))

Readable(e) == ParseListingEntry(e) /\ StateOf(e) # Null

KeyOf(e) == <<e.title, e.start, StateOf(e)>>

(* toListingDraftRow: the content fields. *)
FactsOf(e) == [from |-> e.ref, title |-> e.title, text |-> e.text, start |-> e.start,
               end |-> e.end, state |-> StateOf(e)]

ListingRow(e) == [text |-> e.text, start |-> e.start, end |-> e.end, link |-> "https",
                  deadline |-> Null]

-----------------------------------------------------------------------------
ListIdle ==
    /\ listing = <<>> /\ todo = Null /\ held = Null
    /\ rows = [r \in Refs |-> Null] /\ changes = 0 /\ acts = 0

ListInit ==
    /\ listing \in Listings /\ todo = Null /\ held = Null
    /\ rows = [r \in Refs |-> Null] /\ changes = 0 /\ acts = 0

(* The one listing request was answered and grounded. *)
StartNight ==
    /\ todo = Null
    /\ todo' = Kept
    /\ UNCHANGED <<listing, held, rows, changes, acts>>

(* Mutant: an entry whose state cannot be named is an error. *)
UnresolvedThrows ==
    /\ todo \notin {Null, <<>>} /\ held = Null
    /\ StateOf(Head(todo)) = Null
    /\ todo' = Null
    /\ UNCHANGED <<listing, held, rows, changes, acts>>

(* No state can be named: the entry is reported, and no row is written. *)
Unresolved ==
    /\ todo \notin {Null, <<>>} /\ held = Null
    /\ StateOf(Head(todo)) = Null
    /\ todo' = Tail(todo)
    /\ UNCHANGED <<listing, held, rows, changes, acts>>

(* Mutant: the key is the name alone. *)
MatchingByTitle(e) ==
    {r \in Refs : /\ rows[r] # Null
                  /\ r = e.ref \/ rows[r].facts.title = e.title}

(* loadExistingEvent: by reference or by key, one row of those that match. *)
Matching(e) ==
    {r \in Refs : /\ rows[r] # Null
                  /\ r = e.ref \/ rows[r].key = KeyOf(e)}

LoadEntry ==
    /\ todo \notin {Null, <<>>} /\ held = Null
    /\ StateOf(Head(todo)) # Null
    /\ \E r \in IF Matching(Head(todo)) = {} THEN {Null} ELSE Matching(Head(todo)) :
          held' = [row |-> r, read |-> IF r = Null THEN Null ELSE rows[r]]
    /\ UNCHANGED <<listing, todo, rows, changes, acts>>

(* Mutant: what was read for one entry is still held at the next. *)
WrittenHolding ==
    /\ held' = held /\ todo' = Tail(todo)
    /\ UNCHANGED <<listing, changes, acts>>

Written ==
    /\ held' = Null /\ todo' = Tail(todo)
    /\ UNCHANGED <<listing, changes, acts>>

(* The batch is refused: it throws out of the writer, and the cycle with it. *)
Refused ==
    /\ held' = Null /\ todo' = Null
    /\ UNCHANGED <<listing, rows, changes, acts>>

Insert ==
    /\ held # Null /\ held.row = Null
    /\ LET e == Head(todo)
       IN  IF Storable(ListingRow(e))
           THEN /\ rows' = [rows EXCEPT ![e.ref] =
                     [key |-> KeyOf(e), facts |-> FactsOf(e), status |-> "needs_review"]]
                /\ Written
           ELSE Refused

(* Nothing changed: last_seen_at alone is touched. *)
Touch ==
    /\ held # Null /\ held.row # Null
    /\ held.read.facts = FactsOf(Head(todo))
    /\ UNCHANGED rows /\ Written

(* The demotion and the overwrite pass when the row still has the status it
   was read with; the key and the reference stay as they were inserted. *)
Update ==
    /\ held # Null /\ held.row # Null
    /\ LET e == Head(todo)
       IN  /\ held.read.facts # FactsOf(e)
           /\ IF rows[held.row].status = held.read.status /\ Storable(ListingRow(e))
              THEN /\ rows' = [rows EXCEPT ![held.row].facts = FactsOf(e),
                                           ![held.row].status = "needs_review"]
                   /\ Written
              ELSE Refused

EndNight ==
    /\ todo = <<>>
    /\ todo' = Null
    /\ UNCHANGED <<listing, held, rows, changes, acts>>

-----------------------------------------------------------------------------
(* The organizer. *)
ChangeListing ==
    /\ changes < MaxChanges
    /\ \E new \in Listings : new # listing /\ listing' = new
    /\ changes' = changes + 1
    /\ UNCHANGED <<todo, held, rows, acts>>

(* A reviewer approves a waiting row, or takes an approval back. *)
Decide(r) ==
    /\ acts < MaxActs /\ rows[r] # Null
    /\ rows' = [rows EXCEPT ![r].status =
                   IF @ = "approved" THEN "needs_review" ELSE "approved"]
    /\ acts' = acts + 1
    /\ UNCHANGED <<listing, todo, held, changes>>

Night == StartNight \/ Unresolved \/ LoadEntry \/ Insert \/ Touch \/ Update \/ EndNight

ListNext ==
    \/ Night
    \/ ChangeListing
    \/ \E r \in Refs : Decide(r)

ListSpec == ListInit /\ [][ListNext]_listVars

-----------------------------------------------------------------------------
(* The types; what was read for one entry of a listing is never held while
   another is at hand (the loop of writeListingDrafts). *)
ListTypeOK ==
    /\ listing \in Listings
    /\ todo # Null => Len(todo) <= MaxEntries
    /\ held # Null => todo \notin {Null, <<>>}
    /\ \A r \in Refs : rows[r] # Null => rows[r].status \in {"needs_review", "approved"}

(* geo.js: the state of a row is the state of the nearest place there is, no
   further than MaxKm; and no place of another state is within the ratio of
   that distance, as far as the box reaches. *)
StatesAreDerived ==
    \A r \in Refs : \A e \in {e \in Entries : ParseListingEntry(e)} :
        rows[r] # Null /\ rows[r].facts = FactsOf(e) =>
            /\ e.us
            /\ \E p \in Places :
                /\ p.state = rows[r].facts.state /\ Distance(e.at, p.at) <= MaxKm
                /\ \A q \in Places :
                    /\ Distance(e.at, p.at) <= Distance(e.at, q.at)
                    /\ \/ q.state = p.state
                       \/ 2 * Distance(e.at, q.at) > 3 * Distance(e.at, p.at)
                       \/ Distance(e.at, q.at) > MaxKm

Blocks(e) == Readable(e) /\ ~Storable(ListingRow(e))

(* The entry stands in the listing, and no entry before it is refused. *)
Stands(e) ==
    \E i \in DOMAIN listing : /\ listing[i] = e
                              /\ \A j \in 1..i : ~Blocks(listing[j])

(* listingdrafts.js: an entry that can be read and that nothing before it
   blocks is on some row again and again, however often a night is refused. *)
EntriesArrive ==
    \A e \in Entries : Readable(e) /\ <>[]Stands(e) =>
        []<>(\E r \in Refs : rows[r] # Null /\ rows[r].facts = FactsOf(e))

(* No two entries share a reference or a key, with each other or with an
   older row. *)
Apart ==
    LET read == SelectSeq(listing, Readable)
    IN  /\ \A i, j \in DOMAIN read :
              i # j => read[i].ref # read[j].ref /\ KeyOf(read[i]) # KeyOf(read[j])
        /\ \A i \in DOMAIN read : \A r \in Refs \ {read[i].ref} :
              rows[r] # Null => rows[r].key # KeyOf(read[i])

(* ingest.js: over a listing that has stopped changing, the nights come to
   write nothing -- unless two entries are taken for one event. *)
NightsSettle ==
    <>[]Apart => <>[][\A r \in Refs : rows[r] # Null => rows'[r].facts = rows[r].facts]_listVars
=============================================================================
