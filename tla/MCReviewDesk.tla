---------------------------- MODULE MCReviewDesk ----------------------------
(* ReviewDesk for TLC.  Two contents, "good" and "poor": only the good one
   passes the automatic rule; a row is a possible duplicate of any other, and
   a twin of one with the same content.  There are no venues: the clients
   under src/ handle events only. *)
EXTENDS ReviewDesk, TLC

CONSTANTS good, poor

MCContents == {good, poor}

MCPassing == {good}

MCNear == MCContents \X MCContents

MCTwin == {<<c, c>> : c \in MCContents}

(* Listings are alike: nothing in the model tells one from another. *)
Alike == Permutations(Events)

(* A listing on its own takes either content and a log up to MaxLog; two of
   them, counting one the scout is about to write, have the good content only,
   and one entry less. *)
Written == {e \in Events : row[e].status # "absent"}

Bounded ==
    LET coming == IF scout \in Upserts THEN {scout} ELSE {}
    IN  Cardinality(Written \cup {s.row : s \in coming}) > 1 =>
            /\ Len(log) < MaxLog
            /\ poor \notin {row[e].content : e \in Events} \cup {s.draft : s \in coming}

BoundedDesk == DeskInit /\ [][DeskNext /\ Bounded']_deskVars
=============================================================================
