-------------------------- MODULE MCReviewLedger --------------------------
(* ReviewLedger with an event and a venue, for TLC: one reviewer who can be
   switched off, one system component, one rule that can be switched off, a
   content with a registration link and one without. *)
EXTENDS ReviewLedger
=============================================================================
