----------------------------- MODULE StatusRules -----------------------------
(***************************************************************************)
(* The status column and the status_transition_rules table that            *)
(* migrations/20260915000100_core_schema.sql fills: which moves exist, and *)
(* which of them a 'system:' actor may make by itself.  Nothing under src/ *)
(* changes the table later.                                                *)
(***************************************************************************)

Statuses == {"draft", "needs_review", "approved", "rejected", "expired", "stale"}

\* Mutant of SystemMoves: rejected rows let back in by the system.
SystemMovesReopening ==
    {<<"draft", "needs_review">>, <<"approved", "needs_review">>, <<"approved", "stale">>,
     <<"stale", "needs_review">>, <<"rejected", "needs_review">>}

\* system_allowed = 1, for events, venues and sessions alike.
SystemMoves == {<<"draft", "needs_review">>, <<"approved", "needs_review">>,
                <<"approved", "stale">>, <<"stale", "needs_review">>}

\* system_allowed = 0.
HumanMoves == {<<"draft", "rejected">>, <<"needs_review", "approved">>,
               <<"needs_review", "rejected">>, <<"approved", "rejected">>,
               <<"stale", "rejected">>, <<"rejected", "needs_review">>}

\* Only events expire, and the system may do it.
ExpiryMoves == {"draft", "needs_review", "approved", "stale"} \X {"expired"}

=============================================================================
