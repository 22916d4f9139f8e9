---------------------------- MODULE MCPublishPipe ----------------------------
(* PublishPipe for TLC: two invocations that may overlap, a freshness window
   of one minute and a cron period of two. *)
EXTENDS PublishPipe
=============================================================================
