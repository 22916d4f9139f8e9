------------------------------- MODULE CrawlLaw -------------------------------
(***************************************************************************)
(* What the crawl promises a company (ARCHITECTURE.md, section 9: one       *)
(* request per ten seconds, one clock per company), with no Workers, table  *)
(* or sleep in it: a content request leaves only when the last one to the   *)
(* same company is at least Gap old.                                        *)
(***************************************************************************)
EXTENDS Integers

CONSTANTS Companies, Gap, Never

VARIABLES now, sent      \* the time, and when the last request left

LawInit == now = 0 /\ sent = [c \in Companies |-> Never]

Pass == now' = now + 1 /\ UNCHANGED sent

Request(c) ==
  /\ sent[c] # Never => now - sent[c] >= Gap[c]
  /\ sent' = [sent EXCEPT ![c] = now]
  /\ UNCHANGED now

LawNext == Pass \/ \E c \in Companies : Request(c)

Law == LawInit /\ [][LawNext]_<<now, sent>>
=============================================================================
