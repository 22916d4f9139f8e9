---------------------------- MODULE MCCrawlCycle ----------------------------
(* CrawlCycle for TLC: one company with one or two hosts, all its pages on
   the first. *)
EXTENDS CrawlCycle

CONSTANTS company, hostA

MCCompany == [h \in Hosts |-> company]

MCHostOf == [p \in Pages |-> hostA]
=============================================================================
