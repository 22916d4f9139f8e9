----------------------------- MODULE MCCrawlClock -----------------------------
(* Two overlapping Workers; one company at the ten-second floor, one whose   *)
(* Crawl-delay is longer than the budget a call waits.                       *)
EXTENDS CrawlClock, TLC

CONSTANTS w1, w2, floor, slow

MCSymmetry == Permutations({w1, w2})
MCWorkers == {w1, w2}
MCCompanies == {floor, slow}
MCInterval == [c \in MCCompanies |-> IF c = floor THEN 3 ELSE 6]
=============================================================================
