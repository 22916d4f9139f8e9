---------------------------- MODULE MCConsolePage ----------------------------
(* Two rows wait, look alike, and a third may be added; see README.         *)
EXTENDS ConsolePage

CONSTANTS r1, r2, r3, good, bare

MCRows == {r1, r2, r3}
MCOrder == <<r1, r2, r3>>
MCWaiting == {r1, r2}
MCFound == [r \in MCRows |-> IF r = r1 THEN good ELSE bare]
MCContents == {good, bare}
MCPlain == {good}
MCBlocked == {bare}
MCSimilar == {p \in MCRows \X MCRows : p[1] # p[2]}

=============================================================================
