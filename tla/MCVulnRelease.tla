--------------------------- MODULE MCVulnRelease ---------------------------
(***************************************************************************)
(* Releases of up to two records, for TLC.  Lengths are scaled down to where *)
(* numbers get a third and a fourth digit.                                 *)
(***************************************************************************)
EXTENDS VulnRelease

CONSTANTS r1, r2, again, long, bad, id1, id2, p, q

MCParsed ==
  [r \in Raw |->
     CASE r = r1 -> [id |-> id1, names |-> {p, q}, status |-> "REVIEWED"]
       [] r = r2 -> [id |-> id2, names |-> {q}, status |-> "UNREVIEWED"]
       [] r = again -> [id |-> id1, names |-> {p}, status |-> "REVIEWED"]
       [] r = long -> [id |-> id2, names |-> {q}, status |-> "REVIEWED"]
       [] r = bad -> Corrupt]
MCRawBytes == [r \in Raw |-> IF r = long THEN 110 ELSE 30]
MCDeflatedBytes == [r \in Raw |-> IF r = long THEN 111 ELSE 9]
MCBulk == UNION {[1 .. n -> Raw] : n \in 0 .. 2} \cup {<<r1, r2, r2>>}
MCDescriptions == 24 .. 70 \cup {100, 130}
=============================================================================
