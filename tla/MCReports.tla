----------------------------- MODULE MCReports -----------------------------
(***************************************************************************)
(* Small instances of Reports for TLC: two connections to character        *)
(* servers, l1 and l2, and others to one map server each.                  *)
(***************************************************************************)
EXTENDS Reports

CONSTANTS l1, l2, c1, s1, s2

MCServerOf == [c \in Conns |-> IF c \in {l1, l2} THEN None
                              ELSE IF c = c1 THEN s1 ELSE s2]
MCHost == [s \in Servers |-> CHOOSE h \in Hosts : TRUE]
MCRequests == 1 .. MaxFrames

\* The behaviors of Spec in which no two handlers overlap.
SerialSpec == Init /\ [][Next /\ serial']_vars
=============================================================================
