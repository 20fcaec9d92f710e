------------------------------- MODULE MCLink -------------------------------
(***************************************************************************)
(* Small instances of Link for TLC.                                        *)
(***************************************************************************)
EXTENDS Link

CONSTANTS c1, c2    \* the game connections

\* The two connections differ in nothing but their names: c1 is the one that
\* has the first event.  Nothing is assumed of the proxy's fairness, so this
\* takes no behaviour away but its mirror image.
FirstIsC1 == Opened(c2) => Opened(c1)

MCSpec == Init /\ [][Next /\ FirstIsC1']_vars /\ Fairness
=============================================================================
