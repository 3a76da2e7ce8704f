--------------------------- MODULE MCSessionTurns ---------------------------
(***************************************************************************)
(* Small instances of SessionTurns: up to three turns of two processes.    *)
(***************************************************************************)
EXTENDS SessionTurns, TLC

CONSTANTS t1, t2, t3, p1, p2

\* t1 and t3 share a process.
TwoProcs == (t1 :> p1) @@ (t2 :> p2) @@ (t3 :> p1)
\* They are interchangeable wherever neither carries overrides.
Siblings == Permutations({t1, t3})
OneProc == [t \in Turns |-> p1]
ApartProcs == (t1 :> p1) @@ (t2 :> p2)
==============================================================================
