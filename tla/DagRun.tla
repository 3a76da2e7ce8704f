------------------------------- MODULE DagRun -------------------------------
(***************************************************************************)
(* What an SOP instance promises: its steps are completed one by one, each *)
(* after the steps it depends on; what is completed stays completed, and   *)
(* the instance is closed once every step is.  The file is not crash-safe: *)
(* while the instance is open, all that was done may be lost at once, and  *)
(* then nothing is done any more.  A closed instance is never lost.        *)
(***************************************************************************)
CONSTANTS Steps, Deps

VARIABLES done, closed, lost

vars == <<done, closed, lost>>

Init == done = {} /\ closed = FALSE /\ lost = FALSE

Complete(s) ==
    /\ s \notin done /\ Deps[s] \subseteq done /\ ~closed /\ ~lost
    /\ done' = done \cup {s}
    /\ UNCHANGED <<closed, lost>>

Close ==
    /\ done = Steps /\ ~lost
    /\ closed' = TRUE
    /\ UNCHANGED <<done, lost>>

Lose ==
    /\ ~closed
    /\ done' = {} /\ lost' = TRUE
    /\ UNCHANGED closed

Next == Close \/ Lose \/ \E s \in Steps : Complete(s)

Spec == Init /\ [][Next]_vars
=============================================================================
