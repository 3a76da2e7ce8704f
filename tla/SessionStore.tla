----------------------------- MODULE SessionStore -----------------------------
(***************************************************************************)
(* What acquire_lock and save promise the turns of a session between them: *)
(* one turn at a time is inside; only the turn that is inside replaces the *)
(* session, in one step and by a whole one; and what a turn has been told  *)
(* is saved stays in the session until a turn removes it on purpose.       *)
(***************************************************************************)
CONSTANTS Turns, Contents

VARIABLES
    content,    \* the session as a load finds it
    said,       \* the messages in it
    inside,     \* the turn that has the session
    kept        \* the messages that were promised and not removed

svars == <<content, said, inside, kept>>

Init == content \in Contents /\ inside = {} /\ kept \subseteq said

Enter(t) == inside = {} /\ inside' = {t} /\ UNCHANGED <<content, said, kept>>

\* The turn may leave with its last commit.
Commit(t) ==
    /\ inside = {t} /\ inside' \subseteq {t}
    /\ content' \in Contents
    /\ kept \subseteq kept' /\ kept' \subseteq said'

Forget(t) == inside = {t} /\ kept' \subseteq kept /\ UNCHANGED <<content, said, inside>>

\* A turn that fails, or dies, leaves the session as it is.
Leave == inside' = {} /\ UNCHANGED <<content, said, kept>>

Next == Leave \/ \E t \in Turns : Enter(t) \/ Commit(t) \/ Forget(t)

Spec == Init /\ [][Next]_svars
===============================================================================
