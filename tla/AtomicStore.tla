----------------------------- MODULE AtomicStore -----------------------------
(***************************************************************************)
(* What with_cron_jobs_mut promises its callers: the closure is applied to *)
(* the newest content of the job file in one step, or not at all.  The     *)
(* file itself is not crash-safe: a writer that dies in fs::write leaves   *)
(* an unreadable file, after which no update can be committed.  The        *)
(* promise is kept until a lock file is taken for stale; of what happens   *)
(* after that nothing is said.                                             *)
(***************************************************************************)
CONSTANTS Updates, Torn

VARIABLES contents, committed, kept

avars == <<contents, committed, kept>>

Init ==
    /\ contents = {}
    /\ committed = {}
    /\ kept = TRUE

Commit(u) ==
    /\ contents # Torn
    /\ u \notin contents
    /\ contents' = contents \cup {u}
    /\ committed' = committed \cup {u}

Wreck ==
    /\ contents' = Torn
    /\ UNCHANGED committed

Next ==
    \/ kept' /\ (Wreck \/ \E u \in Updates : Commit(u))
    \/ ~kept'

Spec == Init /\ [][Next]_avars
=============================================================================
