------------------------------ MODULE JobLease ------------------------------
(***************************************************************************)
(* What the scheduler promises about the lease of a job: it is granted     *)
(* only while it is free, to one run, which has it until the run ends, is  *)
(* given up, or has had it for the whole of Lease.  It is neither renewed  *)
(* nor handed over.                                                        *)
(***************************************************************************)
EXTENDS Naturals

CONSTANTS Jobs, Runs, Lease, None

\* For each job, the runs that have its lease, with the time they have had it.
VARIABLE lease

lvars == <<lease>>

Init == lease = [j \in Jobs |-> {}]

\* One pass of a scheduler may start several jobs.
Grant ==
    \E to \in [Jobs -> Runs \cup {None}] :
        /\ \A j \in Jobs : to[j] # None => lease[j] = {}
        /\ lease' = [j \in Jobs |-> IF to[j] = None THEN lease[j] ELSE {[to |-> to[j], age |-> 0]}]

\* A process that dies ends the leases of all its runs.
End ==
    \E ended \in SUBSET Jobs :
        lease' = [j \in Jobs |-> IF j \in ended THEN {} ELSE lease[j]]

\* Time passes, and a lease that is Lease old expires.
Grow(held) == {[h EXCEPT !.age = @ + 1] : h \in {k \in held : k.age < Lease}}

Time == lease' = [j \in Jobs |-> Grow(lease[j])]

Next == Grant \/ End \/ Time

Spec == Init /\ [][Next]_lvars
=============================================================================
