-------------------------- MODULE MCCronScheduler --------------------------
(* Two processes and one job: jobs meet only in the atomic pass of a tick. *)
EXTENDS CronScheduler

CONSTANTS j1, p1, p2, s1, s2

MCJobs == {j1}
MCProcs == {p1, p2}
MCSlots == {s1, s2}
MCDelays == {0, 2}
=============================================================================
