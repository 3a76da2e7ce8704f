---------------------------- MODULE MCCronStore ----------------------------
(* Three tasks, so that two waiters can race for the lock of a third, and  *)
(* two updates, so that one can be lost to the other.                      *)
EXTENDS CronStore, TLC

CONSTANTS p1, p2, p3, u1, u2

MCProcs == {p1, p2, p3}
MCUpdates == {u1, u2}
=============================================================================
