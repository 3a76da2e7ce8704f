---------------------------- MODULE MCSopEngine -----------------------------
(* Small instances of SopEngine. *)
EXTENDS SopEngine

\* Two steps at once, one that needs both, and one that needs the first.
MCSteps == {"a", "b", "c"}
FourSteps == MCSteps \cup {"d"}
JoinDeps == [s \in FourSteps |-> CASE s = "c" -> {"a", "b"}
                                    [] s = "d" -> {"a"}
                                    [] OTHER -> {}]

\* Two steps at once, then one that needs the first: it may become ready when
\* the second has failed.
SmallDeps == [s \in MCSteps |-> IF s = "c" THEN {"a"} ELSE {}]
=============================================================================
