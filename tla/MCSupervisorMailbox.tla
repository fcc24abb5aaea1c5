------------------------- MODULE MCSupervisorMailbox -------------------------
(* SupervisorMailbox for TLC: what several configurations share. *)
EXTENDS SupervisorMailbox, TLC

\* Process ids and requesters are interchangeable.
Symmetry == Permutations(Requesters) \cup Permutations(Daemons)

\* Two values for ClockSteps: every id is new, or two may coincide.
DistinctIds == {1}
MayCoincide == {0, 1}

\* Two values for Ops.
Bundle   == {"bundle"}
Shutdown == {"bundle", "shutdown"}
=============================================================================
