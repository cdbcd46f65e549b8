---------------------------- MODULE MCUiSessions ----------------------------
(* Instances of UiSessions for TLC. *)
EXTENDS UiSessions

CONSTANTS p1, q1, s1, s2

\* Both requests belong to the same session.
OneOwner == [r \in {p1, q1} |-> s1]

=============================================================================
