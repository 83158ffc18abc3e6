---------------------------- MODULE MCSingleShot ----------------------------
(* Small instances of SingleShot. *)
EXTENDS SingleShot, TLC

\* Adverse events that may happen, by kind.
Faults == [f \in AdverseEvents |-> IF f = "throttle" THEN 2 ELSE 1]
=============================================================================
