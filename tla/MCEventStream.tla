--------------------------- MODULE MCEventStream ---------------------------
(* EventStream for TLC: a short log, a queue and pages shorter than it. *)
EXTENDS EventStream
=============================================================================
