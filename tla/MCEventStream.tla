---------------------------- MODULE MCEventStream ----------------------------
(* EventStream for TLC; the instance is in the .cfg file. *)
EXTENDS EventStream

(* Metrics and scopes keep to the hint of the instance, log events exceed  *)
(* it: their text has any length.                                          *)
LongLogs == [s \in Streams |-> IF s = Log THEN {3} ELSE {1}]
=============================================================================
