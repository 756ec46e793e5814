--------------------------- MODULE MCHttpEventSink ---------------------------
(* HttpEventSink for TLC; the instances are in the .cfg files. *)
EXTENDS HttpEventSink

OneEach == [s \in Streams |-> 1]

(* Two blocks of a shared stream, for their order, and one of a thread's. *)
LogAndThread == [s \in Streams |-> IF s = Log THEN 2 ELSE IF s = Metrics THEN 0 ELSE 1]
=============================================================================
