----------------------------- MODULE MCUnrealSink -----------------------------
(* UnrealSink for TLC; the instance is in the .cfg file. *)
EXTENDS UnrealSink

(* Each kind of block in its turn; one at a time keeps the queue short. *)
MCConsoles == {{Metrics}, {"spans"}, {Log}}

(* Any metric and any log entry of the worker may fill the block. *)
MCFillers == {<<Worker, Metrics>>, <<Worker, Log>>}
=============================================================================
