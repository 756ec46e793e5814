----------------------------- MODULE MCIngestion -----------------------------
(* Ingestion for TLC; the instance is in the .cfg file. *)
EXTENDS Ingestion
=============================================================================
