-------------------------- MODULE MCTelemetryGuard --------------------------
(***************************************************************************)
(* TelemetryGuard for TLC.  The first build has filters by target, one     *)
(* name starting another; the second has a lower max level, captures the   *)
(* other crates' logs and overrides the level of that capture.             *)
(***************************************************************************)
EXTENDS TelemetryGuard

MCBuilds ==
    {[sinks |-> [http |-> 4, local |-> 2],
      targets |-> [n \in {<<"a">>, <<"a", "b">>} |-> IF n = <<"a">> THEN "OFF" ELSE "DEBUG"],
      override |-> NotSet, interop |-> NotSet,
      log_capture |-> FALSE, tracing_capture |-> TRUE],
     [sinks |-> [local |-> 3], targets |-> [n \in {<<>>, <<"MAX_LEVEL">>} |->
                                          IF n = <<>> THEN "nonsense" ELSE "TRACE"],
      override |-> NotSet, interop |-> 4,
      log_capture |-> TRUE, tracing_capture |-> FALSE]}

MCSites == {[level |-> 5, target |-> <<"a", "b", "c">>]}

MCForeign == {[level |-> 5, target |-> <<"a", "b">>]}
=============================================================================
