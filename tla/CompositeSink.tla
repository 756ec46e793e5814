---------------------------- MODULE CompositeSink ----------------------------
(***************************************************************************)
(* What the composite sink decides (composite_event_sink.rs): the process' *)
(* max level, the filter that applies to a call site and which of its      *)
(* sinks take an event.  All its sinks agree to every log that the         *)
(* composite lets through (http_event_sink.rs, local_event_sink.rs).       *)
(*                                                                         *)
(* The configuration of a build is a record:                               *)
(*   sinks     the level of each sink that is part of it                   *)
(*   targets   level names by target, a target being a sequence            *)
(*   override  max_level_override                                          *)
(*   interop   interop_max_level_override                                  *)
(*   log_capture, tracing_capture  whether foreign logs are captured       *)
(***************************************************************************)
EXTENDS Levels

CONSTANT UsizeRange   \* number of values of a usize

ASSUME UsizeAssumption == UsizeRange \in Nat \ {0}

(* target_max_levels, with its level names parsed and its MAX_LEVEL left   *)
(* out.                                                                    *)
TargetFilters(b) ==
    {[name |-> n, level |-> FromStr(b.targets[n])] : n \in DOMAIN b.targets \ {<<"MAX_LEVEL">>}}

(* Mutant: the filters by target are forgotten. *)
CompositeMaxLevelSinksOnly(b) ==
    IF b.override # NotSet THEN b.override
    ELSE MaxFilter({b.sinks[s] : s \in DOMAIN b.sinks})

CompositeMaxLevel(b) ==
    IF b.override # NotSet THEN b.override
    ELSE MaxFilter({f.level : f \in TargetFilters(b)}
                     \cup {b.sinks[s] : s \in DOMAIN b.sinks})

StartsWith(target, name) ==
    Len(name) <= Len(target) /\ SubSeq(target, 1, Len(name)) = name

(* Mutant: shortest name first. *)
SortKeyLength(name) == Len(name)

(* name.len().wrapping_neg(): longest name first, but the empty name keeps *)
(* the key 0 and comes before all others.                                  *)
SortKey(name) == (UsizeRange - Len(name)) % UsizeRange

(* find_max_match on the sorted list: the first filter whose name starts   *)
(* the target.                                                             *)
FindMaxMatch(target, filters) ==
    LET First(f) == /\ StartsWith(target, f.name)
                    /\ \A g \in filters : StartsWith(target, g.name)
                         => SortKey(f.name) <= SortKey(g.name)
    IN  IF \E f \in filters : First(f)
        THEN (CHOOSE f \in filters : First(f)).level
        ELSE NotSet

(* The sinks that take an event, given the filter of its call site. *)
Takers(b, filter, level) ==
    {s \in DOMAIN b.sinks :
        Passes(level, IF filter # NotSet THEN filter ELSE b.sinks[s])}

(* on_log_enabled *)
OnLogEnabled(b, filter, level) == Takers(b, filter, level) # {}

(* What the captures of the log and tracing crates let through. *)
InteropMaxLevel(b, max_level) == IF b.interop # NotSet THEN b.interop ELSE max_level

(* mm_tracing_level_filter_to_log_level_filter: no fatal in the log crate. *)
LogCrateFilter(filter) == IF filter = Fatal THEN Off ELSE filter
=============================================================================
