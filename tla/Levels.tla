------------------------------- MODULE Levels -------------------------------
(***************************************************************************)
(* Log levels and their filters: rust/tracing/src/levels.rs.               *)
(*                                                                         *)
(* Level and LevelFilter are repr(u32) enums that share their numbering,   *)
(* and every comparison the file implements, between two levels, two       *)
(* filters or one of each, compares the discriminants.  So both are        *)
(* numbers here.                                                           *)
(***************************************************************************)
EXTENDS Naturals, Sequences

Level == 1 .. 6

LevelFilter == 0 .. 6

Off   == 0
Fatal == 1
Trace == 6

(* No filter: what from_u32 makes of FILTER_LEVEL_UNSET_VALUE. *)
NotSet == 15

OptLevelFilter == LevelFilter \cup {NotSet}

(* level <= filter *)
Passes(level, filter) == level <= filter

(* The greatest of a set of filters: Ord::max, starting from Off. *)
MaxFilter(filters) ==
    CHOOSE f \in filters \cup {Off} : \A g \in filters : g <= f

LEVEL_NAMES == <<"OFF", "FATAL", "ERROR", "WARN", "INFO", "DEBUG", "TRACE">>

(* LevelFilter::from_str(name).unwrap_or(Off); names are compared without  *)
(* regard to case, so a name stands for all its spellings.                 *)
FromStr(name) ==
    IF \E i \in DOMAIN LEVEL_NAMES : LEVEL_NAMES[i] = name
    THEN (CHOOSE i \in DOMAIN LEVEL_NAMES : LEVEL_NAMES[i] = name) - 1
    ELSE Off

(* The cargo features that cap the level at build time. *)
ReleaseFeatures ==
    [release_max_level_off   |-> 0, release_max_level_error |-> 2,
     release_max_level_warn  |-> 3, release_max_level_info  |-> 4,
     release_max_level_debug |-> 5, release_max_level_trace |-> 6]

AnyFeatures ==
    [max_level_off  |-> 0, max_level_error |-> 2, max_level_warn |-> 3,
     max_level_info |-> 4, max_level_debug |-> 5]

(* The chain of cfg_if: the release features come first and count only     *)
(* without debug assertions; within a group the lowest cap is tested first *)
STATIC_MAX_LEVEL(debug_assertions, features) ==
    LET Caps(group) == {group[f] : f \in features \cap DOMAIN group}
        Lowest(caps) == CHOOSE c \in caps : \A d \in caps : c <= d
        release == IF debug_assertions THEN {} ELSE Caps(ReleaseFeatures)
    IN  IF release # {} THEN Lowest(release)
        ELSE IF Caps(AnyFeatures) # {} THEN Lowest(Caps(AnyFeatures))
        ELSE Trace
=============================================================================
