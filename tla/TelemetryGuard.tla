--------------------------- MODULE TelemetryGuard ---------------------------
(***************************************************************************)
(* The life of telemetry in one process, and the path of a log call:       *)
(* TelemetryGuardBuilder::build and the guards it returns                  *)
(* (telemetry-sink/src/lib.rs, tracing/src/guards.rs), the capture of the  *)
(* log and tracing crates, the panic hook, the log! macro, the level       *)
(* filter each call site caches (tracing/src/logs/events.rs) and the       *)
(* composite sink (CompositeSink.tla).                                     *)
(*                                                                         *)
(* Several threads build, drop and log at once.  What a thread has still   *)
(* to do is a sequence of steps, pc[t]; it is idle when that is empty.     *)
(* How events fill blocks is in EventStream.tla: here the log stream and   *)
(* the thread streams only remember whose events they hold.  Metrics take  *)
(* the way of logs through the shutdown.                                   *)
(***************************************************************************)
EXTENDS CompositeSink

CONSTANTS
    Threads,
    Sites,             \* call sites of log!: [level, target]
    Foreign,           \* logs of other crates: [level, target]
    Builds,            \* configurations, see CompositeSink.tla
    None,
    debug_assertions, Features,   \* how the program was compiled
    MaxBuilds,         \* bound: calls of build
    MaxEvents          \* bound: log calls and spans

GENERATION == 1

(* The length of a name is a usize. *)
ASSUME GuardAssumption ==
    /\ \A x \in Sites \cup Foreign : x.level \in Level /\ x.target \in Seq(STRING)
    /\ \A b \in Builds :
          /\ \A n \in DOMAIN b.targets : n \in Seq(STRING) /\ Len(n) < UsizeRange
          /\ \A s \in DOMAIN b.sinks : b.sinks[s] \in LevelFilter
          /\ b.override \in OptLevelFilter /\ b.interop \in OptLevelFilter
          /\ b.log_capture \in BOOLEAN /\ b.tracing_capture \in BOOLEAN
    /\ None \notin Threads \cup Builds \cup Sites \cup Foreign
    /\ MaxBuilds \in Nat /\ MaxEvents \in Nat

VARIABLES
    MAX_LEVEL_FILTER,  \* the process' max level
    sink,              \* G_DISPATCH: "none", or its sink, "real" or "null"
    installed,         \* the build whose sink the dispatch was given
    weak_lock,         \* who holds GLOBAL_WEAK_GUARD
    poisoned,          \* a thread panicked while it held it
    holders,           \* threads with a strong reference to the system guard
    subscriber,        \* level of the tracing crate's capture, or NotSet
    logger,            \* level of the log crate's capture, or NotSet
    level_filter,      \* per call site: cached filter and its generation
    thread_streams,    \* threads with a LOCAL_THREAD_STREAM
    guards,            \* per thread: "none", "thread" or "full"
    pc,                \* per thread: the steps ahead
    arg,               \* per thread: the build or the call site at hand
    seen,              \* per thread: the cached filter it last read
    took,              \* per thread: sinks that got its event, None if null
    logs,              \* guard holders with events in the log stream
    spans,             \* threads with events in their thread stream
    exited,            \* the Ctrl-C handler ended the process
    builds, events,    \* calls so far
    early,             \* history: shut down by a panic or by Ctrl-C; the rest
                       \* of the history is kept until then
    outlived,          \* history: bare thread guards the sink did not outlive
    lost_logs,         \* history: guard holders whose logs were lost
    lost_spans         \* history: threads whose spans were lost

process == <<MAX_LEVEL_FILTER, sink, installed, weak_lock, poisoned, holders>>
capture == <<subscriber, logger>>
calls   == <<pc, arg, seen, took>>
threads == <<thread_streams, guards>>
content == <<logs, spans>>
bounds  == <<exited, builds, events>>
history == <<early, outlived, lost_logs, lost_spans>>
vars    == <<process, capture, level_filter, calls, threads, content, bounds,
             history>>

Unread == [generation |-> 0, filter |-> NotSet]

Init ==
    /\ MAX_LEVEL_FILTER = Off
    /\ sink = "none"
    /\ installed = None
    /\ weak_lock = None
    /\ poisoned = FALSE
    /\ subscriber = NotSet /\ logger = NotSet
    /\ level_filter = [x \in Sites |-> Unread]
    /\ guards = [t \in Threads |-> "none"]
    /\ pc = [t \in Threads |-> <<>>]
    /\ arg = [t \in Threads |-> None]
    /\ seen = [t \in Threads |-> Unread]
    /\ took = [t \in Threads |-> {}]
    /\ holders = {} /\ thread_streams = {} /\ logs = {} /\ spans = {}
    /\ exited = FALSE
    /\ builds = 0 /\ events = 0
    /\ early = FALSE
    /\ outlived = {} /\ lost_logs = {} /\ lost_spans = {}

Idle(t) == pc[t] = <<>>

At(t, step) == pc[t] # <<>> /\ Head(pc[t]) = step

Goto(t, steps) == pc' = [pc EXCEPT ![t] = steps]

Step(t) == Goto(t, Tail(pc[t]))

Set(t, f, value) == [f EXCEPT ![t] = value]

-----------------------------------------------------------------------------
(***************************************************************************)
(* Shutting down: flush the log and metrics streams, then replace the      *)
(* sink.  The last system guard to go does it, and so do the panic hook    *)
(* and the Ctrl-C handler, whatever guards are held.                       *)
(***************************************************************************)

ShutdownTelemetry == <<"flush_log", "swap">>

(* Mutant: the fields of TelemetryGuard declared the other way round. *)
DropOrderReversed(guard) ==
    CASE guard = "none"   -> <<>>
      [] guard = "thread" -> <<"flush_thread">>
      [] guard = "full"   -> <<"release", "flush_thread">>

(* "we rely here on the drop order being the same as the declaration       *)
(* order": the thread guard goes before the system guard.                  *)
DropOrder(guard) ==
    CASE guard = "none"   -> <<>>
      [] guard = "thread" -> <<"flush_thread">>
      [] guard = "full"   -> <<"flush_thread", "release">>

(* A panic runs the hook, then unwinding drops the thread's guards.  The   *)
(* hook is there once a dispatch is.                                       *)
PanicSteps(t) == ShutdownTelemetry \o DropOrder(guards[t]) \o <<"dead">>

(* What the log stream holds goes to the sink; the null sink loses it. *)
FlushLogBuffer ==
    /\ lost_logs' = IF sink = "null" /\ ~early THEN lost_logs \cup logs ELSE lost_logs
    /\ logs' = {}

FlushLog(t) ==
    /\ At(t, "flush_log")
    /\ FlushLogBuffer
    /\ Step(t)
    /\ UNCHANGED <<process, capture, level_filter, arg, seen, took, threads, spans,
                   bounds, early, outlived, lost_spans>>

(* Dispatch::shutdown; on_shutdown does nothing in the sinks of this       *)
(* repository, it is dropping them that joins their thread.                *)
Swap(t) ==
    /\ At(t, "swap")
    /\ sink' = IF sink = "none" THEN "none" ELSE "null"
    /\ outlived' = IF sink = "real" /\ ~early
                   THEN outlived \cup {u \in Threads : guards[u] = "thread"}
                   ELSE outlived
    /\ Step(t)
    /\ UNCHANGED <<MAX_LEVEL_FILTER, installed, weak_lock, poisoned, holders, capture,
                   level_filter, arg, seen, took, threads, content, bounds, early,
                   lost_logs, lost_spans>>

(* The hook first logs the panic, if errors are enabled. *)
Panic(t) ==
    /\ Idle(t)
    /\ sink # "none"
    /\ logs' \in {logs, IF sink = "real" /\ guards[t] = "full" THEN logs \cup {t} ELSE logs}
    /\ Goto(t, PanicSteps(t))
    /\ early' = TRUE
    /\ UNCHANGED <<process, capture, level_filter, arg, seen, took, threads, spans,
                   bounds, outlived, lost_logs, lost_spans>>

(* with_ctrlc_handling: the handler has a thread of its own. *)
CtrlC(t) ==
    /\ Idle(t)
    /\ guards[t] = "none"
    /\ Goto(t, ShutdownTelemetry \o <<"exit">>)
    /\ early' = TRUE
    /\ UNCHANGED <<process, capture, level_filter, arg, seen, took, threads, content,
                   bounds, outlived, lost_logs, lost_spans>>

Exit(t) ==
    /\ At(t, "exit")
    /\ exited' = TRUE
    /\ Step(t)
    /\ UNCHANGED <<process, capture, level_filter, arg, seen, took, threads, content,
                   builds, events, history>>

-----------------------------------------------------------------------------
(***************************************************************************)
(* build                                                                   *)
(***************************************************************************)

(* Lock GLOBAL_WEAK_GUARD.  While somebody holds a system guard it is      *)
(* shared and the rest of the configuration is ignored; a poisoned lock    *)
(* panics.                                                                 *)
BuildLock(t, b) ==
    /\ Idle(t)
    /\ guards[t] = "none"
    /\ builds < MaxBuilds
    /\ weak_lock = None
    /\ builds' = builds + 1
    /\ \/ /\ poisoned
          /\ Goto(t, PanicSteps(t))
          /\ early' = TRUE
          /\ UNCHANGED <<weak_lock, holders, arg>>
       \/ /\ ~poisoned
          /\ holders # {}
          /\ holders' = holders \cup {t}
          /\ Goto(t, <<"thread">>)
          /\ UNCHANGED <<weak_lock, arg, early>>
       \/ /\ ~poisoned
          /\ holders = {}
          /\ weak_lock' = t
          /\ arg' = Set(t, arg, b)
          /\ Goto(t, <<"composite", "capture", "init", "thread">>)
          /\ UNCHANGED <<holders, early>>
    /\ UNCHANGED <<MAX_LEVEL_FILTER, sink, installed, poisoned, capture, level_filter,
                   seen, took, threads, content, exited, events, outlived, lost_logs,
                   lost_spans>>

(* CompositeSink::new sets the process' max level. *)
BuildComposite(t) ==
    /\ At(t, "composite")
    /\ MAX_LEVEL_FILTER' = CompositeMaxLevel(arg[t])
    /\ Step(t)
    /\ UNCHANGED <<sink, installed, weak_lock, poisoned, holders, capture, level_filter,
                   arg, seen, took, threads, content, bounds, history>>

(* install_log_interop: a second logger is refused and logging turned off. *)
InstallLog(b) ==
    logger' = IF ~b.log_capture THEN logger
              ELSE IF logger # NotSet THEN Off
              ELSE LogCrateFilter(InteropMaxLevel(b, MAX_LEVEL_FILTER))

(* install_tracing_interop: .init() panics when there is a subscriber. *)
BuildCapture(t) ==
    LET b == arg[t] IN
    /\ At(t, "capture")
    /\ InstallLog(b)
    /\ \/ /\ ~b.tracing_capture
          /\ Step(t)
          /\ UNCHANGED <<subscriber, early>>
       \/ /\ b.tracing_capture /\ subscriber = NotSet
          /\ subscriber' = InteropMaxLevel(b, MAX_LEVEL_FILTER)
          /\ Step(t)
          /\ UNCHANGED early
       \/ /\ b.tracing_capture /\ subscriber # NotSet
          /\ Goto(t, ShutdownTelemetry \o <<"poison", "dead">>)
          /\ early' = TRUE
          /\ UNCHANGED subscriber
    /\ UNCHANGED <<process, level_filter, arg, seen, took, threads, content, bounds,
                   outlived, lost_logs, lost_spans>>

(* Unwinding drops the guard of the mutex. *)
Poison(t) ==
    /\ At(t, "poison")
    /\ poisoned' = TRUE
    /\ weak_lock' = None
    /\ Step(t)
    /\ UNCHANGED <<MAX_LEVEL_FILTER, sink, installed, holders, capture, level_filter,
                   arg, seen, took, threads, content, bounds, history>>

(* G_DISPATCH.is_none() *)
Uninitialized == sink = "none"

(* TracingSystemGuard::new: init_event_dispatch, then the panic hook,      *)
(* whose assertion that it is the first cannot fail here.  Otherwise build *)
(* returns AlreadyInitialized.                                             *)
BuildInit(t) ==
    /\ At(t, "init")
    /\ weak_lock' = None
    /\ \/ /\ Uninitialized
          /\ sink' = "real"
          /\ installed' = arg[t]
          /\ holders' = {t}
          /\ Step(t)
       \/ /\ ~Uninitialized
          /\ Goto(t, <<>>)
          /\ UNCHANGED <<sink, installed, holders>>
    /\ arg' = Set(t, arg, None)
    /\ UNCHANGED <<MAX_LEVEL_FILTER, poisoned, capture, level_filter, seen, took,
                   threads, content, bounds, history>>

(* TracingThreadGuard::new, init_thread_stream. *)
InitThreadStream(t) ==
    thread_streams' = IF sink = "none" THEN thread_streams ELSE thread_streams \cup {t}

BuildThread(t) ==
    /\ At(t, "thread")
    /\ InitThreadStream(t)
    /\ guards' = Set(t, guards, "full")
    /\ Step(t)
    /\ UNCHANGED <<process, capture, level_filter, arg, seen, took, content, bounds,
                   history>>

(* A thread guard without a system guard. *)
ThreadGuard(t) ==
    /\ Idle(t)
    /\ guards[t] = "none"
    /\ InitThreadStream(t)
    /\ guards' = Set(t, guards, "thread")
    /\ outlived' = IF sink = "real" \/ early THEN outlived ELSE outlived \cup {t}
    /\ UNCHANGED <<process, capture, level_filter, calls, content, bounds, early,
                   lost_logs, lost_spans>>

DropGuard(t) ==
    /\ Idle(t)
    /\ guards[t] # "none"
    /\ Goto(t, DropOrder(guards[t]))
    /\ UNCHANGED <<process, capture, level_filter, arg, seen, took, threads, content,
                   bounds, history>>

FlushThread(t) ==
    /\ At(t, "flush_thread")
    /\ lost_spans' = IF sink = "null" /\ ~early /\ t \in spans
                     THEN lost_spans \cup {t} ELSE lost_spans
    /\ spans' = spans \ {t}
    /\ guards' = IF guards[t] = "thread" THEN Set(t, guards, "none") ELSE guards
    /\ Step(t)
    /\ UNCHANGED <<process, capture, level_filter, arg, seen, took, thread_streams, logs,
                   bounds, early, outlived, lost_logs>>

(* Mutant: every guard shuts telemetry down. *)
LastHolderAny(t) == TRUE

LastHolder(t) == holders = {t}

(* The reference count; TracingSystemGuard::drop when it reaches 0. *)
Release(t) ==
    /\ At(t, "release")
    /\ holders' = holders \ {t}
    /\ guards' = Set(t, guards, "none")
    /\ Goto(t, IF LastHolder(t) THEN ShutdownTelemetry \o Tail(pc[t]) ELSE Tail(pc[t]))
    /\ UNCHANGED <<MAX_LEVEL_FILTER, sink, installed, weak_lock, poisoned, capture,
                   level_filter, arg, seen, took, thread_streams, content, bounds,
                   history>>

-----------------------------------------------------------------------------
(***************************************************************************)
(* Recording                                                               *)
(***************************************************************************)

(* A span of a thread that has a stream. *)
Span(t) ==
    /\ Idle(t)
    /\ t \in thread_streams
    /\ events < MaxEvents
    /\ events' = events + 1
    /\ spans' = spans \cup {t}
    /\ UNCHANGED <<process, capture, level_filter, calls, threads, logs, exited,
                   builds, history>>

(* LogMetadata::level_filter: the cached filter counts if its generation   *)
(* is not older.                                                           *)
Outdated(cached) == GENERATION > cached.generation

MatchOf(x) == FindMaxMatch(x.target, TargetFilters(installed))

(* Dispatch::log goes on if some sink takes the event. *)
Decide(t, x, filter) ==
    /\ seen' = Set(t, seen, Unread)
    /\ IF OnLogEnabled(installed, filter, x.level)
       THEN Goto(t, <<"on_log", "push">>) /\ arg' = Set(t, arg, x)
       ELSE Goto(t, <<>>) /\ arg' = Set(t, arg, None)

(* log!: the level is tested before anything else, against the cap of the  *)
(* build and the process' max level.  The null sink enables nothing.       *)
Log(t, x) ==
    /\ Idle(t)
    /\ events < MaxEvents
    /\ Passes(x.level, STATIC_MAX_LEVEL(debug_assertions, Features))
    /\ Passes(x.level, MAX_LEVEL_FILTER)
    /\ sink = "real"
    /\ events' = events + 1
    /\ IF Outdated(level_filter[x])
       THEN Goto(t, <<"load">>) /\ arg' = Set(t, arg, x) /\ UNCHANGED seen
       ELSE Decide(t, x, level_filter[x].filter)
    /\ UNCHANGED <<process, capture, level_filter, took, threads, content, exited,
                   builds, history>>

(* set_level_filter, first read: somebody else may have been faster. *)
Load(t) ==
    LET x == arg[t] IN
    /\ At(t, "load")
    /\ IF Outdated(level_filter[x])
       THEN Goto(t, <<"cas">>) /\ seen' = Set(t, seen, level_filter[x]) /\ UNCHANGED arg
       ELSE Decide(t, x, MatchOf(x))
    /\ UNCHANGED <<process, capture, level_filter, took, threads, content, bounds,
                   history>>

NewCached(x) == [generation |-> GENERATION, filter |-> MatchOf(x)]

(* compare_exchange.  It fails only if another thread has set the filter,  *)
(* and since all use one GENERATION, the loop has no second turn.          *)
Cas(t) ==
    LET x == arg[t] IN
    /\ At(t, "cas")
    /\ \/ /\ level_filter[x] = seen[t]
          /\ level_filter' = Set(x, level_filter, NewCached(x))
          /\ Decide(t, x, MatchOf(x))
       \/ /\ level_filter[x] # seen[t]
          /\ ~Outdated(level_filter[x])
          /\ Decide(t, x, MatchOf(x))
          /\ UNCHANGED level_filter
    /\ UNCHANGED <<process, capture, took, threads, content, bounds, history>>

(* on_log of the sink, which may have been replaced since. *)
OnLog(t) ==
    LET x == arg[t] IN
    /\ At(t, "on_log")
    /\ took' = Set(t, took, IF sink = "real"
                            THEN Takers(installed, level_filter[x].filter, x.level)
                            ELSE None)
    /\ Step(t)
    /\ UNCHANGED <<process, capture, level_filter, arg, seen, threads, content, bounds,
                   history>>

(* The event is pushed into the log stream, for all sinks alike. *)
Push(t) ==
    /\ At(t, "push")
    /\ logs' = IF guards[t] = "full" THEN logs \cup {t} ELSE logs
    /\ arg' = Set(t, arg, None)
    /\ took' = Set(t, took, {})
    /\ Step(t)
    /\ UNCHANGED <<process, capture, level_filter, seen, threads, spans, bounds, history>>

(* The capture of the log or of the tracing crate lets the event through. *)
Captured(x) == \E captured \in {subscriber, logger} \ {NotSet} : Passes(x.level, captured)

(* An event of another crate: log_interop.  Its metadata, hence its cached *)
(* filter, is made on the spot.  It is pushed even if no sink takes it.    *)
LogInterop(t, x) ==
    /\ Idle(t)
    /\ events < MaxEvents
    /\ Captured(x)
    /\ sink # "none"
    /\ events' = events + 1
    /\ arg' = Set(t, arg, x)
    /\ took' = Set(t, took, IF sink = "real"
                            THEN Takers(installed, MatchOf(x), x.level)
                            ELSE None)
    /\ Goto(t, <<"push">>)
    /\ UNCHANGED <<process, capture, level_filter, seen, threads, content, exited,
                   builds, history>>

(* log::Log::flush *)
LogFlush(t) ==
    /\ Idle(t)
    /\ logger # NotSet
    /\ FlushLogBuffer
    /\ UNCHANGED <<process, capture, level_filter, calls, threads, spans, bounds, early,
                   outlived, lost_spans>>

-----------------------------------------------------------------------------

Start(t) ==
    \/ \E b \in Builds : BuildLock(t, b)
    \/ ThreadGuard(t) \/ DropGuard(t) \/ Span(t) \/ LogFlush(t)
    \/ \E x \in Sites : Log(t, x)
    \/ \E x \in Foreign : LogInterop(t, x)
    \/ Panic(t) \/ CtrlC(t)

Continue(t) ==
    \/ BuildComposite(t) \/ BuildCapture(t) \/ BuildInit(t) \/ BuildThread(t)
    \/ Load(t) \/ Cas(t) \/ OnLog(t) \/ Push(t)
    \/ FlushThread(t) \/ Release(t) \/ FlushLog(t) \/ Swap(t)
    \/ Poison(t) \/ Exit(t)

Next == ~exited /\ \E t \in Threads : Start(t) \/ Continue(t)

Spec == Init /\ [][Next]_vars

-----------------------------------------------------------------------------
(***************************************************************************)
(* Properties                                                              *)
(***************************************************************************)

(***************************************************************************)
(* The test of the level that comes before everything else never hides an  *)
(* event that some sink would take, nor does the capture of the tracing    *)
(* crate (its subscriber; the log crate's logger is not meant).            *)
(* A failed build changes the max level all the same, but cannot do so     *)
(* while somebody holds a guard.                                           *)
(***************************************************************************)
FastCheckConservative ==
    sink = "real" /\ holders # {} /\ installed.override = NotSet =>
        \A x \in Sites \cup Foreign :
            OnLogEnabled(installed, MatchOf(x), x.level) =>
                /\ Passes(x.level, MAX_LEVEL_FILTER)
                /\ subscriber # NotSet /\ installed.interop = NotSet
                     => Passes(x.level, subscriber)

(* The level that applies to sink s at target: the filter of the longest   *)
(* name that starts the target, unless there is one for the empty name,    *)
(* and that of the sink if no name does.  MAX_LEVEL is not a target.       *)
LevelFor(b, s, target) ==
    LET names == {n \in DOMAIN b.targets \ {<<"MAX_LEVEL">>} :
                     \E k \in 0 .. Len(target) : n = SubSeq(target, 1, k)}
    IN  IF <<>> \in names THEN FromStr(b.targets[<<>>])
        ELSE IF names = {} THEN b.sinks[s]
        ELSE FromStr(b.targets[CHOOSE n \in names : \A m \in names : Len(m) <= Len(n)])

(***************************************************************************)
(* CompositeSink::on_log hands a logged event to the on_log of exactly the *)
(* sinks whose level for its target lets it through, whether or not the    *)
(* filter was cached, and however threads raced to cache it.  This limits  *)
(* what a sink prints at once, not what it sends: the on_log of the HTTP   *)
(* sink does nothing, and log blocks go to every sink whatever its level,  *)
(* with the events of other crates that no on_log was called for.          *)
(***************************************************************************)
OnLogByLevel ==
    \A t \in Threads : At(t, "push") /\ took[t] # None =>
        took[t] = {s \in DOMAIN installed.sinks :
                      arg[t].level <= LevelFor(installed, s, arg[t].target)}

(***************************************************************************)
(* While a thread holds a TelemetryGuard, the sink is the one that was     *)
(* built, unless a panic or Ctrl-C shut telemetry down for everybody.      *)
(***************************************************************************)
SinkAliveWhileHeld == holders # {} /\ ~early => sink = "real"

(***************************************************************************)
(* What a thread logged while it held a TelemetryGuard reaches the sink,   *)
(* since the last guard to be dropped flushes before the sink is replaced. *)
(* Spans are lost only by threads that still had, or only got, a bare      *)
(* thread guard when the last TelemetryGuard was gone; the thread that     *)
(* drops that one loses none of its own.                                   *)
(***************************************************************************)
GuardedEventsDelivered ==
    ~early =>
        /\ lost_logs = {} /\ (sink = "null" => logs = {})
        /\ lost_spans \subseteq outlived
=============================================================================
