----------------------------- MODULE EventStream -----------------------------
(***************************************************************************)
(* The streams of rust/tracing: how events enter a block, how a block is   *)
(* cut and handed to the sink, and who does it (dispatch.rs, event/*.rs,   *)
(* flush_monitor.rs, guards.rs).                                           *)
(*                                                                         *)
(* The log and metrics streams are shared by all threads behind a mutex.   *)
(* log() and the metric functions stamp the event, lock, push, and when    *)
(* the block is full unlock and call the flush function, which locks       *)
(* again: other threads run in between.  A thread stream belongs to its    *)
(* thread and has no lock; the flush monitor only lowers its threshold,    *)
(* from another thread, so that the owner flushes it at its next event.    *)
(*                                                                         *)
(* An event is its time stamp.  The sink is whatever takes blocks: the     *)
(* real one (HttpEventSink.tla) or the null sink that a shutdown installs. *)
(***************************************************************************)
EXTENDS Integers, Sequences, FiniteSets

CONSTANTS
    Threads,       \* all threads of the process
    Traced,        \* those with a TracingThreadGuard
    Main,          \* the one that holds the TelemetryGuard
    Ticker,        \* the one that ticks the flush monitor
    Log, Metrics,  \* the shared streams
    None,
    buffer_size,   \* capacity_bytes of a block
    max_obj_size,  \* hint_max_obj_size
    Sizes,         \* per stream: bytes an event may take in the queue
    MaxClock,      \* bound: no event is stamped after this time
    MaxTicks       \* bound: ticks of the monitor

Shared  == {Log, Metrics}
Streams == Shared \cup Traced

(* An empty queue holds no byte and an event at least one; buffer_size is  *)
(* unsigned, so a buffer smaller than the hint would wrap its threshold.   *)
ASSUME StreamAssumption ==
    /\ IsFiniteSet(Threads)
    /\ Main \in Threads /\ Ticker \in Threads \ {Main}
    /\ Traced \subseteq Threads \ {Ticker}
    /\ Log # Metrics
    /\ Shared \cap Threads = {}
    /\ None \notin Threads \cup Shared
    /\ buffer_size \in Nat /\ max_obj_size \in Nat
    /\ max_obj_size <= buffer_size
    /\ Sizes \in [Streams -> SUBSET (Nat \ {0})]
    /\ MaxClock \in Nat /\ MaxTicks \in Nat

VARIABLES
    clock,           \* the last value read by now()
    block,           \* per stream: current_block
    full_threshold,  \* per stream: the AtomicUsize
    lock,            \* per stream: who holds the mutex
    pc, arg, time,   \* per thread: step, stream and time stamp of its call
    old,             \* per thread: the block it cut and has not yet sent
    thread_streams,  \* the threads whose stream is registered
    tick,            \* progress of FlushMonitor::tick on Ticker
    walked,          \* streams that tick has visited
    down,            \* progress of the shutdown on Main
    sink,            \* what the dispatch holds: "real" or "null"
    ticks,           \* ticks begun
    pushed,          \* history, per stream: all events in push order
    sent,            \* history, per stream: blocks given to the sink
    delivered,       \* history, per stream: events the real sink has
    due,             \* history, per stream: events a shutdown must deliver
    raised           \* history, per stream: events at the last tick or set_full

source  == <<block, full_threshold, lock>>
calls   == <<pc, arg, time, old>>
control == <<thread_streams, tick, walked, down, sink, ticks>>
history == <<pushed, sent, delivered, due, raised>>
vars    == <<clock, source, calls, control, history>>

(* The current block; ends is history: the queue's length after each event. *)
Block == [object_offset : Nat, begin : Nat, events : Seq(Nat), len_bytes : Nat,
          ends : Seq(Nat)]

ClosedBlock == [object_offset : Nat, begin : Nat, events : Seq(Nat), end : Nat]

SourceOK ==
    /\ block \in [Streams -> Block]
    /\ full_threshold \in [Streams -> Nat]
    /\ lock \in [Streams -> Threads \cup {None}]

CallsOK ==
    /\ pc \in [Threads -> {"idle", "push", "flush", "sink"}]
    /\ arg \in [Threads -> Streams \cup {None}]
    /\ time \in [Threads -> Nat]
    /\ old \in [Threads -> ClosedBlock \cup {None}]

ControlOK ==
    /\ thread_streams \subseteq Traced
    /\ tick \in {"idle", "log", "metrics", "threads"}
    /\ walked \subseteq thread_streams
    /\ down \in {"run", "log", "metrics", "swap", "done"}
    /\ sink \in {"real", "null"}
    /\ ticks \in 0 .. MaxTicks

HistoryOK ==
    /\ pushed \in [Streams -> Seq(Nat)]
    /\ sent \in [Streams -> Seq(ClosedBlock)]
    /\ delivered \in [Streams -> Nat]
    /\ due \in [Streams -> Nat]
    /\ raised \in [Streams -> Nat]

(***************************************************************************)
(* Every variable stays in its domain.                                     *)
(***************************************************************************)
TypeOK == clock \in Nat /\ SourceOK /\ CallsOK /\ ControlOK /\ HistoryOK

NewBlock(offset, now) ==
    [object_offset |-> offset, begin |-> now, events |-> <<>>, len_bytes |-> 0,
     ends |-> <<>>]

Close(b, now) ==
    [object_offset |-> b.object_offset, begin |-> b.begin,
     events |-> b.events, end |-> now]

(* Mutant: the operands the wrong way round. *)
ThresholdReversed == max_obj_size - buffer_size

Threshold == buffer_size - max_obj_size

Init ==
    /\ clock = 0
    /\ block = [s \in Streams |-> NewBlock(0, 0)]
    /\ full_threshold = [s \in Streams |-> Threshold]
    /\ lock = [s \in Streams |-> None]
    /\ pc = [t \in Threads |-> "idle"]
    /\ arg = [t \in Threads |-> None]
    /\ time = [t \in Threads |-> 0]
    /\ old = [t \in Threads |-> None]
    /\ thread_streams = {}
    /\ tick = "idle"
    /\ walked = {}
    /\ down = "run"
    /\ sink = "real"
    /\ ticks = 0
    /\ pushed = [s \in Streams |-> <<>>]
    /\ sent = [s \in Streams |-> <<>>]
    /\ delivered = [s \in Streams |-> 0]
    /\ due = [s \in Streams |-> 0]
    /\ raised = [s \in Streams |-> 0]

-----------------------------------------------------------------------------
(***************************************************************************)
(* Recording an event.                                                     *)
(***************************************************************************)

(* A thread records into the shared streams and, once it has one, its own. *)
Records(t, s) == s \in Shared \/ (s = t /\ t \in thread_streams)

(* Main is not inside a shutdown, Ticker not inside a tick. *)
Free(t) ==
    /\ pc[t] = "idle"
    /\ t = Main => down \in {"run", "done"}
    /\ t = Ticker => tick = "idle"

(* log, log_interop, int_metric, float_metric, on_*_scope: read the clock. *)
Stamp(t, s) ==
    /\ Free(t)
    /\ Records(t, s)
    /\ clock < MaxClock
    /\ clock' = clock + 1
    /\ time' = [time EXCEPT ![t] = clock']
    /\ pc' = [pc EXCEPT ![t] = "push"]
    /\ arg' = [arg EXCEPT ![t] = s]
    /\ UNCHANGED <<source, old, control, history>>

Return(t) ==
    /\ pc' = [pc EXCEPT ![t] = "idle"]
    /\ arg' = [arg EXCEPT ![t] = None]

(* A thread stream is never locked: its owner is alone on it. *)
Lockable(s) == lock[s] = None

(* Mutant: no room is reserved for one more object. *)
is_full_late(s, len) == len > full_threshold[s] + max_obj_size

is_full(s, len) == len > full_threshold[s]

push(b, e, n) ==
    [b EXCEPT !.events = Append(@, e), !.len_bytes = @ + n,
              !.ends = Append(@, b.len_bytes + n)]

(* The critical section of the recording functions.  The lock is dropped   *)
(* before the flush function is called.                                    *)
Push(t) ==
    LET s == arg[t] IN
    /\ pc[t] = "push"
    /\ Lockable(s)
    /\ \E n \in Sizes[s] :
          /\ block' = [block EXCEPT ![s] = push(@, time[t], n)]
          /\ IF is_full(s, block[s].len_bytes + n)
             THEN pc' = [pc EXCEPT ![t] = "flush"] /\ UNCHANGED arg
             ELSE Return(t)
    /\ time' = [time EXCEPT ![t] = 0]
    /\ pushed' = [pushed EXCEPT ![s] = Append(@, time[t])]
    /\ UNCHANGED <<clock, full_threshold, lock, old, control, sent, delivered,
                   due, raised>>

-----------------------------------------------------------------------------
(***************************************************************************)
(* Flushing: flush_log_buffer, flush_metrics_buffer, flush_thread_buffer.  *)
(***************************************************************************)

CallFlush(t, s) ==
    /\ pc[t] = "idle"
    /\ pc' = [pc EXCEPT ![t] = "flush"]
    /\ arg' = [arg EXCEPT ![t] = s]

FlushEmpty(t) ==
    LET s == arg[t] IN
    /\ pc[t] = "flush"
    /\ Lockable(s)
    /\ block[s].len_bytes = 0
    /\ Return(t)
    /\ UNCHANGED <<clock, source, time, old, control, history>>

next_offset(b) == b.object_offset + Len(b.events)

(* Mutant: the lock covers the replacement only, not the call of the sink. *)
LockHolderUnlocked(t, s) == None

LockHolder(t, s) == IF s \in Shared THEN t ELSE None

(* Mutant: the old block is closed before the new one is created. *)
CloseFirst == [begin |-> clock + 2, end |-> clock + 1]

(* The new block is created, hence its begin read, before the old one is   *)
(* closed.                                                                 *)
ReplaceTimes == [begin |-> clock + 1, end |-> clock + 2]

ReplaceBlock(t) ==
    LET s == arg[t] IN
    /\ pc[t] = "flush"
    /\ Lockable(s)
    /\ block[s].len_bytes # 0
    /\ clock' = clock + 2
    /\ block' = [block EXCEPT ![s] = NewBlock(next_offset(@), ReplaceTimes.begin)]
    /\ full_threshold' = [full_threshold EXCEPT ![s] = Threshold]
    /\ old' = [old EXCEPT ![t] = Close(block[s], ReplaceTimes.end)]
    /\ lock' = [lock EXCEPT ![s] = LockHolder(t, s)]
    /\ pc' = [pc EXCEPT ![t] = "sink"]
    /\ UNCHANGED <<arg, time, control, history>>

(* sink.on_process_*_block; returning drops the lock. *)
OnProcessBlock(t) ==
    LET s == arg[t] IN
    /\ pc[t] = "sink"
    /\ sent' = [sent EXCEPT ![s] = Append(@, old[t])]
    /\ delivered' = [delivered EXCEPT ![s] =
                        IF sink = "real" THEN old[t].object_offset + Len(old[t].events)
                        ELSE @]
    /\ old' = [old EXCEPT ![t] = None]
    /\ lock' = [lock EXCEPT ![s] = None]
    /\ Return(t)
    /\ UNCHANGED <<clock, block, full_threshold, time, control, pushed, due, raised>>

-----------------------------------------------------------------------------
(***************************************************************************)
(* Thread streams: TracingThreadGuard.                                     *)
(***************************************************************************)

(* for_each_thread_stream holds the mutex around the vector. *)
Walking == tick = "threads" /\ pc[Ticker] = "idle"

(* init_thread_stream: the stream is created, its first block beginning    *)
(* now, and the vector of streams is locked to register it, which waits    *)
(* while a tick walks that vector.                                         *)
InitThreadStream(t) ==
    /\ Free(t)
    /\ t \in Traced \ thread_streams
    /\ ~Walking
    /\ clock' = clock + 1
    /\ block' = [block EXCEPT ![t].begin = clock']
    /\ thread_streams' = thread_streams \cup {t}
    /\ UNCHANGED <<full_threshold, lock, calls, tick, walked, down, sink, ticks,
                   history>>

(* Dropping the guard; the thread may still record events afterwards. *)
DropThreadGuard(t) ==
    /\ Free(t)
    /\ t \in thread_streams
    /\ CallFlush(t, t)
    /\ UNCHANGED <<clock, source, time, old, control, history>>

-----------------------------------------------------------------------------
(***************************************************************************)
(* FlushMonitor::tick, on Ticker, once it is time and the sink is not busy *)
(***************************************************************************)

Tick ==
    /\ Free(Ticker)
    /\ ticks < MaxTicks
    /\ ticks' = ticks + 1
    /\ tick' = "log"
    /\ raised' = [s \in Streams |-> IF s \in Shared THEN Len(pushed[s]) ELSE raised[s]]
    /\ UNCHANGED <<clock, source, calls, thread_streams, walked, down, sink, pushed,
                   sent, delivered, due>>

(* Mutant: the log stream is flushed twice. *)
TickTargetLog == Log

TickTarget == IF tick = "log" THEN Log ELSE Metrics

TickFlush ==
    /\ tick \in {"log", "metrics"}
    /\ CallFlush(Ticker, TickTarget)
    /\ tick' = IF tick = "log" THEN "metrics" ELSE "threads"
    /\ UNCHANGED <<clock, source, time, old, thread_streams, walked, down, sink,
                   ticks, history>>

(* Mutant: the mark is the threshold of an empty block. *)
SetFullValueHint == Threshold

SetFullValue == 0

(* set_full on one of the registered streams: a store that races with what *)
(* the owner is doing.                                                     *)
SetFull(t) ==
    /\ Walking
    /\ t \in thread_streams \ walked
    /\ full_threshold' = [full_threshold EXCEPT ![t] = SetFullValue]
    /\ walked' = walked \cup {t}
    /\ raised' = [raised EXCEPT ![t] = Len(pushed[t])]
    /\ UNCHANGED <<clock, block, lock, calls, thread_streams, tick, down, sink,
                   ticks, pushed, sent, delivered, due>>

TickDone ==
    /\ Walking
    /\ walked = thread_streams
    /\ tick' = "idle"
    /\ walked' = {}
    /\ UNCHANGED <<clock, source, calls, thread_streams, down, sink, ticks, history>>

-----------------------------------------------------------------------------
(***************************************************************************)
(* Shutdown on Main.  Dropping the TelemetryGuard first drops the thread   *)
(* guard, which flushes Main's own stream; the panic hook and the Ctrl-C   *)
(* handler call shutdown_telemetry alone.                                  *)
(***************************************************************************)

(* What the streams hold when the shutdown begins must get to the sink.    *)
Owes(S) == due' = [s \in Streams |-> IF s \in S THEN Len(pushed[s]) ELSE 0]

DropTelemetryGuard ==
    /\ Free(Main)
    /\ down = "run"
    /\ down' = "log"
    /\ Main \in thread_streams
    /\ CallFlush(Main, Main)
    /\ Owes(Shared \cup {Main})
    /\ UNCHANGED <<clock, source, time, old, thread_streams, tick, walked, sink,
                   ticks, pushed, sent, delivered, raised>>

ShutdownTelemetry ==
    /\ Free(Main)
    /\ down = "run"
    /\ down' = "log"
    /\ Owes(Shared)
    /\ UNCHANGED <<clock, source, calls, thread_streams, tick, walked, sink,
                   ticks, pushed, sent, delivered, raised>>

(* Mutant: metrics are not flushed. *)
AfterShutdownFlushLogOnly == "swap"

AfterShutdownFlush == IF down = "log" THEN "metrics" ELSE "swap"

ShutdownFlush ==
    /\ down \in {"log", "metrics"}
    /\ CallFlush(Main, IF down = "log" THEN Log ELSE Metrics)
    /\ down' = AfterShutdownFlush
    /\ UNCHANGED <<clock, source, time, old, thread_streams, tick, walked, sink,
                   ticks, history>>

(* Dispatch::shutdown replaces the sink. *)
ShutdownDispatch ==
    /\ down = "swap"
    /\ pc[Main] = "idle"
    /\ down' = "done"
    /\ sink' = "null"
    /\ UNCHANGED <<clock, source, calls, thread_streams, tick, walked, ticks, history>>

-----------------------------------------------------------------------------

(* What a thread does once it is inside a call. *)
Call(t) == Push(t) \/ FlushEmpty(t) \/ ReplaceBlock(t) \/ OnProcessBlock(t)

Record(t) ==
    \/ \E s \in Streams : Stamp(t, s)
    \/ InitThreadStream(t)
    \/ DropThreadGuard(t)

TickStep == TickFlush \/ TickDone \/ \E t \in Traced : SetFull(t)

ShutdownStep == ShutdownFlush \/ ShutdownDispatch

Next ==
    \/ \E t \in Threads : Record(t) \/ Call(t)
    \/ Tick
    \/ TickStep
    \/ DropTelemetryGuard
    \/ ShutdownTelemetry
    \/ ShutdownStep

(***************************************************************************)
(* Threads that can run do run, and a mutex is granted in the end to a     *)
(* thread that keeps asking.  Nobody has to record, tick or shut down.     *)
(***************************************************************************)
Fairness ==
    /\ \A t \in Threads : SF_vars(Call(t))
    /\ WF_vars(TickStep)
    /\ WF_vars(ShutdownStep)

Spec == Init /\ [][Next]_vars

FairSpec == Spec /\ Fairness

-----------------------------------------------------------------------------
(***************************************************************************)
(* Properties                                                              *)
(***************************************************************************)

(* b holds a run of the events all, starting at its offset. *)
Holds(all, b) ==
    /\ b.object_offset + Len(b.events) <= Len(all)
    /\ \A i \in 1 .. Len(b.events) : b.events[i] = all[b.object_offset + i]

(* c starts where b ends. *)
Follows(b, c) == c.object_offset = b.object_offset + Len(b.events)

(***************************************************************************)
(* Whatever threads record and flush at the same time, the sink receives   *)
(* each event of a stream once and in order: the blocks given to it start  *)
(* at offset 0, each starts where the one before ends, they hold the       *)
(* events that were pushed, and the current block holds the rest.          *)
(***************************************************************************)
BlocksPartitionEvents ==
    \A s \in Streams :
        LET n == Len(sent[s]) IN
        /\ n > 0 => sent[s][1].object_offset = 0
        /\ \A i \in 1 .. n : Holds(pushed[s], sent[s][i])
        /\ \A i \in 1 .. n - 1 : Follows(sent[s][i], sent[s][i + 1])
        /\ Holds(pushed[s], block[s])
        /\ Len(pushed[s]) = block[s].object_offset + Len(block[s].events)

(***************************************************************************)
(* The time ranges of a stream's blocks overlap, so that no moment is      *)
(* without a block, and no event is stamped after its block's end.  In a   *)
(* thread stream none is stamped before its block's begin either (in a     *)
(* shared one it may be: the stamp is read before the lock is taken).      *)
(***************************************************************************)
BlockTimes ==
    \A s \in Streams : \A i \in DOMAIN sent[s] :
        LET b == sent[s][i] IN
        /\ i < Len(sent[s]) => b.begin < sent[s][i + 1].begin
                              /\ sent[s][i + 1].begin <= b.end
        /\ \A k \in DOMAIN b.events :
              b.events[k] < b.end /\ (s \in Traced => b.begin < b.events[k])

(* The threads that found s full, or were sent to flush it, and wait. *)
Flushers(s) == {t \in Threads : pc[t] = "flush" /\ arg[t] = s}

(***************************************************************************)
(* However long the objects are, at most one object for each thread that   *)
(* is about to flush a block lies beyond its threshold: a block that       *)
(* nobody is about to flush still has room for an object of                *)
(* hint_max_obj_size bytes.  The hint limits no object (the text of a log  *)
(* event has any length), so nothing follows about the size of a block.    *)
(***************************************************************************)
Overfull ==
    \A s \in Streams : \A k \in DOMAIN block[s].ends :
        k + Cardinality(Flushers(s)) <= Len(block[s].ends)
          => block[s].ends[k] <= Threshold

(***************************************************************************)
(* A thread whose stream was marked full by the monitor has handed over    *)
(* every event it had by then once it has recorded one more, although the  *)
(* mark may be overwritten by a flush that was already under way.          *)
(***************************************************************************)
SetFullHonoured ==
    \A t \in thread_streams :
        pc[t] = "idle" /\ Len(pushed[t]) > raised[t]
          => block[t].object_offset >= raised[t]

(***************************************************************************)
(* When the null sink is installed, every event that the shared streams    *)
(* (and Main's own, if the TelemetryGuard was dropped) held when the       *)
(* shutdown began has been given to the real sink.                         *)
(***************************************************************************)
ShutdownFlushes == down = "done" => \A s \in Streams : delivered[s] >= due[s]

(***************************************************************************)
(* A tick that has begun hands over what both shared streams held at that  *)
(* time, however the other threads compete for their locks.                *)
(***************************************************************************)
TickFlushes ==
    (tick = "log") ~> (\A s \in Shared : block[s].object_offset >= raised[s])
=============================================================================
