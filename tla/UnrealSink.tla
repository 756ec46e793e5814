------------------------------ MODULE UnrealSink ------------------------------
(***************************************************************************)
(* The Unreal plugins: the dispatch of MicromegasTracing                   *)
(* (Private/Dispatch.cpp) and the http sink of MicromegasTelemetrySink     *)
(* (Private/HttpEventSink.cpp, FlushMonitor.cpp, SamplingController.cpp,   *)
(* MicromegasTelemetrySinkModule.cpp).                                     *)
(*                                                                         *)
(* The library instruments itself: flushing a stream and calling the sink  *)
(* open spans, and counting a message records a metric, so that a call     *)
(* nests in another.  Each thread therefore has a stack of steps to do.    *)
(* The mutex of a shared stream is released before the sink is called,     *)
(* unlike in the Rust library, and the sink's thread sleeps on an          *)
(* auto-reset event.                                                       *)
(*                                                                         *)
(* What is in a block is EventStream's and Transit's business: here a      *)
(* stream is empty or not, and an event finds its block full or not.       *)
(***************************************************************************)
EXTENDS Integers, Sequences, FiniteSets

CONSTANTS
    Threads,      \* the threads of the game, and
    Main,         \*   the one that loads and unloads the plugin
    Worker,       \* the sink's thread (HttpEventSink::Run)
    Log, Metrics, \* the two streams shared by all threads
    None,
    Consoles,     \* values of the console variables: the kinds recorded
    Fillers,      \* bound: the <<thread, stream>> whose events fill a block,
    MaxBlocks,    \*   as long as the stream has not cut so many
    MaxFlushes    \* bound: calls of FlushMonitor::Flush, the last one included

Callers == Threads \cup {Worker}
Shared  == {Log, Metrics}
Streams == Shared \cup Callers       \* a thread stream is named after its thread
Kinds   == Shared \cup {"spans"}

(* What the sink is given; a block is known by its place in its stream. *)
Process       == <<"Process", None, 0>>
InitStream(s) == <<"InitStream", s, 0>>
Block(s, n)   == <<"Block", s, n>>

Messages ==
    {Process} \cup {InitStream(s) : s \in Streams} \cup ({"Block"} \X Streams \X Nat)

ASSUME UnrealAssumption ==
    /\ Main \in Threads /\ Worker \notin Threads
    /\ Log # Metrics /\ None \notin Streams /\ Shared \cap Callers = {}
    /\ Consoles \subseteq SUBSET Kinds /\ Consoles # {}
    /\ Fillers \subseteq Callers \X Streams
    /\ MaxBlocks \in Nat /\ MaxFlushes \in Nat
    /\ None \notin Messages

VARIABLES
    GDispatch,        \* the global pointer: "unset", "set", then "null"
    mutex,            \* LogMutex and MetricMutex: who holds them
    empty, blocks,    \* per stream: nothing in the block; blocks cut so far
    full,             \* per thread stream: FullThreshold = 0
    ptr, being_init,  \* the thread-local variables of GetCurrentThreadStream
    ThreadStreams,
    stack,            \* per thread: the steps it has to do, the next one first
    Queue, QueueSize, WakeupThread, RequestShutdown,  \* HttpEventSink
    current,          \* the callback that Run is about to call
    ready,            \* the authenticator: "no", "yes", then "notified"
    console, flushes,
    handled,          \* history: the messages that are done with
    owed              \* history: what a shutdown has to wait for

dispatch == <<GDispatch, mutex, empty, blocks, full, ptr, being_init, ThreadStreams>>
sink     == <<Queue, QueueSize, WakeupThread, RequestShutdown>>
run      == <<current, handled>>
env      == <<ready, console, flushes, owed>>
vars     == <<dispatch, stack, sink, run, env>>

-----------------------------------------------------------------------------
(* Steps. *)

Do(op)      == <<op, None>>
With(op, x) == <<op, x>>

At(t, op) == stack[t] # <<>> /\ Head(stack[t])[1] = op
Arg(t)    == Head(stack[t])[2]
Idle(t)   == stack[t] = <<>>

(* The step of t is replaced by what it calls. *)
Call(t, steps) == stack' = [stack EXCEPT ![t] = steps \o Tail(@)]

(* Mutant: the worker is woken up before there is something to do. *)
SubmitTriggerFirst(m) == <<Do("increment"), Do("trigger"), With("enqueue", m)>>

(* How the sink passes a message to its thread. *)
Submit(m) == <<Do("increment"), With("enqueue", m), Do("trigger")>>

(* FlushLogStreamImpl and FlushMetricStreamImpl: a span around them. *)
FlushImpl(s) == <<Do("span"), With("cut", s), Do("span")>>

(* ShouldSampleBlock: the console variable of the block's kind is set. *)
ShouldSampleBlock(s) == (IF s \in Shared THEN s ELSE "spans") \in console

(* OnProcessLogBlock and its like: a span around them too. *)
OnProcessBlock(s, n) ==
    <<Do("span")>> \o (IF ShouldSampleBlock(s) THEN Submit(Block(s, n)) ELSE <<>>)
      \o <<Do("span")>>

(* FlushMonitor::Flush *)
FlushAll == <<With("flush", Log), With("flush", Metrics), Do("mark"), Do("flush_thread")>>

(* Mutant: the worker asks for the shutdown before it looks at the queue. *)
CheckFirst == <<Do("check"), Do("drain"), Do("wait")>>

(* FormatBlockRequest, on the worker: spans open and close around it, its  *)
(* dependency extraction (whose ForEach has one of its own) and its two    *)
(* compressions; between them it logs that the block is sent.              *)
FormatBlockRequest ==
    <<Do("span"), Do("span"), Do("span"), Do("span"), Do("span"), With("queue", Log),
      Do("span"), Do("span"), Do("span"), Do("span"), Do("span")>>

(* An iteration of Run. *)
Iteration == <<Do("drain"), Do("check"), Do("wait")>>

Init ==
    /\ GDispatch = "unset"
    /\ mutex = [s \in Shared |-> None]
    /\ empty = [s \in Streams |-> TRUE]
    /\ blocks = [s \in Streams |-> 0]
    /\ full = [t \in Callers |-> FALSE]
    /\ ptr = [t \in Callers |-> FALSE]
    /\ being_init = [t \in Callers |-> FALSE]
    /\ ThreadStreams = {}
    /\ stack = [t \in Callers |-> CASE t = Main   -> <<Do("init")>>
                                    [] t = Worker -> Iteration
                                    [] OTHER      -> <<>>]
    /\ Queue = <<>>
    /\ QueueSize = 0
    /\ WakeupThread = FALSE
    /\ RequestShutdown = FALSE
    /\ current = None
    /\ ready = "no"
    /\ console \in Consoles
    /\ flushes = 0
    /\ handled = {}
    /\ owed = {}

-----------------------------------------------------------------------------
(***************************************************************************)
(* Dispatch.cpp: streams.                                                  *)
(***************************************************************************)

(* The events of t may bring s over its threshold. *)
MayFill(t, s) == <<t, s>> \in Fillers /\ blocks[s] < MaxBlocks

(* An event goes into a stream whose mutex is free; steps come next. *)
Push(t, s, steps) ==
    /\ mutex[s] = None
    /\ empty' = [empty EXCEPT ![s] = FALSE]
    /\ \/ Call(t, steps) /\ UNCHANGED mutex
       \/ /\ MayFill(t, s)
          /\ mutex' = [mutex EXCEPT ![s] = t]
          /\ Call(t, FlushImpl(s) \o steps)

(* QueueLogEntry and QueueMetric, with the dispatch already read. *)
QueueShared(t) ==
    /\ At(t, "queue")
    /\ Push(t, Arg(t), <<>>)
    /\ UNCHANGED <<GDispatch, blocks, full, ptr, being_init, ThreadStreams, sink, run, env>>

(* MICROMEGAS_IMETRIC on the way to steps: at once, unless it has to wait. *)
RecordMetric(t, steps) ==
    \/ GDispatch = "set" /\ Push(t, Metrics, steps)
    \/ /\ GDispatch = "set" => mutex[Metrics] # None
       /\ Call(t, IF GDispatch = "set" THEN <<With("queue", Metrics)>> \o steps ELSE steps)
       /\ UNCHANGED <<mutex, empty>>

(* FlushLogStream and FlushMetricStream *)
FlushShared(t) ==
    LET s == Arg(t) IN
    /\ At(t, "flush")
    /\ \/ GDispatch # "set" /\ Call(t, <<>>) /\ UNCHANGED mutex
       \/ /\ GDispatch = "set"
          /\ mutex[s] = None
          /\ mutex' = [mutex EXCEPT ![s] = t]
          /\ Call(t, FlushImpl(s))
    /\ UNCHANGED <<GDispatch, empty, blocks, full, ptr, being_init, ThreadStreams,
                   sink, run, env>>

(* Mutant: the stream stays locked while the sink has the block. *)
UnlockAfterSink(s) == UNCHANGED mutex

Unlock(s) == mutex' = IF s \in Shared THEN [mutex EXCEPT ![s] = None] ELSE mutex

(* Mutant: two blocks get the same place in the stream. *)
NextBlockSame(s) == blocks[s] + (IF blocks[s] = 1 THEN 0 ELSE 1)

NextBlock(s) == blocks[s] + 1

(* SwapBlocks, Close, unlock, then OnProcess*Block; nothing if it is empty. *)
CutBlock(t) ==
    LET s == Arg(t) IN
    /\ At(t, "cut")
    /\ Unlock(s)
    /\ \/ empty[s] /\ Call(t, <<>>) /\ UNCHANGED <<empty, blocks, full>>
       \/ /\ ~empty[s]
          /\ empty' = [empty EXCEPT ![s] = TRUE]
          /\ full' = IF s \in Shared THEN full ELSE [full EXCEPT ![s] = FALSE]
          /\ blocks' = [blocks EXCEPT ![s] = NextBlock(s)]
          /\ Call(t, OnProcessBlock(s, NextBlock(s)))
    /\ UNCHANGED <<GDispatch, ptr, being_init, ThreadStreams, sink, run, env>>

(* Mutant: the stream is usable before the sink knows of it. *)
AllocFirst(t, then) == <<Do("own")>> \o then \o Submit(InitStream(t))

(* AllocThreadStream and PublishThreadStream, then the thread may use it. *)
Alloc(t, then) == Submit(InitStream(t)) \o <<Do("own")>> \o then

(* GetCurrentThreadStream when the thread has no stream yet. *)
NewThreadStream(t, then) ==
    /\ ~ptr[t]
    /\ \/ /\ GDispatch = "set" /\ ~being_init[t]
          /\ being_init' = [being_init EXCEPT ![t] = TRUE]
          /\ ThreadStreams' = ThreadStreams \cup {t}
          /\ Call(t, Alloc(t, then))
       \/ /\ GDispatch # "set" \/ being_init[t]
          /\ Call(t, <<>>)
          /\ UNCHANGED <<being_init, ThreadStreams>>

Own(t) ==
    /\ At(t, "own")
    /\ ptr' = [ptr EXCEPT ![t] = TRUE]
    /\ Call(t, <<>>)
    /\ UNCHANGED <<GDispatch, mutex, empty, blocks, full, being_init, ThreadStreams,
                   sink, run, env>>

(* InitCurrentThreadStream *)
InitCurrentThreadStream(t) ==
    /\ At(t, "init_thread")
    /\ \/ NewThreadStream(t, <<>>)
       \/ ptr[t] /\ Call(t, <<>>) /\ UNCHANGED <<being_init, ThreadStreams>>
    /\ UNCHANGED <<GDispatch, mutex, empty, blocks, full, ptr, sink, run, env>>

(* QueueThreadEvent *)
QueueThreadEvent(t) ==
    /\ At(t, "span")
    /\ \/ NewThreadStream(t, <<Do("span")>>) /\ UNCHANGED empty
       \/ /\ ptr[t]
          /\ empty' = [empty EXCEPT ![t] = FALSE]
          /\ \/ ~full[t] /\ Call(t, <<>>)
             \/ /\ full[t] \/ MayFill(t, t)
                /\ Call(t, IF GDispatch = "set" THEN <<With("cut", t)>> ELSE <<>>)
          /\ UNCHANGED <<being_init, ThreadStreams>>
    /\ UNCHANGED <<GDispatch, mutex, blocks, full, ptr, sink, run, env>>

(* ForEachThreadStream(MarkStreamFull): the owners do not see it happen. *)
MarkStreamsFull(t) ==
    /\ At(t, "mark")
    /\ full' = IF GDispatch = "set" THEN [u \in Callers |-> full[u] \/ u \in ThreadStreams]
                                    ELSE full
    /\ Call(t, <<>>)
    /\ UNCHANGED <<GDispatch, mutex, empty, blocks, ptr, being_init, ThreadStreams,
                   sink, run, env>>

FlushCurrentThreadStream(t) ==
    /\ At(t, "flush_thread")
    /\ \/ NewThreadStream(t, <<With("cut", t)>>)
       \/ /\ ptr[t]
          /\ Call(t, IF GDispatch = "set" THEN <<With("cut", t)>> ELSE <<>>)
          /\ UNCHANGED <<being_init, ThreadStreams>>
    /\ UNCHANGED <<GDispatch, mutex, empty, blocks, full, ptr, sink, run, env>>

-----------------------------------------------------------------------------
(***************************************************************************)
(* HttpEventSink.cpp: what the callers of the sink do.                     *)
(***************************************************************************)

IncrementQueueSize(t) ==
    /\ At(t, "increment")
    /\ QueueSize' = QueueSize + 1
    /\ RecordMetric(t, <<>>)
    /\ UNCHANGED <<GDispatch, blocks, full, ptr, being_init, ThreadStreams, Queue,
                   WakeupThread, RequestShutdown, run, env>>

(* Mutant: a stack instead of a queue. *)
EnqueuedFirst(m) == <<m>> \o Queue

Enqueued(m) == Append(Queue, m)

Enqueue(t) ==
    /\ At(t, "enqueue")
    /\ Queue' = Enqueued(Arg(t))
    /\ Call(t, <<>>)
    /\ UNCHANGED <<dispatch, QueueSize, WakeupThread, RequestShutdown, run, env>>

Trigger(t) ==
    /\ At(t, "trigger")
    /\ WakeupThread' = TRUE
    /\ Call(t, <<>>)
    /\ UNCHANGED <<dispatch, Queue, QueueSize, RequestShutdown, run, env>>

-----------------------------------------------------------------------------
(***************************************************************************)
(* HttpEventSink::Run and SendBinaryRequest, on the worker.                *)
(***************************************************************************)

(* Dequeue until the queue is empty, if the authenticator can sign.  The   *)
(* counter follows the queue at once: no other thread reads it.            *)
Drain ==
    /\ At(Worker, "drain")
    /\ \/ /\ ready = "no" \/ Queue = <<>>
          /\ Call(Worker, <<>>)
          /\ UNCHANGED <<mutex, empty, Queue, QueueSize, current>>
       \/ /\ ready # "no" /\ Queue # <<>>
          /\ current' = Head(Queue)
          /\ Queue' = Tail(Queue)
          /\ QueueSize' = QueueSize - 1
          /\ RecordMetric(Worker, <<Do("format"), Do("span"), Do("send"), Do("span"),
                                    Do("drain")>>)
    /\ UNCHANGED <<GDispatch, blocks, full, ptr, being_init, ThreadStreams, WakeupThread,
                   RequestShutdown, handled, env>>

(* The first half of the callback: the body of the request.  Only that of  *)
(* a block records anything; the dispatch is set while the worker runs.    *)
FormatRequest ==
    /\ At(Worker, "format")
    /\ Call(Worker, IF current[1] = "Block" THEN FormatBlockRequest ELSE <<>>)
    /\ UNCHANGED <<dispatch, sink, run, env>>

(* SendBinaryRequest, the second half.  Signing or starting the request    *)
(* may fail, and the message is given up; the engine's log hands what      *)
(* UE_LOG says of it to the LogBridge on a thread of the game (Event).     *)
SendBinaryRequest ==
    /\ At(Worker, "send")
    /\ current' = None
    /\ handled' = handled \cup {current}
    /\ Call(Worker, <<>>)
    /\ UNCHANGED <<dispatch, sink, env>>

CheckShutdown ==
    /\ At(Worker, "check")
    /\ stack' = [stack EXCEPT ![Worker] = IF RequestShutdown THEN <<>> ELSE Tail(@)]
    /\ UNCHANGED <<dispatch, sink, run, env>>

IsBusy == QueueSize > 0

(* The event, or its one minute timeout; then FlushMonitor::Tick. *)
Wait ==
    /\ At(Worker, "wait")
    /\ WakeupThread' = FALSE
    /\ \/ Call(Worker, Iteration) /\ UNCHANGED flushes
       \/ /\ ~IsBusy /\ flushes < MaxFlushes
          /\ flushes' = flushes + 1
          /\ Call(Worker, FlushAll \o Iteration)
    /\ UNCHANGED <<dispatch, Queue, QueueSize, RequestShutdown, run, ready, console, owed>>

-----------------------------------------------------------------------------
(***************************************************************************)
(* The plugin's module on the main thread, and the game's threads.         *)
(***************************************************************************)

(* InitHttpEventSink: Dispatch::Init publishes the dispatch, then OnStartup *)
(* and OnInit*Stream tell the sink.                                         *)
DispatchInit ==
    /\ At(Main, "init")
    /\ GDispatch' = "set"
    /\ Call(Main, <<Do("init_thread")>> \o Submit(Process) \o Submit(InitStream(Log))
                    \o Submit(InitStream(Metrics)))
    /\ UNCHANGED <<mutex, empty, blocks, full, ptr, being_init, ThreadStreams, sink, run, env>>

(* A log entry, a metric or a span of the game; an entry of the engine's   *)
(* log (LogBridge::Serialize) is a log entry between two span events.      *)
Event(t, s) ==
    /\ t \in Threads
    /\ Idle(t)
    /\ GDispatch = "set"
    /\ stack' = [stack EXCEPT ![t] = IF s = t THEN <<Do("span")>> ELSE <<With("queue", s)>>]
    /\ UNCHANGED <<dispatch, sink, run, env>>

(* The console command telemetry.flush, or the end of a commandlet. *)
OnFlush ==
    /\ Idle(Main)
    /\ GDispatch = "set"
    /\ flushes < MaxFlushes
    /\ flushes' = flushes + 1
    /\ stack' = [stack EXCEPT ![Main] = FlushAll]
    /\ UNCHANGED <<dispatch, sink, run, ready, console, owed>>

(* PreUnloadCallback, then ShutdownModule; OnShutdown logs first. *)
UnloadModule ==
    /\ Idle(Main)
    /\ GDispatch = "set"
    /\ flushes < MaxFlushes
    /\ flushes' = flushes + 1
    /\ stack' = [stack EXCEPT ![Main] =
                    FlushAll \o <<With("queue", Log), Do("shutdown"), Do("trigger"),
                                  Do("join"), Do("clear")>>]
    /\ UNCHANGED <<dispatch, sink, run, ready, console, owed>>

(* A worker that is past its look at the queue owes nothing any more. *)
RequestTheShutdown ==
    /\ At(Main, "shutdown")
    /\ RequestShutdown' = TRUE
    /\ owed' = IF ready # "no" /\ ~At(Worker, "check")
               THEN {Queue[i] : i \in DOMAIN Queue} ELSE {}
    /\ Call(Main, <<>>)
    /\ UNCHANGED <<dispatch, Queue, QueueSize, WakeupThread, run, ready, console, flushes>>

WaitForCompletion ==
    /\ At(Main, "join")
    /\ stack[Worker] = <<>>
    /\ Call(Main, <<>>)
    /\ UNCHANGED <<dispatch, sink, run, env>>

ClearDispatch ==
    /\ At(Main, "clear")
    /\ GDispatch' = "null"
    /\ Call(Main, <<>>)
    /\ UNCHANGED <<mutex, empty, blocks, full, ptr, being_init, ThreadStreams, sink, run, env>>

(* The authenticator gets its token, then calls OnAuthUpdated. *)
AuthReady ==
    /\ ready = "no"
    /\ ready' = "yes"
    /\ UNCHANGED <<dispatch, stack, sink, run, console, flushes, owed>>

OnAuthUpdated ==
    /\ ready = "yes"
    /\ ready' = "notified"
    /\ WakeupThread' = TRUE
    /\ UNCHANGED <<dispatch, stack, Queue, QueueSize, RequestShutdown, run, console,
                   flushes, owed>>

-----------------------------------------------------------------------------

Step(t) ==
    \/ QueueShared(t) \/ FlushShared(t) \/ CutBlock(t) \/ Own(t)
    \/ InitCurrentThreadStream(t) \/ QueueThreadEvent(t)
    \/ MarkStreamsFull(t) \/ FlushCurrentThreadStream(t)
    \/ IncrementQueueSize(t) \/ Enqueue(t) \/ Trigger(t)

WorkerStep ==
    \/ Drain \/ FormatRequest \/ SendBinaryRequest \/ CheckShutdown

MainStep == DispatchInit \/ RequestTheShutdown \/ WaitForCompletion \/ ClearDispatch

Next ==
    \/ \E t \in Callers : Step(t)
    \/ WorkerStep \/ Wait
    \/ MainStep \/ OnFlush \/ UnloadModule
    \/ \E t \in Threads, s \in Streams : s \in Shared \cup {t} /\ Event(t, s)
    \/ AuthReady \/ OnAuthUpdated

Spec == Init /\ [][Next]_vars

-----------------------------------------------------------------------------
(***************************************************************************)
(* Properties                                                              *)
(***************************************************************************)

(***************************************************************************)
(* No message is overlooked, although the counter and the event are kept   *)
(* apart from the queue: the sink is busy as long as a message waits, and  *)
(* when the worker sleeps over messages it could send, the event is set or *)
(* someone is about to set it, so that they do not wait for the timeout.   *)
(***************************************************************************)
NoLostWakeup ==
    Queue # <<>> =>
        /\ IsBusy
        /\ At(Worker, "wait") /\ ready # "no"
             => WakeupThread \/ ready = "yes" \/ \E t \in Callers : At(t, "trigger")

(* What the sink holds, in the order in which it sends it. *)
Waiting == (IF current = None THEN <<>> ELSE <<current>>) \o Queue

(* The thread has yet to enqueue m. *)
Holds(t, m) == \E i \in DOMAIN stack[t] : stack[t][i] = With("enqueue", m)

(***************************************************************************)
(* A thread stream is announced before any of its blocks, even when the    *)
(* announcement itself records the thread's first spans.  (Not so for the  *)
(* log and the metrics: the dispatch is published before they are.)        *)
(***************************************************************************)
ThreadStreamFirst ==
    \A i \in DOMAIN Waiting : \A t \in Callers :
        Waiting[i][1] = "Block" /\ Waiting[i][2] = t =>
            /\ ~\E u \in Callers : Holds(u, InitStream(t))
            /\ \A j \in i .. Len(Waiting) : Waiting[j] # InitStream(t)

(***************************************************************************)
(* However the flushes of several threads, and the flushes nested in them, *)
(* overtake one another after the cut (one step here: swap, close, unlock) *)
(* every block that was cut is in exactly one place: held by a thread,     *)
(* queued, handed to the http module or given up.  Only a kind that is     *)
(* switched off is missing.                                                *)
(***************************************************************************)
BlocksConserved ==
    \A s \in Streams : \A n \in 1 .. blocks[s] :
        LET m == Block(s, n)
            places == {<<"thread", t>> : t \in {t \in Callers : Holds(t, m)}}
                        \cup {<<"waiting", i>> : i \in {i \in DOMAIN Waiting : Waiting[i] = m}}
                        \cup {<<"handled", x>> : x \in {m} \cap handled}
        IN  Cardinality(places) = 1 \/ (~ShouldSampleBlock(s) /\ places = {})

(* A thread waits for a stream's mutex, which u holds. *)
WaitsFor(t, u) == (At(t, "queue") \/ At(t, "flush")) /\ mutex[Arg(t)] = u

(***************************************************************************)
(* Threads never wait for each other in a circle (of two: there are two    *)
(* mutexes), the worker that logs each block it formats included; and a    *)
(* thread waits for a mutex that it holds in one case only: the span that  *)
(* opens a flush of the metrics stream creates the thread's stream, or     *)
(* flushes it while spans are recorded, and the sink counts that message   *)
(* with a metric.                                                          *)
(***************************************************************************)
DeadlockOnlyByReentry ==
    \A t, u \in Callers :
        WaitsFor(t, u) /\ WaitsFor(u, t)
          => t = u /\ Arg(t) = Metrics /\ (~ptr[t] \/ "spans" \in console)

(***************************************************************************)
(* A shutdown waits for what was queued before it was requested, unless    *)
(* the worker had just found the queue empty or cannot sign requests.      *)
(***************************************************************************)
ShutdownDrains ==
    stack[Worker] = <<>> => owed \subseteq handled

Contract == INSTANCE SinkContract WITH
    Message    <- Messages,
    Retried    <- {},
    MaxRetries <- 0,
    open       <- stack[Worker] # <<>>,
    pending    <- IF stack[Worker] = <<>> THEN <<>> ELSE Waiting,
    tries      <- 0,
    request    <- None

(***************************************************************************)
(* Like the Rust sink, the Unreal one is a queue served in order by one    *)
(* thread, which tries each message once before it goes on to the next.    *)
(***************************************************************************)
ImplementsContract == Contract!Spec
=============================================================================
